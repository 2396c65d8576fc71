---------------------------- MODULE InstalledRuns ----------------------------
(***************************************************************************)
(* One call of the runner core from beginning to end                       *)
(* (crates/baudbound-core/src/lib.rs, run_installed_with_trigger_in_stack): *)
(* the checks, the overlap decision of the trigger, the wait for a permit,  *)
(* the checks again, the run the tracker and the blacklist know of, nested  *)
(* calls that share the caller's cancellation token, the record.            *)
(*                                                                         *)
(* The execution queue is its abstract specification, Admission.            *)
(***************************************************************************)
EXTENDS Admission

CONSTANTS
  NoActivation,
  Events,       \* what calls ask for: an overlap option, or "Manual" for none
  Severities,   \* what the blacklist may say of a script
  BadPackages   \* whether an installed package may be unreadable or unfit to run

Overlaps == {"Queue", "Skip", "Stop", "Restart"}

ASSUME InstalledRunsAssumption ==
  /\ IsFiniteSet(Activations)
  /\ Unlimited \notin Nat
  /\ \A p \in Policies : {p.max_active_runs_global, p.max_active_runs_per_script} \subseteq Nat \cup {Unlimited}
  /\ NoScript \notin Scripts
  /\ NoActivation \notin Activations
  /\ Events \subseteq Overlaps \cup {"Manual"}
  /\ Severities \subseteq {"none", "high", "critical"}
  /\ BadPackages \in BOOLEAN

VARIABLES
  stage,        \* where the call stands
  script,
  event,        \* what the call asks for, until it is decided
  caller,       \* the run that made a nested call
  root,         \* the top-level call whose cancellation token it uses
  result,       \* what the last call of an activation returned
  started,      \* runs the observers know of: the tracker and the blacklist
  cancelled,    \* top-level calls whose token is cancelled
  enabled,      \* scripts enabled in the store
  severity      \* the blacklist's verdict on each script

callVars == <<stage, script, event, caller, root, result>>
runVars == <<callVars, started, cancelled>>
settings == <<enabled, severity>>
vars == <<admissionVars, runVars, settings>>

\* The stages in which a call has its permit.
Permitted == {"checking", "starting", "running", "finished"}

-----------------------------------------------------------------------------
(* Helpers. *)

BlocksExecution(s) == severity[s] # "none"
MayRun(s) == s \in enabled /\ ~BlocksExecution(s)

\* What the second look at the script finds.
MayRunAsBefore(s) == ~BlocksExecution(s)
MayStillRun(s) == MayRun(s)

HasChild(a) == \E c \in Activations : caller[c] = a
OnlyTheCaller(a) == {script[a]}
CallStack(a) == {script[x] : x \in {y \in Activations : root[y] = root[a]}}

RunsOf(s) == {a \in started : script[a] = s}
IsActive(s) == RunsOf(s) # {}
TokensOfTheWaiting(s) == {root[a] : a \in {x \in Activations : InLine(x, s)}}
TokensOf(s) == {root[a] : a \in RunsOf(s)}

GoesTo(a, st) == stage' = [stage EXCEPT ![a] = st]

KeepCall == UNCHANGED <<script, event, caller, root, result>>

AsksForAPermit(a) ==
  /\ GoesTo(a, "asking")
  /\ event' = [event EXCEPT ![a] = "Manual"]
  /\ UNCHANGED <<script, caller, root, result>>

TokenOfItsOwn(p, a) == a

\* A nested call has the token of the run it is called from.
TokenOf(p, a) == root[p]

Opens(a, s, e, c, r, st) ==
  /\ GoesTo(a, st)
  /\ script' = [script EXCEPT ![a] = s]
  /\ event' = [event EXCEPT ![a] = e]
  /\ caller' = [caller EXCEPT ![a] = c]
  /\ root' = [root EXCEPT ![a] = r]
  /\ result' = [result EXCEPT ![a] = "None"]

\* The call returns, and its token with it.
Returns(a, res) ==
  /\ GoesTo(a, "idle")
  /\ script' = [script EXCEPT ![a] = NoScript]
  /\ event' = [event EXCEPT ![a] = "Manual"]
  /\ caller' = [caller EXCEPT ![a] = NoActivation]
  /\ root' = [root EXCEPT ![a] = NoActivation]
  /\ result' = [result EXCEPT ![a] = res]

-----------------------------------------------------------------------------
(* The call up to its permit. *)

\* A script that is not there, disabled or restricted is refused at once.
Begin(a, s, e) ==
  /\ stage[a] = "idle"
  /\ MayRun(s)
  /\ Opens(a, s, e, NoActivation, a, IF e = "Manual" THEN "asking" ELSE "deciding")
  /\ UNCHANGED <<admissionVars, started, cancelled, settings>>

\* The runtime looks at the token before every step, so a cancelled run makes
\* no call.
BeginNested(p, a, s) ==
  /\ stage[p] = "running"
  /\ ~HasChild(p)
  /\ root[p] \notin cancelled
  /\ stage[a] = "idle"
  /\ MayRun(s)
  /\ s \notin CallStack(p)
  /\ Opens(a, s, "Manual", p, TokenOf(p, a), "asking")
  /\ UNCHANGED <<admissionVars, started, cancelled, settings>>

\* A package that cannot be read leaves the default option, to queue.
Decide(a) ==
  /\ stage[a] = "deciding"
  /\ \/ /\ ~IsActive(script[a]) \/ event[a] = "Queue" \/ BadPackages
        /\ AsksForAPermit(a)
     \/ IsActive(script[a]) /\ event[a] # "Queue" /\ GoesTo(a, "acting") /\ KeepCall
  /\ UNCHANGED <<admissionVars, started, cancelled, settings>>

Skip(a) ==
  /\ stage[a] = "acting"
  /\ event[a] = "Skip"
  /\ Returns(a, "Skipped")
  /\ cancelled' = cancelled \ {a}
  /\ UNCHANGED <<admissionVars, started, settings>>

Stop(a) ==
  /\ stage[a] = "acting"
  /\ event[a] = "Stop"
  /\ Returns(a, "Stopped")
  /\ cancelled' = (cancelled \cup TokensOf(script[a])) \ {a}
  /\ UNCHANGED <<admissionVars, started, settings>>

Restart(a) ==
  /\ stage[a] = "acting"
  /\ event[a] = "Restart"
  /\ AsksForAPermit(a)
  /\ cancelled' = cancelled \cup TokensOf(script[a])
  /\ UNCHANGED <<admissionVars, started, settings>>

\* The queue is full, or a nested wait could never end.
Refuse(a) ==
  /\ stage[a] = "asking"
  /\ ~MayJoin(script[a]) \/ caller[a] # NoActivation
  /\ Returns(a, "Refused")
  /\ cancelled' = cancelled \ {a}
  /\ UNCHANGED <<admissionVars, started, settings>>

Proceeds(a) == ~BlocksExecution(script[a]) /\ root[a] \notin cancelled

\* Whoever leaves the queue because the script is restricted asks the blacklist
\* once more, for the message of the error.
Withdraws(a) ==
  /\ UNCHANGED <<started, settings>>
  /\ IF BlocksExecution(script[a])
     THEN GoesTo(a, "rejected") /\ KeepCall /\ UNCHANGED cancelled
     ELSE Returns(a, "Refused") /\ cancelled' = cancelled \ {a}

\* A newcomer that leaves at once still drops the head of a full line.
AskInVain(a) ==
  /\ stage[a] = "asking"
  /\ ~Proceeds(a)
  /\ MayJoin(script[a])
  /\ IF IsLong(script[a]) THEN LeaveLine(1, script[a]) ELSE UNCHANGED admissionVars
  /\ Withdraws(a)

Ask(a) ==
  /\ stage[a] = "asking"
  /\ Proceeds(a)
  /\ \/ GoStraightIn(a, script[a]) /\ GoesTo(a, "checking")
     \/ ~IsNext(script[a]) /\ JoinLine(a, script[a]) /\ GoesTo(a, "queueing")
  /\ KeepCall
  /\ UNCHANGED <<started, cancelled, settings>>

Admitted(a) ==
  /\ stage[a] = "queueing"
  /\ Proceeds(a)
  /\ GoIn(a, script[a])
  /\ GoesTo(a, "checking")
  /\ KeepCall
  /\ UNCHANGED <<started, cancelled, settings>>

Withdraw(a) ==
  /\ stage[a] = "queueing"
  /\ ~Proceeds(a)
  /\ \E i \in DOMAIN line[script[a]] : line[script[a]][i] = a /\ LeaveLine(i, script[a])
  /\ Withdraws(a)

\* A newer activation took its place.
Superseded(a) ==
  /\ stage[a] = "queueing"
  /\ ~InLine(a, script[a])
  /\ Returns(a, "Refused")
  /\ cancelled' = cancelled \ {a}
  /\ UNCHANGED <<admissionVars, started, settings>>

Rejected(a) ==
  /\ stage[a] = "rejected"
  /\ BlocksExecution(script[a])
  /\ Returns(a, "Refused")
  /\ cancelled' = cancelled \ {a}
  /\ UNCHANGED <<admissionVars, started, settings>>

\* If the restriction is gone by then, the call panics and every frame of its
\* thread is unwound.
Panic(a) ==
  /\ stage[a] = "rejected"
  /\ ~BlocksExecution(script[a])
  /\ LET frames == {b \in Activations : root[b] = root[a]}
         Unwound(f, x) == [b \in Activations |-> IF b \in frames THEN x ELSE f[b]]
     IN /\ holds' = Unwound(holds, NoScript)
        /\ stage' = Unwound(stage, "idle")
        /\ script' = Unwound(script, NoScript)
        /\ event' = Unwound(event, "Manual")
        /\ caller' = Unwound(caller, NoActivation)
        /\ root' = Unwound(root, NoActivation)
        /\ result' = Unwound(result, "Panicked")
        /\ started' = started \ frames
        /\ cancelled' = cancelled \ frames
  /\ UNCHANGED <<policy, line, settings>>

-----------------------------------------------------------------------------
(* The call with its permit. *)

\* The script is read again: it may have been disabled, restricted or removed
\* during the wait.
Check(a) ==
  /\ stage[a] = "checking"
  /\ MayStillRun(script[a])
  /\ GoesTo(a, "starting")
  /\ KeepCall
  /\ UNCHANGED <<admissionVars, started, cancelled, settings>>

\* Not to be run any more, or unreadable; or incompatible, not approved or
\* refused by the security policy, each of these with a failed record.
CheckFails(a, res) ==
  /\ stage[a] = "checking"
  /\ \/ res = "Refused" /\ (BadPackages \/ ~MayStillRun(script[a]))
     \/ res = "Failed" /\ BadPackages /\ MayStillRun(script[a])
  /\ GiveBack(a)
  /\ Returns(a, res)
  /\ cancelled' = cancelled \ {a}
  /\ UNCHANGED <<started, settings>>

\* The observers are told, the tracker first.
Start(a) ==
  /\ stage[a] = "starting"
  /\ GoesTo(a, "running")
  /\ started' = started \cup {a}
  /\ KeepCall
  /\ UNCHANGED <<admissionVars, cancelled, settings>>

\* Settings, secrets or the graph of the program do not resolve.
StartFails(a) ==
  /\ stage[a] = "starting"
  /\ GoesTo(a, "finished")
  /\ KeepCall
  /\ UNCHANGED <<admissionVars, started, cancelled, settings>>

Ends(a) ==
  /\ stage[a] = "running"
  /\ ~HasChild(a)
  /\ GoesTo(a, "finished")
  /\ started' = started \ {a}
  /\ KeepCall
  /\ UNCHANGED <<admissionVars, cancelled, settings>>

\* The run reaches its end or fails; nothing says that it ever does.
Complete(a) == Ends(a)

\* The runtime looks at the token at every step and in every wait.
Abort(a) == root[a] \in cancelled /\ Ends(a)

\* The record is appended, and the permit dropped on the way out.
Finish(a) ==
  /\ stage[a] = "finished"
  /\ GiveBack(a)
  /\ \E res \in {"Started", "Failed"} : Returns(a, res)
  /\ cancelled' = cancelled \ {a}
  /\ UNCHANGED <<started, settings>>

-----------------------------------------------------------------------------
(* What others do meanwhile. *)

\* The service shuts down, or the caller gives up.
Cancel(a) ==
  /\ stage[a] # "idle"
  /\ root[a] = a
  /\ a \notin cancelled
  /\ cancelled' = cancelled \cup {a}
  /\ UNCHANGED <<admissionVars, callVars, started, settings>>

Disable(s) ==
  /\ s \in enabled
  /\ enabled' = enabled \ {s}
  /\ UNCHANGED <<admissionVars, runVars, severity>>

Enable(s) ==
  /\ s \notin enabled
  /\ ~BlocksExecution(s)
  /\ enabled' = enabled \cup {s}
  /\ UNCHANGED <<admissionVars, runVars, severity>>

\* New entries: restricted scripts are disabled, critical ones have their runs
\* cancelled.
RefreshBlacklist(s, v) ==
  /\ severity' = [severity EXCEPT ![s] = v]
  /\ enabled' = {x \in enabled : severity'[x] = "none"}
  /\ cancelled' = cancelled \cup UNION {TokensOf(x) : x \in {y \in Scripts : severity'[y] = "critical"}}
  /\ UNCHANGED <<admissionVars, callVars, started>>

\* A reload shares queue and tracker with the old core and sets the new limits.
Reload(p) ==
  /\ p # policy
  /\ Reconfigure(p)
  /\ UNCHANGED <<runVars, settings>>

-----------------------------------------------------------------------------

Init ==
  /\ InitAdmission
  /\ stage = [a \in Activations |-> "idle"]
  /\ script = [a \in Activations |-> NoScript]
  /\ event = [a \in Activations |-> "Manual"]
  /\ caller = [a \in Activations |-> NoActivation]
  /\ root = [a \in Activations |-> NoActivation]
  /\ result = [a \in Activations |-> "None"]
  /\ started = {}
  /\ cancelled = {}
  /\ enabled = Scripts
  /\ severity = [s \in Scripts |-> "none"]

\* What the thread of a call does until its run is under way, and after it.
Step(a) ==
  \/ Decide(a) \/ Skip(a) \/ Stop(a) \/ Restart(a)
  \/ Refuse(a) \/ AskInVain(a) \/ Ask(a)
  \/ Admitted(a) \/ Withdraw(a) \/ Superseded(a) \/ Rejected(a) \/ Panic(a)
  \/ Check(a) \/ (\E res \in {"Refused", "Failed"} : CheckFails(a, res))
  \/ Start(a) \/ StartFails(a) \/ Finish(a)

Others ==
  \/ \E s \in Scripts : Disable(s)
  \/ \E s \in Scripts : Enable(s)
  \/ \E s \in Scripts, v \in Severities : RefreshBlacklist(s, v)
  \/ \E p \in Policies : Reload(p)

Next ==
  \/ \E a \in Activations, s \in Scripts, e \in Events : Begin(a, s, e)
  \/ \E p, a \in Activations, s \in Scripts : BeginNested(p, a, s)
  \/ \E a \in Activations : Step(a)
  \/ \E a \in Activations : Complete(a)
  \/ \E a \in Activations : Abort(a)
  \/ \E a \in Activations : Cancel(a)
  \/ Others

Spec == Init /\ [][Next]_vars

\* Threads go on, and the runtime notices a cancelled token.  A run need not
\* end by itself: it may wait for input or for a timer for ever.
Fairness == \A a \in Activations : WF_vars(Step(a)) /\ WF_vars(Abort(a))

FairSpec == Spec /\ Fairness

-----------------------------------------------------------------------------
(* Properties. *)

Calls == {a \in Activations : stage[a] # "idle"}
StopIsDecided(s) ==
  \E a \in Activations : script[a] = s /\ event[a] = "Stop" /\ stage[a] \in {"deciding", "acting"}
WithPermit == {a \in Activations : stage[a] \in Permitted}

(* No script runs inside itself, at whatever depth of nested calls.         *)
NoScriptCallsItself ==
  \A a, b \in Calls : a # b /\ root[a] = root[b] => script[a] # script[b]

(* A script that is disabled while its activation waits is not run when the *)
(* permit comes.                                                            *)
NothingDisabledStarts ==
  [][\A a \in Activations :
       stage[a] # "starting" /\ stage'[a] = "starting" => script[a] \in enabled]_vars

(* A stop that has reached the core takes effect, if the package can be     *)
(* read: the runs in flight end, even if they would never end by themselves *)
(* and use up the limit on runs, for a stop asks for no permit (lib.rs,     *)
(* lines 721-724).  That it reaches the core while they run is not promised *)
(* here: the executor of the service keeps it back when its own threads use *)
(* up the same limit (TriggerPipeline, Submit).                             *)
StopsTakeEffect ==
  \A a \in Activations :
    (a \in started /\ StopIsDecided(script[a])) ~> (a \notin started)

(* Cancelling a call ends it, whether it waits, runs or is inside a nested  *)
(* call that would never end by itself.                                     *)
CancelledCallsEnd ==
  \A a \in Activations : (stage[a] # "idle" /\ root[a] \in cancelled) ~> (stage[a] = "idle")

=============================================================================
