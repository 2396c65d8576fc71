----------------------- MODULE TriggerPipelineProofs -----------------------
(* Theorems about InstalledRuns, by itself and behind an executor, for any   *)
(* scripts, calls and policies.                                              *)
EXTENDS TriggerPipeline, FiniteSetTheorems, TLAPS

\* What a step of the core does to the calls: a run asked for by hand is one of
\* the pipeline's, whatever Events are.
CoreStep ==
  \/ \E a \in Activations, s \in Scripts, e \in Events \cup {"Manual"} : Begin(a, s, e)
  \/ \E p, a \in Activations, s \in Scripts : BeginNested(p, a, s)
  \/ \E a \in Activations : Step(a) \/ Complete(a) \/ Abort(a) \/ Cancel(a)
  \/ Others

-----------------------------------------------------------------------------
(* The five things a step can do to the calls.                               *)

Stages == {"idle", "deciding", "acting", "asking", "queueing", "rejected",
           "checking", "starting", "running", "finished"}

CallsTyped ==
  /\ stage \in [Activations -> Stages]
  /\ script \in [Activations -> Scripts \cup {NoScript}]
  /\ caller \in [Activations -> Activations \cup {NoActivation}]
  /\ root \in [Activations -> Activations \cup {NoActivation}]

Frames(a) == {b \in Activations : root[b] = root[a]}

Stays == UNCHANGED <<stage, script, caller, root>>

Proceed(a, st) ==
  /\ stage[a] # "idle" /\ st \in Stages \ {"idle"}
  /\ stage[a] = "running" => ~HasChild(a)
  /\ stage' = [stage EXCEPT ![a] = st]
  /\ UNCHANGED <<script, caller, root>>

Leave(a) ==
  /\ stage[a] \notin {"idle", "running"}
  /\ stage' = [stage EXCEPT ![a] = "idle"]
  /\ script' = [script EXCEPT ![a] = NoScript]
  /\ caller' = [caller EXCEPT ![a] = NoActivation]
  /\ root' = [root EXCEPT ![a] = NoActivation]

Unwind(a) ==
  /\ stage[a] # "idle"
  /\ stage' = [b \in Activations |-> IF b \in Frames(a) THEN "idle" ELSE stage[b]]
  /\ script' = [b \in Activations |-> IF b \in Frames(a) THEN NoScript ELSE script[b]]
  /\ caller' = [b \in Activations |-> IF b \in Frames(a) THEN NoActivation ELSE caller[b]]
  /\ root' = [b \in Activations |-> IF b \in Frames(a) THEN NoActivation ELSE root[b]]

EnterAt(a, s, c, r, st) ==
  /\ stage[a] = "idle" /\ st \in Stages \ {"idle", "running"}
  /\ stage' = [stage EXCEPT ![a] = st]
  /\ script' = [script EXCEPT ![a] = s]
  /\ caller' = [caller EXCEPT ![a] = c]
  /\ root' = [root EXCEPT ![a] = r]

\* By a call of its own, or from a run that makes no other call.
Enter(a, s) ==
  \/ \E st \in Stages : EnterAt(a, s, NoActivation, a, st)
  \/ \E p \in Activations, st \in Stages :
       /\ stage[p] = "running" /\ ~HasChild(p) /\ s \notin CallStack(p)
       /\ EnterAt(a, s, p, root[p], st)

LEMMA StepShape ==
  ASSUME NEW a \in Activations, Step(a) \/ Complete(a) \/ Abort(a) \/ Cancel(a)
  PROVE  Stays \/ (\E st \in Stages : Proceed(a, st)) \/ Leave(a) \/ Unwind(a)
<1>1. ASSUME stage[a] \in {"deciding", "acting", "asking", "queueing", "rejected", "checking", "finished"},
             NEW res, Returns(a, res)
      PROVE  Leave(a)
  BY <1>1 DEF Returns, GoesTo, Leave
<1>2. ASSUME stage[a] \in Stages \ {"idle", "running"}, NEW st \in Stages \ {"idle"}, GoesTo(a, st),
             UNCHANGED <<script, caller, root>>
      PROVE  \E x \in Stages : Proceed(a, x)
  BY <1>2 DEF GoesTo, Proceed, Stages
<1>3. CASE Decide(a)
  BY <1>2, <1>3 DEF Decide, AsksForAPermit, KeepCall, Stages
<1>4. CASE Skip(a) \/ Stop(a) \/ Refuse(a) \/ Superseded(a) \/ Rejected(a)
  BY <1>1, <1>4 DEF Skip, Stop, Refuse, Superseded, Rejected
<1>5. CASE Restart(a)
  BY <1>2, <1>5 DEF Restart, AsksForAPermit, Stages
<1>6. CASE AskInVain(a) \/ Withdraw(a)
  BY <1>1, <1>2, <1>6 DEF AskInVain, Withdraw, Withdraws, KeepCall, Stages
<1>7. CASE Ask(a)
  BY <1>2, <1>7 DEF Ask, KeepCall, Stages
<1>8. CASE Admitted(a) \/ Check(a) \/ Start(a) \/ StartFails(a)
  BY <1>2, <1>8 DEF Admitted, Check, Start, StartFails, KeepCall, Stages
<1>9. CASE Panic(a)
  BY <1>9 DEF Panic, Unwind, Frames
<1>10. ASSUME NEW res, CheckFails(a, res) PROVE Leave(a)
  BY <1>1, <1>10 DEF CheckFails
<1>11. CASE Finish(a)
  BY <1>1, <1>11 DEF Finish
<1>12. CASE Complete(a) \/ Abort(a)
  BY <1>12 DEF Complete, Abort, Ends, KeepCall, GoesTo, Proceed, Stages
<1>13. CASE Cancel(a)
  BY <1>13 DEF Cancel, callVars, Stays
<1> QED
  BY <1>3, <1>4, <1>5, <1>6, <1>7, <1>8, <1>9, <1>10, <1>11, <1>12, <1>13 DEF Step

LEMMA CoreShape ==
  ASSUME CoreStep
  PROVE  \/ Stays
         \/ \E a \in Activations : \/ \E s \in Scripts : Enter(a, s)
                                   \/ \E st \in Stages : Proceed(a, st)
                                   \/ Leave(a) \/ Unwind(a)
<1>1. ASSUME NEW a \in Activations, NEW s \in Scripts, NEW e, Begin(a, s, e) PROVE Enter(a, s)
  BY <1>1 DEF Begin, Opens, GoesTo, Enter, EnterAt, Stages
<1>2. ASSUME NEW p \in Activations, NEW a \in Activations, NEW s \in Scripts, BeginNested(p, a, s)
      PROVE  Enter(a, s)
  BY <1>2 DEF BeginNested, Opens, GoesTo, TokenOf, Enter, EnterAt, Stages
<1>3. Others => Stays
  BY DEF Others, Disable, Enable, RefreshBlacklist, Reload, Reconfigure, runVars, callVars, Stays
<1> QED BY <1>1, <1>2, <1>3, StepShape DEF CoreStep

-----------------------------------------------------------------------------
(* The calls of a thread.                                                    *)

IdleIsClean ==
  \A a \in Activations : stage[a] = "idle" =>
    script[a] = NoScript /\ caller[a] = NoActivation /\ root[a] = NoActivation

\* A live call has a script and a token, a nested one that of its caller, which
\* waits for it in its run.
LiveIsRooted ==
  \A a \in Activations : stage[a] # "idle" =>
    /\ script[a] \in Scripts
    /\ root[a] \in Activations /\ root[root[a]] = root[a]
    /\ caller[a] = NoActivation => root[a] = a
    /\ caller[a] # NoActivation =>
         caller[a] \in Activations /\ stage[caller[a]] = "running" /\ root[caller[a]] = root[a]

\* Whoever follows the callers gets to a call nobody made.
CallersEnd ==
  \A S \in SUBSET Activations : (\A b \in S : caller[b] \in S) => S = {}

CallTree == CallsTyped /\ IdleIsClean /\ LiveIsRooted /\ CallersEnd /\ NoScriptCallsItself

\* The frames of a thread outlive the calls made in them: a call that is not in
\* its run is nobody's root but its own.
LEMMA RootsStayForTheirFrames ==
  ASSUME CallTree, NEW a \in Activations, stage[a] # "running", NEW b \in Activations, root[b] = a
  PROVE  b = a
<1> DEFINE S == {c \in Activations : root[c] = a /\ c # a}
<1>1. ASSUME NEW c \in S PROVE caller[c] \in S
  <2>1. stage[c] # "idle" /\ caller[c] # NoActivation
    BY InstalledRunsAssumption DEF CallTree, IdleIsClean, LiveIsRooted
  <2> QED BY <2>1 DEF CallTree, LiveIsRooted
<1>2. S = {}
  BY <1>1 DEF CallTree, CallersEnd
<1> QED BY <1>2

LEMMA EnterKeepsTree ==
  ASSUME CallTree, NEW a \in Activations, NEW s \in Scripts, Enter(a, s)
  PROVE  CallTree'
<1>1. stage[a] = "idle" /\ root[a] = NoActivation
  BY DEF Enter, EnterAt, CallTree, IdleIsClean
<1>2. \A b \in Activations : caller[b] # a /\ root[b] # a
  BY <1>1, RootsStayForTheirFrames, InstalledRunsAssumption DEF CallTree, IdleIsClean, LiveIsRooted
<1>3. PICK c \in Activations \cup {NoActivation}, r \in Activations, st \in Stages :
        /\ EnterAt(a, s, c, r, st)
        /\ \/ c = NoActivation /\ r = a
           \/ c \in Activations /\ stage[c] = "running" /\ r = root[c] /\ s \notin CallStack(c)
  <2>1. CASE \E st \in Stages : EnterAt(a, s, NoActivation, a, st)
    BY <2>1
  <2>2. ASSUME NEW p \in Activations, NEW st \in Stages, stage[p] = "running", s \notin CallStack(p),
               EnterAt(a, s, p, root[p], st)
        PROVE  \E c \in Activations \cup {NoActivation}, r \in Activations, x \in Stages :
                 /\ EnterAt(a, s, c, r, x)
                 /\ \/ c = NoActivation /\ r = a
                    \/ c \in Activations /\ stage[c] = "running" /\ r = root[c] /\ s \notin CallStack(c)
    <3>1. root[p] \in Activations
      BY <2>2 DEF CallTree, LiveIsRooted
    <3> QED BY <2>2, <3>1
  <2> QED BY <2>1, <2>2 DEF Enter
<1>4. CallsTyped'
  BY <1>3 DEF CallTree, CallsTyped, EnterAt
<1>5. /\ stage'[a] = st /\ script'[a] = s /\ caller'[a] = c /\ root'[a] = r /\ st # "idle"
      /\ \A b \in Activations \ {a} : /\ stage'[b] = stage[b] /\ script'[b] = script[b]
                                      /\ caller'[b] = caller[b] /\ root'[b] = root[b]
  BY <1>3 DEF CallTree, CallsTyped, EnterAt
<1>6. IdleIsClean'
  BY <1>5 DEF CallTree, IdleIsClean
<1>7. LiveIsRooted'
  <2> SUFFICES ASSUME NEW b \in Activations, stage'[b] # "idle"
               PROVE  /\ script'[b] \in Scripts
                      /\ root'[b] \in Activations /\ root'[root'[b]] = root'[b]
                      /\ caller'[b] = NoActivation => root'[b] = b
                      /\ caller'[b] # NoActivation =>
                           /\ caller'[b] \in Activations /\ stage'[caller'[b]] = "running"
                           /\ root'[caller'[b]] = root'[b]
    BY DEF LiveIsRooted
  <2>1. CASE b = a
    BY <1>1, <1>3, <1>5, <2>1, InstalledRunsAssumption DEF CallTree, LiveIsRooted
  <2>2. CASE b # a
    BY <1>1, <1>2, <1>5, <2>2 DEF CallTree, LiveIsRooted
  <2> QED BY <2>1, <2>2
<1>8. CallersEnd'
  <2> SUFFICES ASSUME NEW S \in SUBSET Activations, \A b \in S : caller'[b] \in S PROVE S = {}
    BY DEF CallersEnd
  <2>1. \A b \in S \ {a} : caller[b] \in S \ {a}
    BY <1>2, <1>5
  <2>2. S \ {a} = {}
    BY <2>1 DEF CallTree, CallersEnd
  <2>3. c # a
    BY <1>1, <1>3, InstalledRunsAssumption
  <2>4. a \in S => c \in S \ {a}
    BY <1>5, <2>3
  <2> QED BY <2>2, <2>4
<1>9. NoScriptCallsItself'
  <2> SUFFICES ASSUME NEW x \in Activations, NEW y \in Activations, stage'[x] # "idle",
                      stage'[y] # "idle", x # y, root'[x] = root'[y]
               PROVE  script'[x] # script'[y]
    BY DEF NoScriptCallsItself, Calls
  <2>1. \A b \in Activations \ {a} : root[b] = r => script[b] # s
    BY <1>2, <1>3 DEF CallStack
  <2>2. CASE x = a \/ y = a
    BY <1>5, <2>1, <2>2
  <2>3. CASE x # a /\ y # a
    BY <1>5, <2>3 DEF CallTree, NoScriptCallsItself, Calls
  <2> QED BY <2>2, <2>3
<1> QED BY <1>4, <1>6, <1>7, <1>8, <1>9 DEF CallTree

LEMMA ProceedKeepsTree ==
  ASSUME CallTree, NEW a \in Activations, NEW st \in Stages, Proceed(a, st)
  PROVE  CallTree'
<1>1. /\ UNCHANGED <<script, caller, root>>
      /\ \A b \in Activations : stage'[b] = IF b = a THEN st ELSE stage[b]
  BY DEF Proceed, CallTree, CallsTyped
<1>2. CallsTyped'
  BY DEF Proceed, CallTree, CallsTyped
<1>3. IdleIsClean'
  BY <1>1 DEF Proceed, CallTree, IdleIsClean
<1>4. \A b \in Activations : caller[b] = a => stage[a] # "running"
  BY DEF Proceed, HasChild
<1>5. LiveIsRooted'
  BY <1>1, <1>4 DEF Proceed, CallTree, LiveIsRooted, IdleIsClean
<1>6. CallersEnd'
  BY <1>1 DEF CallTree, CallersEnd
<1>7. NoScriptCallsItself'
  BY <1>1 DEF Proceed, CallTree, NoScriptCallsItself, Calls
<1> QED BY <1>2, <1>3, <1>5, <1>6, <1>7 DEF CallTree

\* Some calls of which nothing is left return.
Vanish(S) ==
  /\ stage' = [b \in Activations |-> IF b \in S THEN "idle" ELSE stage[b]]
  /\ script' = [b \in Activations |-> IF b \in S THEN NoScript ELSE script[b]]
  /\ caller' = [b \in Activations |-> IF b \in S THEN NoActivation ELSE caller[b]]
  /\ root' = [b \in Activations |-> IF b \in S THEN NoActivation ELSE root[b]]

LEMMA VanishKeepsTree ==
  ASSUME CallTree, NEW S \in SUBSET Activations, Vanish(S),
         \A b \in Activations \ S : root[b] \notin S /\ caller[b] \notin S
  PROVE  CallTree'
<1>1. \A b \in Activations :
        /\ stage'[b] = IF b \in S THEN "idle" ELSE stage[b]
        /\ script'[b] = IF b \in S THEN NoScript ELSE script[b]
        /\ caller'[b] = IF b \in S THEN NoActivation ELSE caller[b]
        /\ root'[b] = IF b \in S THEN NoActivation ELSE root[b]
  BY DEF Vanish
<1>2. CallsTyped'
  BY DEF Vanish, CallTree, CallsTyped, Stages
<1>3. IdleIsClean'
  BY <1>1 DEF CallTree, IdleIsClean
<1>4. LiveIsRooted'
  BY <1>1 DEF CallTree, LiveIsRooted
<1>5. CallersEnd'
  <2> SUFFICES ASSUME NEW T \in SUBSET Activations, \A b \in T : caller'[b] \in T PROVE T = {}
    BY DEF CallersEnd
  <2>1. \A b \in T : caller[b] \in T
    BY <1>1, InstalledRunsAssumption
  <2> QED BY <2>1 DEF CallTree, CallersEnd
<1>6. NoScriptCallsItself'
  BY <1>1 DEF CallTree, NoScriptCallsItself, Calls
<1> QED BY <1>2, <1>3, <1>4, <1>5, <1>6 DEF CallTree

LEMMA LeaveKeepsTree ==
  ASSUME CallTree, NEW a \in Activations, Leave(a)
  PROVE  CallTree'
<1>1. Vanish({a})
  BY DEF Leave, Vanish, CallTree, CallsTyped
<1>2. \A b \in Activations \ {a} : root[b] # a
  BY RootsStayForTheirFrames DEF Leave
<1>3. \A b \in Activations : caller[b] # a
  BY InstalledRunsAssumption DEF Leave, CallTree, LiveIsRooted, IdleIsClean
<1> QED BY <1>1, <1>2, <1>3, VanishKeepsTree

LEMMA UnwindKeepsTree ==
  ASSUME CallTree, NEW a \in Activations, Unwind(a)
  PROVE  CallTree'
<1>1. Vanish(Frames(a))
  BY DEF Unwind, Vanish
<1>2. ASSUME NEW b \in Activations \ Frames(a) PROVE root[b] \notin Frames(a) /\ caller[b] \notin Frames(a)
  <2>1. CASE stage[b] = "idle"
    BY <2>1, InstalledRunsAssumption DEF Frames, CallTree, IdleIsClean
  <2>2. CASE stage[b] # "idle"
    BY <2>2, InstalledRunsAssumption DEF Frames, CallTree, LiveIsRooted
  <2> QED BY <2>1, <2>2
<1>3. Frames(a) \in SUBSET Activations
  BY DEF Frames
<1> QED BY <1>1, <1>2, <1>3, VanishKeepsTree

LEMMA StepKeepsTree ==
  ASSUME CallTree, CoreStep
  PROVE  CallTree'
<1>1. Stays => CallTree'
  BY DEF Stays, CallTree, CallsTyped, IdleIsClean, LiveIsRooted, CallersEnd, NoScriptCallsItself, Calls
<1> QED BY <1>1, CoreShape, EnterKeepsTree, ProceedKeepsTree, LeaveKeepsTree, UnwindKeepsTree

LEMMA TreeAtFirst ==
  ASSUME Init
  PROVE  CallTree
<1>1. CallsTyped /\ IdleIsClean /\ LiveIsRooted /\ NoScriptCallsItself
  BY DEF Init, CallsTyped, IdleIsClean, LiveIsRooted, NoScriptCallsItself, Calls, Stages
<1>2. CallersEnd
  BY InstalledRunsAssumption DEF Init, CallersEnd
<1> QED BY <1>1, <1>2 DEF CallTree

LEMMA NothingHappensToTheTree ==
  ASSUME CallTree, UNCHANGED vars
  PROVE  CallTree'
BY DEF vars, runVars, callVars, CallTree, CallsTyped, IdleIsClean, LiveIsRooted, CallersEnd,
       NoScriptCallsItself, Calls

\* Only the second look at a script lets it start.
LEMMA StartsAreChecked ==
  ASSUME CallsTyped, CoreStep, NEW a \in Activations, stage[a] # "starting", stage'[a] = "starting"
  PROVE  script[a] \in enabled
<1>1. ASSUME NEW b \in Activations, NEW st \in Stages \ {"starting"}, GoesTo(b, st) PROVE FALSE
  BY <1>1 DEF GoesTo, CallsTyped
<1>2. ~(UNCHANGED stage)
  OBVIOUS
<1>3. ASSUME NEW b \in Activations, Step(b) PROVE script[a] \in enabled
  <2>1. CASE Check(b)
    BY <2>1 DEF Check, GoesTo, MayStillRun, MayRun, CallsTyped
  <2>2. CASE Decide(b) \/ Skip(b) \/ Stop(b) \/ Restart(b)
    BY <1>1, <2>2 DEF Decide, Skip, Stop, Restart, AsksForAPermit, Returns, Stages
  <2>3. CASE Refuse(b) \/ AskInVain(b) \/ Ask(b)
    BY <1>1, <2>3 DEF Refuse, AskInVain, Ask, Withdraws, Returns, Stages
  <2>4. CASE Admitted(b) \/ Withdraw(b) \/ Superseded(b) \/ Rejected(b)
    BY <1>1, <2>4 DEF Admitted, Withdraw, Superseded, Rejected, Withdraws, Returns, Stages
  <2>5. CASE Panic(b)
    BY <2>5 DEF Panic
  <2>6. ASSUME NEW res, CheckFails(b, res) PROVE FALSE
    BY <1>1, <2>6 DEF CheckFails, Returns, Stages
  <2>7. CASE Start(b) \/ StartFails(b) \/ Finish(b)
    BY <1>1, <2>7 DEF Start, StartFails, Finish, Returns, Stages
  <2> QED BY <1>3, <2>1, <2>2, <2>3, <2>4, <2>5, <2>6, <2>7 DEF Step
<1>4. ASSUME NEW b \in Activations, Complete(b) \/ Abort(b) \/ Cancel(b) PROVE FALSE
  BY <1>1, <1>2, <1>4 DEF Complete, Abort, Ends, Cancel, callVars, Stages
<1>5. ASSUME NEW b \in Activations, NEW s, NEW e, Begin(b, s, e) PROVE FALSE
  BY <1>1, <1>5 DEF Begin, Opens, Stages
<1>6. ASSUME NEW p, NEW b \in Activations, NEW s, BeginNested(p, b, s) PROVE FALSE
  BY <1>1, <1>6 DEF BeginNested, Opens, Stages
<1>7. ~Others
  BY <1>2 DEF Others, Disable, Enable, RefreshBlacklist, Reload, runVars, callVars
<1> QED BY <1>3, <1>4, <1>5, <1>6, <1>7 DEF CoreStep

-----------------------------------------------------------------------------
(* The permits and the calls.                                                *)

PermitsFollowTheCalls ==
  /\ policy \in Policies
  /\ holds \in [Activations -> Scripts \cup {NoScript}]
  /\ \A a \in Activations : holds[a] = IF stage[a] \in Permitted THEN script[a] ELSE NoScript

LEMMA PermitsAtFirst ==
  ASSUME Init
  PROVE  PermitsFollowTheCalls
BY DEF Init, InitAdmission, PermitsFollowTheCalls, Permitted

\* A call of its own changes its own permit only.
LEMMA OnePermit ==
  ASSUME CallTree, PermitsFollowTheCalls, UNCHANGED policy, NEW a \in Activations,
         NEW st \in Stages, GoesTo(a, st), NEW s \in Scripts \cup {NoScript},
         script' = [script EXCEPT ![a] = s],
         holds' = [holds EXCEPT ![a] = IF st \in Permitted THEN s ELSE NoScript]
  PROVE  PermitsFollowTheCalls'
BY DEF GoesTo, CallTree, CallsTyped, PermitsFollowTheCalls

LEMMA StepKeepsPermits ==
  ASSUME CallTree, PermitsFollowTheCalls, CoreStep
  PROVE  PermitsFollowTheCalls'
<1>1. ASSUME NEW a \in Activations, NEW st \in Stages \ Permitted, GoesTo(a, st), stage[a] \notin Permitted,
             NEW s \in Scripts \cup {NoScript}, script' = [script EXCEPT ![a] = s], UNCHANGED <<policy, holds>>
      PROVE  PermitsFollowTheCalls'
  <2>1. holds' = [holds EXCEPT ![a] = NoScript]
    BY <1>1 DEF PermitsFollowTheCalls
  <2> QED BY <1>1, <2>1, OnePermit
<1>2. ASSUME NEW a \in Activations, NEW st \in Stages, GoesTo(a, st), UNCHANGED script,
             holds' = [holds EXCEPT ![a] = IF st \in Permitted THEN script[a] ELSE NoScript],
             UNCHANGED policy
      PROVE  PermitsFollowTheCalls'
  BY <1>2 DEF GoesTo, CallTree, CallsTyped, PermitsFollowTheCalls
<1>3. ASSUME NEW a \in Activations, NEW res, Returns(a, res), stage[a] \notin Permitted,
             UNCHANGED <<policy, holds>>
      PROVE  PermitsFollowTheCalls'
  BY <1>1, <1>3 DEF Returns, Permitted, Stages
<1>4. ASSUME NEW a \in Activations, NEW res, Returns(a, res), GiveBack(a) PROVE PermitsFollowTheCalls'
  <2>1. holds' = [holds EXCEPT ![a] = IF "idle" \in Permitted THEN NoScript ELSE NoScript]
    BY <1>4 DEF GiveBack
  <2> QED BY <1>4, <2>1, OnePermit DEF Returns, GiveBack, Stages
<1>5. ASSUME NEW a \in Activations, NEW st \in Stages, GoesTo(a, st), KeepCall \/ UNCHANGED script,
             (stage[a] \in Permitted) = (st \in Permitted), UNCHANGED <<policy, holds>>
      PROVE  PermitsFollowTheCalls'
  <2>1. holds' = [holds EXCEPT ![a] = IF st \in Permitted THEN script[a] ELSE NoScript]
    BY <1>5 DEF PermitsFollowTheCalls
  <2> QED BY <1>2, <1>5, <2>1 DEF KeepCall
<1>6. ASSUME NEW a \in Activations, Step(a) PROVE PermitsFollowTheCalls'
  <2>1. CASE Decide(a) \/ Restart(a)
    BY <1>5, <2>1 DEF Decide, Restart, AsksForAPermit, admissionVars, Stages, Permitted
  <2>2. CASE Skip(a) \/ Stop(a) \/ Refuse(a) \/ Superseded(a) \/ Rejected(a)
    BY <1>3, <2>2 DEF Skip, Stop, Refuse, Superseded, Rejected, admissionVars, Permitted
  <2>3. CASE AskInVain(a) \/ Withdraw(a)
    <3>1. UNCHANGED <<policy, holds>> /\ stage[a] \notin Permitted /\ Withdraws(a)
      BY <2>3 DEF AskInVain, Withdraw, LeaveLine, admissionVars, Permitted
    <3> QED BY <1>3, <1>5, <3>1 DEF Withdraws, Stages, Permitted
  <2>4. CASE Ask(a) /\ GoStraightIn(a, script[a]) /\ GoesTo(a, "checking")
    BY <1>2, <2>4 DEF Ask, GoStraightIn, KeepCall, Stages, Permitted
  <2>5. CASE Ask(a) /\ JoinLine(a, script[a]) /\ GoesTo(a, "queueing")
    BY <1>5, <2>5 DEF Ask, JoinLine, KeepCall, Stages, Permitted
  <2>6. CASE Admitted(a)
    BY <1>2, <2>6 DEF Admitted, GoIn, KeepCall, Stages, Permitted
  <2>7. CASE Panic(a)
    BY <2>7, InstalledRunsAssumption DEF Panic, CallTree, CallsTyped, PermitsFollowTheCalls, Permitted
  <2>8. CASE Check(a) \/ Start(a) \/ StartFails(a)
    BY <1>5, <2>8 DEF Check, Start, StartFails, admissionVars, Stages, Permitted
  <2>9. ASSUME NEW res, CheckFails(a, res) PROVE PermitsFollowTheCalls'
    BY <1>4, <2>9 DEF CheckFails
  <2>10. CASE Finish(a)
    BY <1>4, <2>10 DEF Finish
  <2>11. Ask(a) => \/ Ask(a) /\ GoStraightIn(a, script[a]) /\ GoesTo(a, "checking")
                   \/ Ask(a) /\ JoinLine(a, script[a]) /\ GoesTo(a, "queueing")
    BY DEF Ask
  <2> QED BY <1>6, <2>1, <2>2, <2>3, <2>4, <2>5, <2>6, <2>7, <2>8, <2>9, <2>10, <2>11 DEF Step
<1>7. ASSUME NEW a \in Activations, Complete(a) \/ Abort(a) PROVE PermitsFollowTheCalls'
  BY <1>5, <1>7 DEF Complete, Abort, Ends, admissionVars, Stages, Permitted
<1>8. ASSUME NEW a \in Activations, Cancel(a) PROVE PermitsFollowTheCalls'
  BY <1>8 DEF Cancel, admissionVars, callVars, PermitsFollowTheCalls
<1>9. ASSUME NEW a \in Activations, NEW s \in Scripts, NEW e, Begin(a, s, e) PROVE PermitsFollowTheCalls'
  BY <1>1, <1>9 DEF Begin, Opens, admissionVars, Stages, Permitted
<1>10. ASSUME NEW p, NEW a \in Activations, NEW s \in Scripts, BeginNested(p, a, s) PROVE PermitsFollowTheCalls'
  BY <1>1, <1>10 DEF BeginNested, Opens, admissionVars, Stages, Permitted
<1>11. Others => PermitsFollowTheCalls'
  BY DEF Others, Disable, Enable, RefreshBlacklist, Reload, Reconfigure, admissionVars, runVars, callVars,
         PermitsFollowTheCalls
<1> QED BY <1>6, <1>7, <1>8, <1>9, <1>10, <1>11 DEF CoreStep

-----------------------------------------------------------------------------
(* The executor in front of the core.                                        *)

Jobs == [script : Scripts, event : Events]

ExecutorTyped ==
  /\ limits \in Policies
  /\ backlog \in Seq(Jobs)
  /\ workers \subseteq {a \in Activations : stage[a] # "idle"}

ExecutorKeepsItsLimits ==
  /\ Allows(limits.max_active_runs_global, Cardinality(workers))
  /\ \A s \in Scripts : Allows(limits.max_active_runs_per_script, Cardinality(WorkersOf(s)))

LEMMA AllowsLess ==
  ASSUME NEW limit \in Nat \cup {Unlimited}, NEW m \in Nat, NEW n \in Nat, m <= n, Allows(limit, n)
  PROVE  Allows(limit, m)
BY DEF Allows

LEMMA LimitTypes ==
  ASSUME ExecutorTyped
  PROVE  /\ limits.max_active_runs_global \in Nat \cup {Unlimited}
         /\ limits.max_active_runs_per_script \in Nat \cup {Unlimited}
BY InstalledRunsAssumption DEF ExecutorTyped

LEMMA WithoutOneTyped ==
  ASSUME backlog \in Seq(Jobs), NEW i \in DOMAIN backlog
  PROVE  BacklogWithout(i) \in Seq(Jobs)
<1>1. Len(backlog) \in Nat \ {0} /\ DOMAIN backlog = 1 .. Len(backlog) /\ \A j \in DOMAIN backlog : backlog[j] \in Jobs
  OBVIOUS
<1>2. \A j \in 1 .. Len(backlog) - 1 : (IF j < i THEN backlog[j] ELSE backlog[j + 1]) \in Jobs
  BY <1>1
<1>3. BacklogWithout(i) \in [1 .. Len(backlog) - 1 -> Jobs] /\ Len(backlog) - 1 \in Nat
  BY <1>1, <1>2 DEF BacklogWithout
<1> QED BY <1>3

\* The limits hold for whatever is left of the workers.
LEMMA FewerWorkers ==
  ASSUME ExecutorTyped, ExecutorKeepsItsLimits, UNCHANGED limits, workers' \subseteq workers,
         \A a \in workers' : script'[a] = script[a]
  PROVE  ExecutorKeepsItsLimits'
<1>1. IsFiniteSet(workers)
  BY InstalledRunsAssumption, FS_Subset DEF ExecutorTyped
<1>2. Cardinality(workers') <= Cardinality(workers) /\ Cardinality(workers') \in Nat /\ Cardinality(workers) \in Nat
  BY <1>1, FS_Subset, FS_CardinalityType
<1>3. ASSUME NEW s \in Scripts PROVE Allows(limits.max_active_runs_per_script, Cardinality(WorkersOf(s)'))
  <2>1. WorkersOf(s)' \subseteq WorkersOf(s) /\ WorkersOf(s) \subseteq workers
    BY DEF WorkersOf
  <2>2. IsFiniteSet(WorkersOf(s))
    BY <1>1, <2>1, FS_Subset
  <2>3. /\ Cardinality(WorkersOf(s)') <= Cardinality(WorkersOf(s))
        /\ Cardinality(WorkersOf(s)') \in Nat /\ Cardinality(WorkersOf(s)) \in Nat
    BY <2>1, <2>2, FS_Subset, FS_CardinalityType
  <2> QED BY <2>3, AllowsLess, LimitTypes DEF ExecutorKeepsItsLimits
<1> QED BY <1>2, <1>3, AllowsLess, LimitTypes DEF ExecutorKeepsItsLimits

LEMMA OneMoreWorker ==
  ASSUME ExecutorTyped, ExecutorKeepsItsLimits, UNCHANGED limits, CallsTyped,
         NEW s \in Scripts, NEW e, ExecutorHasRoom(s),
         NEW a \in Activations, Begin(a, s, e), workers' = workers \cup {a}
  PROVE  ExecutorKeepsItsLimits'
<1>1. IsFiniteSet(workers) /\ a \notin workers
  BY InstalledRunsAssumption, FS_Subset DEF ExecutorTyped, Begin
<1>2. script'[a] = s /\ \A b \in workers : script'[b] = script[b]
  BY <1>1 DEF Begin, Opens, CallsTyped, ExecutorTyped
<1>3. Cardinality(workers') = Cardinality(workers) + 1
  BY <1>1, FS_AddElement
<1>4. WorkersOf(s)' = WorkersOf(s) \cup {a} /\ a \notin WorkersOf(s) /\ IsFiniteSet(WorkersOf(s))
  <2>1. WorkersOf(s)' = WorkersOf(s) \cup {a} /\ WorkersOf(s) \subseteq workers
    BY <1>2 DEF WorkersOf
  <2> QED BY <1>1, <2>1, FS_Subset
<1>5. Cardinality(WorkersOf(s)') = Cardinality(WorkersOf(s)) + 1
  BY <1>4, FS_AddElement
<1>6. \A t \in Scripts \ {s} : WorkersOf(t)' = WorkersOf(t)
  BY <1>2 DEF WorkersOf
<1> QED BY <1>3, <1>5, <1>6 DEF ExecutorHasRoom, ExecutorKeepsItsLimits

\* A call keeps its script as long as it lasts.
LEMMA LiveCallsKeepTheirScript ==
  ASSUME CallsTyped, CoreStep, NEW a \in Activations, stage[a] # "idle", stage'[a] # "idle"
  PROVE  script'[a] = script[a]
BY CoreShape DEF Stays, Enter, EnterAt, Proceed, Leave, Unwind, CallsTyped

LEMMA CollectKeepsExecutor ==
  ASSUME CallsTyped, ExecutorTyped, ExecutorKeepsItsLimits, CoreStep, Collects
  PROVE  ExecutorTyped' /\ ExecutorKeepsItsLimits'
<1>1. ExecutorTyped'
  BY DEF ExecutorTyped, Collects
<1>2. \A a \in workers' : script'[a] = script[a]
  BY LiveCallsKeepTheirScript DEF ExecutorTyped, Collects
<1> QED BY <1>1, <1>2, FewerWorkers DEF Collects

LEMMA StartKeepsExecutor ==
  ASSUME CallsTyped, ExecutorTyped, ExecutorKeepsItsLimits, UNCHANGED limits, backlog' \in Seq(Jobs),
         NEW s \in Scripts, NEW e, ExecutorHasRoom(s), StartWorker(s, e)
  PROVE  ExecutorTyped' /\ ExecutorKeepsItsLimits'
<1>1. ASSUME NEW a \in Activations, Begin(a, s, e), workers' = workers \cup {a}
      PROVE  ExecutorTyped' /\ ExecutorKeepsItsLimits'
  <2>1. ExecutorTyped'
    BY <1>1 DEF ExecutorTyped, Begin, Opens, GoesTo, CallsTyped
  <2> QED BY <1>1, <2>1, OneMoreWorker
<1>2. CASE UNCHANGED <<workers, vars>>
  <2>1. ExecutorTyped'
    BY <1>2 DEF ExecutorTyped, vars, runVars, callVars
  <2> QED BY <1>2, <2>1, FewerWorkers DEF vars, runVars, callVars
<1> QED BY <1>1, <1>2 DEF StartWorker

LEMMA PipelineKeepsExecutor ==
  ASSUME CallsTyped, ExecutorTyped, ExecutorKeepsItsLimits, NextPipeline
  PROVE  /\ ExecutorTyped' /\ ExecutorKeepsItsLimits'
         /\ CoreStep \/ UNCHANGED vars
<1>1. \A i \in DOMAIN backlog : backlog[i].script \in Scripts /\ backlog[i].event \in Events
  <2>1. \A i \in DOMAIN backlog : backlog[i] \in Jobs
    BY DEF ExecutorTyped
  <2> QED BY <2>1 DEF Jobs
<1>2. ASSUME NEW s \in Scripts, NEW e \in Events, StartWorker(s, e) PROVE CoreStep \/ UNCHANGED vars
  BY <1>2 DEF StartWorker, CoreStep
<1>3. ASSUME UNCHANGED <<limits, workers, vars>>, backlog' \in Seq(Jobs)
      PROVE  ExecutorTyped' /\ ExecutorKeepsItsLimits'
  <2>1. ExecutorTyped'
    BY <1>3 DEF ExecutorTyped, vars, runVars, callVars
  <2> QED BY <1>3, <2>1, FewerWorkers DEF vars, runVars, callVars
<1>4. ASSUME NEW s \in Scripts, NEW e \in Events \cap Overlaps, Submit(s, e)
      PROVE  ExecutorTyped' /\ ExecutorKeepsItsLimits' /\ (CoreStep \/ UNCHANGED vars)
  <2>1. [script |-> s, event |-> e] \in Jobs
    BY DEF Jobs
  <2>2. \A q \in Seq(Jobs) : Append(q, [script |-> s, event |-> e]) \in Seq(Jobs)
    BY <2>1
  <2>3. CASE ExecutorHasRoom(s) /\ StartWorker(s, e) /\ UNCHANGED backlog /\ UNCHANGED limits
    BY <1>2, <2>3, StartKeepsExecutor DEF ExecutorTyped
  <2>4. CASE backlog' = Append(backlog, [script |-> s, event |-> e]) /\ UNCHANGED <<limits, workers, vars>>
    BY <1>3, <2>2, <2>4 DEF ExecutorTyped
  <2>5. ASSUME NEW i \in Backlog(s), backlog' = Append(BacklogWithout(i), [script |-> s, event |-> e]),
               UNCHANGED <<limits, workers, vars>>
        PROVE  ExecutorTyped' /\ ExecutorKeepsItsLimits' /\ (CoreStep \/ UNCHANGED vars)
    BY <1>3, <2>2, <2>5, WithoutOneTyped DEF ExecutorTyped, Backlog
  <2> QED BY <1>4, <2>3, <2>4, <2>5 DEF Submit
<1>5. ASSUME StartQueued
      PROVE  ExecutorTyped' /\ ExecutorKeepsItsLimits' /\ (CoreStep \/ UNCHANGED vars)
  <2>1. PICK i \in DOMAIN backlog : /\ ExecutorHasRoom(backlog[i].script)
                                    /\ StartWorker(backlog[i].script, backlog[i].event)
                                    /\ backlog' = BacklogWithout(i)
    BY <1>5 DEF StartQueued
  <2>2. UNCHANGED limits /\ backlog' \in Seq(Jobs)
    BY <1>5, <2>1, WithoutOneTyped DEF StartQueued, ExecutorTyped
  <2> QED BY <1>1, <1>2, <2>1, <2>2, StartKeepsExecutor
<1>6. ASSUME NEW a \in Activations, NEW s \in Scripts, RunByHand(a, s)
      PROVE  ExecutorTyped' /\ ExecutorKeepsItsLimits' /\ CoreStep
  <2>1. CoreStep
    BY <1>6 DEF RunByHand, CoreStep
  <2>2. ExecutorTyped' /\ \A b \in workers' : script'[b] = script[b]
    BY <1>6 DEF RunByHand, pipelineVars, ExecutorTyped, Begin, Opens, GoesTo, CallsTyped
  <2> QED BY <1>6, <2>1, <2>2, FewerWorkers DEF RunByHand, pipelineVars
<1>7. CASE CoreStep /\ Collects
  BY <1>7, CollectKeepsExecutor
<1> QED BY <1>4, <1>5, <1>6, <1>7 DEF NextPipeline, CoreStep

\* Who waits for a permit is not among those who hold one, so with the holders
\* among the workers the core counts at least one less than the executor.
LEMMA RoomForTheWorkers ==
  ASSUME CallTree, PermitsFollowTheCalls, ExecutorTyped, ExecutorKeepsItsLimits, policy = limits,
         NEW a \in workers, stage[a] = "queueing", Holders \subseteq workers
  PROVE  HasRoom(script[a])
<1> DEFINE s == script[a]
<1>1. s \in Scripts /\ a \in Activations
  BY DEF ExecutorTyped, CallTree, LiveIsRooted
<1>2. holds[a] = NoScript
  BY <1>1 DEF PermitsFollowTheCalls, Permitted
<1>3. IsFiniteSet(workers)
  BY InstalledRunsAssumption, FS_Subset DEF ExecutorTyped
<1>4. Holders \cup {a} \subseteq workers /\ a \notin Holders
  BY <1>2 DEF Holders
<1>5. HoldersOf(s) \cup {a} \subseteq WorkersOf(s) /\ a \notin HoldersOf(s)
  BY <1>1, <1>2, InstalledRunsAssumption DEF Holders, HoldersOf, WorkersOf, PermitsFollowTheCalls
<1>6. IsFiniteSet(WorkersOf(s))
  BY <1>3, FS_Subset DEF WorkersOf
<1> HIDE DEF s
<1>7. IsFiniteSet(Holders) /\ IsFiniteSet(HoldersOf(s))
  BY <1>3, <1>4, <1>5, <1>6, FS_Subset
<1>8. /\ Cardinality(Holders) + 1 = Cardinality(Holders \cup {a})
      /\ Cardinality(HoldersOf(s)) + 1 = Cardinality(HoldersOf(s) \cup {a})
  BY <1>4, <1>5, <1>7, FS_AddElement
<1>9. /\ Cardinality(Holders \cup {a}) <= Cardinality(workers)
      /\ Cardinality(HoldersOf(s) \cup {a}) <= Cardinality(WorkersOf(s))
  BY <1>3, <1>4, <1>5, <1>6, FS_Subset
<1>10. /\ Cardinality(Holders \cup {a}) \in Nat /\ Cardinality(workers) \in Nat
       /\ Cardinality(HoldersOf(s) \cup {a}) \in Nat /\ Cardinality(WorkersOf(s)) \in Nat
  BY <1>3, <1>4, <1>5, <1>6, FS_Subset, FS_CardinalityType
<1>11. HasRoom(s)
  BY <1>1, <1>8, <1>9, <1>10, AllowsLess, LimitTypes DEF HasRoom, ExecutorKeepsItsLimits
<1> QED BY <1>11 DEF s

-----------------------------------------------------------------------------
(* What is proved.                                                           *)

LEMMA CoreKeepsItsCalls == Spec => [](CallTree /\ PermitsFollowTheCalls)
<1>1. Init => CallTree /\ PermitsFollowTheCalls
  BY TreeAtFirst, PermitsAtFirst
<1>2. Next => CoreStep
  BY DEF Next, CoreStep
<1>3. CallTree /\ PermitsFollowTheCalls /\ [Next]_vars => (CallTree /\ PermitsFollowTheCalls)'
  <2>1. PermitsFollowTheCalls /\ UNCHANGED vars => PermitsFollowTheCalls'
    BY DEF vars, admissionVars, runVars, callVars, PermitsFollowTheCalls
  <2> QED BY <1>2, <2>1, StepKeepsTree, StepKeepsPermits, NothingHappensToTheTree
<1> QED BY <1>1, <1>3, PTL DEF Spec

(* No script runs inside itself, however deep the calls are nested and      *)
(* whatever is asked for, cancelled, restricted or reloaded meanwhile.      *)
THEOREM NobodyCallsItself == Spec => []NoScriptCallsItself
<1>1. CallTree => NoScriptCallsItself
  BY DEF CallTree
<1> QED BY <1>1, CoreKeepsItsCalls, PTL

(* A script disabled while its activation waits is not run when the permit  *)
(* comes.                                                                   *)
THEOREM OnlyTheEnabledStart == Spec => NothingDisabledStarts
<1>1. CallTree /\ [Next]_vars =>
        [\A a \in Activations :
           stage[a] # "starting" /\ stage'[a] = "starting" => script[a] \in enabled]_vars
  BY StartsAreChecked DEF Next, CoreStep, CallTree
<1>2. Spec => [](CallTree /\ PermitsFollowTheCalls)
  BY CoreKeepsItsCalls
<1> QED BY <1>1, <1>2, PTL DEF Spec, NothingDisabledStarts

PipelineInv == CallTree /\ PermitsFollowTheCalls /\ ExecutorTyped /\ ExecutorKeepsItsLimits

LEMMA PipelineKeepsItsLimits == SpecPipeline => []PipelineInv
<1>1. InitPipeline => PipelineInv
  <2> SUFFICES ASSUME InitPipeline PROVE PipelineInv
    OBVIOUS
  <2>1. CallTree /\ PermitsFollowTheCalls
    BY TreeAtFirst, PermitsAtFirst DEF InitPipeline
  <2>2. ExecutorTyped
    BY <2>1 DEF InitPipeline, PermitsFollowTheCalls, ExecutorTyped
  <2>3. workers = {} /\ \A s \in Scripts : WorkersOf(s) = {}
    BY DEF InitPipeline, WorkersOf
  <2>4. \A limit \in Nat \cup {Unlimited} : Allows(limit, Cardinality({}))
    BY FS_EmptySet DEF Allows
  <2>5. ExecutorKeepsItsLimits
    BY <2>2, <2>3, <2>4, LimitTypes DEF ExecutorKeepsItsLimits
  <2> QED BY <2>1, <2>2, <2>5 DEF PipelineInv
<1>2. PipelineInv /\ [NextPipeline]_<<vars, pipelineVars>> => PipelineInv'
  <2> SUFFICES ASSUME PipelineInv, [NextPipeline]_<<vars, pipelineVars>> PROVE PipelineInv'
    OBVIOUS
  <2>1. UNCHANGED vars => CallTree' /\ PermitsFollowTheCalls'
    BY NothingHappensToTheTree DEF PipelineInv, vars, admissionVars, runVars, callVars, PermitsFollowTheCalls
  <2>2. CoreStep => CallTree' /\ PermitsFollowTheCalls'
    BY StepKeepsTree, StepKeepsPermits DEF PipelineInv
  <2>3. CASE NextPipeline
    BY <2>1, <2>2, <2>3, PipelineKeepsExecutor DEF PipelineInv, CallTree
  <2>4. CASE UNCHANGED <<vars, pipelineVars>>
    <3>1. ExecutorTyped'
      BY <2>4 DEF PipelineInv, ExecutorTyped, vars, runVars, callVars, pipelineVars
    <3>2. ExecutorKeepsItsLimits'
      BY <2>4, FewerWorkers DEF PipelineInv, vars, runVars, callVars, pipelineVars
    <3> QED BY <2>1, <2>4, <3>1, <3>2 DEF PipelineInv
  <2> QED BY <2>3, <2>4
<1> QED BY <1>1, <1>2, PTL DEF SpecPipeline

(* Behind the executor scripts do not run inside themselves either.         *)
THEOREM NobodyInThePipelineCallsItself == SpecPipeline => []NoScriptCallsItself
<1>1. PipelineInv => NoScriptCallsItself
  BY DEF PipelineInv, CallTree
<1> QED BY <1>1, PipelineKeepsItsLimits, PTL

(* Nor does a script start that was disabled while its event was queued, or *)
(* while its activation waited.                                             *)
THEOREM OnlyTheEnabledStartInThePipeline == SpecPipeline => NothingDisabledStarts
<1>1. PipelineInv /\ [NextPipeline]_<<vars, pipelineVars>> =>
        [\A a \in Activations :
           stage[a] # "starting" /\ stage'[a] = "starting" => script[a] \in enabled]_vars
  BY StartsAreChecked, PipelineKeepsExecutor DEF PipelineInv, CallTree
<1> QED BY <1>1, PipelineKeepsItsLimits, PTL DEF SpecPipeline, NothingDisabledStarts

(* For any limits and any number of threads: an event does not queue twice. *)
(* The executor counts every thread until its call has returned, so a       *)
(* thread is held up by the core only on account of runs the executor does  *)
(* not know of.                                                             *)
THEOREM QueuedOnce == SpecPipeline => []NoSecondQueue
<1>1. PipelineInv => NoSecondQueue
  BY RoomForTheWorkers DEF PipelineInv, NoSecondQueue
<1> QED BY <1>1, PipelineKeepsItsLimits, PTL

-----------------------------------------------------------------------------
(* The layers.                                                               *)

(* The pipeline implements the core, where calls may also be made by hand:   *)
(* whatever the executor starts, queues, drops or collects, the core takes   *)
(* one of its own steps or none.  What is shown of the core alone is so      *)
(* shown of it behind the executor (src/service/executor.rs, start_job;      *)
(* crates/baudbound-core/src/lib.rs).                                        *)
THEOREM PipelineImplementsCore ==
  ASSUME "Manual" \in Events
  PROVE  SpecPipeline => Spec
<1>1. InitPipeline => Init
  BY DEF InitPipeline
<1>2. CoreStep => Next
  BY DEF CoreStep, Next
<1>3. PipelineInv /\ [NextPipeline]_<<vars, pipelineVars>> => [Next]_vars
  BY <1>2, PipelineKeepsExecutor DEF PipelineInv, CallTree
<1> QED BY <1>1, <1>3, PipelineKeepsItsLimits, PTL DEF SpecPipeline, Spec

\* A thread that panics lets go of every permit on its stack.
LetGoTogether ==
  /\ \E S \in SUBSET Activations :
       holds' = [a \in Activations |-> IF a \in S THEN NoScript ELSE holds[a]]
  /\ UNCHANGED <<policy, line>>

LEMMA CoreStepsTheQueue ==
  ASSUME CallTree, [Next]_vars
  PROVE  [NextAdmission \/ LetGoTogether]_admissionVars
<1>1. \A a \in Activations : stage[a] # "idle" => script[a] \in Scripts
  BY DEF CallTree, LiveIsRooted
<1>2. ASSUME UNCHANGED vars PROVE UNCHANGED admissionVars
  BY <1>2 DEF vars
<1>3. ASSUME NEW a \in Activations, NEW s \in Scripts, NEW e \in Events, Begin(a, s, e)
      PROVE  UNCHANGED admissionVars
  BY <1>3 DEF Begin
<1>4. ASSUME NEW p \in Activations, NEW a \in Activations, NEW s \in Scripts, BeginNested(p, a, s)
      PROVE  UNCHANGED admissionVars
  BY <1>4 DEF BeginNested
<1>5. ASSUME NEW a \in Activations, Complete(a) \/ Abort(a) \/ Cancel(a)
      PROVE  UNCHANGED admissionVars
  BY <1>5 DEF Complete, Abort, Cancel, Ends
<1>6. ASSUME NEW a \in Activations,
             \/ Decide(a) \/ Skip(a) \/ Stop(a) \/ Restart(a) \/ Refuse(a)
             \/ Superseded(a) \/ Rejected(a) \/ Check(a) \/ Start(a) \/ StartFails(a)
      PROVE  UNCHANGED admissionVars
  BY <1>6 DEF Decide, Skip, Stop, Restart, Refuse, Superseded, Rejected, Check, Start, StartFails
<1>7. ASSUME NEW a \in Activations, AskInVain(a) PROVE NextAdmission \/ UNCHANGED admissionVars
  <2>1. script[a] \in Scripts
    BY <1>1, <1>7 DEF AskInVain
  <2>2. LeaveLine(1, script[a]) \/ UNCHANGED admissionVars
    BY <1>7 DEF AskInVain
  <2>3. LeaveLine(1, script[a]) => 1 \in DOMAIN line[script[a]]
    BY DEF LeaveLine
  <2> QED BY <2>1, <2>2, <2>3 DEF NextAdmission
<1>8. ASSUME NEW a \in Activations, Ask(a) PROVE NextAdmission
  <2>1. script[a] \in Scripts /\ (GoStraightIn(a, script[a]) \/ JoinLine(a, script[a]))
    BY <1>1, <1>8 DEF Ask
  <2> QED BY <2>1 DEF NextAdmission
<1>9. ASSUME NEW a \in Activations, Admitted(a) PROVE NextAdmission
  <2>1. script[a] \in Scripts /\ GoIn(a, script[a])
    BY <1>1, <1>9 DEF Admitted
  <2> QED BY <2>1 DEF NextAdmission
<1>10. ASSUME NEW a \in Activations, Withdraw(a) PROVE NextAdmission
  <2>1. script[a] \in Scripts /\ \E i \in DOMAIN line[script[a]] : LeaveLine(i, script[a])
    BY <1>1, <1>10 DEF Withdraw
  <2> QED BY <2>1 DEF NextAdmission
<1>11. ASSUME NEW a \in Activations, Panic(a) PROVE LetGoTogether
  <2> DEFINE S == {b \in Activations : root[b] = root[a]}
  <2>1. holds' = [b \in Activations |-> IF b \in S THEN NoScript ELSE holds[b]]
    BY <1>11 DEF Panic
  <2>2. S \in SUBSET Activations /\ UNCHANGED <<policy, line>>
    BY <1>11 DEF Panic
  <2> HIDE DEF S
  <2> QED BY <2>1, <2>2 DEF LetGoTogether
<1>12. ASSUME NEW a \in Activations, Finish(a) \/ \E res \in {"Refused", "Failed"} : CheckFails(a, res)
       PROVE  NextAdmission
  <2>1. GiveBack(a)
    BY <1>12 DEF Finish, CheckFails
  <2> QED BY <2>1 DEF NextAdmission
<1>13. ASSUME NEW a \in Activations, Step(a)
       PROVE  NextAdmission \/ LetGoTogether \/ UNCHANGED admissionVars
  BY <1>6, <1>7, <1>8, <1>9, <1>10, <1>11, <1>12, <1>13 DEF Step
<1>14. ASSUME NEW s \in Scripts, Disable(s) \/ Enable(s) \/ \E v \in Severities : RefreshBlacklist(s, v)
       PROVE  UNCHANGED admissionVars
  BY <1>14 DEF Disable, Enable, RefreshBlacklist
<1>15. ASSUME NEW p \in Policies, Reload(p) PROVE NextAdmission
  BY <1>15 DEF Reload, NextAdmission
<1>16. CASE Others
  BY <1>14, <1>15, <1>16 DEF Others
<1> QED BY <1>2, <1>3, <1>4, <1>5, <1>13, <1>16 DEF Next

(* The core uses the execution queue as Admission, which ExecutionQueue is   *)
(* shown to implement, lets it be used: whatever calls are skipped, stopped, *)
(* refused, restricted or cancelled at whichever of their many exits, a      *)
(* permit is taken and a place in line is left only by an operation of the   *)
(* queue.  The one step of its own is a panic, which lets go of all permits  *)
(* on the stack (crates/baudbound-core/src/lib.rs,                           *)
(* run_installed_with_trigger_in_stack).                                     *)
THEOREM CoreUsesTheQueue ==
  Spec => InitAdmission /\ [][NextAdmission \/ LetGoTogether]_admissionVars
<1>1. Init => InitAdmission
  BY DEF Init
<1>2. Spec => []CallTree
  BY CoreKeepsItsCalls, PTL
<1> QED BY <1>1, <1>2, CoreStepsTheQueue, PTL DEF Spec

(* No exit of a call forgets its permit, and no call holds one it did not    *)
(* wait for: a permit is out exactly while the call is between its second    *)
(* look at the script and its record, however it got there and however it    *)
(* ends, by a refusal, a failed start, a cancellation or a panic             *)
(* (crates/baudbound-core/src/lib.rs, run_installed_with_trigger_in_stack).  *)
THEOREM PermitsAreNeitherLostNorInvented ==
  Spec => [](\A a \in Activations : holds[a] = IF stage[a] \in Permitted THEN script[a] ELSE NoScript)
<1>1. PermitsFollowTheCalls =>
        \A a \in Activations : holds[a] = IF stage[a] \in Permitted THEN script[a] ELSE NoScript
  BY DEF PermitsFollowTheCalls
<1> QED BY <1>1, CoreKeepsItsCalls, PTL

=============================================================================
