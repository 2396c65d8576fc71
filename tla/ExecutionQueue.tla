--------------------------- MODULE ExecutionQueue ---------------------------
(***************************************************************************)
(* The admission queue every run of a script passes through                *)
(* (crates/baudbound-core/src/execution_queue.rs).                         *)
(*                                                                         *)
(* An activation asks for a permit, waits in its script's FIFO queue, is    *)
(* admitted, and gives the permit back when its run returns.  A run may     *)
(* call another script, which asks for a permit of its own while the       *)
(* caller keeps the one it has; the queue records which script waits for   *)
(* which, to refuse a nested wait that could never end.                    *)
(*                                                                         *)
(* Every step is one critical section of the queue's mutex.  The condition *)
(* variable only shortens the 50 ms poll of a waiter, so a waiter may look  *)
(* at the queue again at any time.                                         *)
(***************************************************************************)
EXTENDS Naturals, Sequences, FiniteSets

CONSTANTS
  Scripts,        \* installed scripts
  Activations,    \* concurrent calls of the runner, reused once they return
  Policies,       \* the admission policies an operator may configure
  NoScript,       \* no owner script: a top-level activation
  NoActivation,   \* no calling activation
  Unlimited       \* ResourceLimit::Unlimited

Limits == (Nat \ {0}) \cup {Unlimited}

ExecutionAdmissionPolicy ==
  [max_active_runs_global : Limits,
   max_active_runs_per_script : Limits,
   max_queued_activations_per_script : Limits,
   queue_overflow_strategy : {"RejectNewest", "DropOldest"}]

ASSUME ExecutionQueueAssumption ==
  /\ IsFiniteSet(Activations)
  /\ NoScript \notin Scripts
  /\ NoActivation \notin Activations
  /\ Unlimited \notin Nat
  /\ Policies \subseteq ExecutionAdmissionPolicy
  /\ Policies # {}

VARIABLES
  policy,         \* the policy in force
  activeTotal,    \* how many permits are out
  activeRuns,     \* and for each script
  dependencies,   \* how many nested calls of one script wait for or run another
  waiting,        \* the FIFO queue of each script
  superseded,     \* waiters dropped by a newer activation
  phase,          \* what the thread of an activation does
  script,         \* the script it asks for or runs
  owner,          \* the script that called it, NoScript at top level
  caller,         \* the activation that called it
  root,           \* the top-level activation whose cancellation token it shares
  cancelled,      \* top-level activations whose token is cancelled
  restricted,     \* scripts the blacklist stops from running
  result          \* what the last acquire of an activation returned

queueVars == <<activeTotal, activeRuns, dependencies, waiting, superseded>>
threadVars == <<phase, script, owner, caller, root, result>>
vars == <<policy, queueVars, threadVars, cancelled, restricted>>

Refusals == {"Busy", "Full", "Superseded", "Rejected", "Cancelled"}

TypeOK ==
  /\ policy \in Policies
  /\ activeTotal \in Nat
  /\ activeRuns \in [Scripts -> Nat]
  /\ dependencies \in [Scripts -> [Scripts -> Nat]]
  /\ waiting \in [Scripts -> Seq(Activations)]
  /\ superseded \in SUBSET Activations
  /\ phase \in [Activations -> {"idle", "waiting", "running"}]
  /\ script \in [Activations -> Scripts \cup {NoScript}]
  /\ owner \in [Activations -> Scripts \cup {NoScript}]
  /\ caller \in [Activations -> Activations \cup {NoActivation}]
  /\ root \in [Activations -> Activations \cup {NoActivation}]
  /\ cancelled \in SUBSET Activations
  /\ restricted \in SUBSET Scripts
  /\ result \in [Activations -> Refusals \cup {"None", "Permit"}]
  /\ \A a \in Activations : phase[a] # "idle" => script[a] \in Scripts

-----------------------------------------------------------------------------
(* Helpers of the queue. *)

Permits(limit, n) == limit # Unlimited => n <= limit

CapacityIgnoresTheNewRun(s) ==
  /\ Permits(policy.max_active_runs_global, activeTotal)
  /\ Permits(policy.max_active_runs_per_script, activeRuns[s])

HasActiveCapacity(s) ==
  /\ Permits(policy.max_active_runs_global, activeTotal + 1)
  /\ Permits(policy.max_active_runs_per_script, activeRuns[s] + 1)

\* A script without a waiter has no entry in the map and is never full.
QueueIsFull(s) ==
  /\ waiting[s] # <<>>
  /\ ~Permits(policy.max_queued_activations_per_script, Len(waiting[s]) + 1)

Closed(deps, S) ==
  \A x \in S, y \in Scripts : deps[x][y] > 0 => y \in S

\* The search from the target finds the owner exactly when every set that
\* holds the target and follows the recorded dependencies holds the owner.
CreatesDependencyCycle(deps, o, t) ==
  \A S \in SUBSET Scripts : t \in S /\ Closed(deps, S) => o \in S

Saturating(n) == IF n = 0 THEN 0 ELSE n - 1

AddDependency(deps, o, t) ==
  [x \in Scripts |-> [y \in Scripts |->
     IF x = o /\ y = t THEN deps[x][y] + 1 ELSE deps[x][y]]]

KeepDependency(deps, o, t) == deps

RemoveDependency(deps, o, t) ==
  [x \in Scripts |-> [y \in Scripts |->
     IF x = o /\ y = t THEN Saturating(deps[x][y]) ELSE deps[x][y]]]

PopWaiterFromFront(queue, a) ==
  IF queue # <<>> /\ Head(queue) = a THEN Tail(queue) ELSE queue

BlankWaiter(queue, a) ==
  [i \in DOMAIN queue |-> IF queue[i] = a THEN NoActivation ELSE queue[i]]

\* The waiter need not be there: a newer activation may have dropped it.
RemoveWaiter(queue, a) ==
  IF \E i \in DOMAIN queue : queue[i] = a
  THEN LET at == CHOOSE i \in DOMAIN queue : queue[i] = a
       IN [i \in 1 .. Len(queue) - 1 |-> IF i < at THEN queue[i] ELSE queue[i + 1]]
  ELSE queue

HasChild(a) == \E c \in Activations : caller[c] = a

\* The scripts on the call stack of a run that is not inside a nested call.
CallStack(a) == {script[x] : x \in {y \in Activations : root[y] = root[a]}}

ThreadBecomes(a, ph, s, o, c, r, res) ==
  /\ phase' = [phase EXCEPT ![a] = ph]
  /\ script' = [script EXCEPT ![a] = s]
  /\ owner' = [owner EXCEPT ![a] = o]
  /\ caller' = [caller EXCEPT ![a] = c]
  /\ root' = [root EXCEPT ![a] = r]
  /\ result' = [result EXCEPT ![a] = res]

\* The call is over and the activation may be used for another.
Return(a, res) ==
  /\ ThreadBecomes(a, "idle", NoScript, NoScript, NoActivation, NoActivation, res)
  /\ cancelled' = cancelled \ {a}

-----------------------------------------------------------------------------
(* One pass of the wait loop: activation a asks for script s on behalf of  *)
(* owner o, with the token of r, and finds the queue, the dependencies and  *)
(* the dropped waiters given.                                              *)

\* The order of the checks decides what the caller is told.
Withdraws(a, s, r, sup, why) ==
  \/ why = "Superseded" /\ a \in sup
  \/ why = "Rejected" /\ a \notin sup /\ s \in restricted
  \/ why = "Cancelled" /\ a \notin sup /\ s \notin restricted /\ r \in cancelled

Withdraw(a, s, o, r, queue, deps, sup) ==
  \E why \in {"Superseded", "Rejected", "Cancelled"} :
    /\ Withdraws(a, s, r, sup, why)
    /\ waiting' = [waiting EXCEPT ![s] = RemoveWaiter(queue, a)]
    /\ dependencies' = RemoveDependency(deps, o, s)
    /\ superseded' = sup \ {a}
    /\ Return(a, why)
    /\ UNCHANGED <<activeTotal, activeRuns>>

MayProceed(a, s, r, sup) == \A why \in Refusals : ~Withdraws(a, s, r, sup, why)

MayStartOutOfTurn(a, s, queue) == queue # <<>> /\ HasActiveCapacity(s)

MayStart(a, s, queue) == queue # <<>> /\ Head(queue) = a /\ HasActiveCapacity(s)

Admit(a, s, o, c, r, queue, deps, sup) ==
  /\ MayProceed(a, s, r, sup)
  /\ MayStart(a, s, queue)
  /\ waiting' = [waiting EXCEPT ![s] = RemoveWaiter(queue, a)]
  /\ activeTotal' = activeTotal + 1
  /\ activeRuns' = [activeRuns EXCEPT ![s] = activeRuns[s] + 1]
  /\ dependencies' = deps
  /\ superseded' = sup
  /\ ThreadBecomes(a, "running", s, o, c, r, "Permit")
  /\ UNCHANGED cancelled

KeepWaiting(a, s, o, c, r, queue, deps, sup) ==
  /\ MayProceed(a, s, r, sup)
  /\ ~MayStart(a, s, queue)
  /\ waiting' = [waiting EXCEPT ![s] = queue]
  /\ dependencies' = deps
  /\ superseded' = sup
  /\ ThreadBecomes(a, "waiting", s, o, c, r, "None")
  /\ UNCHANGED <<activeTotal, activeRuns, cancelled>>

Pass(a, s, o, c, r, queue, deps, sup) ==
  /\ \/ Withdraw(a, s, o, r, queue, deps, sup)
     \/ Admit(a, s, o, c, r, queue, deps, sup)
     \/ KeepWaiting(a, s, o, c, r, queue, deps, sup)
  /\ UNCHANGED <<policy, restricted>>

-----------------------------------------------------------------------------
(* acquire_internal up to its first wait. *)

Refuse(a, why) ==
  /\ result' = [result EXCEPT ![a] = why]
  /\ cancelled' = cancelled \ {a}
  /\ UNCHANGED <<policy, queueVars, phase, script, owner, caller, root, restricted>>

NeverWouldDeadlock(o, s) == FALSE

WouldDeadlock(o, s) == o # NoScript /\ CreatesDependencyCycle(dependencies, o, s)

RefuseBusy(a, s, o) ==
  /\ WouldDeadlock(o, s)
  /\ Refuse(a, "Busy")

\* The dependency that was just recorded is taken back.
RefuseFull(a, s, o) ==
  /\ ~WouldDeadlock(o, s)
  /\ QueueIsFull(s)
  /\ policy.queue_overflow_strategy = "RejectNewest"
  /\ Refuse(a, "Full")

\* The new waiter joins the tail; a full queue loses its oldest waiter first.
Join(a, s, o, c, r) ==
  /\ ~WouldDeadlock(o, s)
  /\ QueueIsFull(s) => policy.queue_overflow_strategy = "DropOldest"
  /\ LET dropped == IF QueueIsFull(s) THEN {Head(waiting[s])} ELSE {}
         kept == IF QueueIsFull(s) THEN Tail(waiting[s]) ELSE waiting[s]
     IN Pass(a, s, o, c, r, Append(kept, a), AddDependency(dependencies, o, s),
             superseded \cup dropped)

AcquireInternal(a, s, o, c, r) ==
  \/ RefuseBusy(a, s, o)
  \/ RefuseFull(a, s, o)
  \/ Join(a, s, o, c, r)

Acquire(a, s) ==
  /\ phase[a] = "idle"
  /\ AcquireInternal(a, s, NoScript, NoActivation, a)

\* A run asks for another script; the caller has refused a script that is
\* already on its own call stack.
AcquireNested(p, a, s) ==
  /\ phase[p] = "running"
  /\ ~HasChild(p)
  /\ phase[a] = "idle"
  /\ a \notin cancelled    \* a nested call has no token of its own
  /\ s \notin CallStack(p)
  /\ AcquireInternal(a, s, script[p], p, root[p])

\* A waiter looks again, after a notification or 50 ms.
Poll(a) ==
  /\ phase[a] = "waiting"
  /\ Pass(a, script[a], owner[a], caller[a], root[a], waiting[script[a]],
          dependencies, superseded)

\* The run returns and its permit is dropped.
Release(a) ==
  /\ phase[a] = "running"
  /\ ~HasChild(a)
  /\ activeTotal' = Saturating(activeTotal)
  /\ activeRuns' = [activeRuns EXCEPT ![script[a]] = Saturating(activeRuns[script[a]])]
  /\ dependencies' = RemoveDependency(dependencies, owner[a], script[a])
  /\ Return(a, "None")
  /\ UNCHANGED <<policy, waiting, superseded, restricted>>

UpdatePolicy(p) ==
  /\ p # policy
  /\ policy' = p
  /\ UNCHANGED <<queueVars, threadVars, cancelled, restricted>>

\* The token of a top-level activation is cancelled, perhaps before it asks.
Cancel(a) ==
  /\ root[a] \in {a, NoActivation}
  /\ a \notin cancelled
  /\ cancelled' = cancelled \cup {a}
  /\ UNCHANGED <<policy, queueVars, threadVars, restricted>>

\* The blacklist changes.
ChangeBlacklist(s) ==
  /\ restricted' = IF s \in restricted THEN restricted \ {s} ELSE restricted \cup {s}
  /\ UNCHANGED <<policy, queueVars, threadVars, cancelled>>

-----------------------------------------------------------------------------

Init ==
  /\ policy \in Policies
  /\ activeTotal = 0
  /\ activeRuns = [s \in Scripts |-> 0]
  /\ dependencies = [x \in Scripts |-> [y \in Scripts |-> 0]]
  /\ waiting = [s \in Scripts |-> <<>>]
  /\ superseded = {}
  /\ phase = [a \in Activations |-> "idle"]
  /\ script = [a \in Activations |-> NoScript]
  /\ owner = [a \in Activations |-> NoScript]
  /\ caller = [a \in Activations |-> NoActivation]
  /\ root = [a \in Activations |-> NoActivation]
  /\ cancelled = {}
  /\ restricted = {}
  /\ result = [a \in Activations |-> "None"]

Next ==
  \/ \E a \in Activations, s \in Scripts : Acquire(a, s)
  \/ \E p, a \in Activations, s \in Scripts : AcquireNested(p, a, s)
  \/ \E a \in Activations : Poll(a)
  \/ \E a \in Activations : Release(a)
  \/ \E p \in Policies : UpdatePolicy(p)
  \/ \E a \in Activations : Cancel(a)
  \/ \E s \in Scripts : ChangeBlacklist(s)

Spec == Init /\ [][Next]_vars

\* Waiters poll on their own threads.  A run ends, and does not go from one nested
\* call to the next for ever: by default the runtime bounds its steps and its
\* duration.  Where the configuration lifts both limits this is up to the scripts.
Fairness ==
  /\ \A a \in Activations : WF_vars(Poll(a))
  /\ \A a \in Activations : SF_vars(Release(a))

FairSpec == Spec /\ Fairness

-----------------------------------------------------------------------------
(* Properties. *)

Running == {a \in Activations : phase[a] = "running"}
RunningOf(s) == {a \in Running : script[a] = s}
Live == {a \in Activations : phase[a] # "idle"}
CallsBetween(o, t) == {a \in Live : owner[a] = o /\ script[a] = t}

(* No permit and no dependency is ever leaked or given back twice: the      *)
(* counters the limits are checked against are the permits really out, and *)
(* a dependency count is the number of nested calls that wait or run        *)
(* (acquire_internal lines 124-196 against Drop, lines 219-233).            *)
CountersExact ==
  /\ activeTotal = Cardinality(Running)
  /\ \A s \in Scripts : activeRuns[s] = Cardinality(RunningOf(s))
  /\ \A o, t \in Scripts : dependencies[o][t] = Cardinality(CallsBetween(o, t))

(* The scripts that wait for each other never form a cycle, whatever the    *)
(* interleaving of nested calls (creates_dependency_cycle, lines 235-254):  *)
(* no dependency leads back to the script it starts from.                   *)
AcyclicDependencies ==
  \A x, y \in Scripts :
    dependencies[x][y] > 0 => ~CreatesDependencyCycle(dependencies, x, y)

(* A waiting thread is in its script's queue exactly once, or has been told *)
(* that a newer activation took its place; nobody else is in a queue.  A    *)
(* waiter missing from the queue would wait for ever, and one left behind   *)
(* would block its script (remove_waiter, lines 305-320).                   *)
QueuesHoldTheWaiters ==
  \A s \in Scripts :
    /\ \A i, j \in DOMAIN waiting[s] : waiting[s][i] = waiting[s][j] => i = j
    /\ {waiting[s][i] : i \in DOMAIN waiting[s]} =
         {a \in Activations : phase[a] = "waiting" /\ script[a] = s /\ a \notin superseded}

(* Activations of one script start in the order they asked: while b waits   *)
(* ahead of c, c neither starts nor moves ahead of b nor is dropped in      *)
(* favour of a newer activation.                                           *)
NoOvertaking ==
  [][\A s \in Scripts : \A i, j \in DOMAIN waiting[s] :
       i < j => LET b == waiting[s][i]
                    c == waiting[s][j]
                IN  /\ phase'[c] # "running"
                    /\ c \in superseded' => b \in superseded'
                    /\ \A k, l \in DOMAIN waiting'[s] :
                         waiting'[s][k] = b /\ waiting'[s][l] = c => k < l]_vars

CanMove(a) ==
  \/ phase[a] = "running" /\ ~HasChild(a)
  \/ /\ phase[a] = "waiting"
     /\ \/ ~MayProceed(a, script[a], root[a], superseded)
        \/ MayStart(a, script[a], waiting[script[a]])

(* The refusal of nested waits does what it is for: as long as anybody asks *)
(* for or holds a permit, somebody can move without waiting for another.    *)
(* It is not enough under a global limit, where runs that wait for nested   *)
(* runs may hold every permit (acquire_internal, lines 124-127).            *)
NoGridlock ==
  policy.max_active_runs_global = Unlimited /\ Live # {} => \E a \in Live : CanMove(a)

(* Without a global limit no activation waits for ever: its script's queue  *)
(* is first come first served, and the runs ahead of it end, as they do     *)
(* under the default limits on steps and duration (not when both are set to *)
(* unlimited and a script never ends by itself).                            *)
EveryWaitEnds ==
  \A a \in Activations : (phase[a] = "waiting") ~> (phase[a] # "waiting")

(* The queue implements its abstract specification: whatever the threads,   *)
(* the dependencies and the dropped waiters do, an activation is admitted   *)
(* only from the head of its script's line and only with room for it.       *)
Promise == INSTANCE Admission WITH
       line <- waiting,
       holds <- [a \in Activations |-> IF phase[a] = "running" THEN script[a] ELSE NoScript]

ImplementsAdmission == Promise!SpecAdmission

=============================================================================
