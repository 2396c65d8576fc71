------------------------ MODULE ExecutionQueueProofs ------------------------
(* Theorems about ExecutionQueue, for any scripts, activations and policies. *)
EXTENDS ExecutionQueue, FiniteSetTheorems, TLAPS

LEMMA RemoveWaiterType ==
  ASSUME NEW queue \in Seq(Activations), NEW a
  PROVE  RemoveWaiter(queue, a) \in Seq(Activations)
<1>1. CASE \E i \in DOMAIN queue : queue[i] = a
  <2>1. Len(queue) \in Nat /\ Len(queue) > 0
    BY <1>1
  <2>2. \A i \in 1 .. Len(queue) - 1 : queue[i] \in Activations /\ queue[i + 1] \in Activations
    BY <2>1
  <2> QED BY <1>1, <2>1, <2>2 DEF RemoveWaiter
<1>2. CASE ~ \E i \in DOMAIN queue : queue[i] = a
  BY <1>2 DEF RemoveWaiter
<1> QED BY <1>1, <1>2

LEMMA DependencyTypes ==
  ASSUME NEW deps \in [Scripts -> [Scripts -> Nat]], NEW o, NEW t
  PROVE  /\ AddDependency(deps, o, t) \in [Scripts -> [Scripts -> Nat]]
         /\ RemoveDependency(deps, o, t) \in [Scripts -> [Scripts -> Nat]]
BY DEF AddDependency, RemoveDependency, Saturating

LEMMA ThreadType ==
  ASSUME TypeOK,
         NEW a \in Activations, NEW ph \in {"idle", "waiting", "running"},
         NEW s \in Scripts \cup {NoScript}, NEW o \in Scripts \cup {NoScript},
         NEW c \in Activations \cup {NoActivation}, NEW r \in Activations \cup {NoActivation},
         NEW res \in Refusals \cup {"None", "Permit"},
         ph # "idle" => s \in Scripts,
         ThreadBecomes(a, ph, s, o, c, r, res)
  PROVE  /\ phase' \in [Activations -> {"idle", "waiting", "running"}]
         /\ script' \in [Activations -> Scripts \cup {NoScript}]
         /\ owner' \in [Activations -> Scripts \cup {NoScript}]
         /\ caller' \in [Activations -> Activations \cup {NoActivation}]
         /\ root' \in [Activations -> Activations \cup {NoActivation}]
         /\ result' \in [Activations -> Refusals \cup {"None", "Permit"}]
         /\ \A x \in Activations : phase'[x] # "idle" => script'[x] \in Scripts
<1>1. /\ phase' \in [Activations -> {"idle", "waiting", "running"}]
      /\ script' \in [Activations -> Scripts \cup {NoScript}]
      /\ owner' \in [Activations -> Scripts \cup {NoScript}]
  BY DEF TypeOK, ThreadBecomes
<1>2. /\ caller' \in [Activations -> Activations \cup {NoActivation}]
      /\ root' \in [Activations -> Activations \cup {NoActivation}]
      /\ result' \in [Activations -> Refusals \cup {"None", "Permit"}]
  BY DEF TypeOK, ThreadBecomes
<1>3. \A x \in Activations : phase'[x] # "idle" => script'[x] \in Scripts
  BY DEF TypeOK, ThreadBecomes
<1> QED BY <1>1, <1>2, <1>3

\* A pass of the wait loop keeps the types its arguments have.
LEMMA PassType ==
  ASSUME TypeOK,
         NEW a \in Activations, NEW s \in Scripts, NEW o \in Scripts \cup {NoScript},
         NEW c \in Activations \cup {NoActivation}, NEW r \in Activations \cup {NoActivation},
         NEW queue \in Seq(Activations), NEW deps \in [Scripts -> [Scripts -> Nat]],
         NEW sup \in SUBSET Activations,
         Pass(a, s, o, c, r, queue, deps, sup)
  PROVE  TypeOK'
<1>1. policy' = policy /\ restricted' = restricted
  BY DEF Pass
<1>2. RemoveWaiter(queue, a) \in Seq(Activations)
  BY RemoveWaiterType
<1>3. RemoveDependency(deps, o, s) \in [Scripts -> [Scripts -> Nat]]
  BY DependencyTypes
<1>4. ASSUME NEW why \in {"Superseded", "Rejected", "Cancelled"},
             Return(a, why),
             waiting' = [waiting EXCEPT ![s] = RemoveWaiter(queue, a)],
             dependencies' = RemoveDependency(deps, o, s),
             superseded' = sup \ {a},
             UNCHANGED <<activeTotal, activeRuns>>
      PROVE  TypeOK'
  <2>1. ThreadBecomes(a, "idle", NoScript, NoScript, NoActivation, NoActivation, why)
        /\ why \in Refusals
    BY <1>4 DEF Return, Refusals
  <2>2. cancelled' \in SUBSET Activations
    BY <1>4 DEF Return, TypeOK
  <2>3. waiting' \in [Scripts -> Seq(Activations)]
    BY <1>2, <1>4 DEF TypeOK
  <2> QED BY <1>1, <1>3, <1>4, <2>1, <2>2, <2>3, ThreadType DEF TypeOK
<1>5. CASE Admit(a, s, o, c, r, queue, deps, sup)
  <2>1. waiting' \in [Scripts -> Seq(Activations)]
    BY <1>2, <1>5 DEF TypeOK, Admit
  <2>2. activeTotal' \in Nat /\ activeRuns' \in [Scripts -> Nat]
    BY <1>5 DEF TypeOK, Admit
  <2>3. ThreadBecomes(a, "running", s, o, c, r, "Permit")
    BY <1>5 DEF Admit
  <2> QED BY <1>1, <1>5, <2>1, <2>2, <2>3, ThreadType DEF TypeOK, Admit
<1>6. CASE KeepWaiting(a, s, o, c, r, queue, deps, sup)
  <2>1. waiting' \in [Scripts -> Seq(Activations)]
    BY <1>6 DEF TypeOK, KeepWaiting
  <2>2. ThreadBecomes(a, "waiting", s, o, c, r, "None")
    BY <1>6 DEF KeepWaiting
  <2> QED BY <1>1, <1>6, <2>1, <2>2, ThreadType DEF TypeOK, KeepWaiting
<1> QED BY <1>4, <1>5, <1>6 DEF Pass, Withdraw

LEMMA AcquireType ==
  ASSUME TypeOK,
         NEW a \in Activations, NEW s \in Scripts, NEW o \in Scripts \cup {NoScript},
         NEW c \in Activations \cup {NoActivation}, NEW r \in Activations \cup {NoActivation},
         AcquireInternal(a, s, o, c, r)
  PROVE  TypeOK'
<1>1. ASSUME NEW why \in {"Busy", "Full"}, Refuse(a, why)
      PROVE  TypeOK'
  BY <1>1 DEF Refuse, TypeOK, Refusals, queueVars
<1>2. CASE RefuseBusy(a, s, o)
  BY <1>1, <1>2 DEF RefuseBusy
<1>3. CASE RefuseFull(a, s, o)
  BY <1>1, <1>3 DEF RefuseFull
<1>4. CASE Join(a, s, o, c, r)
  <2> DEFINE full == QueueIsFull(s)
             dropped == IF full THEN {Head(waiting[s])} ELSE {}
             kept == IF full THEN Tail(waiting[s]) ELSE waiting[s]
  <2>1. waiting[s] \in Seq(Activations)
    BY DEF TypeOK
  <2>2. full => waiting[s] # <<>>
    BY DEF QueueIsFull
  <2>3. dropped \in SUBSET Activations
    BY <2>1, <2>2
  <2>4. kept \in Seq(Activations)
    BY <2>1, <2>2
  <2>5. Append(kept, a) \in Seq(Activations)
    BY <2>4
  <2>6. superseded \cup dropped \in SUBSET Activations
    BY <2>3 DEF TypeOK
  <2>7. AddDependency(dependencies, o, s) \in [Scripts -> [Scripts -> Nat]]
    BY DependencyTypes DEF TypeOK
  <2>8. Pass(a, s, o, c, r, Append(kept, a), AddDependency(dependencies, o, s),
             superseded \cup dropped)
    BY <1>4 DEF Join
  <2> HIDE DEF dropped, kept
  <2> QED BY <2>5, <2>6, <2>7, <2>8, PassType
<1> QED BY <1>2, <1>3, <1>4 DEF AcquireInternal

THEOREM TypeCorrect == Spec => []TypeOK
<1>1. Init => TypeOK
  BY ExecutionQueueAssumption DEF Init, TypeOK
<1>2. TypeOK /\ [Next]_vars => TypeOK'
  <2> SUFFICES ASSUME TypeOK, [Next]_vars PROVE TypeOK'
    OBVIOUS
  <2>1. ASSUME NEW a \in Activations, NEW s \in Scripts, Acquire(a, s)
        PROVE  TypeOK'
    BY <2>1, AcquireType DEF Acquire
  <2>2. ASSUME NEW p \in Activations, NEW a \in Activations, NEW s \in Scripts,
               AcquireNested(p, a, s)
        PROVE  TypeOK'
    <3>1. script[p] \in Scripts \cup {NoScript} /\ root[p] \in Activations \cup {NoActivation}
      BY DEF TypeOK
    <3> QED BY <2>2, <3>1, AcquireType DEF AcquireNested
  <2>3. ASSUME NEW a \in Activations, Poll(a) PROVE TypeOK'
    <3>1. /\ script[a] \in Scripts
          /\ owner[a] \in Scripts \cup {NoScript}
          /\ caller[a] \in Activations \cup {NoActivation}
          /\ root[a] \in Activations \cup {NoActivation}
          /\ waiting[script[a]] \in Seq(Activations)
          /\ dependencies \in [Scripts -> [Scripts -> Nat]]
          /\ superseded \in SUBSET Activations
      BY <2>3 DEF Poll, TypeOK
    <3> QED BY <2>3, <3>1, PassType DEF Poll
  <2>4. ASSUME NEW a \in Activations, Release(a) PROVE TypeOK'
    <3>1. script[a] \in Scripts
      BY <2>4 DEF Release, TypeOK
    <3>2. dependencies' \in [Scripts -> [Scripts -> Nat]]
      BY <2>4, DependencyTypes DEF Release, TypeOK
    <3>3. activeTotal' \in Nat /\ activeRuns' \in [Scripts -> Nat]
      BY <2>4, <3>1 DEF Release, TypeOK, Saturating
    <3>4. ThreadBecomes(a, "idle", NoScript, NoScript, NoActivation, NoActivation, "None")
      BY <2>4 DEF Release, Return
    <3>5. cancelled' \in SUBSET Activations
      BY <2>4 DEF Release, Return, TypeOK
    <3> QED BY <2>4, <3>2, <3>3, <3>4, <3>5, ThreadType DEF Release, TypeOK
  <2>5. ASSUME NEW p \in Policies, UpdatePolicy(p) PROVE TypeOK'
    BY <2>5 DEF UpdatePolicy, TypeOK, queueVars, threadVars
  <2>6. ASSUME NEW a \in Activations, Cancel(a) PROVE TypeOK'
    BY <2>6 DEF Cancel, TypeOK, queueVars, threadVars
  <2>7. ASSUME NEW s \in Scripts, ChangeBlacklist(s) PROVE TypeOK'
    BY <2>7 DEF ChangeBlacklist, TypeOK, queueVars, threadVars
  <2>8. CASE UNCHANGED vars
    BY <2>8 DEF vars, TypeOK, queueVars, threadVars
  <2> QED BY <2>1, <2>2, <2>3, <2>4, <2>5, <2>6, <2>7, <2>8 DEF Next
<1> QED BY <1>1, <1>2, PTL DEF Spec

-----------------------------------------------------------------------------
(* Scripts never wait for each other in a cycle.                            *)

Acyclic(deps) ==
  \A x, y \in Scripts : deps[x][y] > 0 => ~CreatesDependencyCycle(deps, x, y)

\* Recording t as something o waits for is safe when the search from t does not
\* find o: the set it does not leave, joined with or cut by the set that
\* already separates the two ends of another dependency, separates them again.
LEMMA AddKeepsAcyclic ==
  ASSUME NEW deps \in [Scripts -> [Scripts -> Nat]], Acyclic(deps),
         NEW o \in Scripts, NEW t \in Scripts, ~CreatesDependencyCycle(deps, o, t)
  PROVE  Acyclic(AddDependency(deps, o, t))
<1> DEFINE new == AddDependency(deps, o, t)
<1>1. \A x, y \in Scripts : new[x][y] > 0 <=> deps[x][y] > 0 \/ (x = o /\ y = t)
  BY DEF AddDependency
<1>2. PICK T \in SUBSET Scripts : t \in T /\ Closed(deps, T) /\ o \notin T
  BY DEF CreatesDependencyCycle
<1> HIDE DEF new
<1>3. \A S \in SUBSET Scripts : Closed(deps, S) /\ (o \in S => t \in S) => Closed(new, S)
  BY <1>1 DEF Closed
<1>4. SUFFICES ASSUME NEW x \in Scripts, NEW y \in Scripts, new[x][y] > 0
               PROVE  \E S \in SUBSET Scripts : y \in S /\ Closed(new, S) /\ x \notin S
  BY DEF Acyclic, CreatesDependencyCycle, new
<1>5. CASE x = o /\ y = t
  BY <1>2, <1>3, <1>5
<1>6. CASE deps[x][y] > 0
  <2>1. PICK S \in SUBSET Scripts : y \in S /\ Closed(deps, S) /\ x \notin S
    BY <1>6 DEF Acyclic, CreatesDependencyCycle
  <2>2. CASE x \in T
    <3>1. Closed(deps, S \cap T)
      BY <1>2, <2>1 DEF Closed
    <3>2. y \in S \cap T
      BY <1>2, <1>6, <2>1, <2>2 DEF Closed
    <3> QED BY <1>2, <1>3, <2>1, <3>1, <3>2
  <2>3. CASE x \notin T
    <3>1. Closed(deps, S \cup T)
      BY <1>2, <2>1 DEF Closed
    <3> QED BY <1>2, <1>3, <2>1, <2>3, <3>1
  <2> QED BY <2>2, <2>3
<1> QED BY <1>1, <1>4, <1>5, <1>6

LEMMA RemoveKeepsAcyclic ==
  ASSUME NEW deps \in [Scripts -> [Scripts -> Nat]], Acyclic(deps), NEW o, NEW t
  PROVE  Acyclic(RemoveDependency(deps, o, t))
<1> DEFINE new == RemoveDependency(deps, o, t)
<1>1. \A x, y \in Scripts : new[x][y] > 0 => deps[x][y] > 0
  BY DEF RemoveDependency, Saturating
<1> HIDE DEF new
<1>2. \A S \in SUBSET Scripts : Closed(deps, S) => Closed(new, S)
  BY <1>1 DEF Closed
<1>3. Acyclic(new)
  BY <1>1, <1>2 DEF Acyclic, CreatesDependencyCycle
<1> QED BY <1>3 DEF new

LEMMA TopLevelAddsNothing ==
  ASSUME NEW deps \in [Scripts -> [Scripts -> Nat]], NEW t
  PROVE  AddDependency(deps, NoScript, t) = deps
BY ExecutionQueueAssumption DEF AddDependency

LEMMA PassAcyclic ==
  ASSUME NEW a, NEW s \in Scripts, NEW o, NEW c, NEW r, NEW queue, NEW sup,
         NEW deps \in [Scripts -> [Scripts -> Nat]], Acyclic(deps),
         Pass(a, s, o, c, r, queue, deps, sup)
  PROVE  Acyclic(dependencies')
<1>1. dependencies' = deps \/ dependencies' = RemoveDependency(deps, o, s)
  BY DEF Pass, Withdraw, Admit, KeepWaiting
<1> QED BY <1>1, RemoveKeepsAcyclic

LEMMA AcquireAcyclic ==
  ASSUME TypeOK, Acyclic(dependencies),
         NEW a, NEW s \in Scripts, NEW o \in Scripts \cup {NoScript}, NEW c, NEW r,
         AcquireInternal(a, s, o, c, r)
  PROVE  Acyclic(dependencies')
<1>1. CASE RefuseBusy(a, s, o) \/ RefuseFull(a, s, o)
  BY <1>1 DEF RefuseBusy, RefuseFull, Refuse, queueVars
<1>2. CASE Join(a, s, o, c, r)
  <2>1. dependencies \in [Scripts -> [Scripts -> Nat]]
    BY DEF TypeOK
  <2>2. AddDependency(dependencies, o, s) \in [Scripts -> [Scripts -> Nat]]
    BY <2>1, DependencyTypes
  <2>3. Acyclic(AddDependency(dependencies, o, s))
    <3>1. CASE o = NoScript
      BY <2>1, <3>1, TopLevelAddsNothing
    <3>2. CASE o # NoScript
      <4>1. ~CreatesDependencyCycle(dependencies, o, s)
        BY <1>2, <3>2 DEF Join, WouldDeadlock
      <4> QED BY <2>1, <3>2, <4>1, AddKeepsAcyclic
    <3> QED BY <3>1, <3>2
  <2>4. \E queue, sup : Pass(a, s, o, c, r, queue, AddDependency(dependencies, o, s), sup)
    BY <1>2 DEF Join
  <2> QED BY <2>2, <2>3, <2>4, PassAcyclic
<1> QED BY <1>1, <1>2 DEF AcquireInternal

(* For any number of scripts and nested calls, a nested wait is never       *)
(* admitted that closes a cycle of scripts waiting for each other.          *)
THEOREM NestedWaitsAcyclic == Spec => []AcyclicDependencies
<1>1. Init => Acyclic(dependencies)
  BY DEF Init, Acyclic
<1>2. TypeOK /\ Acyclic(dependencies) /\ [Next]_vars => Acyclic(dependencies')
  <2> SUFFICES ASSUME TypeOK, Acyclic(dependencies), [Next]_vars
               PROVE  Acyclic(dependencies')
    OBVIOUS
  <2>1. ASSUME NEW a \in Activations, NEW s \in Scripts, Acquire(a, s)
        PROVE  Acyclic(dependencies')
    BY <2>1, AcquireAcyclic DEF Acquire
  <2>2. ASSUME NEW p \in Activations, NEW a \in Activations, NEW s \in Scripts,
               AcquireNested(p, a, s)
        PROVE  Acyclic(dependencies')
    <3>1. script[p] \in Scripts \cup {NoScript}
      BY DEF TypeOK
    <3> QED BY <2>2, <3>1, AcquireAcyclic DEF AcquireNested
  <2>3. ASSUME NEW a \in Activations, Poll(a) PROVE Acyclic(dependencies')
    <3>1. script[a] \in Scripts /\ dependencies \in [Scripts -> [Scripts -> Nat]]
      BY <2>3 DEF Poll, TypeOK
    <3> QED BY <2>3, <3>1, PassAcyclic DEF Poll
  <2>4. ASSUME NEW a \in Activations, Release(a) PROVE Acyclic(dependencies')
    BY <2>4, RemoveKeepsAcyclic DEF Release, TypeOK
  <2>5. CASE UNCHANGED dependencies
    BY <2>5
  <2> QED BY <2>1, <2>2, <2>3, <2>4, <2>5
          DEF Next, UpdatePolicy, Cancel, ChangeBlacklist, vars, queueVars
<1>3. Init => AcyclicDependencies
  BY <1>1 DEF Acyclic, AcyclicDependencies
<1>4. TypeOK /\ AcyclicDependencies /\ [Next]_vars => AcyclicDependencies'
  BY <1>2 DEF Acyclic, AcyclicDependencies
<1> QED BY <1>3, <1>4, TypeCorrect, PTL DEF Spec

-----------------------------------------------------------------------------
(* The counters are the permits and the nested calls.                       *)

LEMMA FiniteSubsets ==
  ASSUME NEW S \in SUBSET Activations
  PROVE  IsFiniteSet(S) /\ Cardinality(S) \in Nat
BY ExecutionQueueAssumption, FS_Subset, FS_CardinalityType

LEMMA AddOne ==
  ASSUME NEW S \in SUBSET Activations, NEW a, a \notin S
  PROVE  Cardinality(S \cup {a}) = Cardinality(S) + 1
BY FiniteSubsets, FS_AddElement

LEMMA RemoveOne ==
  ASSUME NEW S \in SUBSET Activations, NEW a \in S
  PROVE  Cardinality(S) = Cardinality(S \ {a}) + 1
<1>1. Cardinality(S \ {a}) = Cardinality(S) - 1
  BY FiniteSubsets, FS_RemoveElement
<1> QED BY <1>1, FiniteSubsets

LEMMA OneLess ==
  ASSUME NEW n \in Nat
  PROVE  Saturating(n + 1) = n
BY DEF Saturating

\* What a pass finds: a has no permit yet, and deps counts the nested calls,
\* its own among them.
PassCounts(a, s, o, deps) ==
  /\ phase[a] # "running"
  /\ \A x, y \in Scripts :
       /\ a \in CallsBetween(x, y) => x = o /\ y = s
       /\ deps[x][y] = IF x = o /\ y = s
                       THEN Cardinality(CallsBetween(x, y) \cup {a})
                       ELSE Cardinality(CallsBetween(x, y))

LEMMA PassKeepsCounters ==
  ASSUME TypeOK, CountersExact,
         NEW a \in Activations, NEW s \in Scripts, NEW o \in Scripts \cup {NoScript},
         NEW c, NEW r, NEW queue, NEW sup,
         NEW deps \in [Scripts -> [Scripts -> Nat]],
         PassCounts(a, s, o, deps),
         Pass(a, s, o, c, r, queue, deps, sup)
  PROVE  CountersExact'
<1>1. a \notin Running /\ \A x \in Scripts : a \notin RunningOf(x)
  BY DEF PassCounts, Running, RunningOf
<1>2. CASE Withdraw(a, s, o, r, queue, deps, sup)
  <2>1. PICK why \in {"Superseded", "Rejected", "Cancelled"} :
          ThreadBecomes(a, "idle", NoScript, NoScript, NoActivation, NoActivation, why)
    BY <1>2 DEF Withdraw, Return
  <2>2. Running' = Running /\ \A x \in Scripts : RunningOf(x)' = RunningOf(x)
    BY <1>1, <2>1 DEF ThreadBecomes, Running, RunningOf, TypeOK
  <2>3. \A x, y \in Scripts : CallsBetween(x, y)' = CallsBetween(x, y) \ {a}
    BY <2>1 DEF ThreadBecomes, CallsBetween, Live, TypeOK
  <2>4. ASSUME NEW x \in Scripts, NEW y \in Scripts
        PROVE  dependencies'[x][y] = Cardinality(CallsBetween(x, y)')
    <3> DEFINE calls == CallsBetween(x, y)
    <3>1. calls \in SUBSET Activations
      BY DEF CallsBetween, Live
    <3>2. dependencies'[x][y] = IF x = o /\ y = s THEN Saturating(deps[x][y]) ELSE deps[x][y]
      BY <1>2 DEF Withdraw, RemoveDependency
    <3>3. CASE x = o /\ y = s
      <4>1. deps[x][y] = Cardinality(calls \cup {a})
        BY <3>3 DEF PassCounts
      <4>2. (calls \cup {a}) \ {a} = calls \ {a}
        OBVIOUS
      <4>3. Cardinality(calls \cup {a}) = Cardinality(calls \ {a}) + 1
        BY <3>1, <4>2, RemoveOne
      <4>4. Cardinality(calls \ {a}) \in Nat
        BY <3>1, FiniteSubsets
      <4>5. dependencies'[x][y] = Cardinality(calls \ {a})
        <5>1. dependencies'[x][y] = Saturating(Cardinality(calls \ {a}) + 1)
          BY <3>2, <3>3, <4>1, <4>3, Zenon
        <5> HIDE DEF calls
        <5> QED BY <4>4, <5>1, OneLess, Zenon
      <4>6. CallsBetween(x, y)' = calls \ {a}
        BY <2>3, Zenon
      <4> QED BY <4>5, <4>6, Zenon
    <3>4. CASE ~(x = o /\ y = s)
      <4>1. a \notin calls /\ deps[x][y] = Cardinality(calls)
        BY <3>4 DEF PassCounts
      <4>2. CallsBetween(x, y)' = calls
        <5>1. CallsBetween(x, y)' = calls \ {a}
          BY <2>3, Zenon
        <5> HIDE DEF calls
        <5>2. calls \ {a} = calls
          BY <4>1
        <5> QED BY <5>1, <5>2, Zenon
      <4>3. dependencies'[x][y] = deps[x][y]
        BY <3>2, <3>4, Zenon
      <4> QED BY <4>1, <4>2, <4>3, Zenon
    <3> QED BY <3>3, <3>4
  <2>5. activeTotal' = activeTotal /\ activeRuns' = activeRuns
    BY <1>2 DEF Withdraw
  <2> QED BY <2>2, <2>4, <2>5 DEF CountersExact
<1>3. ASSUME NEW ph \in {"running", "waiting"}, NEW res,
             ThreadBecomes(a, ph, s, o, c, r, res)
      PROVE  \A x, y \in Scripts : CallsBetween(x, y)' =
               IF x = o /\ y = s THEN CallsBetween(x, y) \cup {a} ELSE CallsBetween(x, y)
  <2>1. ASSUME NEW x \in Scripts, NEW y \in Scripts
        PROVE  a \in CallsBetween(x, y)' <=> x = o /\ y = s
    BY <1>3 DEF ThreadBecomes, CallsBetween, Live, TypeOK
  <2>2. ASSUME NEW x \in Scripts, NEW y \in Scripts, NEW b \in Activations, b # a
        PROVE  b \in CallsBetween(x, y)' <=> b \in CallsBetween(x, y)
    BY <1>3, <2>2 DEF ThreadBecomes, CallsBetween, Live, TypeOK
  <2>3. \A x, y \in Scripts : /\ CallsBetween(x, y) \subseteq Activations
                              /\ CallsBetween(x, y)' \subseteq Activations
                              /\ a \in CallsBetween(x, y) => x = o /\ y = s
    BY DEF CallsBetween, Live, PassCounts
  <2>4. ASSUME NEW x \in Scripts, NEW y \in Scripts
        PROVE  CallsBetween(x, y)' =
                 IF x = o /\ y = s THEN CallsBetween(x, y) \cup {a} ELSE CallsBetween(x, y)
    <3>1. CASE x = o /\ y = s
      <4>1. CallsBetween(x, y)' = CallsBetween(x, y) \cup {a}
        BY <2>1, <2>2, <2>3, <3>1
      <4> QED BY <3>1, <4>1, Zenon
    <3>2. CASE ~(x = o /\ y = s)
      <4>1. CallsBetween(x, y)' = CallsBetween(x, y)
        <5>1. a \notin CallsBetween(x, y) /\ a \notin CallsBetween(x, y)'
          BY <2>1, <2>3, <3>2
        <5>2. \A b : b \in CallsBetween(x, y)' <=> b \in CallsBetween(x, y)
          BY <2>2, <2>3, <5>1
        <5> QED BY <5>2, Zenon
      <4> QED BY <3>2, <4>1, Zenon
    <3> QED BY <3>1, <3>2
  <2> QED BY <2>4
<1>3a. ASSUME NEW ph \in {"running", "waiting"}, NEW res,
              ThreadBecomes(a, ph, s, o, c, r, res), dependencies' = deps
       PROVE  \A x, y \in Scripts : dependencies'[x][y] = Cardinality(CallsBetween(x, y)')
  <2>1. ASSUME NEW x \in Scripts, NEW y \in Scripts
        PROVE  dependencies'[x][y] = Cardinality(CallsBetween(x, y)')
    <3>1. CallsBetween(x, y)' =
            IF x = o /\ y = s THEN CallsBetween(x, y) \cup {a} ELSE CallsBetween(x, y)
      BY <1>3, <1>3a, Zenon
    <3>2. deps[x][y] = IF x = o /\ y = s THEN Cardinality(CallsBetween(x, y) \cup {a})
                                        ELSE Cardinality(CallsBetween(x, y))
      BY Zenon DEF PassCounts
    <3>3. CASE x = o /\ y = s
      <4>1. CallsBetween(x, y)' = CallsBetween(x, y) \cup {a}
        BY <3>1, <3>3, Zenon
      <4>2. deps[x][y] = Cardinality(CallsBetween(x, y) \cup {a})
        BY <3>2, <3>3, Zenon
      <4> QED BY <1>3a, <4>1, <4>2, Zenon
    <3>4. CASE ~(x = o /\ y = s)
      <4>1. CallsBetween(x, y)' = CallsBetween(x, y)
        BY <3>1, <3>4, Zenon
      <4>2. deps[x][y] = Cardinality(CallsBetween(x, y))
        BY <3>2, <3>4, Zenon
      <4> QED BY <1>3a, <4>1, <4>2, Zenon
    <3> QED BY <3>3, <3>4
  <2> QED BY <2>1, Zenon
<1>4. CASE Admit(a, s, o, c, r, queue, deps, sup)
  <2>1. ThreadBecomes(a, "running", s, o, c, r, "Permit")
    BY <1>4 DEF Admit
  <2>2. \A x, y \in Scripts : dependencies'[x][y] = Cardinality(CallsBetween(x, y)')
    <3>1. dependencies' = deps
      BY <1>4 DEF Admit
    <3> QED BY <1>3a, <2>1, <3>1, Zenon
  <2>3. Running' = Running \cup {a}
    BY <1>1, <2>1 DEF ThreadBecomes, Running, TypeOK
  <2>4. \A x \in Scripts : RunningOf(x)' = IF x = s THEN RunningOf(x) \cup {a} ELSE RunningOf(x)
    <3>1. \A b \in Activations : script'[b] = IF b = a THEN s ELSE script[b]
      BY <2>1 DEF ThreadBecomes, TypeOK
    <3>2. a \in Activations /\ a \notin Running /\ Running \subseteq Activations
      BY <1>1 DEF Running
    <3> HIDE DEF Running
    <3>3. \A b : \A x \in Scripts : b \in RunningOf(x)' <=>
            IF b = a THEN x = s ELSE b \in RunningOf(x)
      BY <2>3, <3>1, <3>2 DEF RunningOf
    <3>4. \A x \in Scripts : a \notin RunningOf(x)
      BY <3>2 DEF RunningOf
    <3> HIDE DEF RunningOf
    <3> QED BY <3>3, <3>4
  <2>5. Running \in SUBSET Activations /\ \A x \in Scripts : RunningOf(x) \in SUBSET Activations
    BY DEF Running, RunningOf
  <2>6. activeTotal' = Cardinality(Running')
    BY <1>1, <1>4, <2>3, <2>5, AddOne DEF Admit, CountersExact
  <2>7. ASSUME NEW x \in Scripts PROVE activeRuns'[x] = Cardinality(RunningOf(x)')
    <3>1. activeRuns[x] = Cardinality(RunningOf(x))
      BY DEF CountersExact
    <3>2. CASE x = s
      <4>1. activeRuns'[x] = activeRuns[x] + 1
        BY <1>4, <3>2 DEF Admit, TypeOK
      <4>2. RunningOf(x)' = RunningOf(x) \cup {a}
        BY <2>4, <3>2, Zenon
      <4>3. Cardinality(RunningOf(x) \cup {a}) = Cardinality(RunningOf(x)) + 1
        BY <1>1, <2>5, AddOne
      <4> QED BY <3>1, <4>1, <4>2, <4>3, Zenon
    <3>3. CASE x # s
      <4>1. activeRuns'[x] = activeRuns[x]
        BY <1>4, <3>3 DEF Admit, TypeOK
      <4>2. RunningOf(x)' = RunningOf(x)
        BY <2>4, <3>3, Zenon
      <4> QED BY <3>1, <4>1, <4>2, Zenon
    <3> QED BY <3>2, <3>3
  <2> QED BY <2>2, <2>6, <2>7 DEF CountersExact
<1>5. CASE KeepWaiting(a, s, o, c, r, queue, deps, sup)
  <2>1. ThreadBecomes(a, "waiting", s, o, c, r, "None")
    BY <1>5 DEF KeepWaiting
  <2>2. \A x, y \in Scripts : dependencies'[x][y] = Cardinality(CallsBetween(x, y)')
    <3>1. dependencies' = deps
      BY <1>5 DEF KeepWaiting
    <3> QED BY <1>3a, <2>1, <3>1, Zenon
  <2>3. Running' = Running /\ \A x \in Scripts : RunningOf(x)' = RunningOf(x)
    BY <1>1, <2>1 DEF ThreadBecomes, Running, RunningOf, TypeOK
  <2>4. activeTotal' = activeTotal /\ activeRuns' = activeRuns
    BY <1>5 DEF KeepWaiting
  <2> QED BY <2>2, <2>3, <2>4 DEF CountersExact
<1> QED BY <1>2, <1>4, <1>5 DEF Pass

LEMMA UnchangedCounters ==
  ASSUME CountersExact,
         UNCHANGED <<activeTotal, activeRuns, dependencies, phase, script, owner>>
  PROVE  CountersExact'
<1>1. Running' = Running
  BY DEF Running
<1>2. ASSUME NEW x \in Scripts PROVE RunningOf(x)' = RunningOf(x)
  BY DEF RunningOf, Running
<1>3. ASSUME NEW x \in Scripts, NEW y \in Scripts
      PROVE  CallsBetween(x, y)' = CallsBetween(x, y)
  BY DEF CallsBetween, Live
<1> QED BY <1>1, <1>2, <1>3 DEF CountersExact

LEMMA AcquireKeepsCounters ==
  ASSUME TypeOK, CountersExact,
         NEW a \in Activations, NEW s \in Scripts, NEW o \in Scripts \cup {NoScript},
         NEW c, NEW r, phase[a] = "idle",
         AcquireInternal(a, s, o, c, r)
  PROVE  CountersExact'
<1>1. CASE RefuseBusy(a, s, o) \/ RefuseFull(a, s, o)
  <2>1. UNCHANGED <<activeTotal, activeRuns, dependencies, phase, script, owner>>
    BY <1>1 DEF RefuseBusy, RefuseFull, Refuse, queueVars
  <2> QED BY <2>1, UnchangedCounters
<1>2. CASE Join(a, s, o, c, r)
  <2> DEFINE deps == AddDependency(dependencies, o, s)
  <2>1. deps \in [Scripts -> [Scripts -> Nat]]
    BY DependencyTypes DEF TypeOK
  <2>2. PassCounts(a, s, o, deps)
    <3>1. \A x, y \in Scripts : a \notin CallsBetween(x, y) /\ CallsBetween(x, y) \in SUBSET Activations
      BY DEF CallsBetween, Live
    <3>2. \A x, y \in Scripts : Cardinality(CallsBetween(x, y) \cup {a}) = dependencies[x][y] + 1
      BY <3>1, AddOne DEF CountersExact
    <3>3. \A x, y \in Scripts :
            deps[x][y] = IF x = o /\ y = s THEN dependencies[x][y] + 1 ELSE dependencies[x][y]
      BY DEF AddDependency
    <3> HIDE DEF deps
    <3> QED BY <3>1, <3>2, <3>3 DEF PassCounts, CountersExact
  <2>3. \E queue, sup : Pass(a, s, o, c, r, queue, deps, sup)
    BY <1>2 DEF Join
  <2> HIDE DEF deps
  <2> QED BY <2>1, <2>2, <2>3, PassKeepsCounters
<1> QED BY <1>1, <1>2 DEF AcquireInternal

(* The counters the limits are checked against never drift from the permits *)
(* that are out, and no dependency outlives the nested call that made it.   *)
THEOREM CountersAreExact == Spec => []CountersExact
<1>1. Init => CountersExact
  <2> SUFFICES ASSUME Init PROVE CountersExact
    OBVIOUS
  <2>1. Running = {} /\ \A x, y \in Scripts : RunningOf(x) = {} /\ CallsBetween(x, y) = {}
    BY DEF Init, Running, RunningOf, CallsBetween, Live
  <2> QED BY <2>1, FS_EmptySet DEF Init, CountersExact
<1>2. TypeOK /\ CountersExact /\ [Next]_vars => CountersExact'
  <2> SUFFICES ASSUME TypeOK, CountersExact, [Next]_vars
               PROVE  CountersExact'
    OBVIOUS
  <2>1. ASSUME NEW a \in Activations, NEW s \in Scripts, Acquire(a, s)
        PROVE  CountersExact'
    BY <2>1, AcquireKeepsCounters DEF Acquire
  <2>2. ASSUME NEW p \in Activations, NEW a \in Activations, NEW s \in Scripts,
               AcquireNested(p, a, s)
        PROVE  CountersExact'
    <3>1. script[p] \in Scripts \cup {NoScript}
      BY DEF TypeOK
    <3> QED BY <2>2, <3>1, AcquireKeepsCounters DEF AcquireNested
  <2>3. ASSUME NEW a \in Activations, Poll(a) PROVE CountersExact'
    <3>1. /\ script[a] \in Scripts
          /\ owner[a] \in Scripts \cup {NoScript}
          /\ dependencies \in [Scripts -> [Scripts -> Nat]]
          /\ phase[a] = "waiting"
      BY <2>3 DEF Poll, TypeOK
    <3>2. ASSUME NEW x \in Scripts, NEW y \in Scripts
          PROVE  a \in CallsBetween(x, y) <=> x = owner[a] /\ y = script[a]
      BY <3>1 DEF CallsBetween, Live
    <3>3. ASSUME NEW x \in Scripts, NEW y \in Scripts, a \in CallsBetween(x, y)
          PROVE  CallsBetween(x, y) \cup {a} = CallsBetween(x, y)
      BY <3>3
    <3>4. PassCounts(a, script[a], owner[a], dependencies)
      <4>1. ASSUME NEW x \in Scripts, NEW y \in Scripts
            PROVE  dependencies[x][y] = IF x = owner[a] /\ y = script[a]
                                        THEN Cardinality(CallsBetween(x, y) \cup {a})
                                        ELSE Cardinality(CallsBetween(x, y))
        <5>1. dependencies[x][y] = Cardinality(CallsBetween(x, y))
          BY DEF CountersExact
        <5> QED BY <3>2, <3>3, <5>1, Zenon
      <4> QED BY <3>1, <3>2, <4>1 DEF PassCounts
    <3> QED BY <2>3, <3>1, <3>4, PassKeepsCounters DEF Poll
  <2>4. ASSUME NEW a \in Activations, Release(a) PROVE CountersExact'
    <3>1. /\ script[a] \in Scripts
          /\ phase[a] = "running"
          /\ ThreadBecomes(a, "idle", NoScript, NoScript, NoActivation, NoActivation, "None")
      BY <2>4 DEF Release, Return, TypeOK
    <3>2. /\ Running' = Running \ {a}
          /\ a \in Running
          /\ Running \in SUBSET Activations
      BY <3>1 DEF ThreadBecomes, Running, TypeOK
    <3>3. \A x \in Scripts : /\ RunningOf(x)' = IF x = script[a] THEN RunningOf(x) \ {a} ELSE RunningOf(x)
                             /\ a \in RunningOf(x) <=> x = script[a]
                             /\ RunningOf(x) \in SUBSET Activations
      BY <3>1 DEF ThreadBecomes, Running, RunningOf, TypeOK
    <3>4. \A x, y \in Scripts :
            /\ CallsBetween(x, y)' = CallsBetween(x, y) \ {a}
            /\ a \in CallsBetween(x, y) <=> x = owner[a] /\ y = script[a]
            /\ CallsBetween(x, y) \in SUBSET Activations
      BY <3>1 DEF ThreadBecomes, CallsBetween, Live, TypeOK
    <3>5. activeTotal' = Cardinality(Running')
      <4>1. activeTotal = Cardinality(Running \ {a}) + 1 /\ Cardinality(Running \ {a}) \in Nat
        BY <3>2, RemoveOne, FiniteSubsets DEF CountersExact
      <4> QED BY <2>4, <3>2, <4>1 DEF Release, Saturating
    <3>6. ASSUME NEW x \in Scripts PROVE activeRuns'[x] = Cardinality(RunningOf(x)')
      <4>1. CASE x = script[a]
        <5>1. activeRuns[x] = Cardinality(RunningOf(x) \ {a}) + 1 /\ Cardinality(RunningOf(x) \ {a}) \in Nat
          BY <3>3, <4>1, RemoveOne, FiniteSubsets DEF CountersExact
        <5>2. activeRuns'[x] = Saturating(activeRuns[x])
          BY <2>4, <4>1 DEF Release, TypeOK
        <5>3. RunningOf(x)' = RunningOf(x) \ {a}
          BY <3>3, <4>1, Zenon
        <5> QED BY <5>1, <5>2, <5>3, OneLess, Zenon
      <4>2. CASE x # script[a]
        BY <2>4, <3>3, <4>2 DEF Release, TypeOK, CountersExact
      <4> QED BY <4>1, <4>2
    <3>7. ASSUME NEW x \in Scripts, NEW y \in Scripts
          PROVE  dependencies'[x][y] = Cardinality(CallsBetween(x, y)')
      <4>0. dependencies'[x][y] = IF x = owner[a] /\ y = script[a]
                                  THEN Saturating(dependencies[x][y]) ELSE dependencies[x][y]
        BY <2>4 DEF Release, RemoveDependency
      <4>1. CASE x = owner[a] /\ y = script[a]
        <5>1. /\ dependencies[x][y] = Cardinality(CallsBetween(x, y) \ {a}) + 1
              /\ Cardinality(CallsBetween(x, y) \ {a}) \in Nat
          BY <3>4, <4>1, RemoveOne, FiniteSubsets DEF CountersExact
        <5>2. CallsBetween(x, y)' = CallsBetween(x, y) \ {a}
          BY <3>4, Zenon
        <5>3. dependencies'[x][y] = Saturating(dependencies[x][y])
          BY <4>0, <4>1, Zenon
        <5> QED BY <5>1, <5>2, <5>3, OneLess, Zenon
      <4>2. CASE ~(x = owner[a] /\ y = script[a])
        <5>1. CallsBetween(x, y)' = CallsBetween(x, y)
          <6>1. a \notin CallsBetween(x, y) /\ CallsBetween(x, y)' = CallsBetween(x, y) \ {a}
            BY <3>4, <4>2, Zenon
          <6> QED BY <6>1
        <5>2. dependencies'[x][y] = dependencies[x][y]
          BY <4>0, <4>2, Zenon
        <5> QED BY <5>1, <5>2 DEF CountersExact
      <4> QED BY <4>1, <4>2
    <3> QED BY <3>5, <3>6, <3>7 DEF CountersExact
  <2>5. CASE UNCHANGED <<queueVars, threadVars>>
    BY <2>5, UnchangedCounters DEF queueVars, threadVars
  <2> QED BY <2>1, <2>2, <2>3, <2>4, <2>5
          DEF Next, UpdatePolicy, Cancel, ChangeBlacklist, vars
<1> QED BY <1>1, <1>2, TypeCorrect, PTL DEF Spec

-----------------------------------------------------------------------------
(* What the queue operations do to a queue: who is in it, and in which order. *)

Members(queue) == {queue[i] : i \in DOMAIN queue}

Distinct(queue) == \A i, j \in DOMAIN queue : queue[i] = queue[j] => i = j

\* Whoever is ahead of another in the first queue is ahead of it in the second.
KeepsOrder(queue, of) ==
  \A k, l \in DOMAIN queue : k < l =>
    \E i, j \in DOMAIN of : i < j /\ of[i] = queue[k] /\ of[j] = queue[l]

LEMMA AppendedQueue ==
  ASSUME NEW queue \in Seq(Activations), NEW a \in Activations,
         Distinct(queue), a \notin Members(queue)
  PROVE  /\ Members(Append(queue, a)) = Members(queue) \cup {a}
         /\ Distinct(Append(queue, a))
<1> DEFINE longer == Append(queue, a)
<1>1. /\ DOMAIN queue = 1 .. Len(queue) /\ Len(queue) \in Nat
      /\ DOMAIN longer = 1 .. Len(queue) + 1
      /\ \A i \in 1 .. Len(queue) : longer[i] = queue[i]
      /\ longer[Len(queue) + 1] = a
  OBVIOUS
<1> HIDE DEF longer
<1>2. Members(longer) = Members(queue) \cup {a}
  BY <1>1 DEF Members
<1>3. Distinct(longer)
  BY <1>1 DEF Distinct, Members
<1> QED BY <1>2, <1>3 DEF longer

LEMMA TailOfQueue ==
  ASSUME NEW queue \in Seq(Activations), queue # <<>>, Distinct(queue)
  PROVE  /\ Members(Tail(queue)) = Members(queue) \ {Head(queue)}
         /\ Head(queue) \in Members(queue)
         /\ Distinct(Tail(queue))
         /\ KeepsOrder(Tail(queue), queue)
<1> DEFINE rest == Tail(queue)
<1>1. /\ DOMAIN queue = 1 .. Len(queue) /\ Len(queue) \in Nat /\ Len(queue) > 0
      /\ DOMAIN rest = 1 .. Len(queue) - 1
      /\ \A i \in 1 .. Len(queue) - 1 : rest[i] = queue[i + 1]
      /\ Head(queue) = queue[1]
  OBVIOUS
<1> HIDE DEF rest
<1>2. \A x : x \in Members(rest) <=> x \in Members(queue) /\ x # queue[1]
  <2>1. ASSUME NEW i \in DOMAIN rest
        PROVE  rest[i] \in Members(queue) /\ rest[i] # queue[1]
    BY <1>1 DEF Members, Distinct
  <2>2. ASSUME NEW j \in DOMAIN queue, queue[j] # queue[1]
        PROVE  queue[j] \in Members(rest)
    <3>1. j - 1 \in DOMAIN rest /\ rest[j - 1] = queue[j]
      BY <1>1, <2>2
    <3> QED BY <3>1 DEF Members
  <2> QED BY <2>1, <2>2 DEF Members
<1>3. Distinct(rest)
  BY <1>1 DEF Distinct
<1>4. KeepsOrder(rest, queue)
  BY <1>1 DEF KeepsOrder
<1>5. queue[1] \in Members(queue)
  BY <1>1 DEF Members
<1> QED BY <1>1, <1>2, <1>3, <1>4, <1>5 DEF rest

LEMMA NobodyToRemove ==
  ASSUME NEW queue, NEW a, a \notin Members(queue)
  PROVE  RemoveWaiter(queue, a) = queue
BY DEF RemoveWaiter, Members

\* The one place of a waiter in its queue, and the queue without it.
LEMMA RemovedFrom ==
  ASSUME NEW queue \in Seq(Activations), NEW at \in DOMAIN queue, Distinct(queue)
  PROVE  RemoveWaiter(queue, queue[at]) =
           [i \in 1 .. Len(queue) - 1 |-> IF i < at THEN queue[i] ELSE queue[i + 1]]
<1>1. (CHOOSE i \in DOMAIN queue : queue[i] = queue[at]) = at
  BY DEF Distinct
<1> QED BY <1>1 DEF RemoveWaiter

LEMMA RemovedQueue ==
  ASSUME NEW queue \in Seq(Activations), NEW a, Distinct(queue)
  PROVE  /\ Members(RemoveWaiter(queue, a)) = Members(queue) \ {a}
         /\ Distinct(RemoveWaiter(queue, a))
         /\ KeepsOrder(RemoveWaiter(queue, a), queue)
<1> DEFINE rest == RemoveWaiter(queue, a)
<1>1. CASE a \notin Members(queue)
  <2>1. rest = queue
    BY <1>1, NobodyToRemove
  <2>2. KeepsOrder(queue, queue)
    BY DEF KeepsOrder
  <2> QED BY <1>1, <2>1, <2>2
<1>2. CASE a \in Members(queue)
  <2>1. PICK at \in DOMAIN queue : queue[at] = a
    BY <1>2 DEF Members
  <2>2. rest = [i \in 1 .. Len(queue) - 1 |-> IF i < at THEN queue[i] ELSE queue[i + 1]]
    BY <2>1, RemovedFrom
  <2>3. /\ DOMAIN queue = 1 .. Len(queue) /\ Len(queue) \in Nat /\ at \in 1 .. Len(queue)
        /\ DOMAIN rest = 1 .. Len(queue) - 1
        /\ \A i \in 1 .. Len(queue) - 1 : rest[i] = IF i < at THEN queue[i] ELSE queue[i + 1]
    BY <2>2
  <2> HIDE DEF rest
  <2>4. \A x : x \in Members(rest) <=> x \in Members(queue) /\ x # a
    <3>1. ASSUME NEW i \in DOMAIN rest
          PROVE  rest[i] \in Members(queue) /\ rest[i] # a
      BY <2>1, <2>3 DEF Members, Distinct
    <3>2. ASSUME NEW j \in DOMAIN queue, queue[j] # a
          PROVE  queue[j] \in Members(rest)
      <4>1. CASE j < at
        <5>1. j \in DOMAIN rest /\ rest[j] = queue[j]
          BY <2>3, <4>1
        <5> QED BY <5>1 DEF Members
      <4>2. CASE j > at
        <5>1. j - 1 \in DOMAIN rest /\ rest[j - 1] = queue[j]
          BY <2>3, <4>2
        <5> QED BY <5>1 DEF Members
      <4> QED BY <2>1, <2>3, <3>2, <4>1, <4>2
    <3> QED BY <3>1, <3>2 DEF Members
  <2>5. Distinct(rest)
    BY <2>3 DEF Distinct
  <2>6. KeepsOrder(rest, queue)
    <3> DEFINE was(k) == IF k < at THEN k ELSE k + 1
    <3>1. \A k \in DOMAIN rest : was(k) \in DOMAIN queue /\ queue[was(k)] = rest[k]
      BY <2>3
    <3>2. \A k, l \in DOMAIN rest : k < l => was(k) < was(l)
      BY <2>3
    <3> HIDE DEF was
    <3> QED BY <3>1, <3>2 DEF KeepsOrder
  <2> QED BY <2>4, <2>5, <2>6 DEF rest
<1> QED BY <1>1, <1>2

LEMMA RemoveHead ==
  ASSUME NEW queue \in Seq(Activations), queue # <<>>, Distinct(queue)
  PROVE  RemoveWaiter(queue, Head(queue)) = Tail(queue)
<1>1. Len(queue) \in Nat \ {0} /\ DOMAIN queue = 1 .. Len(queue) /\ Head(queue) = queue[1]
  OBVIOUS
<1>2. RemoveWaiter(queue, queue[1]) =
        [i \in 1 .. Len(queue) - 1 |-> IF i < 1 THEN queue[i] ELSE queue[i + 1]]
  BY <1>1, RemovedFrom
<1>3. Tail(queue) = [i \in 1 .. Len(queue) - 1 |-> queue[i + 1]]
  <2> DEFINE rest == Tail(queue)
  <2>1. rest \in Seq(Activations) /\ Len(rest) = Len(queue) - 1
        /\ \A i \in 1 .. Len(queue) - 1 : rest[i] = queue[i + 1]
    OBVIOUS
  <2> HIDE DEF rest
  <2>2. rest = [i \in 1 .. Len(queue) - 1 |-> rest[i]]
    BY <2>1
  <2> QED BY <2>1, <2>2 DEF rest
<1>4. \A i \in 1 .. Len(queue) - 1 : ~(i < 1)
  BY <1>1
<1> QED BY <1>1, <1>2, <1>3, <1>4

\* A newcomer that leaves at once leaves the queue as it was.
LEMMA RemoveAppended ==
  ASSUME NEW queue \in Seq(Activations), NEW a \in Activations,
         Distinct(queue), a \notin Members(queue)
  PROVE  RemoveWaiter(Append(queue, a), a) = queue
<1> DEFINE longer == Append(queue, a)
           end == Len(queue) + 1
<1>1. /\ longer \in Seq(Activations) /\ Len(longer) = end /\ DOMAIN longer = 1 .. end
      /\ Len(queue) \in Nat /\ end \in 1 .. end
      /\ \A i \in 1 .. Len(queue) : longer[i] = queue[i]
      /\ longer[end] = a
  OBVIOUS
<1>2. Distinct(longer)
  BY AppendedQueue
<1> HIDE DEF longer
<1>3. RemoveWaiter(longer, a) =
        [i \in 1 .. Len(longer) - 1 |-> IF i < end THEN longer[i] ELSE longer[i + 1]]
  BY <1>1, <1>2, RemovedFrom
<1>4. RemoveWaiter(longer, a) = [i \in 1 .. Len(queue) |-> queue[i]]
  BY <1>1, <1>3
<1>5. queue = [i \in 1 .. Len(queue) |-> queue[i]]
  OBVIOUS
<1> QED BY <1>4, <1>5 DEF longer

-----------------------------------------------------------------------------
(* Whoever waits is in the queue of its script, once, and nobody else is.    *)

WaitsFor(b, s, sup) == phase[b] = "waiting" /\ script[b] = s /\ b \notin sup

LEMMA QueueOfWaiters ==
  QueuesHoldTheWaiters <=>
    \A s \in Scripts : /\ Distinct(waiting[s])
                       /\ Members(waiting[s]) \subseteq Activations
                       /\ \A b \in Activations : b \in Members(waiting[s]) <=> WaitsFor(b, s, superseded)
BY DEF QueuesHoldTheWaiters, Distinct, Members, WaitsFor

\* What a pass of the wait loop finds: it is about to decide on a, which is in
\* the queue unless it was dropped.
PassFinds(a, s, queue, sup) ==
  /\ queue \in Seq(Activations)
  /\ Distinct(queue)
  /\ phase[a] = "waiting" => script[a] = s
  /\ a \in Members(queue) \/ a \in sup
  /\ \A b \in Activations \ {a} : b \in Members(queue) <=> WaitsFor(b, s, sup)
  /\ \A x \in Scripts \ {s} :
       /\ Distinct(waiting[x])
       /\ Members(waiting[x]) \subseteq Activations
       /\ \A b \in Activations : b \in Members(waiting[x]) <=> WaitsFor(b, x, sup)

LEMMA MembersType ==
  ASSUME NEW queue \in Seq(Activations)
  PROVE  Members(queue) \subseteq Activations
BY DEF Members

LEMMA PassQueues ==
  ASSUME TypeOK,
         NEW a \in Activations, NEW s \in Scripts, NEW o, NEW c, NEW r, NEW deps, NEW sup,
         NEW queue, PassFinds(a, s, queue, sup),
         Pass(a, s, o, c, r, queue, deps, sup)
  PROVE  QueuesHoldTheWaiters'
<1> DEFINE rest == RemoveWaiter(queue, a)
<1>1. /\ rest \in Seq(Activations)
      /\ Distinct(rest)
      /\ \A b : b \in Members(rest) <=> b \in Members(queue) /\ b # a
  BY RemovedQueue, RemoveWaiterType DEF PassFinds
<1> HIDE DEF rest
<1>2. ASSUME NEW ph \in {"idle", "running"}, NEW x, NEW y, NEW z, NEW v, NEW res,
             ThreadBecomes(a, ph, x, y, z, v, res),
             waiting' = [waiting EXCEPT ![s] = rest],
             superseded' = sup \/ superseded' = sup \ {a}
      PROVE  QueuesHoldTheWaiters'
  <2>1. \A t \in Scripts : waiting'[t] = IF t = s THEN rest ELSE waiting[t]
    BY <1>2 DEF TypeOK
  <2>2. \A b \in Activations, t \in Scripts :
          WaitsFor(b, t, superseded)' <=> b # a /\ WaitsFor(b, t, sup)
    BY <1>2 DEF ThreadBecomes, TypeOK, WaitsFor
  <2>3. ASSUME NEW t \in Scripts
        PROVE  /\ Distinct(waiting'[t])
               /\ Members(waiting'[t]) \subseteq Activations
               /\ \A b \in Activations : b \in Members(waiting'[t]) <=> WaitsFor(b, t, superseded)'
    <3>1. CASE t = s
      BY <1>1, <2>1, <2>2, <3>1, MembersType DEF PassFinds
    <3>2. CASE t # s
      <4>1. waiting'[t] = waiting[t]
        BY <2>1, <3>2
      <4>2. ~WaitsFor(a, t, sup)
        BY <3>2 DEF PassFinds, WaitsFor
      <4> QED BY <2>2, <3>2, <4>1, <4>2 DEF PassFinds
    <3> QED BY <3>1, <3>2
  <2> QED BY <2>3 DEF QueuesHoldTheWaiters, Distinct, Members, WaitsFor
<1>3. CASE Withdraw(a, s, o, r, queue, deps, sup)
  BY <1>2, <1>3 DEF Withdraw, Return, rest
<1>4. CASE Admit(a, s, o, c, r, queue, deps, sup)
  BY <1>2, <1>4 DEF Admit, rest
<1>5. CASE KeepWaiting(a, s, o, c, r, queue, deps, sup)
  <2>1. \A t \in Scripts : waiting'[t] = IF t = s THEN queue ELSE waiting[t]
    BY <1>5 DEF KeepWaiting, TypeOK
  <2>2. a \notin sup /\ superseded' = sup
    BY <1>5 DEF KeepWaiting, MayProceed, Withdraws, Refusals
  <2>3. \A b \in Activations, t \in Scripts :
          WaitsFor(b, t, superseded)' <=> IF b = a THEN t = s ELSE WaitsFor(b, t, sup)
    BY <1>5, <2>2 DEF KeepWaiting, ThreadBecomes, TypeOK, WaitsFor
  <2>4. ASSUME NEW t \in Scripts
        PROVE  /\ Distinct(waiting'[t])
               /\ Members(waiting'[t]) \subseteq Activations
               /\ \A b \in Activations : b \in Members(waiting'[t]) <=> WaitsFor(b, t, superseded)'
    <3>1. CASE t = s
      BY <2>1, <2>2, <2>3, <3>1, MembersType DEF PassFinds
    <3>2. CASE t # s
      <4>1. waiting'[t] = waiting[t]
        BY <2>1, <3>2
      <4>2. ~WaitsFor(a, t, sup)
        BY <3>2 DEF PassFinds, WaitsFor
      <4> QED BY <2>3, <3>2, <4>1, <4>2 DEF PassFinds
    <3> QED BY <3>1, <3>2
  <2> QED BY <2>4 DEF QueuesHoldTheWaiters, Distinct, Members, WaitsFor
<1> QED BY <1>3, <1>4, <1>5 DEF Pass

\* What a newcomer makes of the queue of script s before its first pass.
Dropped(s) == IF QueueIsFull(s) THEN {Head(waiting[s])} ELSE {}
Kept(s) == IF QueueIsFull(s) THEN Tail(waiting[s]) ELSE waiting[s]

LEMMA KeptQueue ==
  ASSUME TypeOK, QueuesHoldTheWaiters, NEW s \in Scripts
  PROVE  /\ Kept(s) \in Seq(Activations)
         /\ Distinct(Kept(s))
         /\ KeepsOrder(Kept(s), waiting[s])
         /\ \A b \in Activations : b \in Members(Kept(s)) <=> WaitsFor(b, s, superseded \cup Dropped(s))
         /\ \A b \in Dropped(s) : b \in Activations /\ WaitsFor(b, s, superseded)
<1>1. /\ waiting[s] \in Seq(Activations)
      /\ Distinct(waiting[s])
      /\ \A b \in Activations : b \in Members(waiting[s]) <=> WaitsFor(b, s, superseded)
  BY QueueOfWaiters DEF TypeOK
<1>2. CASE QueueIsFull(s)
  <2>1. waiting[s] # <<>> /\ Kept(s) = Tail(waiting[s]) /\ Dropped(s) = {Head(waiting[s])}
    BY <1>2 DEF QueueIsFull, Kept, Dropped
  <2>2. /\ Members(Tail(waiting[s])) = Members(waiting[s]) \ {Head(waiting[s])}
        /\ Head(waiting[s]) \in Members(waiting[s])
        /\ Distinct(Tail(waiting[s]))
        /\ KeepsOrder(Tail(waiting[s]), waiting[s])
    BY <1>1, <2>1, TailOfQueue
  <2>3. Tail(waiting[s]) \in Seq(Activations) /\ Head(waiting[s]) \in Activations
    BY <1>1, <2>1
  <2> QED BY <1>1, <2>1, <2>2, <2>3 DEF WaitsFor
<1>3. CASE ~QueueIsFull(s)
  <2>1. Kept(s) = waiting[s] /\ Dropped(s) = {}
    BY <1>3 DEF Kept, Dropped
  <2>2. KeepsOrder(waiting[s], waiting[s])
    BY DEF KeepsOrder
  <2> QED BY <1>1, <2>1, <2>2 DEF WaitsFor
<1> QED BY <1>2, <1>3

LEMMA JoinFinds ==
  ASSUME TypeOK, QueuesHoldTheWaiters,
         NEW a \in Activations, NEW s \in Scripts, phase[a] = "idle"
  PROVE  /\ PassFinds(a, s, Append(Kept(s), a), superseded \cup Dropped(s))
         /\ a \notin Members(Kept(s))
<1> DEFINE queue == Append(Kept(s), a)
           sup == superseded \cup Dropped(s)
<1>1. a \notin Members(Kept(s))
  BY KeptQueue DEF WaitsFor
<1>2. queue \in Seq(Activations) /\ Distinct(queue) /\ Members(queue) = Members(Kept(s)) \cup {a}
  <2>1. Kept(s) \in Seq(Activations) /\ Distinct(Kept(s))
    BY KeptQueue
  <2>2. Append(Kept(s), a) \in Seq(Activations)
    BY <2>1
  <2> QED BY <1>1, <2>1, <2>2, AppendedQueue
<1>3. \A b \in Activations \ {a} : b \in Members(queue) <=> WaitsFor(b, s, sup)
  BY <1>2, KeptQueue
<1>4. ASSUME NEW x \in Scripts \ {s}
      PROVE  /\ Distinct(waiting[x])
             /\ Members(waiting[x]) \subseteq Activations
             /\ \A b \in Activations : b \in Members(waiting[x]) <=> WaitsFor(b, x, sup)
  <2>1. \A b \in Activations : WaitsFor(b, x, superseded) <=> WaitsFor(b, x, sup)
    BY KeptQueue DEF WaitsFor
  <2> HIDE DEF sup
  <2> QED BY <2>1, QueueOfWaiters
<1> HIDE DEF queue, sup
<1>5. PassFinds(a, s, queue, sup)
  BY <1>2, <1>3, <1>4 DEF PassFinds
<1> QED BY <1>1, <1>5 DEF queue, sup

LEMMA PollFinds ==
  ASSUME TypeOK, QueuesHoldTheWaiters, NEW a \in Activations, phase[a] = "waiting"
  PROVE  PassFinds(a, script[a], waiting[script[a]], superseded)
<1>1. script[a] \in Scripts /\ waiting[script[a]] \in Seq(Activations)
  BY DEF TypeOK
<1> QED BY <1>1, QueueOfWaiters DEF PassFinds, WaitsFor

LEMMA JoinPass ==
  ASSUME NEW a, NEW s, NEW o, NEW c, NEW r, Join(a, s, o, c, r)
  PROVE  Pass(a, s, o, c, r, Append(Kept(s), a), AddDependency(dependencies, o, s),
              superseded \cup Dropped(s))
BY DEF Join, Kept, Dropped

(* A waiter is in its script's queue once, or was told that it lost its     *)
(* place; no run and no finished call is left in a queue.                   *)
THEOREM QueuesAreTheWaiters == Spec => []QueuesHoldTheWaiters
<1>1. Init => QueuesHoldTheWaiters
  BY DEF Init, QueuesHoldTheWaiters
<1>2. TypeOK /\ QueuesHoldTheWaiters /\ [Next]_vars => QueuesHoldTheWaiters'
  <2> SUFFICES ASSUME TypeOK, QueuesHoldTheWaiters, [Next]_vars
               PROVE  QueuesHoldTheWaiters'
    OBVIOUS
  <2>1. ASSUME UNCHANGED <<queueVars, phase, script>> PROVE QueuesHoldTheWaiters'
    BY <2>1 DEF QueuesHoldTheWaiters, queueVars
  <2>2. ASSUME NEW a \in Activations, NEW s \in Scripts, NEW o, NEW c, NEW r,
               phase[a] = "idle", AcquireInternal(a, s, o, c, r)
        PROVE  QueuesHoldTheWaiters'
    <3>1. CASE RefuseBusy(a, s, o) \/ RefuseFull(a, s, o)
      BY <2>1, <3>1 DEF RefuseBusy, RefuseFull, Refuse
    <3>2. CASE Join(a, s, o, c, r)
      BY <2>2, <3>2, JoinPass, JoinFinds, PassQueues
    <3> QED BY <2>2, <3>1, <3>2 DEF AcquireInternal
  <2>3. ASSUME NEW a \in Activations, NEW s \in Scripts, Acquire(a, s)
        PROVE  QueuesHoldTheWaiters'
    BY <2>2, <2>3 DEF Acquire
  <2>4. ASSUME NEW p \in Activations, NEW a \in Activations, NEW s \in Scripts,
               AcquireNested(p, a, s)
        PROVE  QueuesHoldTheWaiters'
    BY <2>2, <2>4 DEF AcquireNested
  <2>5. ASSUME NEW a \in Activations, Poll(a) PROVE QueuesHoldTheWaiters'
    <3>1. phase[a] = "waiting" /\ script[a] \in Scripts
      BY <2>5 DEF Poll, TypeOK
    <3> QED BY <2>5, <3>1, PollFinds, PassQueues DEF Poll
  <2>6. ASSUME NEW a \in Activations, Release(a) PROVE QueuesHoldTheWaiters'
    <3>1. /\ phase[a] = "running" /\ UNCHANGED <<waiting, superseded>>
          /\ ThreadBecomes(a, "idle", NoScript, NoScript, NoActivation, NoActivation, "None")
      BY <2>6 DEF Release, Return
    <3>2. \A b \in Activations, s \in Scripts :
            WaitsFor(b, s, superseded)' <=> WaitsFor(b, s, superseded)
      BY <3>1 DEF ThreadBecomes, TypeOK, WaitsFor
    <3>3. ASSUME NEW s \in Scripts
          PROVE  /\ Distinct(waiting'[s])
                 /\ Members(waiting'[s]) \subseteq Activations
                 /\ \A b \in Activations : b \in Members(waiting'[s]) <=> WaitsFor(b, s, superseded)'
      BY <3>1, <3>2, QueueOfWaiters
    <3> QED BY <3>3 DEF QueuesHoldTheWaiters, Distinct, Members, WaitsFor
  <2> QED BY <2>1, <2>3, <2>4, <2>5, <2>6
          DEF Next, UpdatePolicy, Cancel, ChangeBlacklist, vars, threadVars
<1> QED BY <1>1, <1>2, TypeCorrect, PTL DEF Spec

-----------------------------------------------------------------------------
(* First come, first served.                                                *)

Ahead(b, c, queue) == \A k, l \in DOMAIN queue : queue[k] = b /\ queue[l] = c => k < l

LEMMA AheadInTheRest ==
  ASSUME NEW of \in Seq(Activations), NEW queue \in Seq(Activations), KeepsOrder(queue, of),
         NEW b, NEW c, b # c, Ahead(b, c, of)
  PROVE  Ahead(b, c, queue)
<1> SUFFICES ASSUME NEW k \in DOMAIN queue, NEW l \in DOMAIN queue,
                    queue[k] = b, queue[l] = c, ~(k < l)
             PROVE  FALSE
  BY DEF Ahead
<1>1. k \in Nat /\ l \in Nat /\ \A i \in DOMAIN of : i \in Nat
  OBVIOUS
<1>2. l < k
  BY <1>1
<1>3. PICK i, j \in DOMAIN of : i < j /\ of[i] = c /\ of[j] = b
  BY <1>2 DEF KeepsOrder
<1>4. j < i
  BY <1>3 DEF Ahead
<1> QED BY <1>1, <1>3, <1>4

LEMMA AheadOfTheNewcomer ==
  ASSUME NEW queue \in Seq(Activations), NEW a \in Activations,
         NEW b, NEW c, b # a, c # a, Ahead(b, c, queue)
  PROVE  Ahead(b, c, Append(queue, a))
<1> DEFINE longer == Append(queue, a)
<1>1. /\ DOMAIN queue = 1 .. Len(queue) /\ Len(queue) \in Nat
      /\ DOMAIN longer = 1 .. Len(queue) + 1
      /\ \A i \in 1 .. Len(queue) : longer[i] = queue[i]
      /\ longer[Len(queue) + 1] = a
  OBVIOUS
<1> HIDE DEF longer
<1>2. ASSUME NEW k \in DOMAIN longer, longer[k] # a
      PROVE  k \in DOMAIN queue /\ longer[k] = queue[k]
  BY <1>1, <1>2
<1>3. Ahead(b, c, longer)
  BY <1>2 DEF Ahead
<1> QED BY <1>3 DEF longer

\* What may not happen to c while b waits ahead of it.
KeepsItsPlace(b, c) ==
  /\ phase'[c] # "running"
  /\ c \in superseded' => b \in superseded'
  /\ \A s \in Scripts : Ahead(b, c, waiting'[s])

LEMMA PassKeepsPlaces ==
  ASSUME TypeOK,
         NEW a \in Activations, NEW s \in Scripts, NEW o, NEW c, NEW r, NEW deps, NEW sup,
         NEW queue \in Seq(Activations), Distinct(queue),
         Pass(a, s, o, c, r, queue, deps, sup),
         NEW x \in Activations, NEW y \in Activations, x # y,
         phase[y] # "running", y \notin sup,
         y = a => Head(queue) # a,
         Ahead(x, y, queue), \A t \in Scripts : Ahead(x, y, waiting[t])
  PROVE  KeepsItsPlace(x, y)
<1>1. RemoveWaiter(queue, a) \in Seq(Activations) /\ KeepsOrder(RemoveWaiter(queue, a), queue)
  BY RemovedQueue, RemoveWaiterType
<1>2. Ahead(x, y, RemoveWaiter(queue, a))
  BY <1>1, AheadInTheRest
<1>3. \A t \in Scripts : waiting'[t] = waiting[t] \/ waiting'[t] = RemoveWaiter(queue, a)
                         \/ waiting'[t] = queue
  BY DEF Pass, Withdraw, Admit, KeepWaiting, TypeOK
<1>4. \A t \in Scripts : Ahead(x, y, waiting'[t])
  BY <1>2, <1>3
<1>5. superseded' \subseteq sup
  BY DEF Pass, Withdraw, Admit, KeepWaiting
<1>6. phase'[y] # "running"
  <2>1. CASE y = a
    <3>1. ~MayStart(a, s, queue)
      BY <2>1 DEF MayStart
    <3> QED BY <2>1, <3>1 DEF Pass, Withdraw, Admit, KeepWaiting, Return, ThreadBecomes, TypeOK
  <2>2. CASE y # a
    BY <2>2 DEF Pass, Withdraw, Admit, KeepWaiting, Return, ThreadBecomes, TypeOK
  <2> QED BY <2>1, <2>2
<1> QED BY <1>4, <1>5, <1>6 DEF KeepsItsPlace

LEMMA AheadInItsQueue ==
  ASSUME TypeOK, QueuesHoldTheWaiters, NEW t \in Scripts,
         NEW i \in DOMAIN waiting[t], NEW j \in DOMAIN waiting[t], i < j
  PROVE  /\ waiting[t][i] \in Activations /\ waiting[t][j] \in Activations
         /\ waiting[t][i] # waiting[t][j]
         /\ WaitsFor(waiting[t][i], t, superseded) /\ WaitsFor(waiting[t][j], t, superseded)
         /\ waiting[t][j] # Head(waiting[t])
         /\ \A s \in Scripts : Ahead(waiting[t][i], waiting[t][j], waiting[s])
<1>1. /\ waiting[t] \in Seq(Activations)
      /\ Distinct(waiting[t])
      /\ \A b \in Activations, s \in Scripts : b \in Members(waiting[s]) <=> WaitsFor(b, s, superseded)
  BY QueueOfWaiters DEF TypeOK
<1>2. /\ waiting[t][i] \in Members(waiting[t]) /\ waiting[t][j] \in Members(waiting[t])
      /\ waiting[t][i] \in Activations /\ waiting[t][j] \in Activations
  BY <1>1 DEF Members
<1>3. i \in Nat /\ j \in Nat /\ i >= 1
  BY <1>1
<1>4. waiting[t][j] # Head(waiting[t]) /\ waiting[t][i] # waiting[t][j]
  <2>1. Head(waiting[t]) = waiting[t][1] /\ 1 \in DOMAIN waiting[t]
    BY <1>1
  <2> QED BY <1>1, <1>3, <2>1 DEF Distinct
<1>5. ASSUME NEW s \in Scripts PROVE Ahead(waiting[t][i], waiting[t][j], waiting[s])
  <2>1. CASE s = t
    BY <1>1, <2>1 DEF Ahead, Distinct
  <2>2. CASE s # t
    <3>1. waiting[t][i] \notin Members(waiting[s])
      BY <1>1, <1>2, <2>2 DEF WaitsFor
    <3> QED BY <3>1 DEF Ahead, Members
  <2> QED BY <2>1, <2>2
<1> QED BY <1>1, <1>2, <1>4, <1>5

LEMMA JoinKeepsPlaces ==
  ASSUME TypeOK, QueuesHoldTheWaiters,
         NEW a \in Activations, NEW s \in Scripts, NEW o, NEW c, NEW r,
         phase[a] = "idle", Join(a, s, o, c, r),
         NEW t \in Scripts, NEW i \in DOMAIN waiting[t], NEW j \in DOMAIN waiting[t], i < j
  PROVE  KeepsItsPlace(waiting[t][i], waiting[t][j])
<1> DEFINE x == waiting[t][i]
           y == waiting[t][j]
<1>1. /\ x \in Activations /\ y \in Activations /\ x # y
      /\ WaitsFor(x, t, superseded) /\ WaitsFor(y, t, superseded) /\ y # Head(waiting[t])
      /\ \A u \in Scripts : Ahead(x, y, waiting[u])
  BY AheadInItsQueue
<1> HIDE DEF x, y
<1>2. x # a /\ y # a /\ phase[y] # "running"
  BY <1>1 DEF WaitsFor
<1>3. y \notin superseded \cup Dropped(s)
  <2>1. y \in Dropped(s) => WaitsFor(y, s, superseded) /\ y = Head(waiting[s])
    BY KeptQueue DEF Dropped
  <2> QED BY <1>1, <2>1 DEF WaitsFor
<1>4. /\ Kept(s) \in Seq(Activations)
      /\ Ahead(x, y, Kept(s))
  <2>1. Kept(s) \in Seq(Activations) /\ waiting[s] \in Seq(Activations) /\ KeepsOrder(Kept(s), waiting[s])
    BY KeptQueue DEF TypeOK
  <2> QED BY <1>1, <2>1, AheadInTheRest
<1>5. Append(Kept(s), a) \in Seq(Activations) /\ Ahead(x, y, Append(Kept(s), a))
  BY <1>2, <1>4, AheadOfTheNewcomer
<1>6. Distinct(Append(Kept(s), a))
  BY JoinFinds DEF PassFinds
<1>7. KeepsItsPlace(x, y)
  <2> DEFINE queue == Append(Kept(s), a)
             deps == AddDependency(dependencies, o, s)
             sup == superseded \cup Dropped(s)
  <2>1. Pass(a, s, o, c, r, queue, deps, sup)
    BY JoinPass
  <2>2. queue \in Seq(Activations) /\ Distinct(queue) /\ Ahead(x, y, queue) /\ y \notin sup
    BY <1>3, <1>5, <1>6
  <2> HIDE DEF queue, deps, sup
  <2> QED BY <1>1, <1>2, <2>1, <2>2, PassKeepsPlaces
<1> QED BY <1>7 DEF x, y

LEMMA PollKeepsPlaces ==
  ASSUME TypeOK, QueuesHoldTheWaiters, NEW a \in Activations, Poll(a),
         NEW t \in Scripts, NEW i \in DOMAIN waiting[t], NEW j \in DOMAIN waiting[t], i < j
  PROVE  KeepsItsPlace(waiting[t][i], waiting[t][j])
<1> DEFINE x == waiting[t][i]
           y == waiting[t][j]
           s == script[a]
<1>1. /\ x \in Activations /\ y \in Activations /\ x # y
      /\ WaitsFor(x, t, superseded) /\ WaitsFor(y, t, superseded) /\ y # Head(waiting[t])
      /\ \A u \in Scripts : Ahead(x, y, waiting[u])
  BY AheadInItsQueue
<1>2. /\ phase[a] = "waiting" /\ s \in Scripts
      /\ Pass(a, s, owner[a], caller[a], root[a], waiting[s], dependencies, superseded)
  BY DEF Poll, TypeOK
<1>3. waiting[s] \in Seq(Activations) /\ Distinct(waiting[s])
  BY <1>2, QueueOfWaiters DEF TypeOK
<1> HIDE DEF x, y, s
<1>4. phase[y] # "running" /\ y \notin superseded
  BY <1>1 DEF WaitsFor
<1>5. y = a => Head(waiting[s]) # a
  BY <1>1 DEF WaitsFor, s
<1>6. KeepsItsPlace(x, y)
  BY <1>1, <1>2, <1>3, <1>4, <1>5, PassKeepsPlaces
<1> QED BY <1>6 DEF x, y

(* While b waits ahead of c for a script, c does not start, does not move   *)
(* ahead of b, and is not the one dropped for a newer activation.           *)
THEOREM FirstComeFirstServed == Spec => NoOvertaking
<1> DEFINE PlacesKept == \A t \in Scripts : \A i, j \in DOMAIN waiting[t] :
                           i < j => KeepsItsPlace(waiting[t][i], waiting[t][j])
<1>1. TypeOK /\ QueuesHoldTheWaiters /\ [Next]_vars => [PlacesKept]_vars
  <2> SUFFICES ASSUME TypeOK, QueuesHoldTheWaiters, Next,
                      NEW t \in Scripts, NEW i \in DOMAIN waiting[t], NEW j \in DOMAIN waiting[t], i < j
               PROVE  KeepsItsPlace(waiting[t][i], waiting[t][j])
    OBVIOUS
  <2> DEFINE x == waiting[t][i]
             y == waiting[t][j]
  <2>1. /\ y \in Activations /\ phase[y] = "waiting" /\ y \notin superseded
        /\ \A u \in Scripts : Ahead(x, y, waiting[u])
    BY AheadInItsQueue DEF WaitsFor
  <2>2. ASSUME UNCHANGED <<waiting, superseded, phase>> PROVE KeepsItsPlace(x, y)
    <3> HIDE DEF x, y
    <3> QED BY <2>1, <2>2 DEF KeepsItsPlace
  <2>3. ASSUME NEW a \in Activations, NEW s \in Scripts, NEW o, NEW c, NEW r,
               phase[a] = "idle", AcquireInternal(a, s, o, c, r)
        PROVE  KeepsItsPlace(x, y)
    <3>1. CASE RefuseBusy(a, s, o) \/ RefuseFull(a, s, o)
      <4>1. UNCHANGED <<waiting, superseded, phase>>
        BY <3>1 DEF RefuseBusy, RefuseFull, Refuse, queueVars
      <4> QED BY <2>2, <4>1
    <3>2. CASE Join(a, s, o, c, r)
      BY <2>3, <3>2, JoinKeepsPlaces
    <3> QED BY <2>3, <3>1, <3>2 DEF AcquireInternal
  <2>4. ASSUME NEW a \in Activations, NEW s \in Scripts, Acquire(a, s)
        PROVE  KeepsItsPlace(x, y)
    BY <2>3, <2>4 DEF Acquire
  <2>5. ASSUME NEW p \in Activations, NEW a \in Activations, NEW s \in Scripts,
               AcquireNested(p, a, s)
        PROVE  KeepsItsPlace(x, y)
    BY <2>3, <2>5 DEF AcquireNested
  <2>6. ASSUME NEW a \in Activations, Poll(a) PROVE KeepsItsPlace(x, y)
    BY <2>6, PollKeepsPlaces
  <2>7. ASSUME NEW a \in Activations, Release(a) PROVE KeepsItsPlace(x, y)
    <3>1. UNCHANGED <<waiting, superseded>> /\ phase' = [phase EXCEPT ![a] = "idle"]
      BY <2>7 DEF Release, Return, ThreadBecomes
    <3> HIDE DEF x, y
    <3> QED BY <2>1, <3>1 DEF KeepsItsPlace, TypeOK
  <2>8. CASE UNCHANGED <<queueVars, phase>>
    BY <2>2, <2>8 DEF queueVars
  <2> QED BY <2>4, <2>5, <2>6, <2>7, <2>8
          DEF Next, UpdatePolicy, Cancel, ChangeBlacklist, threadVars
<1>2. [PlacesKept]_vars => [\A s \in Scripts : \A i, j \in DOMAIN waiting[s] :
        i < j => LET b == waiting[s][i]
                     c == waiting[s][j]
                 IN  /\ phase'[c] # "running"
                     /\ c \in superseded' => b \in superseded'
                     /\ \A k, l \in DOMAIN waiting'[s] :
                          waiting'[s][k] = b /\ waiting'[s][l] = c => k < l]_vars
  BY DEF KeepsItsPlace, Ahead
<1> HIDE DEF PlacesKept
<1> QED BY <1>1, <1>2, TypeCorrect, QueuesAreTheWaiters, PTL DEF Spec, NoOvertaking

-----------------------------------------------------------------------------
(* The queue implements Admission: what the mapping makes of each step.     *)

HoldsIn(ph, sc) == [a \in Activations |-> IF ph[a] = "running" THEN sc[a] ELSE NoScript]

\* An abstract step, or none.
Promised == Promise!NextAdmission \/ UNCHANGED <<policy, waiting, HoldsIn(phase, script)>>

LEMMA PolicyType ==
  ASSUME TypeOK
  PROVE  /\ policy.max_active_runs_per_script \in Limits
         /\ policy.max_queued_activations_per_script \in Limits
         /\ policy.queue_overflow_strategy \in {"RejectNewest", "DropOldest"}
BY ExecutionQueueAssumption DEF TypeOK, ExecutionAdmissionPolicy

LEMMA SameRoom ==
  ASSUME TypeOK, CountersExact, NEW s \in Scripts, HasActiveCapacity(s)
  PROVE  Promise!HasRoom(s)
<1>1. Promise!Holders = Running
  BY ExecutionQueueAssumption DEF Promise!Holders, Running, TypeOK
<1>2. Promise!HoldersOf(s) = RunningOf(s)
  BY ExecutionQueueAssumption DEF Promise!HoldersOf, Running, RunningOf, TypeOK
<1>3. activeTotal = Cardinality(Promise!Holders) /\ activeRuns[s] = Cardinality(Promise!HoldersOf(s))
  BY <1>1, <1>2 DEF CountersExact
<1>4. \A limit, n : Permits(limit, n) => Promise!Allows(limit, n)
  BY DEF Permits, Promise!Allows
<1>5. \A S : Promise!Cardinality(S) = Cardinality(S)
  BY DEF Promise!Cardinality, Cardinality
<1> QED BY <1>3, <1>4, <1>5 DEF HasActiveCapacity, Promise!HasRoom

\* Limits are positive, so that a queue without a waiter is not a full one.
LEMMA SameQueue ==
  ASSUME TypeOK, NEW s \in Scripts
  PROVE  /\ Promise!IsLong(s) <=> QueueIsFull(s)
         /\ Promise!MadeRoom(s) = Kept(s)
<1>1. waiting[s] \in Seq(Activations) /\ Len(waiting[s]) \in Nat /\ (waiting[s] = <<>> => Len(waiting[s]) = 0)
  BY DEF TypeOK
<1>2. waiting[s] = <<>> => Permits(policy.max_queued_activations_per_script, Len(waiting[s]) + 1)
  BY <1>1, PolicyType, ExecutionQueueAssumption, SMT DEF Permits, Limits
<1>3. Promise!IsLong(s) <=> QueueIsFull(s)
  BY <1>2 DEF Promise!IsLong, Promise!Allows, QueueIsFull, Permits
<1> QED BY <1>3 DEF Promise!MadeRoom, Kept

LEMMA IdleIsOutside ==
  ASSUME TypeOK, QueuesHoldTheWaiters, NEW a \in Activations, phase[a] = "idle"
  PROVE  Promise!IsOutside(a)
<1>1. \A s \in Scripts : a \notin Members(waiting[s])
  BY QueueOfWaiters DEF WaitsFor
<1> QED BY <1>1 DEF Promise!IsOutside, Promise!InLine, Members

LEMMA HoldsAfter ==
  ASSUME TypeOK, NEW a \in Activations, NEW ph, NEW s, NEW o, NEW c, NEW r, NEW res,
         ThreadBecomes(a, ph, s, o, c, r, res)
  PROVE  HoldsIn(phase', script') =
           [HoldsIn(phase, script) EXCEPT ![a] = IF ph = "running" THEN s ELSE NoScript]
<1>1. \A b \in Activations : /\ phase'[b] = IF b = a THEN ph ELSE phase[b]
                             /\ script'[b] = IF b = a THEN s ELSE script[b]
  BY DEF ThreadBecomes, TypeOK
<1> QED BY <1>1 DEF HoldsIn

LEMMA HoldsUnchanged ==
  ASSUME TypeOK, NEW a \in Activations, phase[a] # "running",
         NEW ph \in {"idle", "waiting"}, NEW s, NEW o, NEW c, NEW r, NEW res,
         ThreadBecomes(a, ph, s, o, c, r, res)
  PROVE  HoldsIn(phase', script') = HoldsIn(phase, script)
<1>1. HoldsIn(phase', script') = [HoldsIn(phase, script) EXCEPT ![a] = NoScript]
  BY HoldsAfter
<1>2. HoldsIn(phase, script)[a] = NoScript
  BY DEF HoldsIn
<1> QED BY <1>1, <1>2 DEF HoldsIn

LEMMA JoinPromised ==
  ASSUME TypeOK, CountersExact, QueuesHoldTheWaiters,
         NEW a \in Activations, NEW s \in Scripts, NEW o, NEW c, NEW r,
         phase[a] = "idle", Join(a, s, o, c, r)
  PROVE  Promised
<1> DEFINE deps == AddDependency(dependencies, o, s)
           sup == superseded \cup Dropped(s)
           queue == Append(Kept(s), a)
<1>1. /\ Kept(s) \in Seq(Activations) /\ Distinct(Kept(s)) /\ a \notin Members(Kept(s))
      /\ RemoveWaiter(queue, a) = Kept(s)
  BY KeptQueue, JoinFinds, RemoveAppended
<1>2. Promise!IsOutside(a) /\ Promise!MayJoin(s) /\ Promise!MadeRoom(s) = Kept(s)
  BY IdleIsOutside, SameQueue DEF Join, Promise!MayJoin
<1>3. Pass(a, s, o, c, r, queue, deps, sup)
  BY JoinPass
<1>4. policy' = policy
  BY <1>3 DEF Pass
<1> HIDE DEF deps, sup
<1>5. CASE Withdraw(a, s, o, r, queue, deps, sup)
  <2>1. waiting' = [waiting EXCEPT ![s] = Kept(s)]
    BY <1>1, <1>5 DEF Withdraw
  <2>2. HoldsIn(phase', script') = HoldsIn(phase, script)
    BY <1>5, HoldsUnchanged DEF Withdraw, Return
  <2>3. CASE QueueIsFull(s)
    <3> DEFINE line == waiting[s]
    <3>1. line \in Seq(Activations) /\ line # <<>> /\ Kept(s) = Tail(line)
      BY <2>3 DEF TypeOK, QueueIsFull, Kept
    <3>2. 1 \in DOMAIN line
      BY <3>1
    <3>3. Tail(line) = [j \in 1 .. Len(line) - 1 |-> IF j < 1 THEN line[j] ELSE line[j + 1]]
      <4>1. Distinct(line)
        BY QueueOfWaiters
      <4>2. Head(line) = line[1]
        BY <3>1
      <4> HIDE DEF line
      <4>3. RemoveWaiter(line, line[1]) =
              [j \in 1 .. Len(line) - 1 |-> IF j < 1 THEN line[j] ELSE line[j + 1]]
        BY <3>1, <3>2, <4>1, RemovedFrom
      <4>4. RemoveWaiter(line, Head(line)) = Tail(line)
        BY <3>1, <4>1, RemoveHead
      <4> QED BY <4>2, <4>3, <4>4, Zenon
    <3>4. Promise!LeaveLine(1, s)
      BY <1>4, <2>1, <2>2, <3>1, <3>2, <3>3 DEF Promise!LeaveLine, HoldsIn
    <3> QED BY <3>2, <3>4 DEF Promised, Promise!NextAdmission
  <2>4. CASE ~QueueIsFull(s)
    <3>1. waiting' = waiting
      BY <2>1, <2>4 DEF Kept, TypeOK
    <3> QED BY <1>4, <2>2, <3>1 DEF Promised
  <2> QED BY <2>3, <2>4
<1>6. CASE Admit(a, s, o, c, r, queue, deps, sup)
  <2>1. Kept(s) = <<>>
    <3>1. Head(queue) = a
      BY <1>6 DEF Admit, MayStart
    <3>2. Kept(s) # <<>> => Head(queue) = Head(Kept(s)) /\ Head(Kept(s)) \in Members(Kept(s))
      BY <1>1, TailOfQueue
    <3> QED BY <1>1, <3>1, <3>2
  <2>2. waiting' = [waiting EXCEPT ![s] = <<>>]
    BY <1>1, <1>6, <2>1 DEF Admit
  <2>3. HoldsIn(phase', script') = [HoldsIn(phase, script) EXCEPT ![a] = s]
    BY <1>6, HoldsAfter DEF Admit
  <2>4. Promise!IsNext(s)
    BY <1>2, <1>6, <2>1, SameRoom DEF Admit, MayStart, Promise!IsNext
  <2>5. Promise!GoStraightIn(a, s)
    BY <1>2, <1>4, <2>2, <2>3, <2>4 DEF Promise!GoStraightIn, HoldsIn
  <2> QED BY <2>5 DEF Promised, Promise!NextAdmission
<1>7. CASE KeepWaiting(a, s, o, c, r, queue, deps, sup)
  <2>1. waiting' = [waiting EXCEPT ![s] = Append(Promise!MadeRoom(s), a)]
    BY <1>2, <1>7 DEF KeepWaiting
  <2>2. HoldsIn(phase', script') = HoldsIn(phase, script)
    BY <1>7, HoldsUnchanged DEF KeepWaiting
  <2>3. Promise!JoinLine(a, s)
    BY <1>2, <1>4, <2>1, <2>2 DEF Promise!JoinLine, HoldsIn
  <2> QED BY <2>3 DEF Promised, Promise!NextAdmission
<1> QED BY <1>3, <1>5, <1>6, <1>7 DEF Pass

LEMMA PollPromised ==
  ASSUME TypeOK, CountersExact, QueuesHoldTheWaiters, NEW a \in Activations, Poll(a)
  PROVE  Promised
<1>0. PICK s \in Scripts : s = script[a]
  BY DEF Poll, TypeOK
<1> DEFINE queue == waiting[s]
<1>1. phase[a] = "waiting" /\ queue \in Seq(Activations)
  BY DEF Poll, TypeOK
<1>2. Distinct(queue) /\ (a \in Members(queue) \/ a \in superseded)
  BY <1>0, <1>1, PollFinds DEF PassFinds
<1>3. Pass(a, s, owner[a], caller[a], root[a], queue, dependencies, superseded)
  BY <1>0 DEF Poll
<1>4. policy' = policy
  BY <1>3 DEF Pass
<1>5. CASE Withdraw(a, s, owner[a], root[a], queue, dependencies, superseded)
  <2>1. waiting' = [waiting EXCEPT ![s] = RemoveWaiter(queue, a)]
    BY <1>5 DEF Withdraw
  <2>2. HoldsIn(phase', script') = HoldsIn(phase, script)
    BY <1>1, <1>5, HoldsUnchanged DEF Withdraw, Return
  <2>3. CASE a \in Members(queue)
    <3>1. PICK at \in DOMAIN queue : queue[at] = a
      BY <2>3 DEF Members
    <3>2. RemoveWaiter(queue, a) =
            [i \in 1 .. Len(queue) - 1 |-> IF i < at THEN queue[i] ELSE queue[i + 1]]
      BY <1>1, <1>2, <3>1, RemovedFrom
    <3>3. Promise!LeaveLine(at, s)
      BY <1>4, <2>1, <2>2, <3>1, <3>2 DEF Promise!LeaveLine, HoldsIn
    <3> QED BY <3>1, <3>3 DEF Promised, Promise!NextAdmission
  <2>4. CASE a \notin Members(queue)
    <3>1. RemoveWaiter(queue, a) = queue
      BY <2>4, NobodyToRemove
    <3>2. waiting' = waiting
      BY <2>1, <3>1 DEF TypeOK
    <3> QED BY <1>4, <2>2, <3>2 DEF Promised
  <2> QED BY <2>3, <2>4
<1>6. CASE Admit(a, s, owner[a], caller[a], root[a], queue, dependencies, superseded)
  <2>1. queue # <<>> /\ Head(queue) = a /\ HasActiveCapacity(s)
    BY <1>6 DEF Admit, MayStart
  <2>2. RemoveWaiter(queue, a) = Tail(queue)
    BY <1>1, <1>2, <2>1, RemoveHead
  <2>3. waiting' = [waiting EXCEPT ![s] = Tail(queue)]
    BY <1>6, <2>2 DEF Admit
  <2>4. HoldsIn(phase', script') = [HoldsIn(phase, script) EXCEPT ![a] = s]
    BY <1>6, HoldsAfter DEF Admit
  <2>5. Promise!GoIn(a, s)
    BY <1>1, <1>4, <2>1, <2>3, <2>4, SameRoom DEF Promise!GoIn, HoldsIn
  <2> QED BY <2>5 DEF Promised, Promise!NextAdmission
<1>7. CASE KeepWaiting(a, s, owner[a], caller[a], root[a], queue, dependencies, superseded)
  <2>1. waiting' = waiting
    BY <1>7 DEF KeepWaiting, TypeOK
  <2>2. HoldsIn(phase', script') = HoldsIn(phase, script)
    BY <1>1, <1>7, HoldsUnchanged DEF KeepWaiting
  <2> QED BY <1>4, <2>1, <2>2 DEF Promised
<1> QED BY <1>3, <1>5, <1>6, <1>7 DEF Pass

LEMMA ReleasePromised ==
  ASSUME TypeOK, NEW a \in Activations, Release(a)
  PROVE  Promised
<1>1. phase[a] = "running" /\ script[a] \in Scripts
  BY DEF Release, TypeOK
<1>2. HoldsIn(phase', script') = [HoldsIn(phase, script) EXCEPT ![a] = NoScript]
  BY HoldsAfter DEF Release, Return
<1>3. HoldsIn(phase, script)[a] # NoScript
  BY <1>1, ExecutionQueueAssumption DEF HoldsIn
<1>4. Promise!GiveBack(a)
  BY <1>2, <1>3 DEF Promise!GiveBack, HoldsIn, Release
<1> QED BY <1>4 DEF Promised, Promise!NextAdmission

(* Every step of the threads is a step of the abstract queue or none at     *)
(* all: a permit is given only to the head of its script's line, with room  *)
(* for it, and nothing else ever changes a line but joining and leaving it. *)
THEOREM AdmissionIsImplemented == Spec => ImplementsAdmission
<1>1. Init => Promise!InitAdmission
  BY DEF Init, Promise!InitAdmission
<1>2. TypeOK /\ CountersExact /\ QueuesHoldTheWaiters /\ [Next]_vars
        => [Promise!NextAdmission]_(Promise!admissionVars)
  <2> SUFFICES ASSUME TypeOK, CountersExact, QueuesHoldTheWaiters, [Next]_vars
               PROVE  Promised
    BY DEF Promised, Promise!admissionVars, HoldsIn
  <2>1. ASSUME UNCHANGED <<policy, waiting, phase, script>> PROVE Promised
    BY <2>1 DEF Promised, HoldsIn
  <2>2. ASSUME NEW a \in Activations, NEW s \in Scripts, NEW o, NEW c, NEW r,
               phase[a] = "idle", AcquireInternal(a, s, o, c, r)
        PROVE  Promised
    <3>1. CASE RefuseBusy(a, s, o) \/ RefuseFull(a, s, o)
      BY <2>1, <3>1 DEF RefuseBusy, RefuseFull, Refuse, queueVars
    <3>2. CASE Join(a, s, o, c, r)
      BY <2>2, <3>2, JoinPromised
    <3> QED BY <2>2, <3>1, <3>2 DEF AcquireInternal
  <2>3. ASSUME NEW a \in Activations, NEW s \in Scripts, Acquire(a, s) PROVE Promised
    BY <2>2, <2>3 DEF Acquire
  <2>4. ASSUME NEW p \in Activations, NEW a \in Activations, NEW s \in Scripts,
               AcquireNested(p, a, s)
        PROVE  Promised
    BY <2>2, <2>4 DEF AcquireNested
  <2>5. ASSUME NEW p \in Policies, UpdatePolicy(p) PROVE Promised
    <3>1. Promise!Reconfigure(p)
      BY <2>5 DEF UpdatePolicy, queueVars, threadVars, Promise!Reconfigure
    <3> QED BY <3>1 DEF Promised, Promise!NextAdmission
  <2>6. CASE UNCHANGED <<policy, queueVars, threadVars>>
    BY <2>1, <2>6 DEF queueVars, threadVars
  <2> QED BY <2>3, <2>4, <2>5, <2>6, PollPromised, ReleasePromised
          DEF Next, Cancel, ChangeBlacklist, vars
<1> QED BY <1>1, <1>2, TypeCorrect, CountersAreExact, QueuesAreTheWaiters, PTL
        DEF Spec, ImplementsAdmission, Promise!SpecAdmission

-----------------------------------------------------------------------------
(* Somebody can always move.                                                *)

\* Whoever called another runs, and its call counts as one of its script.
CallsAreNested ==
  \A b \in Activations : caller[b] # NoActivation =>
    /\ phase[b] # "idle"
    /\ phase[caller[b]] = "running"
    /\ owner[b] = script[caller[b]]

LEMMA ThreadKeepsCalls ==
  ASSUME TypeOK, CallsAreNested,
         NEW a \in Activations, NEW ph, NEW s, NEW o, NEW c, NEW r, NEW res,
         ThreadBecomes(a, ph, s, o, c, r, res), ~HasChild(a),
         c = NoActivation \/ (ph # "idle" /\ c \in Activations \ {a} /\ phase[c] = "running" /\ o = script[c])
  PROVE  CallsAreNested'
<1> SUFFICES ASSUME NEW b \in Activations, caller'[b] # NoActivation
             PROVE  /\ phase'[b] # "idle"
                    /\ phase'[caller'[b]] = "running"
                    /\ owner'[b] = script'[caller'[b]]
  BY DEF CallsAreNested
<1>1. \A d \in Activations : /\ phase'[d] = IF d = a THEN ph ELSE phase[d]
                             /\ script'[d] = IF d = a THEN s ELSE script[d]
                             /\ owner'[d] = IF d = a THEN o ELSE owner[d]
                             /\ caller'[d] = IF d = a THEN c ELSE caller[d]
  BY DEF ThreadBecomes, TypeOK
<1>2. CASE b = a
  BY <1>1, <1>2
<1>3. CASE b # a
  <2>1. caller'[b] = caller[b] /\ caller[b] \in Activations \ {a}
    BY <1>1, <1>3 DEF HasChild, TypeOK
  <2> QED BY <1>1, <1>3, <2>1 DEF CallsAreNested
<1> QED BY <1>2, <1>3

LEMMA PassKeepsCalls ==
  ASSUME TypeOK, CallsAreNested,
         NEW a \in Activations, NEW s, NEW o, NEW c, NEW r, NEW queue, NEW deps, NEW sup,
         Pass(a, s, o, c, r, queue, deps, sup), ~HasChild(a),
         c = NoActivation \/ (c \in Activations \ {a} /\ phase[c] = "running" /\ o = script[c])
  PROVE  CallsAreNested'
<1>1. CASE Withdraw(a, s, o, r, queue, deps, sup)
  BY <1>1, ThreadKeepsCalls DEF Withdraw, Return
<1>2. CASE Admit(a, s, o, c, r, queue, deps, sup)
  BY <1>2, ThreadKeepsCalls DEF Admit
<1>3. CASE KeepWaiting(a, s, o, c, r, queue, deps, sup)
  BY <1>3, ThreadKeepsCalls DEF KeepWaiting
<1> QED BY <1>1, <1>2, <1>3 DEF Pass

LEMMA OnlyRunsCall ==
  ASSUME CallsAreNested, NEW a, phase[a] # "running", a # NoActivation
  PROVE  ~HasChild(a)
BY DEF CallsAreNested, HasChild

LEMMA CallsStayNested == Spec => []CallsAreNested
<1>1. Init => CallsAreNested
  BY DEF Init, CallsAreNested
<1>2. TypeOK /\ CallsAreNested /\ [Next]_vars => CallsAreNested'
  <2> SUFFICES ASSUME TypeOK, CallsAreNested, [Next]_vars PROVE CallsAreNested'
    OBVIOUS
  <2>1. ASSUME UNCHANGED <<phase, script, owner, caller>> PROVE CallsAreNested'
    BY <2>1 DEF CallsAreNested
  <2>2. ASSUME NEW a \in Activations, NEW s, NEW o, NEW c, NEW r,
               phase[a] = "idle", AcquireInternal(a, s, o, c, r),
               c = NoActivation \/ (c \in Activations /\ phase[c] = "running" /\ o = script[c])
        PROVE  CallsAreNested'
    <3>1. CASE RefuseBusy(a, s, o) \/ RefuseFull(a, s, o)
      BY <2>1, <3>1 DEF RefuseBusy, RefuseFull, Refuse
    <3>2. CASE Join(a, s, o, c, r)
      <4>1. \E queue, deps, sup : Pass(a, s, o, c, r, queue, deps, sup)
        BY <3>2 DEF Join
      <4>2. ~HasChild(a)
        BY <2>2, OnlyRunsCall, ExecutionQueueAssumption
      <4> QED BY <2>2, <4>1, <4>2, PassKeepsCalls
    <3> QED BY <2>2, <3>1, <3>2 DEF AcquireInternal
  <2>3. ASSUME NEW a \in Activations, NEW s \in Scripts, Acquire(a, s) PROVE CallsAreNested'
    BY <2>2, <2>3 DEF Acquire
  <2>4. ASSUME NEW p \in Activations, NEW a \in Activations, NEW s \in Scripts,
               AcquireNested(p, a, s)
        PROVE  CallsAreNested'
    BY <2>2, <2>4 DEF AcquireNested
  <2>5. ASSUME NEW a \in Activations, Poll(a) PROVE CallsAreNested'
    <3>1. phase[a] = "waiting" /\ ~HasChild(a)
      BY <2>5, OnlyRunsCall, ExecutionQueueAssumption DEF Poll
    <3>2. PICK c \in Activations \cup {NoActivation} : c = caller[a]
      BY DEF TypeOK
    <3>3. c = NoActivation \/ (c \in Activations \ {a} /\ phase[c] = "running" /\ owner[a] = script[c])
      BY <3>1, <3>2 DEF CallsAreNested
    <3>4. Pass(a, script[a], owner[a], c, root[a], waiting[script[a]], dependencies, superseded)
      BY <2>5, <3>2 DEF Poll
    <3> QED BY <3>1, <3>3, <3>4, PassKeepsCalls
  <2>6. ASSUME NEW a \in Activations, Release(a) PROVE CallsAreNested'
    BY <2>6, ThreadKeepsCalls DEF Release, Return
  <2> QED BY <2>1, <2>3, <2>4, <2>5, <2>6
          DEF Next, UpdatePolicy, Cancel, ChangeBlacklist, vars, threadVars
<1> QED BY <1>1, <1>2, TypeCorrect, PTL DEF Spec

\* A script of whoever is stuck waits for the script of somebody else.
LEMMA StuckWaitsForAnother ==
  ASSUME TypeOK, CountersExact, QueuesHoldTheWaiters, CallsAreNested,
         policy.max_active_runs_global = Unlimited,
         \A b \in Live : ~CanMove(b),
         NEW a \in Live
  PROVE  \E b \in Live : dependencies[script[a]][script[b]] > 0
<1>1. a \in Activations /\ phase[a] \in {"waiting", "running"} /\ script[a] \in Scripts
  BY DEF Live, TypeOK
<1>2. ASSUME NEW x \in Activations, phase[x] = "running"
      PROVE  \E b \in Live : dependencies[script[x]][script[b]] > 0
  <2>1. x \in Live /\ script[x] \in Scripts
    BY <1>2 DEF Live, TypeOK
  <2>2. PICK b \in Activations : caller[b] = x
    BY <1>2, <2>1 DEF CanMove, HasChild
  <2>3. b \in Live /\ owner[b] = script[x] /\ script[b] \in Scripts
    BY <2>2, ExecutionQueueAssumption DEF CallsAreNested, Live, TypeOK
  <2>4. b \in CallsBetween(script[x], script[b])
    BY <2>3 DEF CallsBetween
  <2>5. CallsBetween(script[x], script[b]) \in SUBSET Activations
    BY DEF CallsBetween, Live
  <2>6. Cardinality(CallsBetween(script[x], script[b])) > 0
    <3> DEFINE calls == CallsBetween(script[x], script[b])
    <3> HIDE DEF calls
    <3>1. calls \in SUBSET Activations /\ b \in calls
      BY <2>4, <2>5 DEF calls
    <3>2. Cardinality(calls) = Cardinality(calls \ {b}) + 1 /\ Cardinality(calls \ {b}) \in Nat
      BY <3>1, RemoveOne, FiniteSubsets
    <3>3. Cardinality(calls) > 0
      BY <3>2
    <3> QED BY <3>3 DEF calls
  <2> QED BY <2>1, <2>3, <2>6 DEF CountersExact
<1>3. CASE phase[a] = "running"
  BY <1>1, <1>2, <1>3
<1>4. CASE phase[a] = "waiting"
  <2> DEFINE s == script[a]
             queue == waiting[s]
  <2>1. MayProceed(a, s, root[a], superseded)
    BY <1>4 DEF CanMove
  <2>2. a \notin superseded
    BY <2>1 DEF MayProceed, Withdraws, Refusals
  <2>3. queue \in Seq(Activations) /\ a \in Members(queue)
    BY <1>1, <1>4, <2>2, QueueOfWaiters DEF WaitsFor, TypeOK
  <2>4. queue # <<>> /\ Head(queue) \in Activations /\ Head(queue) \in Members(queue)
    <3>1. queue # <<>>
      BY <2>3 DEF Members
    <3>2. Head(queue) = queue[1] /\ 1 \in DOMAIN queue
      BY <2>3, <3>1
    <3> QED BY <2>3, <3>1, <3>2 DEF Members
  <2>5. WaitsFor(Head(queue), s, superseded)
    BY <1>1, <2>4, QueueOfWaiters
  <2>6. Head(queue) \in Live
    BY <2>4, <2>5 DEF WaitsFor, Live
  <2>7. ~HasActiveCapacity(s)
    BY <2>4, <2>5, <2>6 DEF CanMove, MayStart, WaitsFor
  <2>8. activeRuns[s] \in Nat /\ activeRuns[s] # 0
    <3> DEFINE limit == policy.max_active_runs_per_script
    <3>1. limit \in Limits /\ activeRuns[s] \in Nat
      BY <1>1, PolicyType DEF TypeOK
    <3>2. limit # Unlimited /\ ~(activeRuns[s] + 1 <= limit)
      BY <2>7 DEF HasActiveCapacity, Permits
    <3> HIDE DEF limit, s
    <3>3. limit \in Nat /\ limit # 0
      BY <3>1, <3>2 DEF Limits
    <3> QED BY <3>1, <3>2, <3>3
  <2>9. RunningOf(s) # {}
    BY <1>1, <2>8, FS_EmptySet DEF CountersExact
  <2>10. PICK x \in Activations : phase[x] = "running" /\ script[x] = s
    BY <2>9 DEF RunningOf, Running
  <2> QED BY <1>2, <2>10
<1> QED BY <1>1, <1>3, <1>4

\* Among finitely many calls a chain of scripts that wait for each other ends,
\* unless it comes back to where it started.
LEMMA NotEveryoneIsStuck ==
  ASSUME TypeOK, AcyclicDependencies, Live # {}
  PROVE  ~ \A a \in Live : \E b \in Live : dependencies[script[a]][script[b]] > 0
<1> SUFFICES ASSUME \A a \in Live : \E b \in Live : dependencies[script[a]][script[b]] > 0
             PROVE  FALSE
  OBVIOUS
<1> DEFINE Inside(S) == {a \in Live : script[a] \in S}
           Leads(S) == S \in SUBSET Scripts /\ Closed(dependencies, S)
           Groups == {G \in SUBSET Activations : G # {} /\ \E S \in SUBSET Scripts : Leads(S) /\ G = Inside(S)}
<1>1. Live \subseteq Activations /\ \A a \in Live : script[a] \in Scripts
  BY DEF Live, TypeOK
<1>2. Groups # {}
  <2>1. Leads(Scripts)
    BY DEF Closed
  <2>2. Inside(Scripts) = Live
    BY <1>1
  <2>3. Live \in Groups
    BY <1>1, <2>1, <2>2
  <2> QED BY <2>3
<1>3. PICK G \in Groups : \A H \in Groups : ~(H \subseteq G /\ H # G)
  <2>1. IsWellFoundedOn(StrictSubsetOrdering(Activations), FiniteSubsetsOf(Activations))
    BY FS_StrictSubsetOrderingWellFounded
  <2>2. Groups \subseteq FiniteSubsetsOf(Activations)
    BY ExecutionQueueAssumption, FS_Subset DEF FiniteSubsetsOf
  <2> HIDE DEF Groups
  <2>3. \E G \in Groups : \A H \in Groups : ~(<<H, G>> \in StrictSubsetOrdering(Activations))
    BY <1>2, <2>1, <2>2, WFMin
  <2>4. \A G, H \in Groups : G \in SUBSET Activations /\ H \in SUBSET Activations
    BY DEF Groups
  <2> QED BY <2>3, <2>4 DEF StrictSubsetOrdering
<1>4. PICK S \in SUBSET Scripts : Leads(S) /\ G = Inside(S)
  OBVIOUS
<1>5. PICK a \in Live : script[a] \in S
  BY <1>4
<1>6. PICK b \in Live : dependencies[script[a]][script[b]] > 0
  OBVIOUS
<1>7. script[a] \in Scripts /\ script[b] \in Scripts /\ script[b] \in S
  BY <1>1, <1>4, <1>5, <1>6 DEF Closed
<1>8. PICK T \in SUBSET Scripts : script[b] \in T /\ Closed(dependencies, T) /\ script[a] \notin T
  BY <1>6, <1>7 DEF AcyclicDependencies, CreatesDependencyCycle
<1>9. Leads(S \cap T)
  BY <1>4, <1>8 DEF Closed
<1>10. b \in Inside(S \cap T) /\ a \notin Inside(S \cap T) /\ Inside(S \cap T) \subseteq G
  BY <1>4, <1>7, <1>8
<1>11. Inside(S \cap T) \in Groups
  BY <1>1, <1>9, <1>10
<1>12. a \in G
  BY <1>4, <1>5
<1> QED BY <1>3, <1>10, <1>11, <1>12

(* Without a global limit nested calls never stop everyone: as long as an   *)
(* activation asks or runs, some activation has a step of its own to take.  *)
THEOREM NobodyIsGridlocked == Spec => []NoGridlock
<1>1. TypeOK /\ CountersExact /\ QueuesHoldTheWaiters /\ CallsAreNested /\ AcyclicDependencies
        => NoGridlock
  BY StuckWaitsForAnother, NotEveryoneIsStuck DEF NoGridlock
<1> QED BY <1>1, TypeCorrect, CountersAreExact, QueuesAreTheWaiters, CallsStayNested,
           NestedWaitsAcyclic, PTL

-----------------------------------------------------------------------------
(* The limits.                                                              *)

(* A permit is given within the limits of the policy that is in force at    *)
(* that moment, to a nested call as to any other: with the new run no more   *)
(* runs are going than the limits say, although the policy may have changed *)
(* while the activation waited (acquire_internal, has_active_capacity).      *)
PermitsAreWithinLimits ==
  [][\A a \in Activations, s \in Scripts :
       phase[a] # "running" /\ phase'[a] = "running" /\ script'[a] = s =>
         /\ policy' = policy
         /\ Permits(policy.max_active_runs_global, Cardinality(Running'))
         /\ Permits(policy.max_active_runs_per_script, Cardinality(RunningOf(s)'))]_vars

\* A pass that lets its activation run does so by admitting it.
LEMMA PassKeepsLimits ==
  ASSUME TypeOK, CountersExact', NEW a \in Activations, NEW s \in Scripts, NEW o, NEW c, NEW r,
         NEW queue, NEW deps, NEW sup, Pass(a, s, o, c, r, queue, deps, sup),
         NEW b \in Activations, NEW t \in Scripts,
         phase[b] # "running", phase'[b] = "running", script'[b] = t
  PROVE  /\ policy' = policy
         /\ Permits(policy.max_active_runs_global, Cardinality(Running'))
         /\ Permits(policy.max_active_runs_per_script, Cardinality(RunningOf(t)'))
<1>1. policy' = policy
  BY DEF Pass
<1>2. ASSUME NEW ph \in {"idle", "waiting"}, NEW x, NEW y, NEW z, NEW u, NEW v,
             ThreadBecomes(a, ph, x, y, z, u, v)
      PROVE  FALSE
  BY <1>2 DEF ThreadBecomes, TypeOK
<1>3. Admit(a, s, o, c, r, queue, deps, sup)
  BY <1>2 DEF Pass, Withdraw, KeepWaiting, Return
<1>4. b = a /\ t = s
  BY <1>3 DEF Admit, ThreadBecomes, TypeOK
<1>5. activeTotal' = activeTotal + 1 /\ activeRuns'[s] = activeRuns[s] + 1
  BY <1>3 DEF Admit, TypeOK
<1>6. Cardinality(Running') = activeTotal + 1 /\ Cardinality(RunningOf(s)') = activeRuns[s] + 1
  BY <1>5 DEF CountersExact
<1>7. HasActiveCapacity(s)
  BY <1>3 DEF Admit, MayStart
<1> QED BY <1>1, <1>4, <1>6, <1>7 DEF HasActiveCapacity

(* Whatever policies follow each other: no step takes the runs above the     *)
(* limits of the policy in force (acquire_internal, update_policy).          *)
THEOREM LimitsAreKept == Spec => PermitsAreWithinLimits
<1>1. TypeOK /\ CountersExact' /\ [Next]_vars =>
        [\A a \in Activations, s \in Scripts :
           phase[a] # "running" /\ phase'[a] = "running" /\ script'[a] = s =>
             /\ policy' = policy
             /\ Permits(policy.max_active_runs_global, Cardinality(Running'))
             /\ Permits(policy.max_active_runs_per_script, Cardinality(RunningOf(s)'))]_vars
  <2> SUFFICES ASSUME TypeOK, CountersExact', Next,
                      NEW b \in Activations, NEW t \in Scripts,
                      phase[b] # "running", phase'[b] = "running", script'[b] = t
               PROVE  /\ policy' = policy
                      /\ Permits(policy.max_active_runs_global, Cardinality(Running'))
                      /\ Permits(policy.max_active_runs_per_script, Cardinality(RunningOf(t)'))
    OBVIOUS
  <2>1. phase' # phase
    OBVIOUS
  <2>2. ASSUME NEW a \in Activations, NEW s \in Scripts, NEW o, NEW c, NEW r, AcquireInternal(a, s, o, c, r)
        PROVE  \E queue, deps, sup : Pass(a, s, o, c, r, queue, deps, sup)
    BY <2>1, <2>2, Zenon DEF AcquireInternal, RefuseBusy, RefuseFull, Refuse, Join
  <2>3. ASSUME NEW a \in Activations, NEW s \in Scripts, Acquire(a, s)
        PROVE  \E o, c, r, queue, deps, sup : Pass(a, s, o, c, r, queue, deps, sup)
    BY <2>2, <2>3, Zenon DEF Acquire
  <2>4. ASSUME NEW p \in Activations, NEW a \in Activations, NEW s \in Scripts, AcquireNested(p, a, s)
        PROVE  \E o, c, r, queue, deps, sup : Pass(a, s, o, c, r, queue, deps, sup)
    BY <2>2, <2>4, Zenon DEF AcquireNested
  <2>5. ASSUME NEW a \in Activations, Poll(a)
        PROVE  script[a] \in Scripts /\ \E o, c, r, queue, deps, sup : Pass(a, script[a], o, c, r, queue, deps, sup)
    <3>1. script[a] \in Scripts
      BY <2>5 DEF Poll, TypeOK
    <3> QED BY <2>5, <3>1, Zenon DEF Poll
  <2>6. \A a \in Activations : ~Release(a)
    BY DEF Release, Return, ThreadBecomes, TypeOK
  <2> QED BY <2>1, <2>3, <2>4, <2>5, <2>6, PassKeepsLimits
          DEF Next, UpdatePolicy, Cancel, ChangeBlacklist, threadVars
<1> QED BY <1>1, TypeCorrect, CountersAreExact, PTL DEF Spec, PermitsAreWithinLimits

=============================================================================
