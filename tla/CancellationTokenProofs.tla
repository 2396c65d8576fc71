----------------------- MODULE CancellationTokenProofs -----------------------
(***************************************************************************)
(* What holds of cancellation tokens for any set of tokens and threads:     *)
(* cancelling misses no child and no subscriber, and goes nowhere else.     *)
(*                                                                         *)
(* The flag is put up without a lock and read under one.  The argument is   *)
(* that of lines 38-52 and 129-157: whoever reads the flag down keeps the   *)
(* list locked until the child is in it, so a thread that puts the flag up  *)
(* in between still has the list before it.                                 *)
(***************************************************************************)
EXTENDS CancellationToken, TLAPS

\* A live child that is not cancelled is in its parent's list.
Registered ==
  \A c \in alive : parent[c] \in made /\ c \notin cancelled => c \in children[parent[c]]

\* If its parent is cancelled, a thread has its cancellation on its list, or
\* has yet to look at the children of the parent.
OnItsWay ==
  \A c \in alive :
    parent[c] \in cancelled /\ c \notin cancelled =>
      (\E th \in Threads : c \in todo[th]) \/ IsReaching(parent[c])

\* A thread that read the flag down, and keeps the children locked.
LookedInTime ==
  \A th \in Threads :
    pc[th] = "child" /\ ~seen[th] /\ at[th] \in cancelled => IsReaching(at[th])

\* And one that read it up.
LookedTooLate ==
  \A th \in Threads : pc[th] \in {"child", "subscribe"} /\ seen[th] => at[th] \in cancelled

ChildInv == Registered /\ OnItsWay /\ LookedInTime

IsSignalling(t) ==
  \E th \in Threads : at[th] = t /\ pc[th] \in {"notify", "drain"}

\* A subscriber has its message or is in the list.
Subscribed ==
  \A th \in Threads :
    pc[th] = "subscribed" /\ at[th] \in alive =>
      th \in signalled \/ th \in subscribers[at[th]]

SubscribedInTime ==
  \A th \in Threads :
    pc[th] = "subscribe" /\ ~seen[th] /\ at[th] \in cancelled => IsSignalling(at[th])

SubscriberInv == Subscribed /\ SubscribedInTime /\ NoSubscriberIsMissed

\* What a thread is about to cancel has a reason to be cancelled.
HasReason ==
  \A th \in Threads : \A t \in todo[th] : t \in asked \/ parent[t] \in cancelled

\* Whoever is at a token in cancel_state has put its flag up.
AtCancelled ==
  \A th \in Threads : pc[th] \in {"notify", "drain", "collect"} => at[th] \in cancelled

ListsChildren ==
  \A t \in Tokens : \A c \in children[t] : parent[c] = t

IsolationInv ==
  HasReason /\ AtCancelled /\ ListsChildren /\ LookedTooLate /\ CancellingIsIsolated

-----------------------------------------------------------------------------
(* Types. *)

(* Every variable of the tokens keeps its type, and nobody works on a token *)
(* that was never made.                                                     *)
THEOREM TokensTyped == Spec => []TypeOK
<1>1. Init => TypeOK
  BY CancellationTokenAssumption DEF Init, TypeOK, Cancelling, Waiting
<1>2. TypeOK /\ [Next]_vars => TypeOK'
  <2> SUFFICES ASSUME TypeOK, [Next]_vars PROVE TypeOK'
    OBVIOUS
  <2> USE DEF Cancelling, Waiting
  <2>1. ASSUME NEW th \in Threads, NEW t \in Tokens, Cancel(th, t) PROVE TypeOK'
    BY <2>1 DEF TypeOK, Cancel, Goes, ReadsTheFlag, tree, lists
  <2>2. ASSUME NEW th \in Threads, NEW t \in Tokens, ChildLooks(th, t) PROVE TypeOK'
    BY <2>2 DEF TypeOK, ChildLooks, Goes, ReadsTheFlag, tree, lists
  <2>3. ASSUME NEW th \in Threads, NEW t \in Tokens, SubscribeLooks(th, t) PROVE TypeOK'
    BY <2>3 DEF TypeOK, SubscribeLooks, Goes, ReadsTheFlag, tree, lists
  <2>4. ASSUME NEW th \in Threads, NEW t \in Tokens, WaitFor(th, t) PROVE TypeOK'
    BY <2>4 DEF TypeOK, WaitFor, Goes, ReadsTheFlag, tree, lists
  <2>5. ASSUME NEW th \in Threads, Swap(th) PROVE TypeOK'
    BY <2>5 DEF TypeOK, Swap, Goes, AfterThis, Reachable, IsDoing, tree, lists
  <2>6. ASSUME NEW th \in Threads, NotifyAll(th) PROVE TypeOK'
    BY <2>6 DEF TypeOK, NotifyAll, Goes, AfterThis, Reachable, IsDoing, tree, lists
  <2>7. ASSUME NEW th \in Threads, Drain(th) PROVE TypeOK'
    BY <2>7 DEF TypeOK, Drain, Goes, AfterThis, Reachable, IsDoing, tree, lists
  <2>8. ASSUME NEW th \in Threads, Collect(th) PROVE TypeOK'
    BY <2>8 DEF TypeOK, Collect, Goes, AfterThis, Reachable, IsDoing, tree, lists
  <2>9. ASSUME NEW th \in Threads, ChildIsMade(th) PROVE TypeOK'
    BY <2>9 DEF TypeOK, ChildIsMade, Goes, AfterThis, Reachable, IsDoing, tree, lists
  <2>10. ASSUME NEW th \in Threads, Subscribe(th) PROVE TypeOK'
    BY <2>10 DEF TypeOK, Subscribe, Goes, AfterThis, Reachable, IsDoing, tree, lists
  <2>11. ASSUME NEW th \in Threads, ChecksBeforeSleep(th) PROVE TypeOK'
    BY <2>11 DEF TypeOK, ChecksBeforeSleep, Goes, AfterThis, Reachable, IsDoing,
       tree, lists
  <2>12. ASSUME NEW th \in Threads, FallsAsleep(th) PROVE TypeOK'
    BY <2>12 DEF TypeOK, FallsAsleep, Goes, AfterThis, Reachable, IsDoing, tree, lists
  <2>13. ASSUME NEW th \in Threads, Unsubscribe(th) PROVE TypeOK'
    BY <2>13 DEF TypeOK, Unsubscribe, Goes, AfterThis, Reachable, IsDoing, tree, lists
  <2>14. ASSUME NEW th \in Threads, WakesByItself(th) PROVE TypeOK'
    BY <2>14 DEF TypeOK, WakesByItself, Goes, AfterThis, Reachable, IsDoing, tree, lists
  <2>15. ASSUME NEW t \in Tokens, Dropped(t) PROVE TypeOK'
    BY <2>15 DEF TypeOK, Dropped, lists, thread
  <2>16. CASE UNCHANGED vars
    BY <2>16 DEF TypeOK, vars, tree, lists, thread
  <2> QED BY <2>1, <2>2, <2>3, <2>4, <2>5, <2>6, <2>7, <2>8, <2>9, <2>10, <2>11,
     <2>12, <2>13, <2>14, <2>15, <2>16 DEF Next, Starts, Continues
<1> QED BY <1>1, <1>2, PTL DEF Spec

-----------------------------------------------------------------------------
(* Isolation. *)

(* Cancelling is isolated: a token is cancelled only because somebody asked *)
(* for it or its parent is; cancel_state goes down the tree and nowhere     *)
(* else (lines 129-158).                                                    *)
THEOREM CancellingGoesNowhereElse == Spec => []CancellingIsIsolated
<1> USE DEF Cancelling, Waiting
<1>1. Init => IsolationInv
  BY CancellationTokenAssumption DEF Init, IsolationInv, HasReason, AtCancelled,
     ListsChildren, LookedTooLate, CancellingIsIsolated
<1>2. IsolationInv /\ TypeOK /\ TypeOK' /\ [Next]_vars => IsolationInv'
  <2> SUFFICES ASSUME IsolationInv, TypeOK, TypeOK', [Next]_vars PROVE IsolationInv'
    OBVIOUS
  <2> USE DEF IsolationInv, TypeOK
  <2>1. ASSUME NEW th \in Threads, NEW t \in Tokens, Cancel(th, t) PROVE IsolationInv'
    BY <2>1 DEF Cancel, Goes, tree, HasReason, AtCancelled, ListsChildren,
       LookedTooLate, CancellingIsIsolated
  <2>2. ASSUME NEW th \in Threads, NEW t \in Tokens, ChildLooks(th, t) PROVE IsolationInv'
    <3>1. HasReason'
      BY <2>2 DEF ChildLooks, Goes, ReadsTheFlag, tree, HasReason
    <3>2. AtCancelled'
      BY <2>2 DEF ChildLooks, Goes, ReadsTheFlag, tree, AtCancelled
    <3>3. ListsChildren'
      BY <2>2 DEF ChildLooks, Goes, ReadsTheFlag, tree, ListsChildren
    <3>4. LookedTooLate'
      <4>1. at'[th] = t /\ cancelled' = cancelled
        BY <2>2 DEF ChildLooks, Goes, lists, tree
      <4>2. \A y \in Threads \ {th} : pc'[y] = pc[y] /\ at'[y] = at[y] /\ seen'[y] = seen[y]
        BY <2>2 DEF ChildLooks, Goes, ReadsTheFlag
      <4>3. seen'[th] = (t \in cancelled)
        BY <2>2, Zenon DEF ChildLooks, ReadsTheFlag
      <4> QED BY <4>1, <4>2, <4>3 DEF LookedTooLate
    <3>5. CancellingIsIsolated'
      BY <2>2 DEF ChildLooks, Goes, ReadsTheFlag, tree, CancellingIsIsolated
    <3> QED BY <3>1, <3>2, <3>3, <3>4, <3>5
  <2>3. ASSUME NEW th \in Threads, NEW t \in Tokens, SubscribeLooks(th, t) PROVE IsolationInv'
    BY <2>3 DEF SubscribeLooks, Goes, ReadsTheFlag, tree, lists, HasReason,
       AtCancelled, ListsChildren, LookedTooLate, CancellingIsIsolated
  <2>4. ASSUME NEW th \in Threads, NEW t \in Tokens, WaitFor(th, t) PROVE IsolationInv'
    BY <2>4 DEF WaitFor, Goes, tree, lists, HasReason, AtCancelled, ListsChildren,
       LookedTooLate, CancellingIsIsolated
  <2>5. ASSUME NEW th \in Threads, Swap(th) PROVE IsolationInv'
    BY <2>5 DEF Swap, Goes, AfterThis, tree, HasReason, AtCancelled, ListsChildren,
       LookedTooLate, CancellingIsIsolated
  <2>6. ASSUME NEW th \in Threads, NotifyAll(th) PROVE IsolationInv'
    BY <2>6 DEF NotifyAll, IsDoing, tree, lists, HasReason, AtCancelled,
       ListsChildren, LookedTooLate, CancellingIsIsolated
  <2>7. ASSUME NEW th \in Threads, Drain(th) PROVE IsolationInv'
    BY <2>7 DEF Drain, Goes, SubscribersAreLocked, IsDoing, tree, HasReason,
       AtCancelled, ListsChildren, LookedTooLate, CancellingIsIsolated
  <2>8. ASSUME NEW th \in Threads, Collect(th) PROVE IsolationInv'
    BY <2>8 DEF Collect, Goes, AfterThis, Reachable, ChildrenAreLocked, IsDoing,
       tree, HasReason, AtCancelled, ListsChildren, LookedTooLate, CancellingIsIsolated
  <2>9. ASSUME NEW th \in Threads, ChildIsMade(th) PROVE IsolationInv'
    <3>1. HasReason'
      BY <2>9 DEF ChildIsMade, Goes, HasReason
    <3>2. AtCancelled'
      BY <2>9 DEF ChildIsMade, Goes, AtCancelled
    <3>3. ListsChildren'
      <4> PICK c \in Tokens \ made :
             /\ made' = made \cup {c} /\ alive' = alive \cup {c}
             /\ parent' = [parent EXCEPT ![c] = at[th]]
             /\ IF seen[th]
                THEN cancelled' = cancelled \cup {c} /\ UNCHANGED children
                ELSE children' = [children EXCEPT ![at[th]] = @ \cup {c}] /\ UNCHANGED cancelled
        BY <2>9 DEF ChildIsMade
      <4>1. pc[th] = "child" /\ at[th] \in made
        BY <2>9 DEF ChildIsMade
      <4>2. c \notin alive /\ c \notin cancelled /\ parent'[c] = at[th]
        OBVIOUS
      <4>3. \A x \in Tokens \ {c} : parent'[x] = parent[x]
        OBVIOUS
      <4>4. ASSUME NEW t \in Tokens, NEW x \in children'[t] PROVE (x = c /\ t = at[th]) \/ x \in children[t]
        BY <4>1, <4>4
      <4>5. \A t \in Tokens : \A x \in children[t] : x \in Tokens \ {c}
        OBVIOUS
      <4> QED BY <4>2, <4>3, <4>4, <4>5 DEF ListsChildren
    <3>4. LookedTooLate'
      BY <2>9 DEF ChildIsMade, Goes, LookedTooLate
    <3>5. CancellingIsIsolated'
      <4> PICK c \in Tokens \ made :
             /\ made' = made \cup {c} /\ alive' = alive \cup {c}
             /\ parent' = [parent EXCEPT ![c] = at[th]]
             /\ IF seen[th]
                THEN cancelled' = cancelled \cup {c} /\ UNCHANGED children
                ELSE children' = [children EXCEPT ![at[th]] = @ \cup {c}] /\ UNCHANGED cancelled
        BY <2>9 DEF ChildIsMade
      <4>1. pc[th] = "child" /\ at[th] \in made
        BY <2>9 DEF ChildIsMade
      <4>2. c \notin alive /\ c \notin cancelled /\ parent'[c] = at[th]
        OBVIOUS
      <4>3. \A x \in Tokens \ {c} : parent'[x] = parent[x]
        OBVIOUS
      <4>4. asked' = asked
        BY <2>9 DEF ChildIsMade
      <4>5. seen[th] => at[th] \in cancelled
        BY <4>1 DEF LookedTooLate
      <4>6. c \in cancelled' => parent'[c] \in cancelled'
        BY <4>2, <4>5
      <4>7. \A x \in cancelled : x \in Tokens \ {c}
        BY <4>2
      <4>8. \A x \in cancelled : x \in asked' \/ parent'[x] \in cancelled'
        BY <4>3, <4>4, <4>7 DEF CancellingIsIsolated
      <4>9. cancelled' \subseteq cancelled \cup {c}
        OBVIOUS
      <4> QED BY <4>6, <4>8, <4>9 DEF CancellingIsIsolated
    <3> QED BY <3>1, <3>2, <3>3, <3>4, <3>5
  <2>10. ASSUME NEW th \in Threads, Subscribe(th) PROVE IsolationInv'
    BY <2>10 DEF Subscribe, Goes, tree, HasReason, AtCancelled, ListsChildren,
       LookedTooLate, CancellingIsIsolated
  <2>11. ASSUME NEW th \in Threads, ChecksBeforeSleep(th) PROVE IsolationInv'
    BY <2>11 DEF ChecksBeforeSleep, Goes, tree, lists, HasReason, AtCancelled,
       ListsChildren, LookedTooLate, CancellingIsIsolated
  <2>12. ASSUME NEW th \in Threads, FallsAsleep(th) PROVE IsolationInv'
    BY <2>12 DEF FallsAsleep, Goes, tree, lists, HasReason, AtCancelled,
       ListsChildren, LookedTooLate, CancellingIsIsolated
  <2>13. ASSUME NEW th \in Threads, Unsubscribe(th) PROVE IsolationInv'
    BY <2>13 DEF Unsubscribe, Goes, tree, HasReason, AtCancelled, ListsChildren,
       LookedTooLate, CancellingIsIsolated
  <2>14. ASSUME NEW th \in Threads, WakesByItself(th) PROVE IsolationInv'
    BY <2>14 DEF WakesByItself, Goes, tree, lists, HasReason, AtCancelled,
       ListsChildren, LookedTooLate, CancellingIsIsolated
  <2>15. ASSUME NEW t \in Tokens, Dropped(t) PROVE IsolationInv'
    BY <2>15 DEF Dropped, lists, thread, HasReason, AtCancelled, ListsChildren,
       LookedTooLate, CancellingIsIsolated
  <2>16. CASE UNCHANGED vars
    BY <2>16 DEF vars, tree, lists, thread, HasReason, AtCancelled, ListsChildren,
       LookedTooLate, CancellingIsIsolated
  <2> QED BY <2>1, <2>2, <2>3, <2>4, <2>5, <2>6, <2>7, <2>8, <2>9, <2>10, <2>11,
     <2>12, <2>13, <2>14, <2>15, <2>16 DEF Next, Starts, Continues
<1>3. IsolationInv /\ TypeOK => CancellingIsIsolated
  BY DEF IsolationInv, CancellingIsIsolated, HasReason, AtCancelled, ListsChildren,
     LookedTooLate, CancellingIsIsolated, TypeOK
<1> QED BY <1>1, <1>2, <1>3, TokensTyped, PTL DEF Spec

-----------------------------------------------------------------------------
(* Children. *)

(* No child is missed, however child_token and cancel_state interleave on    *)
(* any number of threads (lines 38-52 and 129-158).                         *)
THEOREM NoChildMissed == Spec => []NoChildIsMissed
<1> USE DEF Cancelling, Waiting
<1>1. Init => ChildInv
  BY CancellationTokenAssumption DEF Init, ChildInv, Registered, OnItsWay,
     LookedInTime, IsReaching
<1>2. ChildInv /\ TypeOK /\ TypeOK' /\ [Next]_vars => ChildInv'
  <2> SUFFICES ASSUME ChildInv, TypeOK, TypeOK', [Next]_vars PROVE ChildInv'
    OBVIOUS
  <2> USE DEF ChildInv, TypeOK, IsReaching
  <2>1. ASSUME NEW th \in Threads, NEW t \in Tokens, Cancel(th, t) PROVE ChildInv'
    BY <2>1 DEF Cancel, Goes, tree, Registered, OnItsWay, LookedInTime
  <2>2. ASSUME NEW th \in Threads, NEW t \in Tokens, ChildLooks(th, t) PROVE ChildInv'
    <3>1. Registered'
      BY <2>2 DEF ChildLooks, Goes, ReadsTheFlag, tree, Registered
    <3>2. OnItsWay'
      BY <2>2 DEF ChildLooks, Goes, ReadsTheFlag, tree, OnItsWay
    <3>3. LookedInTime'
      <4> SUFFICES ASSUME NEW x \in Threads, pc'[x] = "child", ~seen'[x], at'[x] \in cancelled'
                   PROVE  IsReaching(at[x])'
        BY DEF LookedInTime
      <4>1. pc[th] = "idle" /\ pc'[th] = "child" /\ at'[th] = t /\ cancelled' = cancelled
        BY <2>2 DEF ChildLooks, Goes, lists, tree
      <4>2. \A y \in Threads \ {th} : pc'[y] = pc[y] /\ at'[y] = at[y] /\ seen'[y] = seen[y]
        BY <2>2 DEF ChildLooks, Goes, ReadsTheFlag
      <4>3. seen'[th] = (t \in cancelled)
        BY <2>2, Zenon DEF ChildLooks, ReadsTheFlag
      <4>4. x # th
        BY <4>1, <4>3
      <4>5. IsReaching(at[x])
        BY <4>1, <4>2, <4>4 DEF LookedInTime
      <4> QED BY <4>1, <4>2, <4>4, <4>5
    <3> QED BY <3>1, <3>2, <3>3
  <2>3. ASSUME NEW th \in Threads, NEW t \in Tokens, SubscribeLooks(th, t) PROVE ChildInv'
    <3>1. Registered'
      BY <2>3 DEF SubscribeLooks, tree, lists, Registered
    <3>2. OnItsWay'
      BY <2>3 DEF SubscribeLooks, Goes, tree, lists, OnItsWay
    <3>3. LookedInTime'
      BY <2>3 DEF SubscribeLooks, Goes, ReadsTheFlag, lists, LookedInTime
    <3> QED BY <3>1, <3>2, <3>3
  <2>4. ASSUME NEW th \in Threads, NEW t \in Tokens, WaitFor(th, t) PROVE ChildInv'
    <3>1. Registered'
      BY <2>4 DEF WaitFor, tree, lists, Registered
    <3>2. OnItsWay'
      BY <2>4 DEF WaitFor, Goes, tree, lists, OnItsWay
    <3>3. LookedInTime'
      BY <2>4 DEF WaitFor, Goes, lists, LookedInTime
    <3> QED BY <3>1, <3>2, <3>3
  <2>5. ASSUME NEW th \in Threads, Swap(th) PROVE ChildInv'
    <3>1. PICK t \in todo[th] :
            \/ /\ t \in cancelled /\ AfterThis(th, todo[th] \ {t}) /\ UNCHANGED cancelled
            \/ /\ t \notin cancelled /\ cancelled' = cancelled \cup {t}
               /\ Goes(th, "notify", t) /\ todo' = [todo EXCEPT ![th] = @ \ {t}]
      BY <2>5 DEF Swap
    <3>2. pc[th] = "flag" /\ UNCHANGED <<tree, asked, children, subscribers, signalled, seen>>
      BY <2>5 DEF Swap
    <3>3. CASE t \in cancelled /\ AfterThis(th, todo[th] \ {t}) /\ UNCHANGED cancelled
      <4>1. Registered'
        BY <3>2, <3>3 DEF tree, Registered
      <4>2. OnItsWay'
        BY <3>2, <3>3 DEF Goes, AfterThis, tree, OnItsWay
      <4>3. LookedInTime'
        BY <3>2, <3>3 DEF Goes, AfterThis, LookedInTime
      <4> QED BY <4>1, <4>2, <4>3
    <3>4. CASE /\ t \notin cancelled /\ cancelled' = cancelled \cup {t}
               /\ Goes(th, "notify", t) /\ todo' = [todo EXCEPT ![th] = @ \ {t}]
      <4>1. Registered'
        BY <3>2, <3>4 DEF tree, Registered
      <4>2. OnItsWay'
        BY <3>2, <3>4 DEF Goes, tree, OnItsWay
      <4>3. LookedInTime'
        BY <3>2, <3>4 DEF Goes, LookedInTime
      <4> QED BY <4>1, <4>2, <4>3
    <3> QED BY <3>1, <3>3, <3>4
  <2>6. ASSUME NEW th \in Threads, NotifyAll(th) PROVE ChildInv'
    BY <2>6 DEF NotifyAll, IsDoing, tree, lists, Registered, OnItsWay, LookedInTime
  <2>7. ASSUME NEW th \in Threads, Drain(th) PROVE ChildInv'
    BY <2>7 DEF Drain, Goes, SubscribersAreLocked, IsDoing, tree, Registered,
       OnItsWay, LookedInTime
  <2>8. ASSUME NEW th \in Threads, Collect(th) PROVE ChildInv'
    BY <2>8 DEF Collect, Goes, AfterThis, Reachable, ChildrenAreLocked, IsDoing,
       tree, Registered, OnItsWay, LookedInTime
  <2>9. ASSUME NEW th \in Threads, ChildIsMade(th) PROVE ChildInv'
    <3>1. Registered'
      <4> PICK c \in Tokens \ made :
             /\ made' = made \cup {c} /\ alive' = alive \cup {c}
             /\ parent' = [parent EXCEPT ![c] = at[th]]
             /\ IF seen[th]
                THEN cancelled' = cancelled \cup {c} /\ UNCHANGED children
                ELSE children' = [children EXCEPT ![at[th]] = @ \cup {c}] /\ UNCHANGED cancelled
        BY <2>9 DEF ChildIsMade
      <4>1. pc[th] = "child" /\ at[th] \in made
        BY <2>9 DEF ChildIsMade
      <4>2. c \notin alive /\ c \notin cancelled /\ parent'[c] = at[th]
        OBVIOUS
      <4>3. \A x \in Tokens \ {c} : parent'[x] = parent[x]
        OBVIOUS
      <4>4. c \notin cancelled' => c \in children'[at[th]]
        BY <4>1
      <4>5. ASSUME NEW x \in alive, parent[x] \in made, x \notin cancelled PROVE x \in children'[parent[x]]
        BY <4>1, <4>5 DEF Registered
      <4>6. \A x \in alive : x \in Tokens \ {c} /\ (parent[x] \in made' => parent[x] \in made)
        BY CancellationTokenAssumption
      <4> QED BY <4>2, <4>3, <4>4, <4>5, <4>6 DEF Registered
    <3>2. OnItsWay'
      <4> PICK c \in Tokens \ made :
             /\ made' = made \cup {c} /\ alive' = alive \cup {c}
             /\ parent' = [parent EXCEPT ![c] = at[th]]
             /\ IF seen[th]
                THEN cancelled' = cancelled \cup {c} /\ UNCHANGED children
                ELSE children' = [children EXCEPT ![at[th]] = @ \cup {c}] /\ UNCHANGED cancelled
        BY <2>9 DEF ChildIsMade
      <4>1. pc[th] = "child" /\ at[th] \in made
        BY <2>9 DEF ChildIsMade
      <4>2. c \notin alive /\ c \notin cancelled /\ parent'[c] = at[th]
        OBVIOUS
      <4>3. \A x \in Tokens \ {c} : parent'[x] = parent[x]
        OBVIOUS
      <4>4. \A y \in Threads \ {th} : pc'[y] = pc[y] /\ at'[y] = at[y]
        BY <2>9 DEF ChildIsMade, Goes
      <4>5. c \notin cancelled' /\ at[th] \in cancelled => IsReaching(at[th])
        BY <4>1 DEF LookedInTime
      <4>6. c \notin cancelled' => cancelled' = cancelled
        BY <4>2
      <4>7. ASSUME NEW x \in alive, parent'[x] \in cancelled', x \notin cancelled'
            PROVE  (\E y \in Threads : x \in todo'[y]) \/ IsReaching(parent[x])'
        <5>1. parent'[x] = parent[x] /\ parent[x] # c /\ x \notin cancelled
          BY <4>2, <4>3, <4>7, CancellationTokenAssumption
        <5>2. parent[x] \in cancelled
          BY <4>7, <5>1
        <5>3. (\E y \in Threads : x \in todo[y]) \/ IsReaching(parent[x])
          BY <5>1, <5>2 DEF OnItsWay
        <5>4. todo' = todo
          BY <2>9 DEF ChildIsMade
        <5>5. IsReaching(parent[x]) => IsReaching(parent[x])'
          BY <4>1, <4>4, <5>1
        <5> QED BY <5>3, <5>4, <5>5
      <4>8. c \notin cancelled' /\ parent'[c] \in cancelled' => IsReaching(parent[c])'
        BY <4>1, <4>2, <4>4, <4>5, <4>6
      <4> QED BY <4>7, <4>8 DEF OnItsWay
    <3>3. LookedInTime'
      BY <2>9 DEF ChildIsMade, Goes, LookedInTime
    <3> QED BY <3>1, <3>2, <3>3
  <2>10. ASSUME NEW th \in Threads, Subscribe(th) PROVE ChildInv'
    BY <2>10 DEF Subscribe, Goes, tree, Registered, OnItsWay, LookedInTime
  <2>11. ASSUME NEW th \in Threads, ChecksBeforeSleep(th) PROVE ChildInv'
    <3>1. Registered'
      BY <2>11 DEF ChecksBeforeSleep, tree, lists, Registered
    <3>2. OnItsWay'
      BY <2>11 DEF ChecksBeforeSleep, Goes, tree, lists, OnItsWay
    <3>3. LookedInTime'
      BY <2>11 DEF ChecksBeforeSleep, Goes, lists, LookedInTime
    <3> QED BY <3>1, <3>2, <3>3
  <2>12. ASSUME NEW th \in Threads, FallsAsleep(th) PROVE ChildInv'
    <3>1. Registered'
      BY <2>12 DEF FallsAsleep, tree, lists, Registered
    <3>2. OnItsWay'
      BY <2>12 DEF FallsAsleep, Goes, tree, lists, OnItsWay
    <3>3. LookedInTime'
      BY <2>12 DEF FallsAsleep, Goes, lists, LookedInTime
    <3> QED BY <3>1, <3>2, <3>3
  <2>13. ASSUME NEW th \in Threads, Unsubscribe(th) PROVE ChildInv'
    BY <2>13 DEF Unsubscribe, Goes, tree, Registered, OnItsWay, LookedInTime
  <2>14. ASSUME NEW th \in Threads, WakesByItself(th) PROVE ChildInv'
    <3>1. Registered'
      BY <2>14 DEF WakesByItself, tree, lists, Registered
    <3>2. OnItsWay'
      BY <2>14 DEF WakesByItself, Goes, tree, lists, OnItsWay
    <3>3. LookedInTime'
      BY <2>14 DEF WakesByItself, Goes, lists, LookedInTime
    <3> QED BY <3>1, <3>2, <3>3
  <2>15. ASSUME NEW t \in Tokens, Dropped(t) PROVE ChildInv'
    BY <2>15 DEF Dropped, lists, thread, Registered, OnItsWay, LookedInTime
  <2>16. CASE UNCHANGED vars
    BY <2>16 DEF vars, tree, lists, thread, Registered, OnItsWay, LookedInTime
  <2> QED BY <2>1, <2>2, <2>3, <2>4, <2>5, <2>6, <2>7, <2>8, <2>9, <2>10, <2>11,
     <2>12, <2>13, <2>14, <2>15, <2>16 DEF Next, Starts, Continues
<1>3. ChildInv /\ TypeOK => NoChildIsMissed
  BY DEF ChildInv, NoChildIsMissed, Registered, OnItsWay, LookedInTime, TypeOK,
     NobodyCancels, IsReaching
<1> QED BY <1>1, <1>2, <1>3, TokensTyped, PTL DEF Spec

-----------------------------------------------------------------------------
(* Subscribers. *)

(* No subscriber is missed, however subscribe, the drop of a subscription   *)
(* and cancel_state interleave (lines 78-100, 116-127 and 129-142).         *)
THEOREM NoSubscriberMissed == Spec => []NoSubscriberIsMissed
<1> USE DEF Cancelling, Waiting
<1>1. Init => SubscriberInv
  BY CancellationTokenAssumption DEF Init, SubscriberInv, Subscribed,
     SubscribedInTime, NoSubscriberIsMissed, IsSignalling
<1>2. SubscriberInv /\ TypeOK /\ TypeOK' /\ [Next]_vars => SubscriberInv'
  <2> SUFFICES ASSUME SubscriberInv, TypeOK, TypeOK', [Next]_vars PROVE SubscriberInv'
    OBVIOUS
  <2> USE DEF SubscriberInv, TypeOK, IsSignalling
  <2>1. ASSUME NEW th \in Threads, NEW t \in Tokens, Cancel(th, t) PROVE SubscriberInv'
    BY <2>1 DEF Cancel, Goes, tree, Subscribed, SubscribedInTime, NoSubscriberIsMissed
  <2>2. ASSUME NEW th \in Threads, NEW t \in Tokens, ChildLooks(th, t) PROVE SubscriberInv'
    BY <2>2 DEF ChildLooks, Goes, ReadsTheFlag, tree, Subscribed, SubscribedInTime,
       NoSubscriberIsMissed
  <2>3. ASSUME NEW th \in Threads, NEW t \in Tokens, SubscribeLooks(th, t) PROVE SubscriberInv'
    <3>1. Subscribed'
      BY <2>3 DEF SubscribeLooks, Goes, ReadsTheFlag, tree, lists, Subscribed
    <3>2. SubscribedInTime'
      <4> SUFFICES ASSUME NEW x \in Threads, pc'[x] = "subscribe", ~seen'[x], at'[x] \in cancelled'
                   PROVE  IsSignalling(at[x])'
        BY DEF SubscribedInTime
      <4>1. pc[th] = "idle" /\ pc'[th] = "subscribe" /\ at'[th] = t /\ cancelled' = cancelled
        BY <2>3 DEF SubscribeLooks, Goes, lists, tree
      <4>2. \A y \in Threads \ {th} : pc'[y] = pc[y] /\ at'[y] = at[y] /\ seen'[y] = seen[y]
        BY <2>3 DEF SubscribeLooks, Goes, ReadsTheFlag
      <4>3. seen'[th] = (t \in cancelled)
        BY <2>3, Zenon DEF SubscribeLooks, ReadsTheFlag
      <4>4. x # th
        BY <4>1, <4>3
      <4>5. IsSignalling(at[x])
        BY <4>1, <4>2, <4>4 DEF SubscribedInTime
      <4> QED BY <4>1, <4>2, <4>4, <4>5
    <3>3. NoSubscriberIsMissed'
      BY <2>3 DEF SubscribeLooks, Goes, ReadsTheFlag, tree, lists, NoSubscriberIsMissed
    <3> QED BY <3>1, <3>2, <3>3
  <2>4. ASSUME NEW th \in Threads, NEW t \in Tokens, WaitFor(th, t) PROVE SubscriberInv'
    BY <2>4 DEF WaitFor, Goes, tree, lists, Subscribed, SubscribedInTime,
       NoSubscriberIsMissed
  <2>5. ASSUME NEW th \in Threads, Swap(th) PROVE SubscriberInv'
    BY <2>5 DEF Swap, Goes, AfterThis, tree, Subscribed, SubscribedInTime,
       NoSubscriberIsMissed
  <2>6. ASSUME NEW th \in Threads, NotifyAll(th) PROVE SubscriberInv'
    BY <2>6 DEF NotifyAll, IsDoing, tree, lists, Subscribed, SubscribedInTime,
       NoSubscriberIsMissed
  <2>7. ASSUME NEW th \in Threads, Drain(th) PROVE SubscriberInv'
    BY <2>7 DEF Drain, Goes, SubscribersAreLocked, IsDoing, tree, Subscribed,
       SubscribedInTime, NoSubscriberIsMissed
  <2>8. ASSUME NEW th \in Threads, Collect(th) PROVE SubscriberInv'
    BY <2>8 DEF Collect, Goes, AfterThis, Reachable, ChildrenAreLocked, IsDoing,
       tree, Subscribed, SubscribedInTime, NoSubscriberIsMissed
  <2>9. ASSUME NEW th \in Threads, ChildIsMade(th) PROVE SubscriberInv'
    BY <2>9 DEF ChildIsMade, Goes, Subscribed, SubscribedInTime, NoSubscriberIsMissed
  <2>10. ASSUME NEW th \in Threads, Subscribe(th) PROVE SubscriberInv'
    BY <2>10 DEF Subscribe, Goes, tree, Subscribed, SubscribedInTime,
       NoSubscriberIsMissed
  <2>11. ASSUME NEW th \in Threads, ChecksBeforeSleep(th) PROVE SubscriberInv'
    BY <2>11 DEF ChecksBeforeSleep, Goes, tree, lists, Subscribed, SubscribedInTime,
       NoSubscriberIsMissed
  <2>12. ASSUME NEW th \in Threads, FallsAsleep(th) PROVE SubscriberInv'
    BY <2>12 DEF FallsAsleep, Goes, tree, lists, Subscribed, SubscribedInTime,
       NoSubscriberIsMissed
  <2>13. ASSUME NEW th \in Threads, Unsubscribe(th) PROVE SubscriberInv'
    BY <2>13 DEF Unsubscribe, Goes, tree, Subscribed, SubscribedInTime,
       NoSubscriberIsMissed
  <2>14. ASSUME NEW th \in Threads, WakesByItself(th) PROVE SubscriberInv'
    BY <2>14 DEF WakesByItself, Goes, tree, lists, Subscribed, SubscribedInTime,
       NoSubscriberIsMissed
  <2>15. ASSUME NEW t \in Tokens, Dropped(t) PROVE SubscriberInv'
    BY <2>15 DEF Dropped, lists, thread, Subscribed, SubscribedInTime,
       NoSubscriberIsMissed
  <2>16. CASE UNCHANGED vars
    BY <2>16 DEF vars, tree, lists, thread, Subscribed, SubscribedInTime,
       NoSubscriberIsMissed
  <2> QED BY <2>1, <2>2, <2>3, <2>4, <2>5, <2>6, <2>7, <2>8, <2>9, <2>10, <2>11,
     <2>12, <2>13, <2>14, <2>15, <2>16 DEF Next, Starts, Continues
<1>3. SubscriberInv /\ TypeOK => NoSubscriberIsMissed
  BY DEF SubscriberInv, NoSubscriberIsMissed, Subscribed, SubscribedInTime,
     NoSubscriberIsMissed, TypeOK
<1> QED BY <1>1, <1>2, <1>3, TokensTyped, PTL DEF Spec

=============================================================================
