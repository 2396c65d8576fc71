-------------------------- MODULE CancellationToken --------------------------
(***************************************************************************)
(* The token through which a run, an executor or the whole service is      *)
(* told to stop (crates/baudbound-runtime/src/runtime/cancellation.rs).     *)
(*                                                                         *)
(* Tokens form a tree.  A parent knows its children by weak references.     *)
(* Cancelling swaps an atomic flag first and then, one lock after the       *)
(* other, wakes the sleepers, signals the subscribers and goes on to the    *)
(* children; other threads make children, subscribe and wait meanwhile.     *)
(* A step is one atomic operation or one critical section; where the code   *)
(* reads the flag inside a critical section, that is a step of its own.     *)
(***************************************************************************)
EXTENDS Naturals, FiniteSets

CONSTANTS
  Tokens,     \* bound: every token that is ever made
  Root,       \* the token there is from the start
  Threads,
  NoToken

ASSUME CancellationTokenAssumption ==
  /\ IsFiniteSet(Tokens)
  /\ Root \in Tokens
  /\ NoToken \notin Tokens

VARIABLES
  made,         \* tokens made so far
  alive,        \* those somebody still holds
  parent,       \* the token a child was made from
  asked,        \* those whose cancel was called (history)
  cancelled,    \* the flag
  children,     \* the list of weak references
  subscribers,  \* the list of senders, by subscribing thread
  signalled,    \* threads whose channel has its message
  pc,           \* what a thread does
  at,           \* the token it does that with
  todo,         \* tokens its cancel_state has still to be called for
  seen          \* what it read of the flag inside a critical section

tree == <<made, alive, parent>>
lists == <<asked, cancelled, children, subscribers, signalled>>
thread == <<pc, at, todo, seen>>
vars == <<tree, lists, thread>>

Cancelling == {"flag", "notify", "drain", "collect"}
Waiting == {"checking", "dozing", "sleeping"}

TypeOK ==
  /\ made \subseteq Tokens
  /\ alive \subseteq made
  /\ parent \in [Tokens -> made \cup {NoToken}]
  /\ asked \subseteq made
  /\ cancelled \subseteq made
  /\ children \in [Tokens -> SUBSET made]
  /\ subscribers \in [Tokens -> SUBSET Threads]
  /\ signalled \subseteq Threads
  /\ pc \in [Threads -> Cancelling \cup Waiting \cup {"idle", "child", "subscribe", "subscribed"}]
  /\ at \in [Threads -> made \cup {NoToken}]
  /\ todo \in [Threads -> SUBSET made]
  /\ seen \in [Threads -> BOOLEAN]
  /\ \A th \in Threads :
       /\ pc[th] \notin {"idle", "flag"} => at[th] \in made
       /\ pc[th] \notin Cancelling => todo[th] = {}

-----------------------------------------------------------------------------

Goes(th, p, t) == pc' = [pc EXCEPT ![th] = p] /\ at' = [at EXCEPT ![th] = t]
IsDoing(th, p, t) == pc[th] = p /\ at[th] = t

\* Without a mutex around it, or around all of it.
Unlocked(t) == FALSE

\* The children and the subscribers of a token have a mutex each.
ChildrenAreLocked(t) == \E th \in Threads : IsDoing(th, "child", t)
SubscribersAreLocked(t) == \E th \in Threads : IsDoing(th, "subscribe", t)

ReadsNothing(th, t) == seen' = [seen EXCEPT ![th] = FALSE]
ReadsTheFlag(th, t) == seen' = [seen EXCEPT ![th] = t \in cancelled]

\* A strong reference: a thread that uses the token, or is about to cancel it.
IsHeld(t) == \E th \in Threads : (at[th] = t /\ pc[th] # "subscribed") \/ t \in todo[th]

-----------------------------------------------------------------------------
(* cancel and cancel_state *)

Cancel(th, t) ==
  /\ pc[th] = "idle"
  /\ t \in alive
  /\ Goes(th, "flag", NoToken)
  /\ todo' = [todo EXCEPT ![th] = {t}]
  /\ asked' = asked \cup {t}
  /\ UNCHANGED <<tree, cancelled, children, subscribers, signalled, seen>>

\* The caller is done when nothing is left to do.
AfterThis(th, left) ==
  /\ todo' = [todo EXCEPT ![th] = left]
  /\ Goes(th, IF left = {} THEN "idle" ELSE "flag", NoToken)

\* The thread that finds the flag up goes no further: another one did, or does.
Swap(th) ==
  /\ pc[th] = "flag"
  /\ \E t \in todo[th] :
       \/ /\ t \in cancelled
          /\ AfterThis(th, todo[th] \ {t})
          /\ UNCHANGED cancelled
       \/ /\ t \notin cancelled
          /\ cancelled' = cancelled \cup {t}
          /\ Goes(th, "notify", t)
          /\ todo' = [todo EXCEPT ![th] = @ \ {t}]
  /\ UNCHANGED <<tree, asked, children, subscribers, signalled, seen>>

\* Whoever sleeps on the condition variable looks at the flag again.
NotifyAll(th) ==
  /\ pc[th] = "notify"
  /\ pc' = [x \in Threads |->
       IF x = th THEN "drain"
       ELSE IF IsDoing(x, "sleeping", at[th]) THEN "checking" ELSE pc[x]]
  /\ UNCHANGED <<tree, lists, at, todo, seen>>

Drain(th) ==
  /\ pc[th] = "drain"
  /\ ~SubscribersAreLocked(at[th])
  /\ signalled' = signalled \cup subscribers[at[th]]
  /\ subscribers' = [subscribers EXCEPT ![at[th]] = {}]
  /\ Goes(th, "collect", at[th])
  /\ UNCHANGED <<tree, asked, cancelled, children, todo, seen>>

AllAlive(t) == alive
Reachable(t) == children[t] \cap alive

Collect(th) ==
  /\ pc[th] = "collect"
  /\ ~ChildrenAreLocked(at[th])
  /\ children' = [children EXCEPT ![at[th]] = @ \cap alive]
  /\ AfterThis(th, todo[th] \cup Reachable(at[th]))
  /\ UNCHANGED <<tree, asked, cancelled, subscribers, signalled, seen>>

-----------------------------------------------------------------------------
(* child_token *)

\* Bounded by the tokens there are.
ChildLooks(th, t) ==
  /\ pc[th] = "idle"
  /\ t \in alive
  /\ Cardinality({x \in Threads : pc[x] = "child"}) < Cardinality(Tokens \ made)
  /\ ~ChildrenAreLocked(t)
  /\ ReadsTheFlag(th, t)
  /\ children' = [children EXCEPT ![t] = @ \cap alive]
  /\ Goes(th, "child", t)
  /\ UNCHANGED <<tree, asked, cancelled, subscribers, signalled, todo>>

\* A child of a cancelled parent is cancelled before anybody else has it.
ChildIsMade(th) ==
  /\ pc[th] = "child"
  /\ \E c \in Tokens \ made :
       /\ made' = made \cup {c}
       /\ alive' = alive \cup {c}
       /\ parent' = [parent EXCEPT ![c] = at[th]]
       /\ IF seen[th]
          THEN cancelled' = cancelled \cup {c} /\ UNCHANGED children
          ELSE children' = [children EXCEPT ![at[th]] = @ \cup {c}] /\ UNCHANGED cancelled
  /\ Goes(th, "idle", NoToken)
  /\ UNCHANGED <<asked, subscribers, signalled, todo, seen>>

\* The last strong reference goes.
Dropped(t) ==
  /\ t \in alive
  /\ ~IsHeld(t)
  /\ alive' = alive \ {t}
  /\ UNCHANGED <<made, parent, lists, thread>>

-----------------------------------------------------------------------------
(* subscribe, and the drop of a subscription *)

SubscribeLooks(th, t) ==
  /\ pc[th] = "idle"
  /\ t \in alive
  /\ ~SubscribersAreLocked(t)
  /\ ReadsTheFlag(th, t)
  /\ Goes(th, "subscribe", t)
  /\ UNCHANGED <<tree, lists, todo>>

Subscribe(th) ==
  /\ pc[th] = "subscribe"
  /\ IF seen[th]
     THEN signalled' = signalled \cup {th} /\ UNCHANGED subscribers
     ELSE subscribers' = [subscribers EXCEPT ![at[th]] = @ \cup {th}] /\ UNCHANGED signalled
  /\ Goes(th, "subscribed", at[th])
  /\ UNCHANGED <<tree, asked, cancelled, children, todo, seen>>

\* A token that is gone needs no update.
Unsubscribe(th) ==
  /\ pc[th] = "subscribed"
  /\ at[th] \in alive => ~SubscribersAreLocked(at[th])
  /\ subscribers' = [subscribers EXCEPT ![at[th]] = IF at[th] \in alive THEN @ \ {th} ELSE @]
  /\ signalled' = signalled \ {th}
  /\ Goes(th, "idle", NoToken)
  /\ UNCHANGED <<tree, asked, cancelled, children, todo, seen>>

-----------------------------------------------------------------------------
(* wait_for.  Its lock is the waiters' own: whoever cancels does not take it. *)

WaitFor(th, t) ==
  /\ pc[th] = "idle"
  /\ t \in alive
  /\ t \notin cancelled
  /\ Goes(th, "checking", t)
  /\ UNCHANGED <<tree, lists, todo, seen>>

ChecksBeforeSleep(th) ==
  /\ pc[th] = "checking"
  /\ IF at[th] \in cancelled
     THEN Goes(th, "idle", NoToken) ELSE Goes(th, "dozing", at[th])
  /\ UNCHANGED <<tree, lists, todo, seen>>

FallsAsleep(th) ==
  /\ pc[th] = "dozing"
  /\ Goes(th, "sleeping", at[th])
  /\ UNCHANGED <<tree, lists, todo, seen>>

\* Its time is up, or it wakes for no reason.
WakesByItself(th) ==
  /\ pc[th] = "sleeping"
  /\ Goes(th, "idle", NoToken) \/ Goes(th, "checking", at[th])
  /\ UNCHANGED <<tree, lists, todo, seen>>

-----------------------------------------------------------------------------

Init ==
  /\ made = {Root}
  /\ alive = {Root}
  /\ parent = [t \in Tokens |-> NoToken]
  /\ asked = {}
  /\ cancelled = {}
  /\ children = [t \in Tokens |-> {}]
  /\ subscribers = [t \in Tokens |-> {}]
  /\ signalled = {}
  /\ pc = [th \in Threads |-> "idle"]
  /\ at = [th \in Threads |-> NoToken]
  /\ todo = [th \in Threads |-> {}]
  /\ seen = [th \in Threads |-> FALSE]

\* The steps a thread takes without being asked to.
Continues(th) ==
  \/ Swap(th) \/ NotifyAll(th) \/ Drain(th) \/ Collect(th)
  \/ ChildIsMade(th) \/ Subscribe(th)
  \/ ChecksBeforeSleep(th) \/ FallsAsleep(th)

Starts(th, t) ==
  \/ Cancel(th, t) \/ ChildLooks(th, t) \/ SubscribeLooks(th, t) \/ WaitFor(th, t)

Next ==
  \/ \E th \in Threads, t \in Tokens : Starts(th, t)
  \/ \E th \in Threads : Continues(th)
  \/ \E th \in Threads : Unsubscribe(th)
  \/ \E th \in Threads : WakesByItself(th)
  \/ \E t \in Tokens : Dropped(t)

Spec == Init /\ [][Next]_vars

\* Threads go on; a thread that asks for a mutex again and again gets it.
Fairness == \A th \in Threads : SF_vars(Continues(th))

FairSpec == Spec /\ Fairness

-----------------------------------------------------------------------------
(* Properties. *)

\* A thread that has put the flag up and has yet to reach the children.
IsReaching(t) ==
  \E th \in Threads : at[th] = t /\ pc[th] \in {"notify", "drain", "collect"}

NobodyCancels == \A th \in Threads : pc[th] \notin Cancelling

(* No child is missed: once nobody is busy cancelling, every token in use   *)
(* whose parent is cancelled is cancelled, however making children and       *)
(* cancelling interleaved (child_token, lines 38-52, reads the flag while   *)
(* it holds the list that cancel_state, lines 143-154, must then wait for). *)
NoChildIsMissed ==
  NobodyCancels =>
    \A c \in alive : parent[c] \in cancelled => c \in cancelled

(* No subscriber is missed: once the thread that put the flag up has         *)
(* drained the list, every subscription to the token has its message         *)
(* (subscribe, lines 85-94, against cancel_state, lines 134-142).            *)
NoSubscriberIsMissed ==
  \A th \in Threads :
    pc[th] = "subscribed" /\ at[th] \in alive \cap cancelled =>
      \/ th \in signalled
      \/ \E x \in Threads : at[x] = at[th] /\ pc[x] \in {"notify", "drain"}

(* Cancelling is isolated: a token is only ever cancelled because somebody   *)
(* asked for it or its parent is (runtime tests, cancellation.rs line 160). *)
CancellingIsIsolated ==
  \A t \in cancelled : t \in asked \/ parent[t] \in cancelled

(* Cancelling reaches the children of every cancelled token, in the end,    *)
(* and so on downwards as far as parents live: a token below a dropped one  *)
(* is out of reach (cancel_state, lines 143-157).                           *)
EveryChildIsReached ==
  \A c \in Tokens :
    (c \in alive /\ parent[c] \in cancelled) ~> (c \in cancelled \/ c \notin alive)

=============================================================================
