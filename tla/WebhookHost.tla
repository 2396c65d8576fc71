---------------------------- MODULE WebhookHost ----------------------------
(***************************************************************************)
(* Webhooks: the listener that takes requests (src/service/webhooks/       *)
(* listener.rs), the host that owes them answers (src/service/webhooks.rs)  *)
(* and the executor of its own it starts runs with (TriggerExecutor).      *)
(*                                                                         *)
(* Every connection is a task of the listener's thread; one step of a task  *)
(* is what it does between two waits.  The service thread calls the host    *)
(* once a round: reload or stop, poll, accept.  Routes, browser origins,    *)
(* rate limits, authentication and the body only decide what is refused     *)
(* without the host, which a connection may be for any reason.              *)
(***************************************************************************)
EXTENDS TriggerExecutor

CONSTANTS
  Requests,        \* numbered as their connections get a permit
  Targets,         \* what the requests may call: a script for each
  Waiting,         \* requests whose webhook waits for the response of its run
  MaxConnections,  \* max_webhook_connections
  MaxRestarts      \* bound: restarts of the listener

ASSUME WebhookHostAssumption ==
  /\ Requests \subseteq Nat /\ Targets \subseteq [Requests -> Scripts] /\ Waiting \subseteq Requests
  /\ MaxConnections \in Nat \ {0}
  /\ MaxRestarts \in Nat /\ Cardinality(Requests) <= MaxJobs

VARIABLES
  target,      \* the script whose webhook a request calls
  caller,      \* where the connection of a request is
  incoming,    \* the listener's channel
  response,    \* what was sent to a connection's response receiver
  pending,     \* the job a request waits for, 0 if it waits for none
  overdue,     \* pending requests whose deadline has passed
  turn,        \* what the service thread does next
  restarts

executorVars == <<policy, stage, counters, nextJobId, pendingJobs, queuedJobs,
                  localCompletions, threads, results, delivered>>
owed == <<pending, overdue>>
connections == <<target, caller>>
hostVars == <<executorVars, connections, incoming, response, owed, turn, restarts>>

NoResponse == "none"

\* Connections with a permit, for a gate whose permits went with the request.
Readers == {r \in Requests : caller[r] = "reading"}

\* A permit is kept until the connection is answered.
Authenticated == {r \in Requests : caller[r] \in {"reading", "waiting"}}

Moves(r, place) == caller' = [caller EXCEPT ![r] = place] /\ UNCHANGED target

-----------------------------------------------------------------------------
(* A connection.                                                           *)

\* Who is let in while there is a permit reads its body.  The listener is there
\* until the executor of a host that is dropped has stopped.
Enter(r) ==
  /\ stage \in {"open", "joining"} /\ caller[r] = "idle"
  /\ \A earlier \in Requests : earlier < r => caller[earlier] # "idle"
  /\ Cardinality(Authenticated) < MaxConnections
  /\ Moves(r, "reading")
  /\ UNCHANGED <<executorVars, incoming, response, owed, turn, restarts>>

ChannelHasRoom == Len(incoming) < MaxConnections

\* The request goes to the host.  It is refused if the body is, or the channel
\* is full.
Send(r) ==
  /\ caller[r] = "reading"
  /\ \/ Moves(r, "answered") /\ UNCHANGED incoming
     \/ ChannelHasRoom /\ Moves(r, "waiting") /\ incoming' = Append(incoming, r)
  /\ UNCHANGED <<executorVars, response, owed, turn, restarts>>

Respond(r) ==
  /\ caller[r] = "waiting" /\ response[r] # NoResponse
  /\ Moves(r, "answered")
  /\ UNCHANGED <<executorVars, incoming, response, owed, turn, restarts>>

\* The caller hangs up; what it sent stays where it is.
HangUp(r) ==
  /\ caller[r] = "waiting"
  /\ Moves(r, "gone")
  /\ UNCHANGED <<executorVars, incoming, response, owed, turn, restarts>>

-----------------------------------------------------------------------------
(* The host, in a round of the service thread.                             *)

Sends(r, answer) == response' = [response EXCEPT ![r] = answer]

\* The host takes the oldest request and submits its event.  A request that is
\* not accepted, or does not wait, has its answer at once.
AcceptRequest ==
  LET r == Head(incoming)
  IN  /\ stage = "open" /\ turn = "accept" /\ incoming # <<>>
      /\ incoming' = Tail(incoming)
      /\ \E broken \in Failures : SubmitTo(Collected(broken), target[r])
      /\ IF nextJobId' = nextJobId
         THEN Sends(r, "refused") /\ UNCHANGED pending
         ELSE IF r \in Waiting
              THEN pending' = [pending EXCEPT ![r] = nextJobId] /\ UNCHANGED response
              ELSE Sends(r, "fallback") /\ UNCHANGED pending
      /\ turn' = "reload"
      /\ UNCHANGED <<policy, stage, delivered, connections, overdue, restarts>>

NothingToAccept ==
  /\ stage = "open" /\ turn = "accept" /\ incoming = <<>>
  /\ turn' = "reload"
  /\ UNCHANGED <<executorVars, connections, incoming, response, owed, restarts>>

KeepGoing ==
  /\ stage = "open" /\ turn = "reload"
  /\ turn' = "poll"
  /\ UNCHANGED <<executorVars, connections, incoming, response, owed, restarts>>

Owed == {r \in Requests : pending[r] # 0}

\* Whoever waits longest.
FirstInLine(id) == {r \in Owed : \A q \in Owed : pending[r] <= pending[q]}

\* Whoever waits for the job.
OwedFor(id) == {r \in Owed : pending[r] = id}

Answered(rs, answer) ==
  /\ response' = [r \in Requests |-> IF r \in rs THEN answer ELSE response[r]]
  /\ pending'  = [r \in Requests |-> IF r \in rs THEN 0 ELSE pending[r]]
  /\ overdue'  = overdue \ rs

\* poll takes one completion after the other.
RecordCompletion ==
  /\ stage = "open" /\ turn = "poll"
  /\ \E broken \in Failures :
       LET c == Collected(broken)
       IN  /\ TakeFirst(c)
           /\ Answered(OwedFor(Head(c.completions).id),
                       IF Head(c.completions).outcome = "ran" THEN "result" ELSE "failed")
  /\ UNCHANGED <<policy, stage, nextJobId, connections, incoming, turn, restarts>>

NobodyExpires == {}
Expired == overdue

\* And when there are none left, answers for the runs that took too long.
ExpirePending ==
  /\ stage = "open" /\ turn = "poll"
  /\ \E broken \in Failures : TakeNone(Collected(broken))
  /\ Answered(Expired, "fallback")
  /\ turn' = "accept"
  /\ UNCHANGED <<policy, stage, nextJobId, connections, incoming, restarts>>

DeadlinePasses(r) ==
  /\ pending[r] # 0 /\ r \notin overdue
  /\ overdue' = overdue \cup {r}
  /\ UNCHANGED <<executorVars, connections, incoming, response, pending, turn, restarts>>

\* Its connections are cut, and the channel goes with what is in it.
CutConnections ==
  /\ caller' = [r \in Requests |-> IF r \in Authenticated THEN "gone" ELSE caller[r]]
  /\ incoming' = <<>>
  /\ UNCHANGED target

\* A new configuration takes a new listener; the host and its runs stay.
RestartListener ==
  /\ stage = "open" /\ turn = "reload" /\ restarts < MaxRestarts
  /\ restarts' = restarts + 1
  /\ CutConnections
  /\ turn' = "poll"
  /\ UNCHANGED <<executorVars, response, owed>>

\* The host is dropped: whoever waits for a run is answered, the executor is
\* shut down, and only then the listener is.
DropHost ==
  /\ turn = "reload"
  /\ Answered(Owed, "unavailable")
  /\ Shutdown
  /\ UNCHANGED <<connections, incoming, turn, restarts>>

ExecutorStopped ==
  /\ ShutdownReturns
  /\ CutConnections
  /\ UNCHANGED <<response, owed, turn, restarts>>

Finish(job) ==
  /\ WorkerFinishes(job)
  /\ UNCHANGED <<connections, incoming, response, owed, turn, restarts>>

-----------------------------------------------------------------------------
InitHost ==
  /\ Init /\ target \in Targets
  /\ caller = [r \in Requests |-> "idle"]
  /\ incoming = <<>>
  /\ response = [r \in Requests |-> NoResponse]
  /\ pending = [r \in Requests |-> 0] /\ overdue = {}
  /\ turn = "poll" /\ restarts = 0

Task(r) == Enter(r) \/ Send(r) \/ Respond(r) \/ HangUp(r)

Round == KeepGoing \/ RecordCompletion \/ ExpirePending \/ AcceptRequest \/ NothingToAccept

NextHost ==
  \/ \E r \in Requests : Task(r) \/ DeadlinePasses(r)
  \/ Round \/ RestartListener \/ DropHost \/ ExecutorStopped
  \/ \E job \in threads : Finish(job)

\* What the service thread does next, or waits for while it drops the host: runs
\* may go on for ever, but end when the executor cancels them.
Progress ==
  \/ Round \/ ExecutorStopped
  \/ stage = "joining" /\ \E job \in threads : Finish(job)

\* An answer that was sent is written, and time passes.
FairSpecHost ==
  /\ InitHost /\ [][NextHost]_hostVars
  /\ WF_hostVars(Progress)
  /\ WF_hostVars(\E r \in Requests : Respond(r))
  /\ WF_hostVars(\E r \in Requests : DeadlinePasses(r))

-----------------------------------------------------------------------------
(* A caller gets the result of its own run, at the moment that run's        *)
(* completion is taken, however many runs end, are dropped from the queue   *)
(* or never start in whichever order (record_completion).                   *)
ResultsAreTheirOwn ==
  [][\A r \in Requests : response[r] = NoResponse /\ response'[r] \in {"result", "failed"} =>
       delivered' = delivered \cup {pending[r]} /\ pending[r] \notin delivered]_hostVars

(* A caller that got as far as a permit finds room in the channel, unless   *)
(* callers that hung up left their requests in it: the gate and the channel *)
(* have the same size, and a permit is kept until the answer.               *)
OnlyTheGoneFillTheChannel ==
  (\E r \in Requests : caller[r] = "reading") /\ ~ChannelHasRoom =>
    \E i \in DOMAIN incoming : caller[incoming[i]] = "gone"

(* Whoever sent a request is answered or cut off in the end, even if its    *)
(* run never ends: once nobody comes any more, nobody is left waiting.      *)
EveryCallerIsAnswered ==
  (\E r \in Requests : caller[r] = "waiting") ~> (\A r \in Requests : caller[r] # "waiting")
=============================================================================
