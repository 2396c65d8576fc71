--------------------------- MODULE TriggerExecutor ---------------------------
(***************************************************************************)
(* The executor that turns trigger events into runs                        *)
(* (src/service/executor.rs).                                              *)
(*                                                                         *)
(* One service thread owns the executor: it submits events, starts a        *)
(* worker thread for each event its policy has room for, keeps the others   *)
(* in one queue, and takes the completions the workers send.  A handler of  *)
(* the service thread is one step; the workers finish in between.           *)
(***************************************************************************)
EXTENDS Integers, Sequences, FiniteSets

CONSTANTS
  Scripts,
  Policies,         \* admission policies the executor may be built with
  Unlimited,        \* ResourceLimit::Unlimited
  MaxJobs,          \* bound: how many events are submitted
  DebugAssertions   \* whether the build evaluates debug_assert!

Limits == (Nat \ {0}) \cup {Unlimited}

TriggerExecutionPolicy ==
  [max_active_global : Limits, max_active_per_script : Limits,
   max_queued_per_script : Limits, overflow_strategy : {"RejectNewest", "DropOldest"}]

ASSUME TriggerExecutorAssumption ==
  /\ Unlimited \notin Nat
  /\ Policies \subseteq TriggerExecutionPolicy
  /\ MaxJobs \in Nat
  /\ DebugAssertions \in BOOLEAN

VARIABLES
  policy,           \* a snapshot taken when the executor is built
  stage,            \* "open", "joining" in shutdown, "closed"
  accepting,
  activeTotal,
  activeByScript,
  nextJobId,
  pendingJobs,
  queuedJobs,
  queuedByScript,
  localCompletions, \* completions the service thread has not taken yet
  workers,          \* ids of the jobs whose thread handle is kept
  threads,          \* jobs whose worker thread has not sent its completion
  results,          \* the channel of completions
  delivered         \* ids of the jobs whose completion was taken

counters == <<activeTotal, activeByScript, queuedByScript, workers, accepting>>
vars == <<policy, stage, counters, nextJobId, pendingJobs, queuedJobs,
          localCompletions, threads, results, delivered>>

-----------------------------------------------------------------------------
(* The policy. *)

PermitsNext(limit, n) == limit # Unlimited => n + 1 <= limit

HasActiveCapacity(total, ofScript) ==
  /\ PermitsNext(policy.max_active_global, total)
  /\ PermitsNext(policy.max_active_per_script, ofScript)

Saturating(n, m) == IF n < m THEN 0 ELSE n - m

-----------------------------------------------------------------------------
(* Collecting completions and starting queued jobs, which every handler of  *)
(* the service thread does first.                                           *)

Ids(jobs) == {jobs[i].id : i \in DOMAIN jobs}
Count(jobs, s) == Cardinality({i \in DOMAIN jobs : jobs[i].script = s})
CountAt(S, s) == Cardinality({i \in S : queuedJobs[i].script = s})
Kept(jobs, ids) == {i \in DOMAIN jobs : jobs[i].id \notin ids}

\* The others, in their order: the k-th of them has k of them up to its place.
Without(jobs, ids) ==
  [k \in 1 .. Cardinality(Kept(jobs, ids)) |->
     jobs[CHOOSE i \in Kept(jobs, ids) : Cardinality({j \in Kept(jobs, ids) : j <= i}) = k]]

Completion(job, outcome) == [id |-> job.id, script |-> job.script, outcome |-> outcome]

Refused(jobs, outcome) == [i \in DOMAIN jobs |-> Completion(jobs[i], outcome)]

\* What finish_worker leaves of the counters once the channel is drained.
DrainedTotal == Saturating(activeTotal, Len(results))
Drained(s) == Saturating(activeByScript[s], Count(results, s))

StartingUndrained(n) ==
  {i \in 1 .. n : HasActiveCapacity(activeTotal, activeByScript[queuedJobs[i].script])}

StartingFromTheTail(n) ==
  LET fits == {i \in 1 .. n : HasActiveCapacity(DrainedTotal, Drained(queuedJobs[i].script))}
  IN {i \in fits : \A j \in fits : j <= i}

\* Of the first places of the queue those whose jobs are started: each job the
\* policy has room for next to those started before it.
Starting(n) ==
  CHOOSE S \in SUBSET (1 .. n) : \A i \in 1 .. n :
    LET before == {j \in S : j < i}
        s == queuedJobs[i].script
    IN i \in S <=> HasActiveCapacity(DrainedTotal + Cardinality(before), Drained(s) + CountAt(before, s))

\* Nowhere, or the place of the job whose thread the system refuses.
Failures == {0} \cup Starting(Len(queuedJobs))

FailOnlyTheFirst(broken, left) == <<queuedJobs[broken]>>

\* That job fails first, then every job still queued.
Failed(broken, left) == <<queuedJobs[broken]>> \o Without(left, {queuedJobs[broken].id})

Collected(broken) ==
  LET starts == {i \in Starting(Len(queuedJobs)) : broken = 0 \/ i < broken}
      started == {queuedJobs[i] : i \in starts}
      left == Without(queuedJobs, {job.id : job \in started})
  IN [accepting |-> accepting /\ broken = 0,
      total |-> DrainedTotal + Cardinality(starts),
      byScript |-> [s \in Scripts |-> Drained(s) + CountAt(starts, s)],
      queue |-> IF broken = 0 THEN left ELSE <<>>,
      queued |-> [s \in Scripts |-> IF broken = 0
                                    THEN Saturating(queuedByScript[s], CountAt(starts, s)) ELSE 0],
      completions |-> localCompletions \o results
                        \o (IF broken = 0 THEN <<>> ELSE Refused(Failed(broken, left), "not started")),
      started |-> started]

\* The handle of a new thread is stored inside a debug_assert!.
Recorded(jobs) == IF DebugAssertions THEN {job.id : job \in jobs} ELSE {}

Becomes(c) ==
  /\ accepting' = c.accepting
  /\ activeTotal' = c.total
  /\ activeByScript' = c.byScript
  /\ queuedJobs' = c.queue
  /\ queuedByScript' = c.queued
  /\ localCompletions' = c.completions
  /\ threads' = threads \cup c.started
  /\ workers' = (workers \ Ids(results)) \cup Recorded(c.started)
  /\ results' = <<>>

-----------------------------------------------------------------------------
(* The handlers of the service thread. *)

\* Not accepting, no thread to be had, or no room in the queue.
Reject(c) ==
  /\ Becomes(c)
  /\ UNCHANGED <<nextJobId, pendingJobs>>

Accept(c) ==
  /\ Becomes(c)
  /\ nextJobId' = nextJobId + 1
  /\ pendingJobs' = pendingJobs + 1

Starts(c, job) ==
  [c EXCEPT !.total = @ + 1, !.byScript[job.script] = @ + 1, !.started = @ \cup {job}]

Queued(c, job) ==
  [c EXCEPT !.queue = Append(@, job), !.queued[job.script] = @ + 1]

Oldest(c, s) ==
  c.queue[CHOOSE i \in DOMAIN c.queue :
            c.queue[i].script = s /\ \A j \in DOMAIN c.queue : c.queue[j].script = s => i <= j]

WithoutOldest(c, s) ==
  [c EXCEPT !.queue = Without(@, {Oldest(c, s).id}),
            !.queued[s] = Saturating(@, 1),
            !.completions = Append(@, Completion(Oldest(c, s), "superseded"))]

SubmitTo(c, s) ==
  LET job == [id |-> nextJobId, script |-> s]
      hasRoom == HasActiveCapacity(c.total, c.byScript[s])
      isFull == ~PermitsNext(policy.max_queued_per_script, c.queued[s])
  IN \/ (~c.accepting \/ hasRoom) /\ Reject(c)
     \/ c.accepting /\ hasRoom /\ Accept(Starts(c, job))
     \/ /\ c.accepting /\ ~hasRoom /\ isFull
        /\ policy.overflow_strategy = "RejectNewest"
        /\ Reject(c)
     \/ /\ c.accepting /\ ~hasRoom /\ isFull
        /\ policy.overflow_strategy = "DropOldest"
        /\ Accept(Queued(WithoutOldest(c, s), job))
     \/ c.accepting /\ ~hasRoom /\ ~isFull /\ Accept(Queued(c, job))

Submit(s) ==
  /\ stage = "open"
  /\ nextJobId <= MaxJobs
  /\ \E broken \in Failures : SubmitTo(Collected(broken), s)
  /\ UNCHANGED <<policy, stage, delivered>>

TakeNone(c) ==
  c.completions = <<>> /\ Becomes(c) /\ UNCHANGED <<pendingJobs, delivered>>

TakeFirst(c) ==
  /\ c.completions # <<>>
  /\ Becomes([c EXCEPT !.completions = Tail(@)])
  /\ delivered' = delivered \cup {Head(c.completions).id}
  /\ pendingJobs' = Saturating(pendingJobs, 1)

Take(c) == TakeNone(c) \/ TakeFirst(c)

TryCompletion ==
  /\ stage = "open"
  /\ \E broken \in Failures : Take(Collected(broken))
  /\ UNCHANGED <<policy, stage, nextJobId>>

\* The run returns, fails or panics; its thread sends the completion.
WorkerFinishes(job) ==
  /\ job \in threads
  /\ threads' = threads \ {job}
  /\ results' = Append(results, Completion(job, "ran"))
  /\ UNCHANGED <<policy, stage, counters, nextJobId, pendingJobs, queuedJobs,
                 localCompletions, delivered>>

\* Shutdown cancels the runs and joins the threads whose handles it has.
Shutdown ==
  /\ stage = "open"
  /\ stage' = "joining"
  /\ accepting' = FALSE
  /\ queuedJobs' = <<>>
  /\ queuedByScript' = [s \in Scripts |-> 0]
  /\ UNCHANGED <<policy, activeTotal, activeByScript, nextJobId, pendingJobs, localCompletions,
                 workers, threads, results, delivered>>

ShutdownReturns ==
  /\ stage = "joining"
  /\ \A job \in threads : job.id \notin workers
  /\ stage' = "closed"
  /\ workers' = {}
  /\ activeTotal' = 0
  /\ activeByScript' = [s \in Scripts |-> 0]
  /\ pendingJobs' = 0
  /\ UNCHANGED <<policy, accepting, nextJobId, queuedJobs, queuedByScript, localCompletions,
                 threads, results, delivered>>

-----------------------------------------------------------------------------

Init ==
  /\ policy \in Policies
  /\ stage = "open"
  /\ accepting = TRUE
  /\ activeTotal = 0
  /\ activeByScript = [s \in Scripts |-> 0]
  /\ nextJobId = 1
  /\ pendingJobs = 0
  /\ queuedJobs = <<>>
  /\ queuedByScript = [s \in Scripts |-> 0]
  /\ localCompletions = <<>>
  /\ workers = {}
  /\ threads = {}
  /\ results = <<>>
  /\ delivered = {}

Next ==
  \/ \E s \in Scripts : Submit(s)
  \/ TryCompletion
  \/ \E job \in threads : WorkerFinishes(job)
  \/ Shutdown
  \/ ShutdownReturns

Spec == Init /\ [][Next]_vars

-----------------------------------------------------------------------------
(* Properties. *)

Threads(s) == {job \in threads : job.script = s}

(* While the executor is open, every accepted event is in exactly one place *)
(* and none is lost: queued, running, in the channel, waiting to be taken   *)
(* or taken; has_pending counts those not taken yet.  This must hold when a *)
(* thread cannot be spawned and when a newer event drops an older one       *)
(* (try_submit_from, schedule_queued_jobs, fail_all_queued_jobs).           *)
EveryJobAccountedFor ==
  stage = "open" =>
    LET places == <<Ids(queuedJobs), {job.id : job \in threads}, Ids(results),
                    Ids(localCompletions), delivered>>
    IN /\ UNION {places[i] : i \in 1 .. 5} = 1 .. nextJobId - 1
       /\ \A i, j \in 1 .. 5 : i # j => places[i] \cap places[j] = {}
       /\ Cardinality(Ids(queuedJobs)) = Len(queuedJobs)
       /\ Cardinality(Ids(results)) = Len(results)
       /\ Cardinality(Ids(localCompletions)) = Len(localCompletions)
       /\ pendingJobs = nextJobId - 1 - Cardinality(delivered)

(* No job is left in the queue that a handler could have started: the       *)
(* service thread never goes to sleep with room for queued work             *)
(* (schedule_queued_jobs).                                                  *)
NothingStartableIsQueued ==
  \A i \in DOMAIN queuedJobs :
    ~HasActiveCapacity(activeTotal, activeByScript[queuedJobs[i].script])

(* Events of one script start in the order they were submitted: no job of a *)
(* script starts, in whichever handler, while an older one stays queued.    *)
StartsInOrder ==
  [][\A job \in threads' \ threads : \A i \in DOMAIN queuedJobs' :
       queuedJobs'[i].script = job.script => job.id < queuedJobs'[i].id]_vars

(* When shutdown returns no run of this executor is still going (lines      *)
(* 403-424; executor_tests.rs, shutdown_waits_until_execution_workers_have_ *)
(* exited).                                                                 *)
NoRunOutlivesShutdown == stage = "closed" => threads = {}

=============================================================================
