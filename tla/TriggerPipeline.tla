--------------------------- MODULE TriggerPipeline ---------------------------
(***************************************************************************)
(* From a trigger event to the run it asks for: the executor of the         *)
(* service (src/service/executor.rs) in front of the runner core            *)
(* (InstalledRuns), each with the limits of the same configuration.         *)
(*                                                                         *)
(* The executor starts a thread for an event it has room for and keeps the  *)
(* others in its own queue; what a stop or a restart asks for is decided    *)
(* only in that thread, by the core.                                        *)
(***************************************************************************)
EXTENDS InstalledRuns

VARIABLES
  limits,       \* the executor's copy of the limits it was built with
  backlog,      \* its queued jobs
  workers       \* calls that run in its threads

pipelineVars == <<limits, backlog, workers>>

-----------------------------------------------------------------------------

WorkersOf(s) == {a \in workers : script[a] = s}
Backlog(s) == {i \in DOMAIN backlog : backlog[i].script = s}

ExecutorHasRoomIgnoringTheNewJob(s) ==
  /\ Allows(limits.max_active_runs_global, Cardinality(workers))
  /\ Allows(limits.max_active_runs_per_script, Cardinality(WorkersOf(s)))

ExecutorHasRoom(s) ==
  /\ Allows(limits.max_active_runs_global, Cardinality(workers) + 1)
  /\ Allows(limits.max_active_runs_per_script, Cardinality(WorkersOf(s)) + 1)

BacklogIsFull(s) ==
  ~Allows(limits.max_queued_activations_per_script, Cardinality(Backlog(s)) + 1)

BacklogWithout(i) ==
  [j \in 1 .. Len(backlog) - 1 |-> IF j < i THEN backlog[j] ELSE backlog[j + 1]]

\* The worker thread calls the core, which may refuse the event at once.
StartWorker(s, e) ==
  \/ \E a \in Activations : Begin(a, s, e) /\ workers' = workers \cup {a}
  \/ ~MayRun(s) /\ UNCHANGED <<workers, vars>>

\* A trigger fires.
Submit(s, e) ==
  /\ UNCHANGED limits
  /\ \/ ExecutorHasRoom(s) /\ StartWorker(s, e) /\ UNCHANGED backlog
     \/ /\ ~ExecutorHasRoom(s)
        /\ ~BacklogIsFull(s)
        /\ backlog' = Append(backlog, [script |-> s, event |-> e])
        /\ UNCHANGED <<workers, vars>>
     \/ /\ ~ExecutorHasRoom(s)
        /\ BacklogIsFull(s)
        /\ limits.queue_overflow_strategy = "DropOldest"
        /\ \E i \in Backlog(s) :
             /\ \A j \in Backlog(s) : i <= j
             /\ backlog' = Append(BacklogWithout(i), [script |-> s, event |-> e])
        /\ UNCHANGED <<workers, vars>>

\* The service thread starts the oldest job it has room for.
StartQueued ==
  /\ \E i \in DOMAIN backlog :
       /\ ExecutorHasRoom(backlog[i].script)
       /\ \A j \in 1 .. i - 1 : ~ExecutorHasRoom(backlog[j].script)
       /\ StartWorker(backlog[i].script, backlog[i].event)
       /\ backlog' = BacklogWithout(i)
  /\ UNCHANGED limits

\* A worker whose call has returned is collected.
Collects ==
  /\ workers' = {a \in workers : stage'[a] # "idle"}
  /\ UNCHANGED <<limits, backlog>>

\* A run asked for by hand does not pass through the executor.
RunByHand(a, s) ==
  /\ Begin(a, s, "Manual")
  /\ UNCHANGED pipelineVars

-----------------------------------------------------------------------------

InitPipeline ==
  /\ Init
  /\ limits = policy
  /\ backlog = <<>>
  /\ workers = {}

NextPipeline ==
  \/ \E s \in Scripts, e \in Events \cap Overlaps : Submit(s, e)
  \/ StartQueued
  \/ \E a \in Activations, s \in Scripts : RunByHand(a, s)
  \/ \E p, a \in Activations, s \in Scripts : BeginNested(p, a, s) /\ Collects
  \/ \E a \in Activations : Step(a) /\ Collects
  \/ \E a \in Activations : Complete(a) /\ Collects
  \/ \E a \in Activations : Abort(a) /\ Collects
  \/ \E a \in Activations : Cancel(a) /\ Collects
  \/ Others /\ Collects

SpecPipeline == InitPipeline /\ [][NextPipeline]_<<vars, pipelineVars>>

-----------------------------------------------------------------------------
(* Properties. *)

(* An event does not queue twice: once its job has a thread, it waits for a *)
(* permit only on account of runs the executor does not know of, by hand or *)
(* nested, as long as the limits are those the executor was built with.     *)
NoSecondQueue ==
  policy = limits =>
    \A a \in workers :
      stage[a] = "queueing" /\ ~HasRoom(script[a]) => ~(Holders \subseteq workers)

=============================================================================
