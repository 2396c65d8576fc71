# A verification of the BaudBound runner

The BaudBound runner executes visual scripts on a desktop or a server: triggers (schedules, hotkeys, webhooks, files,
serial ports, ...) become events, events become runs of installed scripts, runs perform actions and call other scripts.
This directory holds TLA+ models of the parts that decide *which run happens when*, *what it runs and with which data*, and
*who is told to stop*, TLC configurations that check them on small instances, and TLAPS proofs for instances of any size. Paths
below are relative to the repository; `core`, `runtime`, ... stand for `crates/baudbound-core/src`,
`crates/baudbound-runtime/src`, ...

`PROJECT.json` has the index: components, runs, the lines each definition models, findings, hazards and theorems.

## The system

| Component | State | Operations | Talks to | What is hard | What makes it correct |
|---|---|---|---|---|---|
| Execution queue, `core/execution_queue.rs` | permits out (total, per script), who waits for whom, a FIFO queue per script, the policy | acquire, acquire_nested, the wait loop, drop of a permit, update_policy | every thread that runs a script | threads of many callers, a policy that changes under them, waiters that are dropped by others, nested waits | limits kept, first come first served, nothing leaked, no cyclic wait, every wait ends |
| Trigger executor, `src/service/executor.rs` | queued jobs, counters, worker threads, a channel of completions, local completions | submit, try_completion, shutdown | the service loop calls it; its threads call the core | completions are only seen when asked for; threads that cannot be spawned; full queues; shutdown among running threads | each accepted event is in one place, started in turn, answered once |
| Webhook host, `src/service/webhooks.rs`, `webhooks/listener.rs` | connections, a bounded channel, responses owed, deadlines | accept, poll, expire, restart, drop | listener tasks, an executor of its own | late answers, timeouts, callers that hang up, a restart with requests open | every request answered once, with its own result or none |
| Runner core, `core/lib.rs`, `core/sub_script.rs`, `core/active_runs.rs` | runs in flight with their tokens | run_installed_with_trigger_in_stack with an overlap option, nested calls, cancel_script | queue, store, blacklist, interpreter | everything it looked at may change while it waits | no script inside itself, nothing disabled starts, stops take effect |
| Cancellation tokens, `runtime/runtime/cancellation.rs` | a flag, sleepers, subscribers and weak children per token | cancel, child_token, subscribe, wait_for | service, executor, core, interpreter, actions | a lock-free flag next to three locks | everyone below is reached, nobody else |
| Interpreter, `runtime/execution/` | a stack of frames, step and loop budgets, a clock | walk of the graph | actions, nested calls, variables | loops in branches in loops, break and continue, a clock that races a stop | nodes visited as the structured program says, budgets exact, a stop ends it |
| Variables, `storage/sqlite/scoped_variables.rs`, `runtime/execution/variable_operations.rs` | rows with versions, the copies of runs | load, compare and set with retries, conditions, reset | runs of several scripts | lost updates, stale copies | updates atomic, decisions on what is stored |
| Script store, `storage/sqlite/mod.rs`, `core/lib.rs` | rows, package files, approvals, the reload signal | import, update, remove, approve, revoke, enable | desktop and command line, as processes; runs; the service | a file and a row are two steps; transactions on old snapshots; crashes in between | only what was approved runs |
| Service loop, `src/service/runtime.rs`, `triggers.rs`, `preflight.rs` | the registrations its triggers were built from | reload on request or in time, dispatch, stop | all of the above | scripts change during the passes over them | no change forgotten |
| Blacklist, `src/blacklist.rs`, `src/blacklist/` | entries, active runs, a cache file | refresh with enforcement, checks | backend; store, core and queue | no lock around a look and what follows it; enforcement that breaks off | restricted scripts end disabled, critical runs end cancelled |
| Desktop runner, `src/desktop_ui/background.rs`, `config.rs`, `dashboard.rs`, `secret_vault.rs` | a thread handle, a shutdown flag, a snapshot, the configuration in three places | start, stop, stop_and_wait, save with rollback, reload, switch of the vault | service loop | steps that fail half-way, steps back that fail, a thread that hangs | one runner at most, saves all or nothing, nothing serves under a change |

Other parts (trigger sources, actions, packages, security policy, repositories and updates, history, interface, command line)
are listed in `PROJECT.json` with the reason they are left out.

## Modules

    Admission <-- implemented by -- ExecutionQueue          TriggerExecutor          CancellationToken
        ^                                                         ^
        | EXTENDS                                                 | EXTENDS
    InstalledRuns <-- TriggerPipeline                        WebhookHost             Variables

    ScriptStore <-- ApprovedRuns         Interpreter --compared with--> StructuredProgram
        ^
        | EXTENDS
    ScriptService <-- Blacklist                                                      DesktopRunner

`...Proofs` modules hold the theorems of the module they are named after (`WebhookHostProofs` those of `TriggerExecutor` too,
`TriggerPipelineProofs` those of `InstalledRuns`, `ScriptStoreProofs` those of `ApprovedRuns` and `Blacklist`), `MC...` modules the constants of TLC's instances,
each `.cfg` file one run.

### ExecutionQueue and Admission

One step of `ExecutionQueue` is one critical section of the queue's mutex. `Acquire` and `AcquireNested` are everything
`acquire_internal` does before it sleeps for the first time: the refusal of a cyclic nested wait, the recording of the
dependency, the overflow of the queue, the join, and the first pass of the wait loop. `Poll` is a further pass: first
superseded, then rejected, then cancelled, then admitted if at the head and within the limits. The condition variable only
shortens a poll of 50 ms, so a waiter may poll at any time. `Release` is the permit's `Drop`; the counters are decremented as the
code does it, saturating. Around the queue, `Cancel`, `ChangeBlacklist` and `UpdatePolicy` change what it reads.
Activations stand for concurrent calls and are reused.

`Admission` is what the queue promises and no more: a line per script, who holds a permit, entry only from the head of a
line and only with room. It knows nothing of dependencies, supersession flags, threads or counters. `ImplementsAdmission` is the
refinement (`line <- waiting`, holders from the phases).

### TriggerExecutor and WebhookHost

`Submit` is `submit` with the collection of completions before it and the three outcomes start, queue, refuse, including
the drop of the oldest job of the same script and a thread that cannot be spawned. `TryCompletion` is `try_completion`: collect,
schedule, hand out one. `WorkerFinishes` is the end of a thread; `Shutdown` and `ShutdownReturns` the two halves of
`shutdown`. `DebugAssertions` says whether the build evaluates `debug_assert!`, since the code stores the thread handle inside
one. `MaxJobs` bounds how many events are submitted.

`WebhookHost` composes an executor with the listener in front of it. A connection gets one of `MaxConnections` permits, sends its
request into a channel of the same length, and waits for its response or hangs up; the service thread accepts, polls (each
completion goes to the request whose job it is; overdue requests are answered with a timeout), restarts the listener or drops
the host, whose fields go one after another. The numbers of requests stand for the order of permits.

### InstalledRuns and TriggerPipeline

`InstalledRuns` follows one call of the core through its stages: the first checks and the call stack (`Begin`,
`BeginNested`), the overlap decision (`Decide`) and its effect (`Skip`, `Stop`, `Restart`), the wait for a permit
(`Ask`, `Admitted`, `Withdraw`, `Superseded`; `Refuse`, `Rejected` and `Panic` for the error path), the second checks (`Check`),
the run as the tracker and the blacklist see it (`Start`, `Complete`, `Abort`), the record (`Finish`). A run is opaque: it calls other
scripts, ends, or notices its cancellation. The queue is `Admission`: what the queue promises is all the core relies on.
What is said of stops (`StopsTakeEffect`) is said here, of stops that have reached the core, where they ask for no permit; the
executor in front of it keeps them back (see *What the models found*).

`TriggerPipeline` puts an executor in front of it. The executor's own accounting is `TriggerExecutor`'s business; here a job
has a worker, or waits in the backlog, and the limits are the copy the executor was built with.

### CancellationToken

One step is one atomic operation or one critical section; where the code reads the flag *inside* a critical section (lines
46 and 90) that is two steps with the mutex held in between, because the flag is raised without it. A cancelling thread
swaps the flag, notifies sleepers, drains the subscribers, collects the children and goes on with them (`todo`). Tokens are
reference counted: `Dropped` lets one go that no thread uses, and parents then no longer reach it.

### Interpreter and StructuredProgram

A program is a graph: kinds of nodes, edges from outputs to inputs with an order. `Interpreter` is the runtime's loop: pop a
frame, look at the token, count the step, perform the node, push the frames of the output it leaves through; loop frames
count iterations; break and continue cut the stack. Every decision a script's data takes (a condition, the output of an action, the
length of a list) is a choice. The clock is a thread of its own that sets its flag and then cancels.

`StructuredProgram` says what a program means without frames: recursive definitions for a node, for what follows an output,
for a loop, with a signal for break and continue. It is given the decisions a run took and tells which nodes are visited, in
which order.

### Variables

One step of a run is one statement of SQLite: the load of declared variables (select, insert of the default, reload, load again
after a lost insert), the read of an operation, its compare and set, a condition that reads the row again. Losing a compare and
set leads back to the read; `MaxAttempts` is `MAX_COMPARE_AND_SET_ATTEMPTS`. Versions stop at their maximum
(`VersionExhausted`). `ResetStoredVariables` deletes the rows with their versions at any moment.

### ScriptStore, ApprovedRuns, ScriptService and Blacklist

Clients are processes. A client's operation is a sequence of steps, each one statement, one transaction or one replaced file:
an import copies and inserts; an update reads inside a transaction, copies over the old file, takes the write lock (refused if
somebody committed since its first read), removes a renamed file, commits; a removal deletes the row, then the file, then asks for
a reload. `Interrupted` is a crash or an error between any two. `lost` records what such an interruption may spoil, `consent` what
somebody approved.

Names are not files. The code keeps the case of the name a package came with (`filesystem.rs` 26-49) and compares names as they
are spelt, in SQLite (`mod.rs` 409-435) and as paths (526-529); which file a name denotes is up to the file system. `FileOf` says
so, `Free` and `RenamesFile` compare names, everything that is read, written or removed goes through `FileOf`. `disturbed` holds the
files that need not be what a row says: those whose last install or removal broke off, was overtaken by a commit or met another operation on the
same file, or which an installed row has under another name. It is kept file by file, and an install that begins and is left
alone takes its file off it: what one file suffered excuses no other, and not the same one after its next update.

`ApprovedRuns` adds a run between its trigger and its first action (find, load and compare the hash, look at the approval),
`ScriptService` the service that reloads: it consumes the request, passes over the enabled scripts twice, loading one
after the other, and replaces its registrations; any failure ends it. `Blacklist` adds the worker that fetches the official
list, enforces it under the write lock script by script and cancels critical runs, and a run that looks at the list a moment
before it registers.

### DesktopRunner

Commands hold the operation lock, so there is at most one `job`; a start, a stop, a wait and a save are sequences of
its steps. The runner's thread (`Serves`, ended, reported, finished) and the dashboard, which loads the file without the
lock, run beside them. A save stops the runner, writes the file, the start at login and the application, starts the runner
again, and on a failure goes the same way back; each step in either direction may fail. The snapshot says what the code tells the
user: "running" comes before the thread exists, "stopped" before it is finished.

## Runs

| Run | Instance | Shows |
|---|---|---|
| `queue_policies` | 2 scripts, 4 activations, three policies that replace each other: (global 2, one per script, queue 1, reject), (no global limit, two per script, queue 2, drop oldest), (no global limit, one per script, queue 2, reject) | types, exact counters, queues that hold the waiters, no cycle of nested waits, somebody can always move without a global limit, no overtaking, refinement of `Admission` |
| `queue_liveness` | 2 scripts, 3 activations, no global limit, changing queue length and strategy | every wait ends |
| `executor_release` (violated) | 2 scripts, 2 jobs, four policies, release build | shutdown leaves runs behind |
| `webhook_requests` | 3 requests for 1 or 2 scripts, 2 connections, 1 restart, three policies, debug build | each event in one place, nothing startable left queued, jobs of a script start in order, results reach their own caller, every caller is answered, the channel is full only of requests whose callers are gone |
| `pipeline_safety` | 2 scripts, 3 activations, global limit 2, unreadable packages, blacklist refreshes, enabling and disabling | no recursion, nothing disabled starts, no second queue |
| `core_stops` | 2 scripts, 2 activations, one run of a script at a time (the default) or any number, changed meanwhile | stops that have reached the core and cancellations take effect |
| `cancellation_tree` | 3 tokens, 2 threads | children and subscribers are reached, nobody else is |
| `interpreter_graphs` | every wiring of three nodes of four mixes of kinds (loops, branches, break, continue, a failing action), 7 steps and 4 iterations, and programs for endless loops, responses, routers and malformed nodes | frames do what the structured program means, budgets are exact, a run out of time is not reported as stopped, a cancelled run ends |
| `variables_runs` | 2 runs that share a variable, 2 operations each, 2 attempts, versions up to 3, 1 reset | no lost update, giving up only when overtaken, conditions see what is stored |
| `store_runs` | 2 clients, 2 scripts, 3 packages, 3 names for 2 files, 4 operations, 1 interruption, a run | files match rows unless something named happened to the same file, and again after its next install; only approved packages start |
| `store_service` | 1 client, 1 script, 2 packages, 3 operations, 1 interruption, the service, the blacklist's worker, a run | no reload is lost, registrations settle, what is restricted ends disabled, critical runs end cancelled |
| `desktop_saves` | 2 threads, 2 configurations, every step may fail | stops reach the runner, saves are all or nothing, nothing serves under a change, the lock comes back |

Deadlock is checked except where a system may stop for good: the operations a client may begin are used up (`store_runs`,
`store_service`), the executor or host was shut down (`executor_release`, `webhook_requests`), all tokens are dropped
(`cancellation_tree`).

**Bounds.** Two scripts show competition within and between scripts. One more activation than the limits admit makes one
wait, a second one overflows a queue of length one; four activations are what a cycle of two nested waits needs (two that run, two
that wait). Three tokens make a chain and a pair of siblings; two threads are the two sides of every race on a token. Three
requests let one run, one wait and one overflow. Three nodes are enough for a loop in a loop with a way out of the inner
one, and seven steps for two iterations of either. Two attempts are one retry and one loss. Four operations on the store are install,
approve, update and one more, the second process's or the one that mends; three names for two files give each script a name of its own, a
name to move to and one that denotes the file of another. Every property has a mutated definition of the model, a plausible mistake, under which TLC finds the
property violated in the same instance: the bounds are large enough for the property to fail.

`queue_policies`, `executor_release` and `pipeline_safety` use symmetry of scripts and activations, `store_runs` of clients, of the two
packages of one script and of the two names of one file (safety only), and `pipeline_safety` a view without the last result, which no step reads.

**Fairness.** Waiters poll every 50 ms on threads of their own, so `Poll`, and each step of a call in `InstalledRuns`, is weakly
fair. In `ExecutionQueue` runs end, because by default the runtime has a step budget and a time limit (`contracts.rs` 338-352); strong
fairness of `Release` says that a run does not make nested calls for ever. So `EveryWaitEnds` holds for the default limits: where
the configuration sets them to unlimited, for workflows that are meant to be endless (`SECURITY.md` 27-28), a wait behind such a workflow ends
when it is stopped. `InstalledRuns` does *not* assume that runs end: a run ends if
it is cancelled (the runtime looks at the token between nodes, and actions subscribe to it), else perhaps never. The
service loop takes completions in every round (`TryCompletion`, `StartQueued`), and webhook deadlines pass. A thread that cancels
or makes a child goes on, and gets a mutex it asks for again and again (strong fairness of `Continues`). An interpreted run
takes steps. The loop of the service keeps turning, a client finishes what it began, and the blacklist's worker, which
wakes every six hours for ever, refreshes again and again (strong fairness, because it competes for locks). In `DesktopRunner`
only the command under way goes on: a runner may hang, which is why a wait ends by its timeout. Nothing assumes that
anybody submits, cancels, wakes by itself, drops a token, starts a service or ends a run of the store's models.

## Proofs

The proofs hold for every value of the constants and use only the assumptions named in the modules: finite sets of activations
and tokens, policies that are policies with positive limits, programs whose limits are numbers or not configured, sentinels that are
not elements, `Default` and `Declared` of the right kind, an owning script for each package, at least as many job numbers
as requests. Two theorems say what more they need: finitely many requests (`HostImplementsExecutor`), calls made by hand
(`PipelineImplementsCore`). They prove every safety invariant and every action property that the runs check, except one
(`MatchesStructuredSemantics`), and how the layers rest on each other: the execution queue implements `Admission`, the installed
runs use it as `Admission` lets it be used, the pipeline implements the installed runs, and the host implements the executor.

`ExecutionQueueProofs`:

- `TypeCorrect`: `TypeOK` is inductive; one lemma for a pass of the wait loop, one for an acquire, as both end in one.
- `NestedWaitsAcyclic`: `AcyclicDependencies` with `TypeOK` is inductive. The search of the code is modelled by the sets
  closed under dependencies; `AddKeepsAcyclic` says that adding an edge the search admits makes no cycle,
  `RemoveKeepsAcyclic` that removing one makes none. The rest is that every other step changes no dependency.
- `CountersAreExact`: each counter equals the cardinality of a set of activations. An admitted or ended call changes
  each of these sets by at most one element (`AddOne`, `RemoveOne`, `OneLess`), and the saturating decrement never saturates,
  because the call that ends is in the set.
- `QueuesAreTheWaiters`: the queue of a script is, without repetition, the activations that wait for it and were not told that
  they lost their place. Joining, leaving from anywhere and dropping the oldest are lemmas about sequences of their own, which
  the next two theorems use as well.
- `FirstComeFirstServed`: the same operations keep the order of whoever stays, and a pass admits only from the head.
- `AdmissionIsImplemented`: each step of a thread is a step of `Admission` or none, under `line <- waiting` and the holders of the
  permits. It needs the exact counters (room in the code is room in the abstraction) and the queues.
- `NobodyIsGridlocked`: if nobody could move, everyone's script would depend on the script of another call
  (`StuckWaitsForAnother`, from counters, queues and `CallsAreNested`: who called another runs). Among finitely many calls there
  is a smallest non-empty group closed under these dependencies; a member that does not lead back to itself has a smaller one, one
  that does is a cycle, which `NestedWaitsAcyclic` excludes.
- `LimitsAreKept`: a step that gives a call its permit leaves the permits of all calls and those of its script within the
  limits of the policy in force, although the policy may have changed while the call waited; it needs that the counters are exact.
  That no more than a limit are ever held is false and not claimed: a policy may be lowered below what already runs.

`WebhookHostProofs`, for the executor alone and for the executor inside the host:

- `JobsAreAccountedFor`, `WhatCanStartIsStarted`, `EventsStartInOrder` (and `RequestsAreAccountedFor`,
  `RequestsThatCanStartAreStarted`, `RequestsStartInOrder` in the host) follow from `ExecutorSafe`: a ledger (each number given
  out is in exactly one of the queue, the threads, the channel of completions, the local completions and the results handed out), the queue in
  ascending order, the counts per script, `pendingJobs` as what was given out and not yet taken, and that nothing queued fits.
  `EveryJobAccountedFor` by itself is not inductive: it counts, and says neither that numbers are not reused nor where a job may go.
  A call of the executor is followed in three lemmas (collect, schedule, submit) over the record it works on
  (`RecordInBooks`). The scan of the queue picks the jobs whose earlier neighbours leave room, so what stays behind does not fit
  and what starts is older than what stays of its script.
- `ExecutorLimitsAreKept` and, in the host, `RequestLimitsAreKept`: the runs that are going are the counters less the completions
  still in the channel (`ActiveExact`), so after collecting the counters are exact; the last job that one scan starts had room next to all
  the others it starts, and dropping the oldest leaves room for the newest. `ExecutorStep` says how the host drives its executor, so that
  one proof serves both.
- `ResultsReachTheirCallers`: a completion has a number that is not yet handed out, and the host gives it to the request that
  this number was given for.
- `TheChannelHasRoom`: the channel holds each request once and only requests still owed an answer or gone (`ChannelIsInOrder`);
  those that are not gone hold a permit, as does the caller that is about to send (`PermitsAreKept`), and there are
  `MaxConnections` permits: one place is left.
- `HostImplementsExecutor`: each step of the host is a whole handler of the executor or leaves it as it is, so the modules' separate
  proofs speak of the same program. A submission needs a number that is free, which the executor's guard asks for and the host does
  not: for finitely many requests the invariant `NumbersSuffice` says that the numbers left are enough for the requests not yet sent and
  those still in the channel, each of which is sent, taken and submitted once.

`TriggerPipelineProofs`, for `InstalledRuns` alone and behind the executor:

- `NobodyCallsItself`: the calls of a thread form a tree (`CallTree`): an idle call has no script and no caller, a nested call has
  its caller's root and its caller runs, and callers lead to a call that nobody made. The call stack the code searches is the set of
  frames with the same root, so a script that is found nowhere on it is new to it.
- `OnlyTheEnabledStart`: the second look at a script happens in the step that starts it.
- `QueuedOnce`: permits follow the stages of the calls and the workers keep the limits (`PipelineInv`), so a worker that
  waits leaves the core at least one permit below the executor's limit, unless runs take part that the executor has not started.
- `PipelineImplementsCore`: each step of the pipeline is a step of `InstalledRuns` or leaves the core as it is. The assumption
  that calls may also be made by hand, which the desktop and the command line do, makes the start of the executor's job one
  of the core's own calls.
- `CoreUsesTheQueue`: each step of the core is, for the queue, a step of `Admission` or none. A panic is neither: it lets go of all permits on
  its stack at once (`LetGoTogether`), which `ExecutionQueue` does one frame after another. That is why the theorem names it.
- `PermitsAreNeitherLostNorInvented`: the stages between the admission of a call and its end are those at which it holds the permit of
  its script, at each of the exits.

`InterpreterProofs`:

- `ClockIsNotMistaken`: whoever cancels the token has said so before: the clock by its flag, anybody else by `stopped`
  (`TokenHasAnAuthor`).
- `BudgetsAreKept`: the counters equal what the history shows, and a run that gives up has used its limit (`Accounts`). The
  recorded history is a sequence of any kind; visits are counted by appending one at a time.

`CancellationTokenProofs`:

- `NoChildMissed`: nobody-cancels is not enough for an induction. The invariant `ChildInv` says that a live uncancelled
  child is in its parent's list; that, if its parent is cancelled, its cancellation is on some thread's list or some thread has
  yet to look at the parent's children; and that a thread which read the flag down keeps the list locked, so if the flag has
  gone up since, the canceller still has the list before it. The theorem follows when nobody is cancelling.
- `NoSubscriberMissed`: the same argument for the list of subscribers (`SubscriberInv`).
- `CancellingGoesNowhereElse`: whatever is on a thread's list was asked for or has a cancelled parent (`IsolationInv`).
- `TokensTyped`: types.

`VariablesProofs`: the invariant is the types and three facts about each run: a write that is pending was read at the version it
expects, and if that is still the row's version and nobody reset it, the row's value is the one it read (`WritePending`); the
attempts lost are at most the changes others made since the operation began (`Underway`); a run that is past its start knows
the scope of every row it declared (`Loaded`). A step of one run keeps them for the others because it changes at most one row
and gives it the next version (`KeptWhenRowStored`). `Atomic`, `GivingUp`, `Fresh` and `Typed` follow. A row's version
never comes back without a reset: that is why `NoUpdateIsLost` needs `since`.

`ScriptStoreProofs`, for `ApprovedRuns` and `Blacklist`:

- `Typed`: types with the foreign key (an approval belongs to an installed script), and for each kind of job what it has read.
- `OnlyApprovedStarts`: an approval recorded is in `consent`, and a run that reached its approval has read a row. It follows
  although rows, files and approvals are changed in separate steps, because the approval is compared with the hash of what
  was loaded.
- `FilesAreOfTheirRows`, for any map from names to files: the invariant is about each file that is not disturbed (`LeftAlone`). One client
  at a time handles it (`OneHandler`), one row at most speaks of it (`OneRow`), its handler has in front of it what it found when it
  began (`HandlersInOrder`), and unless an operation on it is unfinished it holds the package of its row (`HoldsItsRow`). Beside it stands one fact about jobs, whatever
  their files (`RemovalsInTurn`). An install that begins makes a file left alone from then on, so the invariant has to be
  established for it in the middle of everything else and not only at the start. `FilesAreOfTheirRowsInService` follows from the
  same invariant: the steps of the clients are shared by both modules (`StoreKeepsFiles`), and the service changes rows only by
  disabling them, which leaves packages and files (`SameFilesKeeps`).
- `OnlyApprovedIsServed`, an action property no run checks: a pass lists a script's trigger only if the approval is of the hash it
  loaded, and a run registers only if it is of the row's; approvals of installed scripts are in `consent`.
- `NothingIsForgotten`: `NoReloadIsLost` is about a service between passes, its invariant (`Knows`) about the pass as well. As long
  as nobody has told of a change or is about to (`Told`): every script that is still to be listed is installed as it was listed
  (`ToBeListed`), those already listed are in `fresh` exactly if they ought to be (`AgreesBut`), and the triggers between passes
  agree. A client changes rows only in steps that end with `Told` (`ClientsTell`). The blacklist disables rows first and tells
  afterwards: `NothingPending` says that this touches no unrestricted trigger, because a pass looks at a script only while
  nobody holds the write lock of the list, so a script that waits to be disabled was skipped or is of a restricted package.

`DesktopRunnerProofs`: `RunnerInv` says where each thread can be given the supervisor's three fields and the job: at most one
thread is not gone, it is the one whose flag `requested` is, and the handle is missing only in the window between the spawn and the
handing over. `StopReaches` and `NothingServes` follow from it. `SaveInv` says for each step of a save, forward and back,
what has been written so far; it needs that a save past its wait has no handle, so its own start never finds "already
running". `SavesAllOrNothing` follows.

`Knows` was checked by TLC on the instance of `store_service`, and by simulation with two clients, two scripts, three packages and two
refreshers, before it was proved.

Only model-checked: liveness (`EveryWaitEnds`, `EveryCallerIsAnswered`, `StopsTakeEffect`, `CancelledCallsEnd`,
`EveryChildIsReached`, `CancelledRunEnds`, `RegistrationsSettle`, `RestrictedEndDisabled`, `CriticalRunsAreCancelled`,
`LockIsGivenBack`), which with ENABLED is out of the prover's reach; `MatchesStructuredSemantics`, whose reference is
recursive over programs; and the violation `NoRunOutlivesShutdown`, which is a counterexample. The type invariants of
`CancellationToken`, `Variables`, `ApprovedRuns` and `DesktopRunner` are proved and not checked by runs of their own, and so are the
limits of the queue and of the executor (`LimitsAreKept`, `ExecutorLimitsAreKept`, `RequestLimitsAreKept`), the three relations between
layers other than that of `Admission`, `PermitsAreNeitherLostNorInvented` and `OnlyApprovedIsServed`. The refinements are proved for the
steps; which of the abstract layer's fairness they keep is not.

## What the models found

With a run and a counterexample (see `findings` in `PROJECT.json`):

- **Handles kept inside `debug_assert!`** (`executor_release`). A release build joins no worker at shutdown.

Seen while modelling, without a run of their own. Admission and runs:

- Under a global limit, parents that hold all permits can each wait for a nested permit for ever: the search for cycles looks at
  scripts only (`core/execution_queue.rs` 125, 235). `NoGridlock` is stated for policies without a global limit.
- A refusal by the blacklist is looked up a second time for its message; if the entry was lifted in between, the
  `expect_err` panics (`core/lib.rs` 763-765; `Panic` in `InstalledRuns`).
- The executor keeps stops and skips back. With the default limit of one run per script, an event whose trigger says stop or skip waits
  in the executor's queue behind the very run it is about (`src/service/executor.rs` 150), because the option is only read in the
  core. A stop then arrives when nothing is left to stop, and the trigger that should toggle its own loop starts it
  again; a skipped event starts a run after all. `core/lib.rs` 721-724 says: "A stop or a skip never becomes a run, so it must
  not wait behind the run it was sent to replace", `triggers/lib.rs` 64-69: "Nothing starts and nothing queues" and "One trigger
  toggling its own long-running loop is the reason this exists". Only calls made past the executor, and scripts without a limit, are stopped as
  described. `Submit` of `TriggerPipeline` models it; no property claims the contrary.
- `ActiveRunTracker::register_waiting` is called from nowhere, so activations that wait for a permit do not count as in
  flight, although `core/active_runs.rs` 7-9 says they do. A stop leaves them alone and they start after it.
- Under drop_oldest the queue discards its oldest waiter before it looks whether the newcomer is cancelled or
  restricted (`core/execution_queue.rs` 142 against 166-177).
- A nested run registers with its caller's token, so stopping the nested script ends the caller.

Tokens:

- The flag is raised and the condition variable notified without the sleeper's mutex (`cancellation.rs` 133): a delay cancelled at
  that moment lasts its whole time.
- A second `cancel` of a token returns while the first is still on its way down; a token below a dropped one is out of reach.

Interpreter and variables:

- Script graphs may have cycles (only self-connections are rejected); a back edge into a loop enters it again, nested.
- After a reset versions start at 1 again, so a run that read version 1 before overwrites a variable stored anew as if it
  had not changed; and a condition of a run that began before the reset keeps its own copy (`branching.rs` 141, 156 against the
  comment at 182).
- Changes of variables are announced after the lock is released (`scoped_variables.rs` 131), and the variables view applies them
  without comparing versions: two announcements in the wrong order leave it with the older value.

Store, service and blacklist:

- An update that SQLite refuses because somebody committed since its snapshot has already replaced the file, so the row no longer
  verifies; a crash before the commit does the same. Such a script does not run until it is updated again.
- Two processes that import under the same file name at the same time can leave the file of one under the row of the other.
- Where file names ignore case (Windows), `Pkg.bbs` and `pkg.bbs` are two names to the code and one file. An update that changes only the
  case copies over the file and then removes it as the previous one (`mod.rs` 526-529), and commits a row without a file; an
  import under another case passes the check of the name (409-435) and overwrites another script's package. Neither needs a second
  process or a failure. The row no longer verifies, so nothing runs unapproved, but the script does not run until it is updated again.
  `FilesMatchRows` excepts such files (`Contested`).
- An update or removal that meets the service's passes makes them fail, and that ends the service. A failed deletion of a file
  skips the request to reload; the periodic one covers for it.
- The reload takes the reusable services out before it builds the others (`triggers.rs` 192); an error then ends the service.
- Between a run's last look at the blacklist and its registration a refresh may pass (`core/lib.rs` 797, `src/blacklist.rs` 351);
  the next refresh, up to six hours later, cancels it, unless the script was updated or removed meanwhile: then nothing does.
- What a run loads after that look is what is installed by then, so its hash need not be the one that was looked at.
- A script removed during an enforcement makes it fail before anything is cancelled (`enforcement.rs` 107).
- Two refreshes fetch outside the lock, so the older list may be stored last (`src/blacklist.rs` 89-102); the next refresh mends it.

Webhooks:

- When the listener is stopped or restarted its connections are aborted right after their answers were sent to them, so the
  "stopping" and "reloading" answers need not be written; requests still in the channel get none.
- An error of the listener's accept ends the listener and then the service, as does a restart that fails.

Desktop:

- A spawn that fails leaves "running" or "stopping" in the snapshot until the next start; the vault cannot be switched meanwhile.
- A start in the moment after the thread reported "stopped" and before it is finished answers "already running" and starts
  nothing.
- A save whose wait runs out of time leaves the runner stopping and never starts it again.
- The dashboard applies the file it read without the operation lock, so a copy read before a save can replace what the save
  applied, until the next dashboard; a serial device that moved rewrites the file without the lock as well
  (`src/service/options.rs` 221). `SaveIsAllOrNothing` leaves out saves that met such a write.
- The start at the end of a rollback loads the file, so after a failed rollback of the file the runner runs with the new
  configuration. A switch of the vault clears secrets before it can fail (`secret_vault.rs` 222).

## Not modelled

Contents of events, packages and variables, time (deadlines and polls are steps that may happen), memory ordering below the
mutexes and sequentially consistent atomics, and the components marked so in `PROJECT.json`: most of the repository's
lines are windows and dialogs, parsing and validation, network clients and the operating system behind triggers and actions. A
poisoned mutex is not modelled: the code recovers the state, and no panic inside a critical section is known.

Left out of modelled components, because nothing stated here depends on it: what a webhook request is refused for before its body
is read; secrets and settings that an update removes; the third pass over the scripts when the service starts; a save
that changes only the desktop's own settings (the instance has two configurations), and the three locks the application's
configuration is set under one by one (one value here); the blacklist's cache file, which a process that starts enforces
again, its provenance, incidents and personal blocks. Control commands and the status document (`ipc.rs`, `heartbeat.rs`,
`status.rs`), where revisions and tokens order what the interface sees, have no module yet.

## Plan

Done: the modules above, and a proof of every property of theirs the prover can reach.

Proofs to add: types of `WebhookHost` and `Interpreter` as properties of their own; that `ExecutionQueue`
gives up the permits of a panicking stack in the order `LetGoTogether` abstracts from; what a step may never do in `Blacklist` (a
restricted package that is enabled again).

Models to add: control commands and the status document beside the service; the blacklist's cache file and a restart
between its steps; the second executor of the webhooks in the pipeline.
