------------------------ MODULE DesktopRunnerProofs ------------------------
(* What DesktopRunner promises, for any configurations and any supply of    *)
(* threads, in three layers that are each preserved on top of those before: *)
(* Types, where the runner's thread is (RunnerInv), and what each step of a *)
(* save has left behind so far (SaveInv).                                   *)
EXTENDS DesktopRunner, TLAPS

Slots == Threads \cup {NoThread}
StartSteps == {"sync", "begin", "spawn", "keep"}
Forward == {"wait", "given_up", "set_login", "write_file", "replace", "saved"}
Backward == {"undo_file", "undo_config", "undo_login", "undone"}

StartJobs == [do : {"start"}, step : StartSteps, slot : Slots]
WaitJobs == [do : {"reload", "update"}, step : {"wait"}]
SaveJobs ==
  [do : {"save"}, step : StartSteps \cup Forward \cup Backward,
   target : Configs, restart : BOOLEAN, previous_file : Configs,
   previous_config : Configs, previous_login : BOOLEAN, slot : Slots,
   undoing : BOOLEAN, clean : BOOLEAN, disturbed : BOOLEAN]
Jobs == {Idle} \cup StartJobs \cup WaitJobs \cup SaveJobs

ThreadRecords ==
  [at : {"none", "serving", "ended", "reported", "finished"}, flag : BOOLEAN,
   config : Configs \cup {NoConfig}]

Types ==
  /\ handle \in Slots /\ requested \in Slots
  /\ snapshot \in {"running", "stopping", "stopped"}
  /\ thread \in [Threads -> ThreadRecords]
  /\ file \in Configs /\ applied \in Configs /\ login \in BOOLEAN
  /\ dashboard \in Configs \cup {NoConfig}
  /\ job \in Jobs

\* A thread that is not gone has the handle, or its start is about to keep it;
\* while it has not told that it stopped, the flag and the snapshot are its own.
RunnerInv ==
  /\ handle # NoThread => thread[handle].at # "none"
  /\ \A t \in Threads : thread[t].at # "none" => handle = t \/ (Does("keep") /\ job.slot = t)
  /\ \A t \in Threads : thread[t].at \in {"serving", "ended"} => requested = t /\ Running
  /\ Does("keep") => handle = NoThread /\ job.slot \in Threads /\ thread[job.slot].at # "none"
  /\ Does("spawn") => /\ handle = NoThread /\ job.slot \in Threads
                      /\ requested = job.slot /\ snapshot = "running"

\* A save that restarts the runner has no runner until it starts one.
SaveShape ==
  Saves =>
    /\ job.step \in StartSteps => job.restart
    /\ job.step \in Forward => ~ job.undoing
    /\ job.step \in Backward => job.undoing
    /\ job.restart /\ job.step \in (StartSteps \cup Forward \cup Backward) \ {"wait", "given_up", "saved", "undone"}
         => handle = NoThread

\* What the steps before have done, or undone, when nobody else wrote.
Untouched == file = job.previous_file /\ applied \in {job.previous_config, job.previous_file}
SlotRuns(c) == job.slot \in Threads => thread[job.slot].config = c
Progress ==
  /\ job.step \in {"wait", "given_up", "set_login"} => AsItWas
  /\ Does("write_file") => Untouched /\ login = job.target.launch_at_login
  /\ Does("replace") => file = job.target /\ login = job.target.launch_at_login
  /\ job.step \in StartSteps \cup {"saved"} /\ ~ job.undoing =>
       /\ file = job.target /\ applied = job.target /\ login = job.target.launch_at_login
       /\ job.step \in {"spawn", "keep"} => SlotRuns(job.target)
       /\ Does("saved") => RunnerRuns(job.target)
  /\ Does("undo_config") /\ job.clean => file = job.previous_file
  /\ Does("undo_login") /\ job.clean => Untouched
  /\ job.step \in StartSteps \cup {"undone"} /\ job.undoing /\ job.clean =>
       /\ AsItWas
       /\ Does("begin") => applied = job.previous_file
       /\ job.step \in {"spawn", "keep"} => SlotRuns(job.previous_file)
       /\ Does("undone") => RunnerRuns(job.previous_file)
SaveInv == SaveShape /\ (Saves /\ ~ job.disturbed => Progress)

IInv == Types /\ RunnerInv /\ SaveInv

----------------------------------------------------------------------------
(* Jobs. *)

\* A job with a step of its own is a start, a wait or a save, by what it does.
LEMMA JobKinds ==
  ASSUME job \in Jobs
  PROVE  /\ Saves <=> job \in SaveJobs
         /\ job # Idle => job \in StartJobs \cup WaitJobs \cup SaveJobs
         /\ \A step \in StartSteps : Does(step) => job \in StartJobs \cup SaveJobs
         /\ \A step \in (Forward \ {"wait"}) \cup Backward : Does(step) => job \in SaveJobs
         /\ Does("wait") => job \in WaitJobs \cup SaveJobs
  BY DEF Jobs, StartJobs, WaitJobs, SaveJobs, Idle, Saves, Does, StartSteps, Forward, Backward

\* A save goes on as a save, with nothing changed but where it is.
LEMMA StepOfSave ==
  ASSUME job \in SaveJobs, NEW step \in StartSteps \cup Forward \cup Backward, job' = Step(step)
  PROVE  /\ job' \in SaveJobs /\ job'.step = step
         /\ job'.target = job.target /\ job'.restart = job.restart
         /\ job'.previous_file = job.previous_file /\ job'.previous_config = job.previous_config
         /\ job'.previous_login = job.previous_login /\ job'.slot = job.slot
         /\ job'.undoing = job.undoing /\ job'.clean = job.clean
         /\ job'.disturbed = job.disturbed
  BY DEF Step, SaveJobs

\* The way back begins.
LEMMA TurnsBack ==
  ASSUME job \in SaveJobs, job' = [job EXCEPT !.step = "undo_file", !.undoing = TRUE]
  PROVE  /\ job' \in SaveJobs /\ job'.step = "undo_file" /\ job'.undoing
         /\ job'.restart = job.restart /\ job'.disturbed = job.disturbed
  BY DEF SaveJobs, Backward

\* A step back was tried.
LEMMA StepBack ==
  ASSUME job \in SaveJobs, NEW ok \in BOOLEAN, NEW step \in StartSteps \cup Forward \cup Backward,
         job' = [job EXCEPT !.step = step, !.clean = @ /\ ok]
  PROVE  /\ job' \in SaveJobs /\ job'.step = step
         /\ job'.clean = (job.clean /\ ok)
         /\ job'.target = job.target /\ job'.restart = job.restart
         /\ job'.previous_file = job.previous_file /\ job'.previous_config = job.previous_config
         /\ job'.previous_login = job.previous_login /\ job'.slot = job.slot
         /\ job'.undoing = job.undoing /\ job'.disturbed = job.disturbed
  BY DEF SaveJobs

\* A start takes a slot.
LEMMA TakesSlot ==
  ASSUME job \in StartJobs \cup SaveJobs, NEW t \in Threads,
         job' = [job EXCEPT !.step = "spawn", !.slot = t]
  PROVE  /\ job' \in StartJobs \cup SaveJobs /\ job'.step = "spawn" /\ job'.slot = t
         /\ job'.do = job.do
         /\ Saves => /\ job'.target = job.target /\ job'.restart = job.restart
                     /\ job'.previous_file = job.previous_file
                     /\ job'.previous_config = job.previous_config
                     /\ job'.previous_login = job.previous_login
                     /\ job'.undoing = job.undoing /\ job'.clean = job.clean
                     /\ job'.disturbed = job.disturbed
  BY DEF StartJobs, SaveJobs, Slots, StartSteps, Saves

\* What the end of a start makes of its job.
LEMMA StartEnds ==
  ASSUME job \in StartJobs \cup SaveJobs, NEW ok \in BOOLEAN, job' = AfterStart(ok)
  PROVE  /\ job' \in Jobs
         /\ ~ Saves => job' = Idle
         /\ Saves /\ job.undoing => job' = [job EXCEPT !.step = "undone", !.clean = @ /\ ok]
         /\ Saves /\ ~ job.undoing /\ ok => job' = Step("saved")
         /\ Saves /\ ~ job.undoing /\ ~ ok =>
              job' = [job EXCEPT !.step = "undo_file", !.undoing = TRUE]
<1>1. CASE ~ Saves  BY <1>1 DEF AfterStart, Jobs, Idle
<1>2. CASE Saves
  <2>1. job \in SaveJobs  BY <1>2 DEF Saves, StartJobs, SaveJobs
  <2>2. CASE job.undoing
    BY <1>2, <2>1, <2>2, StepBack DEF AfterStart, Jobs, Backward
  <2>3. CASE ~ job.undoing /\ ok
    BY <1>2, <2>1, <2>3, StepOfSave DEF AfterStart, Jobs, Forward
  <2>4. CASE ~ job.undoing /\ ~ ok
    BY <1>2, <2>1, <2>4, TurnsBack DEF AfterStart, Jobs
  <2> QED BY <2>2, <2>3, <2>4
<1> QED BY <1>1, <1>2

----------------------------------------------------------------------------
(* The runner. *)

\* A command that leaves the supervisor and the threads alone, and does not go
\* to where a thread is being started, keeps what is known of them.
LEMMA RunnerLeftAlone ==
  ASSUME RunnerInv, UNCHANGED <<handle, requested, snapshot, thread>>,
         Does("keep") => Does("keep")' /\ job'.slot = job.slot,
         Does("keep")' => Does("keep"),
         Does("spawn")' => Does("spawn") /\ job'.slot = job.slot
  PROVE  RunnerInv'
  BY DEF RunnerInv, Running

\* Joining a finished thread, beside whatever command.
LEMMA JoinKeepsTypes ==
  ASSUME Types
  PROVE  /\ Kept \in Slots /\ Left \in [Threads -> ThreadRecords]
         /\ \A t \in Threads : Left[t] = thread[t] \/ (Left[t] = Gone /\ handle = t /\ Finished)
         /\ Finished => handle \in Threads /\ Left[handle] = Gone
  BY DEF Types, Kept, Left, Finished, Gone, Slots, ThreadRecords

LEMMA JoinKeepsRunner ==
  ASSUME Types, RunnerInv, JoinFinishedThread, UNCHANGED <<requested, snapshot>>,
         Does("keep") => Does("keep")' /\ job'.slot = job.slot,
         Does("keep")' => Does("keep"),
         Does("spawn")' => Does("spawn") /\ job'.slot = job.slot
  PROVE  RunnerInv'
<1>1. handle' = Kept /\ thread' = Left  BY DEF JoinFinishedThread
<1>2. CASE Finished
  <2>1. handle \in Threads /\ handle # NoThread /\ handle' = NoThread
    BY <1>1, <1>2, JoinKeepsTypes DEF Finished, Kept
  <2>2. ~ Does("keep") /\ ~ Does("spawn")  BY <2>1 DEF RunnerInv
  <2>3. \A t \in Threads : thread'[t].at = "none"
    <3> SUFFICES ASSUME NEW t \in Threads PROVE thread'[t].at = "none"
      OBVIOUS
    <3>1. CASE t = handle  BY <1>1, <1>2, <3>1, JoinKeepsTypes DEF Gone
    <3>2. CASE t # handle
      <4>1. thread[t].at = "none"  BY <2>2, <3>2 DEF RunnerInv
      <4> QED BY <1>1, <3>2, <4>1, JoinKeepsTypes
    <3> QED BY <3>1, <3>2
  <2> QED BY <2>1, <2>2, <2>3 DEF RunnerInv
<1>3. CASE ~ Finished
  <2>1. UNCHANGED <<handle, requested, snapshot, thread>>
    BY <1>1, <1>3 DEF Kept, Left
  <2> QED BY <2>1, RunnerLeftAlone
<1> QED BY <1>2, <1>3

\* A start goes on, as a command or as part of a save.
LEMMA StepOfStart ==
  ASSUME job \in StartJobs \cup SaveJobs, NEW step \in StartSteps, job' = Step(step)
  PROVE  /\ job' \in StartJobs \cup SaveJobs /\ job' \in Jobs /\ job' # Idle
         /\ job'.step = step /\ job'.slot = job.slot /\ job'.do = job.do
<1>1. CASE job \in StartJobs
  BY <1>1 DEF Step, StartJobs, Jobs, StartSteps, Idle
<1>2. CASE job \in SaveJobs
  <2>1. job' \in SaveJobs /\ job'.step = step /\ job'.slot = job.slot
    BY <1>2, StepOfSave
  <2> QED BY <1>2, <2>1 DEF SaveJobs, Jobs, Idle
<1> QED BY <1>1, <1>2

\* When a start is over nothing is being started.
LEMMA StartIsOver ==
  ASSUME job \in StartJobs \cup SaveJobs, NEW ok \in BOOLEAN, job' = AfterStart(ok)
  PROVE  job' \in Jobs /\ ~ Does("keep")' /\ ~ Does("spawn")'
<1>1. job' \in Jobs  BY StartEnds
<1>2. CASE ~ Saves  BY <1>1, <1>2, StartEnds DEF Does
<1>3. CASE Saves
  <2>1. job \in SaveJobs  BY <1>3 DEF Saves, StartJobs, SaveJobs
  <2>2. job'.step \in {"undone", "saved", "undo_file"}
    BY <1>3, <2>1, StartEnds, StepBack, StepOfSave, TurnsBack DEF Forward, Backward
  <2> QED BY <1>1, <2>2 DEF Does
<1> QED BY <1>2, <1>3

LEMMA ThreadGoesOn ==
  ASSUME Types, RunnerInv, NEW t \in Threads,
         \/ Moves(t, "serving", "ended") \/ Moves(t, "reported", "finished"),
         UNCHANGED <<supervisor, configuration, dashboard, job>>
  PROVE  Types' /\ RunnerInv'
<1>1. Types'  BY DEF Types, Moves, ThreadRecords, supervisor, configuration
<1>2. /\ thread'[t].at # "none" /\ thread[t].at # "none"
      /\ thread'[t].at \in {"serving", "ended"} => thread[t].at \in {"serving", "ended"}
      /\ \A u \in Threads : u # t => thread'[u] = thread[u]
  BY DEF Types, Moves, ThreadRecords
<1>3. Does("keep")' = Does("keep") /\ Does("spawn")' = Does("spawn") /\ Running' = Running
  BY DEF supervisor, Does, Running
<1> QED BY <1>1, <1>2, <1>3 DEF RunnerInv, supervisor, Slots, Types

LEMMA ReportsKeeps ==
  ASSUME Types, RunnerInv, NEW t \in Threads, Reports(t)
  PROVE  Types' /\ RunnerInv'
<1>1. Types'  BY DEF Types, Reports, Moves, ThreadRecords, Slots, configuration
<1>2. thread[t].at = "ended" /\ \A u \in Threads : thread[u].at \in {"serving", "ended"} => u = t
  BY DEF RunnerInv, Reports, Moves
<1>3. /\ thread'[t].at = "reported" /\ \A u \in Threads : u # t => thread'[u] = thread[u]
      /\ UNCHANGED <<handle, job>>
  BY DEF Types, Reports, Moves, ThreadRecords
<1>4. ~ Does("spawn")
  BY <1>2, ThreadsAssumption DEF ThreadsAssumption, RunnerInv, Does
<1>5. \A u \in Threads : thread'[u].at \notin {"serving", "ended"}
  BY <1>2, <1>3
<1>6. Does("keep")' = Does("keep") /\ Does("spawn")' = Does("spawn")
  BY <1>3 DEF Does
<1>7. \A u \in Threads : thread'[u].at # "none" => thread[u].at # "none"
  BY <1>2, <1>3
<1>8. \A u \in Threads : thread[u].at # "none" => thread'[u].at # "none"
  BY <1>2, <1>3
<1>9. handle # NoThread => handle \in Threads  BY DEF Types, Slots
<1> QED BY <1>1, <1>3, <1>4, <1>5, <1>6, <1>7, <1>8, <1>9 DEF RunnerInv

\* No thread exists when nothing has the handle and none is about to.
LEMMA NobodyThere ==
  ASSUME Types, RunnerInv, Kept = NoThread, ~ Does("keep")
  PROVE  \A t \in Threads : Left[t].at = "none" /\ ~ Serves(t)
<1> SUFFICES ASSUME NEW t \in Threads PROVE Left[t].at = "none" /\ ~ Serves(t)
  OBVIOUS
<1>1. CASE handle = t
  <2>1. Finished  BY <1>1, ThreadsAssumption DEF ThreadsAssumption, Kept
  <2>2. Left[t] = Gone  BY <1>1, <2>1, JoinKeepsTypes
  <2> QED BY <1>1, <2>1, <2>2 DEF Gone, Finished, Serves
<1>2. CASE handle # t
  <2>1. thread[t].at = "none"  BY <1>2 DEF RunnerInv
  <2> QED BY <1>2, <2>1, JoinKeepsTypes DEF Serves
<1> QED BY <1>1, <1>2

LEMMA BeginStartKeeps ==
  ASSUME Types, RunnerInv, BeginStart
  PROVE  Types' /\ RunnerInv' /\ FreeSlot \in Threads
<1>1. job \in StartJobs \cup SaveJobs /\ ~ Does("keep")
  BY JobKinds DEF Types, BeginStart, Does, StartSteps
<1>2. FreeSlot \in Threads
  <2>1. \E t \in Threads : Left[t].at = "none"
    BY <1>1, NobodyThere, ThreadsAssumption DEF ThreadsAssumption, BeginStart
  <2> QED BY <2>1 DEF FreeSlot
<1>3. job' \in StartJobs \cup SaveJobs /\ job'.step = "spawn" /\ job'.slot = FreeSlot
  BY <1>1, <1>2, TakesSlot DEF BeginStart
<1>4. thread' \in [Threads -> ThreadRecords] /\ \A t \in Threads : thread'[t].at = "none"
  <2>1. Left \in [Threads -> ThreadRecords] /\ \A t \in Threads : Left[t].at = "none"
    BY <1>1, JoinKeepsTypes, NobodyThere DEF BeginStart
  <2>2. [at |-> "none", flag |-> FALSE, config |-> applied] \in ThreadRecords
    BY DEF Types, ThreadRecords
  <2> QED BY <1>2, <2>1, <2>2 DEF BeginStart
<1>5. Types'
  BY <1>2, <1>3, <1>4 DEF Types, BeginStart, Slots, Jobs, configuration
<1>6. Does("spawn")' /\ ~ Does("keep")'
  BY <1>3 DEF Does, StartJobs, SaveJobs, Idle
<1> QED BY <1>2, <1>3, <1>4, <1>5, <1>6 DEF RunnerInv, BeginStart

LEMMA SpawnKeeps ==
  ASSUME Types, RunnerInv, Spawn
  PROVE  Types' /\ RunnerInv'
<1>1. /\ job \in StartJobs \cup SaveJobs /\ job.slot \in Threads /\ handle = NoThread
      /\ requested = job.slot /\ snapshot = "running" /\ ~ Does("keep")
  BY JobKinds DEF Types, RunnerInv, Spawn, Does, StartSteps
<1>2. \A t \in Threads : thread[t].at = "none"
  BY <1>1, ThreadsAssumption DEF ThreadsAssumption, RunnerInv
<1>3. CASE thread' = [thread EXCEPT ![job.slot].at = "serving"] /\ job' = Step("keep")
  <2>1. thread' \in [Threads -> ThreadRecords] /\ thread'[job.slot].at = "serving"
    BY <1>1, <1>3 DEF Types, ThreadRecords
  <2>2. \A t \in Threads : t # job.slot => thread'[t].at = "none"
    BY <1>2, <1>3 DEF Types
  <2>3. job' \in Jobs /\ job' # Idle /\ job'.step = "keep" /\ job'.slot = job.slot
    BY <1>1, <1>3, StepOfStart DEF StartSteps
  <2>4. Types'  BY <2>1, <2>3 DEF Types, Spawn, supervisor, configuration
  <2> QED
    BY <1>1, <2>1, <2>2, <2>3, <2>4 DEF RunnerInv, Spawn, supervisor, Does, Running
<1>4. CASE thread' = [thread EXCEPT ![job.slot] = Gone] /\ job' = AfterStart(FALSE)
  <2>1. thread' \in [Threads -> ThreadRecords] /\ \A t \in Threads : thread'[t].at = "none"
    BY <1>1, <1>2, <1>4 DEF Types, ThreadRecords, Gone
  <2>2. job' \in Jobs /\ ~ Does("keep")' /\ ~ Does("spawn")'
    BY <1>1, <1>4, StartIsOver
  <2> QED
    BY <1>1, <2>1, <2>2 DEF Types, RunnerInv, Spawn, supervisor, configuration
<1> QED BY <1>3, <1>4 DEF Spawn

LEMMA KeepHandleKeeps ==
  ASSUME Types, RunnerInv, KeepHandle
  PROVE  Types' /\ RunnerInv'
<1>1. job \in StartJobs \cup SaveJobs /\ handle = NoThread /\ ~ Does("spawn")
  BY JobKinds DEF Types, RunnerInv, KeepHandle, Does, StartSteps
<1>2. /\ job.slot \in Threads /\ thread[job.slot].at # "none"
      /\ \A t \in Threads : thread[t].at # "none" => t = job.slot
  BY <1>1, ThreadsAssumption DEF ThreadsAssumption, RunnerInv, KeepHandle
<1>3. job' \in Jobs /\ ~ Does("keep")' /\ ~ Does("spawn")'
  BY <1>1, StartIsOver DEF KeepHandle
<1> QED
  BY <1>1, <1>2, <1>3 DEF Types, RunnerInv, KeepHandle, Slots, configuration, Running

----------------------------------------------------------------------------
(* The other steps: none of them is at a start's last two steps. *)

\* Neither being started before the step nor after it.
Quiet == ~ Does("keep") /\ ~ Does("spawn") /\ ~ Does("keep")' /\ ~ Does("spawn")'

\* A step that writes the configuration, not the runner.
LEMMA QuietStep ==
  ASSUME RunnerInv, UNCHANGED <<supervisor, thread>>, Quiet
  PROVE  RunnerInv'
  BY RunnerLeftAlone DEF supervisor, Quiet

\* A step that looks at the supervisor and, maybe, raises the flag.
LEMMA RequestKeeps ==
  ASSUME Types, RunnerInv, JoinAndRequestStop, UNCHANGED requested, Quiet
  PROVE  /\ RunnerInv'
         /\ handle' \in Slots /\ thread' \in [Threads -> ThreadRecords]
         /\ snapshot' \in {"running", "stopping", "stopped"}
<1>1. CASE requested = NoThread
  <2>1. JoinFinishedThread /\ UNCHANGED snapshot
    BY <1>1 DEF JoinAndRequestStop, JoinFinishedThread
  <2> QED BY <2>1, JoinKeepsRunner, JoinKeepsTypes DEF Quiet, Types, JoinFinishedThread
<1>2. CASE requested # NoThread
  <2>1. /\ handle' = Kept /\ requested \in Threads /\ snapshot' = "stopping"
        /\ thread' = [Left EXCEPT ![requested].flag = TRUE]
    BY <1>2 DEF JoinAndRequestStop, Types, Slots
  <2>2. Kept \in Slots /\ Left \in [Threads -> ThreadRecords]  BY JoinKeepsTypes
  <2>3. thread' \in [Threads -> ThreadRecords] /\ \A t \in Threads : thread'[t].at = Left[t].at
    BY <2>1, <2>2 DEF ThreadRecords
  <2>4. \A t \in Threads : Left[t].at # "none" => Left[t] = thread[t] /\ Kept = t
    <3> SUFFICES ASSUME NEW t \in Threads, Left[t].at # "none"
                 PROVE Left[t] = thread[t] /\ Kept = t
      OBVIOUS
    <3>1. Left[t] = thread[t]  BY JoinKeepsTypes DEF Gone
    <3>2. handle = t  BY <3>1 DEF RunnerInv, Quiet
    <3>3. ~ Finished  BY <3>2, JoinKeepsTypes DEF Gone
    <3> QED BY <3>1, <3>2, <3>3 DEF Kept
  <2>5. Kept # NoThread => Left[Kept].at # "none"
    BY ThreadsAssumption DEF ThreadsAssumption, Kept, Left, RunnerInv
  <2> QED
    BY <2>1, <2>2, <2>3, <2>4, <2>5, ThreadsAssumption
    DEF ThreadsAssumption, Slots, RunnerInv, Quiet, Running
<1> QED BY <1>1, <1>2

LEMMA StartCommandKeeps ==
  ASSUME Types, RunnerInv, job = Idle, job' = Starting, UNCHANGED <<supervisor, thread, configuration, dashboard>>
  PROVE  Types' /\ RunnerInv'
<1>1. job' \in Jobs /\ Quiet
  BY DEF Starting, Jobs, StartJobs, StartSteps, Slots, Quiet, Does, Idle
<1>2. RunnerInv'  BY <1>1, QuietStep
<1> QED BY <1>1, <1>2 DEF Types, supervisor, configuration

LEMMA SyncKeeps ==
  ASSUME Types, RunnerInv, SyncFromDisk
  PROVE  Types' /\ RunnerInv'
<1>1. job \in StartJobs \cup SaveJobs /\ ~ Does("keep") /\ ~ Does("spawn")
  BY JobKinds DEF Types, SyncFromDisk, Does, StartSteps
<1>2. job' = Step("begin") \/ job' = AfterStart(FALSE)
  BY DEF SyncFromDisk
<1>3. CASE job' = Step("begin")
  <2>1. job' \in Jobs /\ job'.step = "begin"  BY <1>1, <1>3, StepOfStart DEF StartSteps
  <2>2. RunnerInv'  BY <1>1, <2>1, QuietStep DEF SyncFromDisk, Quiet, Does
  <2> QED BY <2>1, <2>2 DEF Types, SyncFromDisk, supervisor
<1>4. CASE job' = AfterStart(FALSE)
  <2>1. job' \in Jobs /\ Quiet  BY <1>1, <1>4, StartIsOver DEF Quiet
  <2>2. RunnerInv'  BY <2>1, QuietStep DEF SyncFromDisk
  <2> QED BY <2>1, <2>2 DEF Types, SyncFromDisk, supervisor
<1> QED BY <1>2, <1>3, <1>4

LEMMA AlreadyRunningKeeps ==
  ASSUME Types, RunnerInv, AlreadyRunning
  PROVE  Types' /\ RunnerInv'
<1>1. job \in StartJobs \cup SaveJobs /\ ~ Does("keep") /\ ~ Does("spawn")
  BY JobKinds DEF Types, AlreadyRunning, Does, StartSteps
<1>2. job' \in Jobs /\ ~ Does("keep")' /\ ~ Does("spawn")'
  BY <1>1, StartIsOver DEF AlreadyRunning
<1>3. RunnerInv'  BY <1>1, <1>2, JoinKeepsRunner DEF AlreadyRunning
<1>4. handle' \in Slots /\ thread' \in [Threads -> ThreadRecords]
  BY JoinKeepsTypes DEF AlreadyRunning, JoinFinishedThread
<1> QED BY <1>2, <1>3, <1>4 DEF Types, AlreadyRunning, configuration

LEMMA StopKeeps ==
  ASSUME Types, RunnerInv, Stop
  PROVE  Types' /\ RunnerInv'
<1>1. Quiet  BY DEF Stop, Quiet, Does
<1> QED BY <1>1, RequestKeeps DEF Types, Stop, configuration

LEMMA StopAndWaitKeeps ==
  ASSUME Types, RunnerInv, NEW why \in {"reload", "update"}, StopAndWait(why)
  PROVE  Types' /\ RunnerInv'
<1>1. job' \in Jobs /\ Quiet  BY DEF StopAndWait, Jobs, WaitJobs, Quiet, Does, Idle
<1>2. RunnerInv'  BY <1>1, QuietStep DEF StopAndWait
<1> QED BY <1>1, <1>2 DEF Types, StopAndWait, supervisor, configuration

\* What becomes of the command that waited.
LEMMA WaitEnds ==
  ASSUME job \in Jobs, Does("wait"), NEW ok \in BOOLEAN, AfterWait(ok)
  PROVE  job' \in Jobs /\ Quiet
<1>1. CASE ~ Saves  BY <1>1 DEF AfterWait, Jobs, Quiet, Does
<1>2. CASE Saves
  <2>1. job \in SaveJobs  BY <1>2, JobKinds
  <2>2. job' \in SaveJobs /\ job'.step \in {"set_login", "given_up"}
    BY <1>2, <2>1, StepOfSave DEF AfterWait, Forward
  <2> QED BY <2>2 DEF Jobs, Quiet, Does
<1> QED BY <1>1, <1>2

LEMMA WaitKeeps ==
  ASSUME Types, RunnerInv, Wait
  PROVE  Types' /\ RunnerInv'
<1>1. Does("wait") /\ job \in Jobs  BY DEF Types, Wait
<1>2. job' \in Jobs /\ Quiet
  <2>1. CASE job' = job  BY <1>1, <2>1 DEF Quiet, Does
  <2>2. CASE \E ok \in BOOLEAN : AfterWait(ok)  BY <1>1, <2>2, WaitEnds
  <2> QED BY <2>1, <2>2 DEF Wait
<1>3. CASE Kept = NoThread /\ JoinFinishedThread /\ UNCHANGED snapshot
  <2>1. RunnerInv'  BY <1>2, <1>3, JoinKeepsRunner DEF Wait, Quiet
  <2>2. handle' \in Slots /\ thread' \in [Threads -> ThreadRecords]
    BY <1>3, JoinKeepsTypes DEF JoinFinishedThread
  <2> QED BY <1>2, <1>3, <2>1, <2>2 DEF Types, Wait, configuration
<1>4. CASE JoinAndRequestStop
  BY <1>2, <1>4, RequestKeeps DEF Types, Wait, configuration
<1> QED BY <1>3, <1>4 DEF Wait

LEMMA SaveKeeps ==
  ASSUME Types, RunnerInv, NEW target \in Configs, NEW restart_background \in BOOLEAN,
         Save(target, restart_background)
  PROVE  Types' /\ RunnerInv'
<1>1. job' \in SaveJobs /\ job'.step \in {"wait", "set_login"}
  BY DEF Save, Types, SaveJobs, Forward, Slots
<1>2. Quiet  BY <1>1 DEF Save, Quiet, Does
<1>3. RunnerInv'  BY <1>2, JoinKeepsRunner DEF Save, Quiet
<1>4. handle' \in Slots /\ thread' \in [Threads -> ThreadRecords]
  BY JoinKeepsTypes DEF Save, JoinFinishedThread
<1> QED BY <1>1, <1>3, <1>4 DEF Types, Save, Jobs, configuration

\* Where a step of a save, on its way or on its way back, leaves the command.
LEMMA SaveGoesOn ==
  ASSUME job \in SaveJobs, NEW ok \in BOOLEAN, NEW step \in {"sync"} \cup Forward \cup Backward,
         \/ Advance(ok, step) \/ Undone(ok, step)
  PROVE  job' \in SaveJobs /\ job'.step \in {step, "undo_file"}
<1>1. step \in StartSteps \cup Forward \cup Backward  BY DEF StartSteps
<1>2. CASE Advance(ok, step)
  BY <1>1, <1>2, StepOfSave, TurnsBack DEF Advance
<1>3. CASE Undone(ok, step)
  BY <1>1, <1>3, StepBack DEF Undone
<1> QED BY <1>2, <1>3

SaveSteps == {"set_login", "write_file", "replace", "undo_file", "undo_config", "undo_login"}

LEMMA SaveStepKeeps ==
  ASSUME Types, RunnerInv, NEW at \in SaveSteps, Does(at), UNCHANGED <<supervisor, thread>>,
         NEW ok \in BOOLEAN, NEW step \in {"sync"} \cup Forward \cup Backward,
         Advance(ok, step) \/ Undone(ok, step)
  PROVE  RunnerInv' /\ job' \in Jobs /\ job \in SaveJobs
<1>1. job \in SaveJobs  BY JobKinds DEF Types, SaveSteps, Forward, Backward
<1>2. job' \in SaveJobs /\ job'.step \in {step, "undo_file"}  BY <1>1, SaveGoesOn
<1>3. Quiet  BY <1>2 DEF Quiet, Does, SaveSteps, Forward, Backward
<1> QED BY <1>1, <1>2, <1>3, QuietStep DEF Jobs

LEMMA ForwardKeeps ==
  ASSUME Types, RunnerInv, SetLogin \/ WriteFile \/ ReplaceRuntimeConfig
  PROVE  Types' /\ RunnerInv'
<1>1. CASE SetLogin
  <2>1. RunnerInv' /\ job' \in Jobs /\ job \in SaveJobs
    BY <1>1, SaveStepKeeps DEF SetLogin, SaveSteps, Forward
  <2>2. login' \in BOOLEAN
    BY <1>1, <2>1, ConfigsAssumption DEF ConfigsAssumption, SetLogin, SaveJobs, Types
  <2> QED BY <1>1, <2>1, <2>2 DEF Types, SetLogin, supervisor
<1>2. CASE WriteFile
  <2>1. RunnerInv' /\ job' \in Jobs /\ job \in SaveJobs
    BY <1>2, SaveStepKeeps DEF WriteFile, SaveSteps, Forward
  <2>2. file' \in Configs  BY <1>2, <2>1 DEF WriteFile, SaveJobs, Types
  <2> QED BY <1>2, <2>1, <2>2 DEF Types, WriteFile, supervisor
<1>3. CASE ReplaceRuntimeConfig
  <2>1. RunnerInv' /\ job' \in Jobs /\ job \in SaveJobs
    BY <1>3, SaveStepKeeps DEF ReplaceRuntimeConfig, SaveSteps, Forward
  <2>2. applied' \in Configs  BY <1>3, <2>1 DEF ReplaceRuntimeConfig, SaveJobs, Types
  <2> QED BY <1>3, <2>1, <2>2 DEF Types, ReplaceRuntimeConfig, supervisor
<1> QED BY <1>1, <1>2, <1>3

LEMMA BackwardKeeps ==
  ASSUME Types, RunnerInv, UndoFile \/ UndoConfig \/ UndoLogin
  PROVE  Types' /\ RunnerInv'
<1>1. CASE UndoFile
  <2>1. RunnerInv' /\ job' \in Jobs /\ job \in SaveJobs
    BY <1>1, SaveStepKeeps DEF UndoFile, SaveSteps, Backward
  <2>2. file' \in Configs  BY <1>1, <2>1 DEF UndoFile, SaveJobs, Types
  <2> QED BY <1>1, <2>1, <2>2 DEF Types, UndoFile, supervisor
<1>2. CASE UndoConfig
  <2>1. RunnerInv' /\ job' \in Jobs /\ job \in SaveJobs
    BY <1>2, SaveStepKeeps DEF UndoConfig, SaveSteps, Backward
  <2>2. applied' \in Configs  BY <1>2, <2>1 DEF UndoConfig, SaveJobs, Types
  <2> QED BY <1>2, <2>1, <2>2 DEF Types, UndoConfig, supervisor
<1>3. CASE UndoLogin
  <2>1. RunnerInv' /\ job' \in Jobs /\ job \in SaveJobs
    BY <1>3, SaveStepKeeps DEF UndoLogin, SaveSteps, Backward
  <2>2. login' \in BOOLEAN  BY <1>3, <2>1 DEF UndoLogin, SaveJobs, Types
  <2> QED BY <1>3, <2>1, <2>2 DEF Types, UndoLogin, supervisor
<1> QED BY <1>1, <1>2, <1>3

LEMMA AnswerKeeps ==
  ASSUME Types, RunnerInv, Answer
  PROVE  Types' /\ RunnerInv'
<1>1. job' \in Jobs /\ Quiet  BY DEF Answer, Answered, Jobs, Quiet, Does
<1>2. RunnerInv'  BY <1>1, QuietStep DEF Answer
<1> QED BY <1>1, <1>2 DEF Types, Answer, supervisor, configuration

\* A save that is disturbed goes on where it was.
LEMMA DisturbIt ==
  ASSUME job \in Jobs, Disturb
  PROVE  /\ job' \in Jobs /\ (Saves' <=> Saves)
         /\ Does("keep")' = Does("keep") /\ Does("spawn")' = Does("spawn")
         /\ Does("keep") \/ Does("spawn") => job'.slot = job.slot
         /\ Saves => job'.disturbed
<1>1. CASE Saves
  <2>1. job \in SaveJobs  BY <1>1, JobKinds
  <2>2. job' \in SaveJobs /\ job'.step = job.step /\ job'.slot = job.slot /\ job'.disturbed
    BY <1>1, <2>1 DEF Disturb, SaveJobs
  <2> QED BY <1>1, <2>1, <2>2 DEF Jobs, SaveJobs, Saves, Does, Idle
<1>2. CASE ~ Saves  BY <1>2 DEF Disturb, Saves, Does
<1> QED BY <1>1, <1>2

LEMMA BesideKeeps ==
  ASSUME Types, RunnerInv, (\E c \in Configs : EditFile(c)) \/ DashboardReads \/ DashboardApplies
  PROVE  Types' /\ RunnerInv'
<1>1. job' = job \/ Disturb  BY DEF EditFile, DashboardReads, DashboardApplies
<1>2. /\ job' \in Jobs /\ Does("keep")' = Does("keep") /\ Does("spawn")' = Does("spawn")
      /\ Does("keep") \/ Does("spawn") => job'.slot = job.slot
  <2>1. CASE job' = job  BY <2>1 DEF Types, Does
  <2>2. CASE Disturb  BY <2>2, DisturbIt DEF Types
  <2> QED BY <1>1, <2>1, <2>2
<1>3. CASE \E c \in Configs : EditFile(c)
  <2>1. RunnerInv'  BY <1>2, <1>3, RunnerLeftAlone DEF EditFile, supervisor
  <2> QED BY <1>2, <1>3, <2>1 DEF Types, EditFile, supervisor
<1>4. CASE DashboardReads
  <2>1. RunnerInv'  BY <1>2, <1>4, RunnerLeftAlone DEF DashboardReads, supervisor
  <2> QED BY <1>2, <1>4, <2>1 DEF Types, DashboardReads, supervisor, configuration
<1>5. CASE DashboardApplies
  <2>1. RunnerInv'  BY <1>2, <1>5, JoinKeepsRunner DEF DashboardApplies
  <2>2. handle' \in Slots /\ thread' \in [Threads -> ThreadRecords]
    BY <1>5, JoinKeepsTypes DEF DashboardApplies, JoinFinishedThread
  <2> QED BY <1>2, <1>5, <2>1, <2>2 DEF Types, DashboardApplies
<1> QED BY <1>3, <1>4, <1>5

LEMMA SwitchKeeps ==
  ASSUME Types, RunnerInv, SwitchSecretStorage
  PROVE  Types' /\ RunnerInv'
<1>1. ~ Does("keep") /\ ~ Does("spawn")  BY DEF SwitchSecretStorage, Does
<1>2. Does("keep")' = Does("keep") /\ Does("spawn")' = Does("spawn")
  BY DEF SwitchSecretStorage, Does
<1>3. RunnerInv'  BY <1>1, <1>2, JoinKeepsRunner DEF SwitchSecretStorage
<1>4. handle' \in Slots /\ thread' \in [Threads -> ThreadRecords]
  BY JoinKeepsTypes DEF SwitchSecretStorage, JoinFinishedThread
<1> QED BY <1>3, <1>4 DEF Types, SwitchSecretStorage, configuration

----------------------------------------------------------------------------
LEMMA InitiallyKnown == Init => Types /\ RunnerInv
<1> SUFFICES ASSUME Init PROVE Types /\ RunnerInv
  OBVIOUS
<1>1. Types
  BY ConfigsAssumption
  DEF ConfigsAssumption, Init, Types, Slots, Gone, ThreadRecords, Jobs
<1> QED BY <1>1, ThreadsAssumption DEF ThreadsAssumption, Init, RunnerInv, Gone, Does

LEMMA NextKeeps == Types /\ RunnerInv /\ [Next]_vars => Types' /\ RunnerInv'
<1> SUFFICES ASSUME Types, RunnerInv, [Next]_vars PROVE Types' /\ RunnerInv'
  OBVIOUS
<1>1. CASE JobStep
  BY <1>1, SyncKeeps, AlreadyRunningKeeps, BeginStartKeeps, SpawnKeeps, KeepHandleKeeps,
     WaitKeeps, ForwardKeeps, BackwardKeeps, AnswerKeeps DEF JobStep
<1>2. CASE StartCommand  BY <1>2, StartCommandKeeps DEF StartCommand
<1>3. CASE \E why \in {"reload", "deferred"} : OwedStart(why)
  BY <1>3, StartCommandKeeps DEF OwedStart
<1>4. CASE Stop  BY <1>4, StopKeeps
<1>5. CASE \E why \in {"reload", "update"} : StopAndWait(why)  BY <1>5, StopAndWaitKeeps
<1>6. CASE \E target \in Configs, restart_background \in BOOLEAN : Save(target, restart_background)
  BY <1>6, SaveKeeps
<1>7. CASE \E t \in Threads : SeesFlag(t) \/ Fails(t) \/ Finishes(t)
  BY <1>7, ThreadGoesOn DEF SeesFlag, Fails, Finishes
<1>8. CASE \E t \in Threads : Reports(t)  BY <1>8, ReportsKeeps
<1>9. CASE (\E c \in Configs : EditFile(c)) \/ DashboardReads \/ DashboardApplies
  BY <1>9, BesideKeeps
<1>10. CASE SwitchSecretStorage  BY <1>10, SwitchKeeps
<1>11. CASE UNCHANGED vars
  <2>1. UNCHANGED <<handle, requested, snapshot, thread, file, applied, login, dashboard, job>>
    BY <1>11 DEF vars, supervisor, configuration
  <2>2. RunnerInv'  BY <2>1, RunnerLeftAlone DEF Does
  <2> QED BY <2>1, <2>2 DEF Types
<1> QED
  BY <1>1, <1>2, <1>3, <1>4, <1>5, <1>6, <1>7, <1>8, <1>9, <1>10, <1>11 DEF Next

\* The supervisor's fields have their kinds, and it knows of every thread of
\* the runner that is not gone (background.rs: DesktopBackgroundState).
THEOREM RunnerIsKnown == Spec => [](Types /\ RunnerInv)
  BY InitiallyKnown, NextKeeps, PTL DEF Spec

\* The flag, the snapshot and the handle are those of the thread that serves
\* (background.rs: start, stop and the end of the runner's thread).
THEOREM StopReaches == Spec => []StopsReachTheRunner
<1>1. Types /\ RunnerInv => StopsReachTheRunner
  BY DEF RunnerInv, StopsReachTheRunner, Serves
<1> QED BY <1>1, RunnerIsKnown, PTL

LEMMA ChangeFindsNobody ==
  ASSUME Types, RunnerInv, [Next]_vars,
         vault' # vault \/ (Does("wait") /\ job' # Idle /\ job'.step = "set_login")
  PROVE  \A t \in Threads : ~ Serves(t)
<1>1. CASE vault' # vault
  <2>1. SwitchSecretStorage
    BY <1>1 DEF Next, vars, JobStep, SyncFromDisk, AlreadyRunning, BeginStart, Spawn, KeepHandle,
       Wait, SetLogin, WriteFile, ReplaceRuntimeConfig, UndoFile, UndoConfig, UndoLogin, Answer,
       StartCommand, OwedStart, Stop, StopAndWait, Save, SeesFlag, Fails, Reports, Finishes,
       EditFile, DashboardReads, DashboardApplies
  <2> QED BY <2>1 DEF SwitchSecretStorage, RunnerInv, Serves
<1>2. CASE vault' = vault /\ Does("wait") /\ job' # Idle /\ job'.step = "set_login"
  <2>1. job # Idle /\ job.step = "wait" /\ job \in Jobs  BY <1>2 DEF Does, Types
  <2>2. ~ Disturb
    <3>1. ASSUME Disturb PROVE job'.step = "wait"
      <4>1. CASE Saves
        <5>1. job \in SaveJobs  BY <2>1, <4>1, JobKinds
        <5> QED BY <2>1, <3>1, <4>1, <5>1 DEF Disturb, SaveJobs
      <4> QED BY <2>1, <3>1, <4>1 DEF Disturb
    <3> QED BY <1>2, <3>1
  <2>3. Wait
    BY <1>2, <2>1, <2>2 DEF Next, vars, JobStep, Does, SyncFromDisk, AlreadyRunning, BeginStart,
       Spawn, KeepHandle, SetLogin, WriteFile, ReplaceRuntimeConfig, UndoFile, UndoConfig,
       UndoLogin, Answer, Answered, StartCommand, OwedStart, Stop, StopAndWait, Save, SeesFlag,
       Fails, Reports, Finishes, EditFile, DashboardReads, DashboardApplies, SwitchSecretStorage
  <2>4. ~ AfterWait(FALSE)
    <3>1. ASSUME AfterWait(FALSE), Saves PROVE job'.step = "given_up"
      BY <2>1, <3>1, JobKinds, StepOfSave DEF AfterWait, Forward
    <3> QED BY <1>2, <3>1 DEF AfterWait
  <2>5. Kept = NoThread  BY <1>2, <2>1, <2>3, <2>4 DEF Wait
  <2> QED BY <2>1, <2>5, NobodyThere DEF Does
<1> QED BY <1>1, <1>2

\* A vault is switched, and a save goes past its wait, only when no thread
\* serves (security.rs: ensure_secret_storage_idle; background.rs: stop_and_wait).
THEOREM NothingServes == Spec => NothingServesUnderAChange
<1>1. /\ Types /\ RunnerInv /\ [Next]_vars
      => [vault' # vault \/ (Does("wait") /\ job' # Idle /\ job'.step = "set_login")
           => \A t \in Threads : ~ Serves(t)]_vars
  BY ChangeFindsNobody
<1> QED BY <1>1, RunnerIsKnown, PTL DEF Spec, NothingServesUnderAChange

----------------------------------------------------------------------------
(* What a save leaves behind. *)

\* A save that goes on without a write to what it watches.
LEMMA SaveLooksOn ==
  ASSUME SaveInv, UNCHANGED <<file, applied, login, job>>,
         handle' \in {handle, NoThread},
         SlotRuns(job.target) => SlotRuns(job.target)',
         SlotRuns(job.previous_file) => SlotRuns(job.previous_file)',
         handle' # NoThread => thread'[handle'].config = thread[handle].config
  PROVE  SaveInv'
<1>1. SaveShape'  BY DEF SaveInv, SaveShape, Saves
<1>2. Progress => Progress'
  BY DEF Progress, AsItWas, Untouched, RunnerRuns, Does
<1> QED BY <1>1, <1>2 DEF SaveInv, Saves

LEMMA ThreadStepSaves ==
  ASSUME IInv, NEW t \in Threads, SeesFlag(t) \/ Fails(t) \/ Reports(t) \/ Finishes(t)
  PROVE  SaveInv'
<1>1. /\ UNCHANGED <<file, applied, login, job, handle>>
      /\ \A u \in Threads : thread'[u].config = thread[u].config
  BY DEF IInv, Types, ThreadRecords, SeesFlag, Fails, Reports, Finishes, Moves, supervisor, configuration
<1>2. handle # NoThread => handle \in Threads  BY DEF IInv, Types, Slots
<1> QED BY <1>1, <1>2, SaveLooksOn DEF IInv, SlotRuns

\* Joining a finished thread takes nothing from a save.
LEMMA JoinSaves ==
  ASSUME IInv, JoinFinishedThread
  PROVE  /\ handle' \in {handle, NoThread}
         /\ Does("spawn") \/ Does("keep") => UNCHANGED thread
         /\ handle' # NoThread => thread'[handle'].config = thread[handle].config
  BY DEF IInv, RunnerInv, JoinFinishedThread, Kept, Left, Finished

LEMMA BesideSaves ==
  ASSUME IInv, (\E c \in Configs : EditFile(c)) \/ DashboardReads \/ DashboardApplies
  PROVE  SaveInv'
<1>1. CASE Disturb /\ handle' \in {handle, NoThread}
  <2>1. CASE ~ Saves  BY <1>1, <2>1 DEF Disturb, SaveInv, SaveShape, Saves
  <2>2. CASE Saves
    <3>1. job \in SaveJobs  BY <2>2, JobKinds DEF IInv, Types
    <3>2. /\ job' \in SaveJobs /\ job'.disturbed /\ job'.step = job.step
          /\ job'.restart = job.restart /\ job'.undoing = job.undoing
      BY <1>1, <2>2, <3>1 DEF Disturb, SaveJobs
    <3>3. SaveShape'  BY <1>1, <2>2, <3>2 DEF IInv, SaveInv, SaveShape
    <3> QED BY <3>2, <3>3 DEF SaveInv
  <2> QED BY <2>1, <2>2
<1>2. CASE \E c \in Configs : EditFile(c)  BY <1>1, <1>2 DEF EditFile, supervisor
<1>3. CASE DashboardReads
  BY <1>3, SaveLooksOn DEF DashboardReads, supervisor, configuration, IInv, SlotRuns
<1>4. CASE DashboardApplies
  <2>1. JoinFinishedThread  BY <1>4 DEF DashboardApplies
  <2>2. CASE Disturb  BY <1>1, <2>1, <2>2, JoinSaves
  <2>3. CASE dashboard = file /\ UNCHANGED job
    <3>1. applied' = file /\ UNCHANGED <<file, login, job>>
      BY <1>4, <2>3 DEF DashboardApplies
    <3>2. SaveShape'  BY <2>1, <3>1, JoinSaves DEF IInv, SaveInv, SaveShape, Saves
    <3>3. ASSUME Saves, Progress PROVE Progress'
      <4>1. job # Idle  BY <3>3 DEF Saves, Idle
      <4>2. /\ handle' \in {handle, NoThread}
            /\ job.step \in {"spawn", "keep"} => UNCHANGED thread
            /\ handle' # NoThread => thread'[handle'].config = thread[handle].config
        BY <2>1, <4>1, JoinSaves DEF Does
      <4>3. AsItWas => AsItWas'  BY <3>1 DEF AsItWas
      <4>4. Untouched => Untouched'  BY <3>1 DEF Untouched
      <4>5. \A c \in Configs : RunnerRuns(c) => RunnerRuns(c)'
        BY <3>1, <4>2 DEF RunnerRuns
      <4>6. \A c \in Configs : job.step \in {"spawn", "keep"} /\ SlotRuns(c) => SlotRuns(c)'
        BY <3>1, <4>2 DEF SlotRuns
      <4>7. job.target \in Configs /\ job.previous_file \in Configs
        BY <3>3, JobKinds DEF IInv, Types, SaveJobs
      <4> QED
        BY <3>1, <3>3, <4>1, <4>3, <4>4, <4>5, <4>6, <4>7
        DEF Progress, Untouched, AsItWas, Does, StartSteps
    <3> QED BY <3>1, <3>2, <3>3 DEF IInv, SaveInv, Saves
  <2> QED BY <1>4, <2>2, <2>3 DEF DashboardApplies
<1> QED BY <1>2, <1>3, <1>4

\* A step that is not of a save, or ends one, or begins one.
LEMMA NoSaveSaves ==
  ASSUME ~ Saves'
  PROVE  SaveInv'
  BY DEF SaveInv, SaveShape

LEMMA SaveSaves ==
  ASSUME IInv, NEW target \in Configs, NEW restart_background \in BOOLEAN,
         Save(target, restart_background)
  PROVE  SaveInv'
<1>1. /\ job'.step \in {"wait", "set_login"} /\ (job'.restart => job'.step = "wait")
      /\ ~ job'.undoing /\ job' # Idle
      /\ job'.previous_file = file /\ job'.previous_config = applied /\ job'.previous_login = login
      /\ UNCHANGED <<file, applied, login>>
  BY DEF Save, Idle, configuration
<1>2. SaveShape'  BY <1>1 DEF SaveShape, StartSteps, Forward, Backward
<1>3. Progress'  BY <1>1 DEF Progress, AsItWas, Does, StartSteps
<1> QED BY <1>2, <1>3 DEF SaveInv

\* Which way a save goes, by its step, and that nothing runs while it writes.
LEMMA WayOfSave ==
  ASSUME IInv, Saves
  PROVE  /\ job \in SaveJobs /\ job # Idle
         /\ job.step \in Forward => ~ job.undoing
         /\ job.step \in Backward => job.undoing
         /\ job.step \in StartSteps => job.restart
         /\ job.restart /\ job.step \in StartSteps \cup SaveSteps => handle = NoThread
<1>1. job \in SaveJobs  BY JobKinds DEF IInv, Types
<1> QED BY <1>1 DEF IInv, SaveInv, SaveShape, SaveSteps, SaveJobs, Idle, Forward, Backward, StartSteps

\* A failed step turns a save that had come so far around.
LEMMA TurnSaves ==
  ASSUME IInv, Saves, job.step \in {"set_login", "write_file", "replace"} \cup StartSteps,
         job' = [job EXCEPT !.step = "undo_file", !.undoing = TRUE], handle' = NoThread \/ ~ job.restart
  PROVE  SaveInv'
<1>1. job' \in SaveJobs /\ job'.step = "undo_file" /\ job'.undoing /\ job'.restart = job.restart
  BY WayOfSave, TurnsBack
<1>2. SaveShape'  BY <1>1 DEF SaveShape, StartSteps, Forward
<1>3. Progress'  BY <1>1 DEF Progress, Does, StartSteps
<1> QED BY <1>2, <1>3 DEF SaveInv

LEMMA WaitSaves ==
  ASSUME IInv, Wait
  PROVE  SaveInv'
<1>1. CASE ~ Saves
  <2>1. ~ Saves'  BY <1>1 DEF Wait, AfterWait, Saves, Idle
  <2> QED BY <2>1, NoSaveSaves
<1>2. CASE Saves
  <2>1. /\ job \in SaveJobs /\ job.step = "wait" /\ ~ job.undoing
        /\ UNCHANGED <<file, applied, login>>
        /\ ~ job.disturbed => AsItWas
    BY <1>2, WayOfSave DEF Wait, Does, Forward, IInv, SaveInv, Progress, configuration
  <2>2. \/ job' = job
        \/ job' = Step("set_login") /\ handle' = NoThread
        \/ job' = Step("given_up")
    BY <1>2 DEF Wait, AfterWait, JoinFinishedThread
  <2>3. /\ job' \in SaveJobs /\ job'.step \in {"wait", "set_login", "given_up"}
        /\ job'.step = "set_login" => handle' = NoThread
        /\ job'.undoing = job.undoing /\ job'.disturbed = job.disturbed
        /\ job'.previous_file = job.previous_file /\ job'.previous_config = job.previous_config
        /\ job'.previous_login = job.previous_login
    BY <2>1, <2>2, StepOfSave DEF Forward
  <2>4. SaveShape'
    BY <2>1, <2>3 DEF SaveShape, StartSteps, Forward, Backward
  <2>5. ~ job'.disturbed => Progress'
    BY <2>1, <2>3 DEF Progress, AsItWas, Does, StartSteps
  <2> QED BY <2>4, <2>5 DEF SaveInv
<1> QED BY <1>1, <1>2

LEMMA ForwardSaves ==
  ASSUME IInv, SetLogin \/ WriteFile \/ ReplaceRuntimeConfig
  PROVE  SaveInv'
<1>1. Saves /\ handle' = handle /\ job.step \in {"set_login", "write_file", "replace"}
  BY JobKinds DEF IInv, Types, SetLogin, WriteFile, ReplaceRuntimeConfig, Does, Forward, supervisor
<1>2. job \in SaveJobs /\ ~ job.undoing /\ (job.restart => handle = NoThread)
  BY <1>1, WayOfSave DEF Forward, SaveSteps
<1>3. \/ job' = [job EXCEPT !.step = "undo_file", !.undoing = TRUE]
      \/ SetLogin /\ job' = Step("write_file") /\ login' = job.target.launch_at_login
      \/ WriteFile /\ job' = Step("replace") /\ file' = job.target
      \/ ReplaceRuntimeConfig /\ applied' = job.target
         /\ job' = Step(IF job.restart THEN "sync" ELSE "saved")
  BY DEF SetLogin, WriteFile, ReplaceRuntimeConfig, Advance
<1>4. CASE job' = [job EXCEPT !.step = "undo_file", !.undoing = TRUE]
  BY <1>1, <1>2, <1>4, TurnSaves
<1>5. CASE SetLogin /\ job' = Step("write_file") /\ login' = job.target.launch_at_login
  <2>1. /\ job' \in SaveJobs /\ job'.step = "write_file" /\ ~ job'.undoing
        /\ job'.restart = job.restart /\ job'.disturbed = job.disturbed
        /\ job'.previous_file = job.previous_file /\ job'.previous_config = job.previous_config
        /\ job'.target = job.target
    BY <1>2, <1>5, StepOfSave DEF Forward
  <2>2. ~ job.disturbed => AsItWas
    BY <1>1, <1>5 DEF IInv, SaveInv, Progress, SetLogin, Does
  <2>3. SaveShape'  BY <1>1, <1>2, <2>1 DEF SaveShape, StartSteps, Backward
  <2>4. ~ job'.disturbed => Progress'
    BY <1>5, <2>1, <2>2 DEF Progress, Untouched, AsItWas, Does, StartSteps, SetLogin
  <2> QED BY <2>3, <2>4 DEF SaveInv
<1>6. CASE WriteFile /\ job' = Step("replace") /\ file' = job.target
  <2>1. /\ job' \in SaveJobs /\ job'.step = "replace" /\ ~ job'.undoing
        /\ job'.restart = job.restart /\ job'.disturbed = job.disturbed
        /\ job'.target = job.target
    BY <1>2, <1>6, StepOfSave DEF Forward
  <2>2. ~ job.disturbed => login = job.target.launch_at_login
    BY <1>1, <1>6 DEF IInv, SaveInv, Progress, WriteFile, Does
  <2>3. SaveShape'  BY <1>1, <1>2, <2>1 DEF SaveShape, StartSteps, Backward
  <2>4. ~ job'.disturbed => Progress'
    BY <1>6, <2>1, <2>2 DEF Progress, Does, StartSteps, WriteFile
  <2> QED BY <2>3, <2>4 DEF SaveInv
<1>7. CASE /\ ReplaceRuntimeConfig /\ applied' = job.target
           /\ job' = Step(IF job.restart THEN "sync" ELSE "saved")
  <2>1. /\ job' \in SaveJobs /\ job'.step = (IF job.restart THEN "sync" ELSE "saved")
        /\ ~ job'.undoing
        /\ job'.restart = job.restart /\ job'.disturbed = job.disturbed
        /\ job'.target = job.target
    BY <1>2, <1>7, StepOfSave DEF Forward, StartSteps
  <2>2. ~ job.disturbed => file = job.target /\ login = job.target.launch_at_login
    BY <1>1, <1>7 DEF IInv, SaveInv, Progress, ReplaceRuntimeConfig, Does
  <2>3. SaveShape'  BY <1>1, <1>2, <2>1 DEF SaveShape, StartSteps, Forward, Backward
  <2>4. ~ job'.disturbed => Progress'
    BY <1>7, <2>1, <2>2 DEF Progress, Does, StartSteps, ReplaceRuntimeConfig, RunnerRuns
  <2> QED BY <2>3, <2>4 DEF SaveInv
<1> QED BY <1>3, <1>4, <1>5, <1>6, <1>7

LEMMA BackwardSaves ==
  ASSUME IInv, UndoFile \/ UndoConfig \/ UndoLogin
  PROVE  SaveInv'
<1>1. Saves /\ handle' = handle /\ job.step \in {"undo_file", "undo_config", "undo_login"}
  BY JobKinds DEF IInv, Types, UndoFile, UndoConfig, UndoLogin, Does, Backward, supervisor
<1>2. job \in SaveJobs /\ job.undoing /\ (job.restart => handle = NoThread)
  BY <1>1, WayOfSave DEF Backward, SaveSteps
<1>3. CASE UndoFile
  <2>1. PICK ok \in BOOLEAN : /\ file' = (IF ok THEN job.previous_file ELSE file)
                              /\ Undone(ok, "undo_config")
    BY <1>3 DEF UndoFile
  <2>2. /\ job' \in SaveJobs /\ job'.step = "undo_config" /\ job'.undoing
        /\ job'.restart = job.restart /\ job'.clean = (job.clean /\ ok)
        /\ job'.previous_file = job.previous_file
    BY <1>2, <2>1, StepBack DEF Undone, Backward
  <2>3. SaveShape'  BY <1>1, <1>2, <2>2 DEF SaveShape, StartSteps, Forward
  <2>4. Progress'  BY <2>1, <2>2 DEF Progress, Does, StartSteps
  <2> QED BY <2>3, <2>4 DEF SaveInv
<1>4. CASE UndoConfig
  <2>1. PICK ok \in BOOLEAN : /\ applied' = (IF ok THEN job.previous_config ELSE applied)
                              /\ Undone(ok, "undo_login")
    BY <1>4 DEF UndoConfig
  <2>2. /\ job' \in SaveJobs /\ job'.step = "undo_login" /\ job'.undoing
        /\ job'.restart = job.restart /\ job'.clean = (job.clean /\ ok)
        /\ job'.previous_file = job.previous_file /\ job'.previous_config = job.previous_config
        /\ job'.disturbed = job.disturbed
    BY <1>2, <2>1, StepBack DEF Undone, Backward
  <2>3. ~ job.disturbed /\ job.clean => file = job.previous_file
    BY <1>1, <1>4 DEF IInv, SaveInv, Progress, UndoConfig, Does
  <2>4. SaveShape'  BY <1>1, <1>2, <2>2 DEF SaveShape, StartSteps, Forward
  <2>5. ~ job'.disturbed => Progress'
    BY <1>4, <2>1, <2>2, <2>3 DEF Progress, Untouched, Does, StartSteps, UndoConfig
  <2> QED BY <2>4, <2>5 DEF SaveInv
<1>5. CASE UndoLogin
  <2>1. PICK ok \in BOOLEAN : /\ login' \in {job.previous_login} \cup (IF ok THEN {} ELSE {login})
                              /\ Undone(ok, IF job.restart THEN "sync" ELSE "undone")
    BY <1>5 DEF UndoLogin
  <2>2. /\ job' \in SaveJobs /\ job'.step = (IF job.restart THEN "sync" ELSE "undone")
        /\ job'.undoing /\ job'.restart = job.restart /\ job'.clean = (job.clean /\ ok)
        /\ job'.previous_file = job.previous_file /\ job'.previous_config = job.previous_config
        /\ job'.previous_login = job.previous_login /\ job'.disturbed = job.disturbed
    <3> DEFINE step == IF job.restart THEN "sync" ELSE "undone"
    <3>1. step \in StartSteps \cup Forward \cup Backward
      BY DEF StartSteps, Backward
    <3> HIDE DEF step
    <3>2. job' = [job EXCEPT !.step = step, !.clean = @ /\ ok]
      BY <2>1 DEF Undone, step
    <3>3. /\ job' \in SaveJobs /\ job'.step = step
          /\ job'.clean = (job.clean /\ ok)
          /\ job'.target = job.target /\ job'.restart = job.restart
          /\ job'.previous_file = job.previous_file /\ job'.previous_config = job.previous_config
          /\ job'.previous_login = job.previous_login /\ job'.slot = job.slot
          /\ job'.undoing = job.undoing /\ job'.disturbed = job.disturbed
      BY <1>2, <2>1, <3>1, <3>2, StepBack
    <3> QED BY <1>2, <3>3 DEF step
  <2>3. ~ job.disturbed /\ job.clean => Untouched
    <3>1. ~ job.disturbed => Progress
      BY <1>1 DEF IInv, SaveInv
    <3>2. Does("undo_login")
      BY <1>5 DEF UndoLogin
    <3> QED BY <3>1, <3>2 DEF Progress
  <2>4. SaveShape'  BY <1>1, <1>2, <2>2 DEF SaveShape, StartSteps, Forward, Backward
  <2>5. ~ job'.disturbed => Progress'
    BY <1>5, <2>1, <2>2, <2>3
    DEF Progress, Untouched, AsItWas, RunnerRuns, Does, StartSteps, UndoLogin
  <2> QED BY <2>4, <2>5 DEF SaveInv
<1> QED BY <1>3, <1>4, <1>5

\* What the way so far means for a save that starts the runner.
Runs == IF job.undoing THEN job.previous_file ELSE job.target

\* A start that fails sends a save back, or is one more step back that failed.
LEMMA FailedStartSaves ==
  ASSUME IInv, Saves, job.step \in StartSteps, job' = AfterStart(FALSE), handle' = NoThread
  PROVE  SaveInv'
<1>1. job \in SaveJobs  BY WayOfSave
<1>2. CASE ~ job.undoing
  <2>1. job' = [job EXCEPT !.step = "undo_file", !.undoing = TRUE]
    BY <1>2 DEF AfterStart
  <2> QED BY <2>1, TurnSaves
<1>3. CASE job.undoing
  <2>1. /\ job' \in SaveJobs /\ job'.step = "undone" /\ job'.undoing /\ ~ job'.clean
    BY <1>1, <1>3, StepBack DEF AfterStart, Backward
  <2>2. SaveShape'  BY <2>1 DEF SaveShape, StartSteps, Forward
  <2>3. Progress'  BY <2>1 DEF Progress, Does, StartSteps
  <2> QED BY <2>2, <2>3 DEF SaveInv
<1> QED BY <1>2, <1>3

\* A start of a save goes on to its next step.
LEMMA StartSaves ==
  ASSUME IInv, Saves, job.step \in {"sync", "begin", "spawn"},
         NEW step \in {"begin", "spawn", "keep"},
         job' \in SaveJobs, job'.step = step, job'.target = job.target, job'.restart = job.restart,
         job'.previous_file = job.previous_file, job'.previous_config = job.previous_config,
         job'.previous_login = job.previous_login,
         job'.undoing = job.undoing, job'.clean = job.clean, job'.disturbed = job.disturbed,
         UNCHANGED <<file, login>>, handle' = NoThread,
         applied' = applied \/ applied' = file,
         step = "begin" => applied' = file,
         step \in {"spawn", "keep"} => SlotRuns(Runs)' \/ job.disturbed \/ (job.undoing /\ ~ job.clean)
  PROVE  SaveInv'
<1>1. job.restart /\ job \in SaveJobs /\ job.step \in StartSteps
  BY WayOfSave DEF StartSteps
<1>2. SaveShape'  BY <1>1 DEF SaveShape, StartSteps, Forward, Backward
<1>3. ASSUME ~ job.disturbed PROVE Progress'
  <2>1. Progress  BY <1>3 DEF IInv, SaveInv
  <2>2. CASE ~ job.undoing
    <3>1. file = job.target /\ applied = job.target /\ login = job.target.launch_at_login
      BY <1>1, <2>1, <2>2 DEF Progress
    <3>2. step \in {"spawn", "keep"} => SlotRuns(job.target)'
      BY <1>3, <2>2 DEF Runs
    <3> QED BY <2>2, <3>1, <3>2 DEF Progress, Does, StartSteps
  <2>3. CASE job.undoing /\ ~ job.clean
    BY <2>3 DEF Progress, Does, StartSteps
  <2>4. CASE job.undoing /\ job.clean
    <3>1. AsItWas  BY <1>1, <2>1, <2>4 DEF Progress
    <3>2. AsItWas'  BY <3>1 DEF AsItWas
    <3>3. step \in {"spawn", "keep"} => SlotRuns(job.previous_file)'
      BY <1>3, <2>4 DEF Runs
    <3> QED BY <2>4, <3>1, <3>2, <3>3 DEF Progress, AsItWas, Does, StartSteps
  <2> QED BY <2>2, <2>3, <2>4
<1> QED BY <1>2, <1>3 DEF SaveInv

LEMMA SyncSaves ==
  ASSUME IInv, SyncFromDisk
  PROVE  SaveInv'
<1>1. CASE ~ Saves
  <2>1. ~ Saves'
    BY <1>1, StepOfStart, JobKinds
    DEF SyncFromDisk, AfterStart, IInv, Types, StartSteps, Saves, Idle
  <2> QED BY <2>1, NoSaveSaves
<1>2. CASE Saves
  <2>1. job \in SaveJobs /\ job.step = "sync" /\ handle' = NoThread
    BY <1>2, WayOfSave DEF SyncFromDisk, Does, StartSteps, supervisor
  <2>2. CASE job' = AfterStart(FALSE)  BY <1>2, <2>1, <2>2, FailedStartSaves DEF StartSteps
  <2>3. CASE job' = Step("begin") /\ applied' = file
    <3>1. /\ job' \in SaveJobs /\ job'.step = "begin"
          /\ job'.target = job.target /\ job'.restart = job.restart
          /\ job'.previous_file = job.previous_file /\ job'.previous_config = job.previous_config
          /\ job'.previous_login = job.previous_login
          /\ job'.undoing = job.undoing /\ job'.clean = job.clean
          /\ job'.disturbed = job.disturbed
      BY <2>1, <2>3, StepOfSave DEF StartSteps
    <3>2. UNCHANGED <<file, login>>  BY DEF SyncFromDisk
    <3> QED BY <1>2, <2>1, <2>3, <3>1, <3>2, StartSaves
  <2> QED BY <2>2, <2>3 DEF SyncFromDisk
<1> QED BY <1>1, <1>2

LEMMA BeginSaves ==
  ASSUME IInv, BeginStart
  PROVE  SaveInv'
<1>1. CASE ~ Saves
  <2>1. ~ Saves'
    BY <1>1, BeginStartKeeps, TakesSlot, JobKinds
    DEF BeginStart, IInv, Types, StartSteps, Saves
  <2> QED BY <2>1, NoSaveSaves
<1>2. CASE Saves
  <2>1. job \in SaveJobs /\ job.step = "begin"
    BY <1>2, WayOfSave DEF BeginStart, Does
  <2>2. FreeSlot \in Threads  BY BeginStartKeeps DEF IInv
  <2>3. /\ job' \in SaveJobs /\ job'.step = "spawn" /\ job'.slot = FreeSlot
        /\ job'.target = job.target /\ job'.restart = job.restart
        /\ job'.previous_file = job.previous_file /\ job'.previous_config = job.previous_config
        /\ job'.previous_login = job.previous_login
        /\ job'.undoing = job.undoing /\ job'.clean = job.clean
        /\ job'.disturbed = job.disturbed
    BY <2>1, <2>2 DEF BeginStart, SaveJobs, Slots, StartSteps
  <2>4. SlotRuns(applied)'
    BY <2>2, <2>3, JoinKeepsTypes DEF BeginStart, SlotRuns, IInv, configuration
  <2>5. applied = Runs \/ job.disturbed \/ (job.undoing /\ ~ job.clean)
    BY <1>2, <2>1, WayOfSave DEF IInv, SaveInv, Progress, Runs, Does, StartSteps
  <2>6. Runs' = Runs /\ applied' = applied  BY <2>3 DEF Runs, BeginStart, configuration
  <2>7. SlotRuns(Runs)' \/ job.disturbed \/ (job.undoing /\ ~ job.clean)
    BY <2>4, <2>5, <2>6 DEF SlotRuns
  <2>8. UNCHANGED <<file, login, applied>> /\ handle' = NoThread  BY DEF BeginStart, configuration
  <2> QED BY <1>2, <2>1, <2>3, <2>7, <2>8, StartSaves
<1> QED BY <1>1, <1>2

LEMMA SpawnSaves ==
  ASSUME IInv, Spawn
  PROVE  SaveInv'
<1>1. CASE ~ Saves
  <2>1. ~ Saves'
    BY <1>1, StepOfStart, JobKinds
    DEF Spawn, AfterStart, IInv, Types, StartSteps, Saves, Idle
  <2> QED BY <2>1, NoSaveSaves
<1>2. CASE Saves
  <2>1. /\ job \in SaveJobs /\ job.step = "spawn" /\ handle' = NoThread /\ job.slot \in Threads
        /\ UNCHANGED <<file, login, applied>>
    BY <1>2, WayOfSave DEF Spawn, Does, StartSteps, supervisor, configuration, IInv, RunnerInv
  <2>2. CASE job' = AfterStart(FALSE)  BY <1>2, <2>1, <2>2, FailedStartSaves DEF StartSteps
  <2>3. CASE job' = Step("keep") /\ thread' = [thread EXCEPT ![job.slot].at = "serving"]
    <3>1. /\ job' \in SaveJobs /\ job'.step = "keep" /\ job'.slot = job.slot
          /\ job'.target = job.target /\ job'.restart = job.restart
          /\ job'.previous_file = job.previous_file /\ job'.previous_config = job.previous_config
          /\ job'.previous_login = job.previous_login
          /\ job'.undoing = job.undoing /\ job'.clean = job.clean
          /\ job'.disturbed = job.disturbed
      BY <2>1, <2>3, StepOfSave DEF StartSteps
    <3>2. thread'[job.slot].config = thread[job.slot].config
      BY <2>1, <2>3 DEF IInv, Types, ThreadRecords
    <3>3. SlotRuns(Runs) \/ job.disturbed \/ (job.undoing /\ ~ job.clean)
      BY <1>2, <2>1, WayOfSave DEF IInv, SaveInv, Progress, Runs, StartSteps
    <3>4. Runs' = Runs  BY <3>1 DEF Runs
    <3>5. SlotRuns(Runs)' \/ job.disturbed \/ (job.undoing /\ ~ job.clean)
      BY <3>1, <3>2, <3>3, <3>4 DEF SlotRuns
    <3> QED BY <1>2, <2>1, <3>1, <3>5, StartSaves
  <2> QED BY <2>2, <2>3 DEF Spawn
<1> QED BY <1>1, <1>2

LEMMA KeepSaves ==
  ASSUME IInv, KeepHandle
  PROVE  SaveInv'
<1>1. CASE ~ Saves
  <2>1. ~ Saves'  BY <1>1 DEF KeepHandle, AfterStart, Saves, Idle
  <2> QED BY <2>1, NoSaveSaves
<1>2. CASE Saves
  <2>1. /\ job \in SaveJobs /\ job.step = "keep" /\ job.restart /\ job.slot \in Threads
        /\ handle' = job.slot /\ UNCHANGED <<file, login, applied, thread>>
    BY <1>2, WayOfSave DEF KeepHandle, Does, StartSteps, configuration, IInv, RunnerInv
  <2>2. CASE ~ job.undoing
    <3>1. /\ job' \in SaveJobs /\ job'.step = "saved" /\ ~ job'.undoing
          /\ job'.target = job.target /\ job'.disturbed = job.disturbed
      BY <1>2, <2>1, <2>2, StepOfSave DEF KeepHandle, AfterStart, Forward
    <3>2. ~ job.disturbed => /\ file = job.target /\ applied = job.target
                             /\ login = job.target.launch_at_login
                             /\ thread[job.slot].config = job.target
      BY <1>2, <2>1, <2>2 DEF IInv, SaveInv, Progress, SlotRuns, StartSteps
    <3>3. SaveShape'  BY <3>1 DEF SaveShape, StartSteps, Backward
    <3>4. ~ job'.disturbed => Progress'
      BY <2>1, <3>1, <3>2 DEF Progress, RunnerRuns, Does, StartSteps
    <3> QED BY <3>3, <3>4 DEF SaveInv
  <2>3. CASE job.undoing
    <3>1. /\ job' \in SaveJobs /\ job'.step = "undone" /\ job'.undoing
          /\ job'.clean = job.clean /\ job'.disturbed = job.disturbed
          /\ job'.previous_file = job.previous_file /\ job'.previous_config = job.previous_config
          /\ job'.previous_login = job.previous_login
      BY <1>2, <2>1, <2>3, StepBack DEF KeepHandle, AfterStart, Backward, SaveJobs
    <3>2. ~ job.disturbed /\ job.clean => /\ AsItWas
                                          /\ thread[job.slot].config = job.previous_file
      BY <1>2, <2>1, <2>3 DEF IInv, SaveInv, Progress, SlotRuns, StartSteps
    <3>3. SaveShape'  BY <3>1 DEF SaveShape, StartSteps, Forward
    <3>4. ~ job'.disturbed => Progress'
      BY <2>1, <3>1, <3>2 DEF Progress, RunnerRuns, AsItWas, Does, StartSteps
    <3> QED BY <3>3, <3>4 DEF SaveInv
  <2> QED BY <2>2, <2>3
<1> QED BY <1>1, <1>2

\* A save never finds a runner to leave alone: its own has stopped.
LEMMA AlreadyRunningSaves ==
  ASSUME IInv, AlreadyRunning
  PROVE  SaveInv'
<1>1. ~ Saves
  <2>1. SUFFICES ASSUME Saves PROVE FALSE
    OBVIOUS
  <2>2. handle = NoThread
    BY <2>1, WayOfSave DEF AlreadyRunning, Does, StartSteps
  <2> QED BY <2>2 DEF AlreadyRunning, Kept, Finished
<1>2. ~ Saves'  BY <1>1 DEF AlreadyRunning, AfterStart, Saves, Idle
<1> QED BY <1>2, NoSaveSaves

----------------------------------------------------------------------------
LEMMA NextSaves == IInv /\ [Next]_vars => SaveInv'
<1> SUFFICES ASSUME IInv, [Next]_vars PROVE SaveInv'
  OBVIOUS
<1>1. CASE JobStep
  <2>1. CASE Answer
    <3>1. ~ Saves'  BY <2>1 DEF Answer, Saves, Idle
    <3> QED BY <3>1, NoSaveSaves
  <2> QED
    BY <1>1, <2>1, SyncSaves, AlreadyRunningSaves, BeginSaves, SpawnSaves, KeepSaves,
       WaitSaves, ForwardSaves, BackwardSaves DEF JobStep
<1>2. CASE StartCommand \/ (\E why \in {"reload", "deferred"} : OwedStart(why))
  <2>1. ~ Saves'  BY <1>2 DEF StartCommand, OwedStart, Starting, Saves
  <2> QED BY <2>1, NoSaveSaves
<1>3. CASE Stop \/ SwitchSecretStorage
  <2>1. ~ Saves'  BY <1>3 DEF Stop, SwitchSecretStorage, Saves, Idle
  <2> QED BY <2>1, NoSaveSaves
<1>4. CASE \E why \in {"reload", "update"} : StopAndWait(why)
  <2>1. ~ Saves'  BY <1>4 DEF StopAndWait, Saves
  <2> QED BY <2>1, NoSaveSaves
<1>5. CASE \E target \in Configs, restart_background \in BOOLEAN : Save(target, restart_background)
  BY <1>5, SaveSaves
<1>6. CASE \E t \in Threads : SeesFlag(t) \/ Fails(t) \/ Reports(t) \/ Finishes(t)
  BY <1>6, ThreadStepSaves
<1>7. CASE (\E c \in Configs : EditFile(c)) \/ DashboardReads \/ DashboardApplies
  BY <1>7, BesideSaves
<1>8. CASE UNCHANGED vars
  BY <1>8, SaveLooksOn DEF IInv, SlotRuns, vars, supervisor, configuration
<1> QED BY <1>1, <1>2, <1>3, <1>4, <1>5, <1>6, <1>7, <1>8 DEF Next

\* A save that met no other writer leaves everything new or, when every step
\* back succeeded, everything as it was, with the runner it restarted to match
\* (config.rs: save_valid_runner_config).
THEOREM SavesAllOrNothing == Spec => []SaveIsAllOrNothing
<1>1. Init => IInv
  <2>1. Init => ~ Saves  BY DEF Init, Saves, Idle
  <2> QED BY <2>1, InitiallyKnown DEF IInv, SaveInv, SaveShape
<1>2. IInv /\ [Next]_vars => IInv'
  BY NextKeeps, NextSaves DEF IInv
<1>3. IInv => SaveIsAllOrNothing
  <2> SUFFICES ASSUME IInv, Saves, ~ job.disturbed
               PROVE /\ Does("saved") => /\ file = job.target /\ applied = job.target
                                         /\ login = job.target.launch_at_login
                                         /\ RunnerRuns(job.target)
                     /\ Does("undone") /\ job.clean => AsItWas /\ RunnerRuns(job.previous_file)
                     /\ Does("given_up") => AsItWas
    BY DEF SaveIsAllOrNothing
  <2>1. Progress  BY DEF IInv, SaveInv
  <2> QED BY <2>1, WayOfSave DEF Progress, Does, Forward, Backward, StartSteps
<1> QED BY <1>1, <1>2, <1>3, PTL DEF Spec
============================================================================
