--------------------------- MODULE DesktopRunner ---------------------------
(* The background runner of the desktop application: the thread that serves *)
(* triggers, the commands that start and stop it, and the save of the       *)
(* configuration it runs with, which stops it, writes in three places,      *)
(* starts it again and undoes everything when a step fails.                 *)
(*                                                                          *)
(* Commands hold the operation lock, so at most one is under way (job). The *)
(* runner's thread and the dashboard, which loads the file into the         *)
(* application without that lock, run beside it.                            *)

CONSTANTS
  Threads,    \* slots for threads of the runner
  NoThread,
  Configs,    \* records [launch_at_login : BOOLEAN, runtime : _]
  NoConfig

ASSUME ThreadsAssumption == Threads # {} /\ NoThread \notin Threads
ASSUME ConfigsAssumption ==
  /\ Configs # {} /\ NoConfig \notin Configs
  /\ \A c \in Configs : c.launch_at_login \in BOOLEAN

VARIABLES
  handle,     \* the thread the supervisor can join
  requested,  \* the thread whose flag shutdown_requested is
  snapshot,   \* what the supervisor says the runner does
  thread,     \* each thread: where it is, its shutdown flag, its configuration
  file,       \* the configuration on disk
  applied,    \* the configuration of the application: core and options
  login,      \* registered to start at login
  dashboard,  \* the configuration a dashboard has read and not yet applied
  owed,       \* starts the application still owes itself
  vault,      \* which secret storage is in use
  job         \* the command that holds the operation lock

supervisor == <<handle, requested, snapshot>>
configuration == <<file, applied, login>>
vars == <<supervisor, thread, configuration, dashboard, owed, vault, job>>

Idle == [do |-> "nothing"]
Starting == [do |-> "start", step |-> "sync", slot |-> NoThread]
Does(step) == job # Idle /\ job.step = step
Saves == job.do = "save"
Step(step) == [job EXCEPT !.step = step]

----------------------------------------------------------------------------
Gone == [at |-> "none", flag |-> FALSE, config |-> NoConfig]

\* Every look at the supervisor first joins a thread that has finished.
Finished == handle # NoThread /\ thread[handle].at = "finished"
KeptUnlessAsked == IF Finished \/ (handle # NoThread /\ thread[handle].flag) THEN NoThread ELSE handle
Kept == IF Finished THEN NoThread ELSE handle
Left == IF Finished THEN [thread EXCEPT ![handle] = Gone] ELSE thread
JoinFinishedThread == handle' = Kept /\ thread' = Left

JoinAndRequestStop ==
  /\ handle' = Kept
  /\ IF requested = NoThread THEN thread' = Left /\ UNCHANGED snapshot
     ELSE thread' = [Left EXCEPT ![requested].flag = TRUE] /\ snapshot' = "stopping"

\* The thread serves until it sees its flag or fails, tells the supervisor
\* that it stopped, and can be joined a moment later.
Serves(t) == thread[t].at = "serving"
Moves(t, from, to) == thread[t].at = from /\ thread' = [thread EXCEPT ![t].at = to]
SeesFlag(t) ==
  /\ thread[t].flag /\ Moves(t, "serving", "ended")
  /\ UNCHANGED <<supervisor, configuration, dashboard, owed, vault, job>>
Fails(t) ==
  /\ Moves(t, "serving", "ended")
  /\ UNCHANGED <<supervisor, configuration, dashboard, owed, vault, job>>
Reports(t) ==
  /\ Moves(t, "ended", "reported")
  /\ requested' = NoThread /\ snapshot' = "stopped"
  /\ UNCHANGED <<handle, configuration, dashboard, owed, vault, job>>
Finishes(t) ==
  /\ Moves(t, "reported", "finished")
  /\ UNCHANGED <<supervisor, configuration, dashboard, owed, vault, job>>

----------------------------------------------------------------------------
(* Starting, as a command or as the end of a save. *)

AfterStart(ok) ==
  IF ~ Saves THEN Idle
  ELSE IF job.undoing THEN [job EXCEPT !.step = "undone", !.clean = @ /\ ok]
  ELSE IF ok THEN Step("saved")
  ELSE [job EXCEPT !.step = "undo_file", !.undoing = TRUE]

StartCommand ==
  /\ job = Idle /\ job' = Starting
  /\ UNCHANGED <<supervisor, thread, configuration, dashboard, owed, vault>>

\* The second half of a reload from the tray, and the start that waited for
\* the secret storage: whatever happened meanwhile, they start the runner.
OwedStart(why) ==
  /\ job = Idle /\ job' = Starting
  /\ why \in owed /\ owed' = owed \ {why}
  /\ UNCHANGED <<supervisor, thread, configuration, dashboard, vault>>

\* The file is loaded and replaces the configuration; the scripts must be ready.
SyncFromDisk ==
  /\ Does("sync")
  /\ \E loaded, ready \in BOOLEAN :
       /\ applied' = IF loaded THEN file ELSE applied
       /\ job' = IF loaded /\ ready THEN Step("begin") ELSE AfterStart(FALSE)
  /\ UNCHANGED <<supervisor, thread, file, login, dashboard, owed, vault>>

AlreadyRunning ==
  /\ Does("begin")
  /\ Kept # NoThread /\ JoinFinishedThread
  /\ job' = AfterStart(TRUE)
  /\ UNCHANGED <<requested, snapshot, configuration, dashboard, owed, vault>>

\* The supervisor says that the runner runs before its thread exists.
FreeSlot == CHOOSE t \in Threads : Left[t].at = "none"
BeginStart ==
  /\ Does("begin")
  /\ Kept = NoThread /\ handle' = NoThread
  /\ requested' = FreeSlot /\ snapshot' = "running"
  /\ thread' = [Left EXCEPT ![FreeSlot] = [at |-> "none", flag |-> FALSE, config |-> applied]]
  /\ job' = [job EXCEPT !.step = "spawn", !.slot = FreeSlot]
  /\ UNCHANGED <<configuration, dashboard, owed, vault>>

Spawn ==
  /\ Does("spawn")
  /\ \/ thread' = [thread EXCEPT ![job.slot].at = "serving"] /\ job' = Step("keep")
     \/ thread' = [thread EXCEPT ![job.slot] = Gone] /\ job' = AfterStart(FALSE)
  /\ UNCHANGED <<supervisor, configuration, dashboard, owed, vault>>

\* The thread may have stopped already.
KeepHandle ==
  /\ Does("keep")
  /\ handle' = job.slot
  /\ job' = AfterStart(TRUE)
  /\ UNCHANGED <<requested, snapshot, thread, configuration, dashboard, owed, vault>>

----------------------------------------------------------------------------
(* Stopping. *)

Stop ==
  /\ job = Idle
  /\ JoinAndRequestStop
  /\ UNCHANGED <<requested, configuration, dashboard, owed, vault, job>>

\* A reload from the tray, or an update of the application, waits for the end.
StopAndWait(why) ==
  /\ job = Idle /\ job' = [do |-> why, step |-> "wait"]
  /\ UNCHANGED <<supervisor, thread, configuration, dashboard, owed, vault>>

\* The tray starts the runner again whether or not the wait was long enough;
\* a save is given up before it has changed anything.
AfterWait(ok) ==
  /\ job' = IF ~ Saves THEN Idle ELSE Step(IF ok THEN "set_login" ELSE "given_up")
  /\ owed' = IF job.do = "reload" THEN owed \cup {"reload"} ELSE owed

WaitForEver ==
  /\ Does("wait")
  /\ \/ /\ Kept = NoThread
        /\ JoinFinishedThread /\ AfterWait(TRUE)
        /\ UNCHANGED snapshot
     \/ /\ Kept # NoThread
        /\ JoinAndRequestStop
        /\ UNCHANGED <<job, owed>>
  /\ UNCHANGED <<requested, configuration, dashboard, vault>>

Wait ==
  /\ Does("wait")
  /\ \/ /\ Kept = NoThread
        /\ JoinFinishedThread /\ AfterWait(TRUE)
        /\ UNCHANGED snapshot
     \/ /\ Kept # NoThread
        /\ JoinAndRequestStop
        /\ UNCHANGED <<job, owed>> \/ AfterWait(FALSE)   \* out of time
  /\ UNCHANGED <<requested, configuration, dashboard, vault>>

----------------------------------------------------------------------------
(* Saving a configuration. *)

RunningUnlessStopping == snapshot = "running"
Running == snapshot # "stopped"

Save(target, restart_background) ==
  /\ job = Idle
  /\ JoinFinishedThread
  /\ LET restart == restart_background /\ target.runtime # applied.runtime /\ Running
     IN job' = [do |-> "save", step |-> IF restart THEN "wait" ELSE "set_login",
                target |-> target, restart |-> restart,
                previous_file |-> file, previous_config |-> applied, previous_login |-> login,
                slot |-> NoThread, undoing |-> FALSE, clean |-> TRUE, disturbed |-> FALSE]
  /\ UNCHANGED <<requested, snapshot, configuration, dashboard, owed, vault>>

\* One step of the save: it is done and the next one follows, or it fails.
Advance(ok, next) ==
  job' = IF ok THEN Step(next) ELSE [job EXCEPT !.step = "undo_file", !.undoing = TRUE]

\* The registration may have changed although correcting its entry failed.
SetLogin ==
  /\ Does("set_login")
  /\ \E ok \in BOOLEAN :
       /\ login' \in {job.target.launch_at_login} \cup (IF ok THEN {} ELSE {login})
       /\ Advance(ok, "write_file")
  /\ UNCHANGED <<supervisor, thread, file, applied, dashboard, owed, vault>>

WriteFile ==
  /\ Does("write_file")
  /\ \E ok \in BOOLEAN :
       /\ file' = IF ok THEN job.target ELSE file
       /\ Advance(ok, "replace")
  /\ UNCHANGED <<supervisor, thread, applied, login, dashboard, owed, vault>>

ReplaceRuntimeConfig ==
  /\ Does("replace")
  /\ \E ok \in BOOLEAN :
       /\ applied' = IF ok THEN job.target ELSE applied
       /\ Advance(ok, IF job.restart THEN "sync" ELSE "saved")
  /\ UNCHANGED <<supervisor, thread, file, login, dashboard, owed, vault>>

\* A step of the way back is tried whatever became of the one before it.
Undone(ok, next) == job' = [job EXCEPT !.step = next, !.clean = @ /\ ok]

UndoFile ==
  /\ Does("undo_file")
  /\ \E ok \in BOOLEAN :
       /\ file' = IF ok THEN job.previous_file ELSE file
       /\ Undone(ok, "undo_config")
  /\ UNCHANGED <<supervisor, thread, applied, login, dashboard, owed, vault>>

UndoConfig ==
  /\ Does("undo_config")
  /\ \E ok \in BOOLEAN :
       /\ applied' = IF ok THEN job.previous_config ELSE applied
       /\ Undone(ok, "undo_login")
  /\ UNCHANGED <<supervisor, thread, file, login, dashboard, owed, vault>>

UndoLoginFromConfig ==
  /\ Does("undo_login")
  /\ \E ok \in BOOLEAN :
       /\ login' \in {job.previous_config.launch_at_login} \cup (IF ok THEN {} ELSE {login})
       /\ Undone(ok, IF job.restart THEN "sync" ELSE "undone")
  /\ UNCHANGED <<supervisor, thread, file, applied, dashboard, owed, vault>>

UndoLogin ==
  /\ Does("undo_login")
  /\ \E ok \in BOOLEAN :
       /\ login' \in {job.previous_login} \cup (IF ok THEN {} ELSE {login})
       /\ Undone(ok, IF job.restart THEN "sync" ELSE "undone")
  /\ UNCHANGED <<supervisor, thread, file, applied, dashboard, owed, vault>>

Answered == {"saved", "undone", "given_up"}
Answer ==
  /\ job # Idle /\ job.step \in Answered /\ job' = Idle
  /\ UNCHANGED <<supervisor, thread, configuration, dashboard, owed, vault>>

----------------------------------------------------------------------------
(* Beside the commands. *)

\* A save that meets a write from elsewhere promises less.
Disturb == job' = IF Saves THEN [job EXCEPT !.disturbed = TRUE] ELSE job

\* The runner itself rewrites the file when a serial device moved to another
\* port, and so may an editor.
EditFile(c) ==
  /\ file' = c /\ Disturb
  /\ UNCHANGED <<supervisor, thread, applied, login, dashboard, owed, vault>>

DashboardReads ==
  /\ dashboard = NoConfig /\ dashboard' = file
  /\ UNCHANGED <<supervisor, thread, configuration, owed, vault, job>>

DashboardApplies ==
  /\ dashboard # NoConfig /\ dashboard' = NoConfig
  /\ applied' = dashboard
  /\ IF dashboard = file THEN UNCHANGED job ELSE Disturb
  /\ JoinFinishedThread
  /\ UNCHANGED <<requested, snapshot, file, login, owed, vault>>

\* Switching or locking the secret storage resets secrets a runner would use.
SwitchSecretStorage ==
  /\ job = Idle
  /\ JoinFinishedThread
  /\ ~ Running /\ vault' = ~ vault
  /\ UNCHANGED <<requested, snapshot, configuration, dashboard, owed, job>>

----------------------------------------------------------------------------
Init ==
  /\ handle = NoThread /\ requested = NoThread /\ snapshot = "stopped"
  /\ thread = [t \in Threads |-> Gone]
  /\ file \in Configs /\ applied = file /\ login = file.launch_at_login
  /\ dashboard = NoConfig
  /\ owed \in {{}, {"deferred"}}
  /\ vault = FALSE
  /\ job = Idle

JobStep ==
  \/ SyncFromDisk \/ AlreadyRunning \/ BeginStart
  \/ Spawn \/ KeepHandle \/ Wait
  \/ SetLogin \/ WriteFile \/ ReplaceRuntimeConfig
  \/ UndoFile \/ UndoConfig \/ UndoLogin \/ Answer

Next ==
  \/ JobStep
  \/ StartCommand \/ (\E why \in {"reload", "deferred"} : OwedStart(why))
  \/ Stop \/ (\E why \in {"reload", "update"} : StopAndWait(why))
  \/ \E target \in Configs, restart_background \in BOOLEAN : Save(target, restart_background)
  \/ \E t \in Threads : SeesFlag(t) \/ Fails(t) \/ Reports(t) \/ Finishes(t)
  \/ (\E c \in Configs : EditFile(c)) \/ DashboardReads \/ DashboardApplies
  \/ SwitchSecretStorage

Spec == Init /\ [][Next]_vars

\* Whoever holds the lock goes on. Nothing is assumed of the runner's thread,
\* which may serve for ever: a wait in which nothing changes ends with its time.
FairSpec == Spec /\ WF_vars(JobStep)

----------------------------------------------------------------------------
(* Properties. *)

\* Whoever stops the runner, waits for it or asks whether it runs means the
\* thread that serves: the flag is its flag, the snapshot does not deny it, and
\* the handle is its handle as soon as the start is over. So there is one
\* runner at most (background.rs: start, stop, the end of the thread).
StopsReachTheRunner ==
  \A t \in Threads : Serves(t) =>
    /\ requested = t /\ Running
    /\ handle = t \/ (Does("keep") /\ job.slot = t)

\* The secret storage is switched, and a save that restarts the runner begins
\* to write, only while no thread serves, although the state they look at is
\* changed by the thread itself and by failed starts (security.rs:
\* ensure_secret_storage_idle; config.rs: save_valid_runner_config).
NothingServesUnderAChange ==
  [][vault' # vault \/ (Does("wait") /\ job' # Idle /\ job'.step = "set_login")
     => \A t \in Threads : ~ Serves(t)]_vars

\* What a save leaves behind when nobody wrote in between: everything new, and
\* the restarted runner with it; or, when every step back succeeded, everything
\* as it was and the runner back with the file it had (config.rs:
\* save_valid_runner_config).
RunnerRuns(c) == job.restart /\ handle # NoThread => thread[handle].config = c
AsItWas ==
  /\ file = job.previous_file /\ login = job.previous_login
  /\ applied \in {job.previous_config, job.previous_file}
SaveIsAllOrNothing ==
  Saves /\ ~ job.disturbed =>
    /\ Does("saved") => /\ file = job.target /\ applied = job.target
                        /\ login = job.target.launch_at_login
                        /\ RunnerRuns(job.target)
    /\ Does("undone") /\ job.clean => AsItWas /\ RunnerRuns(job.previous_file)
    /\ Does("given_up") => AsItWas

\* A command gives the operation lock back, even when the runner it waits for
\* never stops (background.rs: stop_and_wait).
LockIsGivenBack == job # Idle ~> job = Idle
============================================================================
