---------------------------- MODULE ApprovedRuns ----------------------------
(***************************************************************************)
(* The store beside a run that starts one of its scripts: what the run     *)
(* looks at between its trigger and its first action                       *)
(* (run_installed_with_trigger_in_stack, crates/baudbound-core/src/lib.rs), *)
(* while clients install, approve and switch.                              *)
(***************************************************************************)
EXTENDS ScriptStore

VARIABLE activation      \* a run on its way to its start

runsVars == <<storeVars, activation>>

Inactive == [stage |-> "idle", script |-> None, seen |-> None]

Becomes(r) ==
  /\ activation' = r
  /\ UNCHANGED <<db, files, writer, job, history, bounds>>

\* The script is found and enabled; then the run waits for its permit.
BeginRun(s) ==
  /\ activation = Inactive /\ s \in Enabled
  /\ Becomes([activation EXCEPT !.stage = "waiting", !.script = s])
  /\ UNCHANGED outdated

\* With the permit everything is looked at again.
Admitted ==
  /\ activation.stage = "waiting"
  /\ Becomes(IF activation.script \in Enabled THEN [activation EXCEPT !.stage = "find"] ELSE Inactive)
  /\ UNCHANGED outdated

FindScript ==
  /\ activation.stage = "find"
  /\ Becomes(IF Installed(activation.script)
             THEN [activation EXCEPT !.stage = "load", !.seen = rows[activation.script]] ELSE Inactive)
  /\ UNCHANGED outdated

LoadPackage ==
  /\ activation.stage = "load"
  /\ Becomes(IF Verified(activation.seen) THEN [activation EXCEPT !.stage = "approval"] ELSE Inactive)
  /\ UNCHANGED outdated

StartRun ==
  /\ activation.stage = "approval" /\ HasCurrentApproval(activation.script, activation.seen)
  /\ Becomes([activation EXCEPT !.stage = "started"])
  /\ UNCHANGED outdated

\* Refused or over, a run leaves a record, which is one more commit.
RecordRun ==
  /\ \/ activation.stage = "approval" /\ ~HasCurrentApproval(activation.script, activation.seen)
     \/ activation.stage = "started"
  /\ writer = None
  /\ Becomes(Inactive)
  /\ Outdates({})

RunStep == (\E s \in Scripts : BeginRun(s)) \/ Admitted \/ FindScript \/ LoadPackage
           \/ StartRun \/ RecordRun

-----------------------------------------------------------------------------
InitRuns == StoreInit /\ activation = Inactive

NextRuns == (StoreNext /\ UNCHANGED activation) \/ RunStep

SpecRuns == InitRuns /\ [][NextRuns]_runsVars

-----------------------------------------------------------------------------
\* Types; a run that read a row knows its script.
TypeOK ==
  /\ StoreTypeOK
  /\ activation.stage \in {"idle", "waiting", "find", "load", "approval", "started"}
  /\ activation # Inactive => activation.script \in Scripts
  /\ activation.seen \in Row \cup {None}

\* A run starts only a package that somebody read and approved since the script
\* was last updated or removed, and nobody has taken back: however installs,
\* approvals and the start of the run interleave.
StartsOnlyWhatWasApproved ==
  [][activation.stage = "approval" /\ activation'.stage = "started" =>
       activation.seen.content \in consent[activation.script]]_runsVars
=============================================================================
