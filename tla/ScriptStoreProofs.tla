------------------------- MODULE ScriptStoreProofs --------------------------
(***************************************************************************)
(* What ApprovedRuns and Blacklist promise, for any number of clients,      *)
(* scripts, packages and refreshers, and without a bound on what they do or *)
(* how often they fail.                                                    *)
(*                                                                         *)
(* A run compares the approval with the package it has read.  So it is      *)
(* enough that an approval never says more than somebody consented to since *)
(* the script was last updated or removed, that a client which approves has *)
(* read a package, and that a run past reading has read one.                *)
(*                                                                         *)
(* That files match rows needs more, file by file and whichever names denote *)
(* it: what the operation that handles the file has found and done so far,  *)
(* as long as it was left alone.  That no reload is lost needs what a pass  *)
(* of the service has seen so far to be true still.                         *)
(***************************************************************************)
EXTENDS ApprovedRuns, Blacklist, TLAPS

\* What clients do, by kind: an import has seen no row, the others have.
Imports ==
  [kind : {"import"}, stage : {"copy", "insert", "request"}, script : Scripts,
   content : Contents, name : Names, on : BOOLEAN, seen : {None}]

Updates ==
  [kind : {"update"}, stage : {"copy", "write", "tidy", "commit"}, script : Scripts,
   content : Contents, name : Names, on : BOOLEAN, seen : Row]

RowJobs ==
  [kind : {"remove", "approve", "revoke", "switch"},
   stage : {"delete", "unlink", "verify", "approve", "revoke", "set", "request"},
   script : Scripts, content : {None}, name : {None}, on : BOOLEAN, seen : Row]

Jobs == {Idle} \cup Imports \cup Updates \cup RowJobs

\* A run that is past reading has read a row.
HasRead == activation.stage \in {"load", "approval"} => activation.seen \in Row

RunTyped ==
  /\ activation \in [stage : {"idle", "waiting", "find", "load", "approval", "started"},
              script : Scripts \cup {None}, seen : Row \cup {None}]
  /\ HasRead

\* An approval is of a package that somebody approved.
ConsentedOnly ==
  \A s \in Scripts : approvals[s] # None => approvals[s] \in consent[s]

IInv == TypeOK /\ job \in [Clients -> Jobs] /\ RunTyped /\ ConsentedOnly

-----------------------------------------------------------------------------
(* The steps, one lemma for those of the clients and one for those of the   *)
(* run.                                                                    *)

LEMMA InitIInv == InitRuns => IInv
<1> SUFFICES ASSUME InitRuns PROVE IInv
  OBVIOUS
<1> USE DEF InitRuns, StoreInit
<1>1. StoreTypeOK
  <2>1. 0 \in 0 .. MaxOps /\ 0 \in 0 .. MaxInterruptions
    BY ScriptStoreAssumption DEF ScriptStoreAssumption
  <2> QED BY <2>1 DEF StoreTypeOK
<1>2. job \in [Clients -> Jobs] /\ ConsentedOnly
  BY DEF Jobs, ConsentedOnly
<1>3. RunTyped /\ activation.stage = "idle" /\ activation.seen = None
  BY DEF RunTyped, HasRead, Inactive
<1> QED
  BY <1>1, <1>2, <1>3 DEF IInv, TypeOK

\* Where a client is tells what it has read; it goes on with the same things.
LEMMA StageTells ==
  ASSUME job \in [Clients -> Jobs], NEW p \in Clients
  PROVE  /\ job[p].stage \in {"copy", "insert", "write", "tidy", "commit"} =>
              /\ job[p].script \in Scripts
              /\ job[p].content \in Contents /\ job[p].name \in Names
         /\ job[p].stage \in {"write", "tidy", "commit", "delete", "unlink", "verify",
                              "approve", "revoke", "set"} =>
              job[p].script \in Scripts /\ job[p].seen \in Row
         /\ job[p].stage = "request" => job[p].script \in Scripts
  BY DEF Jobs, Idle, Imports, Updates, RowJobs

LEMMA GoesOn ==
  ASSUME job \in [Clients -> Jobs], NEW p \in Clients, NEW place, Goes(p, place),
         \/ job[p] \in Imports /\ place \in {"insert", "request"}
         \/ job[p] \in Updates /\ place \in {"write", "tidy", "commit"}
         \/ job[p] \in RowJobs /\ place \in {"unlink", "approve", "set", "request"}
  PROVE  job' \in [Clients -> Jobs]
<1>1. [job[p] EXCEPT !.stage = place] \in Jobs
  <2>1. CASE job[p] \in Imports  BY <2>1 DEF Imports, Jobs, Updates, RowJobs
  <2>2. CASE job[p] \in Updates  BY <2>2 DEF Imports, Jobs, Updates, RowJobs
  <2>3. CASE job[p] \in RowJobs  BY <2>3 DEF Imports, Jobs, Updates, RowJobs
  <2> QED BY <2>1, <2>2, <2>3
<1> QED BY <1>1 DEF Goes

LEMMA JobEnds ==
  ASSUME job \in [Clients -> Jobs], NEW p \in Clients, Ends(p)
  PROVE  job' \in [Clients -> Jobs]
  BY DEF Ends, Jobs

\* Jobs keep the types of their scripts.
LEMMA JobScripts ==
  ASSUME job \in [Clients -> Jobs]
  PROVE  \A p \in Clients : job[p] # Idle => job[p].script \in Scripts
  BY DEF Jobs, Imports, Updates, RowJobs

\* What a step must leave in order: tables, and the types of the rest.
Tables ==
  /\ rows \in [Scripts -> Row \cup {None}]
  /\ approvals \in [Scripts -> Contents \cup {None}]
  /\ consent \in [Scripts -> SUBSET Contents]
  /\ \A s \in Scripts : approvals[s] # None => Installed(s)
  /\ ConsentedOnly

OtherTypes ==
  /\ requested \in BOOLEAN
  /\ files \in [Files -> Contents \cup {None}]
  /\ writer \in Clients \cup {None} /\ outdated \subseteq Clients
  /\ disturbed \subseteq Files /\ lost \in BOOLEAN
  /\ ops \in 0 .. MaxOps /\ interruptions \in 0 .. MaxInterruptions

StoreInv == job \in [Clients -> Jobs] /\ Tables /\ OtherTypes

LEMMA InvParts == IInv <=> StoreInv /\ RunTyped /\ (activation # Inactive => activation.script \in Scripts)
<1>1. ASSUME job \in [Clients -> Jobs]
      PROVE  \A p \in Clients : job[p] # Idle => job[p].script \in Scripts
  BY <1>1, JobScripts
<1> QED
  BY <1>1 DEF IInv, TypeOK, StoreTypeOK, StoreInv, Tables, OtherTypes, RunTyped

LEMMA OutdatesClients ==
  ASSUME outdated \subseteq Clients, NEW mine, Outdates(mine)
  PROVE  outdated' \subseteq Clients
  BY DEF Outdates

\* What an operation handles are files.
LEMMA HandledAreFiles ==
  ASSUME NEW j \in Jobs
  PROVE  Handles(j) \subseteq Files /\ NewFile(j) \subseteq Files /\ Unfinished(j) \subseteq Files
<1>1. NewFile(j) \subseteq Files
  BY ScriptStoreAssumption DEF ScriptStoreAssumption, NewFile, Jobs, Idle, Imports, Updates, RowJobs
<1>2. OldFile(j) \subseteq Files
  BY ScriptStoreAssumption DEF ScriptStoreAssumption, OldFile, Jobs, Idle, Imports, Updates, RowJobs, Row
<1> QED BY <1>1, <1>2 DEF Handles, Unfinished

\* A client that begins something has seen what its operation needs.
LEMMA BeginStep ==
  ASSUME StoreInv, NEW p \in Clients, Begin(p)
  PROVE  StoreInv'
<1>1. ASSUME NEW j \in Jobs \ {Idle}, Begins(p, j), outdated' \in {outdated, outdated \ {p}}
      PROVE  StoreInv'
  <2>1. job' \in [Clients -> Jobs]
    BY <1>1 DEF StoreInv, Begins
  <2>2. Tables'
    BY <1>1 DEF StoreInv, Tables, ConsentedOnly, Begins, db, Installed
  <2>3. Contested(p, j) \subseteq Files
    BY HandledAreFiles DEF Contested
  <2>4. disturbed' \subseteq Files
    BY <1>1, <2>3 DEF StoreInv, OtherTypes, Begins
  <2>5. ops' \in 0 .. MaxOps
    BY <1>1, ScriptStoreAssumption DEF ScriptStoreAssumption, StoreInv, OtherTypes, Begins
  <2>6. OtherTypes'
    BY <1>1, <2>4, <2>5 DEF StoreInv, OtherTypes, Begins, db
  <2> QED BY <2>1, <2>2, <2>6 DEF StoreInv
<1>2. ASSUME NEW c \in Contents, NEW n \in Names, BeginImport(p, c, n)  PROVE StoreInv'
  BY <1>1, <1>2, ScriptStoreAssumption DEF BeginImport, Jobs, Imports, Idle
<1>3. ASSUME NEW c \in Contents, NEW n \in Names, BeginUpdate(p, c, n)  PROVE StoreInv'
  <2>1. rows[Owner[c]] \in Row /\ Owner[c] \in Scripts
    BY <1>3, ScriptStoreAssumption DEF BeginUpdate, Installed, StoreInv, Tables
  <2> QED BY <1>1, <1>3, <2>1, ScriptStoreAssumption DEF BeginUpdate, Jobs, Updates, Idle
<1>4. ASSUME NEW s \in Scripts, NEW kind \in {"remove", "approve", "revoke", "switch"},
             NEW on \in BOOLEAN, NEW stage \in {"delete", "verify", "revoke", "set"},
             BeginOnRow(p, s, kind, on, stage)
      PROVE  StoreInv'
  <2>1. rows[s] \in Row
    BY <1>4 DEF BeginOnRow, Installed, StoreInv, Tables
  <2> QED BY <1>1, <1>4, <2>1 DEF BeginOnRow, Jobs, RowJobs, Idle
<1> QED
  BY <1>2, <1>3, <1>4 DEF Begin, BeginRemove, BeginApprove, BeginRevoke, BeginSwitch

\* A step of a client, action by action: where it goes on, then what it wrote.
LEMMA ClientStepKeeps ==
  ASSUME StoreInv, NEW p \in Clients, ClientStep(p)
  PROVE  StoreInv'
<1> USE DEF StoreInv
<1> DEFINE j == job[p]
<1>1. /\ j.stage \in {"copy", "insert", "write", "tidy", "commit"} =>
           j.script \in Scripts /\ j.content \in Contents /\ j.name \in Names
      /\ j.stage \in {"write", "tidy", "commit", "delete", "unlink", "verify", "approve",
                       "revoke", "set"} => j.script \in Scripts /\ j.seen \in Row
      /\ j.stage = "request" => j.script \in Scripts
  BY StageTells
<1>2. /\ j.stage = "copy" => (j \in Imports /\ j.kind = "import") \/ (j \in Updates /\ j.kind = "update")
      /\ j.stage = "insert" => j \in Imports
      /\ j.stage \in {"write", "tidy", "commit"} => j \in Updates
      /\ j.stage \in {"delete", "unlink", "verify", "approve", "revoke", "set"} => j \in RowJobs
  BY DEF Jobs, Idle, Imports, Updates, RowJobs
<1>0. ASSUME disturbed' = disturbed \/ BreaksOff(p) PROVE disturbed' \subseteq Files
  BY <1>0, HandledAreFiles DEF BreaksOff, OtherTypes
<1>3. CASE CopyPackage(p)
  <2>1. job' \in [Clients -> Jobs]  BY <1>2, <1>3, GoesOn DEF CopyPackage
  <2>2. Tables'  BY <1>3 DEF CopyPackage, Tables, ConsentedOnly, Installed, db, history
  <2>3. OtherTypes'  BY <1>1, <1>3 DEF CopyPackage, OtherTypes, db, history, bounds
  <2> QED BY <2>1, <2>2, <2>3
<1>4. CASE InsertRow(p)
  <2>1. job' \in [Clients -> Jobs]  BY <1>2, <1>4, GoesOn, JobEnds DEF InsertRow
  <2>2. Tables'
    <3>1. [content |-> j.content, name |-> j.name, enabled |-> TRUE] \in Row
      BY <1>1, <1>4 DEF InsertRow, Row
    <3> QED BY <1>1, <1>4, <3>1, ScriptStoreAssumption DEF InsertRow, Tables, ConsentedOnly, Installed
  <2>3. OtherTypes'
    BY <1>0, <1>4, OutdatesClients DEF InsertRow, OtherTypes, Commits, bounds
  <2> QED BY <2>1, <2>2, <2>3
<1>5. CASE WriteRow(p)
  <2>1. job' \in [Clients -> Jobs]  BY <1>2, <1>5, GoesOn, JobEnds DEF WriteRow
  <2>2. Tables'  BY <1>5 DEF WriteRow, Tables, ConsentedOnly, Installed, db
  <2>3. OtherTypes'  BY <1>0, <1>5 DEF WriteRow, OtherTypes, db, bounds
  <2> QED BY <2>1, <2>2, <2>3
<1>6. CASE RemovePrevious(p)
  <2>1. job' \in [Clients -> Jobs]  BY <1>2, <1>6, GoesOn DEF RemovePrevious
  <2>2. Tables'  BY <1>6 DEF RemovePrevious, Tables, ConsentedOnly, Installed, db, history
  <2>3. OtherTypes'  BY <1>6 DEF RemovePrevious, OtherTypes, db, history, bounds
  <2> QED BY <2>1, <2>2, <2>3
<1>7. CASE CommitUpdate(p)
  <2>1. job' \in [Clients -> Jobs]  BY <1>7, JobEnds DEF CommitUpdate
  <2>2. Tables'
    <3>1. [content |-> j.content, name |-> j.name, enabled |-> j.seen.enabled] \in Row
      BY <1>1, <1>7 DEF CommitUpdate, Row
    <3> QED BY <1>1, <1>7, <3>1, ScriptStoreAssumption
            DEF CommitUpdate, DropsApproval, Tables, ConsentedOnly, Installed
  <2>3. OtherTypes'
    BY <1>7, OutdatesClients DEF CommitUpdate, OtherTypes, Commits, bounds
  <2> QED BY <2>1, <2>2, <2>3
<1>8. CASE DeleteRow(p)
  <2>1. job' \in [Clients -> Jobs]  BY <1>2, <1>8, GoesOn DEF DeleteRow
  <2>2. Tables'  BY <1>1, <1>8 DEF DeleteRow, DropsApproval, Tables, ConsentedOnly, Installed
  <2>3. OtherTypes'  BY <1>8, OutdatesClients DEF DeleteRow, OtherTypes, Commits, bounds
  <2> QED BY <2>1, <2>2, <2>3
<1>9. CASE RemoveFile(p)
  <2>1. job' \in [Clients -> Jobs]  BY <1>2, <1>9, GoesOn DEF RemoveFile
  <2>2. Tables'  BY <1>9 DEF RemoveFile, Tables, ConsentedOnly, Installed, db, history
  <2>3. OtherTypes'  BY <1>9 DEF RemoveFile, OtherTypes, db, history, bounds
  <2> QED BY <2>1, <2>2, <2>3
<1>10. CASE VerifyPackage(p)
  <2>1. job' \in [Clients -> Jobs]  BY <1>2, <1>10, GoesOn, JobEnds DEF VerifyPackage
  <2>2. Tables'  BY <1>10 DEF VerifyPackage, Tables, ConsentedOnly, Installed, db, history
  <2>3. OtherTypes'  BY <1>10 DEF VerifyPackage, OtherTypes, db, history, bounds
  <2> QED BY <2>1, <2>2, <2>3
<1>11. CASE RecordApproval(p)
  <2>1. job' \in [Clients -> Jobs]  BY <1>11, JobEnds DEF RecordApproval
  <2>2. Tables'
    <3>1. j.seen.content \in Contents  BY <1>1, <1>11 DEF RecordApproval, Row
    <3> QED BY <1>1, <1>11, <3>1
            DEF RecordApproval, ReviewedContent, Tables, ConsentedOnly, Installed
  <2>3. OtherTypes'  BY <1>11, OutdatesClients DEF RecordApproval, OtherTypes, Commits, bounds
  <2> QED BY <2>1, <2>2, <2>3
<1>12. CASE RevokeApproval(p)
  <2>1. job' \in [Clients -> Jobs]  BY <1>2, <1>12, GoesOn DEF RevokeApproval
  <2>2. Tables'
    BY <1>1, <1>12 DEF RevokeApproval, DropsApproval, Tables, ConsentedOnly, Installed
  <2>3. OtherTypes'  BY <1>12, OutdatesClients DEF RevokeApproval, OtherTypes, Commits, bounds
  <2> QED BY <2>1, <2>2, <2>3
<1>13. CASE SetEnabled(p)
  <2>1. job' \in [Clients -> Jobs]  BY <1>2, <1>13, GoesOn, JobEnds DEF SetEnabled
  <2>2. Tables'
    <3>1. ASSUME Installed(j.script)
          PROVE  [rows[j.script] EXCEPT !.enabled = j.on] \in Row
      BY <1>1, <1>2, <1>13, <3>1 DEF SetEnabled, RowJobs, Tables, Installed, Row
    <3> QED BY <1>1, <1>13, <3>1, ScriptStoreAssumption
            DEF SetEnabled, Tables, ConsentedOnly, Installed, history
  <2>3. OtherTypes'
    BY <1>13, OutdatesClients DEF SetEnabled, OtherTypes, Commits, bounds, history
  <2> QED BY <2>1, <2>2, <2>3
<1>14. CASE RequestReload(p)
  <2>1. job' \in [Clients -> Jobs]  BY <1>14, JobEnds DEF RequestReload
  <2>2. Tables'  BY <1>14 DEF RequestReload, Tables, ConsentedOnly, Installed, history
  <2>3. OtherTypes'
    BY <1>14, OutdatesClients DEF RequestReload, OtherTypes, Commits, bounds, history
  <2> QED BY <2>1, <2>2, <2>3
<1> QED
  BY <1>3, <1>4, <1>5, <1>6, <1>7, <1>8, <1>9, <1>10, <1>11, <1>12, <1>13, <1>14 DEF ClientStep

LEMMA InterruptedKeeps ==
  ASSUME StoreInv, NEW p \in Clients, Interrupted(p)
  PROVE  StoreInv'
<1>1. job' \in [Clients -> Jobs]  BY JobEnds DEF StoreInv, Interrupted
<1>2. Tables'  BY DEF StoreInv, Interrupted, Tables, ConsentedOnly, Installed, db
<1>3. disturbed' \subseteq Files
  BY HandledAreFiles DEF StoreInv, OtherTypes, Interrupted, BreaksOff
<1>4. OtherTypes'
  BY <1>3, ScriptStoreAssumption DEF ScriptStoreAssumption, StoreInv, Interrupted, OtherTypes, db
<1> QED BY <1>1, <1>2, <1>4 DEF StoreInv

LEMMA StoreKeeps ==
  ASSUME StoreInv, StoreNext
  PROVE  StoreInv'
BY BeginStep, ClientStepKeeps, InterruptedKeeps DEF StoreNext

\* A step of the run: RecordRun commits, the others touch nothing but the run.
LEMMA RunStepKeeps ==
  ASSUME IInv, RunStep
  PROVE  IInv'
<1> USE DEF Becomes, RunTyped, HasRead, Inactive
<1> SUFFICES StoreInv' /\ RunTyped' /\ (activation' # Inactive => activation'.script \in Scripts)
  BY InvParts DEF IInv, TypeOK, StoreTypeOK, StoreInv, Tables, OtherTypes, Jobs, Imports,
                  Updates, RowJobs
<1>1. StoreInv /\ RunTyped /\ (activation # Inactive => activation.script \in Scripts)
  BY InvParts
<1>2. StoreInv'
  <2>1. UNCHANGED <<db, files, writer, job, history, bounds>>
    BY DEF RunStep, BeginRun, Admitted, FindScript, LoadPackage, StartRun, RecordRun
  <2>2. outdated' \subseteq Clients
    BY <1>1, OutdatesClients
    DEF RunStep, BeginRun, Admitted, FindScript, LoadPackage, StartRun, RecordRun, StoreInv,
        OtherTypes
  <2>3. Tables' /\ OtherTypes' /\ job' = job
    BY <1>1, <2>1, <2>2
    DEF StoreInv, Tables, OtherTypes, ConsentedOnly, Installed, db, history, bounds
  <2> QED BY <1>1, <2>3 DEF StoreInv
<1>3. ASSUME NEW s \in Scripts, BeginRun(s)
      PROVE  RunTyped' /\ (activation' # Inactive => activation'.script \in Scripts)
  BY <1>1, <1>3 DEF BeginRun
<1>4. CASE Admitted
  BY <1>1, <1>2, <1>4 DEF Admitted
<1>5. CASE FindScript
  <2>1. activation.script \in Scripts  BY <1>1, <1>5 DEF FindScript
  <2>2. Installed(activation.script) => rows[activation.script] \in Row
    BY <1>1, <2>1 DEF StoreInv, Tables, Installed
  <2> QED BY <1>1, <1>2, <1>5, <2>1, <2>2 DEF FindScript
<1>6. CASE LoadPackage
  BY <1>1, <1>2, <1>6 DEF LoadPackage
<1>7. CASE StartRun
  BY <1>1, <1>2, <1>7 DEF StartRun
<1>8. CASE RecordRun
  BY <1>1, <1>2, <1>8 DEF RecordRun
<1> QED
  BY <1>2, <1>3, <1>4, <1>5, <1>6, <1>7, <1>8 DEF RunStep

LEMMA StutterKeeps == IInv /\ UNCHANGED runsVars => IInv'
<1> SUFFICES ASSUME IInv, UNCHANGED runsVars PROVE IInv'
  OBVIOUS
<1>1. StoreInv' /\ RunTyped' /\ (activation' # Inactive => activation'.script \in Scripts)
  BY InvParts DEF runsVars, storeVars, db, history, bounds, StoreInv, Tables, OtherTypes,
                  ConsentedOnly, Installed, RunTyped, HasRead
<1> QED
  BY <1>1 DEF IInv, TypeOK, StoreTypeOK, StoreInv, Tables, OtherTypes, RunTyped, Jobs, Imports,
              Updates, RowJobs

LEMMA NextKeeps == IInv /\ [NextRuns]_runsVars => IInv'
<1> SUFFICES ASSUME IInv, [NextRuns]_runsVars PROVE IInv'
  OBVIOUS
<1>1. CASE StoreNext /\ UNCHANGED activation
  <2>1. StoreInv' /\ RunTyped' /\ (activation' # Inactive => activation'.script \in Scripts)
    BY <1>1, InvParts, StoreKeeps DEF RunTyped, HasRead
  <2> QED
    BY <2>1 DEF IInv, TypeOK, StoreTypeOK, StoreInv, Tables, OtherTypes, RunTyped, Jobs, Imports,
                Updates, RowJobs
<1> QED
  BY <1>1, RunStepKeeps, StutterKeeps DEF NextRuns

-----------------------------------------------------------------------------
(* The files and the rows.  What holds of a file that was left alone:       *)
(* one operation at most handles it, one row at most is of it, it holds that *)
(* row's package but while an install into it is unfinished, and what the    *)
(* operation that handles it found and did so far is still so.              *)

\* The row of a script is of a file.
On(s, f) == Installed(s) /\ FileOf[rows[s].name] = f

\* What an operation has found and left of a file: no other script's row is of
\* it, and no row at all before an import or after a removal; a package that was
\* copied is still there; only the same name is given to it again.
HandlerInOrder(j, f) ==
  /\ \A s \in Scripts \ {j.script} : ~On(s, f)
  /\ j.kind = "import" \/ j.stage = "unlink" => ~On(j.script, f)
  /\ j.stage \in {"insert", "write", "tidy", "commit"} /\ f \in NewFile(j) => files[f] = j.content
  /\ f \in NewFile(j) \cap OldFile(j) => j.seen.name = j.name

OneHandler(f) == \A p, q \in Clients : f \in Handles(job[p]) /\ f \in Handles(job[q]) => p = q

OneRow(f) == \A s, t \in Scripts : On(s, f) /\ On(t, f) => s = t

HoldsItsRow(f) ==
  \A s \in Scripts : On(s, f) => files[f] = rows[s].content \/ \E p \in Clients : f \in Unfinished(job[p])

HandlersInOrder(f) == \A p \in Clients : f \in Handles(job[p]) => HandlerInOrder(job[p], f)

LeftAlone(f) == OneHandler(f) /\ OneRow(f) /\ HoldsItsRow(f) /\ HandlersInOrder(f)

\* Only removals delete rows and files, and do nothing else before they tell.
RemovalsInTurn ==
  \A p \in Clients : /\ job[p].stage \in {"delete", "unlink"} => job[p].kind = "remove"
                     /\ job[p].kind = "remove" => job[p].stage \in {"delete", "unlink", "request"}

FilesInv == RemovalsInTurn /\ \A f \in Files \ disturbed : LeftAlone(f)

LEMMA UnfinishedIsHandled ==
  ASSUME NEW j, j \in Jobs
  PROVE  Unfinished(j) \subseteq Handles(j) /\ Handles(Idle) = {}
  BY DEF Unfinished, Handles, NewFile, OldFile, Idle

\* A step of a client that does not handle the file: it puts no row on it.
LEMMA ElsewhereKeeps ==
  ASSUME StoreInv, NEW f, LeftAlone(f), NEW p \in Clients,
         f \notin Handles(job[p]), f \notin Handles(job'[p]),
         \A q \in Clients \ {p} : job'[q] = job[q],
         files'[f] = files[f],
         \A s \in Scripts : On(s, f)' => On(s, f) /\ rows'[s].content = rows[s].content
  PROVE  LeftAlone(f)'
<1>1. OneHandler(f)'
  BY DEF LeftAlone, OneHandler, Handles, NewFile, OldFile
<1>2. OneRow(f)'
  BY DEF LeftAlone, OneRow
<1>3. HoldsItsRow(f)'
  <2> SUFFICES ASSUME NEW s \in Scripts, On(s, f)', files'[f] # rows'[s].content
               PROVE  \E q \in Clients : f \in Unfinished(job'[q])
    BY DEF HoldsItsRow, Unfinished, NewFile, OldFile
  <2>1. PICK q \in Clients : f \in Unfinished(job[q])
    BY DEF LeftAlone, HoldsItsRow
  <2>2. q # p
    BY <2>1, UnfinishedIsHandled DEF StoreInv
  <2> QED BY <2>1, <2>2
<1>4. HandlersInOrder(f)'
  <2> SUFFICES ASSUME NEW q \in Clients, f \in Handles(job'[q]) PROVE HandlerInOrder(job[q], f)'
    BY DEF HandlersInOrder, Handles, NewFile, OldFile
  <2>1. job'[q] = job[q] /\ HandlerInOrder(job[q], f)
    BY DEF LeftAlone, HandlersInOrder
  <2>2. job[q] # Idle
    BY <2>1, UnfinishedIsHandled DEF StoreInv
  <2>3. job[q].script \in Scripts
    BY <2>2, JobScripts DEF StoreInv
  <2> QED BY <2>1, <2>3 DEF HandlerInOrder, NewFile, OldFile
<1> QED BY <1>1, <1>2, <1>3, <1>4 DEF LeftAlone

\* A step of the one client that handles the file, or begins to.
LEMMA HandlerKeeps ==
  ASSUME NEW f, NEW p \in Clients,
         \A q \in Clients \ {p} : f \notin Handles(job[q]) /\ job'[q] = job[q],
         OneRow(f)',
         \A s \in Scripts : On(s, f)' => files'[f] = rows'[s].content \/ f \in Unfinished(job'[p]),
         f \in Handles(job'[p]) => HandlerInOrder(job[p], f)'
  PROVE  LeftAlone(f)'
<1>1. \A q \in Clients \ {p} : f \notin Handles(job'[q])
  OBVIOUS
<1>2. OneHandler(f)'
  BY <1>1 DEF OneHandler, Handles, NewFile, OldFile
<1>3. HoldsItsRow(f)'
  BY DEF HoldsItsRow, Unfinished, NewFile, OldFile
<1>4. HandlersInOrder(f)'
  BY <1>1 DEF HandlersInOrder, Handles, NewFile, OldFile
<1> QED BY <1>2, <1>3, <1>4 DEF LeftAlone

\* A step that leaves the files and the jobs alone and what rows say of files.
SameFiles ==
  /\ UNCHANGED <<files, job, disturbed>>
  /\ \A s \in Scripts :
       /\ Installed(s)' <=> Installed(s)
       /\ Installed(s) => rows'[s].name = rows[s].name /\ rows'[s].content = rows[s].content

LEMMA SameFilesKeeps ==
  ASSUME StoreInv, FilesInv, SameFiles
  PROVE  FilesInv'
<1>1. RemovalsInTurn'
  BY DEF FilesInv, RemovalsInTurn, SameFiles
<1>2. \A f : \A s \in Scripts : On(s, f)' <=> On(s, f)
  BY DEF On, SameFiles
<1>3. ASSUME NEW f \in Files \ disturbed PROVE LeftAlone(f)'
  <2>1. LeftAlone(f)
    BY DEF FilesInv
  <2>2. OneHandler(f)'
    BY <2>1 DEF LeftAlone, OneHandler, SameFiles
  <2>3. OneRow(f)'
    BY <1>2, <2>1 DEF LeftAlone, OneRow
  <2>4. HoldsItsRow(f)'
    <3> SUFFICES ASSUME NEW s \in Scripts, On(s, f)'
                 PROVE  files'[f] = rows'[s].content \/ \E p \in Clients : f \in Unfinished(job'[p])
      BY DEF HoldsItsRow, Unfinished, NewFile, OldFile
    <3>1. On(s, f) /\ rows'[s].content = rows[s].content /\ files' = files /\ job' = job
      BY <1>2 DEF On, SameFiles
    <3> QED BY <2>1, <3>1 DEF LeftAlone, HoldsItsRow
  <2>5. HandlersInOrder(f)'
    <3> SUFFICES ASSUME NEW q \in Clients, f \in Handles(job'[q]) PROVE HandlerInOrder(job[q], f)'
      BY DEF HandlersInOrder, Handles, NewFile, OldFile
    <3>1. job'[q] = job[q] /\ files' = files /\ HandlerInOrder(job[q], f)
      BY <2>1 DEF LeftAlone, HandlersInOrder, SameFiles
    <3>2. job[q] # Idle
      BY <3>1, UnfinishedIsHandled DEF StoreInv
    <3>3. job[q].script \in Scripts
      BY <3>2, JobScripts DEF StoreInv
    <3> QED BY <1>2, <3>1, <3>3 DEF HandlerInOrder, NewFile, OldFile
  <2> QED BY <2>2, <2>3, <2>4, <2>5 DEF LeftAlone
<1> QED BY <1>1, <1>3 DEF FilesInv, SameFiles


\* What a client does to its job, and what it is then.
LEMMA StageAfter ==
  ASSUME job \in [Clients -> Jobs], NEW p \in Clients, NEW place, Goes(p, place)
  PROVE  /\ \A q \in Clients \ {p} : job'[q] = job[q]
         /\ job'[p].stage = place
         /\ job'[p].kind = job[p].kind /\ job'[p].script = job[p].script
         /\ job'[p].content = job[p].content /\ job'[p].name = job[p].name /\ job'[p].seen = job[p].seen
<1>1. job'[p] = [job[p] EXCEPT !.stage = place] /\ \A q \in Clients \ {p} : job'[q] = job[q]
  BY DEF Goes
<1>2. CASE job[p] \in Imports
  BY <1>1, <1>2 DEF Imports
<1>3. CASE job[p] \in Updates
  BY <1>1, <1>3 DEF Updates
<1>4. CASE job[p] \in RowJobs
  BY <1>1, <1>4 DEF RowJobs
<1>5. CASE job[p] = Idle
  BY <1>1, <1>5 DEF Idle
<1> QED BY <1>2, <1>3, <1>4, <1>5 DEF Jobs

LEMMA EndsAfter ==
  ASSUME job \in [Clients -> Jobs], NEW p \in Clients, Ends(p)
  PROVE  /\ \A q \in Clients \ {p} : job'[q] = job[q]
         /\ job'[p] = Idle /\ job'[p].kind = "none" /\ job'[p].stage = "idle"
  BY DEF Ends, Idle

\* A client that goes on handles what it handled, one that tells or ends nothing.
LEMMA HandlesAfter ==
  ASSUME job \in [Clients -> Jobs], NEW p \in Clients, NEW place,
         Ends(p) \/ (Goes(p, place) /\ job[p].stage # "request")
  PROVE  /\ NewFile(job'[p]) \subseteq NewFile(job[p]) /\ OldFile(job'[p]) \subseteq OldFile(job[p])
         /\ Handles(job'[p]) \subseteq Handles(job[p])
         /\ Ends(p) \/ place = "request" => Handles(job'[p]) = {}
<1>1. CASE Ends(p)
  <2>1. Handles(job'[p]) = {}
    BY <1>1, EndsAfter DEF Handles, NewFile, OldFile
  <2> QED BY <2>1 DEF Handles
<1>2. CASE Goes(p, place) /\ job[p].stage # "request"
  <2>1. /\ job'[p].stage = place /\ job'[p].kind = job[p].kind
        /\ job'[p].name = job[p].name /\ job'[p].seen = job[p].seen
    BY <1>2, StageAfter
  <2>2. NewFile(job'[p]) \subseteq NewFile(job[p]) /\ (place = "request" => NewFile(job'[p]) = {})
    BY <1>2, <2>1 DEF NewFile
  <2>3. OldFile(job'[p]) \subseteq OldFile(job[p]) /\ (place = "request" => OldFile(job'[p]) = {})
    BY <1>2, <2>1 DEF OldFile
  <2>4. Ends(p) => Handles(job'[p]) = {}
    BY EndsAfter DEF Handles, NewFile, OldFile
  <2> QED BY <2>2, <2>3, <2>4 DEF Handles
<1> QED BY <1>1, <1>2

\* What is done with rows and approvals alone handles no file.
LEMMA RowsOnlyHandleNothing ==
  ASSUME job \in [Clients -> Jobs], RemovalsInTurn, NEW p \in Clients,
         job[p].stage \in {"verify", "approve", "revoke", "set", "request"}
  PROVE  Handles(job[p]) = {}
<1>1. job[p].stage = "request" \/ job[p].kind \notin {"import", "update"}
  BY DEF Jobs, Idle, Imports, Updates, RowJobs
<1>2. job[p].stage = "request" \/ job[p].kind # "remove"
  BY DEF RemovalsInTurn
<1> QED BY <1>1, <1>2 DEF Handles, NewFile, OldFile

\* A file that its one handler has not made unfinished holds its row's package.
LEMMA HandledHoldsItsRow ==
  ASSUME StoreInv, NEW f, LeftAlone(f), NEW p \in Clients, f \in Handles(job[p]),
         f \notin Unfinished(job[p]), NEW s \in Scripts, On(s, f)
  PROVE  files[f] = rows[s].content
<1>1. SUFFICES ASSUME NEW q \in Clients, f \in Unfinished(job[q]) PROVE FALSE
  BY DEF LeftAlone, HoldsItsRow
<1>2. f \in Handles(job[q])
  BY <1>1, UnfinishedIsHandled DEF StoreInv
<1> QED BY <1>1, <1>2 DEF LeftAlone, OneHandler

\* A client that ends without an unfinished file leaves its files in order.
LEMMA EndKeeps ==
  ASSUME StoreInv, NEW f, LeftAlone(f), NEW p \in Clients, Ends(p), UNCHANGED <<rows, files>>,
         f \notin Unfinished(job[p])
  PROVE  LeftAlone(f)'
<1>1. (\A q \in Clients \ {p} : job'[q] = job[q]) /\ Handles(job'[p]) = {}
  BY EndsAfter, HandlesAfter DEF StoreInv
<1>2. \A s \in Scripts : On(s, f)' <=> On(s, f)
  BY DEF On, Installed
<1>3. CASE f \notin Handles(job[p])
  BY <1>1, <1>2, <1>3, ElsewhereKeeps
<1>4. CASE f \in Handles(job[p])
  <2>1. OneRow(f)'
    BY <1>2 DEF LeftAlone, OneRow
  <2>2. \A s \in Scripts : On(s, f)' => files'[f] = rows'[s].content
    BY <1>2, <1>4, HandledHoldsItsRow
  <2>3. \A q \in Clients \ {p} : f \notin Handles(job[q])
    BY <1>4 DEF LeftAlone, OneHandler
  <2> QED BY <1>1, <2>1, <2>2, <2>3, HandlerKeeps
<1> QED BY <1>3, <1>4

\* Beginning an operation: the file it will install was left alone from now on,
\* whatever happened to it before, unless it is contested.
LEMMA BeginsKeepsFiles ==
  ASSUME StoreInv, NEW p \in Clients, NEW j \in Jobs \ {Idle}, Begins(p, j),
         NEW f \in Files \ disturbed', f \notin disturbed => LeftAlone(f),
         j.kind \in {"import", "update"} => j.stage = "copy" /\ Free(j.name, j.script),
         j.kind = "import" => ~Installed(j.script),
         j.kind # "import" => Installed(j.script) /\ j.seen = rows[j.script],
         j.stage \notin {"unlink", "insert", "write", "tidy", "commit"}
  PROVE  LeftAlone(f)'
<1>1. /\ job[p] = Idle /\ UNCHANGED <<rows, files>> /\ f \notin Contested(p, j)
      /\ f \notin disturbed \/ f \in NewFile(j)
  BY DEF Begins, db
<1>2. job'[p] = j /\ \A q \in Clients \ {p} : job'[q] = job[q]
  BY DEF Begins, StoreInv
<1>3. Handles(job[p]) = {}
  BY <1>1, UnfinishedIsHandled
<1>4. \A s \in Scripts : On(s, f)' <=> On(s, f)
  BY <1>1 DEF On, Installed
<1>5. j.script \in Scripts
  BY DEF Jobs, Imports, Updates, RowJobs
<1>6. CASE f \notin Handles(j)
  <2>1. LeftAlone(f)
    BY <1>1, <1>6 DEF Handles
  <2> QED BY <1>1, <1>2, <1>3, <1>4, <1>6, <2>1, ElsewhereKeeps
<1>7. ASSUME f \in Handles(j) PROVE \A q \in Clients \ {p} : f \notin Handles(job[q])
  BY <1>1, <1>7 DEF Contested
<1>8. CASE f \in NewFile(j)
  <2>1. j.kind \in {"import", "update"} /\ f = FileOf[j.name]
    BY <1>8 DEF NewFile
  <2>2. \A s \in Scripts : On(s, f) => rows[s].name = j.name
    BY <1>1, <1>8 DEF Contested, On
  <2>3. \A s \in Scripts : On(s, f) => s = j.script
    BY <2>1, <2>2 DEF Free, On
  <2>4. OneRow(f)'
    BY <1>4, <2>3 DEF OneRow
  <2>5. f \in Unfinished(job'[p])
    BY <1>2, <1>8 DEF Unfinished
  <2>6. HandlerInOrder(job[p], f)'
    <3>1. \A s \in Scripts \ {j.script} : ~On(s, f)'
      BY <1>4, <2>3
    <3>2. j.kind = "import" => ~On(j.script, f)'
      BY <1>4, <1>5 DEF On
    <3>3. ASSUME f \in OldFile(j) PROVE j.seen.name = j.name
      <4>1. On(j.script, f) /\ j.seen = rows[j.script]
        BY <2>1, <3>3 DEF OldFile, On
      <4> QED BY <1>5, <2>2, <4>1
    <3> QED BY <1>2, <2>1, <3>1, <3>2, <3>3 DEF HandlerInOrder, NewFile, OldFile
  <2> QED BY <1>2, <1>7, <1>8, <2>4, <2>5, <2>6, HandlerKeeps DEF Handles
<1>9. CASE f \in OldFile(j) /\ f \notin NewFile(j)
  <2>1. LeftAlone(f)
    BY <1>1, <1>9
  <2>2. j.kind \in {"update", "remove"} /\ On(j.script, f)
    BY <1>9 DEF OldFile, On
  <2>3. \A s \in Scripts : On(s, f) => s = j.script
    BY <1>5, <2>1, <2>2 DEF LeftAlone, OneRow
  <2>4. OneRow(f)'
    BY <1>4, <2>3 DEF OneRow
  <2>5. ASSUME NEW s \in Scripts, On(s, f)' PROVE files'[f] = rows'[s].content
    <3>1. \A q \in Clients : f \notin Handles(job[q])
      BY <1>3, <1>7, <1>9 DEF Handles
    <3>2. \A q \in Clients : f \notin Unfinished(job[q])
      BY <3>1, UnfinishedIsHandled DEF StoreInv
    <3> QED BY <1>1, <1>4, <2>1, <2>5, <3>2 DEF LeftAlone, HoldsItsRow
  <2>6. HandlerInOrder(job[p], f)'
    BY <1>2, <1>4, <1>9, <2>2, <2>3 DEF HandlerInOrder, NewFile, OldFile
  <2> QED BY <1>2, <1>7, <1>9, <2>4, <2>5, <2>6, HandlerKeeps DEF Handles
<1> QED BY <1>6, <1>8, <1>9 DEF Handles

LEMMA BeginKeepsFiles ==
  ASSUME StoreInv, NEW p \in Clients, Begin(p),
         NEW f \in Files \ disturbed', f \notin disturbed => LeftAlone(f)
  PROVE  LeftAlone(f)'
<1>1. ASSUME NEW c \in Contents, NEW n \in Names, BeginImport(p, c, n)  PROVE LeftAlone(f)'
  <2> DEFINE j == [Idle EXCEPT !.kind = "import", !.stage = "copy", !.script = Owner[c],
                               !.content = c, !.name = n]
  <2>1. j \in Jobs \ {Idle} /\ j.kind = "import" /\ j.stage = "copy" /\ j.script = Owner[c] /\ j.name = n
    BY ScriptStoreAssumption DEF Jobs, Imports, Idle
  <2>2. ~Installed(Owner[c]) /\ Free(n, Owner[c]) /\ Begins(p, j)
    BY <1>1 DEF BeginImport
  <2> HIDE DEF j
  <2> QED BY <2>1, <2>2, BeginsKeepsFiles
<1>2. ASSUME NEW c \in Contents, NEW n \in Names, BeginUpdate(p, c, n)  PROVE LeftAlone(f)'
  <2> DEFINE j == [Idle EXCEPT !.kind = "update", !.stage = "copy", !.script = Owner[c],
                               !.content = c, !.name = n, !.seen = rows[Owner[c]]]
  <2>1. Installed(Owner[c]) /\ Free(n, Owner[c]) /\ Begins(p, j)
    BY <1>2 DEF BeginUpdate
  <2>2. rows[Owner[c]] \in Row /\ Owner[c] \in Scripts
    BY <2>1, ScriptStoreAssumption DEF Installed, StoreInv, Tables
  <2>3. /\ j \in Jobs \ {Idle} /\ j.kind = "update" /\ j.stage = "copy" /\ j.script = Owner[c]
        /\ j.name = n /\ j.seen = rows[Owner[c]]
    BY <2>2 DEF Jobs, Updates, Idle
  <2> HIDE DEF j
  <2> QED BY <2>1, <2>3, BeginsKeepsFiles
<1>3. ASSUME NEW s \in Scripts, NEW kind \in {"remove", "approve", "revoke", "switch"},
             NEW on \in BOOLEAN, NEW stage \in {"delete", "verify", "revoke", "set"},
             BeginOnRow(p, s, kind, on, stage)
      PROVE  LeftAlone(f)'
  <2> DEFINE j == [Idle EXCEPT !.kind = kind, !.stage = stage, !.script = s, !.on = on,
                               !.seen = rows[s]]
  <2>1. Installed(s) /\ Begins(p, j)
    BY <1>3 DEF BeginOnRow
  <2>2. rows[s] \in Row
    BY <2>1 DEF Installed, StoreInv, Tables
  <2>3. /\ j \in Jobs \ {Idle} /\ j.kind = kind /\ j.stage = stage /\ j.script = s /\ j.seen = rows[s]
    BY <2>2 DEF Jobs, RowJobs, Idle
  <2> HIDE DEF j
  <2> QED BY <2>1, <2>3, BeginsKeepsFiles
<1> QED
  BY <1>1, <1>2, <1>3 DEF Begin, BeginRemove, BeginApprove, BeginRevoke, BeginSwitch

LEMMA ClientKeepsFiles ==
  ASSUME StoreInv, RemovalsInTurn, NEW p \in Clients, ClientStep(p),
         NEW f \in Files \ disturbed', LeftAlone(f)
  PROVE  LeftAlone(f)'
<1> DEFINE j == job[p]
<1>1. /\ job \in [Clients -> Jobs] /\ rows \in [Scripts -> Row \cup {None}]
      /\ files \in [Files -> Contents \cup {None}]
  BY DEF StoreInv, Tables, OtherTypes
<1>2. /\ j.stage \in {"copy", "insert", "write", "tidy", "commit"} =>
           /\ j.kind \in {"import", "update"} /\ j.script \in Scripts
           /\ j.content \in Contents /\ j.name \in Names /\ FileOf[j.name] \in Files
      /\ j.stage = "insert" => j.kind = "import"
      /\ j.stage \in {"write", "tidy", "commit"} => j.kind = "update"
      /\ j.stage \in {"write", "tidy", "commit", "delete", "unlink", "verify", "approve", "revoke", "set"}
           => j.script \in Scripts /\ j.seen \in Row
  BY <1>1, StageTells, ScriptStoreAssumption
  DEF ScriptStoreAssumption, Jobs, Idle, Imports, Updates, RowJobs
<1>3. ASSUME f \in Handles(j) PROVE \A q \in Clients \ {p} : f \notin Handles(job[q])
  BY <1>3 DEF LeftAlone, OneHandler
<1>4. ASSUME f \in Handles(j) PROVE HandlerInOrder(j, f)
  BY <1>4 DEF LeftAlone, HandlersInOrder
<1>5. ASSUME UNCHANGED rows PROVE OneRow(f)' /\ \A s \in Scripts : On(s, f)' <=> On(s, f)
  BY <1>5 DEF LeftAlone, OneRow, On, Installed
<1> HIDE DEF j
<1> DEFINE Same == /\ job'[p].kind = j.kind /\ job'[p].script = j.script
                   /\ job'[p].content = j.content /\ job'[p].name = j.name /\ job'[p].seen = j.seen
<1>6. ASSUME NEW place, Goes(p, place)
      PROVE  (\A q \in Clients \ {p} : job'[q] = job[q]) /\ job'[p].stage = place /\ Same
  BY <1>1, <1>6, StageAfter DEF j
<1>7. ASSUME NEW place, Goes(p, place), place = "request" PROVE Handles(job'[p]) = {}
  BY <1>6, <1>7 DEF Handles, NewFile, OldFile
<1>8. ASSUME NEW place, Ends(p) \/ Goes(p, place), f \notin Handles(j), j.stage # "request",
             files'[f] = files[f],
             \A s \in Scripts : On(s, f)' => On(s, f) /\ rows'[s].content = rows[s].content
      PROVE  LeftAlone(f)'
  <2>1. \A q \in Clients \ {p} : job'[q] = job[q]
    BY <1>1, <1>8, EndsAfter, StageAfter
  <2>2. f \notin Handles(job'[p])
    BY <1>1, <1>8, HandlesAfter DEF j
  <2> QED BY <1>8, <2>1, <2>2, ElsewhereKeeps DEF j
\* With rows and approvals alone.
<1>9. ASSUME NEW place, Ends(p) \/ Goes(p, place),
             j.stage \in {"verify", "approve", "revoke", "set"}, UNCHANGED <<rows, files>>
      PROVE  LeftAlone(f)'
  <2>1. Handles(j) = {}
    BY <1>1, <1>9, RowsOnlyHandleNothing DEF j
  <2> QED BY <1>5, <1>8, <1>9, <2>1
<1>10. CASE CopyPackage(p)
  <2>1. /\ j.stage = "copy" /\ files' = [files EXCEPT ![FileOf[j.name]] = j.content] /\ UNCHANGED rows
        /\ Goes(p, IF j.kind = "import" THEN "insert" ELSE "write")
    BY <1>10 DEF CopyPackage, db, j
  <2>2. /\ \A q \in Clients \ {p} : job'[q] = job[q]
        /\ job'[p].stage = (IF j.kind = "import" THEN "insert" ELSE "write") /\ Same
    BY <1>6, <2>1
  <2>3. NewFile(j) = {FileOf[j.name]} /\ NewFile(job'[p]) = {FileOf[j.name]}
    BY <1>2, <2>1, <2>2 DEF NewFile
  <2>4. files'[FileOf[j.name]] = j.content /\ (f # FileOf[j.name] => files'[f] = files[f])
    BY <1>1, <1>2, <2>1
  <2>5. CASE f \notin Handles(j)
    BY <1>5, <1>8, <2>1, <2>3, <2>4, <2>5 DEF Handles
  <2>6. CASE f \in Handles(j)
    <3>1. ASSUME NEW s \in Scripts, On(s, f)', f \notin Unfinished(job'[p])
          PROVE  files'[f] = rows'[s].content
      <4>1. f # FileOf[j.name] /\ f \notin Unfinished(j)
        BY <2>1, <2>3, <3>1 DEF Unfinished
      <4> QED BY <1>5, <2>1, <2>4, <2>6, <3>1, <4>1, HandledHoldsItsRow DEF j
    <3>2. OldFile(job'[p]) = OldFile(j)
      BY <2>1, <2>2 DEF OldFile
    <3>3. HandlerInOrder(job[p], f)'
      BY <1>2, <1>4, <1>5, <2>1, <2>2, <2>3, <2>4, <2>6, <3>2 DEF HandlerInOrder, NewFile, OldFile
    <3> QED BY <1>3, <1>5, <2>1, <2>2, <2>6, <3>1, <3>3, HandlerKeeps DEF j
  <2> QED BY <2>5, <2>6
<1>11. CASE InsertRow(p)
  <2>1. j.stage = "insert" /\ UNCHANGED files
    BY <1>11 DEF InsertRow, j
  <2>2. Handles(j) = {FileOf[j.name]} /\ NewFile(j) = {FileOf[j.name]}
    BY <1>2, <2>1 DEF Handles, NewFile, OldFile
  <2>3. CASE Ends(p) /\ UNCHANGED rows /\ disturbed' = disturbed \cup Unfinished(j)
    BY <1>5, <1>8, <2>1, <2>2, <2>3 DEF Unfinished
  <2>4. CASE /\ Goes(p, "request")
             /\ rows' = [rows EXCEPT ![j.script] = [content |-> j.content, name |-> j.name, enabled |-> TRUE]]
    <3>1. /\ rows'[j.script].content = j.content /\ rows'[j.script].name = j.name
          /\ \A s \in Scripts \ {j.script} : rows'[s] = rows[s]
      BY <1>1, <1>2, <2>1, <2>4
    <3>2. \A s \in Scripts \ {j.script} : On(s, f)' <=> On(s, f)
      BY <3>1 DEF On, Installed
    <3>3. \A s \in Scripts : s = j.script /\ On(s, f)' => f = FileOf[j.name]
      BY <3>1 DEF On
    <3>4. CASE f \notin Handles(j)
      BY <1>8, <2>1, <2>2, <2>4, <3>1, <3>2, <3>3, <3>4
    <3>5. CASE f \in Handles(j)
      <4>1. \A s \in Scripts : On(s, f)' => s = j.script
        BY <1>4, <3>2, <3>5 DEF HandlerInOrder
      <4>2. files[f] = j.content
        BY <1>4, <2>1, <2>2, <3>5 DEF HandlerInOrder
      <4>3. OneRow(f)' /\ \A s \in Scripts : On(s, f)' => files'[f] = rows'[s].content
        BY <2>1, <3>1, <4>1, <4>2 DEF OneRow
      <4> QED BY <1>3, <1>6, <1>7, <2>4, <3>5, <4>3, HandlerKeeps DEF j
    <3> QED BY <3>4, <3>5
  <2> QED BY <1>11, <2>3, <2>4 DEF InsertRow, BreaksOff, j
<1>12. CASE WriteRow(p)
  <2>1. j.stage = "write" /\ UNCHANGED <<rows, files>>
    BY <1>12 DEF WriteRow, db, j
  <2>2. CASE Ends(p) /\ disturbed' = disturbed \cup Unfinished(j)
    BY <2>1, <2>2, EndKeeps DEF j
  <2>3. CASE Goes(p, "tidy")
    <3>1. (\A q \in Clients \ {p} : job'[q] = job[q]) /\ job'[p].stage = "tidy" /\ Same
      BY <1>6, <2>3
    <3>2. /\ NewFile(job'[p]) = NewFile(j) /\ OldFile(job'[p]) = OldFile(j)
          /\ Unfinished(job'[p]) = Unfinished(j)
      BY <2>1, <3>1 DEF Unfinished, NewFile, OldFile
    <3>3. CASE f \notin Handles(j)
      BY <1>5, <1>8, <2>1, <2>3, <3>3
    <3>4. CASE f \in Handles(j)
      <4>1. \A s \in Scripts : On(s, f)' => files'[f] = rows'[s].content \/ f \in Unfinished(job'[p])
        BY <1>5, <2>1, <3>2, <3>4, HandledHoldsItsRow DEF j
      <4>2. HandlerInOrder(job[p], f)'
        BY <1>2, <1>4, <1>5, <2>1, <3>1, <3>2, <3>4 DEF HandlerInOrder, NewFile, OldFile
      <4> QED BY <1>3, <1>5, <2>1, <3>1, <3>4, <4>1, <4>2, HandlerKeeps DEF j
    <3> QED BY <3>3, <3>4
  <2> QED BY <1>12, <2>2, <2>3 DEF WriteRow, BreaksOff, j
<1>13. CASE RemovePrevious(p)
  <2>1. /\ j.stage = "tidy" /\ UNCHANGED rows /\ Goes(p, "commit")
        /\ files' = IF j.seen.name # j.name THEN [files EXCEPT ![FileOf[j.seen.name]] = None] ELSE files
    BY <1>13 DEF RemovePrevious, RenamesFile, db, j
  <2>2. (\A q \in Clients \ {p} : job'[q] = job[q]) /\ job'[p].stage = "commit" /\ Same
    BY <1>6, <2>1
  <2>3. OldFile(j) = {FileOf[j.seen.name]} /\ NewFile(j) = {FileOf[j.name]}
    BY <1>2, <2>1 DEF OldFile, NewFile
  <2>4. NewFile(job'[p]) = NewFile(j) /\ OldFile(job'[p]) = OldFile(j)
    BY <2>1, <2>2 DEF NewFile, OldFile
  <2>5. f # FileOf[j.seen.name] \/ j.seen.name = j.name => files'[f] = files[f]
    BY <1>1, <2>1
  <2>6. CASE f \notin Handles(j)
    BY <1>5, <1>8, <2>1, <2>3, <2>5, <2>6 DEF Handles
  <2>7. CASE f \in Handles(j)
    <3>1. f \in Unfinished(job'[p])
      BY <2>2, <2>4, <2>7 DEF Unfinished, Handles
    <3>2. f \in NewFile(j) => files'[f] = j.content
      BY <1>4, <2>1, <2>3, <2>5, <2>7 DEF HandlerInOrder
    <3>3. HandlerInOrder(job[p], f)'
      BY <1>2, <1>4, <1>5, <2>1, <2>2, <2>4, <2>7, <3>2 DEF HandlerInOrder, NewFile, OldFile
    <3> QED BY <1>3, <1>5, <2>1, <2>2, <2>7, <3>1, <3>3, HandlerKeeps DEF j
  <2> QED BY <2>6, <2>7
<1>14. CASE CommitUpdate(p)
  <2>1. /\ j.stage = "commit" /\ UNCHANGED files /\ Ends(p)
        /\ rows' = [rows EXCEPT ![j.script] = [content |-> j.content, name |-> j.name,
                                               enabled |-> j.seen.enabled]]
    BY <1>14 DEF CommitUpdate, j
  <2>2. (\A q \in Clients \ {p} : job'[q] = job[q]) /\ Handles(job'[p]) = {}
    BY <1>1, <2>1, EndsAfter, HandlesAfter
  <2>3. NewFile(j) = {FileOf[j.name]}
    BY <1>2, <2>1 DEF NewFile
  <2>4. /\ rows'[j.script].content = j.content /\ rows'[j.script].name = j.name
        /\ \A s \in Scripts \ {j.script} : rows'[s] = rows[s]
    BY <1>1, <1>2, <2>1
  <2>5. \A s \in Scripts \ {j.script} : On(s, f)' <=> On(s, f)
    BY <2>4 DEF On, Installed
  <2>6. \A s \in Scripts : s = j.script /\ On(s, f)' => f = FileOf[j.name]
    BY <2>4 DEF On
  <2>7. CASE f \notin Handles(j)
    <3>1. \A s \in Scripts : On(s, f)' => On(s, f) /\ rows'[s].content = rows[s].content
      BY <2>3, <2>4, <2>5, <2>6, <2>7 DEF Handles
    <3> QED BY <1>8, <2>1, <2>7, <3>1
  <2>8. CASE f \in Handles(j)
    <3>1. \A s \in Scripts : On(s, f)' => s = j.script
      BY <1>4, <2>5, <2>8 DEF HandlerInOrder
    <3>2. f = FileOf[j.name] => files[f] = j.content
      BY <1>4, <2>1, <2>3, <2>8 DEF HandlerInOrder
    <3>3. OneRow(f)' /\ \A s \in Scripts : On(s, f)' => files'[f] = rows'[s].content
      BY <2>1, <2>4, <2>6, <3>1, <3>2 DEF OneRow
    <3> QED BY <1>3, <2>2, <2>8, <3>3, HandlerKeeps DEF j
  <2> QED BY <2>7, <2>8
<1>15. CASE DeleteRow(p)
  <2>1. /\ j.stage = "delete" /\ UNCHANGED files /\ Goes(p, "unlink")
        /\ rows' = [rows EXCEPT ![j.script] = None]
    BY <1>15 DEF DeleteRow, j
  <2>2. (\A q \in Clients \ {p} : job'[q] = job[q]) /\ job'[p].stage = "unlink" /\ Same
    BY <1>6, <2>1
  <2>3. j.kind = "remove"
    BY <2>1 DEF RemovalsInTurn, j
  <2>4. rows'[j.script] = None /\ \A s \in Scripts \ {j.script} : rows'[s] = rows[s]
    BY <1>1, <1>2, <2>1
  <2>5. \A s \in Scripts : On(s, f)' => s # j.script /\ On(s, f) /\ rows'[s] = rows[s]
    BY <2>4 DEF On, Installed
  <2>6. CASE f \notin Handles(j)
    BY <1>8, <2>1, <2>5, <2>6
  <2>7. CASE f \in Handles(j)
    <3>1. \A s \in Scripts : ~On(s, f)'
      BY <1>4, <2>5, <2>7 DEF HandlerInOrder
    <3>2. OneRow(f)'
      BY <3>1 DEF OneRow
    <3>3. HandlerInOrder(job[p], f)'
      BY <1>2, <2>1, <2>2, <2>3, <3>1 DEF HandlerInOrder, NewFile, OldFile
    <3> QED BY <1>3, <2>2, <2>7, <3>1, <3>2, <3>3, HandlerKeeps DEF j
  <2> QED BY <2>6, <2>7
<1>16. CASE RemoveFile(p)
  <2>1. /\ j.stage = "unlink" /\ UNCHANGED rows /\ Goes(p, "request")
        /\ files' = [files EXCEPT ![FileOf[j.seen.name]] = None]
    BY <1>16 DEF RemoveFile, db, j
  <2>2. j.kind = "remove" /\ FileOf[j.seen.name] \in Handles(j)
    BY <2>1 DEF RemovalsInTurn, Handles, OldFile, j
  <2>3. f # FileOf[j.seen.name] => files'[f] = files[f]
    BY <1>1, <2>1
  <2>4. CASE f \notin Handles(j)
    BY <1>5, <1>8, <2>1, <2>2, <2>3, <2>4
  <2>5. CASE f \in Handles(j)
    <3>1. \A s \in Scripts : ~On(s, f)'
      BY <1>2, <1>4, <1>5, <2>1, <2>5 DEF HandlerInOrder
    <3> QED BY <1>3, <1>5, <1>6, <1>7, <2>1, <2>5, <3>1, HandlerKeeps DEF j
  <2> QED BY <2>4, <2>5
<1>17. CASE VerifyPackage(p)
  <2>1. /\ j.stage = "verify" /\ UNCHANGED <<rows, files>>
        /\ Ends(p) \/ \E place \in {"approve", "set"} : Goes(p, place)
    BY <1>17 DEF VerifyPackage, db, j
  <2> QED BY <1>9, <2>1
<1>18. CASE RecordApproval(p)
  <2>1. j.stage = "approve" /\ UNCHANGED <<rows, files>> /\ Ends(p)
    BY <1>18 DEF RecordApproval, j
  <2> QED BY <1>9, <2>1
<1>19. CASE RevokeApproval(p)
  <2>1. j.stage = "revoke" /\ UNCHANGED <<rows, files>> /\ Goes(p, "request")
    BY <1>19 DEF RevokeApproval, j
  <2> QED BY <1>9, <2>1
<1>20. CASE SetEnabled(p)
  <2>1. /\ j.stage = "set" /\ UNCHANGED files /\ j.script \in Scripts
        /\ \/ Ends(p) /\ UNCHANGED rows
           \/ Installed(j.script) /\ Goes(p, "request") /\ rows' = [rows EXCEPT ![j.script].enabled = j.on]
    BY <1>2, <1>20 DEF SetEnabled, j
  <2>2. CASE Ends(p) /\ UNCHANGED rows
    BY <1>9, <2>1, <2>2
  <2>3. CASE Installed(j.script) /\ Goes(p, "request") /\ rows' = [rows EXCEPT ![j.script].enabled = j.on]
    <3>1. rows[j.script] \in Row
      BY <1>1, <2>1, <2>3 DEF Installed
    <3>2. /\ rows'[j.script].name = rows[j.script].name /\ rows'[j.script].content = rows[j.script].content
          /\ \A s \in Scripts \ {j.script} : rows'[s] = rows[s]
      BY <1>1, <2>1, <2>3, <3>1 DEF Row
    <3>3. \A s \in Scripts : On(s, f)' => On(s, f) /\ rows'[s].content = rows[s].content
      BY <2>3, <3>2 DEF On, Installed
    <3>4. Handles(j) = {}
      BY <1>1, <2>1, RowsOnlyHandleNothing DEF j
    <3> QED BY <1>8, <2>1, <2>3, <3>3, <3>4
  <2> QED BY <2>1, <2>2, <2>3
<1>21. CASE RequestReload(p)
  <2>1. j.stage = "request" /\ UNCHANGED <<rows, files>> /\ Ends(p)
    BY <1>21 DEF RequestReload, j
  <2>2. f \notin Unfinished(j)
    BY <2>1 DEF Unfinished, NewFile
  <2> QED BY <2>1, <2>2, EndKeeps DEF j
<1> QED
  BY <1>10, <1>11, <1>12, <1>13, <1>14, <1>15, <1>16, <1>17, <1>18, <1>19, <1>20, <1>21 DEF ClientStep

\* Nothing but a next install makes a file count as left alone again.
LEMMA DisturbedByClients ==
  ASSUME NEW p \in Clients, ClientStep(p) \/ Interrupted(p)
  PROVE  disturbed \subseteq disturbed'
  BY DEF ClientStep, Interrupted, BreaksOff, CopyPackage, InsertRow, WriteRow, RemovePrevious,
         CommitUpdate, DeleteRow, RemoveFile, VerifyPackage, RecordApproval, RevokeApproval,
         SetEnabled, RequestReload, history

LEMMA RemovalsStayInTurn ==
  ASSUME StoreInv, RemovalsInTurn, NEW p \in Clients, Begin(p) \/ ClientStep(p) \/ Interrupted(p)
  PROVE  RemovalsInTurn'
<1> DEFINE InTurn(j) == /\ j.stage \in {"delete", "unlink"} => j.kind = "remove"
                        /\ j.kind = "remove" => j.stage \in {"delete", "unlink", "request"}
<1>1. SUFFICES (\A q \in Clients \ {p} : job'[q] = job[q]) /\ InTurn(job'[p])
  BY DEF RemovalsInTurn
<1>2. InTurn(job[p]) /\ job \in [Clients -> Jobs]
  BY DEF RemovalsInTurn, StoreInv
<1> HIDE DEF InTurn
<1>3. ASSUME Ends(p) PROVE (\A q \in Clients \ {p} : job'[q] = job[q]) /\ InTurn(job'[p])
  BY <1>2, <1>3, EndsAfter DEF InTurn
<1>4. ASSUME NEW place, Goes(p, place),
             place = "request" \/ (place = "unlink" /\ job[p].stage = "delete")
             \/ (/\ place \in {"insert", "write", "tidy", "commit", "approve", "set"}
                 /\ job[p].stage \in {"copy", "insert", "write", "tidy", "commit", "verify"})
      PROVE  (\A q \in Clients \ {p} : job'[q] = job[q]) /\ InTurn(job'[p])
  BY <1>2, <1>4, StageAfter DEF InTurn
<1>5. ASSUME NEW j, Begins(p, j), InTurn(j)
      PROVE  (\A q \in Clients \ {p} : job'[q] = job[q]) /\ InTurn(job'[p])
  BY <1>2, <1>5 DEF Begins
<1>6. CASE Begin(p)
  <2>1. ASSUME NEW c, NEW n, BeginImport(p, c, n)
        PROVE  (\A q \in Clients \ {p} : job'[q] = job[q]) /\ InTurn(job'[p])
    <3> DEFINE j == [Idle EXCEPT !.kind = "import", !.stage = "copy", !.script = Owner[c],
                                 !.content = c, !.name = n]
    <3>1. Begins(p, j) /\ InTurn(j)
      BY <2>1 DEF BeginImport, InTurn, Idle
    <3> QED BY <1>5, <3>1
  <2>2. ASSUME NEW c, NEW n, BeginUpdate(p, c, n)
        PROVE  (\A q \in Clients \ {p} : job'[q] = job[q]) /\ InTurn(job'[p])
    <3> DEFINE j == [Idle EXCEPT !.kind = "update", !.stage = "copy", !.script = Owner[c],
                                 !.content = c, !.name = n, !.seen = rows[Owner[c]]]
    <3>1. Begins(p, j) /\ InTurn(j)
      BY <2>2 DEF BeginUpdate, InTurn, Idle
    <3> QED BY <1>5, <3>1
  <2>3. ASSUME NEW s, NEW kind, NEW on, NEW stage, BeginOnRow(p, s, kind, on, stage),
               (kind = "remove" /\ stage = "delete")
               \/ (kind \in {"approve", "revoke", "switch"} /\ stage \in {"verify", "revoke", "set"})
        PROVE  (\A q \in Clients \ {p} : job'[q] = job[q]) /\ InTurn(job'[p])
    <3> DEFINE j == [Idle EXCEPT !.kind = kind, !.stage = stage, !.script = s, !.on = on,
                                 !.seen = rows[s]]
    <3>1. Begins(p, j) /\ InTurn(j)
      BY <2>3 DEF BeginOnRow, InTurn, Idle
    <3> QED BY <1>5, <3>1
  <2> QED
    BY <1>6, <2>1, <2>2, <2>3 DEF Begin, BeginRemove, BeginApprove, BeginRevoke, BeginSwitch
<1>7. CASE Interrupted(p)
  BY <1>3, <1>7 DEF Interrupted
<1>8. CASE ClientStep(p)
  BY <1>3, <1>4, <1>8
  DEF ClientStep, CopyPackage, InsertRow, WriteRow, RemovePrevious, CommitUpdate, DeleteRow,
      RemoveFile, VerifyPackage, RecordApproval, RevokeApproval, SetEnabled, RequestReload
<1> QED BY <1>6, <1>7, <1>8

LEMMA InterruptedKeepsFiles ==
  ASSUME StoreInv, NEW p \in Clients, Interrupted(p), NEW f \in Files \ disturbed', LeftAlone(f)
  PROVE  LeftAlone(f)'
<1>1. Ends(p) /\ UNCHANGED <<rows, files>> /\ f \notin Unfinished(job[p])
  BY DEF Interrupted, BreaksOff, db
<1> QED BY <1>1, EndKeeps

LEMMA StoreKeepsFiles ==
  ASSUME StoreInv, FilesInv, StoreNext
  PROVE  FilesInv'
<1>1. PICK p \in Clients : Begin(p) \/ ClientStep(p) \/ Interrupted(p)
  BY DEF StoreNext
<1>2. RemovalsInTurn'
  BY <1>1, RemovalsStayInTurn DEF FilesInv
<1>3. ASSUME NEW f \in Files \ disturbed' PROVE LeftAlone(f)'
  <2>1. f \notin disturbed => LeftAlone(f)
    BY DEF FilesInv
  <2>2. CASE Begin(p)
    BY <2>1, <2>2, BeginKeepsFiles
  <2>3. CASE ClientStep(p) \/ Interrupted(p)
    <3>1. LeftAlone(f)
      BY <2>1, <2>3, DisturbedByClients
    <3> QED BY <2>3, <3>1, ClientKeepsFiles, InterruptedKeepsFiles DEF FilesInv
  <2> QED BY <1>1, <2>2, <2>3
<1> QED BY <1>2, <1>3 DEF FilesInv

LEMMA NextKeepsFiles == IInv /\ FilesInv /\ [NextRuns]_runsVars => FilesInv'
<1> SUFFICES ASSUME IInv, FilesInv, [NextRuns]_runsVars PROVE FilesInv'
  OBVIOUS
<1>1. StoreInv
  BY InvParts
<1>2. CASE StoreNext
  BY <1>1, <1>2, StoreKeepsFiles
<1>3. CASE RunStep \/ UNCHANGED runsVars
  <2>1. UNCHANGED <<rows, files, job, disturbed>>
    BY <1>3 DEF RunStep, BeginRun, Admitted, FindScript, LoadPackage, StartRun, RecordRun, Becomes,
                db, history, runsVars, storeVars
  <2>2. SameFiles
    BY <2>1 DEF SameFiles, Installed
  <2> QED BY <1>1, <2>2, SameFilesKeeps
<1> QED BY <1>2, <1>3 DEF NextRuns

\* The invariant says of a file that is not to be excepted what is wanted.
LEMMA FilesInvMatches ==
  ASSUME StoreInv, FilesInv
  PROVE  FilesMatchRows
<1> SUFFICES ASSUME NEW s \in Scripts, Installed(s), FileOf[rows[s].name] \notin disturbed,
                    \A p \in Clients : FileOf[rows[s].name] \notin Unfinished(job[p])
             PROVE  Verified(rows[s])
  BY DEF FilesMatchRows
<1>1. FileOf[rows[s].name] \in Files
  BY ScriptStoreAssumption DEF ScriptStoreAssumption, StoreInv, Tables, Installed, Row
<1> QED BY <1>1 DEF FilesInv, LeftAlone, HoldsItsRow, On, Verified

LEMMA InitFiles ==
  ASSUME StoreInit
  PROVE  FilesInv
<1>1. \A p \in Clients : job[p] = Idle
  BY DEF StoreInit
<1>2. \A p \in Clients : Handles(job[p]) = {} /\ job[p].kind = "none" /\ job[p].stage = "idle"
  BY <1>1 DEF Handles, NewFile, OldFile, Idle
<1>3. \A s \in Scripts : ~Installed(s)
  BY DEF StoreInit, Installed
<1> QED
  BY <1>2, <1>3 DEF FilesInv, RemovalsInTurn, LeftAlone, OneHandler, OneRow, HoldsItsRow,
                    HandlersInOrder, On
\* The tables, the jobs and the run have their types, and an approval belongs to
\* an installed script, whatever is interrupted where (TypeOK).
THEOREM Typed == SpecRuns => []TypeOK
<1>1. IInv => TypeOK
  BY DEF IInv
<1> QED
  BY <1>1, InitIInv, NextKeeps, PTL DEF SpecRuns

\* Every run that starts has an approval of the package it has read, given since
\* the script was last updated or removed (run_installed_with_trigger_in_stack,
\* approve_script, update_script).
THEOREM OnlyApprovedStarts == SpecRuns => StartsOnlyWhatWasApproved
<1>1. IInv /\ [NextRuns]_runsVars =>
        [activation.stage = "approval" /\ activation'.stage = "started" =>
           activation.seen.content \in consent[activation.script]]_runsVars
  <2> SUFFICES ASSUME IInv, [NextRuns]_runsVars, activation.stage = "approval", activation'.stage = "started"
               PROVE  activation.seen.content \in consent[activation.script]
    OBVIOUS
  <2>1. StartRun
    <3>1. activation' # activation  OBVIOUS
    <3>2. RunStep  BY <3>1 DEF NextRuns, runsVars
    <3>3. ~Admitted /\ ~FindScript /\ ~LoadPackage
      BY DEF Admitted, FindScript, LoadPackage
    <3>4. Inactive.stage = "idle"
      BY DEF Inactive
    <3>5. \A s \in Scripts : ~BeginRun(s)
      BY <3>4 DEF BeginRun
    <3>6. ~RecordRun
      BY <3>4 DEF RecordRun, Becomes
    <3> QED BY <3>2, <3>3, <3>5, <3>6 DEF RunStep
  <2>2. activation.script \in Scripts /\ activation.seen.content \in Contents
    BY DEF IInv, TypeOK, RunTyped, HasRead, Inactive, Row
  <2>3. approvals[activation.script] = activation.seen.content
    BY <2>1 DEF StartRun, HasCurrentApproval
  <2> QED
    BY <2>2, <2>3, ScriptStoreAssumption DEF ScriptStoreAssumption, IInv, ConsentedOnly
<1> QED
  BY <1>1, InitIInv, NextKeeps, PTL DEF SpecRuns, StartsOnlyWhatWasApproved

\* The file of every installed script holds its package, whatever clients do with
\* other files at the same time, wherever they are refused or interrupted, and
\* whichever names denote one file: but while an install into it is under way, or
\* after one that broke off, was overtaken, met another operation on the file or
\* found it in use under another name, until the next that is left alone
\* (import_script, update_script, remove_script, ensure_package_file_available).
THEOREM FilesAreOfTheirRows == SpecRuns => []FilesMatchRows
<1>1. InitRuns => FilesInv
  BY InitFiles DEF InitRuns
<1>2. IInv /\ FilesInv => FilesMatchRows
  BY InvParts, FilesInvMatches
<1> QED
  BY <1>1, <1>2, InitIInv, NextKeeps, NextKeepsFiles, PTL DEF SpecRuns

-----------------------------------------------------------------------------
(* No change is forgotten by the service.  As long as nobody has told it, or *)
(* is about to, or lost what there was to tell, the pass under way knows     *)
(* what is installed, enabled and approved, and so do the triggers between   *)
(* passes.  The blacklist disables scripts without telling first: those are  *)
(* of packages whose triggers nobody has, because a pass waits for it.       *)

\* That a change was made has been told, was lost in a crash, or is yet to be
\* told by a client.
Told == requested \/ lost \/ \E p \in Clients : job[p].stage \in {"unlink", "request"}

\* One refresher at a time enforces, and what it got may only name what the
\* official list may name.
RefreshersInTurn ==
  /\ official \subseteq Withdrawn /\ entries \subseteq Withdrawn
  /\ refresh \in [Refreshers -> [stage : {"idle", "fetched", "enforcing", "request"},
                                 got : SUBSET Withdrawn, pending : SUBSET Scripts,
                                 critical : SUBSET Scripts]]
  /\ \A r \in Refreshers :
       /\ refresh[r].stage \in {"enforcing", "request"} <=> enforcer = r
       /\ refresh[r].pending # {} => enforcer = r

\* A pass goes over one row per script.
PassInOrder ==
  /\ todo \subseteq Scripts \X Contents /\ fresh \subseteq Scripts \X Contents
  /\ registered \subseteq Scripts \X Contents
  /\ \A l, m \in todo : l[1] = m[1] => l = m
  /\ service = "requirements" => fresh = {}
  /\ found # None => todo # {} /\ found \in Row
  /\ loaded => service = "registrations" /\ found # None

\* No script that waits to be disabled has an unrestricted trigger.
NothingPending(registrations) ==
  \A r \in Refreshers, g \in registrations : g[1] \in refresh[r].pending => g[2] \in Withdrawn

\* The triggers are what they ought to be, but for those of the scripts in todo.
AgreesBut(registrations, scripts) ==
  \A g \in Scripts \X Contents : g[1] \notin scripts /\ g[2] \notin Withdrawn => (g \in registrations <=> g \in Expected)

BeingDisabled == \E r \in Refreshers : refresh[r].stage = "request"

\* What is still to do is installed as it was listed, and is enabled unless it
\* is restricted or was disabled before it is looked at.
ToBeListed(l) ==
  LET s == l[1]
      looksAt == found # None /\ l = Listed
  IN  /\ Installed(s) /\ rows[s].content = l[2]
      /\ \A g \in fresh : g[1] # s
      /\ s \in Enabled \/ l[2] \in Withdrawn \/ (BeingDisabled /\ ~looksAt)
      /\ looksAt => /\ found.content = l[2]
                    /\ \A r \in Refreshers : s \in refresh[r].pending => l[2] \in Withdrawn

PassKnows ==
  service = "registrations" /\ ~Told =>
    /\ \A l \in todo : ToBeListed(l)
    /\ AgreesBut(fresh, {l[1] : l \in todo})
    /\ NothingPending(fresh)

ServiceKnows ==
  service = "running" /\ ~Told => AgreesBut(registered, {}) /\ NothingPending(registered)

Knows == RefreshersInTurn /\ PassInOrder /\ PassKnows /\ ServiceKnows

LEMMA WhatIsExpected ==
  ASSUME NEW g \in Scripts \X Contents
  PROVE  g \in Expected <=> /\ g[1] \in Enabled
                           /\ g[2] = rows[g[1]].content /\ approvals[g[1]] = g[2]
BY DEF Expected, HasCurrentApproval, Enabled

\* A client that changes what the service ought to listen to tells it, or is
\* about to, in the step that does it; and nothing that is told is taken back.
LEMMA ClientsTell ==
  ASSUME StoreInv, StoreNext
  PROVE  Told' \/ (~Told /\ UNCHANGED <<rows, approvals>>)
<1> SUFFICES ASSUME ~Told'
             PROVE  ~Told /\ UNCHANGED <<rows, approvals>>
  OBVIOUS
<1>1. ~requested' /\ ~lost' /\ \A p \in Clients : job'[p].stage \notin {"unlink", "request"}
  BY DEF Told
<1>2. ASSUME NEW p \in Clients, \A q \in Clients \ {p} : job'[q] = job[q],
             job[p].stage \notin {"unlink", "request"}, ~requested, ~lost
      PROVE  ~Told
  BY <1>1, <1>2 DEF Told
<1>3. requested \in BOOLEAN /\ lost \in BOOLEAN
  BY DEF StoreInv, OtherTypes
<1>4. ASSUME NEW p \in Clients, Begin(p)
      PROVE  ~Told /\ UNCHANGED <<rows, approvals>>
  <2>1. PICK j : Begins(p, j)
    BY <1>4, Zenon
    DEF Begin, BeginImport, BeginUpdate, BeginRemove, BeginApprove, BeginRevoke, BeginSwitch, BeginOnRow
  <2>2. job[p].stage = "idle"
    BY <2>1 DEF Begins, Idle
  <2>3. \A q \in Clients \ {p} : job'[q] = job[q]
    BY <2>1 DEF Begins
  <2> QED BY <1>1, <1>2, <2>1, <2>2, <2>3 DEF Begins, db
<1>5. ASSUME NEW p \in Clients, NEW place, Goes(p, place)
      PROVE  (\A q \in Clients \ {p} : job'[q] = job[q]) /\ place \notin {"unlink", "request"}
  <2>1. (\A q \in Clients \ {p} : job'[q] = job[q]) /\ job'[p].stage = place
    BY <1>5, StageAfter DEF StoreInv
  <2> QED BY <1>1, <2>1
<1>6. ASSUME NEW p \in Clients, Ends(p)
      PROVE  \A q \in Clients \ {p} : job'[q] = job[q]
  BY <1>6 DEF Ends
<1>7. ASSUME NEW p \in Clients, ClientStep(p)
      PROVE  ~Told /\ UNCHANGED <<rows, approvals>>
  <2>1. CASE CopyPackage(p) \/ RemovePrevious(p) \/ VerifyPackage(p)
    BY <1>1, <1>2, <1>5, <1>6, <2>1 DEF CopyPackage, RemovePrevious, VerifyPackage, db, history
  <2>2. CASE InsertRow(p) \/ WriteRow(p)
    BY <1>1, <1>2, <1>5, <1>6, <2>2 DEF InsertRow, WriteRow, db
  <2>3. ~CommitUpdate(p) /\ ~RequestReload(p)
    BY <1>1 DEF CommitUpdate, RequestReload
  <2>4. ~DeleteRow(p) /\ ~RemoveFile(p) /\ ~RevokeApproval(p)
    BY <1>5 DEF DeleteRow, RemoveFile, RevokeApproval
  <2>5. CASE RecordApproval(p) \/ SetEnabled(p)
    BY <1>1, <1>2, <1>5, <1>6, <2>5 DEF RecordApproval, SetEnabled, history
  <2> QED BY <1>7, <2>1, <2>2, <2>3, <2>4, <2>5 DEF ClientStep
<1>8. ASSUME NEW p \in Clients, Interrupted(p)
      PROVE  ~Told /\ UNCHANGED <<rows, approvals>>
  BY <1>1, <1>2, <1>6, <1>8 DEF Interrupted, db
<1> QED BY <1>4, <1>7, <1>8 DEF StoreNext

\* What happens elsewhere, or is told, changes nothing of what is known.
LEMMA OthersKeepKnowing ==
  ASSUME Knows, UNCHANGED <<serving, entries, enforcer, official, refresh>>,
         Told' \/ (~Told /\ UNCHANGED <<rows, approvals>>)
  PROVE  Knows'
<1> USE DEF Knows
<1>1. RefreshersInTurn'
  BY DEF RefreshersInTurn
<1>2. PassInOrder'
  BY DEF PassInOrder, serving, passing
<1>3. PassKnows' /\ ServiceKnows'
  <2>1. CASE Told'
    BY <2>1 DEF PassKnows, ServiceKnows
  <2>2. CASE ~Told /\ UNCHANGED <<rows, approvals>>
    <3>1. Expected' = Expected /\ Enabled' = Enabled
      BY <2>2 DEF Expected, Enabled, Installed, HasCurrentApproval
    <3> QED
      BY <2>2, <3>1
      DEF PassKnows, ServiceKnows, ToBeListed, AgreesBut, NothingPending, BeingDisabled, Listed, Installed,
          serving, passing
  <2> QED BY <2>1, <2>2
<1> QED BY <1>1, <1>2, <1>3

\* The steps of the service.  A pass over requirements need know nothing yet,
\* nor need a service that is down.
LEMMA RequirementsKeepKnowing ==
  ASSUME StoreInv, Knows, Lists("requirements"),
         UNCHANGED <<registered, entries, enforcer, official, refresh>>
  PROVE  Knows'
<1>1. RefreshersInTurn'
  BY DEF Knows, RefreshersInTurn
<1>2. todo' \subseteq Scripts \X Contents /\ \A l, m \in todo' : l[1] = m[1] => l = m
  BY DEF Lists, StoreInv, Tables, Row, Enabled, Installed
<1>3. PassInOrder'
  BY <1>2 DEF Knows, PassInOrder, Lists
<1>4. PassKnows' /\ ServiceKnows'
  BY DEF PassKnows, ServiceKnows, Lists
<1> QED BY <1>1, <1>3, <1>4 DEF Knows

LEMMA DownKeepsKnowing ==
  ASSUME Knows, Fails \/ StopService, UNCHANGED <<entries, enforcer, official, refresh>>
  PROVE  Knows'
<1>1. RefreshersInTurn'
  BY DEF Knows, RefreshersInTurn
<1>2. PassInOrder'
  BY DEF Knows, PassInOrder, Fails, StopService, passing
<1>3. PassKnows' /\ ServiceKnows'
  BY DEF PassKnows, ServiceKnows, Fails, StopService
<1> QED BY <1>1, <1>2, <1>3 DEF Knows

\* The second pass starts with what is enabled.
LEMMA ListingKeepsKnowing ==
  ASSUME StoreInv, Knows, ListRegistrations, UNCHANGED <<entries, enforcer, official, refresh>>
  PROVE  Knows'
<1>1. RefreshersInTurn'
  BY DEF Knows, RefreshersInTurn
<1>2. UNCHANGED <<rows, approvals, registered>> /\ Lists("registrations")
  BY DEF ListRegistrations, db
<1>3. \A l : l \in todo' <=> \E s \in Scripts : s \in Enabled /\ l = <<s, rows[s].content>>
  BY <1>2 DEF Lists, Enabled
<1>4. todo' \subseteq Scripts \X Contents /\ \A l, m \in todo' : l[1] = m[1] => l = m
  BY <1>3 DEF StoreInv, Tables, Row, Enabled, Installed
<1>5. PassInOrder'
  BY <1>2, <1>4 DEF Knows, PassInOrder, Lists
<1>6. \A l \in todo' : ToBeListed(l)'
  BY <1>2, <1>3 DEF ToBeListed, Lists, Enabled, Installed
<1>7. AgreesBut(fresh, {l[1] : l \in todo})'
  <2> SUFFICES ASSUME NEW g \in Scripts \X Contents, g \in Expected'
               PROVE  g[1] \in {l[1] : l \in todo'}
    BY <1>2 DEF AgreesBut, Lists
  <2>1. g[1] \in Enabled
    BY <1>2 DEF Expected, Enabled, Installed
  <2>2. <<g[1], rows[g[1]].content>> \in todo'
    BY <1>3, <2>1
  <2> QED BY <2>2
<1>8. NothingPending(fresh)'
  BY <1>2 DEF NothingPending, Lists
<1> QED BY <1>1, <1>2, <1>5, <1>6, <1>7, <1>8 DEF Knows, PassKnows, ServiceKnows, Lists

\* One script after the other is looked at: what the pass has found of it is
\* what is installed.
LEMMA LookingKeepsKnowing ==
  ASSUME StoreInv, Knows, service = "registrations",
         UNCHANGED <<storeVars, service, todo, fresh, registered, entries, enforcer, official, refresh>>,
         \/ found' = found /\ loaded' \in {loaded, found # None}
         \/ /\ found = None /\ loaded' = loaded /\ todo # {} /\ enforcer = None
            /\ Installed(Current) /\ found' = rows[Current]
  PROVE  Knows'
<1>1. RefreshersInTurn'
  BY DEF Knows, RefreshersInTurn
<1>2. UNCHANGED <<rows, approvals, Told, Listed, Expected, Enabled>>
  BY DEF storeVars, db, history, Told, Listed, Expected, Enabled, Installed, HasCurrentApproval
<1>3. todo # {} => Listed \in todo
  BY DEF Listed
<1>4. PassInOrder'
  BY <1>3 DEF Knows, PassInOrder, Current, Installed, StoreInv, Tables
<1>5. ASSUME ~Told, NEW l \in todo PROVE ToBeListed(l)'
  <2>1. ToBeListed(l)
    BY <1>5 DEF Knows, PassKnows
  <2>2. CASE found' = found
    BY <1>2, <2>1, <2>2 DEF ToBeListed, Installed, BeingDisabled
  <2>3. CASE /\ found = None /\ enforcer = None /\ found' = rows[Current]
    <3>1. ~BeingDisabled /\ \A r \in Refreshers : refresh[r].pending = {}
      BY <2>3, BlacklistAssumption DEF Knows, RefreshersInTurn, BeingDisabled
    <3> QED BY <1>2, <2>1, <2>3, <3>1 DEF ToBeListed, Installed, BeingDisabled, Current
  <2> QED BY <2>2, <2>3
<1>6. PassKnows' /\ ServiceKnows'
  BY <1>2, <1>5 DEF Knows, PassKnows, ServiceKnows, AgreesBut, NothingPending
<1> QED BY <1>1, <1>4, <1>6 DEF Knows

\* Through with a script, the pass has its trigger if there ought to be one.
LEMMA PassingKeepsKnowing ==
  ASSUME StoreInv, Knows, SkipRestricted \/ (CheckApproval /\ service = "registrations"),
         UNCHANGED <<entries, enforcer, official, refresh>>
  PROVE  Knows'
<1> DEFINE s == Listed[1]
<1>1. RefreshersInTurn'
  BY DEF Knows, RefreshersInTurn
<1>2. /\ UNCHANGED <<rows, approvals, service, registered, Told, Expected, Enabled>>
      /\ service = "registrations" /\ Passes /\ todo # {}
  BY DEF SkipRestricted, CheckApproval, Knows, PassInOrder,
         storeVars, db, history, Told, Expected, Enabled, Installed, HasCurrentApproval
<1>3. Listed \in todo /\ s \in Scripts /\ Listed[2] \in Contents
  BY <1>2 DEF Listed, Knows, PassInOrder
<1>4. \A l \in todo' : l \in todo /\ l[1] # s
  BY <1>2, <1>3 DEF Passes, Knows, PassInOrder
<1>5. fresh \subseteq fresh' /\ \A g \in fresh' \ fresh : g = <<s, found.content>> /\ CheckApproval
  BY DEF SkipRestricted, CheckApproval, Current
<1>6. CheckApproval => found \in Row /\ found # None
  BY DEF CheckApproval, Knows, PassInOrder
<1>7. PassInOrder'
  BY <1>2, <1>3, <1>4, <1>5, <1>6 DEF Knows, PassInOrder, Passes, Row
<1>8. ASSUME ~Told
      PROVE  /\ \A l \in todo' : ToBeListed(l)'
             /\ AgreesBut(fresh, {l[1] : l \in todo})'
             /\ NothingPending(fresh)'
  <2>1. /\ \A l \in todo : ToBeListed(l)
        /\ AgreesBut(fresh, {l[1] : l \in todo}) /\ NothingPending(fresh)
    BY <1>2, <1>8 DEF Knows, PassKnows
  <2>2. \A l \in todo' : ToBeListed(l)'
    BY <1>2, <1>4, <1>5, <2>1 DEF ToBeListed, Passes, Installed, BeingDisabled
  <2>3. ASSUME NEW g \in Scripts \X Contents, g[1] \notin {l[1] : l \in todo'}, g[2] \notin Withdrawn
        PROVE  g \in fresh' <=> g \in Expected
    <3>1. CASE g[1] # s
      <4>1. \A l \in todo : l \in todo' \/ l[1] = s
        BY <1>2 DEF Passes
      <4> QED BY <1>5, <2>1, <2>3, <3>1, <4>1 DEF AgreesBut
    <3>2. CASE g[1] = s
      <4>1. g \in Expected <=> s \in Enabled /\ g[2] = Listed[2] /\ approvals[s] = Listed[2]
        BY <1>3, <2>1, <3>2, WhatIsExpected DEF ToBeListed
      <4>2. g \notin fresh
        BY <1>3, <2>1, <3>2 DEF ToBeListed
      <4>3. CASE SkipRestricted
        BY <1>5, <2>3, <4>1, <4>2, <4>3 DEF SkipRestricted, Restricts, Knows, RefreshersInTurn, CheckApproval
      <4>4. CASE CheckApproval
        <5>1. found.content = Listed[2] /\ (s \in Enabled \/ Listed[2] \in Withdrawn)
          BY <1>3, <1>6, <2>1, <4>4 DEF ToBeListed
        <5>2. g \in fresh' <=> approvals[s] = Listed[2] /\ g[2] = Listed[2]
          BY <3>2, <4>2, <4>4, <5>1 DEF CheckApproval, HasCurrentApproval, Current
        <5> QED BY <2>3, <4>1, <5>1, <5>2
      <4> QED BY <4>3, <4>4
    <3> QED BY <3>1, <3>2
  <2>4. ASSUME NEW r \in Refreshers, NEW g \in fresh', g[1] \in refresh[r].pending
        PROVE  g[2] \in Withdrawn
    <3>1. CASE g \in fresh
      BY <2>1, <2>4, <3>1 DEF NothingPending
    <3>2. CASE g \notin fresh
      BY <1>3, <1>5, <1>6, <2>1, <2>4, <3>2 DEF ToBeListed
    <3> QED BY <3>1, <3>2
  <2> QED BY <1>2, <2>2, <2>3, <2>4 DEF AgreesBut, NothingPending
<1> QED BY <1>1, <1>2, <1>7, <1>8 DEF Knows, PassKnows, ServiceKnows

\* Within the first pass only the order matters.
LEMMA CheckingKeepsKnowing ==
  ASSUME StoreInv, Knows, service = "requirements", FindRow \/ ReadPackage,
         UNCHANGED <<entries, enforcer, official, refresh>>
  PROVE  Knows'
<1>1. CASE Fails
  BY <1>1, DownKeepsKnowing
<1>2. CASE ~Fails
  <2>1. RefreshersInTurn'
    BY DEF Knows, RefreshersInTurn
  <2>2. todo # {} => Listed \in todo
    BY DEF Listed
  <2>3. PassInOrder'
    BY <1>2, <2>2
    DEF Knows, PassInOrder, FindRow, ReadPackage, Passes, Current, Installed, StoreInv, Tables
  <2>4. service' = "requirements"
    BY <1>2 DEF FindRow, ReadPackage
  <2> QED BY <2>1, <2>3, <2>4 DEF Knows, PassKnows, ServiceKnows
<1> QED BY <1>1, <1>2

\* At its end the triggers are what the second pass has found.
LEMMA RegisteringKeepsKnowing ==
  ASSUME Knows, RegisterTriggers, UNCHANGED <<entries, enforcer, official, refresh>>
  PROVE  Knows'
<1>1. RefreshersInTurn'
  BY DEF Knows, RefreshersInTurn
<1>2. UNCHANGED <<rows, approvals, Told, Expected>>
  BY DEF RegisterTriggers, KeepsRequests, history, Told, Expected, Enabled, Installed, HasCurrentApproval
<1>3. PassInOrder'
  BY DEF Knows, PassInOrder, RegisterTriggers
<1>4. ASSUME ~Told
      PROVE  AgreesBut(registered, {})' /\ NothingPending(registered)'
  <2>1. AgreesBut(fresh, {}) /\ NothingPending(fresh)
    BY <1>4 DEF Knows, PassKnows, RegisterTriggers, AgreesBut
  <2>2. registered' = fresh
    BY DEF RegisterTriggers
  <2> QED BY <1>2, <2>1, <2>2 DEF AgreesBut, NothingPending
<1> QED BY <1>1, <1>2, <1>3, <1>4 DEF Knows, PassKnows, ServiceKnows, RegisterTriggers

LEMMA ServiceKeepsKnowing ==
  ASSUME StoreInv, Knows, StartService \/ Loop \/ BuildFails \/ StopService,
         UNCHANGED <<entries, enforcer, official, refresh>>
  PROVE  Knows'
<1>1. CASE StartService \/ Reload \/ ReloadDue
  BY <1>1, RequirementsKeepKnowing DEF StartService, Reload, ReloadDue
<1>2. CASE ListRegistrations
  BY <1>2, ListingKeepsKnowing
<1>3. CASE RegisterTriggers
  BY <1>3, RegisteringKeepsKnowing
<1>4. CASE BuildFails \/ StopService
  BY <1>4, DownKeepsKnowing DEF BuildFails
<1>5. CASE SkipRestricted
  BY <1>5, PassingKeepsKnowing
<1>6. CASE CheckApproval
  BY <1>6, PassingKeepsKnowing DEF CheckApproval, Knows, PassInOrder
<1>7. CASE FindRow \/ ReadPackage
  <2>1. CASE Fails
    BY <2>1, DownKeepsKnowing
  <2>2. CASE service = "requirements"
    BY <1>7, <2>2, CheckingKeepsKnowing
  <2>3. CASE service = "registrations" /\ ~Fails
    <3>1. UNCHANGED <<storeVars, service, todo, fresh, registered>>
      BY <1>7, <2>3 DEF FindRow, ReadPackage
    <3>2. CASE FindRow
      BY <2>3, <3>1, <3>2, LookingKeepsKnowing DEF FindRow, Readable
    <3>3. CASE ReadPackage
      BY <2>3, <3>1, <3>3, LookingKeepsKnowing DEF ReadPackage
    <3> QED BY <1>7, <3>2, <3>3
  <2> QED BY <1>7, <2>1, <2>2, <2>3 DEF FindRow, ReadPackage, Loading
<1> QED BY <1>1, <1>2, <1>3, <1>4, <1>5, <1>6, <1>7 DEF Loop

\* The steps of the refreshers, which read and disable under a lock that passes
\* over registrations wait for.
LEMMA EnforcingKeepsKnowing ==
  ASSUME StoreInv, Knows, NEW r \in Refreshers, Enforce(r)
  PROVE  Knows'
<1>1. /\ refresh' = [refresh EXCEPT ![r] = [stage |-> "enforcing", got |-> {},
                                            pending |-> EnabledAmong(refresh[r].got),
                                            critical |-> CriticalScripts(refresh[r].got)]]
      /\ enforcer = None /\ enforcer' = r /\ entries' = refresh[r].got /\ official' = official
      /\ UNCHANGED <<storeVars, serving, Told, Listed, Expected, Enabled>>
  BY DEF Enforce, Turns, storeVars, serving, passing, db, history, Told, Listed, Expected, Enabled, Installed,
         HasCurrentApproval
<1>2. RefreshersInTurn
  BY DEF Knows
<1>3. /\ refresh[r].got \in SUBSET Withdrawn
      /\ \A s \in EnabledAmong(refresh[r].got) : s \in Scripts /\ rows[s].content \in Withdrawn
      /\ CriticalScripts(refresh[r].got) \in SUBSET Scripts
  BY <1>2 DEF RefreshersInTurn, EnabledAmong, CriticalScripts, RestrictedScripts
<1>4. \A q \in Refreshers : refresh[q].stage \notin {"enforcing", "request"} /\ refresh[q].pending = {}
  BY <1>1, <1>2, BlacklistAssumption DEF RefreshersInTurn
<1>5. /\ refresh'[r].stage = "enforcing" /\ refresh'[r].pending = EnabledAmong(refresh[r].got)
      /\ \A q \in Refreshers \ {r} : refresh'[q] = refresh[q]
  BY <1>1, <1>2 DEF RefreshersInTurn
<1>6. RefreshersInTurn'
  <2>1. refresh' \in [Refreshers -> [stage : {"idle", "fetched", "enforcing", "request"},
                                     got : SUBSET Withdrawn, pending : SUBSET Scripts,
                                     critical : SUBSET Scripts]]
    BY <1>1, <1>2, <1>3 DEF RefreshersInTurn
  <2> QED BY <1>1, <1>2, <1>3, <1>4, <1>5, <2>1 DEF RefreshersInTurn
<1>7. PassInOrder'
  BY <1>1 DEF Knows, PassInOrder, serving, passing
<1>8. \A q \in Refreshers : \A s \in refresh'[q].pending : s \in Scripts /\ rows[s].content \in Withdrawn
  BY <1>3, <1>4, <1>5
<1>9. ASSUME NEW registrations \in SUBSET (Scripts \X Contents), NEW scripts,
             AgreesBut(registrations, scripts), \A g \in registrations : g[1] \notin scripts
      PROVE  \A q \in Refreshers, g \in registrations : g[1] \in refresh'[q].pending => g[2] \in Withdrawn
  BY <1>8, <1>9, WhatIsExpected DEF AgreesBut
<1>10. ASSUME ~Told, service = "running"
       PROVE  AgreesBut(registered, {})' /\ NothingPending(registered)'
  <2>1. AgreesBut(registered, {}) /\ registered \in SUBSET (Scripts \X Contents)
    BY <1>10 DEF Knows, ServiceKnows, PassInOrder
  <2>2. \A q \in Refreshers, g \in registered : g[1] \in refresh'[q].pending => g[2] \in Withdrawn
    <3>1. \A g \in registered : g[1] \notin {}
      OBVIOUS
    <3> QED BY <1>9, <2>1, <3>1
  <2> QED BY <1>1, <2>1, <2>2 DEF AgreesBut, NothingPending, serving
<1>11. ASSUME ~Told, service = "registrations"
       PROVE  /\ \A l \in todo : ToBeListed(l)'
              /\ AgreesBut(fresh, {l[1] : l \in todo})' /\ NothingPending(fresh)'
  <2>1. /\ AgreesBut(fresh, {l[1] : l \in todo}) /\ fresh \in SUBSET (Scripts \X Contents)
        /\ \A l \in todo : ToBeListed(l)
    BY <1>11 DEF Knows, PassKnows, PassInOrder
  <2>2. \A g \in fresh : g[1] \notin {l[1] : l \in todo}
    BY <2>1 DEF ToBeListed
  <2>3. ASSUME NEW l \in todo PROVE ToBeListed(l)'
    BY <1>1, <1>4, <1>8, <2>1 DEF ToBeListed, BeingDisabled, Installed, storeVars, db, serving, passing
  <2> QED BY <1>1, <1>9, <2>1, <2>2, <2>3 DEF AgreesBut, NothingPending, serving, passing
<1> QED BY <1>1, <1>6, <1>7, <1>10, <1>11 DEF Knows, PassKnows, ServiceKnows, serving, passing

\* Turns that change no row.
LEMMA TurnsKeepKnowing ==
  ASSUME Knows, RefreshersInTurn', UNCHANGED <<rows, approvals, serving>>,
         \A q \in Refreshers : refresh'[q].pending \subseteq refresh[q].pending,
         Told' \/ (~Told /\ (BeingDisabled => BeingDisabled'))
  PROVE  Knows'
<1>1. UNCHANGED <<Listed, Expected, Enabled>>
  BY DEF serving, passing, Listed, Expected, Enabled, Installed, HasCurrentApproval
<1>2. PassInOrder'
  BY DEF Knows, PassInOrder, serving, passing
<1>3. CASE Told'
  BY <1>2, <1>3 DEF Knows, PassKnows, ServiceKnows
<1>4. CASE ~Told /\ (BeingDisabled => BeingDisabled')
  <2>1. ASSUME NEW registrations, NothingPending(registrations)
        PROVE  \A q \in Refreshers, g \in registrations : g[1] \in refresh'[q].pending => g[2] \in Withdrawn
    BY <2>1 DEF NothingPending
  <2>2. ASSUME NEW l \in todo, ToBeListed(l) PROVE ToBeListed(l)'
    BY <1>1, <1>4, <2>2 DEF ToBeListed, Installed, serving, passing
  <2>3. PassKnows'
    BY <1>1, <1>4, <2>1, <2>2 DEF Knows, PassKnows, AgreesBut, NothingPending, serving, passing
  <2>4. ServiceKnows'
    BY <1>1, <1>4, <2>1 DEF Knows, ServiceKnows, AgreesBut, NothingPending, serving
  <2> QED BY <1>2, <2>3, <2>4 DEF Knows
<1> QED BY <1>3, <1>4

LEMMA TurnIs ==
  ASSUME RefreshersInTurn, NEW r \in Refreshers, NEW state, Turns(r, state),
         state \in [stage : {"idle", "fetched", "enforcing", "request"}, got : SUBSET Withdrawn,
                    pending : SUBSET Scripts, critical : SUBSET Scripts],
         official' \subseteq Withdrawn, entries' = entries,
         IF state.stage \in {"enforcing", "request"}
         THEN enforcer = r /\ enforcer' = r
         ELSE state.pending = {} /\ enforcer' = IF enforcer = r THEN None ELSE enforcer
  PROVE  /\ RefreshersInTurn'
         /\ refresh'[r] = state /\ \A q \in Refreshers \ {r} : refresh'[q] = refresh[q]
<1>1. refresh' = [refresh EXCEPT ![r] = state]
  BY DEF Turns
<1>2. refresh'[r] = state /\ \A q \in Refreshers \ {r} : refresh'[q] = refresh[q]
  BY <1>1 DEF RefreshersInTurn
<1>3. refresh' \in [Refreshers -> [stage : {"idle", "fetched", "enforcing", "request"},
                                   got : SUBSET Withdrawn, pending : SUBSET Scripts,
                                   critical : SUBSET Scripts]]
  BY <1>1 DEF RefreshersInTurn
<1> QED BY <1>2, <1>3, BlacklistAssumption DEF RefreshersInTurn

LEMMA DisabledRow ==
  ASSUME NEW row \in Row
  PROVE  LET disabled == [row EXCEPT !.enabled = FALSE]
         IN  disabled \in Row /\ disabled.enabled = FALSE /\ disabled.content = row.content
BY DEF Row

\* A script is disabled whose trigger the service has not, and of which a pass
\* has found nothing it would list.
LEMMA DisablingKeepsKnowing ==
  ASSUME StoreInv, Knows, NEW r \in Refreshers, NEW s \in refresh[r].pending, Installed(s),
         refresh[r].stage = "enforcing",
         rows' = [rows EXCEPT ![s].enabled = FALSE],
         Turns(r, [refresh[r] EXCEPT !.stage = "request", !.pending = @ \ {s}]),
         UNCHANGED <<approvals, requested, lost, job, serving, entries, enforcer, official>>
  PROVE  Knows'
<1>1. RefreshersInTurn
  BY DEF Knows
<1>2. /\ refresh'[r].stage = "request" /\ refresh'[r].pending = refresh[r].pending \ {s}
      /\ \A q \in Refreshers \ {r} : refresh'[q] = refresh[q]
      /\ RefreshersInTurn'
  <2> DEFINE state == [refresh[r] EXCEPT !.stage = "request", !.pending = @ \ {s}]
  <2>1. /\ state.stage = "request" /\ state.pending = refresh[r].pending \ {s}
        /\ state \in [stage : {"idle", "fetched", "enforcing", "request"}, got : SUBSET Withdrawn,
                      pending : SUBSET Scripts, critical : SUBSET Scripts]
    BY <1>1 DEF RefreshersInTurn
  <2>2. enforcer = r /\ enforcer' = r /\ entries' = entries /\ official' \subseteq Withdrawn
    BY <1>1 DEF RefreshersInTurn
  <2>3. Turns(r, state) /\ state.stage \in {"enforcing", "request"}
    BY <2>1 DEF state
  <2> HIDE DEF state
  <2>4. /\ RefreshersInTurn'
        /\ refresh'[r] = state /\ \A q \in Refreshers \ {r} : refresh'[q] = refresh[q]
    BY <1>1, <2>1, <2>2, <2>3, TurnIs
  <2> QED BY <2>1, <2>4
<1>4. s \in Scripts /\ UNCHANGED <<Told, Listed>>
  BY <1>1 DEF RefreshersInTurn, Told, Listed, serving, passing
<1>5. \A t \in Scripts : /\ Installed(t)' <=> Installed(t)
                         /\ Installed(t) => rows'[t].content = rows[t].content
                         /\ t \in Enabled' <=> t \in Enabled /\ t # s
  <2>1. rows[s] \in Row
    BY <1>4 DEF StoreInv, Tables, Installed
  <2>2. rows'[s] = [rows[s] EXCEPT !.enabled = FALSE] /\ \A t \in Scripts \ {s} : rows'[t] = rows[t]
    BY <1>4 DEF StoreInv, Tables
  <2>3. rows'[s] \in Row /\ rows'[s].enabled = FALSE /\ rows'[s].content = rows[s].content
    BY <2>1, <2>2, DisabledRow
  <2>4. rows'[s] # None
    BY <2>3, ScriptStoreAssumption
  <2> QED BY <1>4, <2>2, <2>3, <2>4 DEF Installed, Enabled
<1>6. \A g \in Scripts \X Contents : g \in Expected' <=> g \in Expected /\ g[1] # s
  <2> TAKE g \in Scripts \X Contents
  <2>1. g \in Expected' <=> /\ g[1] \in Enabled'
                            /\ g[2] = rows'[g[1]].content /\ approvals'[g[1]] = g[2]
    BY DEF Expected, HasCurrentApproval, Enabled
  <2>2. g[1] \in Enabled => Installed(g[1])
    BY DEF Enabled
  <2> QED BY <1>5, <2>1, <2>2, WhatIsExpected
<1>7. PassInOrder'
  BY DEF Knows, PassInOrder, serving, passing
<1>8. ASSUME NEW registrations, NEW scripts, AgreesBut(registrations, scripts), NothingPending(registrations),
             \A g \in registrations : g[1] \notin scripts
      PROVE  /\ \A g \in Scripts \X Contents :
                  g[1] \notin scripts /\ g[2] \notin Withdrawn => (g \in registrations <=> g \in Expected')
             /\ \A q \in Refreshers, g \in registrations : g[1] \in refresh'[q].pending => g[2] \in Withdrawn
  <2>1. \A g \in registrations : g[1] = s => g[2] \in Withdrawn
    BY <1>8 DEF NothingPending
  <2> QED BY <1>2, <1>6, <1>8, <2>1 DEF AgreesBut, NothingPending
<1>9. ASSUME ~Told, service = "running"
      PROVE  AgreesBut(registered, {})' /\ NothingPending(registered)'
  <2>1. AgreesBut(registered, {}) /\ NothingPending(registered) /\ registered' = registered
    BY <1>9 DEF Knows, ServiceKnows, serving
  <2>2. /\ \A g \in Scripts \X Contents :
             g[1] \notin {} /\ g[2] \notin Withdrawn => (g \in registered <=> g \in Expected')
        /\ \A q \in Refreshers, g \in registered : g[1] \in refresh'[q].pending => g[2] \in Withdrawn
    <3>1. \A g \in registered : g[1] \notin {}
      OBVIOUS
    <3> QED BY <1>8, <2>1, <3>1
  <2> QED BY <2>1, <2>2 DEF AgreesBut, NothingPending
<1>10. ASSUME ~Told, service = "registrations"
       PROVE  /\ \A l \in todo : ToBeListed(l)'
              /\ AgreesBut(fresh, {l[1] : l \in todo})' /\ NothingPending(fresh)'
  <2>1. /\ AgreesBut(fresh, {l[1] : l \in todo}) /\ NothingPending(fresh)
        /\ \A l \in todo : ToBeListed(l) /\ l[1] \in Scripts
        /\ UNCHANGED <<todo, found, fresh>>
    BY <1>10 DEF Knows, PassKnows, PassInOrder, serving, passing
  <2>2. ASSUME NEW l \in todo PROVE ToBeListed(l)'
    <3>1. BeingDisabled'
      BY <1>2 DEF BeingDisabled
    <3>2. \A q \in Refreshers : refresh'[q].pending \subseteq refresh[q].pending
      BY <1>2
    <3>3. l[1] \in Enabled' \/ l[2] \in Withdrawn \/ ~(found # None /\ l = Listed)
      BY <1>5, <2>1 DEF ToBeListed
    <3> QED BY <1>4, <1>5, <2>1, <3>1, <3>2, <3>3 DEF ToBeListed
  <2>3. /\ \A g \in Scripts \X Contents :
             g[1] \notin {l[1] : l \in todo} /\ g[2] \notin Withdrawn => (g \in fresh <=> g \in Expected')
        /\ \A q \in Refreshers, g \in fresh : g[1] \in refresh'[q].pending => g[2] \in Withdrawn
    <3>1. \A g \in fresh : g[1] \notin {l[1] : l \in todo}
      BY <2>1 DEF ToBeListed
    <3> QED BY <1>8, <2>1, <3>1
  <2> QED BY <2>1, <2>2, <2>3 DEF AgreesBut, NothingPending
<1> QED BY <1>2, <1>4, <1>7, <1>9, <1>10 DEF Knows, PassKnows, ServiceKnows, serving, passing

LEMMA RefreshersKeepKnowing ==
  ASSUME StoreInv, Knows, Publish \/ \E r \in Refreshers : RefreshStep(r) \/ EnforcementFails(r)
  PROVE  Knows'
<1>1. RefreshersInTurn
  BY DEF Knows
<1>2. requested \in BOOLEAN /\ lost \in BOOLEAN
  BY DEF StoreInv, OtherTypes
<1>3. ASSUME UNCHANGED <<requested, lost, job>> PROVE Told' = Told
  BY <1>3 DEF Told
<1>4. CASE Publish
  <2>1. RefreshersInTurn'
    BY <1>1, <1>4 DEF Publish, RefreshersInTurn
  <2>2. UNCHANGED <<requested, lost, job, rows, approvals, refresh, serving, BeingDisabled>>
    BY <1>4 DEF Publish, storeVars, db, history, BeingDisabled
  <2> QED BY <1>3, <2>1, <2>2, TurnsKeepKnowing
<1>5. ASSUME NEW r \in Refreshers, Fetch(r) PROVE Knows'
  <2>1. /\ RefreshersInTurn'
        /\ refresh'[r].pending = {} /\ \A q \in Refreshers \ {r} : refresh'[q] = refresh[q]
    <3> DEFINE state == [Resting EXCEPT !.stage = "fetched", !.got = official]
    <3>1. /\ state.stage = "fetched" /\ state.pending = {}
          /\ state \in [stage : {"idle", "fetched", "enforcing", "request"}, got : SUBSET Withdrawn,
                        pending : SUBSET Scripts, critical : SUBSET Scripts]
      BY <1>1 DEF RefreshersInTurn, Resting
    <3>2. enforcer # r
      BY <1>1, <1>5 DEF Fetch, RefreshersInTurn, Resting
    <3> HIDE DEF state
    <3>3. Turns(r, state) /\ UNCHANGED <<official, entries, enforcer>>
      BY <1>5 DEF Fetch, state
    <3> QED BY <1>1, <3>1, <3>2, <3>3, TurnIs DEF RefreshersInTurn
  <2>2. UNCHANGED <<requested, lost, job, rows, approvals, serving>>
    BY <1>5 DEF Fetch, storeVars, db, history
  <2>3. BeingDisabled => BeingDisabled'
    BY <1>5, <2>1 DEF Fetch, Resting, BeingDisabled
  <2> QED BY <1>3, <2>1, <2>2, <2>3, TurnsKeepKnowing
<1>6. ASSUME NEW r \in Refreshers, Enforce(r) PROVE Knows'
  BY <1>6, EnforcingKeepsKnowing
<1>7. ASSUME NEW r \in Refreshers, refresh[r].stage \in {"enforcing", "request"}, Abandons(r),
             UNCHANGED <<rows, approvals, requested, job, serving, entries, official>>,
             lost' = (lost \/ refresh[r].stage = "request")
      PROVE  Knows'
  <2>1. /\ RefreshersInTurn'
        /\ refresh'[r].pending = {} /\ \A q \in Refreshers \ {r} : refresh'[q] = refresh[q]
    BY <1>1, <1>7, TurnIs DEF Abandons, RefreshersInTurn, Resting
  <2>2. CASE refresh[r].stage = "request"
    BY <1>7, <2>1, <2>2, TurnsKeepKnowing DEF Told
  <2>3. CASE refresh[r].stage = "enforcing"
    <3>1. BeingDisabled => BeingDisabled'
      BY <2>1, <2>3 DEF BeingDisabled
    <3>2. lost' = lost
      BY <1>2, <1>7, <2>3
    <3> QED BY <1>3, <1>7, <2>1, <3>1, <3>2, TurnsKeepKnowing
  <2> QED BY <1>7, <2>2, <2>3
<1>8. ASSUME NEW r \in Refreshers, DisableScript(r) PROVE Knows'
  <2> DEFINE s == CHOOSE t \in refresh[r].pending : TRUE
  <2>1. s \in refresh[r].pending
    BY <1>8 DEF DisableScript
  <2>2. CASE Installed(s)
    BY <1>8, <2>1, <2>2, DisablingKeepsKnowing DEF DisableScript, Turns, history
  <2>3. CASE ~Installed(s)
    BY <1>2, <1>7, <1>8, <2>3 DEF DisableScript, history
  <2> QED BY <2>2, <2>3
<1>9. ASSUME NEW r \in Refreshers, RequestAfterDisabling(r) PROVE Knows'
  <2>1. [refresh[r] EXCEPT !.stage = "enforcing"] \in
          [stage : {"idle", "fetched", "enforcing", "request"}, got : SUBSET Withdrawn,
           pending : SUBSET Scripts, critical : SUBSET Scripts]
    BY <1>1 DEF RefreshersInTurn
  <2>2. /\ RefreshersInTurn'
        /\ refresh'[r].pending = refresh[r].pending /\ \A q \in Refreshers \ {r} : refresh'[q] = refresh[q]
    BY <1>1, <1>9, <2>1, TurnIs DEF RequestAfterDisabling, RefreshersInTurn
  <2>3. Told' /\ UNCHANGED <<rows, approvals, serving>>
    BY <1>9 DEF RequestAfterDisabling, Told
  <2> QED BY <2>2, <2>3, TurnsKeepKnowing
<1>10. ASSUME NEW r \in Refreshers, CancelCriticalRuns(r) PROVE Knows'
  BY <1>2, <1>7, <1>10 DEF CancelCriticalRuns, storeVars, db, history
<1>11. ASSUME NEW r \in Refreshers, EnforcementFails(r) PROVE Knows'
  BY <1>7, <1>11 DEF EnforcementFails, db
<1> QED BY <1>4, <1>5, <1>6, <1>8, <1>9, <1>10, <1>11 DEF RefreshStep

\* The service and the refreshers leave the store in order.
LEMMA ServiceKeepsStore ==
  ASSUME StoreInv, Next, ~StoreNext
  PROVE  StoreInv'
<1>1. UNCHANGED <<approvals, files, writer, job, consent, disturbed, ops>>
  BY DEF Next, ServiceNext, StartService, Loop, BuildFails, StopService, Reload, ReloadDue, SkipRestricted,
         FindRow, ReadPackage, CheckApproval, ListRegistrations, RegisterTriggers, Publish, RefreshStep,
         Fetch, Enforce, DisableScript, RequestAfterDisabling, CancelCriticalRuns, EnforcementFails,
         LastLook, Register, EndRun, storeVars, db, history, bounds
<1>2. /\ requested' \in {requested, TRUE, FALSE}
      /\ outdated' = outdated \/ Outdates({})
      /\ lost' \in BOOLEAN
      /\ interruptions' = interruptions \/ (interruptions < MaxInterruptions /\ interruptions' = interruptions + 1)
  BY DEF Next, ServiceNext, StartService, Loop, BuildFails, StopService, Reload, ReloadDue, SkipRestricted,
         FindRow, ReadPackage, CheckApproval, ListRegistrations, RegisterTriggers, KeepsRequests, Publish,
         RefreshStep, Fetch, Enforce, DisableScript, RequestAfterDisabling, CancelCriticalRuns,
         EnforcementFails, LastLook, Register, EndRun, storeVars, db, history, bounds, StoreInv, OtherTypes
<1>3. rows' = rows \/ \E s : Installed(s) /\ rows' = [rows EXCEPT ![s].enabled = FALSE]
  BY DEF Next, ServiceNext, StartService, Loop, BuildFails, StopService, Reload, ReloadDue, SkipRestricted,
         FindRow, ReadPackage, CheckApproval, ListRegistrations, RegisterTriggers, Publish, RefreshStep,
         Fetch, Enforce, DisableScript, RequestAfterDisabling, CancelCriticalRuns, EnforcementFails,
         LastLook, Register, EndRun, storeVars, db
<1>4. \A s \in Scripts : Installed(s)' <=> Installed(s)
  <2> TAKE s \in Scripts
  <2>1. CASE rows' = rows
    BY <2>1 DEF Installed
  <2>2. ASSUME NEW t, Installed(t), rows' = [rows EXCEPT ![t].enabled = FALSE]
        PROVE  Installed(s)' <=> Installed(s)
    <3>1. CASE s = t
      <4>1. rows[s] \in Row /\ rows'[s] = [rows[s] EXCEPT !.enabled = FALSE]
        BY <2>2, <3>1 DEF StoreInv, Tables, Installed
      <4>2. rows'[s] \in Row
        BY <4>1, DisabledRow
      <4> QED BY <4>1, <4>2, ScriptStoreAssumption DEF Installed
    <3>2. CASE s # t
      BY <2>2, <3>2 DEF StoreInv, Tables, Installed
    <3> QED BY <3>1, <3>2
  <2> QED BY <1>3, <2>1, <2>2
<1>5. rows' \in [Scripts -> Row \cup {None}]
  <2>1. ASSUME NEW t, Installed(t), rows' = [rows EXCEPT ![t].enabled = FALSE]
        PROVE  rows' \in [Scripts -> Row \cup {None}]
    <3>1. t \in Scripts => rows[t] \in Row
      BY <2>1 DEF StoreInv, Tables, Installed
    <3>2. t \in Scripts => [rows[t] EXCEPT !.enabled = FALSE] \in Row
      BY <3>1, DisabledRow
    <3> QED BY <2>1, <3>2 DEF StoreInv, Tables
  <2> QED BY <1>3, <2>1 DEF StoreInv, Tables
<1>6. Tables'
  BY <1>1, <1>4, <1>5 DEF StoreInv, Tables, ConsentedOnly
<1>7. OtherTypes'
  <2>1. requested' \in BOOLEAN /\ lost' \in BOOLEAN
    BY <1>2 DEF StoreInv, OtherTypes
  <2>2. outdated' \subseteq Clients
    BY <1>2, OutdatesClients DEF StoreInv, OtherTypes
  <2>3. interruptions' \in 0..MaxInterruptions
    BY <1>2, ScriptStoreAssumption DEF StoreInv, OtherTypes
  <2> QED BY <1>1, <2>1, <2>2, <2>3 DEF StoreInv, OtherTypes
<1> QED BY <1>1, <1>6, <1>7 DEF StoreInv

LEMMA ServiceBegins == Init => StoreInv /\ Knows
<1> SUFFICES ASSUME Init PROVE StoreInv /\ Knows
  OBVIOUS
<1> USE DEF Init, ServiceInit, StoreInit
<1>1. StoreInv
  <2>1. 0 \in 0 .. MaxOps /\ 0 \in 0 .. MaxInterruptions
    BY ScriptStoreAssumption DEF ScriptStoreAssumption
  <2> QED BY <2>1 DEF StoreInv, Tables, OtherTypes, ConsentedOnly, Jobs
<1>2. RefreshersInTurn
  <2>1. Resting \in [stage : {"idle", "fetched", "enforcing", "request"}, got : SUBSET Withdrawn,
                     pending : SUBSET Scripts, critical : SUBSET Scripts]
    BY DEF Resting
  <2> QED BY <2>1, BlacklistAssumption DEF RefreshersInTurn, Resting
<1>3. PassInOrder
  BY DEF PassInOrder
<1> QED BY <1>1, <1>2, <1>3 DEF Knows, PassKnows, ServiceKnows

LEMMA NextKeepsKnowing == StoreInv /\ Knows /\ [Next]_vars => StoreInv' /\ Knows'
<1> SUFFICES ASSUME StoreInv, Knows, [Next]_vars PROVE StoreInv' /\ Knows'
  OBVIOUS
<1>1. CASE StoreNext /\ UNCHANGED <<serving, entries, enforcer, official, refresh>>
  BY <1>1, ClientsTell, OthersKeepKnowing, StoreKeeps
<1>2. CASE UNCHANGED <<storeVars, serving, blacklist>>
  <2>1. StoreInv'
    BY <1>2 DEF StoreInv, Tables, OtherTypes, ConsentedOnly, Installed, storeVars, db, history, bounds
  <2>2. Told' = Told /\ UNCHANGED <<rows, approvals>>
    BY <1>2 DEF Told, storeVars, db, history
  <2>3. Told \in BOOLEAN
    BY DEF Told, StoreInv, OtherTypes
  <2> QED BY <1>2, <2>1, <2>2, <2>3, OthersKeepKnowing DEF blacklist
<1>3. CASE ~StoreNext /\ Next
  <2>1. StoreInv'
    BY <1>3, ServiceKeepsStore
  <2>2. CASE ServiceNext /\ UNCHANGED <<official, refresh>>
    BY <1>3, <2>1, <2>2, ServiceKeepsKnowing DEF ServiceNext
  <2>3. CASE Publish \/ \E r \in Refreshers : RefreshStep(r) \/ EnforcementFails(r)
    BY <2>1, <2>3, RefreshersKeepKnowing
  <2>4. CASE (\E s \in Scripts : LastLook(s)) \/ Register \/ EndRun
    BY <1>2, <2>4 DEF LastLook, Register, EndRun
  <2> QED BY <1>3, <2>2, <2>3, <2>4 DEF Next
<1>4. CASE StoreNext /\ Next
  <2>1. CASE ServiceNext /\ UNCHANGED <<official, refresh>>
    <3>1. CASE UNCHANGED serving
      BY <1>1, <1>4, <2>1, <3>1 DEF ServiceNext
    <3>2. CASE ~UNCHANGED serving
      BY <1>4, <2>1, <3>2, StoreKeeps, ServiceKeepsKnowing DEF ServiceNext
    <3> QED BY <3>1, <3>2
  <2>2. CASE Publish \/ \E r \in Refreshers : RefreshStep(r) \/ EnforcementFails(r)
    BY <1>4, <2>2, StoreKeeps, RefreshersKeepKnowing
  <2>3. CASE (\E s \in Scripts : LastLook(s)) \/ Register \/ EndRun
    BY <1>2, <2>3 DEF LastLook, Register, EndRun
  <2> QED BY <1>4, <2>1, <2>2, <2>3 DEF Next
<1> QED BY <1>2, <1>3, <1>4 DEF vars

\* No change is forgotten by the service: while it runs, its triggers are those
\* of the scripts that are installed, enabled and approved, those of packages
\* on the official list left aside, or a reload is requested, or a client is
\* about to request it, or one was lost with the process that had to
\* (request_runner_reload, reload_triggers_if_due, collect_trigger_registrations,
\* disable_restricted_scripts).
THEOREM NothingIsForgotten == Spec => []NoReloadIsLost
<1>1. StoreInv /\ Knows => NoReloadIsLost
  <2> SUFFICES ASSUME StoreInv, Knows, service = "running", ~Told
               PROVE  Unrestricted(registered) = Unrestricted(Expected)
    BY DEF NoReloadIsLost, Told
  <2>1. AgreesBut(registered, {})
    BY DEF Knows, ServiceKnows
  <2>2. registered \subseteq Scripts \X Contents
    BY DEF Knows, PassInOrder
  <2>3. Expected \subseteq Scripts \X Contents
    <3> SUFFICES ASSUME NEW s \in Enabled PROVE <<s, rows[s].content>> \in Scripts \X Contents
      BY DEF Expected
    <3>1. s \in Scripts /\ rows[s] \in Row
      BY DEF Enabled, Installed, StoreInv, Tables
    <3> QED BY <3>1 DEF Row
  <2> QED BY <2>1, <2>2, <2>3 DEF AgreesBut, Unrestricted
<1> QED BY <1>1, ServiceBegins, NextKeepsKnowing, PTL DEF Spec

-----------------------------------------------------------------------------
(* The store beside the service: what was shown of it beside a run.          *)

\* The service and the blacklist do nothing to a row but disable it.
LEMMA ServiceLeavesFiles ==
  ASSUME StoreInv, Next, ~StoreNext
  PROVE  SameFiles
<1>1. UNCHANGED <<files, job, disturbed>>
  BY DEF Next, ServiceNext, StartService, Loop, BuildFails, StopService, Reload, ReloadDue, SkipRestricted,
         FindRow, ReadPackage, CheckApproval, ListRegistrations, RegisterTriggers, Publish, RefreshStep,
         Fetch, Enforce, DisableScript, RequestAfterDisabling, CancelCriticalRuns, EnforcementFails,
         LastLook, Register, EndRun, storeVars, history
<1>2. rows' = rows \/ \E t : Installed(t) /\ rows' = [rows EXCEPT ![t].enabled = FALSE]
  BY DEF Next, ServiceNext, StartService, Loop, BuildFails, StopService, Reload, ReloadDue, SkipRestricted,
         FindRow, ReadPackage, CheckApproval, ListRegistrations, RegisterTriggers, Publish, RefreshStep,
         Fetch, Enforce, DisableScript, RequestAfterDisabling, CancelCriticalRuns, EnforcementFails,
         LastLook, Register, EndRun, storeVars, db
<1>3. ASSUME NEW s \in Scripts
      PROVE  /\ Installed(s)' <=> Installed(s)
             /\ Installed(s) => rows'[s].name = rows[s].name /\ rows'[s].content = rows[s].content
  <2>1. CASE rows' = rows
    BY <2>1 DEF Installed
  <2>2. ASSUME NEW t, Installed(t), rows' = [rows EXCEPT ![t].enabled = FALSE], s = t
        PROVE  /\ Installed(s)' /\ rows'[s].name = rows[s].name /\ rows'[s].content = rows[s].content
    <3>1. rows[s] \in Row /\ rows'[s] = [rows[s] EXCEPT !.enabled = FALSE]
      BY <2>2 DEF StoreInv, Tables, Installed
    <3>2. rows'[s] \in Row /\ rows'[s].name = rows[s].name /\ rows'[s].content = rows[s].content
      BY <3>1 DEF Row
    <3> QED BY <3>2, ScriptStoreAssumption DEF Installed
  <2>3. ASSUME NEW t, rows' = [rows EXCEPT ![t].enabled = FALSE], s # t
        PROVE  rows'[s] = rows[s]
    BY <2>3 DEF StoreInv, Tables
  <2> QED BY <1>2, <2>1, <2>2, <2>3 DEF Installed
<1> QED BY <1>1, <1>3 DEF SameFiles

LEMMA NextKeepsServedFiles == StoreInv /\ FilesInv /\ [Next]_vars => FilesInv'
<1> SUFFICES ASSUME StoreInv, FilesInv, [Next]_vars PROVE FilesInv'
  OBVIOUS
<1>1. CASE StoreNext
  BY <1>1, StoreKeepsFiles
<1>2. CASE Next /\ ~StoreNext
  BY <1>2, ServiceLeavesFiles, SameFilesKeeps
<1>3. CASE UNCHANGED vars
  <2>1. UNCHANGED <<rows, files, job, disturbed>>
    BY <1>3 DEF vars, storeVars, db, history
  <2>2. SameFiles
    BY <2>1 DEF SameFiles, Installed
  <2> QED BY <2>2, SameFilesKeeps
<1> QED BY <1>1, <1>2, <1>3

\* Beside the service too the file of every installed script holds its package
\* (with the same exceptions, FilesMatchRows), though the blacklist disables scripts in the middle of an update, which then
\* meets its commit, or of a removal, which does not notice
\* (set_script_enabled, update_script, remove_script).
THEOREM FilesAreOfTheirRowsInService == Spec => []FilesMatchRows
<1>1. Init => FilesInv
  BY InitFiles DEF Init, ServiceInit
<1>2. StoreInv /\ FilesInv => FilesMatchRows
  BY FilesInvMatches
<1> QED BY <1>1, <1>2, ServiceBegins, NextKeepsKnowing, NextKeepsServedFiles, PTL DEF Spec

\* The service lists a trigger, and a run beside it registers, only with a package
\* that somebody approved since the script was last updated or removed, and whose
\* approval nobody had taken back by then: what they compare the approval with
\* is the row they loaded the package of, whatever was installed since
\* (list_trigger_registrations, run_installed_with_trigger_in_stack).
OnlyApprovedServes ==
  [][/\ \A g \in fresh' \ fresh : g[2] \in consent[g[1]]
     /\ run.stage # "running" /\ run'.stage = "running" => run'.content \in consent[run.script]]_vars

\* A run of the service that has taken its last look knows its script.
ServedRun ==
  /\ run \in [stage : {"idle", "looked", "running"}, script : Scripts \cup {None},
             content : Contents \cup {None}, cancelled : BOOLEAN]
  /\ run.stage = "looked" => run.script \in Scripts

LEMMA NextKeepsServedRun == StoreInv /\ ServedRun /\ [Next]_vars => ServedRun'
<1> SUFFICES ASSUME StoreInv, ServedRun, [Next]_vars PROVE ServedRun'
  OBVIOUS
<1>1. ASSUME NEW s \in Scripts, LastLook(s) PROVE ServedRun'
  BY <1>1 DEF LastLook, ServedRun, AtRest
<1>2. CASE Register
  <2>1. run' = AtRest \/ (run.script \in Scripts /\ Installed(run.script)
                           /\ run' = [run EXCEPT !.stage = "running", !.content = rows[run.script].content])
    BY <1>2 DEF Register, ServedRun
  <2>2. CASE run' = AtRest
    BY <2>2 DEF ServedRun, AtRest
  <2>3. CASE run.script \in Scripts /\ Installed(run.script)
               /\ run' = [run EXCEPT !.stage = "running", !.content = rows[run.script].content]
    <3>1. rows[run.script].content \in Contents
      BY <2>3 DEF StoreInv, Tables, Installed, Row
    <3> QED BY <2>3, <3>1 DEF ServedRun
  <2> QED BY <2>1, <2>2, <2>3
<1>3. CASE EndRun
  BY <1>3 DEF EndRun, ServedRun, AtRest
<1>4. ASSUME NEW r \in Refreshers, CancelCriticalRuns(r) PROVE ServedRun'
  <2>1. run' = run \/ (run.stage = "running" /\ run' = [run EXCEPT !.cancelled = TRUE])
    BY <1>4 DEF CancelCriticalRuns
  <2> QED BY <2>1 DEF ServedRun
<1>5. CASE UNCHANGED run
  BY <1>5 DEF ServedRun
<1>6. CASE ServiceNext /\ UNCHANGED <<official, refresh, run>>
  BY <1>5, <1>6
<1>7. ASSUME NEW r \in Refreshers, RefreshStep(r) \/ EnforcementFails(r) PROVE ServedRun'
  BY <1>4, <1>5, <1>7 DEF RefreshStep, Fetch, Enforce, DisableScript, RequestAfterDisabling, EnforcementFails
<1>8. CASE Publish \/ UNCHANGED vars
  BY <1>5, <1>8 DEF Publish, vars
<1> QED BY <1>1, <1>2, <1>3, <1>6, <1>7, <1>8 DEF Next

LEMMA StepServesApproved ==
  ASSUME StoreInv, Knows, ServedRun, [Next]_vars
  PROVE  /\ \A g \in fresh' \ fresh : g[2] \in consent[g[1]]
         /\ run.stage # "running" /\ run'.stage = "running" => run'.content \in consent[run.script]
<1>1. \A s \in Scripts : approvals[s] # None => approvals[s] \in consent[s]
  BY DEF StoreInv, Tables, ConsentedOnly
<1>2. ASSUME NEW g \in fresh' \ fresh PROVE g[2] \in consent[g[1]]
  <2>1. CheckApproval
    <3>1. fresh' # fresh /\ fresh' # {}
      BY <1>2
    <3> QED BY <3>1, <1>2
        DEF Next, ServiceNext, StartService, Loop, BuildFails, StopService, Reload, ReloadDue, SkipRestricted,
            FindRow, ReadPackage, ListRegistrations, RegisterTriggers, Publish, RefreshStep,
            Fetch, Enforce, DisableScript, RequestAfterDisabling, CancelCriticalRuns, EnforcementFails,
            LastLook, Register, EndRun, serving, passing, Lists, Fails, Passes, vars
  <2>2. g = <<Current, found.content>> /\ approvals[Current] = found.content
    BY <1>2, <2>1 DEF CheckApproval, HasCurrentApproval
  <2>3. Current \in Scripts /\ found \in Row
    <3>1. found # None /\ todo # {} /\ found \in Row /\ todo \subseteq Scripts \X Contents
      BY <2>1 DEF CheckApproval, Knows, PassInOrder
    <3>2. Listed \in todo
      BY <3>1 DEF Listed
    <3> QED BY <3>1, <3>2 DEF Current
  <2>4. found.content \in Contents
    BY <2>3 DEF Row
  <2>5. found.content # None
    BY <2>4, ScriptStoreAssumption
  <2> QED BY <1>1, <2>2, <2>3, <2>5
<1>3. ASSUME run.stage # "running", run'.stage = "running" PROVE run'.content \in consent[run.script]
  <2>1. Register
    <3>1. run' # run /\ run' # AtRest
      BY <1>3 DEF AtRest
    <3>2. \A s \in Scripts : ~LastLook(s)
      BY <1>3 DEF LastLook, AtRest
    <3>3. \A r \in Refreshers : ~CancelCriticalRuns(r)
      BY <1>3, <3>1 DEF CancelCriticalRuns
    <3> QED BY <3>1, <3>2, <3>3
        DEF Next, Publish, RefreshStep, Fetch, Enforce, DisableScript, RequestAfterDisabling,
            EnforcementFails, EndRun, vars
  <2>2. /\ run.script \in Scripts /\ Installed(run.script) /\ approvals[run.script] = rows[run.script].content
        /\ run' = [run EXCEPT !.stage = "running", !.content = rows[run.script].content]
    <3>1. run' # AtRest
      BY <1>3 DEF AtRest
    <3> QED BY <2>1, <3>1 DEF Register, ServedRun, HasCurrentApproval
  <2>3. run'.content = rows[run.script].content /\ rows[run.script].content \in Contents
    BY <2>2 DEF ServedRun, StoreInv, Tables, Installed, Row
  <2>4. rows[run.script].content # None
    BY <2>3, ScriptStoreAssumption
  <2> QED BY <1>1, <2>2, <2>3, <2>4
<1> QED BY <1>2, <1>3

\* For any number of clients and refreshers, and whatever is interrupted where: no
\* trigger is listed and no run registers without an approval that somebody gave
\* for that very package (list_trigger_registrations, run_installed_with_trigger_in_stack).
THEOREM OnlyApprovedIsServed == Spec => OnlyApprovedServes
<1>1. Init => ServedRun
  BY DEF Init, ServedRun, AtRest
<1>2. StoreInv /\ Knows /\ ServedRun /\ [Next]_vars =>
        [/\ \A g \in fresh' \ fresh : g[2] \in consent[g[1]]
         /\ run.stage # "running" /\ run'.stage = "running" => run'.content \in consent[run.script]]_vars
  BY StepServesApproved
<1> QED BY <1>1, <1>2, ServiceBegins, NextKeepsKnowing, NextKeepsServedRun, PTL DEF Spec, OnlyApprovedServes

=============================================================================
