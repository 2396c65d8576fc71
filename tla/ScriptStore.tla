---------------------------- MODULE ScriptStore ----------------------------
(***************************************************************************)
(* The installed scripts: their rows, package files and approvals          *)
(* (crates/baudbound-storage/.../sqlite/mod.rs) and what clients do to      *)
(* them (crates/baudbound-core/src/lib.rs).                                *)
(*                                                                         *)
(* The desktop and the command line are processes of their own: between    *)
(* them nothing is atomic but one statement or transaction of SQLite and    *)
(* the replacement of one file.  A client does one operation at a time; an  *)
(* operation that is refused at its first look changes nothing and is left  *)
(* out.  The blacklist and the secrets of a script are left out too.        *)
(***************************************************************************)
EXTENDS Integers, FiniteSets

CONSTANTS Clients,          \* processes that manage scripts
          Scripts,
          Contents,         \* packages, told apart by their hash
          Owner,            \* Owner[c]: the script whose id package c carries
          Names,            \* names packages come with and are stored under
          Files,            \* what the file system keeps
          FileOf,           \* FileOf[n]: the file a name denotes; where file names
                            \* ignore case, several names denote one
          None,             \* no row, no file, no approval, nobody
          MaxOps,           \* bound: operations of all clients
          MaxInterruptions  \* bound: crashes and errors in the middle of them

Row == [content : Contents, name : Names, enabled : BOOLEAN]

ASSUME ScriptStoreAssumption ==
  /\ Owner \in [Contents -> Scripts]
  /\ FileOf \in [Names -> Files]
  /\ None \notin Clients \cup Contents \cup Row
  /\ MaxOps \in Nat /\ MaxInterruptions \in Nat

VARIABLES rows,          \* table scripts
          approvals,     \* table approvals: the package hash approved
          requested,     \* the row of table runner_signals
          files,         \* what the package files hold
          writer,        \* whose transaction holds SQLite's write lock
          outdated,      \* clients whose transaction reads an old snapshot
          job,           \* what every client is doing
          consent,       \* packages approved since they were installed (history)
          disturbed,     \* files whose last install was not left alone (history)
          lost,          \* a change was made and no reload requested (history)
          ops, interruptions

db      == <<rows, approvals, requested>>
history == <<consent, disturbed, lost>>
bounds  == <<ops, interruptions>>
storeVars == <<db, files, writer, outdated, job, history, bounds>>

Idle == [kind |-> "none", stage |-> "idle", script |-> None, content |-> None,
         name |-> None, on |-> FALSE, seen |-> None]

Installed(s) == rows[s] # None
Enabled == {s \in Scripts : Installed(s) /\ rows[s].enabled}

\* ensure_package_file_available: no other script has the name.  Names are
\* compared as they are spelt, not by the files they denote.
Free(n, s) == \A t \in Scripts \ {s} : Installed(t) => rows[t].name # n

\* The hash of the file is the one the row was written with.
Verified(row) == files[FileOf[row.name]] = row.content

\* An approval is current when it is of the installed package.
AnyApproval(s, row) == approvals[s] # None
HasCurrentApproval(s, row) == approvals[s] = row.content

\* The update transactions of others than those in mine, whose snapshots a
\* commit makes old.
Outdates(mine) ==
  outdated' = outdated \cup {q \in Clients \ mine : job[q].kind = "update"}
Commits(p) == Outdates({p})

LockFree(p) == writer \in {None, p}
Goes(p, place) == job' = [job EXCEPT ![p].stage = place]
Ends(p) == job' = [job EXCEPT ![p] = Idle]

\* The files an operation has still to do with: the one it installs, the one it
\* finds installed; and those that meanwhile need not hold what rows say.
NewFile(j) ==
  IF j.kind \in {"import", "update"} /\ j.stage # "request" THEN {FileOf[j.name]} ELSE {}
OldFile(j) ==
  IF j.kind \in {"update", "remove"} /\ j.stage # "request" THEN {FileOf[j.seen.name]} ELSE {}

Handles(j) == NewFile(j) \cup OldFile(j)
Unfinished(j) == NewFile(j) \cup (IF j.stage = "commit" THEN OldFile(j) ELSE {})

\* Those that another operation handles too, or a row has under another name.
Contested(p, j) ==
  {f \in Handles(j) : \E q \in Clients \ {p} : f \in Handles(job[q])}
    \cup {f \in NewFile(j) : \E s \in Scripts : Installed(s) /\ rows[s].name # j.name
                                                /\ FileOf[rows[s].name] = f}

BreaksOff(p) == disturbed' = disturbed \cup Unfinished(job[p])

-----------------------------------------------------------------------------
(* Operations of a client.                                                 *)

Begins(p, j) ==
  /\ job[p] = Idle /\ ops < MaxOps
  /\ ops' = ops + 1
  /\ job' = [job EXCEPT ![p] = j]
  /\ disturbed' = (disturbed \ NewFile(j)) \cup Contested(p, j)
  /\ UNCHANGED <<db, files, writer, consent, lost, interruptions>>

\* The id is not installed and the name is not taken.
BeginImport(p, c, n) ==
  /\ ~Installed(Owner[c]) /\ Free(n, Owner[c])
  /\ Begins(p, [Idle EXCEPT !.kind = "import", !.stage = "copy", !.script = Owner[c],
                            !.content = c, !.name = n])
  /\ UNCHANGED outdated

\* The transaction of an update begins with its first read.
BeginUpdate(p, c, n) ==
  /\ Installed(Owner[c]) /\ Free(n, Owner[c])
  /\ Begins(p, [Idle EXCEPT !.kind = "update", !.stage = "copy", !.script = Owner[c],
                            !.content = c, !.name = n, !.seen = rows[Owner[c]]])
  /\ outdated' = outdated \ {p}

BeginOnRow(p, s, kind, on, stage) ==
  /\ Installed(s)
  /\ Begins(p, [Idle EXCEPT !.kind = kind, !.stage = stage, !.script = s, !.on = on,
                            !.seen = rows[s]])
  /\ UNCHANGED outdated

BeginRemove(p, s)  == BeginOnRow(p, s, "remove", FALSE, "delete")
BeginApprove(p, s) == BeginOnRow(p, s, "approve", FALSE, "verify")
BeginRevoke(p, s)  == BeginOnRow(p, s, "revoke", FALSE, "revoke")
BeginSwitch(p, s, on) == BeginOnRow(p, s, "switch", on, IF on THEN "verify" ELSE "set")

\* copy_file replaces the file in one step.
CopyPackage(p) ==
  /\ job[p].stage = "copy"
  /\ files' = [files EXCEPT ![FileOf[job[p].name]] = job[p].content]
  /\ Goes(p, IF job[p].kind = "import" THEN "insert" ELSE "write")
  /\ UNCHANGED <<db, writer, outdated, history, bounds>>

\* An import is no transaction: the row is inserted, or replaces one of its id
\* that appeared meanwhile; the name may have been taken meanwhile.
InsertRow(p) ==
  LET s == job[p].script
  IN  /\ job[p].stage = "insert" /\ LockFree(p)
      /\ IF Free(job[p].name, s)
         THEN /\ rows' = [rows EXCEPT ![s] = [content |-> job[p].content,
                                              name |-> job[p].name, enabled |-> TRUE]]
              /\ Goes(p, "request") /\ Commits(p)
              /\ UNCHANGED disturbed
         ELSE /\ BreaksOff(p) /\ Ends(p)
              /\ UNCHANGED <<rows, outdated>>
      /\ UNCHANGED <<approvals, requested, files, writer, consent, lost, bounds>>

\* The first write of an update takes the write lock; SQLite refuses it when
\* somebody committed since its snapshot, and the copied file stays.
WriteRow(p) ==
  /\ job[p].stage = "write" /\ LockFree(p)
  /\ IF p \in outdated
     THEN BreaksOff(p) /\ Ends(p) /\ UNCHANGED writer
     ELSE writer' = p /\ Goes(p, "tidy") /\ UNCHANGED disturbed
  /\ UNCHANGED <<db, files, outdated, consent, lost, bounds>>

\* Names are compared here too: a name that differs in case only is another one.
RemoveAnyway(p) == TRUE
RenamesFile(p) == job[p].seen.name # job[p].name

RemovePrevious(p) ==
  /\ job[p].stage = "tidy"
  /\ files' = IF RenamesFile(p) THEN [files EXCEPT ![FileOf[job[p].seen.name]] = None] ELSE files
  /\ Goes(p, "commit")
  /\ UNCHANGED <<db, writer, outdated, history, bounds>>

DropsApproval(p) == [approvals EXCEPT ![job[p].script] = None]

CommitUpdate(p) ==
  LET s == job[p].script
  IN  /\ job[p].stage = "commit"
      /\ rows' = [rows EXCEPT ![s] = [content |-> job[p].content, name |-> job[p].name,
                                      enabled |-> job[p].seen.enabled]]
      /\ approvals' = DropsApproval(p)
      /\ consent'   = [consent EXCEPT ![s] = {}]
      /\ requested' = TRUE
      /\ writer' = None
      /\ Ends(p) /\ Commits(p)
      /\ UNCHANGED <<files, disturbed, lost, bounds>>

\* The row goes, and the approval with it; then the file.
DeleteRow(p) ==
  LET s == job[p].script
  IN  /\ job[p].stage = "delete" /\ LockFree(p)
      /\ rows' = [rows EXCEPT ![s] = None]
      /\ approvals' = DropsApproval(p)
      /\ consent'   = [consent EXCEPT ![s] = {}]
      /\ Goes(p, "unlink") /\ Commits(p)
      /\ UNCHANGED <<requested, files, writer, disturbed, lost, bounds>>

RemoveFile(p) ==
  /\ job[p].stage = "unlink"
  /\ files' = [files EXCEPT ![FileOf[job[p].seen.name]] = None]
  /\ Goes(p, "request")
  /\ UNCHANGED <<db, writer, outdated, history, bounds>>

\* Approving and enabling read the package and compare its hash first.
VerifyPackage(p) ==
  /\ job[p].stage = "verify"
  /\ IF Verified(job[p].seen)
     THEN Goes(p, IF job[p].kind = "approve" THEN "approve" ELSE "set")
     ELSE Ends(p)
  /\ UNCHANGED <<db, files, writer, outdated, history, bounds>>

\* What is approved is the package that was read, whatever is installed now.
ReviewedContent(p) == job[p].seen.content

RecordApproval(p) ==
  LET s == job[p].script
  IN  /\ job[p].stage = "approve" /\ LockFree(p)
      /\ IF Installed(s)
         THEN /\ approvals' = [approvals EXCEPT ![s] = ReviewedContent(p)]
              /\ consent'   = [consent EXCEPT ![s] = @ \cup {job[p].seen.content}]
              /\ requested' = TRUE /\ Commits(p)
         ELSE UNCHANGED <<approvals, consent, requested, outdated>>
      /\ Ends(p)
      /\ UNCHANGED <<rows, files, writer, disturbed, lost, bounds>>

RevokeApproval(p) ==
  LET s == job[p].script
  IN  /\ job[p].stage = "revoke" /\ LockFree(p)
      /\ approvals' = DropsApproval(p)
      /\ consent'   = [consent EXCEPT ![s] = {}]
      /\ Goes(p, "request") /\ Commits(p)
      /\ UNCHANGED <<rows, requested, files, writer, disturbed, lost, bounds>>

SetEnabled(p) ==
  LET s == job[p].script
  IN  /\ job[p].stage = "set" /\ LockFree(p)
      /\ IF Installed(s)
         THEN /\ rows' = [rows EXCEPT ![s].enabled = job[p].on]
              /\ Goes(p, "request") /\ Commits(p)
         ELSE Ends(p) /\ UNCHANGED <<rows, outdated>>
      /\ UNCHANGED <<approvals, requested, files, writer, history, bounds>>

\* The service is told by a statement of its own.
RequestReload(p) ==
  /\ job[p].stage = "request" /\ LockFree(p)
  /\ requested' = TRUE
  /\ Ends(p) /\ Commits(p)
  /\ UNCHANGED <<rows, approvals, files, writer, history, bounds>>

\* A client dies or fails in the middle; SQLite rolls its transaction back.
Interrupted(p) ==
  /\ job[p] # Idle /\ interruptions < MaxInterruptions
  /\ interruptions' = interruptions + 1
  /\ BreaksOff(p)
  /\ lost' = (lost \/ job[p].stage \in {"unlink", "request"})
  /\ writer' = IF writer = p THEN None ELSE writer
  /\ Ends(p)
  /\ UNCHANGED <<db, files, outdated, consent, ops>>

-----------------------------------------------------------------------------
StoreInit ==
  /\ rows = [s \in Scripts |-> None] /\ approvals = [s \in Scripts |-> None]
  /\ requested = FALSE
  /\ files = [f \in Files |-> None]
  /\ writer = None /\ outdated = {}
  /\ job = [p \in Clients |-> Idle]
  /\ consent = [s \in Scripts |-> {}] /\ disturbed = {} /\ lost = FALSE
  /\ ops = 0 /\ interruptions = 0

Begin(p) ==
  \/ \E c \in Contents, n \in Names : BeginImport(p, c, n) \/ BeginUpdate(p, c, n)
  \/ \E s \in Scripts : \/ BeginRemove(p, s) \/ BeginApprove(p, s) \/ BeginRevoke(p, s)
                        \/ \E on \in BOOLEAN : BeginSwitch(p, s, on)

ClientStep(p) ==
  \/ CopyPackage(p) \/ InsertRow(p) \/ WriteRow(p) \/ RemovePrevious(p) \/ CommitUpdate(p)
  \/ DeleteRow(p) \/ RemoveFile(p) \/ VerifyPackage(p) \/ RecordApproval(p)
  \/ RevokeApproval(p) \/ SetEnabled(p) \/ RequestReload(p)

StoreNext == \E p \in Clients : Begin(p) \/ ClientStep(p) \/ Interrupted(p)

-----------------------------------------------------------------------------
\* Types; and an approval belongs to an installed script (its foreign key).
StoreTypeOK ==
  /\ rows \in [Scripts -> Row \cup {None}]
  /\ approvals \in [Scripts -> Contents \cup {None}]
  /\ \A s \in Scripts : approvals[s] # None => Installed(s)
  /\ requested \in BOOLEAN
  /\ files \in [Files -> Contents \cup {None}]
  /\ writer \in Clients \cup {None} /\ outdated \subseteq Clients
  /\ \A p \in Clients : job[p] # Idle => job[p].script \in Scripts
  /\ consent \in [Scripts -> SUBSET Contents]
  /\ disturbed \subseteq Files /\ lost \in BOOLEAN
  /\ ops \in 0 .. MaxOps /\ interruptions \in 0 .. MaxInterruptions

\* The file of an installed script holds its package, whatever goes on with other
\* files, unless an install into it is under way or the last one broke off, was
\* overtaken by a commit, met another operation on the file, or found it in use
\* under another name (one that differs in case only: then the code overwrites or
\* removes it).  The next install that is left alone mends what went wrong.
FilesMatchRows ==
  \A s \in Scripts :
    LET f == FileOf[rows[s].name]
    IN  Installed(s) /\ f \notin disturbed /\ (\A p \in Clients : f \notin Unfinished(job[p]))
          => Verified(rows[s])
=============================================================================
