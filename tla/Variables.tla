----------------------------- MODULE Variables -----------------------------
(***************************************************************************)
(* The variables scripts store: the rows of the database with their        *)
(* versions (crates/baudbound-storage/.../scoped_variables.rs) and the runs *)
(* that load, change and test them                                         *)
(* (crates/baudbound-runtime/src/execution/variable_operations.rs,         *)
(* declared_variables.rs, initial_state.rs, branching.rs).  A global       *)
(* variable is shared by the scripts that declare it, a persistent one by   *)
(* the runs of its script; a row is shared by the runs that declare it.     *)
(*                                                                         *)
(* One step of a run is one statement of SQLite or one look at its token.   *)
(***************************************************************************)
EXTENDS Integers, Sequences, FiniteSets

CONSTANTS Runs,
          Rows,          \* the variables, as the rows they are stored in
          Declared,      \* Declared[r]: the rows run r declares, in order
          Default,       \* Default[r]: the value its script declares for them
          MaxValue,      \* MAX_SAFE_INTEGER
          MaxVersion,    \* i64::MAX, where a version stops
          MaxAttempts,   \* MAX_COMPARE_AND_SET_ATTEMPTS
          MaxOps,        \* bound: operations and conditions of a run
          MaxResets      \* bound: how often all variables are reset

Values  == 0 .. MaxValue
Missing == -1
Fails   == -2

ASSUME VariablesAssumption ==
  /\ MaxValue \in Nat /\ MaxVersion \in Nat \ {0} /\ MaxAttempts \in Nat \ {0}
  /\ MaxOps \in Nat /\ MaxResets \in Nat
  /\ Declared \in [Runs -> Seq(Rows) \ {<<>>}]
  /\ Default \in [Runs -> Values]

VARIABLES stored,        \* the value of every row, or Missing
          version,       \* its version, 0 where there is no row
          pc,            \* where a run is
          at,            \* the index of the declaration it works on
          op,            \* the operation it performs
          base,          \* the value that operation read, or Missing
          expected,      \* and its version
          attempts,      \* compare and sets lost in this operation
          copy,          \* the run's own variables, by row
          known,         \* the rows whose scope it knows
          performed,     \* operations and conditions so far
          resets,        \* resets so far
          began,         \* resets when the run began (history)
          since,         \* resets when the operation read (history)
          overtaken      \* changes others made during the operation (history)

db   == <<stored, version>>
work == <<at, op, base, expected, attempts>>
mine == <<copy, known>>
history == <<began, since, overtaken>>
vars == <<db, pc, work, mine, performed, resets, history>>

NoOperation == "none"
Operations == {"set", "increment", "remove", "clear", "reset"}
Starting   == {"load", "insert", "reload", "again"}
Over       == {"idle", "done", "failed", "gave up"}

Row(r) == Declared[r][at[r]]
IsStored(k) == stored[k] # Missing

\* What an operation makes of the value it finds.
Applied(r, o, found) ==
  CASE o = "set"       -> MaxValue
    [] o = "increment" -> LET sum == (IF found = Missing THEN 0 ELSE found) + 1
                          IN  IF sum <= MaxValue THEN sum ELSE Fails
    [] o = "remove"    -> IF found = Missing THEN Fails ELSE 0
    [] o = "clear"     -> 0
    [] o = "reset"     -> Default[r]

Goes(r, place) == pc' = [pc EXCEPT ![r] = place]

\* An operation ends, and what it worked with is gone.
Forgets(r) ==
  /\ at' = [at EXCEPT ![r] = 1] /\ op' = [op EXCEPT ![r] = NoOperation]
  /\ base' = [base EXCEPT ![r] = Missing] /\ expected' = [expected EXCEPT ![r] = 0]
  /\ attempts' = [attempts EXCEPT ![r] = 0] /\ since' = [since EXCEPT ![r] = 0]

\* The run's own copy takes a value, or loses the variable and its scope.
Keeps(r, k, value) ==
  /\ copy'  = [copy EXCEPT ![r][k] = value]
  /\ known' = [known EXCEPT ![r] = IF value = Missing THEN @ \ {k} ELSE @ \cup {k}]

Operating(r) == pc[r] \in {"operate", "write"}

\* The rows in ks change under everybody else who is operating on them.
Overtakes(r, ks) ==
  overtaken' = [q \in Runs |-> IF q # r /\ Operating(q) /\ Row(q) \in ks
                               THEN overtaken[q] + 1 ELSE overtaken[q]]

-----------------------------------------------------------------------------
(* The statements of the database.                                         *)

Insert(r, k, value) ==
  /\ stored'  = [stored EXCEPT ![k] = value]
  /\ version' = [version EXCEPT ![k] = 1]
  /\ Overtakes(r, {k})

Update(r, k, value) ==
  /\ stored'  = [stored EXCEPT ![k] = value]
  /\ version' = [version EXCEPT ![k] = @ + 1]
  /\ Overtakes(r, {k})

\* Only the row that was read may be replaced: none, or one of its version.
AnyRow(r, k) == IsStored(k) = (expected[r] # 0)
SameRow(r, k) == IF expected[r] = 0 THEN ~IsStored(k)
                 ELSE IsStored(k) /\ version[k] = expected[r]

-----------------------------------------------------------------------------
(* The start of a run: its declared variables.                             *)

Begin(r) ==
  /\ pc[r] = "idle"
  /\ Goes(r, "load") /\ at' = [at EXCEPT ![r] = 1]
  /\ began' = [began EXCEPT ![r] = resets]
  /\ UNCHANGED <<db, op, base, expected, attempts, mine, performed, resets,
                 since, overtaken>>

\* On to the next declaration; behind the last of them to the next pass.
NextDeclaration(r, this, then) ==
  IF at[r] < Len(Declared[r])
  THEN Goes(r, this) /\ at' = [at EXCEPT ![r] = @ + 1]
  ELSE Goes(r, then) /\ at' = [at EXCEPT ![r] = 1]

LoadDeclared(r) ==
  /\ pc[r] = "load"
  /\ IF IsStored(Row(r))
     THEN Keeps(r, Row(r), stored[Row(r)]) /\ NextDeclaration(r, "load", "again")
     ELSE Goes(r, "insert") /\ UNCHANGED <<at, mine>>
  /\ UNCHANGED <<db, op, base, expected, attempts, performed, resets, history>>

\* The declared value is stored only where nothing is.
InsertDefault(r) ==
  /\ pc[r] = "insert"
  /\ IF ~IsStored(Row(r))
     THEN /\ Insert(r, Row(r), Default[r])
          /\ Keeps(r, Row(r), Default[r])
          /\ NextDeclaration(r, "load", "again")
     ELSE Goes(r, "reload") /\ UNCHANGED <<db, at, mine, overtaken>>
  /\ UNCHANGED <<op, base, expected, attempts, performed, resets, began, since>>

\* Somebody else stored it first; or it is gone again.
Reload(r) ==
  /\ pc[r] = "reload"
  /\ IF IsStored(Row(r))
     THEN Keeps(r, Row(r), stored[Row(r)]) /\ NextDeclaration(r, "load", "again")
     ELSE Goes(r, "failed") /\ UNCHANGED <<at, mine>>
  /\ UNCHANGED <<db, op, base, expected, attempts, performed, resets, history>>

\* Every stored variable is loaded once more; one that is gone keeps its copy.
LoadAgain(r) ==
  /\ pc[r] = "again"
  /\ IF IsStored(Row(r)) THEN Keeps(r, Row(r), stored[Row(r)]) ELSE UNCHANGED mine
  /\ NextDeclaration(r, "again", "ready")
  /\ UNCHANGED <<db, op, base, expected, attempts, performed, resets, history>>

-----------------------------------------------------------------------------
(* Operations and conditions.                                              *)

Choose(r, o, i) ==
  /\ pc[r] = "ready" /\ performed[r] < MaxOps
  /\ Goes(r, "operate")
  /\ op' = [op EXCEPT ![r] = o] /\ at' = [at EXCEPT ![r] = i]
  /\ attempts'  = [attempts EXCEPT ![r] = 0]
  /\ overtaken' = [overtaken EXCEPT ![r] = 0]
  /\ performed' = [performed EXCEPT ![r] = @ + 1]
  /\ UNCHANGED <<db, base, expected, mine, resets, began, since>>

\* The row is read, copied and calculated with; an operation the value does not
\* allow fails, and the script goes on behind its failed output.
Read(r) ==
  /\ pc[r] = "operate"
  /\ Keeps(r, Row(r), stored[Row(r)])
  /\ IF Applied(r, op[r], stored[Row(r)]) = Fails
     THEN Goes(r, "ready") /\ Forgets(r)
     ELSE /\ Goes(r, "write")
          /\ base'     = [base EXCEPT ![r] = stored[Row(r)]]
          /\ expected' = [expected EXCEPT ![r] = version[Row(r)]]
          /\ since'    = [since EXCEPT ![r] = resets]
          /\ UNCHANGED <<at, op, attempts>>
  /\ UNCHANGED <<db, performed, resets, began, overtaken>>

GiveUpEarly(r) == attempts[r] + 2 = MaxAttempts
GiveUp(r) == attempts[r] + 1 = MaxAttempts

Write(r) ==
  LET k    == Row(r)
      next == Applied(r, op[r], base[r])
  IN  /\ pc[r] = "write" /\ expected[r] < MaxVersion
      /\ IF SameRow(r, k)
         THEN /\ IF expected[r] = 0 THEN Insert(r, k, next) ELSE Update(r, k, next)
              /\ Keeps(r, k, next)
              /\ Goes(r, "ready") /\ Forgets(r)
         ELSE /\ IF GiveUp(r)
                 THEN Goes(r, "gave up") /\ Forgets(r)
                 ELSE /\ Goes(r, "operate")
                      /\ attempts' = [attempts EXCEPT ![r] = @ + 1]
                      /\ UNCHANGED <<at, op, base, expected, since>>
              /\ UNCHANGED <<db, mine, overtaken>>
      /\ UNCHANGED <<performed, resets, began>>

VersionExhausted(r) ==
  /\ pc[r] = "write" /\ expected[r] = MaxVersion
  /\ Goes(r, "failed") /\ Forgets(r)
  /\ UNCHANGED <<db, mine, performed, resets, began, overtaken>>

StaleCopy(r, k) == copy[r][k]

\* What a condition sees of a stored variable: the row, unless the run no
\* longer knows its scope.
Refreshed(r, k) == IF k \in known[r] THEN stored[k] ELSE copy[r][k]

\* An if or a while that reads the i-th declared variable.
Condition(r, i) ==
  LET k == Declared[r][i]
  IN  /\ pc[r] = "ready" /\ performed[r] < MaxOps
      /\ performed' = [performed EXCEPT ![r] = @ + 1]
      /\ IF k \in known[r] THEN Keeps(r, k, Refreshed(r, k)) ELSE UNCHANGED mine
      /\ UNCHANGED <<db, pc, work, resets, history>>

\* The token is read before every node and before every attempt; it may have
\* been cancelled by then.
Stopped(r) ==
  /\ pc[r] \in {"ready", "operate"}
  /\ Goes(r, "failed") /\ Forgets(r)
  /\ UNCHANGED <<db, mine, performed, resets, began, overtaken>>

End(r) ==
  /\ pc[r] = "ready"
  /\ Goes(r, "done")
  /\ UNCHANGED <<db, work, mine, performed, resets, history>>

\* The desktop deletes every stored variable, runs or no runs.
ResetStoredVariables ==
  /\ resets < MaxResets
  /\ resets' = resets + 1
  /\ stored'  = [k \in Rows |-> Missing]
  /\ version' = [k \in Rows |-> 0]
  /\ overtaken' = [q \in Runs |-> IF Operating(q) /\ IsStored(Row(q))
                                  THEN overtaken[q] + 1 ELSE overtaken[q]]
  /\ UNCHANGED <<pc, work, mine, performed, began, since>>

-----------------------------------------------------------------------------
Init ==
  /\ stored = [k \in Rows |-> Missing] /\ version = [k \in Rows |-> 0]
  /\ pc = [r \in Runs |-> "idle"] /\ at = [r \in Runs |-> 1]
  /\ op = [r \in Runs |-> NoOperation] /\ base = [r \in Runs |-> Missing]
  /\ expected = [r \in Runs |-> 0] /\ attempts = [r \in Runs |-> 0]
  /\ copy = [r \in Runs |-> [k \in Rows |-> Missing]] /\ known = [r \in Runs |-> {}]
  /\ performed = [r \in Runs |-> 0]
  /\ resets = 0
  /\ began = [r \in Runs |-> 0] /\ since = [r \in Runs |-> 0]
  /\ overtaken = [r \in Runs |-> 0]

RunStep(r) ==
  \/ Begin(r) \/ LoadDeclared(r) \/ InsertDefault(r) \/ Reload(r) \/ LoadAgain(r)
  \/ \E o \in Operations, i \in DOMAIN Declared[r] : Choose(r, o, i)
  \/ Read(r) \/ Write(r) \/ VersionExhausted(r)
  \/ \E i \in DOMAIN Declared[r] : Condition(r, i)
  \/ Stopped(r) \/ End(r)

Finished == (\A r \in Runs : pc[r] \in Over) /\ UNCHANGED vars

Next == (\E r \in Runs : RunStep(r)) \/ ResetStoredVariables \/ Finished

Spec == Init /\ [][Next]_vars

-----------------------------------------------------------------------------
TypeOK ==
  /\ stored \in [Rows -> Values \cup {Missing}] /\ version \in [Rows -> 0 .. MaxVersion]
  /\ \A k \in Rows : version[k] = 0 <=> stored[k] = Missing
  /\ pc \in [Runs -> Starting \cup Over \cup {"ready", "operate", "write"}]
  /\ \A r \in Runs : at[r] \in DOMAIN Declared[r]
  /\ op \in [Runs -> Operations \cup {NoOperation}]
  /\ base \in [Runs -> Values \cup {Missing}] /\ expected \in [Runs -> 0 .. MaxVersion]
  /\ attempts \in [Runs -> 0 .. MaxAttempts]
  /\ copy \in [Runs -> [Rows -> Values \cup {Missing}]] /\ known \in [Runs -> SUBSET Rows]
  /\ performed \in [Runs -> Nat]
  /\ resets \in 0 .. MaxResets
  /\ began \in [Runs -> Nat] /\ since \in [Runs -> Nat] /\ overtaken \in [Runs -> Nat]

\* What a run writes is its operation on the value the row has at that moment:
\* between its read and its write nobody else's update is lost.  A reset in
\* between starts the versions over and is left out here.
NoUpdateIsLost ==
  [][\A r \in Runs :
       pc[r] = "write" /\ pc'[r] = "ready" /\ since[r] = resets =>
         stored'[Row(r)] = Applied(r, op[r], stored[Row(r)])]_vars

\* An operation gives up only when others changed its variable as often as it
\* tried (execute_stored_variable_operation).
GivesUpOnlyWhenOvertaken ==
  \A r \in Runs : pc[r] = "gave up" => overtaken[r] >= MaxAttempts

\* The branch a condition takes is decided by what is stored then, whoever
\* stored it: as long as nobody reset the variables since the run began.
SeesTheStore(r, i) == copy'[r][Declared[r][i]] = stored[Declared[r][i]]

ConditionsSeeTheStore ==
  [][\A r \in Runs : \A i \in DOMAIN Declared[r] :
       Condition(r, i) /\ began[r] = resets => SeesTheStore(r, i)]_vars

=============================================================================
