-------------------------- MODULE VariablesProofs --------------------------
(***************************************************************************)
(* What Variables promises, for any number of runs and variables, any bound *)
(* on attempts, values, versions and operations, and any number of resets.  *)
(*                                                                         *)
(* The invariant says, run by run, what holds between the read and the      *)
(* write of an operation: as long as nobody reset the variables, the row    *)
(* still has the value that was read or a higher version; and a compare and *)
(* set that is going to fail has been overtaken once more than were lost.   *)
(* A step of a run keeps it for the others because it leaves them alone but *)
(* for storing one row, under the next version.                            *)
(***************************************************************************)
EXTENDS Variables, TLAPS

Places == Starting \cup Over \cup {"ready", "operate", "write"}

\* The variables are functions of the rows and of the runs.
Shapes ==
  /\ pc \in [Runs -> Places] /\ at \in [Runs -> Nat]
  /\ op \in [Runs -> Operations \cup {NoOperation}]
  /\ base \in [Runs -> Values \cup {Missing}] /\ expected \in [Runs -> 0 .. MaxVersion]
  /\ attempts \in [Runs -> 0 .. MaxAttempts]
  /\ copy \in [Runs -> [Rows -> Values \cup {Missing}]] /\ known \in [Runs -> SUBSET Rows]
  /\ performed \in [Runs -> Nat]
  /\ began \in [Runs -> Nat] /\ since \in [Runs -> Nat] /\ overtaken \in [Runs -> Nat]

DbInv ==
  /\ stored \in [Rows -> Values \cup {Missing}] /\ version \in [Rows -> 0 .. MaxVersion]
  /\ \A k \in Rows : version[k] = 0 <=> stored[k] = Missing
  /\ resets \in 0 .. MaxResets

\* Between the read and the write of an operation.
WritePending(r) ==
  /\ Applied(r, op[r], base[r]) \in Values
  /\ expected[r] = 0 <=> base[r] = Missing
  /\ since[r] <= resets
  /\ since[r] = resets /\ expected[r] # 0 =>
       /\ version[Row(r)] >= expected[r]
       /\ version[Row(r)] = expected[r] => stored[Row(r)] = base[r]
  /\ ~SameRow(r, Row(r)) => attempts[r] < overtaken[r]

Underway(r) ==
  /\ Operating(r) => /\ op[r] \in Operations
                     /\ attempts[r] < MaxAttempts /\ attempts[r] <= overtaken[r]
  /\ pc[r] = "write" => WritePending(r)
  /\ pc[r] = "gave up" => overtaken[r] >= MaxAttempts

\* The scopes a run knows, as long as nobody reset the variables since it began.
Loaded(r) ==
  /\ began[r] <= resets
  /\ pc[r] = "idle" => known[r] = {}
  /\ began[r] = resets =>
       /\ \A k \in known[r] : stored[k] # Missing
       /\ pc[r] \in {"load", "insert", "reload"} =>
            \A i \in DOMAIN Declared[r] : i < at[r] => Declared[r][i] \in known[r]
       /\ pc[r] \in {"again", "ready", "operate", "write"} =>
            \A i \in DOMAIN Declared[r] : Declared[r][i] \in known[r]

RunInv(r) == at[r] \in DOMAIN Declared[r] /\ Underway(r) /\ Loaded(r)

IInv == Shapes /\ DbInv /\ \A r \in Runs : RunInv(r)

-----------------------------------------------------------------------------
LEMMA DeclaredRows ==
  ASSUME NEW r \in Runs
  PROVE  /\ 1 \in DOMAIN Declared[r]
         /\ DOMAIN Declared[r] = 1 .. Len(Declared[r]) /\ Len(Declared[r]) \in Nat
         /\ \A i \in DOMAIN Declared[r] : i \in Nat /\ Declared[r][i] \in Rows
  BY VariablesAssumption DEF VariablesAssumption

\* What an operation makes of a value is a value, or the operation fails.
LEMMA AppliedValue ==
  ASSUME NEW r \in Runs, NEW o \in Operations, NEW found \in Values \cup {Missing}
  PROVE  Applied(r, o, found) \in Values \cup {Fails}
<1>1. MaxValue \in Nat /\ Default[r] \in Values
  BY VariablesAssumption DEF VariablesAssumption
<1>2. CASE o = "set"  BY <1>1, <1>2 DEF Applied, Values
<1>3. CASE o = "increment"  BY <1>1, <1>3 DEF Applied, Values, Missing, Fails
<1>4. CASE o = "remove"  BY <1>1, <1>4 DEF Applied, Values, Fails
<1>5. CASE o = "clear"  BY <1>1, <1>5 DEF Applied, Values
<1>6. CASE o = "reset"  BY <1>1, <1>6 DEF Applied, Values
<1> QED BY <1>2, <1>3, <1>4, <1>5, <1>6 DEF Operations

LEMMA InitIInv == Init => IInv
<1> SUFFICES ASSUME Init PROVE IInv
  OBVIOUS
<1> USE DEF Init
<1>1. Shapes
  <2>1. 0 \in 0 .. MaxVersion /\ 0 \in 0 .. MaxAttempts
    BY VariablesAssumption DEF VariablesAssumption
  <2> QED BY <2>1 DEF Shapes, Places, Starting, Over
<1>2. DbInv
  <2>1. 0 \in 0 .. MaxVersion /\ 0 \in 0 .. MaxResets
    BY VariablesAssumption DEF VariablesAssumption
  <2> QED BY <2>1 DEF DbInv
<1>3. ASSUME NEW r \in Runs PROVE RunInv(r)
  BY DeclaredRows DEF RunInv, Underway, Loaded, Operating
<1> QED BY <1>1, <1>2, <1>3 DEF IInv

-----------------------------------------------------------------------------
(* A run the step of another one leaves alone.                             *)

LeftAlone(q) ==
  /\ pc'[q] = pc[q] /\ at'[q] = at[q] /\ op'[q] = op[q]
  /\ base'[q] = base[q] /\ expected'[q] = expected[q] /\ attempts'[q] = attempts[q]
  /\ known'[q] = known[q] /\ began'[q] = began[q] /\ since'[q] = since[q]
  /\ resets' = resets

NothingStored(q) == stored' = stored /\ version' = version /\ overtaken'[q] = overtaken[q]

RowStored(q, k, v) ==
  /\ stored'  = [stored EXCEPT ![k] = v]
  /\ version' = [version EXCEPT ![k] = @ + 1]
  /\ overtaken'[q] = IF Operating(q) /\ Row(q) = k THEN overtaken[q] + 1 ELSE overtaken[q]

LEMMA KeptWhenNothingStored ==
  ASSUME NEW q \in Runs, RunInv(q), LeftAlone(q), NothingStored(q)
  PROVE  RunInv(q)'
<1> USE DEF LeftAlone, NothingStored
<1>1. (at[q] \in DOMAIN Declared[q])'
  BY DEF RunInv
<1>2. Row(q)' = Row(q) /\ Operating(q)' = Operating(q)
  BY DEF Row, Operating
<1>3. WritePending(q) => WritePending(q)'
  BY <1>2 DEF WritePending, SameRow, IsStored
<1>4. Underway(q)'
  BY <1>2, <1>3 DEF RunInv, Underway
<1>5. Loaded(q)'
  BY DEF RunInv, Loaded
<1> QED BY <1>1, <1>4, <1>5 DEF RunInv

LEMMA KeptWhenRowStored ==
  ASSUME Shapes, DbInv, NEW q \in Runs, RunInv(q), LeftAlone(q),
         NEW k \in Rows, NEW v \in Values, RowStored(q, k, v)
  PROVE  RunInv(q)'
<1> USE DEF LeftAlone, RowStored
<1>1. (at[q] \in DOMAIN Declared[q])'
  BY DEF RunInv
<1>2. Row(q)' = Row(q) /\ Operating(q)' = Operating(q) /\ Row(q) \in Rows
  BY DeclaredRows DEF RunInv, Row, Operating
<1>3. /\ overtaken[q] \in Nat /\ attempts[q] \in Nat /\ expected[q] \in Nat
      /\ \A j \in Rows : version[j] \in Nat
      /\ v # Missing
  BY DEF Shapes, DbInv, Values, Missing
<1>4. ASSUME WritePending(q), pc[q] = "write" PROVE WritePending(q)'
  <2>1. attempts[q] <= overtaken[q] /\ Operating(q)
    BY <1>4 DEF RunInv, Underway, Operating
  <2>2. CASE Row(q) # k
    <3>1. stored'[Row(q)] = stored[Row(q)] /\ version'[Row(q)] = version[Row(q)]
      BY <1>2, <2>2 DEF DbInv
    <3> QED BY <1>2, <1>4, <3>1, <2>2 DEF WritePending, SameRow, IsStored
  <2>3. CASE Row(q) = k
    <3>1. version'[Row(q)] = version[Row(q)] + 1 /\ overtaken'[q] = overtaken[q] + 1
      BY <1>2, <2>1, <2>3 DEF DbInv
    <3>2. attempts'[q] < overtaken'[q]
      BY <2>1, <1>3, <3>1
    <3> QED BY <1>2, <1>3, <1>4, <3>1, <3>2 DEF WritePending
  <2> QED BY <2>2, <2>3
<1>5. Underway(q)'
  <2>1. overtaken'[q] \in Nat /\ overtaken'[q] >= overtaken[q]
    BY <1>3
  <2>2. attempts[q] <= overtaken[q] => attempts[q] <= overtaken'[q]
    BY <2>1, <1>3
  <2>3. MaxAttempts \in Nat /\ (overtaken[q] >= MaxAttempts => overtaken'[q] >= MaxAttempts)
    BY <2>1, <1>3, VariablesAssumption DEF VariablesAssumption
  <2> QED BY <1>2, <1>4, <2>2, <2>3 DEF RunInv, Underway
<1>6. Loaded(q)'
  <2>1. \A j \in known[q] : stored[j] # Missing => stored'[j] # Missing
    BY <1>3 DEF DbInv, Shapes
  <2> QED BY <2>1 DEF RunInv, Loaded
<1> QED BY <1>1, <1>5, <1>6 DEF RunInv

LEMMA EnoughForOne ==
  ASSUME IInv, NEW r \in Runs, Shapes', DbInv', RunInv(r)',
         \A q \in Runs \ {r} :
           LeftAlone(q) /\ (NothingStored(q) \/ \E k \in Rows, v \in Values : RowStored(q, k, v))
  PROVE  IInv'
<1>1. ASSUME NEW q \in Runs, q # r PROVE RunInv(q)'
  <2>1. RunInv(q) /\ LeftAlone(q)
    BY <1>1 DEF IInv
  <2>2. CASE NothingStored(q)
    BY <2>1, <2>2, KeptWhenNothingStored
  <2>3. CASE \E k \in Rows, v \in Values : RowStored(q, k, v)
    BY <2>1, <2>3, KeptWhenRowStored DEF IInv
  <2> QED BY <1>1, <2>2, <2>3
<1>2. \A q \in Runs : RunInv(q)'
  BY <1>1
<1> QED BY <1>2 DEF IInv

-----------------------------------------------------------------------------
(* What the parts of the actions do.                                       *)

LEMMA GoesEffect ==
  ASSUME Shapes, NEW r \in Runs, NEW place \in Places, Goes(r, place)
  PROVE  pc' \in [Runs -> Places] /\ pc'[r] = place /\ \A q \in Runs \ {r} : pc'[q] = pc[q]
BY DEF Shapes, Goes

LEMMA KeepsEffect ==
  ASSUME Shapes, NEW r \in Runs, NEW k \in Rows, NEW value \in Values \cup {Missing},
         Keeps(r, k, value)
  PROVE  /\ copy' \in [Runs -> [Rows -> Values \cup {Missing}]] /\ copy'[r][k] = value
         /\ known' \in [Runs -> SUBSET Rows]
         /\ known'[r] = IF value = Missing THEN known[r] \ {k} ELSE known[r] \cup {k}
         /\ \A q \in Runs \ {r} : known'[q] = known[q]
<1>1. copy[r] \in [Rows -> Values \cup {Missing}] /\ known[r] \in SUBSET Rows
  BY DEF Shapes
<1>2. copy' = [copy EXCEPT ![r] = [copy[r] EXCEPT ![k] = value]]
  BY DEF Keeps
<1>3. [copy[r] EXCEPT ![k] = value] \in [Rows -> Values \cup {Missing}]
  BY <1>1
<1>4. copy' \in [Runs -> [Rows -> Values \cup {Missing}]] /\ copy'[r][k] = value
  BY <1>1, <1>2, <1>3 DEF Shapes
<1> QED BY <1>1, <1>4 DEF Shapes, Keeps

LEMMA ForgetsEffect ==
  ASSUME Shapes, NEW r \in Runs, Forgets(r)
  PROVE  /\ at' \in [Runs -> Nat] /\ op' \in [Runs -> Operations \cup {NoOperation}]
         /\ base' \in [Runs -> Values \cup {Missing}]
         /\ expected' \in [Runs -> 0 .. MaxVersion] /\ attempts' \in [Runs -> 0 .. MaxAttempts]
         /\ since' \in [Runs -> Nat]
         /\ at'[r] \in DOMAIN Declared[r]
         /\ \A q \in Runs \ {r} :
              /\ at'[q] = at[q] /\ op'[q] = op[q] /\ base'[q] = base[q]
              /\ expected'[q] = expected[q] /\ attempts'[q] = attempts[q] /\ since'[q] = since[q]
<1>1. 0 \in 0 .. MaxVersion /\ 0 \in 0 .. MaxAttempts
  BY VariablesAssumption DEF VariablesAssumption
<1> QED BY <1>1, DeclaredRows DEF Shapes, Forgets

LEMMA NextDeclarationEffect ==
  ASSUME Shapes, NEW r \in Runs, RunInv(r), NEW this \in Places, NEW then \in Places,
         NextDeclaration(r, this, then)
  PROVE  /\ pc' \in [Runs -> Places] /\ at' \in [Runs -> Nat]
         /\ at'[r] \in DOMAIN Declared[r]
         /\ \/ pc'[r] = this /\ at'[r] = at[r] + 1
            \/ pc'[r] = then /\ \A i \in DOMAIN Declared[r] : i < at[r] + 1
         /\ \A q \in Runs \ {r} : pc'[q] = pc[q] /\ at'[q] = at[q]
<1> DEFINE last == Len(Declared[r])
<1>1. at[r] \in 1 .. last /\ DOMAIN Declared[r] = 1 .. last /\ last \in Nat
  BY DeclaredRows DEF RunInv
<1>2. pc \in [Runs -> Places] /\ at \in [Runs -> Nat]
  BY DEF Shapes
<1> HIDE DEF last
<1>3. CASE at[r] < last
  <2>1. pc' = [pc EXCEPT ![r] = this] /\ at' = [at EXCEPT ![r] = at[r] + 1]
    BY <1>3 DEF NextDeclaration, Goes, last
  <2>2. at[r] + 1 \in 1 .. last /\ at[r] + 1 \in Nat
    BY <1>1, <1>3
  <2> QED BY <1>1, <1>2, <2>1, <2>2
<1>4. CASE ~(at[r] < last)
  <2>1. pc' = [pc EXCEPT ![r] = then] /\ at' = [at EXCEPT ![r] = 1]
    BY <1>4 DEF NextDeclaration, Goes, last
  <2>2. 1 \in 1 .. last /\ \A i \in 1 .. last : i < at[r] + 1
    BY <1>1, <1>4
  <2> QED BY <1>1, <1>2, <2>1, <2>2
<1> QED BY <1>3, <1>4

LEMMA InsertEffect ==
  ASSUME Shapes, DbInv, NEW r \in Runs, NEW k \in Rows, NEW v \in Values,
         ~IsStored(k), Insert(r, k, v)
  PROVE  /\ stored' \in [Rows -> Values \cup {Missing}] /\ version' \in [Rows -> 0 .. MaxVersion]
         /\ \A j \in Rows : version'[j] = 0 <=> stored'[j] = Missing
         /\ stored'[k] = v /\ v # Missing
         /\ overtaken' \in [Runs -> Nat]
         /\ \A q \in Runs \ {r} : RowStored(q, k, v)
         /\ overtaken'[r] = overtaken[r]
<1>1. version[k] = 0 /\ v # Missing /\ 1 \in 0 .. MaxVersion
  BY VariablesAssumption DEF DbInv, IsStored, Values, Missing, VariablesAssumption
<1>2. version' = [version EXCEPT ![k] = @ + 1]
  BY <1>1 DEF Insert, DbInv
<1>3. overtaken' \in [Runs -> Nat] /\ overtaken'[r] = overtaken[r]
  BY DEF Insert, Overtakes, Shapes
<1> QED BY <1>1, <1>2, <1>3 DEF Insert, Overtakes, RowStored, DbInv

LEMMA UpdateEffect ==
  ASSUME Shapes, DbInv, NEW r \in Runs, NEW k \in Rows, NEW v \in Values,
         IsStored(k), version[k] < MaxVersion, Update(r, k, v)
  PROVE  /\ stored' \in [Rows -> Values \cup {Missing}] /\ version' \in [Rows -> 0 .. MaxVersion]
         /\ \A j \in Rows : version'[j] = 0 <=> stored'[j] = Missing
         /\ stored'[k] = v /\ v # Missing
         /\ overtaken' \in [Runs -> Nat]
         /\ \A q \in Runs \ {r} : RowStored(q, k, v)
         /\ overtaken'[r] = overtaken[r]
<1>1. v # Missing /\ version[k] + 1 \in 0 .. MaxVersion /\ version[k] + 1 # 0
  BY VariablesAssumption DEF DbInv, Values, Missing, VariablesAssumption
<1>2. overtaken' \in [Runs -> Nat] /\ overtaken'[r] = overtaken[r]
  BY DEF Update, Overtakes, Shapes
<1> QED BY <1>1, <1>2 DEF Update, Overtakes, RowStored, DbInv

-----------------------------------------------------------------------------
(* The invariant holds after every action.                                 *)

\* A step that stores nothing touches at most its run.
LEMMA StoresNothing ==
  ASSUME IInv, NEW r \in Runs, Shapes', RunInv(r)',
         UNCHANGED <<stored, version, resets>>,
         \A q \in Runs \ {r} : LeftAlone(q) /\ overtaken'[q] = overtaken[q]
  PROVE  IInv'
<1>1. DbInv'
  BY DEF IInv, DbInv
<1>2. \A q \in Runs \ {r} : NothingStored(q)
  BY DEF NothingStored
<1> QED BY <1>1, <1>2, EnoughForOne

LEMMA BeginIInv ==
  ASSUME IInv, NEW r \in Runs, Begin(r)
  PROVE  IInv'
<1> USE DEF Begin, db, mine
<1>1. Shapes /\ RunInv(r) /\ resets \in Nat
  BY VariablesAssumption DEF IInv, DbInv, VariablesAssumption
<1>2. "load" \in Places
  BY DEF Places, Starting
<1>3. pc' \in [Runs -> Places] /\ pc'[r] = "load" /\ \A q \in Runs \ {r} : pc'[q] = pc[q]
  BY <1>1, <1>2, GoesEffect
<1>4. Shapes'
  BY <1>1, <1>3 DEF Shapes
<1>5. RunInv(r)'
  <2>1. at'[r] = 1 /\ began'[r] = resets /\ known'[r] = {}
    BY <1>1 DEF Shapes, RunInv, Loaded
  <2> QED BY <1>1, <1>3, <2>1, DeclaredRows DEF RunInv, Underway, Loaded, Operating
<1>6. \A q \in Runs \ {r} : LeftAlone(q) /\ overtaken'[q] = overtaken[q]
  BY <1>1, <1>3 DEF LeftAlone, Shapes
<1> QED BY <1>4, <1>5, <1>6, StoresNothing

\* A run takes what is stored, when it loads a declaration or loads it again.
LEMMA TakesTheStored ==
  ASSUME IInv, NEW r \in Runs, pc[r] \in {"load", "reload"}, IsStored(Row(r)),
         Keeps(r, Row(r), stored[Row(r)]), NextDeclaration(r, "load", "again"),
         UNCHANGED <<db, op, base, expected, attempts, performed, resets, history>>
  PROVE  IInv'
<1> USE DEF db, history
<1>1. Shapes /\ DbInv /\ RunInv(r) /\ Row(r) \in Rows
  BY DeclaredRows DEF IInv, RunInv, Row
<1>2. "load" \in Places /\ "again" \in Places /\ stored[Row(r)] \in Values \cup {Missing}
  BY <1>1 DEF Places, Starting, DbInv
<1>3. /\ copy' \in [Runs -> [Rows -> Values \cup {Missing}]] /\ known' \in [Runs -> SUBSET Rows]
      /\ known'[r] = known[r] \cup {Row(r)}
      /\ \A q \in Runs \ {r} : known'[q] = known[q]
  <2> DEFINE k == Row(r)
             found == stored[k]
  <2>1. k \in Rows /\ found \in Values \cup {Missing} /\ found # Missing /\ Keeps(r, k, found)
    BY <1>1, <1>2 DEF IsStored
  <2> HIDE DEF k, found
  <2>2. /\ copy' \in [Runs -> [Rows -> Values \cup {Missing}]] /\ copy'[r][k] = found
        /\ known' \in [Runs -> SUBSET Rows]
        /\ known'[r] = IF found = Missing THEN known[r] \ {k} ELSE known[r] \cup {k}
        /\ \A q \in Runs \ {r} : known'[q] = known[q]
    BY <1>1, <2>1, KeepsEffect, Zenon
  <2> QED BY <2>1, <2>2 DEF k
<1>4. /\ pc' \in [Runs -> Places] /\ at' \in [Runs -> Nat] /\ at'[r] \in DOMAIN Declared[r]
      /\ \/ pc'[r] = "load" /\ at'[r] = at[r] + 1
         \/ pc'[r] = "again" /\ \A i \in DOMAIN Declared[r] : i < at[r] + 1
      /\ \A q \in Runs \ {r} : pc'[q] = pc[q] /\ at'[q] = at[q]
  BY <1>1, <1>2, NextDeclarationEffect
<1>5. Shapes'
  BY <1>1, <1>3, <1>4 DEF Shapes
<1>6. Loaded(r)'
  <2>1. \A i \in DOMAIN Declared[r] : i < at[r] + 1 => i < at[r] \/ Declared[r][i] = Row(r)
    <3>1. at[r] \in Nat /\ \A i \in DOMAIN Declared[r] : i \in Nat
      BY <1>1, DeclaredRows DEF RunInv
    <3>2. \A i \in DOMAIN Declared[r] : i < at[r] + 1 => i < at[r] \/ i = at[r]
      BY <3>1
    <3> QED BY <3>2 DEF Row
  <2> QED BY <1>1, <1>3, <1>4, <2>1 DEF RunInv, Loaded, IsStored
<1>7. RunInv(r)'
  BY <1>4, <1>6 DEF RunInv, Underway, Operating
<1>8. \A q \in Runs \ {r} : LeftAlone(q) /\ overtaken'[q] = overtaken[q]
  BY <1>3, <1>4 DEF LeftAlone
<1> QED BY <1>5, <1>7, <1>8, StoresNothing

\* A run moves on and leaves everything but its place alone.
LEMMA OnlyMoves ==
  ASSUME IInv, NEW r \in Runs, NEW place \in Places, Goes(r, place),
         UNCHANGED <<db, work, mine, performed, resets, history>>,
         place \notin {"idle", "write", "gave up"},
         place = "operate" => Operating(r),
         pc[r] = place \/ <<pc[r], place>> \in {<<"load", "insert">>, <<"insert", "reload">>}
           \/ place \in {"failed", "done"}
  PROVE  IInv'
<1> USE DEF db, work, mine, history
<1>1. Shapes /\ RunInv(r)
  BY DEF IInv
<1>2. pc' \in [Runs -> Places] /\ pc'[r] = place /\ \A q \in Runs \ {r} : pc'[q] = pc[q]
  BY <1>1, GoesEffect
<1>3. Shapes'
  BY <1>1, <1>2 DEF Shapes
<1>4. RunInv(r)'
  BY <1>1, <1>2 DEF RunInv, Underway, Loaded, Operating
<1>5. \A q \in Runs \ {r} : LeftAlone(q) /\ overtaken'[q] = overtaken[q]
  BY <1>2 DEF LeftAlone
<1> QED BY <1>3, <1>4, <1>5, StoresNothing

LEMMA LoadDeclaredIInv ==
  ASSUME IInv, NEW r \in Runs, LoadDeclared(r)
  PROVE  IInv'
<1>1. CASE IsStored(Row(r))
  BY <1>1, TakesTheStored DEF LoadDeclared
<1>2. CASE ~IsStored(Row(r))
  <2>1. Goes(r, "insert") /\ UNCHANGED <<db, work, mine, performed, resets, history>>
    BY <1>2 DEF LoadDeclared, work
  <2> QED BY <2>1, OnlyMoves DEF LoadDeclared, Places, Starting
<1> QED BY <1>1, <1>2

LEMMA InsertDefaultIInv ==
  ASSUME IInv, NEW r \in Runs, InsertDefault(r)
  PROVE  IInv'
<1> USE DEF InsertDefault
<1>1. Shapes /\ DbInv /\ RunInv(r) /\ Row(r) \in Rows /\ Default[r] \in Values
  BY DeclaredRows, VariablesAssumption DEF IInv, RunInv, Row, VariablesAssumption
<1>2. CASE ~IsStored(Row(r))
  <2> DEFINE k == Row(r)
  <2>1. /\ DbInv' /\ stored'[k] = Default[r] /\ Default[r] # Missing
        /\ overtaken' \in [Runs -> Nat]
        /\ \A q \in Runs \ {r} : RowStored(q, k, Default[r])
        /\ stored' = [stored EXCEPT ![k] = Default[r]]
    BY <1>1, <1>2, InsertEffect DEF DbInv, Insert
  <2>2. /\ copy' \in [Runs -> [Rows -> Values \cup {Missing}]] /\ known' \in [Runs -> SUBSET Rows]
        /\ known'[r] = known[r] \cup {k}
        /\ \A q \in Runs \ {r} : known'[q] = known[q]
    BY <1>1, <1>2, <2>1, KeepsEffect
  <2>3. /\ pc' \in [Runs -> Places] /\ at' \in [Runs -> Nat] /\ at'[r] \in DOMAIN Declared[r]
        /\ \/ pc'[r] = "load" /\ at'[r] = at[r] + 1
           \/ pc'[r] = "again" /\ \A i \in DOMAIN Declared[r] : i < at[r] + 1
        /\ \A q \in Runs \ {r} : pc'[q] = pc[q] /\ at'[q] = at[q]
    BY <1>1, <1>2, NextDeclarationEffect DEF Places, Starting
  <2>4. Shapes'
    BY <1>1, <2>1, <2>2, <2>3 DEF Shapes
  <2>5. \A j \in Rows : stored[j] # Missing \/ j = k => stored'[j] # Missing
    BY <1>1, <2>1 DEF DbInv
  <2>6. Loaded(r)'
    <3>1. \A i \in DOMAIN Declared[r] : i < at[r] + 1 => i < at[r] \/ Declared[r][i] = k
      <4>1. at[r] \in Nat /\ \A i \in DOMAIN Declared[r] : i \in Nat
        BY <1>1, DeclaredRows DEF RunInv
      <4>2. \A i \in DOMAIN Declared[r] : i < at[r] + 1 => i < at[r] \/ i = at[r]
        BY <4>1
      <4> QED BY <4>2 DEF Row
    <3>2. known[r] \subseteq Rows
      BY <1>1 DEF Shapes
    <3> HIDE DEF k
    <3> QED BY <1>1, <2>2, <2>3, <2>5, <3>1, <3>2 DEF RunInv, Loaded
  <2>7. RunInv(r)'
    BY <2>3, <2>6 DEF RunInv, Underway, Operating
  <2>8. \A q \in Runs \ {r} : LeftAlone(q)
    BY <2>2, <2>3 DEF LeftAlone
  <2> QED BY <1>1, <2>1, <2>4, <2>7, <2>8, EnoughForOne
<1>3. CASE IsStored(Row(r))
  <2>1. Goes(r, "reload") /\ UNCHANGED <<db, work, mine, performed, resets, history>>
    BY <1>3 DEF work, mine, history
  <2> QED BY <2>1, OnlyMoves DEF Places, Starting
<1> QED BY <1>2, <1>3

LEMMA ReloadIInv ==
  ASSUME IInv, NEW r \in Runs, Reload(r)
  PROVE  IInv'
<1>1. CASE IsStored(Row(r))
  BY <1>1, TakesTheStored DEF Reload
<1>2. CASE ~IsStored(Row(r))
  <2>1. Goes(r, "failed") /\ UNCHANGED <<db, work, mine, performed, resets, history>>
    BY <1>2 DEF Reload, work
  <2> QED BY <2>1, OnlyMoves DEF Places, Over
<1> QED BY <1>1, <1>2

LEMMA LoadAgainIInv ==
  ASSUME IInv, NEW r \in Runs, LoadAgain(r)
  PROVE  IInv'
<1> USE DEF LoadAgain, db, history
<1>1. Shapes /\ DbInv /\ RunInv(r) /\ Row(r) \in Rows
  BY DeclaredRows DEF IInv, RunInv, Row
<1>2. "again" \in Places /\ "ready" \in Places /\ stored[Row(r)] \in Values \cup {Missing}
  BY <1>1 DEF Places, Starting, DbInv
<1>3. /\ copy' \in [Runs -> [Rows -> Values \cup {Missing}]] /\ known' \in [Runs -> SUBSET Rows]
      /\ \/ known'[r] = known[r]
         \/ IsStored(Row(r)) /\ known'[r] = known[r] \cup {Row(r)}
      /\ \A q \in Runs \ {r} : known'[q] = known[q]
  <2>1. CASE IsStored(Row(r))
    BY <1>1, <1>2, <2>1, KeepsEffect DEF IsStored
  <2>2. CASE ~IsStored(Row(r))
    BY <1>1, <2>2 DEF mine, Shapes
  <2> QED BY <2>1, <2>2
<1>4. /\ pc' \in [Runs -> Places] /\ at' \in [Runs -> Nat] /\ at'[r] \in DOMAIN Declared[r]
      /\ pc'[r] \in {"again", "ready"}
      /\ \A q \in Runs \ {r} : pc'[q] = pc[q] /\ at'[q] = at[q]
  BY <1>1, <1>2, NextDeclarationEffect
<1>5. Shapes'
  BY <1>1, <1>3, <1>4 DEF Shapes
<1>6. RunInv(r)'
  BY <1>1, <1>3, <1>4 DEF RunInv, Underway, Loaded, Operating, IsStored
<1>7. \A q \in Runs \ {r} : LeftAlone(q) /\ overtaken'[q] = overtaken[q]
  BY <1>3, <1>4 DEF LeftAlone
<1> QED BY <1>5, <1>6, <1>7, StoresNothing

LEMMA ChooseIInv ==
  ASSUME IInv, NEW r \in Runs, NEW o \in Operations, NEW i \in DOMAIN Declared[r], Choose(r, o, i)
  PROVE  IInv'
<1> USE DEF Choose, db, mine
<1>1. Shapes /\ RunInv(r) /\ i \in Nat
  BY DeclaredRows DEF IInv
<1>2. pc' \in [Runs -> Places] /\ pc'[r] = "operate" /\ \A q \in Runs \ {r} : pc'[q] = pc[q]
  BY <1>1, GoesEffect DEF Places
<1>3. MaxAttempts \in Nat \ {0} /\ 0 \in 0 .. MaxAttempts
  BY VariablesAssumption DEF VariablesAssumption
<1>4. Shapes'
  BY <1>1, <1>2, <1>3 DEF Shapes
<1>5. at'[r] = i /\ op'[r] = o /\ attempts'[r] = 0 /\ overtaken'[r] = 0
  BY <1>1 DEF Shapes
<1>6. Underway(r)'
  BY <1>2, <1>3, <1>5 DEF Underway
<1>7. Loaded(r)'
  BY <1>1, <1>2 DEF RunInv, Loaded
<1>8. \A q \in Runs \ {r} : LeftAlone(q) /\ overtaken'[q] = overtaken[q]
  BY <1>1, <1>2 DEF LeftAlone, Shapes
<1> QED BY <1>4, <1>5, <1>6, <1>7, <1>8, StoresNothing DEF RunInv

\* An operation ends without storing anything.
LEMMA GoesBack ==
  ASSUME IInv, NEW r \in Runs, NEW place \in {"ready", "failed", "gave up"},
         Goes(r, place), Forgets(r),
         copy' \in [Runs -> [Rows -> Values \cup {Missing}]], known' \in [Runs -> SUBSET Rows],
         \A q \in Runs \ {r} : known'[q] = known[q],
         \/ known'[r] = known[r]
         \/ \E k \in Rows : IsStored(k) /\ known'[r] = known[r] \cup {k}
         \/ began[r] # resets,
         place = "ready" => pc[r] \in {"ready", "operate", "write"},
         pc[r] # "idle", place = "gave up" => overtaken[r] >= MaxAttempts,
         UNCHANGED <<db, performed, resets, began, overtaken>>
  PROVE  IInv'
<1> USE DEF db
<1>1. Shapes /\ RunInv(r)
  BY DEF IInv
<1>2. /\ pc' \in [Runs -> Places] /\ pc'[r] = place /\ \A q \in Runs \ {r} : pc'[q] = pc[q]
  BY <1>1, GoesEffect DEF Places, Over
<1>3. Shapes'
  BY <1>1, <1>2, ForgetsEffect DEF Shapes
<1>4. at'[r] \in DOMAIN Declared[r]
  BY <1>1, ForgetsEffect
<1>5. Underway(r)'
  BY <1>2 DEF Underway, Operating
<1>6. Loaded(r)'
  <2>1. Loaded(r) /\ stored' = stored /\ resets' = resets /\ began' = began
    BY <1>1 DEF RunInv
  <2>2. pc'[r] \in {"ready", "failed", "gave up"}
    BY <1>2
  <2>3. began[r] = resets => \A k \in known'[r] : stored[k] # Missing
    BY <2>1 DEF Loaded, IsStored
  <2>4. began[r] = resets /\ pc'[r] = "ready" => \A i \in DOMAIN Declared[r] : Declared[r][i] \in known'[r]
    <3>1. began[r] = resets => known[r] \subseteq known'[r]
      OBVIOUS
    <3>2. began[r] = resets /\ pc'[r] = "ready" => \A i \in DOMAIN Declared[r] : Declared[r][i] \in known[r]
      BY <1>2, <2>1 DEF Loaded
    <3> QED BY <3>1, <3>2
  <2> QED BY <2>1, <2>2, <2>3, <2>4 DEF Loaded
<1>7. \A q \in Runs \ {r} : LeftAlone(q) /\ overtaken'[q] = overtaken[q]
  BY <1>1, <1>2, ForgetsEffect DEF LeftAlone
<1> QED BY <1>3, <1>4, <1>5, <1>6, <1>7, StoresNothing DEF RunInv

\* What a run knows after it read a row: that row too, when it is stored.
LEMMA KnowsWhatItRead ==
  ASSUME IInv, NEW r \in Runs, NEW i \in DOMAIN Declared[r],
         pc[r] \in {"ready", "operate"}, Keeps(r, Declared[r][i], stored[Declared[r][i]])
  PROVE  /\ copy' \in [Runs -> [Rows -> Values \cup {Missing}]] /\ known' \in [Runs -> SUBSET Rows]
         /\ \A q \in Runs \ {r} : known'[q] = known[q]
         /\ \/ known'[r] = known[r]
            \/ \E k \in Rows : IsStored(k) /\ known'[r] = known[r] \cup {k}
            \/ began[r] # resets
<1>1. Shapes /\ RunInv(r) /\ Declared[r][i] \in Rows
      /\ stored[Declared[r][i]] \in Values \cup {Missing}
  BY DeclaredRows DEF IInv, DbInv
<1>2. began[r] = resets => Declared[r][i] \in known[r] /\ stored[Declared[r][i]] # Missing
  BY <1>1 DEF RunInv, Loaded
<1> DEFINE k == Declared[r][i]
<1>3. /\ copy' \in [Runs -> [Rows -> Values \cup {Missing}]] /\ known' \in [Runs -> SUBSET Rows]
      /\ known'[r] = IF stored[k] = Missing THEN known[r] \ {k} ELSE known[r] \cup {k}
      /\ \A q \in Runs \ {r} : known'[q] = known[q]
  <2> DEFINE found == stored[k]
  <2>1. k \in Rows /\ found \in Values \cup {Missing} /\ Keeps(r, k, found)
    BY <1>1
  <2> HIDE DEF k, found
  <2>2. /\ copy' \in [Runs -> [Rows -> Values \cup {Missing}]] /\ copy'[r][k] = found
        /\ known' \in [Runs -> SUBSET Rows]
        /\ known'[r] = IF found = Missing THEN known[r] \ {k} ELSE known[r] \cup {k}
        /\ \A q \in Runs \ {r} : known'[q] = known[q]
    BY <1>1, <2>1, KeepsEffect, Zenon
  <2> QED BY <2>2 DEF found
<1>4. CASE stored[k] = Missing
  BY <1>2, <1>3, <1>4
<1>5. CASE stored[k] # Missing
  BY <1>1, <1>3, <1>5 DEF IsStored
<1> QED BY <1>3, <1>4, <1>5

LEMMA ReadIInv ==
  ASSUME IInv, NEW r \in Runs, Read(r)
  PROVE  IInv'
<1> USE DEF Read, db
<1>1. Shapes /\ DbInv /\ RunInv(r) /\ Row(r) \in Rows /\ at[r] \in DOMAIN Declared[r]
  BY DeclaredRows DEF IInv, RunInv, Row
<1>2. /\ copy' \in [Runs -> [Rows -> Values \cup {Missing}]] /\ known' \in [Runs -> SUBSET Rows]
      /\ \A q \in Runs \ {r} : known'[q] = known[q]
      /\ \/ known'[r] = known[r]
         \/ \E k \in Rows : IsStored(k) /\ known'[r] = known[r] \cup {k}
         \/ began[r] # resets
  BY <1>1, KnowsWhatItRead DEF Row
<1>3. CASE Applied(r, op[r], stored[Row(r)]) = Fails
  <2>1. Goes(r, "ready") /\ Forgets(r) /\ UNCHANGED <<db, performed, resets, began, overtaken>>
    BY <1>3
  <2> QED BY <1>2, <2>1, GoesBack
<1>4. CASE Applied(r, op[r], stored[Row(r)]) # Fails
  <2>1. /\ pc' \in [Runs -> Places] /\ pc'[r] = "write" /\ \A q \in Runs \ {r} : pc'[q] = pc[q]
    BY <1>1, <1>4, GoesEffect DEF Places
  <2>2. /\ op[r] \in Operations /\ stored[Row(r)] \in Values \cup {Missing}
        /\ version[Row(r)] \in 0 .. MaxVersion /\ resets \in Nat
    <3>1. op[r] \in Operations
      BY <1>1 DEF RunInv, Underway, Operating
    <3>2. stored[Row(r)] \in Values \cup {Missing} /\ version[Row(r)] \in 0 .. MaxVersion
      BY <1>1 DEF DbInv
    <3>3. resets \in Nat
      BY <1>1, VariablesAssumption DEF DbInv, VariablesAssumption
    <3> QED BY <3>1, <3>2, <3>3
  <2>3. Shapes'
    BY <1>1, <1>2, <1>4, <2>1, <2>2 DEF Shapes
  <2>4. /\ base'[r] = stored[Row(r)] /\ expected'[r] = version[Row(r)] /\ since'[r] = resets
        /\ at' = at /\ op' = op /\ attempts' = attempts /\ Row(r)' = Row(r)
    BY <1>1, <1>4 DEF Shapes, Row
  <2>5. Applied(r, op[r], stored[Row(r)]) \in Values
    BY <1>4, <2>2, AppliedValue
  <2>6. WritePending(r)'
    <3>1. SameRow(r, Row(r))'
      BY <1>1, <2>4 DEF SameRow, IsStored, DbInv
    <3> QED BY <1>1, <2>2, <2>4, <2>5, <3>1 DEF WritePending, DbInv
  <2>7. Underway(r)'
    BY <1>1, <2>1, <2>4, <2>6 DEF RunInv, Underway, Operating
  <2>8. Loaded(r)'
    BY <1>1, <1>2, <2>1 DEF RunInv, Loaded, IsStored
  <2>9. \A q \in Runs \ {r} : LeftAlone(q) /\ overtaken'[q] = overtaken[q]
    BY <1>1, <1>2, <1>4, <2>1 DEF LeftAlone, Shapes
  <2>10. RunInv(r)'
    BY <1>1, <2>4, <2>7, <2>8 DEF RunInv
  <2> QED BY <2>3, <2>9, <2>10, StoresNothing
<1> QED BY <1>3, <1>4

\* What the row is like that an operation may replace, and what it stores.
LEMMA WriteEffect ==
  ASSUME IInv, NEW r \in Runs, Write(r), SameRow(r, Row(r))
  PROVE  /\ DbInv' /\ overtaken' \in [Runs -> Nat]
         /\ stored'[Row(r)] = Applied(r, op[r], base[r])
         /\ \A q \in Runs \ {r} : RowStored(q, Row(r), Applied(r, op[r], base[r]))
         /\ \A j \in Rows : stored[j] # Missing \/ j = Row(r) => stored'[j] # Missing
<1> USE DEF Write
<1> DEFINE k == Row(r)
           v == Applied(r, op[r], base[r])
<1>1. Shapes /\ DbInv /\ RunInv(r) /\ k \in Rows
  BY DeclaredRows DEF IInv, RunInv, Row
<1>2. v \in Values /\ v # Missing
  BY <1>1 DEF RunInv, Underway, WritePending, Values, Missing
<1>3. resets' = resets
  OBVIOUS
<1>4. CASE expected[r] = 0
  <2>1. ~IsStored(k) /\ Insert(r, k, v)
    BY <1>4 DEF SameRow
  <2> HIDE DEF v, k
  <2>2. stored' = [stored EXCEPT ![k] = v]
    BY <2>1 DEF Insert
  <2>3. \A j \in Rows : stored[j] # Missing \/ j = k => stored'[j] # Missing
    BY <1>1, <1>2, <2>2 DEF DbInv
  <2>4. QED BY <1>1, <1>2, <1>3, <2>1, <2>3, InsertEffect DEF DbInv, k, v
<1>5. CASE expected[r] # 0
  <2>1. IsStored(k) /\ version[k] < MaxVersion /\ Update(r, k, v)
    BY <1>5 DEF SameRow
  <2> HIDE DEF v, k
  <2>2. stored' = [stored EXCEPT ![k] = v]
    BY <2>1 DEF Update
  <2>3. \A j \in Rows : stored[j] # Missing \/ j = k => stored'[j] # Missing
    BY <1>1, <1>2, <2>2 DEF DbInv
  <2>4. QED BY <1>1, <1>2, <1>3, <2>1, <2>3, UpdateEffect DEF DbInv, k, v
<1> QED BY <1>4, <1>5

LEMMA WriteIInv ==
  ASSUME IInv, NEW r \in Runs, Write(r)
  PROVE  IInv'
<1> DEFINE k == Row(r)
           v == Applied(r, op[r], base[r])
<1>1. Shapes /\ DbInv /\ RunInv(r) /\ k \in Rows /\ pc[r] = "write" /\ WritePending(r)
  BY DeclaredRows DEF IInv, RunInv, Row, Underway, Write
<1>2. v \in Values /\ v # Missing /\ v \in Values \cup {Missing}
  BY <1>1 DEF WritePending, Values, Missing
<1>3. CASE SameRow(r, k)
  <2>1. Keeps(r, k, v) /\ Goes(r, "ready") /\ Forgets(r)
        /\ UNCHANGED <<performed, resets, began>>
    BY <1>3 DEF Write
  <2>2. /\ DbInv' /\ overtaken' \in [Runs -> Nat]
        /\ \A q \in Runs \ {r} : RowStored(q, k, v)
        /\ \A j \in Rows : stored[j] # Missing \/ j = k => stored'[j] # Missing
    BY <1>3, WriteEffect
  <2> HIDE DEF k, v
  <2>3. /\ copy' \in [Runs -> [Rows -> Values \cup {Missing}]] /\ known' \in [Runs -> SUBSET Rows]
        /\ known'[r] = known[r] \cup {k}
        /\ \A q \in Runs \ {r} : known'[q] = known[q]
    BY <1>1, <1>2, <2>1, KeepsEffect
  <2>4. pc' \in [Runs -> Places] /\ pc'[r] = "ready" /\ \A q \in Runs \ {r} : pc'[q] = pc[q]
    BY <1>1, <2>1, GoesEffect DEF Places
  <2>5. Shapes'
    BY <1>1, <2>1, <2>2, <2>3, <2>4, ForgetsEffect DEF Shapes
  <2>6. Loaded(r)'
    <3>1. known[r] \subseteq Rows
      BY <1>1 DEF Shapes
    <3> QED BY <1>1, <2>1, <2>2, <2>3, <2>4, <3>1 DEF RunInv, Loaded
  <2>7. RunInv(r)'
    BY <1>1, <2>1, <2>4, <2>6, ForgetsEffect DEF RunInv, Underway, Operating
  <2>8. \A q \in Runs \ {r} : LeftAlone(q)
    BY <1>1, <2>1, <2>3, <2>4, ForgetsEffect DEF LeftAlone
  <2> QED BY <1>1, <1>2, <2>2, <2>5, <2>7, <2>8, EnoughForOne
<1>4. CASE ~SameRow(r, k) /\ GiveUp(r)
  <2>1. /\ Goes(r, "gave up") /\ Forgets(r) /\ UNCHANGED <<db, mine, overtaken>>
        /\ UNCHANGED <<performed, resets, began>>
    BY <1>4 DEF Write
  <2>2. attempts[r] < overtaken[r] /\ attempts[r] + 1 = MaxAttempts
    BY <1>1, <1>4 DEF WritePending, GiveUp
  <2>3. overtaken[r] >= MaxAttempts
    BY <1>1, <2>2 DEF Shapes
  <2>4. /\ copy' \in [Runs -> [Rows -> Values \cup {Missing}]] /\ known' \in [Runs -> SUBSET Rows]
        /\ known' = known
    BY <1>1, <2>1 DEF Shapes, mine
  <2> QED BY <1>1, <2>1, <2>3, <2>4, GoesBack
<1>5. CASE ~SameRow(r, k) /\ ~GiveUp(r)
  <2>1. /\ Goes(r, "operate") /\ attempts' = [attempts EXCEPT ![r] = @ + 1]
        /\ UNCHANGED <<at, op, base, expected, since, stored, version, copy, known, overtaken>>
        /\ UNCHANGED <<performed, resets, began>>
    BY <1>5 DEF Write, db, mine
  <2>2. pc' \in [Runs -> Places] /\ pc'[r] = "operate" /\ \A q \in Runs \ {r} : pc'[q] = pc[q]
    BY <1>1, <2>1, GoesEffect DEF Places
  <2>3. /\ attempts[r] \in Nat /\ overtaken[r] \in Nat /\ MaxAttempts \in Nat
        /\ attempts[r] < overtaken[r] /\ attempts[r] < MaxAttempts
        /\ attempts[r] + 1 # MaxAttempts
    BY <1>1, <1>5, VariablesAssumption
       DEF WritePending, GiveUp, RunInv, Underway, Operating, Shapes, VariablesAssumption
  <2>4. attempts'[r] = attempts[r] + 1 /\ attempts'[r] \in 0 .. MaxAttempts
        /\ attempts'[r] < MaxAttempts /\ attempts'[r] <= overtaken[r]
    <3>1. attempts'[r] = attempts[r] + 1
      BY <1>1, <2>1 DEF Shapes
    <3>2. attempts[r] + 1 < MaxAttempts /\ attempts[r] + 1 <= overtaken[r]
      BY <2>3
    <3>3. attempts[r] + 1 \in 0 .. MaxAttempts
      BY <2>3
    <3> QED BY <3>1, <3>2, <3>3
  <2>5. Shapes'
    BY <1>1, <2>1, <2>2, <2>4 DEF Shapes
  <2>6. RunInv(r)'
    <3>1. Underway(r)'
      BY <1>1, <2>1, <2>2, <2>4 DEF RunInv, Underway, Operating
    <3>2. Loaded(r)'
      BY <1>1, <2>1, <2>2 DEF RunInv, Loaded
    <3> QED BY <1>1, <2>1, <3>1, <3>2 DEF RunInv
  <2>7. \A q \in Runs \ {r} : LeftAlone(q) /\ overtaken'[q] = overtaken[q]
    BY <1>1, <2>1, <2>2 DEF LeftAlone, Shapes
  <2>8. UNCHANGED <<stored, version, resets>>
    BY <2>1
  <2> QED BY <2>5, <2>6, <2>7, <2>8, StoresNothing
<1> QED BY <1>3, <1>4, <1>5

LEMMA ConditionIInv ==
  ASSUME IInv, NEW r \in Runs, NEW i \in DOMAIN Declared[r], Condition(r, i)
  PROVE  IInv'
<1> USE DEF Condition, db, work, history
<1>1. Shapes /\ RunInv(r)
  BY DEF IInv
<1>2. /\ copy' \in [Runs -> [Rows -> Values \cup {Missing}]] /\ known' \in [Runs -> SUBSET Rows]
      /\ \A q \in Runs \ {r} : known'[q] = known[q]
      /\ \/ known'[r] = known[r]
         \/ \E k \in Rows : IsStored(k) /\ known'[r] = known[r] \cup {k}
         \/ began[r] # resets
  <2>1. CASE Declared[r][i] \in known[r]
    BY <2>1, KnowsWhatItRead DEF Refreshed
  <2>2. CASE Declared[r][i] \notin known[r]
    BY <1>1, <2>2 DEF Shapes, mine
  <2> QED BY <2>1, <2>2
<1>3. Shapes'
  BY <1>1, <1>2 DEF Shapes
<1>4. RunInv(r)'
  BY <1>1, <1>2 DEF RunInv, Underway, Loaded, Operating, IsStored
<1>5. \A q \in Runs \ {r} : LeftAlone(q) /\ overtaken'[q] = overtaken[q]
  BY <1>2 DEF LeftAlone
<1> QED BY <1>3, <1>4, <1>5, StoresNothing

\* A stopped run, and one that met the last version, are over.
LEMMA LeavesIInv ==
  ASSUME IInv, NEW r \in Runs, VersionExhausted(r) \/ Stopped(r)
  PROVE  IInv'
<1>1. /\ Goes(r, "failed") /\ Forgets(r) /\ UNCHANGED <<db, mine, performed, resets, began, overtaken>>
      /\ pc[r] # "idle"
  BY DEF VersionExhausted, Stopped
<1>2. /\ copy' \in [Runs -> [Rows -> Values \cup {Missing}]] /\ known' \in [Runs -> SUBSET Rows]
      /\ known' = known
  BY <1>1 DEF IInv, Shapes, mine
<1> QED BY <1>1, <1>2, GoesBack

LEMMA EndIInv ==
  ASSUME IInv, NEW r \in Runs, End(r)
  PROVE  IInv'
BY OnlyMoves DEF End, Places, Over

\* After a reset nothing is stored, and no run began or read since.
LEMMA ResetIInv == IInv /\ ResetStoredVariables => IInv'
<1> SUFFICES ASSUME IInv, ResetStoredVariables PROVE IInv'
  OBVIOUS
<1> USE DEF ResetStoredVariables, work, mine
<1>1. Shapes /\ DbInv /\ resets \in Nat /\ resets' = resets + 1
      /\ resets' \in 0 .. MaxResets /\ MaxVersion \in Nat
  BY VariablesAssumption DEF IInv, DbInv, VariablesAssumption
<1>2. overtaken' \in [Runs -> Nat]
  BY <1>1 DEF Shapes
<1>3. Shapes'
  BY <1>1, <1>2 DEF Shapes
<1>4. DbInv'
  BY <1>1 DEF DbInv
<1>5. ASSUME NEW q \in Runs PROVE RunInv(q)'
  <2>1. RunInv(q) /\ at[q] \in DOMAIN Declared[q] /\ Row(q) \in Rows
    BY DeclaredRows DEF IInv, RunInv, Row
  <2>2. Row(q)' = Row(q) /\ Operating(q)' = Operating(q)
    BY DEF Row, Operating
  <2>3. /\ overtaken[q] \in Nat /\ attempts[q] \in Nat /\ since[q] \in Nat /\ began[q] \in Nat
        /\ overtaken'[q] = IF Operating(q) /\ IsStored(Row(q)) THEN overtaken[q] + 1
                           ELSE overtaken[q]
    BY <1>1 DEF Shapes
  <2>4. ASSUME WritePending(q), pc[q] = "write" PROVE WritePending(q)'
    <3>1. Operating(q) /\ attempts[q] <= overtaken[q]
      BY <2>1, <2>4 DEF RunInv, Underway, Operating
    <3>2. ~SameRow(q, Row(q))' => attempts[q] < overtaken'[q]
      <4>1. stored'[Row(q)] = Missing
        BY <2>1
      <4>2. CASE IsStored(Row(q))
        BY <2>3, <3>1, <4>2
      <4>3. CASE ~IsStored(Row(q)) /\ expected[q] # 0
        BY <2>3, <2>4, <3>1, <4>3 DEF WritePending, SameRow
      <4>4. CASE expected[q] = 0
        BY <2>2, <4>1, <4>4 DEF SameRow, IsStored
      <4> QED BY <4>2, <4>3, <4>4
    <3>3. since[q] <= resets' /\ since[q] # resets'
      BY <1>1, <2>3, <2>4 DEF WritePending
    <3> QED BY <2>2, <2>4, <3>2, <3>3 DEF WritePending
  <2>5. Underway(q)'
    <3>1. overtaken'[q] \in Nat /\ overtaken'[q] >= overtaken[q]
      BY <2>3
    <3>2. attempts[q] <= overtaken[q] => attempts[q] <= overtaken'[q]
      BY <3>1, <2>3
    <3>3. overtaken[q] >= MaxAttempts => overtaken'[q] >= MaxAttempts
      BY <3>1, <2>3, VariablesAssumption DEF VariablesAssumption
    <3> QED BY <2>1, <2>2, <2>4, <3>2, <3>3 DEF RunInv, Underway
  <2>6. Loaded(q)'
    <3>1. began[q] <= resets
      BY <2>1 DEF RunInv, Loaded
    <3>2. began'[q] <= resets' /\ began'[q] # resets'
      BY <1>1, <2>3, <3>1
    <3> QED BY <2>1, <3>2 DEF RunInv, Loaded
  <2> QED BY <2>1, <2>5, <2>6 DEF RunInv
<1> QED BY <1>3, <1>4, <1>5 DEF IInv

LEMMA StutterIInv == IInv /\ UNCHANGED vars => IInv'
<1> SUFFICES ASSUME IInv, UNCHANGED vars PROVE IInv'
  OBVIOUS
<1> USE DEF vars, db, work, mine, history
<1>1. Shapes' /\ DbInv'
  BY DEF IInv, Shapes, DbInv
<1>2. ASSUME NEW q \in Runs PROVE RunInv(q)'
  BY KeptWhenNothingStored DEF IInv, LeftAlone, NothingStored
<1> QED BY <1>1, <1>2 DEF IInv

LEMMA NextIInv == IInv /\ [Next]_vars => IInv'
<1> SUFFICES ASSUME IInv, [Next]_vars PROVE IInv'
  OBVIOUS
<1>1. ASSUME NEW r \in Runs, RunStep(r) PROVE IInv'
  <2>1. CASE Begin(r)  BY <2>1, BeginIInv
  <2>2. CASE LoadDeclared(r)  BY <2>2, LoadDeclaredIInv
  <2>3. CASE InsertDefault(r)  BY <2>3, InsertDefaultIInv
  <2>4. CASE Reload(r)  BY <2>4, ReloadIInv
  <2>5. CASE LoadAgain(r)  BY <2>5, LoadAgainIInv
  <2>6. CASE \E o \in Operations, i \in DOMAIN Declared[r] : Choose(r, o, i)
    BY <2>6, ChooseIInv
  <2>7. CASE Read(r)  BY <2>7, ReadIInv
  <2>8. CASE Write(r)  BY <2>8, WriteIInv
  <2>9. CASE VersionExhausted(r) \/ Stopped(r)  BY <2>9, LeavesIInv
  <2>10. CASE \E i \in DOMAIN Declared[r] : Condition(r, i)  BY <2>10, ConditionIInv
  <2>11. CASE End(r)  BY <2>11, EndIInv
  <2> QED BY <1>1, <2>1, <2>2, <2>3, <2>4, <2>5, <2>6, <2>7, <2>8, <2>9, <2>10, <2>11 DEF RunStep
<1>2. CASE ResetStoredVariables  BY <1>2, ResetIInv
<1>3. CASE UNCHANGED vars  BY <1>3, StutterIInv
<1> QED BY <1>1, <1>2, <1>3 DEF Next, Finished

\* The invariant holds throughout.
THEOREM Inductive == Spec => []IInv
BY InitIInv, NextIInv, PTL DEF Spec

-----------------------------------------------------------------------------
LEMMA IInvTypeOK == IInv => TypeOK
<1> SUFFICES ASSUME IInv PROVE TypeOK
  OBVIOUS
<1>1. Shapes /\ DbInv /\ \A r \in Runs : at[r] \in DOMAIN Declared[r]
  BY DEF IInv, RunInv
<1> QED BY <1>1 DEF TypeOK, Shapes, Places, DbInv

\* The rows and their versions stay what they are: a row that is there has a
\* value within the safe integers and a version of at least one (TypeOK).
THEOREM Typed == Spec => []TypeOK
BY Inductive, IInvTypeOK, PTL

\* An operation gives up only after others changed its variable as often as it
\* tried (execute_stored_variable_operation).
THEOREM GivingUp == Spec => []GivesUpOnlyWhenOvertaken
<1>1. IInv => GivesUpOnlyWhenOvertaken
  BY DEF IInv, RunInv, Underway, GivesUpOnlyWhenOvertaken
<1> QED BY <1>1, Inductive, PTL

LEMMA WritesWhatItCalculated ==
  ASSUME IInv, [Next]_vars, NEW r \in Runs,
         pc[r] = "write", pc'[r] = "ready", since[r] = resets
  PROVE  stored'[Row(r)] = Applied(r, op[r], stored[Row(r)])
<1>1. Shapes /\ DbInv /\ RunInv(r) /\ Row(r) \in Rows /\ WritePending(r)
  BY DeclaredRows DEF IInv, RunInv, Row, Underway
<1>2. ASSUME NEW q \in Runs, RunStep(q) PROVE q = r
  <2> SUFFICES ASSUME q # r PROVE pc'[r] = pc[r]
    OBVIOUS
  <2>1. UNCHANGED pc \/ \E place : pc' = [pc EXCEPT ![q] = place]
    <3>1. ASSUME NEW this, NEW then, NextDeclaration(q, this, then)
          PROVE  \E place : pc' = [pc EXCEPT ![q] = place]
      BY <3>1 DEF NextDeclaration, Goes
    <3> QED BY <1>2, <3>1 DEF RunStep, Begin, LoadDeclared, InsertDefault, Reload, LoadAgain, Choose,
         Read, Write, VersionExhausted, Condition, Stopped, End, Goes
  <2> QED BY <1>1, <2>1 DEF Shapes
<1>3. ~ResetStoredVariables /\ ~UNCHANGED vars
  BY DEF ResetStoredVariables, vars
<1>4. RunStep(r)
  BY <1>2, <1>3 DEF Next, Finished
<1>5. Write(r)
  <2>1. ~VersionExhausted(r)
    BY <1>1 DEF VersionExhausted, Goes, Shapes
  <2> QED BY <1>4, <2>1 DEF RunStep, Begin, LoadDeclared, InsertDefault, Reload, LoadAgain,
         Choose, Read, Condition, Stopped, End
<1>6. SameRow(r, Row(r))
  BY <1>1, <1>5 DEF Write, Goes, Shapes
<1>7. stored'[Row(r)] = Applied(r, op[r], base[r])
  BY <1>5, <1>6, WriteEffect
<1>8. base[r] = stored[Row(r)]
  BY <1>1, <1>6 DEF WritePending, SameRow, IsStored, DbInv
<1> QED BY <1>7, <1>8

\* What a run writes is its operation on the value the row has at that moment:
\* no update another run made between its read and its write is lost.
THEOREM Atomic == Spec => NoUpdateIsLost
<1>1. IInv /\ [Next]_vars =>
        [\A r \in Runs : pc[r] = "write" /\ pc'[r] = "ready" /\ since[r] = resets =>
           stored'[Row(r)] = Applied(r, op[r], stored[Row(r)])]_vars
  BY WritesWhatItCalculated
<1> QED BY <1>1, Inductive, PTL DEF Spec, NoUpdateIsLost

LEMMA ConditionReadsTheRow ==
  ASSUME IInv, NEW r \in Runs, NEW i \in DOMAIN Declared[r],
         Condition(r, i), began[r] = resets
  PROVE  SeesTheStore(r, i)
<1>1. Shapes /\ DbInv /\ RunInv(r) /\ Declared[r][i] \in Rows
  BY DeclaredRows DEF IInv
<1>2. Declared[r][i] \in known[r]
  BY <1>1 DEF RunInv, Loaded, Condition
<1>3. Keeps(r, Declared[r][i], stored[Declared[r][i]])
  BY <1>2 DEF Condition, Refreshed
<1>4. stored[Declared[r][i]] \in Values \cup {Missing}
  BY <1>1 DEF DbInv
<1> DEFINE k == Declared[r][i]
<1> HIDE DEF k
<1>5. Shapes /\ k \in Rows /\ stored[k] \in Values \cup {Missing} /\ Keeps(r, k, stored[k])
  BY <1>1, <1>3, <1>4 DEF k
<1>6. copy \in [Runs -> [Rows -> Values \cup {Missing}]]
  BY <1>5 DEF Shapes
<1>7. copy' = [copy EXCEPT ![r][k] = stored[k]]
  BY <1>5 DEF Keeps
<1>8. copy'[r][k] = stored[k]
  BY <1>5, <1>6, <1>7
<1> QED BY <1>8 DEF SeesTheStore, k

\* A condition is decided by what is stored at that moment, whoever stored it,
\* as long as nobody reset the variables since the run began.
THEOREM Fresh == Spec => ConditionsSeeTheStore
<1>1. IInv /\ [Next]_vars =>
        [\A r \in Runs : \A i \in DOMAIN Declared[r] :
           Condition(r, i) /\ began[r] = resets => SeesTheStore(r, i)]_vars
  BY ConditionReadsTheRow
<1> QED BY <1>1, Inductive, PTL DEF Spec, ConditionsSeeTheStore
=============================================================================
