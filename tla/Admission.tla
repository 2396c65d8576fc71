------------------------------ MODULE Admission ------------------------------
(***************************************************************************)
(* What the execution queue promises, without saying how                   *)
(* (crates/baudbound-core/src/execution_queue.rs).                         *)
(*                                                                         *)
(* Each script has one line.  An activation joins its tail, may leave from *)
(* any place, and gets a permit only at its head, when the policy in force *)
(* has room.  Whoever has a permit gives it back.  ExecutionQueue is shown *)
(* to implement this, and InstalledRuns is built on it.                    *)
(***************************************************************************)
EXTENDS Naturals, Sequences, FiniteSets

CONSTANTS
  Scripts,
  Activations,
  Policies,      \* the admission policies an operator may configure
  NoScript,
  Unlimited      \* ResourceLimit::Unlimited

VARIABLES
  policy,        \* the policy in force
  line,          \* who waits for each script, in order
  holds          \* the script an activation has a permit for, or NoScript

admissionVars == <<policy, line, holds>>

Allows(limit, n) == limit # Unlimited => n <= limit

Holders == {a \in Activations : holds[a] # NoScript}
HoldersOf(s) == {a \in Activations : holds[a] = s}
InLine(a, s) == \E i \in DOMAIN line[s] : line[s][i] = a
IsOutside(a) == holds[a] = NoScript /\ \A s \in Scripts : ~InLine(a, s)

HasRoom(s) ==
  /\ Allows(policy.max_active_runs_global, Cardinality(Holders) + 1)
  /\ Allows(policy.max_active_runs_per_script, Cardinality(HoldersOf(s)) + 1)

IsLong(s) == ~Allows(policy.max_queued_activations_per_script, Len(line[s]) + 1)

\* The line a newcomer joins: under drop_oldest a full one loses its head.
MadeRoom(s) == IF IsLong(s) THEN Tail(line[s]) ELSE line[s]

\* A newcomer would stand at the head of the line, with room for it.
IsNext(s) == MadeRoom(s) = <<>> /\ HasRoom(s)

MayJoin(s) == IsLong(s) => policy.queue_overflow_strategy = "DropOldest"

-----------------------------------------------------------------------------

InitAdmission ==
  /\ policy \in Policies
  /\ line = [s \in Scripts |-> <<>>]
  /\ holds = [a \in Activations |-> NoScript]

JoinLine(a, s) ==
  /\ IsOutside(a)
  /\ MayJoin(s)
  /\ line' = [line EXCEPT ![s] = Append(MadeRoom(s), a)]
  /\ UNCHANGED <<policy, holds>>

GoStraightIn(a, s) ==
  /\ IsOutside(a)
  /\ MayJoin(s)
  /\ IsNext(s)
  /\ line' = [line EXCEPT ![s] = <<>>]
  /\ holds' = [holds EXCEPT ![a] = s]
  /\ UNCHANGED policy

GoIn(a, s) ==
  /\ line[s] # <<>>
  /\ Head(line[s]) = a
  /\ HasRoom(s)
  /\ line' = [line EXCEPT ![s] = Tail(line[s])]
  /\ holds' = [holds EXCEPT ![a] = s]
  /\ UNCHANGED policy

\* Whoever stands at place i leaves: cancelled, restricted or dropped.
LeaveLine(i, s) ==
  /\ i \in DOMAIN line[s]
  /\ line' = [line EXCEPT ![s] =
       [j \in 1 .. Len(line[s]) - 1 |-> IF j < i THEN line[s][j] ELSE line[s][j + 1]]]
  /\ UNCHANGED <<policy, holds>>

GiveBack(a) ==
  /\ holds[a] # NoScript
  /\ holds' = [holds EXCEPT ![a] = NoScript]
  /\ UNCHANGED <<policy, line>>

Reconfigure(p) ==
  /\ policy' = p
  /\ UNCHANGED <<line, holds>>

NextAdmission ==
  \/ \E a \in Activations, s \in Scripts : JoinLine(a, s)
  \/ \E a \in Activations, s \in Scripts : GoStraightIn(a, s)
  \/ \E a \in Activations, s \in Scripts : GoIn(a, s)
  \/ \E s \in Scripts : \E i \in DOMAIN line[s] : LeaveLine(i, s)
  \/ \E a \in Activations : GiveBack(a)
  \/ \E p \in Policies : Reconfigure(p)

SpecAdmission == InitAdmission /\ [][NextAdmission]_admissionVars

=============================================================================
