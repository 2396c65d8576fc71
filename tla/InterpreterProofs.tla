-------------------------- MODULE InterpreterProofs --------------------------
(* Theorems about Interpreter, for any programs and limits. *)
EXTENDS Interpreter, FiniteSetTheorems, SequenceTheorems, TLAPS

-----------------------------------------------------------------------------
(* A run its own clock ended.                                               *)

\* Who cancels the token has said so before: the clock by its flag.
TokenHasAnAuthor ==
  /\ clock = "exceeded" => exceeded
  /\ cancelled => stopped \/ exceeded
  /\ phase = "ending" /\ result = "cancelled" => cancelled
  /\ phase \in {"frames", "acting"} => result = "none"
  /\ phase = "ended" /\ result = "cancelled" => stopped

\* Whatever the run does itself leaves the token and the clock alone.
LEMMA RunKeepsAuthors ==
  ASSUME TokenHasAnAuthor, UNCHANGED host,
         phase' \in {"frames", "acting"} => result' = "none",
         phase' = "ending" /\ result' = "cancelled" => cancelled,
         phase' = "ended" /\ result' = "cancelled" => stopped
  PROVE  TokenHasAnAuthor'
BY DEF TokenHasAnAuthor, host

LEMMA StepKeepsAuthors ==
  ASSUME TokenHasAnAuthor, Step
  PROVE  TokenHasAnAuthor'
<1>1. CASE FrameCancelled
  BY <1>1, RunKeepsAuthors DEF FrameCancelled, Working, TokenSeen, Ends
<1>2. ASSUME UNCHANGED <<phase, result, host>> PROVE TokenHasAnAuthor'
  BY <1>2 DEF TokenHasAnAuthor, host
<1>3. ASSUME UNCHANGED host, NEW why \in {"steps", "loops", "failed"}, Ends(why)
      PROVE  TokenHasAnAuthor'
  BY <1>3, RunKeepsAuthors DEF Ends
<1>4. CASE FollowFrame \/ ExecuteBranch \/ ExecuteLoop \/ BreakLoop \/ ContinueLoop \/ ExecuteInternal
  BY <1>2, <1>4 DEF FollowFrame, ExecuteBranch, ExecuteLoop, BreakLoop, ContinueLoop, ExecuteInternal
<1>5. CASE OverStepBudget \/ ExecuteMalformed \/ ControlOutsideLoop \/ WhileMalformed
  BY <1>3, <1>5 DEF OverStepBudget, ExecuteMalformed, ControlOutsideLoop, WhileMalformed
<1>6. CASE ExecuteRouter
  BY <1>2, <1>3, <1>6 DEF ExecuteRouter
<1>7. ASSUME NEW next, LoopDone \/ Iterate(next) PROVE TokenHasAnAuthor'
  BY <1>2, <1>3, <1>7 DEF LoopDone, Iterate
<1>8. CASE CountedLoopFrame \/ WhileFrame
  BY <1>7, <1>8 DEF CountedLoopFrame, WhileFrame
<1>9. CASE ExecuteDelay \/ ExecuteAction
  BY <1>9, RunKeepsAuthors
     DEF ExecuteDelay, ExecuteAction, Executes, NodeFrame, Working, TokenHasAnAuthor
<1>10. ASSUME phase = "acting", NEW h, Returns(h), UNCHANGED host PROVE TokenHasAnAuthor'
  BY <1>10, RunKeepsAuthors DEF Returns, TokenHasAnAuthor
<1>11. ASSUME cancelled, Ends("cancelled"), UNCHANGED host PROVE TokenHasAnAuthor'
  BY <1>11, RunKeepsAuthors DEF Ends
<1>12. CASE ActionReturns \/ ActionFails \/ DelayEnds
  BY <1>3, <1>10, <1>11, <1>12 DEF ActionReturns, ActionFails, DelayEnds
<1>13. CASE Complete
  BY <1>13, RunKeepsAuthors DEF Complete
<1>14. CASE Report
  BY <1>14, RunKeepsAuthors DEF Report, CancellationError, TokenHasAnAuthor
<1> QED BY <1>1, <1>4, <1>5, <1>6, <1>8, <1>9, <1>12, <1>13, <1>14 DEF Step

(* A run its own clock ended is never reported as cancelled by somebody:    *)
(* the flag that tells the two apart is up before the token is.             *)
THEOREM ClockIsNotMistaken == Spec => []ClockIsNotAStop
<1>1. Init => TokenHasAnAuthor
  BY DEF Init, TokenHasAnAuthor
<1>2. TokenHasAnAuthor /\ [Next]_vars => TokenHasAnAuthor'
  <2> SUFFICES ASSUME TokenHasAnAuthor, [Next]_vars PROVE TokenHasAnAuthor'
    OBVIOUS
  <2>1. CASE Step
    BY <2>1, StepKeepsAuthors
  <2>2. CASE ClockExceeds
    BY <2>2 DEF ClockExceeds, TokenHasAnAuthor
  <2>3. CASE ClockCancels
    BY <2>3 DEF ClockCancels, TokenHasAnAuthor
  <2>4. CASE ClockDropped
    BY <2>4 DEF ClockDropped, TokenHasAnAuthor
  <2>5. CASE Stop
    BY <2>5 DEF Stop, TokenHasAnAuthor
  <2>6. CASE UNCHANGED vars
    BY <2>6 DEF vars, host, TokenHasAnAuthor
  <2> QED BY <2>1, <2>2, <2>3, <2>4, <2>5, <2>6 DEF Next, Ended
<1>3. TokenHasAnAuthor => ClockIsNotAStop
  BY DEF TokenHasAnAuthor, ClockIsNotAStop
<1> QED BY <1>1, <1>2, <1>3, PTL DEF Spec

-----------------------------------------------------------------------------
(* The budgets.                                                             *)

\* How many of these events are visits of a node.
VisitsIn(events) == Cardinality({i \in DOMAIN events : Len(events[i]) = 1})

LEMMA VisitsAreCounted ==
  ASSUME NEW S, NEW events \in Seq(S)
  PROVE  IsFiniteSet({i \in DOMAIN events : Len(events[i]) = 1}) /\ VisitsIn(events) \in Nat
<1> DEFINE counted == {i \in DOMAIN events : Len(events[i]) = 1}
<1>1. Len(events) \in Nat /\ counted \subseteq 1 .. Len(events)
  OBVIOUS
<1> HIDE DEF counted
<1>2. IsFiniteSet(1 .. Len(events))
  BY <1>1, FS_Interval
<1>3. IsFiniteSet(counted) /\ Cardinality(counted) \in Nat
  BY <1>1, <1>2, FS_Subset, FS_CardinalityType
<1> QED BY <1>3 DEF counted, VisitsIn

\* A visit adds one to the count of the executed nodes, an iteration does not.
LEMMA OneMoreEvent ==
  ASSUME NEW S, NEW events \in Seq(S), NEW e
  PROVE  /\ Append(events, e) \in Seq(S \cup {e})
         /\ Len(Append(events, e)) = Len(events) + 1
         /\ VisitsIn(Append(events, e)) = IF Len(e) = 1 THEN VisitsIn(events) + 1 ELSE VisitsIn(events)
<1> DEFINE longer == Append(events, e)
           old == {i \in DOMAIN events : Len(events[i]) = 1}
           new == {i \in DOMAIN longer : Len(longer[i]) = 1}
<1>1. events \in Seq(S \cup {e})
  BY SeqMonotonic
<1>2. /\ longer \in Seq(S \cup {e})
      /\ Len(events) \in Nat /\ DOMAIN events = 1 .. Len(events)
      /\ Len(longer) = Len(events) + 1 /\ DOMAIN longer = 1 .. Len(events) + 1
      /\ \A i \in 1 .. Len(events) : longer[i] = events[i]
      /\ longer[Len(events) + 1] = e
  BY <1>1
<1>3. Len(events) + 1 \notin old
  BY <1>2
<1>4. IsFiniteSet(old)
  BY VisitsAreCounted
<1>5. VisitsIn(events) = Cardinality(old) /\ VisitsIn(longer) = Cardinality(new)
  BY DEF VisitsIn
<1>6. CASE Len(e) = 1
  <2>1. new = old \cup {Len(events) + 1}
    <3> HIDE DEF longer
    <3> QED BY <1>2, <1>6
  <2> HIDE DEF old, new
  <2>2. Cardinality(new) = Cardinality(old) + 1
    BY <1>3, <1>4, <2>1, FS_AddElement
  <2> QED BY <1>2, <1>5, <1>6, <2>2
<1>7. CASE Len(e) # 1
  <2>1. new = old
    <3> HIDE DEF longer
    <3> QED BY <1>2, <1>7
  <2> QED BY <1>2, <1>5, <1>7, <2>1
<1> QED BY <1>6, <1>7

\* The counters are the history of the run, as far as they are kept at all.
StepsCounted ==
  program.maxSteps # Unlimited =>
    /\ steps <= program.maxSteps
    /\ result = "steps" => steps = program.maxSteps
    /\ program.recorded => steps = Executed

LoopsCounted ==
  program.maxLoops # Unlimited =>
    /\ iterations <= program.maxLoops
    /\ result = "loops" => iterations = program.maxLoops
    /\ program.recorded => iterations = Iterated

Accounts ==
  /\ program \in Programs
  /\ steps \in Nat /\ iterations \in Nat
  /\ \E S : trace \in Seq(S)
  /\ phase \in {"frames", "acting"} => result = "none"
  /\ StepsCounted
  /\ LoopsCounted

\* A step that counts nothing.
NothingCounted ==
  /\ UNCHANGED <<program, budget, trace>>
  /\ result' \notin {"steps", "loops"} \/ result' = result
  /\ phase' \in {"frames", "acting"} => result' = "none"

LEMMA CountsNothing ==
  ASSUME Accounts, NothingCounted
  PROVE  Accounts'
<1>1. UNCHANGED <<program, steps, iterations, trace>>
  BY DEF NothingCounted, budget
<1>2. Executed' = Executed /\ Iterated' = Iterated
  BY <1>1 DEF Executed, Iterated
<1>3. StepsCounted' /\ LoopsCounted'
  BY <1>1, <1>2 DEF NothingCounted, Accounts, StepsCounted, LoopsCounted
<1> QED BY <1>1, <1>3 DEF NothingCounted, Accounts

\* A budget that is spent ends the run.
LEMMA SpendsTheLast ==
  ASSUME Accounts, UNCHANGED <<program, budget, trace>>,
         \/ Ends("steps") /\ Exceeds(steps + 1, program.maxSteps)
         \/ Ends("loops") /\ Exceeds(iterations + 1, program.maxLoops)
  PROVE  Accounts'
<1>1. UNCHANGED <<program, steps, iterations, trace>>
  BY DEF budget
<1>2. Executed' = Executed /\ Iterated' = Iterated
  BY <1>1 DEF Executed, Iterated
<1>3. program.maxSteps # Unlimited => program.maxSteps \in Nat
  BY InterpreterAssumption DEF Accounts
<1>4. program.maxLoops # Unlimited => program.maxLoops \in Nat
  BY InterpreterAssumption DEF Accounts
<1>5. CASE Ends("steps") /\ Exceeds(steps + 1, program.maxSteps)
  <2>1. result' = "steps" /\ phase' = "ending"
    BY <1>5 DEF Ends
  <2>2. StepsCounted'
    BY <1>1, <1>2, <1>3, <1>5, <2>1 DEF Accounts, StepsCounted, Exceeds
  <2>3. LoopsCounted'
    BY <1>1, <1>2, <2>1 DEF Accounts, LoopsCounted
  <2> QED BY <1>1, <2>1, <2>2, <2>3 DEF Accounts
<1>6. CASE Ends("loops") /\ Exceeds(iterations + 1, program.maxLoops)
  <2>1. result' = "loops" /\ phase' = "ending"
    BY <1>6 DEF Ends
  <2>2. LoopsCounted'
    BY <1>1, <1>2, <1>4, <1>6, <2>1 DEF Accounts, LoopsCounted, Exceeds
  <2>3. StepsCounted'
    BY <1>1, <1>2, <2>1 DEF Accounts, StepsCounted
  <2> QED BY <1>1, <2>1, <2>2, <2>3 DEF Accounts
<1> QED BY <1>5, <1>6

LEMMA Visited ==
  ASSUME Accounts, NEW e, Visits(e), UNCHANGED program
  PROVE  /\ \E S : trace' \in Seq(S)
         /\ program.recorded => /\ Executed' = IF Len(e) = 1 THEN Executed + 1 ELSE Executed
                                /\ Iterated' = IF Len(e) = 1 THEN Iterated ELSE Iterated + 1
<1>1. PICK S : trace \in Seq(S)
  BY DEF Accounts
<1>2. CASE program.recorded
  <2>1. trace' = Append(trace, e)
    BY <1>2 DEF Visits
  <2>2. Executed = VisitsIn(trace) /\ Executed' = VisitsIn(trace')
    BY DEF Executed, VisitsIn
  <2>3. /\ trace' \in Seq(S \cup {e})
        /\ Len(trace') = Len(trace) + 1
        /\ Executed' = IF Len(e) = 1 THEN Executed + 1 ELSE Executed
    <3>1. VisitsIn(Append(trace, e)) = IF Len(e) = 1 THEN VisitsIn(trace) + 1 ELSE VisitsIn(trace)
      BY <1>1, OneMoreEvent
    <3>2. Append(trace, e) \in Seq(S \cup {e}) /\ Len(Append(trace, e)) = Len(trace) + 1
      BY <1>1, OneMoreEvent
    <3> QED BY <2>1, <2>2, <3>1, <3>2, Zenon
  <2>4. Len(trace) \in Nat /\ Executed \in Nat
    <3>1. Len(trace) \in Nat
      BY <1>1
    <3>2. VisitsIn(trace) \in Nat
      BY <1>1, VisitsAreCounted
    <3> QED BY <2>2, <3>1, <3>2
  <2>5. Iterated' = IF Len(e) = 1 THEN Iterated ELSE Iterated + 1
    BY <2>3, <2>4 DEF Iterated
  <2> QED BY <2>3, <2>5
<1>3. CASE ~program.recorded
  BY <1>1, <1>3 DEF Visits
<1> QED BY <1>2, <1>3

LEMMA ExecutesOne ==
  ASSUME Accounts, NEW kinds, Executes(kinds), UNCHANGED <<program, iterations>>,
         result' \in {"none", "failed"}, phase' \in {"frames", "acting"} => result' = "none"
  PROVE  Accounts'
<1>1. /\ result = "none"
      /\ ~Exceeds(steps + 1, program.maxSteps)
      /\ steps' = Counted(steps, program.maxSteps)
      /\ Visits(<<Top.node>>)
  BY DEF Executes, NodeFrame, Working, Accounts
<1>2. /\ \E S : trace' \in Seq(S)
      /\ program.recorded => Executed' = Executed + 1 /\ Iterated' = Iterated
  BY <1>1, Visited
<1>3. program.maxSteps # Unlimited => program.maxSteps \in Nat
  BY InterpreterAssumption DEF Accounts
<1>4. steps' \in Nat
  BY <1>1 DEF Accounts, Counted
<1>5. StepsCounted'
  BY <1>1, <1>2, <1>3 DEF Accounts, StepsCounted, Exceeds, Counted
<1>6. LoopsCounted'
  BY <1>2 DEF Accounts, LoopsCounted
<1> QED BY <1>2, <1>4, <1>5, <1>6 DEF Accounts

LEMMA IteratesOne ==
  ASSUME Accounts, Working, NEW next, Iterate(next)
  PROVE  Accounts'
<1>1. CASE Exceeds(iterations + 1, program.maxLoops)
  BY <1>1, SpendsTheLast DEF Iterate
<1>2. CASE ~Exceeds(iterations + 1, program.maxLoops)
  <2>1. /\ iterations' = Counted(iterations, program.maxLoops)
        /\ Visits(<<Top.node, "iteration">>)
        /\ UNCHANGED <<program, phase, result, steps>>
    BY <1>2 DEF Iterate
  <2>2. /\ \E S : trace' \in Seq(S)
        /\ program.recorded => Executed' = Executed /\ Iterated' = Iterated + 1
    <3> DEFINE e == <<Top.node, "iteration">>
    <3>1. Len(e) # 1
      OBVIOUS
    <3> HIDE DEF e
    <3>2. Visits(e)
      BY <2>1 DEF e
    <3> QED BY <2>1, <3>1, <3>2, Visited
  <2>3. program.maxLoops # Unlimited => program.maxLoops \in Nat
    BY InterpreterAssumption DEF Accounts
  <2>4. iterations' \in Nat /\ result = "none"
    BY <2>1 DEF Accounts, Counted, Working
  <2>5. LoopsCounted'
    BY <1>2, <2>1, <2>2, <2>3, <2>4 DEF Accounts, LoopsCounted, Exceeds, Counted
  <2>6. StepsCounted'
    BY <2>1, <2>2 DEF Accounts, StepsCounted
  <2> QED BY <2>1, <2>2, <2>4, <2>5, <2>6 DEF Accounts
<1> QED BY <1>1, <1>2

LEMMA StepKeepsAccounts ==
  ASSUME Accounts, Step
  PROVE  Accounts'
<1>1. ASSUME UNCHANGED <<program, budget, trace>>, NEW why \in {"cancelled", "failed"}, Ends(why)
      PROVE  Accounts'
  BY <1>1, CountsNothing DEF NothingCounted, Ends
<1>2. ASSUME UNCHANGED <<program, budget, trace, result>>, result = "none" PROVE Accounts'
  BY <1>2, CountsNothing DEF NothingCounted
<1>3. phase \in {"frames", "acting"} => result = "none"
  BY DEF Accounts
<1>4. CASE FrameCancelled \/ WhileMalformed
  BY <1>1, <1>4 DEF FrameCancelled, WhileMalformed, history
<1>5. CASE FollowFrame
  BY <1>2, <1>3, <1>5 DEF FollowFrame, Working, history
<1>6. CASE OverStepBudget
  BY <1>6, SpendsTheLast DEF OverStepBudget, history
<1>7. ASSUME NEW kinds, Executes(kinds), UNCHANGED <<program, iterations>>,
             UNCHANGED result \/ Ends("failed")
      PROVE  Accounts'
  <2>1. phase = "frames" /\ result = "none"
    BY <1>3, <1>7 DEF Executes, NodeFrame, Working
  <2> QED BY <1>7, <2>1, ExecutesOne DEF Ends
<1>8. CASE ExecuteBranch \/ ExecuteMalformed \/ ExecuteRouter \/ ExecuteLoop
  BY <1>7, <1>8 DEF ExecuteBranch, ExecuteMalformed, ExecuteRouter, ExecuteLoop
<1>9. CASE BreakLoop \/ ContinueLoop \/ ControlOutsideLoop
  BY <1>7, <1>9 DEF BreakLoop, ContinueLoop, ControlOutsideLoop, LoopControl
<1>10. CASE ExecuteInternal \/ ExecuteDelay \/ ExecuteAction
  BY <1>7, <1>10 DEF ExecuteInternal, ExecuteDelay, ExecuteAction
<1>11. ASSUME Working, LoopDone PROVE Accounts'
  BY <1>2, <1>3, <1>11 DEF LoopDone, Working
<1>12. CASE CountedLoopFrame \/ WhileFrame
  BY <1>11, <1>12, IteratesOne DEF CountedLoopFrame, WhileFrame, LoopFrame
<1>13. ASSUME phase = "acting", NEW h, Returns(h), UNCHANGED <<program, budget, trace>>
       PROVE  Accounts'
  BY <1>2, <1>3, <1>13 DEF Returns
<1>14. CASE ActionReturns \/ ActionFails \/ DelayEnds
  BY <1>1, <1>13, <1>14 DEF ActionReturns, ActionFails, DelayEnds
<1>15. CASE Complete
  BY <1>15, CountsNothing DEF Complete, NothingCounted, history
<1>16. CASE Report
  BY <1>16, CountsNothing DEF Report, CancellationError, NothingCounted, history
<1> QED BY <1>4, <1>5, <1>6, <1>8, <1>9, <1>10, <1>12, <1>14, <1>15, <1>16 DEF Step

(* Every executed node and every iteration is counted once: a run never     *)
(* does more than its policy grants, and gives up only when all is used.    *)
THEOREM BudgetsAreKept == Spec => []BudgetsAreExact
<1>1. Init => Accounts
  <2> SUFFICES ASSUME Init PROVE Accounts
    OBVIOUS
  <2>1. program \in Programs /\ steps = 0 /\ iterations = 0 /\ result = "none" /\ trace = <<>>
    BY DEF Init
  <2>2. trace \in Seq({})
    BY <2>1
  <2>3. Executed = 0 /\ Iterated = 0
    <3>1. {i \in DOMAIN trace : Len(trace[i]) = 1} = {} /\ Len(trace) = 0
      BY <2>1
    <3> QED BY <3>1, FS_EmptySet DEF Executed, Iterated
  <2>4. StepsCounted /\ LoopsCounted
    BY <2>1, <2>3, InterpreterAssumption DEF StepsCounted, LoopsCounted
  <2> QED BY <2>1, <2>2, <2>4 DEF Accounts
<1>2. Accounts /\ [Next]_vars => Accounts'
  <2> SUFFICES ASSUME Accounts, [Next]_vars PROVE Accounts'
    OBVIOUS
  <2>1. ASSUME UNCHANGED <<program, budget, trace, result, phase>> PROVE Accounts'
    BY <2>1, CountsNothing DEF NothingCounted, Accounts
  <2> QED BY <2>1, StepKeepsAccounts
          DEF Next, ClockExceeds, ClockCancels, ClockDropped, Stop, Ended, vars, history
<1>3. Accounts => BudgetsAreExact
  BY DEF Accounts, StepsCounted, LoopsCounted, BudgetsAreExact
<1> QED BY <1>1, <1>2, <1>3, PTL DEF Spec

=============================================================================
