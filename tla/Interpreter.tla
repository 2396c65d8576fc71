---------------------------- MODULE Interpreter ----------------------------
(***************************************************************************)
(* One run of a script program: the stack of frames the runtime works off  *)
(* (crates/baudbound-runtime/src/execution), its step and loop budgets,    *)
(* the clock that bounds its duration and the token that stops it.         *)
(*                                                                         *)
(* A program is a graph of nodes.  What a condition, a switch or an action *)
(* decides is data of the script, so every decision is a choice among the  *)
(* outputs the node has; the order in which nodes are visited is the       *)
(* control this module keeps.                                              *)
(***************************************************************************)
EXTENDS Naturals, Sequences, FiniteSets, SequencesExt

CONSTANTS Programs,      \* the programs a run may be given
          Unlimited      \* the value of a limit that is not configured

ASSUME InterpreterAssumption ==
  /\ Unlimited \notin Nat
  /\ \A p \in Programs : /\ p.maxSteps \in Nat \cup {Unlimited}
                         /\ p.maxLoops \in Nat \cup {Unlimited}

VARIABLES program,       \* the program and the policy of this run
          frames,        \* the stack, its top last
          phase,         \* "frames", "acting", "ending" or "ended"
          acting,        \* the node whose action runs, while phase = "acting"
          result,        \* how the run ends
          steps,         \* executed_steps
          iterations,    \* loop_iterations
          responded,     \* webhook_response_sent
          cancelled,     \* the run's cancellation token
          stopped,       \* somebody outside the run cancelled the token
          clock,         \* the thread of the wall-clock budget
          exceeded,      \* the flag that thread stores
          trace,         \* the nodes visited, in order (history)
          choices        \* the decisions taken, in order (history)

host    == <<cancelled, stopped, clock, exceeded>>
budget  == <<steps, iterations>>
history == <<trace, choices>>
vars == <<program, frames, phase, acting, result, budget, responded, host, history>>

NoNode   == "none"
NoHandle == "no handle"

-----------------------------------------------------------------------------
(* The graph of a program.                                                 *)

OutEdges(p, n, h) == {e \in p.edges : e.source = n /\ e.handle = h}

\* What from_program_value accepts: edges between nodes of the program, none
\* from a node to itself, and per output the execution orders 0, 1, 2, ...
ValidGraph(p) ==
  /\ \A e \in p.edges : /\ e.source # e.target
                        /\ {e.source, e.target} \subseteq DOMAIN p.kind
  /\ \A e \in p.edges :
       LET siblings == OutEdges(p, e.source, e.handle)
       IN  {f.order : f \in siblings} = 0 .. Cardinality(siblings) - 1

FollowTargets(n, h) ==
  LET out == OutEdges(program, n, h)
  IN  [i \in 1 .. Cardinality(out) |-> CHOOSE e \in out : e.order = i - 1]

HasEdge(n, h) == OutEdges(program, n, h) # {}

\* The output a node without a selected one leaves through, if it has any.
DefaultSuccessHandle(n) ==
  IF HasEdge(n, "success") THEN "success"
  ELSE IF HasEdge(n, "out") THEN "out" ELSE NoHandle

CountedLoops == {"repeat", "for_each"}
Loops        == CountedLoops \cup {"while"}
Actions      == {"action", "response"}
BodyHandle(n) == IF program.kind[n] = "repeat" THEN "repeat" ELSE "loop"

-----------------------------------------------------------------------------
(* Frames.                                                                 *)

\* The frames name a node to stop at as well.  It is the loop whose body starts,
\* only the body's first node is compared with it, and no edge leads from a
\* node to itself: it never decides anything and is left out.
Follow(n, h) == [tag |-> "follow", node |-> n, handle |-> h]
Node(n, h)   == [tag |-> "node", node |-> n, handle |-> h]
Loop(n, i)   == [tag |-> "loop", node |-> n, index |-> i]

Top  == Last(frames)
Rest == Front(frames)

Push(stack, more) == frames' = stack \o more

\* Several frames are pushed last first, so that the first is worked off first.
PushAsListed(stack, more) == Push(stack, more)
PushInOrder(stack, more) == Push(stack, Reverse(more))

LoopFrames == {i \in 1 .. Len(Rest) : Rest[i].tag = "loop"}

Visits(event) == trace' = IF program.recorded THEN Append(trace, event) ELSE trace
Decides(c) == choices' = IF program.recorded THEN Append(choices, c) ELSE choices

AtLimit(n, limit) == limit # Unlimited /\ n >= limit
Exceeds(n, limit) == limit # Unlimited /\ n > limit
Counted(n, limit) == IF limit = Unlimited THEN n ELSE n + 1

Ends(why) ==
  /\ phase' = "ending" /\ result' = why
  /\ frames' = <<>> /\ acting' = NoNode

-----------------------------------------------------------------------------
(* Working off the top frame.  Before every frame the token is read.       *)

Working   == phase = "frames" /\ frames # <<>>
NeverSeen == FALSE   
TokenSeen == cancelled

FrameCancelled ==
  /\ Working /\ TokenSeen
  /\ Ends("cancelled")
  /\ UNCHANGED <<program, budget, responded, host, history>>

FollowFrame ==
  /\ Working /\ ~TokenSeen
  /\ Top.tag = "follow"
  /\ LET targets == FollowTargets(Top.node, Top.handle)
     IN  PushInOrder(Rest, [i \in DOMAIN targets |->
                              Node(targets[i].target, targets[i].input)])
  /\ UNCHANGED <<program, phase, acting, result, budget, responded, host, history>>

NodeFrame == Working /\ ~TokenSeen /\ Top.tag = "node"

OverStepBudget ==
  /\ NodeFrame
  /\ Exceeds(steps + 1, program.maxSteps)
  /\ Ends("steps")
  /\ UNCHANGED <<program, budget, responded, host, history>>

\* The node on top is executed: its step is counted and it is visited.
Executes(kinds) ==
  /\ NodeFrame
  /\ ~ Exceeds(steps + 1, program.maxSteps)
  /\ program.kind[Top.node] \in kinds
  /\ steps' = Counted(steps, program.maxSteps)
  /\ Visits(<<Top.node>>)

Leaves(n, h) == Push(Rest, <<Follow(n, h)>>)

\* if, switch and color match: the value selects the output.
ExecuteBranch ==
  /\ Executes({"branch"})
  /\ \E h \in program.outputs[Top.node] :
       /\ Leaves(Top.node, h)
       /\ Decides(h)
  /\ UNCHANGED <<program, phase, acting, result, iterations, responded, host>>

\* A malformed condition, switch, count, list, cast or configuration ends the run.
ExecuteMalformed ==
  /\ Executes({"branch", "internal", "delay"} \cup CountedLoops)
  /\ program.malformed
  /\ Ends("failed")
  /\ UNCHANGED <<program, iterations, responded, host, choices>>

ExecuteRouter ==
  /\ Executes({"router"})
  /\ LET routes == program.routes[<<Top.node, Top.handle>>]
     IN  IF routes = <<>>
         THEN Ends("failed")
         ELSE /\ PushInOrder(Rest, [i \in DOMAIN routes |-> Follow(Top.node, routes[i])])
              /\ UNCHANGED <<phase, acting, result>>
  /\ UNCHANGED <<program, iterations, responded, host, choices>>

ExecuteLoop ==
  /\ Executes(Loops)
  /\ Push(Rest, <<Loop(Top.node, 0)>>)
  /\ UNCHANGED <<program, phase, acting, result, iterations, responded, host, choices>>

\* Break and continue act on the innermost loop of the stack.
LoopControl(kind) ==
  /\ Executes({kind})
  /\ LoopFrames # {}

InnermostLoop == CHOOSE i \in LoopFrames : \A j \in LoopFrames : j <= i

BreakLoop ==
  /\ LoopControl("break")
  /\ Push(SubSeq(Rest, 1, InnermostLoop - 1), <<Follow(Rest[InnermostLoop].node, "done")>>)
  /\ UNCHANGED <<program, phase, acting, result, iterations, responded, host, choices>>

ContinueLoop ==
  /\ LoopControl("continue")
  /\ frames' = SubSeq(Rest, 1, InnermostLoop)
  /\ UNCHANGED <<program, phase, acting, result, iterations, responded, host, choices>>

ControlOutsideLoop ==
  /\ Executes({"break", "continue"})
  /\ LoopFrames = {}
  /\ Ends("failed")
  /\ UNCHANGED <<program, iterations, responded, host, choices>>

-----------------------------------------------------------------------------
(* Loop frames.                                                            *)

LoopFrame(kinds) == Working /\ ~TokenSeen /\ Top.tag = "loop" /\ program.kind[Top.node] \in kinds

LoopDone ==
  /\ Leaves(Top.node, "done")
  /\ UNCHANGED <<program, phase, acting, result, budget, responded, host, trace>>

\* One more iteration: the loop frame goes back on the stack, advanced, and
\* the body on top of it.
Iterate(next) ==
  IF Exceeds(iterations + 1, program.maxLoops)
  THEN /\ Ends("loops")
       /\ UNCHANGED <<program, budget, responded, host, trace>>
  ELSE /\ iterations' = Counted(iterations, program.maxLoops)
       /\ Push(Rest, << Loop(Top.node, next),
                        Follow(Top.node, BodyHandle(Top.node)) >>)
       /\ Visits(<<Top.node, "iteration">>)
       /\ UNCHANGED <<program, phase, acting, result, steps, responded, host>>

CountedLoopFrame ==
  /\ LoopFrame(CountedLoops)
  /\ IF Top.index >= program.count[Top.node] THEN LoopDone ELSE Iterate(Top.index + 1)
  /\ UNCHANGED choices

\* The condition is evaluated before every iteration.
WhileFrame ==
  /\ LoopFrame({"while"})
  /\ \E holds \in BOOLEAN :
       /\ Decides(IF holds THEN "true" ELSE "false")
       /\ IF holds THEN Iterate(0) ELSE LoopDone

WhileMalformed ==
  /\ LoopFrame({"while"})
  /\ program.malformed
  /\ Ends("failed")
  /\ UNCHANGED <<program, budget, responded, host, history>>

-----------------------------------------------------------------------------
(* Actions.                                                                *)

\* A node that acts inside the run: log, variable operation, calculation.
Outcome(n, h) ==
  LET leave == IF h = NoHandle THEN DefaultSuccessHandle(n) ELSE h
  IN  frames' = IF leave = NoHandle THEN Rest ELSE Append(Rest, Follow(n, leave))

ExecuteInternal ==
  /\ Executes({"internal"})
  /\ \E h \in {NoHandle, "failed"} : Outcome(Top.node, h) /\ Decides(h)
  /\ UNCHANGED <<program, phase, acting, result, iterations, responded, host>>

\* A delay waits for its time or the token, whichever comes first.
ExecuteDelay ==
  /\ Executes({"delay"})
  /\ phase' = "acting" /\ acting' = Top.node
  /\ UNCHANGED <<program, frames, result, iterations, responded, host, choices>>

\* An action handled outside the interpreter starts after one more look at the
\* token; the response action also needs a request that still waits for it.
ExecuteAction ==
  /\ Executes(Actions)
  /\ IF program.kind[Top.node] = "response" /\ (responded \/ ~program.waiting)
     THEN /\ Outcome(Top.node, "failed")
          /\ Decides("failed")
          /\ UNCHANGED <<phase, acting>>
     ELSE /\ phase' = "acting" /\ acting' = Top.node
          /\ UNCHANGED <<frames, choices>>
  /\ UNCHANGED <<program, result, iterations, responded, host>>

Returns(h) ==
  /\ phase' = "frames" /\ acting' = NoNode
  /\ Outcome(acting, h)
  /\ Decides(h)
  /\ UNCHANGED result

ActionReturns ==
  /\ phase = "acting" /\ program.kind[acting] \in Actions
  /\ IF cancelled
     THEN /\ Ends("cancelled")
          /\ UNCHANGED <<responded, choices>>
     ELSE /\ \E h \in program.outputs[acting] : Returns(h)
          /\ responded' = (responded \/ program.kind[acting] = "response")
  /\ UNCHANGED <<program, budget, host, trace>>

\* The action fails in a way the script may handle, or gives up because the
\* token is cancelled, or fails for good.
ActionFails ==
  /\ phase = "acting" /\ program.kind[acting] \in Actions
  /\ \/ Returns("failed")
     \/ cancelled /\ Ends("cancelled") /\ UNCHANGED choices
     \/ program.malformed /\ Ends("failed") /\ UNCHANGED choices
  /\ UNCHANGED <<program, budget, responded, host, trace>>

DelayEnds ==
  /\ phase = "acting" /\ program.kind[acting] = "delay"
  /\ \/ \E h \in {NoHandle, "failed"} : Returns(h)
     \/ cancelled /\ Ends("cancelled") /\ UNCHANGED choices
  /\ UNCHANGED <<program, budget, responded, host, trace>>

-----------------------------------------------------------------------------
(* The end of the run.                                                     *)

Complete ==
  /\ phase = "frames" /\ frames = <<>>
  /\ phase' = "ended" /\ result' = "completed"
  /\ UNCHANGED <<program, frames, acting, budget, responded, host, history>>

\* A cancelled run is reported as out of time when its own clock says so.
CancellationError == IF exceeded THEN "duration" ELSE "cancelled"

Report ==
  /\ phase = "ending"
  /\ phase' = "ended"
  /\ result' = IF result = "cancelled" THEN CancellationError ELSE result
  /\ UNCHANGED <<program, frames, acting, budget, responded, host, history>>

-----------------------------------------------------------------------------
(* Beside the run: its clock, and whoever stops it.                        *)

\* The token is cancelled before the flag is stored
CancelsFirst ==
  /\ clock = "ticking" /\ phase # "ended"
  /\ clock' = "exceeded" /\ cancelled' = TRUE
  /\ UNCHANGED <<program, frames, phase, acting, result, budget, responded,
                 exceeded, stopped, history>>

ClockExceeds ==
  /\ clock = "ticking" /\ phase # "ended"
  /\ clock' = "exceeded" /\ exceeded' = TRUE
  /\ UNCHANGED <<program, frames, phase, acting, result, budget, responded,
                 cancelled, stopped, history>>

ClockCancels ==
  /\ clock = "exceeded"
  /\ clock' = "done" /\ cancelled' = TRUE
  /\ UNCHANGED <<program, frames, phase, acting, result, budget, responded,
                 stopped, exceeded, history>>

\* The end of the run drops the budget, which ends the timer and joins it.
ClockDropped ==
  /\ clock = "ticking" /\ phase = "ended"
  /\ clock' = "done"
  /\ UNCHANGED <<program, frames, phase, acting, result, budget, responded,
                 cancelled, stopped, exceeded, history>>

Stop ==
  /\ program.stoppable /\ ~stopped /\ phase # "ended"
  /\ stopped' = TRUE /\ cancelled' = TRUE
  /\ UNCHANGED <<program, frames, phase, acting, result, budget, responded,
                 clock, exceeded, history>>

-----------------------------------------------------------------------------
Init ==
  /\ program \in {p \in Programs : ValidGraph(p)}
  /\ frames = <<Follow(program.trigger, program.handle)>>
  /\ phase = "frames" /\ acting = NoNode /\ result = "none"
  /\ steps = 0 /\ iterations = 0
  /\ responded = FALSE
  /\ cancelled = FALSE /\ stopped = FALSE /\ exceeded = FALSE
  /\ clock = IF program.timed THEN "ticking" ELSE "done"
  /\ trace = <<>> /\ choices = <<>>

Step == \/ FrameCancelled \/ FollowFrame \/ OverStepBudget
        \/ ExecuteBranch \/ ExecuteMalformed \/ ExecuteRouter \/ ExecuteLoop
        \/ BreakLoop \/ ContinueLoop \/ ControlOutsideLoop
        \/ CountedLoopFrame \/ WhileFrame \/ WhileMalformed
        \/ ExecuteInternal \/ ExecuteDelay \/ ExecuteAction
        \/ ActionReturns \/ ActionFails \/ DelayEnds
        \/ Complete \/ Report

Ended == phase = "ended" /\ clock = "done" /\ UNCHANGED vars

Next == Step \/ ClockExceeds \/ ClockCancels \/ ClockDropped \/ Stop \/ Ended

\* The run's thread is never parked for good: frames are worked off in a loop,
\* and handlers and delays return.
Spec == Init /\ [][Next]_vars /\ WF_vars(Step)

-----------------------------------------------------------------------------
\* A run ends for want of steps or iterations only when it has used exactly
\* what its policy grants, and it never uses more (record_executed_step,
\* record_loop_iteration): every executed node and every iteration counts once.
Executed == Cardinality({i \in DOMAIN trace : Len(trace[i]) = 1})
Iterated == Len(trace) - Executed

BudgetsAreExact ==
  program.recorded =>
    /\ program.maxSteps # Unlimited =>
         Executed <= program.maxSteps /\ (result = "steps" => Executed = program.maxSteps)
    /\ program.maxLoops # Unlimited =>
         Iterated <= program.maxLoops /\ (result = "loops" => Iterated = program.maxLoops)

\* A run its own clock ended is never reported as cancelled by somebody: the
\* flag is stored before the token is cancelled.
ClockIsNotAStop == phase = "ended" /\ result = "cancelled" => stopped

\* A run whose token is cancelled ends, even one that would loop for ever.
CancelledRunEnds == cancelled ~> phase = "ended"
=============================================================================
