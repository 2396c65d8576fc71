--------------------------- MODULE MCInterpreter ---------------------------
(* Instances of Interpreter for TLC: every small graph of some node kinds,  *)
(* and programs written down for what those do not reach.                   *)
EXTENDS Interpreter, StructuredProgram, TLC

CONSTANTS Steps, Iterations      \* the budgets of the recorded programs

\* The edges of a wiring: for every output the targets, in order.
EdgesOf(wiring) ==
  UNION { { [source |-> out[1], handle |-> out[2], order |-> i - 1,
             target |-> wiring[out][i], input |-> "in"] : i \in DOMAIN wiring[out] }
          : out \in DOMAIN wiring }

Limited(kind, edges) ==
  [kind |-> kind, edges |-> edges, trigger |-> "t", handle |-> "out",
   outputs |-> [n \in DOMAIN kind |-> IF kind[n] = "branch" THEN {"true", "false"}
                                      ELSE {NoHandle}],
   routes |-> <<>>, count |-> [n \in DOMAIN kind |-> 2],
   maxSteps |-> Steps, maxLoops |-> Iterations,
   recorded |-> TRUE, malformed |-> FALSE, waiting |-> FALSE,
   timed |-> FALSE, stoppable |-> FALSE]

Free(p) == [p EXCEPT !.maxSteps = Unlimited, !.maxLoops = Unlimited, !.recorded = FALSE,
                     !.timed = TRUE, !.stoppable = TRUE]

HandlesOf(kind) == CASE kind = "repeat" -> {"repeat", "done"}
                     [] kind \in {"for_each", "while"} -> {"loop", "done"}
                     [] kind = "branch" -> {"true", "false"}
                     [] kind = "internal" -> {"out", "failed"}
                     [] OTHER -> {}

\* Every way to wire the outputs of a, b and c to none, one or both of the others.
Others == [a |-> <<"b", "c">>, b |-> <<"c", "a">>, c |-> <<"a", "b">>]
TargetLists(n) == LET two == Others[n]
                  IN  << <<>>, <<two[1]>>, <<two[2]>>, two, <<two[2], two[1]>> >>

Wirings(kind) ==
  LET outs == UNION { {n} \X HandlesOf(kind[n]) : n \in {"a", "b", "c"} }
  IN  { [out \in outs |-> TargetLists(out[1])[pick[out]]] @@ (<<"t", "out">> :> <<"a">>)
        : pick \in [outs -> 1 .. 5] }

Kinds(a, b, c) == [t |-> "trigger", a |-> a, b |-> b, c |-> c]

SmallGraphs ==
  UNION { {Limited(kind, EdgesOf(w)) : w \in Wirings(kind)} :
          kind \in { Kinds("repeat", "branch", "break"), Kinds("while", "branch", "continue"),
                     Kinds("for_each", "while", "break"), Kinds("repeat", "internal", "continue") } }

\* A loop without budget around an action, its request answered behind it.
Endless ==
  Free([Limited(Kinds("while", "action", "response"),
                EdgesOf(<<"t", "out">> :> <<"a">> @@ <<"a", "loop">> :> <<"b">>
                        @@ <<"a", "done">> :> <<"c">>)) EXCEPT !.waiting = TRUE])

\* A request answered in every iteration and once more behind a delay.
AnswersTwice ==
  [Limited(Kinds("repeat", "response", "delay"),
           EdgesOf(<<"t", "out">> :> <<"a">> @@ <<"a", "repeat">> :> <<"b">>
                   @@ <<"a", "done">> :> <<"c">> @@ <<"c", "out">> :> <<"b">>))
     EXCEPT !.waiting = TRUE, !.timed = TRUE, !.stoppable = TRUE, !.recorded = FALSE]

\* A router entered by two inputs, the second of them without a route.
Routed ==
  [Limited(Kinds("router", "internal", "action"),
           { [source |-> "t", handle |-> "out", order |-> 0, target |-> "a", input |-> "in-1"],
             [source |-> "a", handle |-> "out-1", order |-> 0, target |-> "b", input |-> "in"],
             [source |-> "a", handle |-> "out-2", order |-> 0, target |-> "c", input |-> "in"],
             [source |-> "c", handle |-> "success", order |-> 0, target |-> "a", input |-> "in-2"],
             [source |-> "c", handle |-> "failed", order |-> 0, target |-> "b", input |-> "in"] })
     EXCEPT !.routes = <<"a", "in-1">> :> <<"out-2", "out-1">> @@ <<"a", "in-2">> :> <<>>]

Malformed(a, b) ==
  [Limited(Kinds(a, b, "delay"),
           EdgesOf(<<"t", "out">> :> <<"a">> @@ <<"a", "loop">> :> <<"b">> @@ <<"a", "done">> :> <<"c">>))
     EXCEPT !.malformed = TRUE]

AllPrograms == SmallGraphs
  \cup {Endless, AnswersTwice, Free(AnswersTwice), Routed,
        Malformed("while", "branch"), Malformed("for_each", "internal"), Malformed("while", "action")}

\* A run that completes has visited exactly what its program means, in that
\* order, for the decisions it took: the stack of frames (process_frame and
\* what it calls) does what nested loops, break and continue say.
MatchesStructuredSemantics ==
  phase = "ended" /\ result = "completed" /\ program.recorded =>
    LET meaning == Meaning(program, choices, 2 * Len(trace) + 2)
    IN  /\ meaning.signal = "next" /\ meaning.choices = <<>>
        /\ meaning.visits = trace
=============================================================================
