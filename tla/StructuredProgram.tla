------------------------- MODULE StructuredProgram -------------------------
(***************************************************************************)
(* What a script program means, without a stack of frames: a node runs,    *)
(* then everything behind the output it leaves through, in order; a loop   *)
(* runs its body once per iteration; break and continue unwind to the      *)
(* innermost loop whose body they are in.  Interpreter's runs are compared *)
(* with it.                                                                *)
(*                                                                         *)
(* Running a part of the program yields the nodes visited, the decisions   *)
(* left over and how the part was left: "next" to go on behind it,         *)
(* "break", "continue", or "stuck" when the decisions do not fit.          *)
(***************************************************************************)
EXTENDS Integers, Sequences, FiniteSets, SequencesExt

Left(visits, choices, signal) == [visits |-> visits, choices |-> choices, signal |-> signal]

\* What follows `before`, unless that was left otherwise than to go on.
Then(before, after(_)) ==
  IF before.signal # "next" THEN before
  ELSE LET rest == after(before.choices)
       IN  Left(before.visits \o rest.visits, rest.choices, rest.signal)

Targets(p, n, h) ==
  LET out == {e \in p.edges : e.source = n /\ e.handle = h}
  IN  [i \in 1 .. Cardinality(out) |-> CHOOSE e \in out : e.order = i - 1]

HasOutput(p, n, h) == \E e \in p.edges : e.source = n /\ e.handle = h

RECURSIVE RunNode(_, _, _, _, _), RunTargets(_, _, _, _), RunRoutes(_, _, _, _, _),
          RunLoop(_, _, _, _, _)

\* fuel bounds the recursion: no completed run visits more.
Behind(p, n, h, cs, fuel) == RunTargets(p, Targets(p, n, h), cs, fuel)

RunTargets(p, targets, cs, fuel) ==
  IF targets = <<>> THEN Left(<<>>, cs, "next")
  ELSE Then(RunNode(p, Head(targets).target, Head(targets).input, cs, fuel),
            LAMBDA rest : RunTargets(p, Tail(targets), rest, fuel))

RunRoutes(p, n, routes, cs, fuel) ==
  IF routes = <<>> THEN Left(<<>>, cs, "next")
  ELSE Then(Behind(p, n, Head(routes), cs, fuel),
            LAMBDA rest : RunRoutes(p, n, Tail(routes), rest, fuel))

\* The body once more, then the loop again; a continue only ends the body.
Iteration(p, n, i, cs, fuel) ==
  LET body  == Behind(p, n, IF p.kind[n] = "repeat" THEN "repeat" ELSE "loop", cs, fuel)
      again == [body EXCEPT !.visits = <<<<n, "iteration">>>> \o @,
                            !.signal = IF @ = "continue" THEN "next" ELSE @]
  IN  IF body.signal = "break"
      THEN Then([again EXCEPT !.signal = "next"], LAMBDA rest : Behind(p, n, "done", rest, fuel))
      ELSE Then(again, LAMBDA rest : RunLoop(p, n, i + 1, rest, fuel))

RunLoop(p, n, i, cs, fuel) ==
  IF fuel < 0 THEN Left(<<>>, cs, "stuck")
  ELSE IF p.kind[n] = "while"
  THEN IF cs = <<>> THEN Left(<<>>, cs, "stuck")
       ELSE IF Head(cs) = "true" THEN Iteration(p, n, i, Tail(cs), fuel - 1)
       ELSE Behind(p, n, "done", Tail(cs), fuel - 1)
  ELSE IF i < p.count[n] THEN Iteration(p, n, i, cs, fuel - 1)
       ELSE Behind(p, n, "done", cs, fuel - 1)

\* The output an action without a selected one leaves through.
Selected(p, n, choice) ==
  IF choice # "no handle" THEN choice
  ELSE IF HasOutput(p, n, "success") THEN "success" ELSE "out"

RunNode(p, n, input, cs, fuel) ==
  LET kind == p.kind[n]
      rest == IF fuel < 0 THEN Left(<<>>, cs, "stuck")
              ELSE IF kind \in {"repeat", "for_each", "while"} THEN RunLoop(p, n, 0, cs, fuel - 1)
              ELSE IF kind \in {"break", "continue"} THEN Left(<<>>, cs, kind)
              ELSE IF kind = "router" THEN RunRoutes(p, n, p.routes[<<n, input>>], cs, fuel - 1)
              ELSE IF cs = <<>> THEN Left(<<>>, cs, "stuck")
              ELSE Behind(p, n, Selected(p, n, Head(cs)), Tail(cs), fuel - 1)
  IN  [rest EXCEPT !.visits = <<<<n>>>> \o @]

\* The visits of a whole run that took these decisions.
Meaning(p, cs, fuel) == Behind(p, p.trigger, p.handle, cs, fuel)
=============================================================================
