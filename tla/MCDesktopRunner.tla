-------------------------- MODULE MCDesktopRunner --------------------------
(* Instances of DesktopRunner for TLC. *)
EXTENDS DesktopRunner

\* The two differ in what the runner runs with and in the start at login.
Settings ==
  {[launch_at_login |-> FALSE, runtime |-> 1], [launch_at_login |-> TRUE, runtime |-> 2]}
=============================================================================
