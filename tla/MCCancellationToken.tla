------------------------ MODULE MCCancellationToken ------------------------
(* Instances of CancellationToken for TLC. *)
EXTENDS CancellationToken, TLC

Symmetric == Permutations(Threads)
=============================================================================
