--------------------------- MODULE MCApprovedRuns --------------------------
\* Script A with two packages, and B, which may want its file name, as it is or
\* spelt otherwise.
EXTENDS ApprovedRuns, TLC

CONSTANTS A, B, A1, A2, B1, small, capital, other, fileOne, fileTwo

MCOwner == (A1 :> A) @@ (A2 :> A) @@ (B1 :> B)
Symmetric == Permutations(Clients) \cup Permutations({A1, A2}) \cup Permutations({small, capital})
MCFileOf == (small :> fileOne) @@ (capital :> fileOne) @@ (other :> fileTwo)
=============================================================================
