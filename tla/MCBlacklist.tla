---------------------------- MODULE MCBlacklist ----------------------------
\* Script A with two packages; the official list comes to name the first.
EXTENDS Blacklist, TLC

CONSTANTS A, A1, A2, plain, fileOne

MCOwner == (A1 :> A) @@ (A2 :> A)
MCFileOf == plain :> fileOne
=============================================================================
