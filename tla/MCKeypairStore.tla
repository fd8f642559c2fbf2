--------------------------- MODULE MCKeypairStore ---------------------------
(* TLC instances of KeypairStore.  New keys are interchangeable.            *)
EXTENDS KeypairStore, TLC

CONSTANTS k1, k2, k3, k4, k5, k6

MCKeys == {k1, k2, k3, k4, k5, k6}
KeySymmetry == Permutations(MCKeys)
=============================================================================
