----------------------------- MODULE MCWeb3Rpc -----------------------------
(* TLC instances of Web3Rpc: steps of 3, with requests, pieces and results *)
(* that fit, just do not fit, and need more than one step.                 *)
EXTENDS Web3Rpc

MCRequestLens == {1, 6}
MCChunkLens == {3, 5}
MCResultLens == {2, 4}
=============================================================================
