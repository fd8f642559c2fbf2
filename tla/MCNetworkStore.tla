-------------------------- MODULE MCNetworkStore --------------------------
(* TLC instance of NetworkStore.  The stores never look into a network, so *)
(* one value is enough: records are told apart by protocol and index.      *)
EXTENDS NetworkStore

CONSTANT n1

MCNetworks == {n1}
=============================================================================
