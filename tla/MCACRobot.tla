----------------------------- MODULE MCACRobot -----------------------------
(* TLC instances of ACRobot.  Amounts are in units of 1000: a payment of   *)
(* one cent is 10, the threshold 100, and a word 2^32/1024.  What the      *)
(* uninitialised bytes hold is below every balance or above it.            *)
EXTENDS ACRobot

MCDeposits == {60, 100}
NoDeposits == {}
NoLeftovers == {}
MCLeftovers == {5, 900}
=============================================================================
