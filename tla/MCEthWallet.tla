---------------------------- MODULE MCEthWallet ----------------------------
(* TLC instances of EthWallet: three transfers, the code's 30 seconds of   *)
(* waiting in steps of 3.                                                  *)
EXTENDS EthWallet

MCTxs == 1..3
MCSync == {TRUE}
MCBoth == BOOLEAN
=============================================================================
