---------------------------- MODULE MCT1Protocol ----------------------------
(* Instance of T1Protocol for TLC; the constants are given in the .cfg file.  *)
EXTENDS T1Protocol
=============================================================================
