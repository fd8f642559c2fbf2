---------------------------- MODULE MCEncodedData ----------------------------
(* TLC instance of EncodedData.  The bytes are those at which a length, a   *)
(* sign or a leading zero changes its form; the sizes are those at which a  *)
(* length takes another byte, and those of keys.                            *)
EXTENDS EncodedData

MCBytes == {0, 1, 127, 128, 255}
MCSizes == {0, 1, 2, 33, 56, 127, 128, 255, 256, 300}
MCPubKeyOf(type, prikey) == prikey \o prikey
==============================================================================
