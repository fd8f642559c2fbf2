--------------------------- MODULE MCRobotsDemo ---------------------------
(* TLC instances of RobotsDemo: five payments reach the threshold; one     *)
(* cold and one hot byte; the modem of one robot may refuse calls, the     *)
(* set-up of the other may fail, and one of them is roaming.               *)
EXTENDS RobotsDemo

MCDegrees == {37, 64}
NoDeposits == {}
NoLeftovers == {}
MCModemFails == {House}
MCSetUpFails == {AC}
MCRegisters == [r \in Robots |-> IF r = AC THEN "roaming" ELSE "home"]
=============================================================================
