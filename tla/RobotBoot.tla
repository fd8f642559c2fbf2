----------------------------- MODULE RobotBoot -----------------------------
(***************************************************************************)
(* main of both robots: bring the modem's data session up, set up network, *)
(* keypair and wallet, work, and take everything down again.  A modem that *)
(* refuses a call does not stop main: the robot then works offline.        *)
(***************************************************************************)
CONSTANTS
    Registers,      \* the registration each robot's modem reaches in the end
    ModemFails,     \* robots whose modem may refuse a call
    SetUpFails      \* robots whose network, keypair or wallet may fail

House == "house"
AC == "ac"
Robots == {House, AC}

ASSUME BootAssumption ==
    /\ Registers \in [Robots -> {"home", "roaming"}]
    /\ ModemFails \subseteq Robots /\ SetUpFails \subseteq Robots

VARIABLES
    stage,      \* where main of each robot is
    session     \* modem: no data session, one that main opened, or one left
                \* over from an earlier run or a failed call

bootVars == <<stage, session>>

BootTypeOK ==
    /\ stage \in [Robots -> {"connect", "register", "open", "setUp", "work",
                             "release", "ended"}]
    /\ session \in [Robots -> {"off", "on", "left"}]

Goes(r, to) == stage' = [stage EXCEPT ![r] = to]

Online(r) == session[r] # "off"

-----------------------------------------------------------------------------

BootInit ==
    /\ stage = [r \in Robots |-> "connect"]
    /\ session \in [Robots -> {"off", "left"}]

(***************************************************************************)
(* ActivateNetwork: services and profile, then the loop that waits until   *)
(* the modem is registered, then the session, stopped first if there is    *)
(* one.  Results are ignored, those of ActivateNetwork itself too.  While  *)
(* the modem is not registered the loop only sleeps.                       *)
(***************************************************************************)
ConnectModem(r) ==
    /\ stage[r] = "connect"
    /\ \/ Goes(r, "register")
       \/ r \in ModemFails /\ Goes(r, "setUp")
    /\ UNCHANGED session

\* Mutant: a roaming modem does not count as registered.
IsRegistered_AtHome(state) == state = "home"

IsRegistered(state) == state \in {"home", "roaming"}

AwaitRegistration(r, state) ==
    /\ stage[r] = "register" /\ IsRegistered(state) /\ Goes(r, "open")
    /\ UNCHANGED session

RegistrationUnknown(r) ==
    /\ r \in ModemFails /\ stage[r] = "register" /\ Goes(r, "setUp")
    /\ UNCHANGED session

OpenSession(r) ==
    /\ stage[r] = "open" /\ Goes(r, "setUp")
    /\ \E s \in {"on"} \union
                (IF r \in ModemFails THEN {"off", session[r]} ELSE {}) :
           session' = [session EXCEPT ![r] = s]

(***************************************************************************)
(* createEthereumNetwork, ethereum_createKeypair and BoatEthWalletInit.    *)
(***************************************************************************)
\* Mutant: main returns when the set-up fails.
SetUp_Returns(r) ==
    /\ stage[r] = "setUp"
    /\ \/ Goes(r, "work")
       \/ r \in SetUpFails /\ Goes(r, "ended")
    /\ UNCHANGED session

SetUp(r) ==
    /\ stage[r] = "setUp"
    /\ \/ Goes(r, "work")
       \/ r \in SetUpFails /\ Goes(r, "release")
    /\ UNCHANGED session

(***************************************************************************)
(* ReadUARTThreadEntry returns after SIGINT or an error of the serial line;*)
(* checkBanlanceLoop never does.                                           *)
(***************************************************************************)
WorkEnds ==
    /\ stage[House] = "work" /\ Goes(House, "release")
    /\ UNCHANGED session

\* main_destruct: DeactivateNetwork, whose result is ignored.
Release(r) ==
    /\ stage[r] = "release" /\ Goes(r, "ended")
    /\ \E s \in {"off"} \union
                (IF r \in ModemFails /\ Online(r) THEN {"left"} ELSE {}) :
           session' = [session EXCEPT ![r] = s]

BootStep(r) ==
    \/ ConnectModem(r) \/ AwaitRegistration(r, Registers[r])
    \/ RegistrationUnknown(r) \/ OpenSession(r) \/ SetUp(r) \/ Release(r)

-----------------------------------------------------------------------------

(***************************************************************************)
(* A robot that has ended left no data session behind that it opened,      *)
(* unless the modem refused to stop it: every failure of the set-up goes   *)
(* through main_destruct (housekeeping_robot.c:566, ac_robot.c:716).       *)
(***************************************************************************)
EndsOffline == \A r \in Robots : stage[r] = "ended" => session[r] # "on"

(***************************************************************************)
(* No refusal of the modem and no failure of the set-up leaves main        *)
(* hanging: in the end each robot works, or has ended.                     *)
(***************************************************************************)
RobotsGetGoing == \A r \in Robots : <>(stage[r] \in {"work", "ended"})

=============================================================================
