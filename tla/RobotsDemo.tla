---------------------------- MODULE RobotsDemo ----------------------------
(***************************************************************************)
(* The demo as a whole: both robots are set up, in any order; the payment  *)
(* policy of the house keeping robot pays the A/C robot, whose loop finds  *)
(* the payments in its balance.  The two programs share nothing but the    *)
(* token contract on the chain.                                            *)
(***************************************************************************)
EXTENDS PaymentPolicy, ACRobot, RobotBoot

CONSTANTS
    Payment,        \* what CallUsdcTransfer pays: 10000 units, 0.01 USDC
    PaymentsFail    \* TRUE: a payment may fail; the policy does not retry it

\* What fails while the A/C robot works is checked with ACRobot alone.
ASSUME DemoAssumption ==
    /\ Payment \in Nat \ {0} /\ PaymentsFail \in BOOLEAN
    /\ ~RpcFails /\ ~RestFails /\ ~RestCrashes /\ MaxMisreads = 0

VARIABLE inFlight   \* payments broadcast and not mined yet

demoVars == <<policyVars, robotVars, bootVars, inFlight>>

-----------------------------------------------------------------------------

DemoInit == PolicyInit /\ RobotInit /\ BootInit /\ inFlight = 0

(***************************************************************************)
(* A sample of the thermal sensor; if it makes a payment due, the payment  *)
(* is broadcast, or fails for good.  MaxIncome bounds what is paid.        *)
(***************************************************************************)
HouseSample(deg) ==
    /\ stage[House] = "work"
    /\ Sample(deg)
    /\ \/ ~PayDue(deg) /\ UNCHANGED inFlight
       \/ /\ PayDue(deg)
          /\ Online(House)
          /\ income + Payment * (inFlight + 1) <= MaxIncome
          /\ inFlight' = inFlight + 1
       \/ /\ PayDue(deg)
          /\ PaymentsFail \/ ~Online(House)
          /\ UNCHANGED inFlight
    /\ UNCHANGED <<robotVars, bootVars>>

PaymentMined ==
    /\ inFlight > 0 /\ inFlight' = inFlight - 1
    /\ Deposit(Payment)
    /\ UNCHANGED <<policyVars, bootVars>>

(***************************************************************************)
(* Offline every reading is 0 and the loop never takes a baseline: it then *)
(* turns without doing anything.                                           *)
(***************************************************************************)
ACRobotStep ==
    /\ stage[AC] = "work" /\ Online(AC)
    /\ RobotStep /\ UNCHANGED <<policyVars, bootVars, inFlight>>

Boots(r) == BootStep(r) /\ UNCHANGED <<policyVars, robotVars, inFlight>>
HouseEnds == WorkEnds /\ UNCHANGED <<policyVars, robotVars, inFlight>>

DemoNext ==
    \/ \E deg \in Degrees : HouseSample(deg)
    \/ PaymentMined \/ ACRobotStep
    \/ (\E r \in Robots : Boots(r)) \/ HouseEnds

(***************************************************************************)
(* Both programs come up and run while they can, and the chain mines       *)
(* payments.                                                               *)
(***************************************************************************)
DemoSpec ==
    /\ DemoInit /\ [][DemoNext]_demoVars
    /\ WF_demoVars(\E deg \in Degrees : HouseSample(deg))
    /\ WF_demoVars(PaymentMined)
    /\ WF_demoVars(ACRobotStep)
    /\ \A r \in Robots : WF_demoVars(Boots(r))

-----------------------------------------------------------------------------

(***************************************************************************)
(* Payments, any of which may fail, turn the fan on as soon as those that  *)
(* arrive once the A/C robot is watching add up to the threshold, however  *)
(* the start and the sampling of the one robot, the start and the polling  *)
(* of the other and the chain interleave.                                  *)
(***************************************************************************)
PaymentsTurnFanOn == <>(income - absorbed >= Threshold) => <>fan

(***************************************************************************)
(* The fan never runs before the house keeping robot has paid for it.      *)
(***************************************************************************)
FanIsPaidFor == fan => income >= Threshold

=============================================================================
