------------------------------ MODULE ACRobot ------------------------------
(***************************************************************************)
(* checkBanlanceLoop of the A/C robot: watch the robot's ERC-20 balance,   *)
(* switch the fan's plug on when enough income has arrived, send 50% of it *)
(* to David and 30% to Charlie, take the balance as the new baseline, and  *)
(* switch the plug off some turns of the loop later.                       *)
(*                                                                         *)
(* The chain and the plug are outside the code.  A transfer that is not    *)
(* mined while the wallet waits for its receipt stays in `pending' and may *)
(* be mined at any later time; the next transfer reuses its nonce (see     *)
(* EthWallet), so it is refused or takes the pending one's place.          *)
(***************************************************************************)
EXTENDS Integers

CONSTANTS
    Word,               \* 2^32: BUINT32 arithmetic
    Threshold,          \* 100000 units
    FanTurns,           \* g_onoff after switching on: 8
    InitialBalance,     \* units the robot owns when the loop starts
    Deposits,           \* amounts it may be paid
    MaxIncome,          \* bound: what it is paid in a behaviour
    RpcFails,           \* TRUE: RPC calls may fail, transfers stay pending
    Leftovers,          \* readings the bytes of the uninitialised balance256
                        \* may give
    MaxMisreads,        \* bound: replies in a behaviour that are no balance
    RestFails,          \* TRUE: commands to the plug may get lost
    RestCrashes,        \* TRUE: a failing REST call may crash the robot
    Restarts            \* TRUE: the program may be started again at any time

ASSUME RobotAssumption ==
    /\ Threshold \in Nat /\ FanTurns \in Nat \ {0}
    /\ InitialBalance \in Nat /\ MaxIncome \in Nat /\ Deposits \subseteq Nat
    /\ Word \in Nat /\ InitialBalance + MaxIncome < Word
    /\ RpcFails \in BOOLEAN
    /\ Leftovers \subseteq 0..Word - 1 /\ MaxMisreads \in Nat
    /\ RestFails \in BOOLEAN /\ RestCrashes \in BOOLEAN
    \* A program stopped while it waits leaves its transfer pending.
    /\ Restarts \in BOOLEAN /\ (Restarts => RpcFails)

VARIABLES
    pc,             \* where the loop is
    banlanceOf,     \* the balance read at the top of the loop
    g_banlanceOf,   \* the baseline that income is measured from
    g_onoff,        \* turns until the plug is switched off
    balance,        \* chain: the robot's balance
    pending,        \* chain: value of the robot's unmined transfer, or NoTx
    fan,            \* plug: switched on
    income,         \* history: paid to the robot since the start
    shared,         \* history: income found and shared out
    absorbed,       \* history: paid while the robot was sharing out or not
                    \* watching yet
    sent,           \* history: broadcast to each investor
    misreads,       \* history: readings that are neither the balance nor 0
    madeUp,         \* history: what these can have made look like income
    onTurns,        \* history: turns since the plug was last switched on
    obeyed          \* history: no command to the plug was lost, and the
                    \* program kept running

chainVars == <<balance, pending, sent>>
paidVars == <<income, shared, absorbed>>
readingVars == <<misreads, madeUp>>
plugVars == <<fan, obeyed>>
robotVars == <<pc, banlanceOf, g_banlanceOf, g_onoff, chainVars, plugVars,
               paidVars, onTurns, readingVars>>

-----------------------------------------------------------------------------

NoTx == -1
Investors == {"David", "Charlie"}

(***************************************************************************)
(* call_erc20_balanceOf: the low word of the balance, or zero if a call    *)
(* fails.  Whether the reply could be converted is not looked at (line     *)
(* 315): of one that is empty, not hexadecimal or shorter than 32 bytes,   *)
(* the low word is in part or whole what the uninitialised balance256      *)
(* holds.                                                                  *)
(***************************************************************************)
Readable == {balance % Word} \union (IF RpcFails THEN {0} ELSE {})
BalanceReads ==
    Readable \union (IF misreads < MaxMisreads THEN Leftovers ELSE {})

(***************************************************************************)
(* What a reading b makes look like income although nobody paid it: if it  *)
(* becomes the baseline, what it is too low; if income is found in it,     *)
(* what it is too high.  Readings that can be trusted give nothing here.   *)
(***************************************************************************)
TooLow(b) == IF 0 < b /\ b < balance THEN balance - b ELSE 0
TooHigh(b) == IF b > balance THEN b - balance ELSE 0

Reading(b, excess) ==
    /\ misreads' = IF b \in Readable THEN misreads ELSE misreads + 1
    /\ madeUp' = madeUp + excess

delta == banlanceOf - g_banlanceOf

(***************************************************************************)
(* delta*50/100 and delta*30/100 in 32-bit arithmetic.                     *)
(***************************************************************************)
Share(percent) == ((delta * percent) % Word) \div 100

(***************************************************************************)
(* call_erc20_transfer, result ignored by the loop: not broadcast (an RPC  *)
(* fails, or the node refuses a second transaction with the same nonce),   *)
(* mined in time (or reverted for lack of funds), or left pending.         *)
(***************************************************************************)
NotBroadcast ==
    /\ RpcFails \/ pending # NoTx
    /\ UNCHANGED chainVars

Mined(v) == balance' = IF v <= balance THEN balance - v ELSE balance

Broadcast(to, v) ==
    /\ sent' = [sent EXCEPT ![to] = @ + v]
    /\ \/ Mined(v) /\ pending' = NoTx
       \/ RpcFails /\ pending' = v /\ UNCHANGED balance

Transfer(to, v) == NotBroadcast \/ Broadcast(to, v)

(***************************************************************************)
(* The two REST calls that switch the plug; their results are only printed.*)
(***************************************************************************)
Commanded(on) == IF RestFails THEN {on, fan} ELSE {on}

Command(on) ==
    /\ fan' \in Commanded(on)
    /\ obeyed' = (obeyed /\ (fan' = on))

-----------------------------------------------------------------------------

RobotInit ==
    /\ pc = "start" /\ banlanceOf = 0 /\ g_banlanceOf = 0 /\ g_onoff = 0
    /\ balance = InitialBalance /\ pending = NoTx /\ fan = FALSE
    /\ income = 0 /\ shared = 0 /\ absorbed = 0 /\ onTurns = 0
    /\ sent = [i \in Investors |-> 0]
    /\ misreads = 0 /\ madeUp = 0 /\ obeyed = TRUE

(***************************************************************************)
(* The call whose result becomes the baseline.                             *)
(***************************************************************************)
ReadBaseline ==
    \E b \in BalanceReads :
        /\ g_banlanceOf' = b
        /\ Reading(b, TooLow(b))

StartLoop ==
    /\ pc = "start" /\ pc' = "read"
    /\ ReadBaseline
    /\ UNCHANGED <<banlanceOf, g_onoff, chainVars, plugVars, paidVars,
                   onTurns>>

(***************************************************************************)
(* A baseline of zero only takes the balance over; otherwise an increase   *)
(* of Threshold or more is income.                                         *)
(***************************************************************************)
TakesOver(b) == b > 0 /\ g_banlanceOf = 0
\* Mutant: the balance, not its increase, is compared.
IsIncome_Absolute(b) == g_banlanceOf > 0 /\ b >= Threshold

IsIncome(b) == g_banlanceOf > 0 /\ b - g_banlanceOf >= Threshold /\ b > g_banlanceOf

\* Mutant: every reading becomes the baseline.
ReadBalance_Rebases ==
    /\ pc = "read"
    /\ banlanceOf' \in BalanceReads
    /\ g_banlanceOf' = IF IsIncome(banlanceOf') THEN g_banlanceOf
                       ELSE banlanceOf'
    /\ pc' = IF IsIncome(banlanceOf') THEN "switchOn" ELSE "fan"
    /\ UNCHANGED <<g_onoff, chainVars, plugVars, paidVars, onTurns,
                   readingVars>>

ReadBalance ==
    /\ pc = "read"
    /\ \E b \in BalanceReads :
         /\ banlanceOf' = b
         /\ g_banlanceOf' = IF TakesOver(b) THEN b ELSE g_banlanceOf
         /\ pc' = IF IsIncome(b) THEN "switchOn" ELSE "fan"
         /\ Reading(b, IF TakesOver(b) THEN TooLow(b)
                       ELSE IF IsIncome(b) THEN TooHigh(b) ELSE 0)
    /\ UNCHANGED <<g_onoff, chainVars, plugVars, paidVars, onTurns>>

\* Mutant: a running countdown is not started again.
SwitchOn_IfOff ==
    /\ pc = "switchOn" /\ pc' = "payDavid"
    /\ Command(TRUE)
    /\ g_onoff' = IF g_onoff = 0 THEN FanTurns ELSE g_onoff
    /\ shared' = shared + delta
    /\ onTurns' = 0
    /\ UNCHANGED <<banlanceOf, g_banlanceOf, chainVars, income, absorbed,
                   readingVars>>

\* Mutant: new income adds to a running countdown.
SwitchOn_Extends ==
    /\ pc = "switchOn" /\ pc' = "payDavid"
    /\ Command(TRUE)
    /\ g_onoff' = g_onoff + FanTurns
    /\ shared' = shared + delta
    /\ onTurns' = 0
    /\ UNCHANGED <<banlanceOf, g_banlanceOf, chainVars, income, absorbed,
                   readingVars>>

SwitchOn ==
    /\ pc = "switchOn" /\ pc' = "payDavid"
    /\ Command(TRUE)
    /\ g_onoff' = FanTurns
    /\ shared' = shared + delta
    /\ onTurns' = 0
    /\ UNCHANGED <<banlanceOf, g_banlanceOf, chainVars, income, absorbed,
                   readingVars>>

PayDavid ==
    /\ pc = "payDavid" /\ pc' = "payCharlie"
    /\ Transfer("David", Share(50))
    /\ UNCHANGED <<banlanceOf, g_banlanceOf, g_onoff, plugVars, paidVars,
                   onTurns, readingVars>>

PayCharlie ==
    /\ pc = "payCharlie" /\ pc' = "rebase"
    /\ Transfer("Charlie", Share(30))
    /\ UNCHANGED <<banlanceOf, g_banlanceOf, g_onoff, plugVars, paidVars,
                   onTurns, readingVars>>

\* Mutants: the baseline is not updated; it is set to the balance read
\* before the transfers.
UpdateBaseline_Skipped ==
    /\ pc = "rebase" /\ pc' = "fan"
    /\ UNCHANGED <<banlanceOf, g_banlanceOf, g_onoff, chainVars, plugVars,
                   paidVars, onTurns, readingVars>>

UpdateBaseline_OldReading ==
    /\ pc = "rebase" /\ pc' = "fan"
    /\ g_banlanceOf' = banlanceOf
    /\ UNCHANGED <<banlanceOf, g_onoff, chainVars, plugVars, paidVars,
                   onTurns, readingVars>>

UpdateBaseline ==
    /\ pc = "rebase" /\ pc' = "fan"
    /\ ReadBaseline
    /\ UNCHANGED <<banlanceOf, g_onoff, chainVars, plugVars, paidVars,
                   onTurns>>

\* Mutant: the countdown is not decremented.
FanTurn_NoCountdown ==
    /\ pc = "fan" /\ pc' = "read"
    /\ IF g_onoff = 1 THEN Command(FALSE) ELSE UNCHANGED plugVars
    /\ UNCHANGED g_onoff
    /\ onTurns' = IF onTurns < FanTurns THEN onTurns + 1 ELSE onTurns
    /\ UNCHANGED <<banlanceOf, g_banlanceOf, chainVars, paidVars,
                   readingVars>>

(***************************************************************************)
(* The bottom of the loop: count down, switch off at 1, sleep.             *)
(***************************************************************************)
FanTurn ==
    /\ pc = "fan" /\ pc' = "read"
    /\ g_onoff' = IF g_onoff > 0 THEN g_onoff - 1 ELSE 0
    /\ IF g_onoff = 1 THEN Command(FALSE) ELSE UNCHANGED plugVars
    /\ onTurns' = IF onTurns < FanTurns THEN onTurns + 1 ELSE onTurns
    /\ UNCHANGED <<banlanceOf, g_banlanceOf, chainVars, paidVars,
                   readingVars>>

(***************************************************************************)
(* A REST call that fails before there is a response leaves through a      *)
(* clean-up that frees a JSON pointer not yet initialised: it may survive  *)
(* (SwitchOn, FanTurn) or crash, with the command executed or not.         *)
(***************************************************************************)
RestCrash ==
    /\ RestCrashes
    /\ \/ pc = "switchOn" /\ fan' \in Commanded(TRUE)
       \/ pc = "fan" /\ g_onoff = 1 /\ fan' \in Commanded(FALSE)
    /\ pc' = "crashed" /\ obeyed' = FALSE
    /\ UNCHANGED <<banlanceOf, g_banlanceOf, g_onoff, chainVars, paidVars,
                   onTurns, readingVars>>

(***************************************************************************)
(* The program ends, crashed or without power, and is started again: what  *)
(* it kept in memory is lost; chain and plug are as they were.             *)
(***************************************************************************)
Restart ==
    /\ Restarts /\ pc # "start" /\ pc' = "start"
    /\ banlanceOf' = 0 /\ g_banlanceOf' = 0 /\ g_onoff' = 0
    /\ obeyed' = FALSE
    /\ UNCHANGED <<chainVars, fan, paidVars, onTurns, readingVars>>

RobotStep ==
    \/ StartLoop \/ ReadBalance \/ SwitchOn \/ PayDavid \/ PayCharlie
    \/ UpdateBaseline \/ FanTurn

(***************************************************************************)
(* Environment: payments arrive at any time; a pending transfer is mined.  *)
(***************************************************************************)
Sharing == pc \in {"switchOn", "payDavid", "payCharlie", "rebase"}

Deposit(d) ==
    /\ income + d <= MaxIncome
    /\ absorbed' = IF Sharing \/ pc = "start" THEN absorbed + d ELSE absorbed
    /\ income' = income + d /\ balance' = balance + d
    /\ UNCHANGED <<pc, banlanceOf, g_banlanceOf, g_onoff, pending, sent,
                   plugVars, shared, onTurns, readingVars>>

MinePending ==
    /\ pending # NoTx
    /\ Mined(pending) /\ pending' = NoTx
    /\ UNCHANGED <<pc, banlanceOf, g_banlanceOf, g_onoff, sent, plugVars,
                   paidVars, onTurns, readingVars>>

RobotNext ==
    \/ RobotStep \/ RestCrash \/ Restart
    \/ (\E d \in Deposits : Deposit(d)) \/ MinePending

(***************************************************************************)
(* The loop goes on until it crashes: every call in it returns and every   *)
(* sleep ends.  Nobody has to start it again.                              *)
(***************************************************************************)
RobotSpec == RobotInit /\ [][RobotNext]_robotVars /\ WF_robotVars(RobotStep)

-----------------------------------------------------------------------------

RobotTypeOK ==
    /\ pc \in {"start", "read", "switchOn", "payDavid", "payCharlie",
               "rebase", "fan", "crashed"}
    /\ banlanceOf \in 0..Word - 1 /\ g_banlanceOf \in 0..Word - 1
    /\ g_onoff \in 0..FanTurns
    /\ balance \in 0..InitialBalance + income
    /\ pending \in Nat \union {NoTx}
    /\ fan \in BOOLEAN /\ obeyed \in BOOLEAN
    /\ income \in 0..MaxIncome /\ shared \in Nat /\ absorbed \in Nat
    /\ sent \in [Investors -> Nat]
    /\ onTurns \in 0..FanTurns
    /\ misreads \in 0..MaxMisreads /\ madeUp \in Nat

(***************************************************************************)
(* Whatever fails, is late or arrives while the robot is paying, and also  *)
(* when it starts again, no income is shared twice: David is never sent    *)
(* more than 50% and Charlie never more than 30% of what the robot was     *)
(* paid and what replies that are no balance made look like income; none   *)
(* of that is shared twice either.                                         *)
(***************************************************************************)
SharesWithinIncome ==
    /\ 100 * sent["David"] <= 50 * (income + madeUp)
    /\ 100 * sent["Charlie"] <= 30 * (income + madeUp)

(***************************************************************************)
(* The investors' parts come out of the income, so that "The remaining 20% *)
(* of the income is for the robot itself" (ac_robot.c:582) and what the    *)
(* robot owned before is never given away.                                 *)
(***************************************************************************)
OwnShareKept ==
    /\ 100 * sent["David"] <= 50 * income
    /\ 100 * sent["Charlie"] <= 30 * income

(***************************************************************************)
(* The fan is never switched off before its turns are over, also when new  *)
(* income arrives while it is running and the countdown starts again.      *)
(***************************************************************************)
FanRunsItsTurns == [][fan /\ ~fan' => onTurns + 1 >= FanTurns]_robotVars

(***************************************************************************)
(* Nor does it run beyond its turns, as long as no command to the plug is  *)
(* lost and the program keeps running: new income starts the countdown     *)
(* again and does not add to it, and the fan is never on with a countdown  *)
(* of 0, from which nothing would switch it off.                           *)
(***************************************************************************)
FanStopsInTime == obeyed /\ fan => onTurns < FanTurns

(***************************************************************************)
(* The fan is switched off in the end ("turn on the fan for a minute",     *)
(* src/README.md).                                                         *)
(***************************************************************************)
FanGoesOff == fan ~> ~fan

(***************************************************************************)
(* If no call fails and the robot starts with money, the books balance at  *)
(* the top of the loop: all income has been shared out, is still visible   *)
(* above the baseline, or arrived while the robot was sharing out or not   *)
(* running and was taken into the new baseline.                            *)
(***************************************************************************)
BooksBalance ==
    pc = "read" /\ ~RpcFails /\ misreads = 0 /\ InitialBalance > 0 =>
        shared + (balance - g_banlanceOf) + absorbed = income

=============================================================================
