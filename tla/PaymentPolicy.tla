--------------------------- MODULE PaymentPolicy ---------------------------
(***************************************************************************)
(* What the house keeping robot's sampling loop promises, one step per     *)
(* temperature sample (ReadUARTThreadEntry, fibocom_uart_temperature.c):   *)
(* g_countTemperature debounces hot samples, g_countTransfer keeps two     *)
(* payments TRANSFERINTERVAL samples apart.  How a sample reaches the loop *)
(* through the serial line is the business of ThermalThread.               *)
(*                                                                         *)
(* hotRun and sincePay are history variables: the code does not keep them, *)
(* the properties are stated with them.                                    *)
(***************************************************************************)
EXTENDS Integers

CONSTANTS
    TransferInterval,   \* TRANSFERINTERVAL, 120 in the code; kept in a char
    Degrees             \* the values g_uart_buf[3] takes: BCD degrees, a byte

ASSUME TransferIntervalAssumption == TransferInterval \in 1..127
ASSUME DegreesAssumption == Degrees \subseteq 0..255

VARIABLES
    countTemperature,   \* g_countTemperature
    countTransfer,      \* g_countTransfer
    pay,                \* the last sample called CallUsdcTransfer
    hotRun,             \* history: length of the current run of hot samples
    sincePay            \* history: samples since the last payment

policyVars == <<countTemperature, countTransfer, pay, hotRun, sincePay>>

-----------------------------------------------------------------------------

HotByte == 64           \* 0x40: 40 degrees in BCD
Debounce == 2           \* if(g_countTemperature > 2)
HistoryCap == TransferInterval + 3  \* bound of the two history counters

Hot(deg) == deg >= HotByte
Tick(n) == IF n < HistoryCap THEN n + 1 ELSE n

(***************************************************************************)
(* The countdown to the next payment runs on every sample, hot or not.     *)
(***************************************************************************)
Countdown(c) == IF c > 0 THEN c - 1 ELSE 0

(***************************************************************************)
(* A payment is made when the counter incremented by this sample exceeds   *)
(* the debounce limit and the countdown has run out.                       *)
(***************************************************************************)
PayDue(deg) ==
    /\ Hot(deg)
    /\ countTemperature + 1 > Debounce
    /\ Countdown(countTransfer) = 0

\* Mutant: the counter starts again from 0.
NextCountTemperature_FromZero(deg) ==
    IF Hot(deg) /\ countTemperature + 1 <= Debounce THEN countTemperature + 1
    ELSE 0

NextCountTemperature(deg) ==
    IF ~Hot(deg) THEN 0
    ELSE IF countTemperature + 1 > Debounce THEN 1
    ELSE countTemperature + 1

\* Mutant: the interval is one sample short.
NextCountTransfer_Short(deg) ==
    IF PayDue(deg) THEN TransferInterval - 1 ELSE Countdown(countTransfer)

NextCountTransfer(deg) ==
    IF PayDue(deg) THEN TransferInterval ELSE Countdown(countTransfer)

-----------------------------------------------------------------------------

PolicyInit ==
    /\ countTemperature = 0
    /\ countTransfer = 0
    /\ pay = FALSE
    /\ hotRun = 0
    /\ sincePay = HistoryCap

Sample(deg) ==
    /\ countTemperature' = NextCountTemperature(deg)
    /\ countTransfer' = NextCountTransfer(deg)
    /\ pay' = PayDue(deg)
    /\ hotRun' = IF Hot(deg) THEN Tick(hotRun) ELSE 0
    /\ sincePay' = IF PayDue(deg) THEN 0 ELSE Tick(sincePay)

PolicyNext == \E deg \in Degrees : Sample(deg)

PolicySpec == PolicyInit /\ [][PolicyNext]_policyVars

-----------------------------------------------------------------------------

(***************************************************************************)
(* Both counters stay within a char, whatever the sign of char is.         *)
(***************************************************************************)
PolicyTypeOK ==
    /\ countTemperature \in 0..Debounce
    /\ countTransfer \in 0..TransferInterval
    /\ pay \in BOOLEAN
    /\ hotRun \in 0..HistoryCap
    /\ sincePay \in 0..HistoryCap

(***************************************************************************)
(* Two payments are at least TransferInterval samples apart ("2 minutes"   *)
(* at fibocom_uart_temperature.c:391), however hot and cold samples mix.   *)
(***************************************************************************)
PaymentsSpaced ==
    [][pay' => sincePay + 1 >= TransferInterval]_policyVars

(***************************************************************************)
(* Heat is paid for, and nothing else is: a payment is made only at the    *)
(* end of three or more consecutive hot samples, and is never overdue by   *)
(* more than one sample.  Resetting the debounce counter to 1 and not to 0 *)
(* lets no shorter run through, and once a run is long enough the counter  *)
(* reaches the limit again at every second sample.                         *)
(***************************************************************************)
PaysForHeat ==
    /\ pay => hotRun > Debounce
    /\ ~(hotRun > Debounce /\ sincePay > TransferInterval)

=============================================================================
