--------------------------- MODULE ThermalThread ---------------------------
(***************************************************************************)
(* ReadUARTThreadEntry of the house keeping robot: open the UART, poll     *)
(* until the thermal sensor answers, then query it for ever and hand the   *)
(* degrees byte of every answer to the payment policy.  SIGINT may arrive  *)
(* at any point.  The sensor, the line and the result of a transfer are    *)
(* outside the code and chosen freely.                                     *)
(*                                                                         *)
(* `line' holds the bytes the sensor has sent and the thread has not read. *)
(* On a late line a read may return before these bytes arrive; on a lossy  *)
(* one an answer may be lost or lose its first byte, and noise may precede *)
(* the answer to a poll, which is what the sliding window is there for.    *)
(***************************************************************************)
EXTENDS PaymentPolicy, Sequences

CONSTANTS
    UartBufSize,        \* sizeof(g_uart_buf), 1024 in the code
    SensorDegrees,      \* degrees bytes the sensor reports
    NoiseBytes,         \* bytes of noise on the line while polling
    Lines,              \* what the line may be: [late, lossy], late: a read may
                        \* return before bytes sent arrive, lossy: bytes get
                        \* lost and noise is received
    MaxNoise,           \* bound: noise bytes in a behaviour
    MaxLine             \* bound: bytes under way on the line

ASSUME UartAssumption ==
    /\ UartBufSize \in Nat /\ UartBufSize >= 9
    /\ SensorDegrees \subseteq 0..255 /\ NoiseBytes \subseteq 0..255
    /\ Lines \subseteq [late : BOOLEAN, lossy : BOOLEAN]
    /\ MaxNoise \in Nat /\ MaxLine \in Nat

VARIABLES
    uartPc,         \* where the thread is
    exitSignal,     \* g_uart_trace_exit_signal
    pollStatus,     \* poll_status
    rx,             \* g_uart_buf[0 .. uart_buf_offset - 1] while polling
    leftEdge,       \* poll_window_left_edge
    frame,          \* what ReadUART has put into g_uart_buf
    lineIs,         \* what the line is, in Lines
    line,           \* bytes on the line and in the tty driver
    noise           \* noise bytes so far

uartVars == <<uartPc, exitSignal, pollStatus, rx, leftEdge, frame, lineIs, line, noise>>
vars == <<uartVars, policyVars>>

-----------------------------------------------------------------------------

PollResponse == <<168, 1, 51>>      \* A8 01 33
BelowZero == 128                    \* XX == 0x80
QueryResponse(sign, deg) == <<168, 1, sign, deg, 0>>    \* A8 01 XX NM YZ

(***************************************************************************)
(* Every byte that may come off the line may turn up in the fourth place   *)
(* of a frame, where the policy takes it for degrees.                      *)
(***************************************************************************)
LineBytes == {168, 1, 51, 0, BelowZero} \union SensorDegrees \union NoiseBytes

ASSUME LineBytesAssumption == LineBytes \subseteq Degrees

PollRead == 3                       \* bytes asked of the driver per poll read
FrameLen == 5                       \* bytes asked of the driver per query read

offset == Len(rx)                   \* uart_buf_offset

Take(s, k) == SubSeq(s, 1, k)
Drop(s, k) == SubSeq(s, k + 1, Len(s))

(***************************************************************************)
(* How many bytes read(fd, ., n) may return, errors apart.                 *)
(***************************************************************************)
ReadCounts(n) ==
    LET most == IF n < Len(line) THEN n ELSE Len(line)
    IN  IF lineIs.late THEN 0..most ELSE {most}

(***************************************************************************)
(* What becomes of an answer of the sensor.                                *)
(***************************************************************************)
Received(answer) ==
    {r \in IF lineIs.lossy THEN {<<>>, answer, Tail(answer)} ELSE {answer} :
        Len(line) + Len(r) <= MaxLine}

-----------------------------------------------------------------------------

ThreadInit ==
    /\ PolicyInit
    /\ uartPc = "open" /\ exitSignal = FALSE /\ pollStatus = "NOT_READY"
    /\ rx = <<>> /\ leftEdge = 0 /\ frame = <<>>
    /\ lineIs \in Lines /\ line = <<>> /\ noise = 0

OpenUART ==
    /\ uartPc = "open"
    /\ \E opened \in BOOLEAN : uartPc' = IF opened THEN "pollWrite" ELSE "done"
    /\ UNCHANGED <<lineIs, exitSignal, pollStatus, rx, leftEdge, frame, line, noise,
                   policyVars>>

(***************************************************************************)
(* WriteUART succeeds unless the exit signal is set or write() fails; the  *)
(* sensor answers the command it receives.  A write() that takes part of   *)
(* the command goes round the loop of WriteUART and changes nothing that   *)
(* is modelled: it is a stuttering step, before each of which the signal   *)
(* is looked at as before the first (ExitSeen, UartError).                 *)
(***************************************************************************)
PollWriteUART ==
    /\ uartPc = "pollWrite" /\ ~exitSignal
    /\ \E r \in Received(PollResponse) : line' = line \o r
    /\ uartPc' = "pollRead"
    /\ UNCHANGED <<lineIs, exitSignal, pollStatus, rx, leftEdge, frame, noise,
                   policyVars>>

PollReadNothing ==
    /\ uartPc = "pollRead" /\ ~exitSignal
    /\ 0 \in ReadCounts(PollRead)
    /\ uartPc' = "pollSleep" /\ pollStatus' = "NOT_READY"
    /\ UNCHANGED <<lineIs, exitSignal, rx, leftEdge, frame, line, noise, policyVars>>

(***************************************************************************)
(* The response starts at the i-th byte of the buffer buf (from 0).        *)
(***************************************************************************)
ResponseAt(buf, i) == SubSeq(buf, i + 1, i + 3) = PollResponse

(***************************************************************************)
(* The window is searched from its left edge; without a match the edge     *)
(* moves past every byte a response can no longer start at.                *)
(***************************************************************************)
Matched(buf) == \E i \in leftEdge .. Len(buf) - 3 : ResponseAt(buf, i)

\* Mutant: the edge moves past the start of a response not yet complete.
NextLeftEdge_Whole(buf) ==
    IF Len(buf) - leftEdge >= 3 THEN Len(buf) ELSE leftEdge

NextLeftEdge(buf) ==
    IF Len(buf) - leftEdge >= 3 THEN Len(buf) - 2 ELSE leftEdge

\* Mutant: the buffer is exhausted only when it is full.
Exhausted_WhenFull(buf) == Len(buf) >= UartBufSize

Exhausted(buf) == Len(buf) >= UartBufSize - 3

(***************************************************************************)
(* A match empties the driver (one read of the whole buffer) and ends the  *)
(* polling; the polling buffer is not used again.                          *)
(***************************************************************************)
PollReadSome ==
    /\ uartPc = "pollRead" /\ ~exitSignal
    /\ \E k \in ReadCounts(PollRead) \ {0} :
         LET buf == rx \o Take(line, k)
             rest == Drop(line, k)
         IN  IF Matched(buf)
             THEN /\ \E m \in IF lineIs.late THEN 0..Len(rest) ELSE {Len(rest)} :
                        line' = Drop(rest, m)
                  /\ pollStatus' = "OK" /\ uartPc' = "queryWrite"
                  /\ rx' = <<>> /\ leftEdge' = 0
             ELSE /\ line' = rest
                  /\ rx' = buf /\ leftEdge' = NextLeftEdge(buf)
                  /\ IF Exhausted(buf)
                     THEN pollStatus' = "ERR_EXAUSTED_BUF" /\ uartPc' = "close"
                     ELSE UNCHANGED <<pollStatus, uartPc>>
    /\ UNCHANGED <<lineIs, exitSignal, frame, noise, policyVars>>

PollSleep ==
    /\ uartPc = "pollSleep" /\ uartPc' = "pollWrite"
    /\ UNCHANGED <<lineIs, exitSignal, pollStatus, rx, leftEdge, frame, line, noise,
                   policyVars>>

QueryWriteUART ==
    /\ uartPc = "queryWrite" /\ ~exitSignal
    /\ \E sign \in {0, BelowZero}, deg \in SensorDegrees :
         \E r \in Received(QueryResponse(sign, deg)) : line' = line \o r
    /\ frame' = <<>>
    /\ uartPc' = "queryRead"
    /\ UNCHANGED <<lineIs, exitSignal, pollStatus, rx, leftEdge, noise, policyVars>>

(***************************************************************************)
(* One turn of ReadUART's loop.  Every read() asks for the whole size, not *)
(* for what is still missing, so a frame read in pieces may take bytes     *)
(* beyond its fifth from the line; they are dropped.                       *)
(***************************************************************************)
ReadUART ==
    /\ uartPc = "queryRead" /\ ~exitSignal
    /\ \E k \in ReadCounts(FrameLen) :
         /\ frame' = frame \o Take(line, k)
         /\ line' = Drop(line, k)
         /\ uartPc' = IF Len(frame') < FrameLen THEN "queryRead" ELSE "sample"
    /\ UNCHANGED <<lineIs, exitSignal, pollStatus, rx, leftEdge, noise, policyVars>>

(***************************************************************************)
(* g_uart_buf[3] goes to the payment policy; the sign byte is not read.    *)
(***************************************************************************)
SampleTemperature ==
    /\ uartPc = "sample"
    /\ Sample(frame[4])
    /\ uartPc' = IF PayDue(frame[4]) THEN "transfer" ELSE "sleep"
    /\ UNCHANGED <<lineIs, exitSignal, pollStatus, rx, leftEdge, frame, line, noise>>

(***************************************************************************)
(* CallUsdcTransfer returns; its result is not looked at.                  *)
(***************************************************************************)
CallUsdcTransfer ==
    /\ uartPc = "transfer" /\ uartPc' = "sleep"
    /\ UNCHANGED <<lineIs, exitSignal, pollStatus, rx, leftEdge, frame, line, noise,
                   policyVars>>

SampleSleep ==
    /\ uartPc = "sleep" /\ uartPc' = "queryWrite"
    /\ UNCHANGED <<lineIs, exitSignal, pollStatus, rx, leftEdge, frame, line, noise,
                   policyVars>>

\* Mutant: ReadUART does not look at the exit signal.
ExitSeen_NotInReadUART ==
    /\ exitSignal
    /\ uartPc \in {"pollWrite", "pollRead", "queryWrite"}
    /\ uartPc' = "close"
    /\ UNCHANGED <<lineIs, exitSignal, pollStatus, rx, leftEdge, frame, line, noise,
                   policyVars>>

(***************************************************************************)
(* The exit signal is looked at before every write() and read(); a read()  *)
(* or write() may fail too, on its own or because the signal interrupts it.*)
(***************************************************************************)
ExitSeen ==
    /\ exitSignal
    /\ uartPc \in {"pollWrite", "pollRead", "queryWrite", "queryRead"}
    /\ uartPc' = "close"
    /\ pollStatus' = CASE uartPc = "pollRead" -> "ERR_SIGINT"
                       [] uartPc = "pollWrite" -> "ERR_UART"
                       [] OTHER -> pollStatus
    /\ UNCHANGED <<lineIs, exitSignal, rx, leftEdge, frame, line, noise, policyVars>>

UartError ==
    /\ uartPc \in {"pollWrite", "pollRead", "queryWrite", "queryRead"}
    /\ uartPc' = "close"
    /\ pollStatus' = IF uartPc \in {"pollWrite", "pollRead"} THEN "ERR_UART"
                     ELSE pollStatus
    /\ UNCHANGED <<lineIs, exitSignal, rx, leftEdge, frame, line, noise, policyVars>>

CloseUART ==
    /\ uartPc = "close" /\ uartPc' = "done"
    /\ UNCHANGED <<lineIs, exitSignal, pollStatus, rx, leftEdge, frame, line, noise,
                   policyVars>>

(***************************************************************************)
(* Environment: SIGINT, and noise on the line before the first match.      *)
(***************************************************************************)
HandleSignal ==
    /\ uartPc # "done" /\ ~exitSignal /\ exitSignal' = TRUE
    /\ UNCHANGED <<lineIs, uartPc, pollStatus, rx, leftEdge, frame, line, noise,
                   policyVars>>

LineNoise ==
    /\ lineIs.lossy /\ noise < MaxNoise /\ Len(line) < MaxLine
    /\ pollStatus = "NOT_READY"
    /\ \E b \in NoiseBytes : line' = Append(line, b)
    /\ noise' = noise + 1
    /\ UNCHANGED <<lineIs, uartPc, exitSignal, pollStatus, rx, leftEdge, frame, policyVars>>

-----------------------------------------------------------------------------

ThreadStep ==
    \/ OpenUART \/ PollWriteUART \/ PollReadNothing \/ PollReadSome
    \/ PollSleep \/ QueryWriteUART \/ ReadUART \/ SampleTemperature
    \/ CallUsdcTransfer \/ SampleSleep \/ ExitSeen \/ CloseUART

ThreadNext == ThreadStep \/ UartError \/ HandleSignal \/ LineNoise

(***************************************************************************)
(* The thread keeps running: reads return after the tty's timeout and a    *)
(* transfer ends.  Nothing makes the line fail or the signal come.         *)
(***************************************************************************)
ThreadSpec ==
    /\ ThreadInit /\ [][ThreadNext]_vars
    /\ WF_vars(ThreadStep)

-----------------------------------------------------------------------------

ThreadTypeOK ==
    /\ PolicyTypeOK
    /\ uartPc \in {"open", "pollWrite", "pollRead", "pollSleep", "queryWrite",
               "queryRead", "sample", "transfer", "sleep", "close", "done"}
    /\ exitSignal \in BOOLEAN
    /\ pollStatus \in {"OK", "NOT_READY", "ERR_SIGINT", "ERR_EXAUSTED_BUF",
                       "ERR_UART"}
    /\ rx \in Seq(0..255) /\ frame \in Seq(0..255) /\ line \in Seq(0..255)
    /\ leftEdge \in 0..UartBufSize
    /\ lineIs \in Lines /\ noise \in 0..MaxNoise

(***************************************************************************)
(* While the thread keeps polling, the bytes received so far hold no       *)
(* response: moving the left edge of the window never steps over one,      *)
(* however the driver cuts the stream into reads (lines 304-322).          *)
(***************************************************************************)
NoResponseMissed ==
    uartPc \in {"pollWrite", "pollRead", "pollSleep"} =>
        ~\E i \in 0 .. offset - 3 : ResponseAt(rx, i)

(***************************************************************************)
(* No read writes past the end of g_uart_buf: not the three bytes asked    *)
(* for at uart_buf_offset (line 278), not the five ReadUART asks for after *)
(* a partial read (line 143).                                              *)
(***************************************************************************)
ReadsFitBuffer ==
    /\ uartPc = "pollRead" => offset + PollRead <= UartBufSize
    /\ uartPc = "queryRead" => Len(frame) + FrameLen <= UartBufSize

(***************************************************************************)
(* After SIGINT the thread ends, also while the sensor is silent and       *)
(* ReadUART waits for bytes that never come (lines 141, 162, 271).         *)
(***************************************************************************)
ExitEndsThread == exitSignal ~> (uartPc = "done")

=============================================================================
