---------------------------- MODULE Robots_proofs ----------------------------
(***************************************************************************)
(* Proofs about the two robots.  The policy that decides on payments, for  *)
(* every interval a char can hold and every set of bytes the sensor may    *)
(* report; ThermalThread, for every line, every buffer of at least 9 bytes *)
(* and every amount of noise; ACRobot, for every word size, threshold,     *)
(* countdown, set of payments and initial balance, with and without        *)
(* failures; RobotsDemo, for every payment, threshold, countdown and       *)
(* interval.                                                               *)
(***************************************************************************)
EXTENDS RobotsDemo, ThermalThread, SequenceTheorems, TLAPS

-----------------------------------------------------------------------------
\* The policy

(***************************************************************************)
(* The countdown is what is left of the interval since the last payment.   *)
(***************************************************************************)
IntervalInv ==
    countTransfer = IF sincePay < TransferInterval
                    THEN TransferInterval - sincePay ELSE 0

(***************************************************************************)
(* The debounce counter never exceeds the run of hot samples, and is only  *)
(* zero when there is none.                                                *)
(***************************************************************************)
RunInv ==
    /\ countTemperature <= hotRun
    /\ hotRun > 0 => countTemperature > 0
    /\ pay => hotRun > Debounce

(***************************************************************************)
(* In a longer run the counter is 1 only after it was at the limit, and    *)
(* then either a payment was made or the interval was not over; it is 2    *)
(* only one sample later.                                                  *)
(***************************************************************************)
DueInv ==
    /\ countTemperature = 1 /\ hotRun > 1 => sincePay < TransferInterval
    /\ countTemperature = 2 /\ hotRun > 2 => sincePay <= TransferInterval

PolicyInv == PolicyTypeOK /\ IntervalInv /\ RunInv /\ DueInv

LEMMA PolicyInitInv == PolicyInit => PolicyInv
  <1> SUFFICES ASSUME PolicyInit PROVE PolicyInv
    OBVIOUS
  <1> USE TransferIntervalAssumption DEF PolicyInit, HistoryCap, Debounce
  <1>1. PolicyTypeOK
    <2>1. pay \in BOOLEAN
      BY Zenon
    <2>2. /\ countTemperature \in 0..Debounce
          /\ countTransfer \in 0..TransferInterval
          /\ hotRun \in 0..HistoryCap
          /\ sincePay \in 0..HistoryCap
      BY SMT
    <2> QED
      BY <2>1, <2>2, Zenon DEF PolicyTypeOK
  <1>2. IntervalInv
    BY DEF IntervalInv
  <1>3. RunInv
    BY DEF RunInv
  <1>4. DueInv
    BY DEF DueInv
  <1> QED
    BY <1>1, <1>2, <1>3, <1>4 DEF PolicyInv

(***************************************************************************)
(* One sample preserves the invariant.                                     *)
(***************************************************************************)
LEMMA SampleInv ==
  ASSUME NEW deg \in Degrees, PolicyInv, Sample(deg)
  PROVE  PolicyInv'
  <1> USE TransferIntervalAssumption
          DEF PolicyInv, PolicyTypeOK, HistoryCap, Debounce, Tick, Countdown
  <1> DEFINE counted == countTemperature + 1
  <1>1. hotRun' = IF Hot(deg) THEN Tick(hotRun) ELSE 0
    BY DEF Sample
  <1>2. sincePay' = IF PayDue(deg) THEN 0 ELSE Tick(sincePay)
    BY DEF Sample
  <1>3. countTransfer' = IF PayDue(deg) THEN TransferInterval
                         ELSE Countdown(countTransfer)
    BY DEF Sample, NextCountTransfer
  <1>4. countTemperature' = IF ~Hot(deg) THEN 0
                            ELSE IF counted > Debounce THEN 1 ELSE counted
    BY DEF Sample, NextCountTemperature
  <1>5. pay' = PayDue(deg)
    BY DEF Sample
  <1>6. PayDue(deg) <=> /\ Hot(deg) /\ counted > Debounce
                        /\ sincePay + 1 >= TransferInterval
    BY DEF PayDue, IntervalInv
  <1>7. PolicyTypeOK'
    BY <1>1, <1>2, <1>3, <1>4, <1>5 DEF PayDue
  <1>8. IntervalInv'
    BY <1>2, <1>3 DEF IntervalInv
  <1>9. RunInv'
    BY <1>1, <1>4, <1>5, <1>6 DEF RunInv
  <1>10. DueInv'
    BY <1>1, <1>2, <1>4, <1>6 DEF DueInv, RunInv
  <1> QED
    BY <1>7, <1>8, <1>9, <1>10

LEMMA PolicyStepInv == PolicyInv /\ [PolicyNext]_policyVars => PolicyInv'
  <1> SUFFICES ASSUME PolicyInv, [PolicyNext]_policyVars
               PROVE  PolicyInv'
    OBVIOUS
  <1>1. CASE PolicyNext
    BY <1>1, SampleInv DEF PolicyNext
  <1>2. CASE UNCHANGED policyVars
    BY <1>2 DEF policyVars, PolicyInv, PolicyTypeOK, IntervalInv, RunInv,
                DueInv
  <1> QED
    BY <1>1, <1>2

(***************************************************************************)
(* The counters of the sampling loop stay in their range: neither char     *)
(* overflows.                                                              *)
(***************************************************************************)
THEOREM PolicyTypeCorrect == PolicySpec => []PolicyTypeOK
  <1>1. PolicySpec => []PolicyInv
    BY PolicyInitInv, PolicyStepInv, PTL DEF PolicySpec
  <1> QED
    BY <1>1, PTL DEF PolicyInv

(***************************************************************************)
(* The robot pays only after more than Debounce consecutive hot samples,   *)
(* and a due payment is at most one sample late.                           *)
(***************************************************************************)
THEOREM PolicyPaysForHeat == PolicySpec => []PaysForHeat
  <1>1. PolicySpec => []PolicyInv
    BY PolicyInitInv, PolicyStepInv, PTL DEF PolicySpec
  <1>2. PolicyInv => PaysForHeat
    BY TransferIntervalAssumption
       DEF PolicyInv, PolicyTypeOK, RunInv, DueInv, PaysForHeat, Debounce,
           HistoryCap
  <1> QED
    BY <1>1, <1>2, PTL

(***************************************************************************)
(* Two payments are at least TransferInterval samples apart.               *)
(***************************************************************************)
THEOREM PolicyPaymentsSpaced == PolicySpec => PaymentsSpaced
  <1>1. PolicySpec => []PolicyInv
    BY PolicyInitInv, PolicyStepInv, PTL DEF PolicySpec
  <1>2. PolicyInv /\ [PolicyNext]_policyVars =>
          [pay' => sincePay + 1 >= TransferInterval]_policyVars
    <2> SUFFICES ASSUME PolicyInv, NEW deg \in Degrees, Sample(deg), pay'
                 PROVE  sincePay + 1 >= TransferInterval
      BY DEF PolicyNext
    <2>1. Countdown(countTransfer) = 0
      BY DEF Sample, PayDue
    <2> QED
      BY <2>1, TransferIntervalAssumption
         DEF Countdown, PolicyInv, PolicyTypeOK, IntervalInv, HistoryCap
  <1> QED
    BY <1>1, <1>2, PTL DEF PolicySpec, PaymentsSpaced

-----------------------------------------------------------------------------
\* The thread

(***************************************************************************)
(* Only bytes of the line are ever in a buffer.                            *)
(***************************************************************************)
BytesInv ==
    /\ line \in Seq(Degrees)
    /\ rx \in Seq(Degrees)
    /\ frame \in Seq(Degrees)

(***************************************************************************)
(* ReadUART leaves its loop exactly when the frame is complete.            *)
(***************************************************************************)
FrameInv ==
    /\ uartPc = "queryRead" => Len(frame) < FrameLen
    /\ uartPc = "sample" => Len(frame) >= FrameLen

(***************************************************************************)
(* The left edge never stands behind the last place at which a response    *)
(* that is still incomplete can start, and there is room for another read. *)
(***************************************************************************)
Polling == {"open", "pollWrite", "pollRead", "pollSleep"}

WindowInv ==
    /\ leftEdge \in Nat
    /\ leftEdge = 0 \/ leftEdge <= Len(rx) - 2
    /\ Len(rx) <= UartBufSize
    /\ uartPc \in Polling =>
          /\ Len(rx) + PollRead <= UartBufSize
          /\ \A i \in 0 .. Len(rx) - 3 : ~ResponseAt(rx, i)

ThreadInv == BytesInv /\ FrameInv /\ WindowInv

-----------------------------------------------------------------------------

LEMMA TakeDropType ==
    ASSUME NEW S, NEW s \in Seq(S), NEW k \in 0 .. Len(s)
    PROVE  /\ Take(s, k) \in Seq(S) /\ Len(Take(s, k)) = k
           /\ Drop(s, k) \in Seq(S) /\ Len(Drop(s, k)) = Len(s) - k
  BY DEF Take, Drop

LEMMA ReadCountsBounded ==
    ASSUME BytesInv, NEW n \in Nat
    PROVE  ReadCounts(n) \subseteq 0 .. Len(line) /\ ReadCounts(n) \subseteq 0 .. n
  BY DEF BytesInv, ReadCounts

LEMMA MessagesAreLineBytes ==
    /\ PollResponse \in Seq(Degrees)
    /\ \A sign \in {0, BelowZero}, deg \in SensorDegrees :
          QueryResponse(sign, deg) \in Seq(Degrees)
  <1> USE LineBytesAssumption DEF LineBytes
  <1>1. PollResponse \in Seq(Degrees)
    BY DEF PollResponse
  <1>2. ASSUME NEW sign \in {0, BelowZero}, NEW deg \in SensorDegrees
        PROVE  QueryResponse(sign, deg) \in Seq(Degrees)
    BY DEF QueryResponse
  <1> QED
    BY <1>1, <1>2

(***************************************************************************)
(* A prefix of a buffer holds the responses the buffer holds there.        *)
(***************************************************************************)
LEMMA ResponseInPrefix ==
    ASSUME NEW s \in Seq(Degrees), NEW t \in Seq(Degrees), NEW i \in 0 .. Len(s) - 3
    PROVE  ResponseAt(s \o t, i) <=> ResponseAt(s, i)
  <1>1. SubSeq(s \o t, i + 1, i + 3) = SubSeq(s, i + 1, i + 3)
    OBVIOUS
  <1> QED
    BY <1>1 DEF ResponseAt

(***************************************************************************)
(* A search from the left edge that finds nothing has seen every response. *)
(***************************************************************************)
LEMMA WindowSeesAll ==
    ASSUME NEW t \in Seq(Degrees), rx \in Seq(Degrees), leftEdge \in Nat,
           leftEdge = 0 \/ leftEdge <= Len(rx) - 2,
           \A i \in 0 .. Len(rx) - 3 : ~ResponseAt(rx, i),
           ~Matched(rx \o t)
    PROVE  \A i \in 0 .. Len(rx \o t) - 3 : ~ResponseAt(rx \o t, i)
  <1> SUFFICES ASSUME NEW i \in 0 .. Len(rx \o t) - 3
               PROVE  ~ResponseAt(rx \o t, i)
    OBVIOUS
  <1>1. CASE i >= leftEdge
    BY <1>1 DEF Matched
  <1>2. CASE i < leftEdge
    <2>1. i \in 0 .. Len(rx) - 3
      BY <1>2
    <2> QED
      BY <2>1, ResponseInPrefix
  <1> QED
    BY <1>1, <1>2

-----------------------------------------------------------------------------

LEMMA AnswersAreLineBytes ==
    ASSUME NEW answer \in Seq(Degrees), answer # <<>>, NEW r \in Received(answer)
    PROVE  r \in Seq(Degrees)
  <1>1. Tail(answer) \in Seq(Degrees)
    BY HeadTailProperties
  <1>2. r \in IF lineIs.lossy THEN {<<>>, answer, Tail(answer)} ELSE {answer}
    BY Zenon DEF Received
  <1>3. r = <<>> \/ r = answer \/ r = Tail(answer)
    BY <1>2, Zenon
  <1>4. <<>> \in Seq(Degrees)
    OBVIOUS
  <1> QED
    BY <1>1, <1>3, <1>4, Zenon

LEMMA ThreadInitInv == ThreadInit => ThreadInv
  <1> SUFFICES ASSUME ThreadInit PROVE ThreadInv
    OBVIOUS
  <1> USE UartAssumption DEF ThreadInit
  <1>1. BytesInv
    BY DEF BytesInv
  <1>2. FrameInv
    BY DEF FrameInv
  <1>3. WindowInv
    BY DEF WindowInv, PollRead
  <1> QED
    BY <1>1, <1>2, <1>3 DEF ThreadInv

(***************************************************************************)
(* The steps that leave the buffers and the line alone.                    *)
(***************************************************************************)
LEMMA QuietSteps ==
    ASSUME ThreadInv, UNCHANGED <<rx, leftEdge, frame, line>>,
           uartPc' \in Polling => uartPc \in Polling,
           uartPc' = uartPc \/ uartPc' \notin {"queryRead", "sample"}
    PROVE  ThreadInv'
  BY DEF ThreadInv, BytesInv, FrameInv, WindowInv, ResponseAt

(***************************************************************************)
(* The steps that only put bytes on the line.                              *)
(***************************************************************************)
LEMMA LineSteps ==
    ASSUME ThreadInv, UNCHANGED <<rx, leftEdge>>, frame' = frame \/ frame' = <<>>,
           line' \in Seq(Degrees),
           uartPc' \in Polling => uartPc \in Polling,
           \/ (uartPc' = uartPc /\ frame' = frame)
           \/ (uartPc' = "queryRead" /\ frame' = <<>>)
           \/ uartPc' \notin {"queryRead", "sample"}
    PROVE  ThreadInv'
  <1>1. BytesInv'
    <2>1. <<>> \in Seq(Degrees)
      OBVIOUS
    <2> QED
      BY <2>1, Zenon DEF ThreadInv, BytesInv
  <1>2. FrameInv'
    <2>1. frame' = <<>> => Len(frame') = 0
      OBVIOUS
    <2> QED
      BY <2>1 DEF ThreadInv, FrameInv, FrameLen
  <1>3. WindowInv'
    BY DEF ThreadInv, WindowInv, ResponseAt
  <1> QED
    BY <1>1, <1>2, <1>3 DEF ThreadInv

LEMMA PollReadSomeInv == ThreadInv /\ PollReadSome => ThreadInv'
  <1> SUFFICES ASSUME ThreadInv, PollReadSome PROVE ThreadInv'
    OBVIOUS
  <1>1. PICK k \in ReadCounts(PollRead) \ {0} :
          LET buf == rx \o Take(line, k)
              rest == Drop(line, k)
          IN  IF Matched(buf)
              THEN /\ \E m \in IF lineIs.late THEN 0..Len(rest) ELSE {Len(rest)} :
                         line' = Drop(rest, m)
                   /\ pollStatus' = "OK" /\ uartPc' = "queryWrite"
                   /\ rx' = <<>> /\ leftEdge' = 0
              ELSE /\ line' = rest
                   /\ rx' = buf /\ leftEdge' = NextLeftEdge(buf)
                   /\ IF Exhausted(buf)
                      THEN pollStatus' = "ERR_EXAUSTED_BUF" /\ uartPc' = "close"
                      ELSE UNCHANGED <<pollStatus, uartPc>>
    BY DEF PollReadSome
  <1> DEFINE read == Take(line, k)
             buf == rx \o read
             rest == Drop(line, k)
  <1>2. uartPc = "pollRead" /\ frame' = frame
    BY DEF PollReadSome
  <1>3. k \in 1 .. Len(line) /\ k <= PollRead
    <2>1. ReadCounts(PollRead) \subseteq 0 .. Len(line)
          /\ ReadCounts(PollRead) \subseteq 0 .. PollRead
      BY ReadCountsBounded DEF ThreadInv, PollRead
    <2>2. k \in 0 .. Len(line) /\ k \in 0 .. PollRead /\ k # 0
      BY <2>1
    <2> QED
      BY <2>2 DEF ThreadInv, BytesInv, PollRead
  <1>4. read \in Seq(Degrees) /\ Len(read) = k /\ rest \in Seq(Degrees)
    BY <1>3, TakeDropType DEF ThreadInv, BytesInv
  <1>5. rx \in Seq(Degrees) /\ frame \in Seq(Degrees)
    BY DEF ThreadInv, BytesInv
  <1>6. buf \in Seq(Degrees) /\ Len(buf) = Len(rx) + k
    <2> HIDE DEF read
    <2> QED
      BY <1>4, <1>5 DEF buf
  <1> HIDE DEF read, rest
  <1>7. CASE Matched(buf)
    <2>1. PICK m \in 0 .. Len(rest) : line' = Drop(rest, m)
      BY <1>1, <1>4, <1>7 DEF buf, rest, read
    <2>2. line' \in Seq(Degrees)
      BY <2>1, <1>4, TakeDropType
    <2>3. uartPc' = "queryWrite" /\ rx' = <<>> /\ leftEdge' = 0
      BY <1>1, <1>7 DEF buf, rest, read
    <2> QED
      BY <2>2, <2>3, <1>2, <1>5, UartAssumption
         DEF ThreadInv, BytesInv, FrameInv, WindowInv, Polling
  <1>8. CASE ~Matched(buf)
    <2>1. /\ line' = rest /\ rx' = buf /\ leftEdge' = NextLeftEdge(buf)
          /\ IF Exhausted(buf) THEN uartPc' = "close" ELSE uartPc' = uartPc
      BY <1>1, <1>8 DEF buf, rest, read
    <2>2. BytesInv'
      BY <2>1, <1>2, <1>4, <1>5, <1>6 DEF BytesInv
    <2>3. FrameInv'
      BY <2>1, <1>2 DEF FrameInv
    <2>4. /\ leftEdge \in Nat /\ (leftEdge = 0 \/ leftEdge <= Len(rx) - 2)
          /\ Len(rx) + PollRead <= UartBufSize
          /\ \A i \in 0 .. Len(rx) - 3 : ~ResponseAt(rx, i)
      BY <1>2 DEF ThreadInv, WindowInv, Polling
    <2>5. Len(rx) \in Nat /\ Len(buf) \in Nat /\ k \in Nat
      BY <1>3, <1>5, <1>6
    <2>6. leftEdge' \in Nat /\ (leftEdge' = 0 \/ leftEdge' <= Len(rx') - 2)
      <3> HIDE DEF buf
      <3> QED
        BY <2>1, <2>4, <2>5, <1>6 DEF NextLeftEdge
    <2>7. ~Exhausted(buf) => Len(buf) + PollRead <= UartBufSize
      <3> HIDE DEF buf
      <3> QED
        BY <2>5, UartAssumption DEF Exhausted, PollRead
    <2>8. \A i \in 0 .. Len(buf) - 3 : ~ResponseAt(buf, i)
      BY <2>4, <1>4, <1>5, <1>8, WindowSeesAll
    <2>9. uartPc' \in Polling => ~Exhausted(buf)
      BY <2>1 DEF Polling
    <2>10. \A i \in 0 .. Len(rx') - 3 : ~ResponseAt(rx', i)
      BY <2>1, <2>8
    <2>11. uartPc' \in Polling => Len(rx') + PollRead <= UartBufSize
      BY <2>1, <2>7, <2>9
    <2>12. Len(rx') <= UartBufSize
      <3> HIDE DEF buf
      <3> QED
        BY <1>3, <1>6, <2>1, <2>4, <2>5, UartAssumption DEF PollRead
    <2>13. WindowInv'
      BY <2>6, <2>10, <2>11, <2>12 DEF WindowInv, ResponseAt
    <2> QED
      BY <2>2, <2>3, <2>13 DEF ThreadInv
  <1> QED
    BY <1>7, <1>8

LEMMA ReadUARTInv == ThreadInv /\ ReadUART => ThreadInv'
  <1> SUFFICES ASSUME ThreadInv, ReadUART PROVE ThreadInv'
    OBVIOUS
  <1>1. PICK k \in ReadCounts(FrameLen) :
          /\ frame' = frame \o Take(line, k)
          /\ line' = Drop(line, k)
          /\ uartPc' = IF Len(frame') < FrameLen THEN "queryRead" ELSE "sample"
    BY DEF ReadUART
  <1>2. UNCHANGED <<rx, leftEdge>>
    BY DEF ReadUART
  <1>3. k \in 0 .. Len(line)
    BY ReadCountsBounded DEF ThreadInv, FrameLen
  <1>4. /\ Take(line, k) \in Seq(Degrees) /\ line' \in Seq(Degrees)
        /\ frame \in Seq(Degrees)
    BY <1>1, <1>3, TakeDropType DEF ThreadInv, BytesInv
  <1>5. frame' \in Seq(Degrees) /\ Len(frame') \in Nat
    BY <1>1, <1>4
  <1>6. BytesInv'
    BY <1>2, <1>4, <1>5 DEF ThreadInv, BytesInv
  <1>7. FrameInv'
    BY <1>1, <1>5 DEF FrameInv, FrameLen
  <1>8. WindowInv'
    BY <1>1, <1>2 DEF ThreadInv, WindowInv, Polling, ResponseAt
  <1> QED
    BY <1>6, <1>7, <1>8 DEF ThreadInv

(***************************************************************************)
(* Every step preserves the invariant.                                     *)
(***************************************************************************)
LEMMA ThreadStepInv == ThreadInv /\ [ThreadNext]_vars => ThreadInv'
  <1> SUFFICES ASSUME ThreadInv, [ThreadNext]_vars PROVE ThreadInv'
    OBVIOUS
  <1> USE DEF Polling
  <1>0. line \in Seq(Degrees)
    BY DEF ThreadInv, BytesInv
  <1>1. CASE OpenUART
    BY <1>1, QuietSteps DEF OpenUART
  <1>2. CASE PollWriteUART
    <2>1. PICK r \in Received(PollResponse) : line' = line \o r
      BY <1>2 DEF PollWriteUART
    <2>2. PollResponse # <<>>
      BY DEF PollResponse
    <2>3. r \in Seq(Degrees)
      BY <2>1, <2>2, MessagesAreLineBytes, AnswersAreLineBytes
    <2>4. line' \in Seq(Degrees)
      BY <1>0, <2>1, <2>3
    <2> QED
      BY <1>2, <2>4, LineSteps DEF PollWriteUART
  <1>3. CASE PollReadNothing
    BY <1>3, QuietSteps DEF PollReadNothing
  <1>4. CASE PollReadSome
    BY <1>4, PollReadSomeInv
  <1>5. CASE PollSleep
    BY <1>5, QuietSteps DEF PollSleep
  <1>6. CASE QueryWriteUART
    <2>1. PICK sign \in {0, BelowZero}, deg \in SensorDegrees :
            \E r \in Received(QueryResponse(sign, deg)) : line' = line \o r
      BY <1>6 DEF QueryWriteUART
    <2>2. QueryResponse(sign, deg) # <<>>
      BY DEF QueryResponse
    <2>3. QueryResponse(sign, deg) \in Seq(Degrees)
      BY MessagesAreLineBytes
    <2>4. line' \in Seq(Degrees)
      BY <1>0, <2>1, <2>2, <2>3, AnswersAreLineBytes
    <2> QED
      BY <1>6, <2>4, LineSteps DEF QueryWriteUART
  <1>7. CASE ReadUART
    BY <1>7, ReadUARTInv
  <1>8. CASE SampleTemperature
    BY <1>8, QuietSteps DEF SampleTemperature
  <1>9. CASE CallUsdcTransfer
    BY <1>9, QuietSteps DEF CallUsdcTransfer
  <1>10. CASE SampleSleep
    BY <1>10, QuietSteps DEF SampleSleep
  <1>11. CASE ExitSeen
    BY <1>11, QuietSteps DEF ExitSeen
  <1>12. CASE CloseUART
    BY <1>12, QuietSteps DEF CloseUART
  <1>13. CASE UartError
    BY <1>13, QuietSteps DEF UartError
  <1>14. CASE HandleSignal
    BY <1>14, QuietSteps DEF HandleSignal
  <1>15. CASE LineNoise
    <2>1. PICK b \in NoiseBytes : line' = Append(line, b)
      BY <1>15 DEF LineNoise
    <2>2. b \in Degrees
      BY LineBytesAssumption DEF LineBytes
    <2>3. line' \in Seq(Degrees)
      BY <1>0, <2>1, <2>2, AppendProperties
    <2> QED
      BY <1>15, <2>3, LineSteps DEF LineNoise
  <1>16. CASE UNCHANGED vars
    BY <1>16, QuietSteps DEF vars, uartVars
  <1> QED
    BY <1>1, <1>2, <1>3, <1>4, <1>5, <1>6, <1>7, <1>8, <1>9, <1>10, <1>11, <1>12,
       <1>13, <1>14, <1>15, <1>16 DEF ThreadNext, ThreadStep

(***************************************************************************)
(* Every step is a sample of the policy or leaves it alone.                *)
(***************************************************************************)
LEMMA ThreadStepSimulates ==
    ThreadInv /\ [ThreadNext]_vars => [PolicyNext]_policyVars
  <1> SUFFICES ASSUME ThreadInv, [ThreadNext]_vars PROVE [PolicyNext]_policyVars
    OBVIOUS
  <1>1. CASE SampleTemperature
    <2>1. uartPc = "sample" /\ Sample(frame[4])
      BY <1>1 DEF SampleTemperature
    <2>2. frame[4] \in Degrees
      BY <2>1 DEF ThreadInv, BytesInv, FrameInv, FrameLen
    <2> QED
      BY <2>1, <2>2, Zenon DEF PolicyNext
  <1>2. CASE ThreadNext /\ ~SampleTemperature
    BY <1>2, Zenon
       DEF ThreadNext, ThreadStep, OpenUART, PollWriteUART, PollReadNothing,
           PollReadSome, PollSleep, QueryWriteUART, ReadUART, CallUsdcTransfer,
           SampleSleep, ExitSeen, CloseUART, UartError, HandleSignal, LineNoise
  <1>3. CASE UNCHANGED vars
    BY <1>3, Zenon DEF vars
  <1> QED
    BY <1>1, <1>2, <1>3

-----------------------------------------------------------------------------

LEMMA ThreadInvariant == ThreadSpec => []ThreadInv
  BY ThreadInitInv, ThreadStepInv, PTL DEF ThreadSpec

(***************************************************************************)
(* Polling never steps over a response of the sensor, wherever the driver  *)
(* cuts the stream and whatever noise comes before it.                     *)
(***************************************************************************)
THEOREM ThreadNoResponseMissed == ThreadSpec => []NoResponseMissed
  <1>1. ThreadInv => NoResponseMissed
    BY DEF ThreadInv, WindowInv, Polling, NoResponseMissed, offset
  <1> QED
    BY <1>1, ThreadInvariant, PTL

(***************************************************************************)
(* No read of the serial line overruns g_uart_buf.                         *)
(***************************************************************************)
THEOREM ThreadReadsFitBuffer == ThreadSpec => []ReadsFitBuffer
  <1>1. ThreadInv => ReadsFitBuffer
    BY UartAssumption
       DEF ThreadInv, BytesInv, WindowInv, FrameInv, Polling, ReadsFitBuffer,
           offset, FrameLen
  <1> QED
    BY <1>1, ThreadInvariant, PTL

(***************************************************************************)
(* Whatever the serial line does, only a sample touches the policy, and    *)
(* what it is given is a byte of the line.                                 *)
(***************************************************************************)
LEMMA ThreadFollowsPolicy == ThreadSpec => PolicySpec
  <1>1. ThreadInit => PolicyInit
    BY DEF ThreadInit
  <1> QED
    BY <1>1, ThreadStepSimulates, ThreadInvariant, PTL
       DEF ThreadSpec, PolicySpec

(***************************************************************************)
(* The thread pays only after more than Debounce consecutive hot samples,  *)
(* and a due payment is at most one sample late: bytes lost, shifted or    *)
(* made up by the line, failing reads and a signal change what is sampled  *)
(* and when, not what is paid for it.                                      *)
(***************************************************************************)
THEOREM ThreadPaysForHeat == ThreadSpec => []PaysForHeat
  BY ThreadFollowsPolicy, PolicyPaysForHeat

(***************************************************************************)
(* Two payments of the thread are at least TransferInterval samples apart. *)
(***************************************************************************)
THEOREM ThreadPaymentsSpaced == ThreadSpec => PaymentsSpaced
  BY ThreadFollowsPolicy, PolicyPaymentsSpaced

(***************************************************************************)
(* The thread's control state has its type.                                *)
(***************************************************************************)
ControlInv ==
    /\ uartPc \in {"open", "pollWrite", "pollRead", "pollSleep", "queryWrite",
               "queryRead", "sample", "transfer", "sleep", "close", "done"}
    /\ exitSignal \in BOOLEAN
    /\ pollStatus \in {"OK", "NOT_READY", "ERR_SIGINT", "ERR_EXAUSTED_BUF",
                       "ERR_UART"}
    /\ lineIs \in Lines /\ noise \in 0..MaxNoise

LEMMA ControlInitInv == ThreadInit => ControlInv
  <1> SUFFICES ASSUME ThreadInit PROVE ControlInv
    OBVIOUS
  <1>1. noise \in 0..MaxNoise
    BY UartAssumption DEF ThreadInit
  <1> QED
    BY <1>1, Zenon DEF ThreadInit, ControlInv

LEMMA ControlStepInv == ControlInv /\ [ThreadNext]_vars => ControlInv'
  <1> SUFFICES ASSUME ControlInv, [ThreadNext]_vars PROVE ControlInv'
    OBVIOUS
  <1>1. CASE LineNoise
    <2>1. noise' \in 0..MaxNoise
      BY <1>1, UartAssumption DEF LineNoise, ControlInv
    <2> QED
      BY <1>1, <2>1, Zenon DEF LineNoise, ControlInv
  <1>2. CASE OpenUART
    BY <1>2, Zenon DEF OpenUART, ControlInv
  <1>3. CASE PollWriteUART
    BY <1>3, Zenon DEF PollWriteUART, ControlInv
  <1>4. CASE PollReadNothing
    BY <1>4, Zenon DEF PollReadNothing, ControlInv
  <1>5. CASE PollReadSome
    BY <1>5, Zenon DEF PollReadSome, ControlInv
  <1>6. CASE PollSleep
    BY <1>6, Zenon DEF PollSleep, ControlInv
  <1>7. CASE QueryWriteUART
    BY <1>7, Zenon DEF QueryWriteUART, ControlInv
  <1>8. CASE ReadUART
    BY <1>8, Zenon DEF ReadUART, ControlInv
  <1>9. CASE SampleTemperature
    BY <1>9, Zenon DEF SampleTemperature, ControlInv
  <1>10. CASE CallUsdcTransfer \/ SampleSleep \/ CloseUART
    BY <1>10, Zenon DEF CallUsdcTransfer, SampleSleep, CloseUART, ControlInv
  <1>11. CASE ExitSeen
    BY <1>11 DEF ExitSeen, ControlInv
  <1>12. CASE UartError
    BY <1>12 DEF UartError, ControlInv
  <1>13. CASE HandleSignal
    BY <1>13, Zenon DEF HandleSignal, ControlInv
  <1>14. CASE UNCHANGED vars
    BY <1>14, Zenon DEF vars, uartVars, ControlInv
  <1> QED
    BY <1>1, <1>2, <1>3, <1>4, <1>5, <1>6, <1>7, <1>8, <1>9, <1>10, <1>11, <1>12,
       <1>13, <1>14, Zenon DEF ThreadNext, ThreadStep

(***************************************************************************)
(* Every variable of the thread and of its policy keeps its type; the left *)
(* edge of the window stays inside g_uart_buf.                             *)
(***************************************************************************)
THEOREM ThreadTypeCorrect == ThreadSpec => []ThreadTypeOK
  <1>1. ThreadSpec => []ControlInv
    BY ControlInitInv, ControlStepInv, PTL DEF ThreadSpec
  <1>2. ThreadSpec => []PolicyTypeOK
    BY ThreadFollowsPolicy, PolicyTypeCorrect
  <1>3. ThreadInv /\ ControlInv /\ PolicyTypeOK => ThreadTypeOK
    <2> SUFFICES ASSUME ThreadInv, ControlInv, PolicyTypeOK PROVE ThreadTypeOK
      OBVIOUS
    <2>1. Seq(Degrees) \subseteq Seq(0..255)
      <3> DEFINE Byte == 0..255
      <3>1. Degrees \subseteq Byte
        BY DegreesAssumption
      <3> HIDE DEF Byte
      <3>2. \A s \in Seq(Degrees) : s \in Seq(Byte)
        BY <3>1, SeqMonotonic
      <3> QED
        BY <3>2 DEF Byte
    <2>2. rx \in Seq(0..255) /\ frame \in Seq(0..255) /\ line \in Seq(0..255)
      BY <2>1 DEF ThreadInv, BytesInv
    <2>3. leftEdge \in 0..UartBufSize
      BY UartAssumption DEF ThreadInv, BytesInv, WindowInv
    <2> QED
      BY <2>2, <2>3, Zenon DEF ThreadTypeOK, ControlInv
  <1> QED
    BY <1>1, <1>2, <1>3, ThreadInvariant, PTL

-----------------------------------------------------------------------------
\* The A/C robot: nothing in this part is about the demo or its assumptions.

(***************************************************************************)
(* What is found as income was paid, or made up by a reply that is no      *)
(* balance: outside the sharing the balance above a baseline that was      *)
(* read, together with what has been shared, is bounded by these two;      *)
(* while sharing, the increase is accounted for.                           *)
(***************************************************************************)
earned == income + madeUp
AtRest == pc \in {"read", "fan"}
Paying == pc \in {"payDavid", "payCharlie"}

FoundInv ==
    /\ shared <= earned
    /\ AtRest /\ g_banlanceOf > 0 => shared + balance <= earned + g_banlanceOf
    /\ pc = "switchOn" => delta >= 0 /\ shared + delta <= earned
    /\ Paying => delta >= 0 /\ delta <= shared

(***************************************************************************)
(* What an investor has been sent is bounded by the share of what has been *)
(* found, the increase being shared not counted until it is his turn.      *)
(***************************************************************************)
sharedForDavid == IF pc = "payDavid" THEN shared - delta ELSE shared
sharedForCharlie == IF Paying THEN shared - delta ELSE shared

SentInv ==
    /\ 100 * sent["David"] <= 50 * sharedForDavid
    /\ 100 * sent["Charlie"] <= 30 * sharedForCharlie

(***************************************************************************)
(* Only replies that are no balance make anything up.                      *)
(***************************************************************************)
TrustInv == misreads = 0 => madeUp = 0

RobotInv == RobotTypeOK /\ FoundInv /\ SentInv /\ TrustInv

-----------------------------------------------------------------------------

(***************************************************************************)
(* Arithmetic of the machine word and of percentages.                      *)
(***************************************************************************)
LEMMA ModRange ==
  ASSUME NEW x \in Nat, NEW w \in Nat \ {0} PROVE x % w \in 0..w - 1
  BY SMT

LEMMA ModSmall ==
  ASSUME NEW x \in Nat, NEW w \in Nat \ {0}, x < w PROVE x % w = x
  BY SMT

LEMMA ModLeq ==
  ASSUME NEW x \in Nat, NEW w \in Nat \ {0} PROVE x % w <= x
  <1>1. CASE x < w
    BY <1>1, ModSmall
  <1>2. CASE x >= w
    BY <1>2, ModRange
  <1> QED
    BY <1>1, <1>2

LEMMA PercentLeq ==
  ASSUME NEW x \in Nat PROVE x \div 100 \in Nat /\ 100 * (x \div 100) <= x
  BY SMT

(***************************************************************************)
(* A share never exceeds its percentage of the increase, overflow or not.  *)
(***************************************************************************)
LEMMA ShareLeq ==
  ASSUME RobotTypeOK, delta >= 0, NEW percent \in {30, 50}
  PROVE  Share(percent) \in Nat /\ 100 * Share(percent) <= percent * delta
  <1>0. delta \in Nat
    BY RobotAssumption DEF RobotTypeOK, delta
  <1> DEFINE whole == delta * percent
             word == whole % Word
  <1>1. whole \in Nat /\ whole = percent * delta
    <2>1. CASE percent = 30
      BY <1>0, <2>1
    <2>2. CASE percent = 50
      BY <1>0, <2>2
    <2> QED
      BY <2>1, <2>2
  <1>2. Share(percent) = word \div 100
    BY DEF Share
  <1> HIDE DEF whole
  <1>3. word \in Nat /\ word <= whole
    <2>1. whole \in Nat /\ Word \in Nat \ {0}
      BY <1>1, RobotAssumption
    <2>2. word \in 0..Word - 1
      BY <2>1, ModRange, Zenon
    <2>3. word <= whole
      BY <2>1, ModLeq, Zenon
    <2> HIDE DEF word
    <2> QED
      BY <2>1, <2>2, <2>3
  <1> HIDE DEF word
  <1>4. word \div 100 \in Nat /\ 100 * (word \div 100) <= word
    BY <1>3, PercentLeq
  <1> QED
    BY <1>1, <1>2, <1>3, <1>4

LEMMA Numbers ==
  ASSUME RobotTypeOK
  PROVE  /\ balance \in Int /\ income \in Int /\ shared \in Int
         /\ banlanceOf \in Int /\ g_banlanceOf \in Int
         /\ madeUp \in Int /\ earned \in Int
  BY RobotAssumption DEF RobotTypeOK, earned

LEMMA Amounts ==
  ASSUME RobotTypeOK
  PROVE  /\ balance \in Nat /\ income \in Nat /\ shared \in Nat
         /\ absorbed \in Nat /\ delta \in Int
         /\ banlanceOf \in Nat /\ g_banlanceOf \in Nat
         /\ sent["David"] \in Nat /\ sent["Charlie"] \in Nat
         /\ madeUp \in Nat
  BY RobotAssumption DEF RobotTypeOK, delta, Investors

(***************************************************************************)
(* A reading of the balance that can be trusted is the balance, or zero,   *)
(* and makes nothing up; any other is counted.                             *)
(***************************************************************************)
LEMMA ReadableExact ==
  ASSUME RobotTypeOK, NEW b \in Readable
  PROVE  b \in {balance, 0} /\ TooLow(b) = 0 /\ TooHigh(b) = 0
  <1>1. balance \in Nat /\ balance < Word /\ Word \in Nat \ {0}
    BY RobotAssumption DEF RobotTypeOK
  <1>2. balance % Word = balance
    BY <1>1, ModSmall
  <1>3. b \in {balance, 0}
    BY <1>2 DEF Readable
  <1> QED
    BY <1>1, <1>3 DEF TooLow, TooHigh

LEMMA ReadingRange ==
  ASSUME RobotTypeOK, NEW b \in BalanceReads
  PROVE  /\ b \in 0..Word - 1
         /\ TooLow(b) \in Nat
         /\ balance <= b + TooLow(b) \/ b = 0
         /\ TooHigh(b) \in Nat /\ b <= balance + TooHigh(b)
         /\ b \notin Readable => misreads < MaxMisreads
  <1>1. balance \in Nat /\ balance < Word
    BY RobotAssumption DEF RobotTypeOK
  <1>2. b \in Readable \/ (b \in Leftovers /\ misreads < MaxMisreads)
    BY DEF BalanceReads
  <1>3. b \in 0..Word - 1
    <2>1. Leftovers \subseteq 0..Word - 1 /\ Word \in Nat
      BY RobotAssumption
    <2>2. CASE b \in Readable
      <3>1. b \in {balance, 0}
        BY <2>2, ReadableExact
      <3> QED
        BY <1>1, <2>1, <3>1
    <2>3. CASE b \in Leftovers
      BY <2>1, <2>3
    <2> QED
      BY <1>2, <2>2, <2>3
  <1> QED
    BY <1>1, <1>2, <1>3 DEF TooLow, TooHigh

LEMMA ReadingEffect ==
  ASSUME RobotTypeOK, TrustInv, NEW b \in BalanceReads,
         NEW excess \in {0, TooLow(b), TooHigh(b)}, Reading(b, excess)
  PROVE  /\ madeUp' = madeUp + excess /\ madeUp' \in Nat
         /\ misreads' \in 0..MaxMisreads
         /\ TrustInv'
  <1>1. misreads \in 0..MaxMisreads /\ madeUp \in Nat /\ MaxMisreads \in Nat
    BY RobotAssumption DEF RobotTypeOK
  <1>2. excess \in Nat /\ madeUp' = madeUp + excess
    BY ReadingRange DEF Reading
  <1>3. CASE b \in Readable
    <2>1. excess = 0
      BY <1>3, ReadableExact
    <2>2. misreads' = misreads
      BY <1>3 DEF Reading
    <2> QED
      BY <1>1, <1>2, <2>1, <2>2 DEF TrustInv
  <1>4. CASE b \notin Readable
    <2>1. misreads' = misreads + 1 /\ misreads < MaxMisreads
      BY <1>4, ReadingRange DEF Reading
    <2> QED
      BY <1>1, <1>2, <2>1 DEF TrustInv
  <1> QED
    BY <1>3, <1>4

(***************************************************************************)
(* What is taken as the baseline and what that makes up bound the balance. *)
(***************************************************************************)
LEMMA BaselineEffect ==
  ASSUME RobotInv, ReadBaseline
  PROVE  /\ g_banlanceOf' \in 0..Word - 1
         /\ madeUp' \in Nat /\ madeUp <= madeUp'
         /\ misreads' \in 0..MaxMisreads
         /\ TrustInv'
         /\ g_banlanceOf' > 0 => madeUp + balance <= madeUp' + g_banlanceOf'
  <1>1. PICK b \in BalanceReads : g_banlanceOf' = b /\ Reading(b, TooLow(b))
    BY DEF ReadBaseline
  <1>2. /\ b \in 0..Word - 1 /\ TooLow(b) \in Nat
        /\ balance <= b + TooLow(b) \/ b = 0
    BY ReadingRange DEF RobotInv
  <1>3. /\ madeUp' = madeUp + TooLow(b) /\ madeUp' \in Nat
        /\ misreads' \in 0..MaxMisreads /\ TrustInv'
    BY <1>1, ReadingEffect DEF RobotInv
  <1> QED
    BY <1>1, <1>2, <1>3, Numbers, RobotAssumption DEF RobotInv

(***************************************************************************)
(* Whatever becomes of a transfer, it takes nothing from the other         *)
(* investor and adds at most v to what this one has been sent.             *)
(***************************************************************************)
LEMMA TransferEffect ==
  ASSUME RobotTypeOK, NEW to \in Investors, NEW v \in Nat, Transfer(to, v)
  PROVE  /\ balance' \in 0..balance
         /\ pending' \in Nat \union {NoTx}
         /\ sent' \in [Investors -> Nat]
         /\ sent'[to] <= sent[to] + v
         /\ \A i \in Investors : i # to => sent'[i] = sent[i]
  <1> USE DEF RobotTypeOK, chainVars
  <1>0. balance \in Nat
    BY RobotAssumption
  <1>1. CASE NotBroadcast
    BY <1>0, <1>1 DEF NotBroadcast, Investors
  <1>2. CASE Broadcast(to, v)
    <2>1. balance' \in 0..balance
      BY <1>0, <1>2 DEF Broadcast, Mined
    <2>2. pending' \in Nat \union {NoTx}
      BY <1>2 DEF Broadcast
    <2>3. sent' = [sent EXCEPT ![to] = @ + v]
      BY <1>2 DEF Broadcast
    <2> QED
      BY <2>1, <2>2, <2>3
  <1> QED
    BY <1>1, <1>2 DEF Transfer

-----------------------------------------------------------------------------

LEMMA RobotInitInv == RobotInit => RobotInv
  <1> SUFFICES ASSUME RobotInit PROVE RobotInv
    OBVIOUS
  <1> USE RobotAssumption DEF RobotInit
  <1>1. fan \in BOOLEAN
    BY Zenon
  <1>2. RobotTypeOK
    BY <1>1 DEF RobotTypeOK, Investors
  <1>3. FoundInv /\ SentInv /\ TrustInv
    BY DEF FoundInv, SentInv, TrustInv, AtRest, Paying, earned,
           sharedForDavid, sharedForCharlie, Investors
  <1> QED
    BY <1>2, <1>3 DEF RobotInv

(***************************************************************************)
(* Each step of the loop preserves the invariant.                          *)
(***************************************************************************)
LEMMA StartLoopInv == RobotInv /\ StartLoop => RobotInv'
  <1> SUFFICES ASSUME RobotInv, StartLoop PROVE RobotInv'
    OBVIOUS
  <1> USE DEF RobotInv, StartLoop, chainVars, plugVars, paidVars
  <1>1. /\ g_banlanceOf' \in 0..Word - 1
        /\ madeUp' \in Nat /\ madeUp <= madeUp' /\ misreads' \in 0..MaxMisreads
        /\ TrustInv'
        /\ g_banlanceOf' > 0 => madeUp + balance <= madeUp' + g_banlanceOf'
    BY BaselineEffect
  <1>2. RobotTypeOK'
    BY <1>1 DEF RobotTypeOK
  <1>3. FoundInv'
    <2>1. /\ balance' = balance /\ income' = income /\ shared' = shared
          /\ pc' = "read" /\ shared <= income + madeUp
      BY DEF FoundInv, earned
    <2>2. g_banlanceOf' \in Int
      BY <1>1, RobotAssumption
    <2> QED
      BY <1>1, <2>1, <2>2, Numbers DEF FoundInv, AtRest, Paying, earned
  <1>4. SentInv'
    BY DEF SentInv, sharedForDavid, sharedForCharlie, Paying
  <1> QED
    BY <1>1, <1>2, <1>3, <1>4

LEMMA ReadBalanceInv == RobotInv /\ ReadBalance => RobotInv'
  <1> SUFFICES ASSUME RobotInv, ReadBalance PROVE RobotInv'
    OBVIOUS
  <1> USE DEF RobotInv, chainVars, plugVars, paidVars
  <1> DEFINE made(b) == IF TakesOver(b) THEN TooLow(b)
                        ELSE IF IsIncome(b) THEN TooHigh(b) ELSE 0
  <1>0. PICK b \in BalanceReads :
          /\ banlanceOf' = b
          /\ g_banlanceOf' = IF TakesOver(b) THEN b ELSE g_banlanceOf
          /\ pc' = IF IsIncome(b) THEN "switchOn" ELSE "fan"
          /\ Reading(b, made(b))
    BY DEF ReadBalance
  <1>1. /\ pc = "read"
        /\ UNCHANGED <<g_onoff, chainVars, plugVars, paidVars, onTurns>>
    BY DEF ReadBalance
  <1>2. /\ b \in 0..Word - 1 /\ TooLow(b) \in Nat /\ TooHigh(b) \in Nat
        /\ balance <= b + TooLow(b) \/ b = 0
        /\ b <= balance + TooHigh(b)
    BY ReadingRange
  <1>3. /\ madeUp' = madeUp + made(b) /\ madeUp' \in Nat
        /\ misreads' \in 0..MaxMisreads /\ TrustInv'
    BY <1>0, ReadingEffect
  <1> HIDE DEF made
  <1>4. RobotTypeOK'
    BY <1>0, <1>1, <1>2, <1>3 DEF RobotTypeOK
  <1>5. FoundInv'
    <2>1. shared + balance <= earned + g_banlanceOf \/ g_banlanceOf = 0
      BY <1>1, RobotAssumption DEF FoundInv, AtRest, RobotTypeOK
    <2>2. shared <= earned
      BY DEF FoundInv
    <2>3. balance' = balance /\ shared' = shared /\ income' = income
      BY <1>1
    <2>4. CASE IsIncome(b)
      <3>1. g_banlanceOf > 0 /\ b > g_banlanceOf /\ g_banlanceOf' = g_banlanceOf
            /\ made(b) = TooHigh(b) /\ pc' = "switchOn"
        BY <1>0, <2>4, Numbers DEF IsIncome, TakesOver, made
      <3>2. madeUp' = madeUp + TooHigh(b)
        BY <1>3, <3>1
      <3> QED
        BY <1>0, <1>2, <2>1, <2>2, <2>3, <3>1, <3>2, Numbers
           DEF FoundInv, AtRest, Paying, delta, earned
    <2>5. CASE ~IsIncome(b) /\ TakesOver(b)
      <3>1. g_banlanceOf' = b /\ made(b) = TooLow(b) /\ pc' = "fan" /\ b > 0
        BY <1>0, <2>5 DEF TakesOver, made
      <3>2. madeUp' = madeUp + TooLow(b)
        BY <1>3, <3>1
      <3> QED
        BY <1>2, <2>2, <2>3, <3>1, <3>2, Numbers
           DEF FoundInv, AtRest, Paying, earned
    <2>6. CASE ~IsIncome(b) /\ ~TakesOver(b)
      <3>1. g_banlanceOf' = g_banlanceOf /\ made(b) = 0 /\ pc' = "fan"
        BY <1>0, <2>6 DEF made
      <3>2. madeUp' = madeUp
        BY <1>3, <3>1, Numbers
      <3> QED
        BY <2>1, <2>2, <2>3, <3>1, <3>2, Numbers
           DEF FoundInv, AtRest, Paying, earned
    <2> QED
      BY <2>4, <2>5, <2>6
  <1>6. SentInv'
    BY <1>0, <1>1 DEF SentInv, sharedForDavid, sharedForCharlie, Paying
  <1> QED
    BY <1>3, <1>4, <1>5, <1>6

LEMMA SwitchOnInv == RobotInv /\ SwitchOn => RobotInv'
  <1> SUFFICES ASSUME RobotInv, SwitchOn PROVE RobotInv'
    OBVIOUS
  <1> USE DEF RobotInv, SwitchOn, chainVars, readingVars
  <1>1. fan' \in BOOLEAN /\ obeyed' \in BOOLEAN
    BY Zenon DEF Command, Commanded, RobotTypeOK
  <1>2. delta \in Int /\ delta' = delta
    BY RobotAssumption DEF delta, RobotTypeOK
  <1>3. RobotTypeOK'
    BY <1>1, <1>2, RobotAssumption DEF RobotTypeOK, FoundInv
  <1>4. FoundInv'
    BY <1>2, RobotAssumption DEF FoundInv, AtRest, Paying, RobotTypeOK, earned
  <1>5. SentInv'
    BY <1>2, RobotAssumption
       DEF SentInv, sharedForDavid, sharedForCharlie, Paying, RobotTypeOK
  <1>6. TrustInv'
    BY DEF TrustInv
  <1> QED
    BY <1>3, <1>4, <1>5, <1>6

LEMMA PayDavidInv == RobotInv /\ PayDavid => RobotInv'
  <1> SUFFICES ASSUME RobotInv, PayDavid PROVE RobotInv'
    OBVIOUS
  <1> USE DEF RobotInv, PayDavid, plugVars, paidVars, readingVars
  <1>1. delta \in Nat /\ delta' = delta /\ delta <= shared
    BY RobotAssumption DEF delta, RobotTypeOK, FoundInv, Paying
  <1>2. Share(50) \in Nat /\ 100 * Share(50) <= 50 * delta
    BY <1>1, ShareLeq
  <1>3. /\ balance' \in 0..balance
        /\ pending' \in Nat \union {NoTx}
        /\ sent' \in [Investors -> Nat]
        /\ sent'["David"] <= sent["David"] + Share(50)
        /\ sent'["Charlie"] = sent["Charlie"]
    BY <1>2, TransferEffect DEF Investors
  <1>4. RobotTypeOK'
    BY <1>3, RobotAssumption DEF RobotTypeOK
  <1>5. FoundInv'
    BY <1>1 DEF FoundInv, AtRest, Paying, earned
  <1>6. SentInv'
    <2>1. sent["David"] \in Nat /\ sent'["David"] \in Nat /\ shared \in Nat
      BY <1>3 DEF RobotTypeOK, Investors
    <2> QED
      BY <1>1, <1>2, <1>3, <2>1
         DEF SentInv, sharedForDavid, sharedForCharlie, Paying
  <1>7. TrustInv'
    BY DEF TrustInv
  <1> QED
    BY <1>4, <1>5, <1>6, <1>7

LEMMA PayCharlieInv == RobotInv /\ PayCharlie => RobotInv'
  <1> SUFFICES ASSUME RobotInv, PayCharlie PROVE RobotInv'
    OBVIOUS
  <1> USE DEF RobotInv, PayCharlie, plugVars, paidVars, readingVars
  <1>1. delta \in Nat /\ delta' = delta /\ delta <= shared
    BY RobotAssumption DEF delta, RobotTypeOK, FoundInv, Paying
  <1>2. Share(30) \in Nat /\ 100 * Share(30) <= 30 * delta
    BY <1>1, ShareLeq
  <1>3. /\ balance' \in 0..balance
        /\ pending' \in Nat \union {NoTx}
        /\ sent' \in [Investors -> Nat]
        /\ sent'["Charlie"] <= sent["Charlie"] + Share(30)
        /\ sent'["David"] = sent["David"]
    BY <1>2, TransferEffect DEF Investors
  <1>4. RobotTypeOK'
    BY <1>3, RobotAssumption DEF RobotTypeOK
  <1>5. FoundInv'
    BY DEF FoundInv, AtRest, Paying, earned
  <1>6. SentInv'
    <2>1. sent["Charlie"] \in Nat /\ sent'["Charlie"] \in Nat /\ shared \in Nat
      BY <1>3 DEF RobotTypeOK, Investors
    <2> QED
      BY <1>1, <1>2, <1>3, <2>1
         DEF SentInv, sharedForDavid, sharedForCharlie, Paying
  <1>7. TrustInv'
    BY DEF TrustInv
  <1> QED
    BY <1>4, <1>5, <1>6, <1>7

LEMMA UpdateBaselineInv == RobotInv /\ UpdateBaseline => RobotInv'
  <1> SUFFICES ASSUME RobotInv, UpdateBaseline PROVE RobotInv'
    OBVIOUS
  <1> USE DEF RobotInv, UpdateBaseline, plugVars, chainVars, paidVars
  <1>1. /\ g_banlanceOf' \in 0..Word - 1
        /\ madeUp' \in Nat /\ madeUp <= madeUp' /\ misreads' \in 0..MaxMisreads
        /\ TrustInv'
        /\ g_banlanceOf' > 0 => madeUp + balance <= madeUp' + g_banlanceOf'
    BY BaselineEffect
  <1>2. RobotTypeOK'
    BY <1>1 DEF RobotTypeOK
  <1>3. FoundInv'
    <2>1. /\ balance' = balance /\ income' = income /\ shared' = shared
          /\ pc' = "fan" /\ shared <= income + madeUp
      BY DEF FoundInv, earned
    <2>2. g_banlanceOf' \in Int
      BY <1>1, RobotAssumption
    <2> QED
      BY <1>1, <2>1, <2>2, Numbers DEF FoundInv, AtRest, Paying, earned
  <1>4. SentInv'
    BY DEF SentInv, sharedForDavid, sharedForCharlie, Paying
  <1> QED
    BY <1>1, <1>2, <1>3, <1>4

LEMMA FanTurnInv == RobotInv /\ FanTurn => RobotInv'
  <1> SUFFICES ASSUME RobotInv, FanTurn PROVE RobotInv'
    OBVIOUS
  <1> USE DEF RobotInv, FanTurn, plugVars, chainVars, paidVars, readingVars
  <1>1. fan' \in BOOLEAN /\ obeyed' \in BOOLEAN
    BY Zenon DEF Command, Commanded, RobotTypeOK
  <1>2. RobotTypeOK'
    BY <1>1, RobotAssumption DEF RobotTypeOK
  <1>3. FoundInv'
    BY DEF FoundInv, AtRest, Paying, earned
  <1>4. SentInv'
    BY DEF SentInv, sharedForDavid, sharedForCharlie, Paying
  <1>5. TrustInv'
    BY DEF TrustInv
  <1> QED
    BY <1>2, <1>3, <1>4, <1>5

LEMMA RestCrashInv == RobotInv /\ RestCrash => RobotInv'
  <1> SUFFICES ASSUME RobotInv, RestCrash PROVE RobotInv'
    OBVIOUS
  <1> USE DEF RobotInv, RestCrash, chainVars, paidVars, readingVars
  <1>1. fan' \in BOOLEAN /\ obeyed' \in BOOLEAN
    BY Zenon DEF Command, Commanded, RobotTypeOK
  <1>2. RobotTypeOK'
    BY <1>1, RobotAssumption DEF RobotTypeOK
  <1>3. FoundInv'
    BY DEF FoundInv, AtRest, Paying, earned
  <1>4. SentInv'
    BY DEF SentInv, sharedForDavid, sharedForCharlie, Paying
  <1>5. TrustInv'
    BY DEF TrustInv
  <1> QED
    BY <1>2, <1>3, <1>4, <1>5

LEMMA RestartInv == RobotInv /\ Restart => RobotInv'
  <1> SUFFICES ASSUME RobotInv, Restart PROVE RobotInv'
    OBVIOUS
  <1> USE DEF RobotInv, Restart, chainVars, paidVars, readingVars
  <1>1. RobotTypeOK'
    <2>1. fan' \in BOOLEAN /\ obeyed' \in BOOLEAN
      BY Zenon DEF RobotTypeOK
    <2> QED
      BY <2>1, RobotAssumption DEF RobotTypeOK
  <1>2. FoundInv'
    BY DEF FoundInv, AtRest, Paying, earned
  <1>3. SentInv'
    <2>1. shared' = shared /\ pc' = "start" /\ sent' = sent
      OBVIOUS
    <2>2. sharedForDavid <= shared /\ sharedForCharlie <= shared
      BY RobotAssumption
         DEF RobotTypeOK, FoundInv, sharedForDavid, sharedForCharlie, Paying,
             delta
    <2>3. /\ sharedForDavid \in Int /\ sharedForCharlie \in Int
          /\ sent["David"] \in Nat /\ sent["Charlie"] \in Nat
          /\ shared \in Nat
      BY RobotAssumption
         DEF RobotTypeOK, sharedForDavid, sharedForCharlie, delta, Investors
    <2>4. sharedForDavid' = shared /\ sharedForCharlie' = shared
      BY <2>1 DEF sharedForDavid, sharedForCharlie, Paying
    <2> QED
      BY <2>1, <2>2, <2>3, <2>4 DEF SentInv
  <1>4. TrustInv'
    BY DEF TrustInv
  <1> QED
    BY <1>1, <1>2, <1>3, <1>4

LEMMA DepositInv ==
  ASSUME NEW d \in Nat, RobotInv, Deposit(d) PROVE RobotInv'
  <1> USE DEF RobotInv, Deposit, plugVars, readingVars
  <1>1. delta \in Int /\ delta' = delta
    BY RobotAssumption DEF delta, RobotTypeOK
  <1>2. RobotTypeOK'
    BY RobotAssumption DEF RobotTypeOK
  <1>3. FoundInv'
    BY <1>1, RobotAssumption DEF FoundInv, AtRest, Paying, RobotTypeOK, earned
  <1>4. SentInv'
    BY <1>1 DEF SentInv, sharedForDavid, sharedForCharlie, Paying
  <1>5. TrustInv'
    BY DEF TrustInv
  <1> QED
    BY <1>2, <1>3, <1>4, <1>5

LEMMA MinePendingInv == RobotInv /\ MinePending => RobotInv'
  <1> SUFFICES ASSUME RobotInv, MinePending PROVE RobotInv'
    OBVIOUS
  <1> USE DEF RobotInv, MinePending, plugVars, paidVars, readingVars
  <1>1. delta \in Int /\ delta' = delta
    BY RobotAssumption DEF delta, RobotTypeOK
  <1>2. balance \in Nat /\ balance' \in 0..balance
    BY RobotAssumption DEF RobotTypeOK, Mined
  <1>3. RobotTypeOK'
    BY <1>2, RobotAssumption DEF RobotTypeOK
  <1>4. FoundInv'
    BY <1>1, <1>2, Numbers DEF FoundInv, AtRest, Paying, earned
  <1>5. SentInv'
    BY <1>1 DEF SentInv, sharedForDavid, sharedForCharlie, Paying
  <1>6. TrustInv'
    BY DEF TrustInv
  <1> QED
    BY <1>3, <1>4, <1>5, <1>6

LEMMA RobotStepInv == RobotInv /\ [RobotNext]_robotVars => RobotInv'
  <1>1. RobotInv /\ RobotStep => RobotInv'
    BY StartLoopInv, ReadBalanceInv, SwitchOnInv, PayDavidInv,
       PayCharlieInv, UpdateBaselineInv, FanTurnInv DEF RobotStep
  <1>2. RobotInv /\ UNCHANGED robotVars => RobotInv'
    BY DEF robotVars, chainVars, plugVars, paidVars, readingVars, RobotInv,
           RobotTypeOK, FoundInv, SentInv, TrustInv, AtRest, Paying, delta, earned,
           sharedForDavid, sharedForCharlie
  <1>3. ASSUME NEW d \in Deposits, RobotInv, Deposit(d) PROVE RobotInv'
    BY <1>3, DepositInv, RobotAssumption
  <1> QED
    BY <1>1, <1>2, <1>3, RestCrashInv, RestartInv, MinePendingInv
       DEF RobotNext

LEMMA RobotAlwaysInv == RobotSpec => []RobotInv
  BY RobotInitInv, RobotStepInv, PTL DEF RobotSpec

-----------------------------------------------------------------------------

(***************************************************************************)
(* Type correctness: in particular the 32-bit readings and the countdown   *)
(* stay in their range and the balance never runs below zero.              *)
(***************************************************************************)
THEOREM RobotTypeCorrect == RobotSpec => []RobotTypeOK
  BY RobotAlwaysInv, PTL DEF RobotInv

LEMMA InvShares == RobotInv => SharesWithinIncome
  <1> SUFFICES ASSUME RobotInv PROVE SharesWithinIncome
    OBVIOUS
  <1>1. sharedForDavid <= earned /\ sharedForCharlie <= earned
    BY RobotAssumption
       DEF RobotInv, FoundInv, RobotTypeOK, sharedForDavid,
           sharedForCharlie, Paying, delta, earned
  <1>2. /\ sharedForDavid \in Int /\ sharedForCharlie \in Int
        /\ sent["David"] \in Nat /\ sent["Charlie"] \in Nat
    BY RobotAssumption
       DEF RobotInv, RobotTypeOK, sharedForDavid, sharedForCharlie, delta,
           Investors
  <1> QED
    BY <1>1, <1>2
       DEF RobotInv, SentInv, SharesWithinIncome, RobotTypeOK, earned

(***************************************************************************)
(* No income is shared twice, whatever fails, is late or arrives while the *)
(* robot is paying, however often it is started again, and also when a     *)
(* share overflows the word; a reply that is no balance adds at most what  *)
(* it is wrong by to what the shares are taken of.                         *)
(***************************************************************************)
THEOREM RobotSharesWithinIncome == RobotSpec => []SharesWithinIncome
  BY InvShares, RobotAlwaysInv, PTL

(***************************************************************************)
(* As long as every reply is the balance or a failure, the robot's own     *)
(* part is never given away.                                               *)
(***************************************************************************)
THEOREM RobotKeepsItsOwn == RobotSpec => [](misreads = 0 => OwnShareKept)
  <1>1. RobotInv => (misreads = 0 => OwnShareKept)
    BY InvShares, Amounts
       DEF RobotInv, TrustInv, SharesWithinIncome, OwnShareKept
  <1> QED
    BY <1>1, RobotAlwaysInv, PTL

-----------------------------------------------------------------------------

(***************************************************************************)
(* The countdown and the turns since the plug was switched on add up, so   *)
(* it reads 1 only when all turns but one are over.                        *)
(***************************************************************************)
CountdownInv ==
    /\ g_onoff \in 0..FanTurns /\ onTurns \in 0..FanTurns
    /\ g_onoff > 0 => onTurns = FanTurns - g_onoff

LEMMA CountdownInitInv == RobotInit => CountdownInv
  BY RobotAssumption DEF RobotInit, CountdownInv

LEMMA CountdownStepInv ==
  CountdownInv /\ [RobotNext]_robotVars => CountdownInv'
  <1> SUFFICES ASSUME CountdownInv, [RobotNext]_robotVars
               PROVE  CountdownInv'
    OBVIOUS
  <1> USE RobotAssumption DEF CountdownInv
  <1>1. CASE SwitchOn
    BY <1>1 DEF SwitchOn
  <1>2. CASE FanTurn
    BY <1>2 DEF FanTurn
  <1>3. CASE Restart
    BY <1>3 DEF Restart
  <1>4. CASE UNCHANGED <<g_onoff, onTurns>>
    BY <1>4
  <1>5. SwitchOn \/ FanTurn \/ Restart \/ UNCHANGED <<g_onoff, onTurns>>
    BY DEF RobotNext, RobotStep, StartLoop, ReadBalance, PayDavid,
           PayCharlie, UpdateBaseline, RestCrash, Deposit, MinePending,
           robotVars
  <1> QED
    BY <1>1, <1>2, <1>3, <1>4, <1>5

(***************************************************************************)
(* The plug is never switched off before its turns are over, however often *)
(* new income starts the countdown again and whichever commands get lost.  *)
(***************************************************************************)
THEOREM RobotFanRunsItsTurns == RobotSpec => FanRunsItsTurns
  <1>1. RobotSpec => []CountdownInv
    BY CountdownInitInv, CountdownStepInv, PTL DEF RobotSpec
  <1>2. CountdownInv /\ [RobotNext]_robotVars =>
          [fan /\ ~fan' => onTurns + 1 >= FanTurns]_robotVars
    <2> SUFFICES ASSUME CountdownInv, RobotNext, fan, ~fan'
                 PROVE  onTurns + 1 >= FanTurns
      OBVIOUS
    <2>1. g_onoff = 1
      <3>1. ~UNCHANGED fan
        OBVIOUS
      <3>2. SwitchOn \/ FanTurn \/ RestCrash
        BY <3>1
           DEF RobotNext, RobotStep, StartLoop, ReadBalance, PayDavid,
               PayCharlie, UpdateBaseline, Restart, Deposit, MinePending,
               plugVars
      <3>3. fan' \notin Commanded(TRUE)
        BY DEF Commanded
      <3> QED
        BY <3>1, <3>2, <3>3, Zenon
           DEF SwitchOn, FanTurn, RestCrash, Command, plugVars
    <2> QED
      BY <2>1, RobotAssumption DEF CountdownInv
  <1> QED
    BY <1>1, <1>2, PTL DEF RobotSpec, FanRunsItsTurns

(***************************************************************************)
(* As long as the plug obeys and the program keeps running, the fan is on  *)
(* only while the countdown runs.                                          *)
(***************************************************************************)
PlugInv == obeyed /\ fan => g_onoff > 0

LEMMA PlugStepInv ==
  CountdownInv /\ PlugInv /\ [RobotNext]_robotVars => PlugInv'
  <1> SUFFICES ASSUME CountdownInv, PlugInv, [RobotNext]_robotVars,
                      obeyed', fan'
               PROVE  g_onoff' > 0
    BY Zenon DEF PlugInv
  <1>1. CASE SwitchOn
    BY <1>1, RobotAssumption DEF SwitchOn
  <1>2. CASE FanTurn
    <2>1. obeyed /\ fan /\ g_onoff # 1
      BY <1>2, Zenon DEF FanTurn, Command, plugVars
    <2>2. g_onoff > 0 /\ g_onoff \in Nat
      BY <2>1 DEF PlugInv, CountdownInv
    <2> QED
      BY <1>2, <2>1, <2>2 DEF FanTurn
  <1>3. CASE UNCHANGED <<plugVars, g_onoff>>
    <2>1. obeyed /\ fan /\ g_onoff' = g_onoff
      BY <1>3, Zenon DEF plugVars
    <2> QED
      BY <2>1 DEF PlugInv
  <1>4. SwitchOn \/ FanTurn \/ UNCHANGED <<plugVars, g_onoff>>
    BY Zenon
       DEF RobotNext, RobotStep, StartLoop, ReadBalance, PayDavid,
           PayCharlie, UpdateBaseline, RestCrash, Restart, Deposit,
           MinePending, robotVars
  <1> QED
    BY <1>1, <1>2, <1>3, <1>4

(***************************************************************************)
(* As long as no command to the plug is lost and the program keeps         *)
(* running, the fan is off again after its turns: new income starts the    *)
(* countdown again but never adds to it, and there is no way to a running  *)
(* fan with a countdown of 0.                                              *)
(***************************************************************************)
THEOREM RobotFanStopsInTime == RobotSpec => []FanStopsInTime
  <1>1. RobotInit => CountdownInv /\ PlugInv
    BY CountdownInitInv DEF RobotInit, PlugInv
  <1>2. CountdownInv /\ PlugInv /\ [RobotNext]_robotVars =>
          CountdownInv' /\ PlugInv'
    BY CountdownStepInv, PlugStepInv
  <1>3. CountdownInv /\ PlugInv => FanStopsInTime
    BY RobotAssumption DEF CountdownInv, PlugInv, FanStopsInTime
  <1> QED
    BY <1>1, <1>2, <1>3, PTL DEF RobotSpec

-----------------------------------------------------------------------------
\* The demo.

(***************************************************************************)
(* The fan runs only when there was income of the threshold; the income    *)
(* found at the moment of switching on is at least that.                   *)
(***************************************************************************)
PaidInv ==
    /\ pc = "switchOn" => delta >= Threshold
    /\ fan => income >= Threshold

(***************************************************************************)
(* The robot owns what it had and earned less what it sent, and all income *)
(* is accounted for wherever the loop is; the baseline is never zero.      *)
(***************************************************************************)
WorthInv ==
    /\ pending = NoTx
    /\ balance + sent["David"] + sent["Charlie"] >= InitialBalance + income

AccountsInv ==
    /\ pc = "start" => shared + absorbed = income
    /\ AtRest => /\ g_banlanceOf > 0
                 /\ shared + (balance - g_banlanceOf) + absorbed = income
    /\ pc = "switchOn" => shared + delta + absorbed = income
    /\ pc \in {"payDavid", "payCharlie", "rebase"} =>
          shared + absorbed = income

DemoInv ==
    /\ RobotInv /\ PaidInv /\ WorthInv
    /\ InitialBalance > 0 => AccountsInv

-----------------------------------------------------------------------------

(***************************************************************************)
(* When every reply is a balance and no call fails, a reading is the       *)
(* balance, and the balance of a robot that started with money is never    *)
(* zero.                                                                   *)
(***************************************************************************)
LEMMA NothingMadeUp ==
  ASSUME RobotInv
  PROVE  madeUp = 0 /\ BalanceReads = Readable
  <1>1. misreads = 0
    BY DemoAssumption DEF RobotInv, RobotTypeOK
  <1> QED
    BY <1>1, DemoAssumption DEF RobotInv, TrustInv, BalanceReads

LEMMA ReadingIsBalance ==
  ASSUME RobotInv, NEW b \in BalanceReads PROVE b = balance
  <1>1. balance \in Nat /\ balance < Word /\ Word \in Nat \ {0}
    BY RobotAssumption DEF RobotInv, RobotTypeOK
  <1>2. balance % Word = balance
    BY <1>1, ModSmall
  <1> QED
    BY <1>2, NothingMadeUp, DemoAssumption DEF Readable

LEMMA NeverPoor ==
  ASSUME RobotInv, WorthInv, InitialBalance > 0 PROVE balance > 0
  <1>1. SharesWithinIncome
    BY InvShares
  <1> QED
    BY <1>1, NothingMadeUp, Amounts, RobotAssumption
       DEF RobotInv, WorthInv, SharesWithinIncome

(***************************************************************************)
(* Without failing calls a transfer is mined, or reverted for lack of      *)
(* funds.                                                                  *)
(***************************************************************************)
LEMMA Transferred ==
  ASSUME RobotTypeOK, WorthInv, NEW to \in Investors, NEW v \in Nat,
         Transfer(to, v), UNCHANGED income
  PROVE  WorthInv'
  <1>1. Broadcast(to, v) /\ Mined(v) /\ pending' = NoTx
    BY DemoAssumption DEF Transfer, NotBroadcast, Broadcast, WorthInv
  <1>2. balance' >= balance - v
    BY <1>1, Amounts DEF Mined
  <1>3. sent' = [sent EXCEPT ![to] = @ + v]
    BY <1>1 DEF Broadcast
  <1>4. sent'["David"] + sent'["Charlie"] = sent["David"] + sent["Charlie"] + v
    <2>1. sent \in [Investors -> Nat]
      BY DEF RobotTypeOK
    <2>2. CASE to = "David"
      BY <1>3, <2>1, <2>2, Amounts DEF Investors
    <2>3. CASE to = "Charlie"
      BY <1>3, <2>1, <2>3, Amounts DEF Investors
    <2> QED
      BY <2>2, <2>3 DEF Investors
  <1>5. balance' \in Nat /\ sent'["David"] \in Nat /\ sent'["Charlie"] \in Nat
    BY TransferEffect, Amounts DEF Investors
  <1> QED
    BY <1>1, <1>2, <1>4, <1>5, Amounts, RobotAssumption DEF WorthInv

-----------------------------------------------------------------------------

LEMMA DemoInitInv == DemoInit => DemoInv
  <1> SUFFICES ASSUME DemoInit PROVE DemoInv
    OBVIOUS
  <1>1. RobotInit
    BY DEF DemoInit
  <1>2. RobotInv
    BY <1>1, RobotInitInv
  <1>3. PaidInv
    BY <1>1 DEF RobotInit, PaidInv
  <1>4. WorthInv
    BY <1>1, RobotAssumption DEF RobotInit, WorthInv, Investors
  <1>5. AccountsInv
    BY <1>1 DEF RobotInit, AccountsInv, AtRest
  <1> QED
    BY <1>2, <1>3, <1>4, <1>5 DEF DemoInv

(***************************************************************************)
(* The steps of the loop, of which nothing fails here.                     *)
(***************************************************************************)
LEMMA StepPaid ==
  ASSUME RobotInv, PaidInv, RobotStep PROVE PaidInv'
  <1> USE DEF PaidInv
  <1>1. CASE StartLoop
    BY <1>1 DEF StartLoop, paidVars, plugVars
  <1>2. CASE ReadBalance
    <2>1. IsIncome(banlanceOf') => banlanceOf' - g_banlanceOf >= Threshold
                                   /\ g_banlanceOf' = g_banlanceOf
      BY <1>2, Amounts DEF ReadBalance, IsIncome, TakesOver, RobotInv
    <2> QED
      BY <1>2, <2>1 DEF ReadBalance, delta, paidVars, plugVars
  <1>3. CASE SwitchOn
    <2>1. income >= Threshold
      BY <1>3, Amounts, NothingMadeUp, RobotAssumption
         DEF SwitchOn, RobotInv, FoundInv, earned
    <2> QED
      BY <1>3, <2>1 DEF SwitchOn
  <1>4. CASE PayDavid \/ PayCharlie \/ UpdateBaseline
    BY <1>4 DEF PayDavid, PayCharlie, UpdateBaseline, paidVars, plugVars
  <1>5. CASE FanTurn
    <2>1. fan' => fan
      BY <1>5, DemoAssumption, Zenon DEF FanTurn, Command, Commanded, plugVars
    <2> QED
      BY <1>5, <2>1 DEF FanTurn, paidVars
  <1> QED
    BY <1>1, <1>2, <1>3, <1>4, <1>5 DEF RobotStep

LEMMA StepWorth ==
  ASSUME RobotInv, WorthInv, RobotStep PROVE WorthInv'
  <1>1. CASE PayDavid
    <2>1. Share(50) \in Nat
      BY <1>1, ShareLeq DEF PayDavid, RobotInv, FoundInv, Paying
    <2>2. Transfer("David", Share(50)) /\ income' = income
      BY <1>1 DEF PayDavid, paidVars
    <2> QED
      BY <2>1, <2>2, Transferred DEF RobotInv, Investors
  <1>2. CASE PayCharlie
    <2>1. Share(30) \in Nat
      BY <1>2, ShareLeq DEF PayCharlie, RobotInv, FoundInv, Paying
    <2>2. Transfer("Charlie", Share(30)) /\ income' = income
      BY <1>2 DEF PayCharlie, paidVars
    <2> QED
      BY <2>1, <2>2, Transferred DEF RobotInv, Investors
  <1>3. CASE UNCHANGED <<chainVars, income>>
    BY <1>3 DEF WorthInv, chainVars
  <1> QED
    BY <1>1, <1>2, <1>3
       DEF RobotStep, StartLoop, ReadBalance, SwitchOn, UpdateBaseline, FanTurn,
           paidVars

LEMMA StepAccounts ==
  ASSUME RobotInv, WorthInv, AccountsInv, InitialBalance > 0, RobotStep
  PROVE  AccountsInv'
  <1> USE DEF AccountsInv, AtRest
  <1>0. balance > 0 /\ \A b \in BalanceReads : b = balance
    BY NeverPoor, ReadingIsBalance
  <1>1. CASE StartLoop
    <2>1. /\ g_banlanceOf' = balance /\ balance' = balance /\ pc' = "read"
          /\ shared' = shared /\ absorbed' = absorbed /\ income' = income
          /\ shared + absorbed = income
      BY <1>0, <1>1 DEF StartLoop, ReadBaseline, chainVars, paidVars
    <2> QED
      BY <1>0, <2>1, Amounts DEF RobotInv
  <1>2. CASE ReadBalance
    <2>1. /\ banlanceOf' = balance /\ g_banlanceOf' = g_banlanceOf
          /\ balance' = balance /\ pc' \in {"switchOn", "fan"}
          /\ shared' = shared /\ absorbed' = absorbed /\ income' = income
      BY <1>0, <1>2 DEF ReadBalance, TakesOver, chainVars, paidVars
    <2>2. g_banlanceOf > 0
          /\ shared + (balance - g_banlanceOf) + absorbed = income
      BY <1>2 DEF ReadBalance
    <2> QED
      BY <2>1, <2>2 DEF delta
  <1>3. CASE SwitchOn
    <2>1. /\ shared' = shared + delta /\ pc' = "payDavid"
          /\ absorbed' = absorbed /\ income' = income
          /\ shared + delta + absorbed = income
      BY <1>3 DEF SwitchOn
    <2> QED
      BY <2>1
  <1>4. CASE PayDavid \/ PayCharlie
    BY <1>4 DEF PayDavid, PayCharlie, paidVars
  <1>5. CASE UpdateBaseline
    <2>1. /\ g_banlanceOf' = balance /\ balance' = balance /\ pc' = "fan"
          /\ shared' = shared /\ absorbed' = absorbed /\ income' = income
          /\ shared + absorbed = income
      BY <1>0, <1>5 DEF UpdateBaseline, ReadBaseline, chainVars, paidVars
    <2> QED
      BY <1>0, <2>1, Amounts DEF RobotInv
  <1>6. CASE FanTurn
    BY <1>6 DEF FanTurn, chainVars, paidVars
  <1> QED
    BY <1>1, <1>2, <1>3, <1>4, <1>5, <1>6 DEF RobotStep

(***************************************************************************)
(* A payment that arrives.                                                 *)
(***************************************************************************)
LEMMA PaymentKeepsInv ==
  ASSUME DemoInv, Deposit(Payment) PROVE DemoInv'
  <1> USE DEF DemoInv
  <1>0. Payment \in Nat
    BY DemoAssumption
  <1>1. RobotInv'
    BY <1>0, DepositInv
  <1>2. PaidInv'
    <2>1. income' >= income /\ income \in Nat /\ income' \in Nat
      BY <1>0, Amounts DEF Deposit, RobotInv
    <2>2. delta' = delta /\ pc' = pc /\ fan' = fan
      BY DEF Deposit, delta, plugVars
    <2> QED
      BY <2>1, <2>2, RobotAssumption DEF PaidInv
  <1>3. WorthInv'
    BY <1>0, Amounts, RobotAssumption DEF Deposit, WorthInv, RobotInv
  <1>4. InitialBalance > 0 => AccountsInv'
    <2> SUFFICES ASSUME InitialBalance > 0 PROVE AccountsInv'
      OBVIOUS
    <2>1. AccountsInv
      OBVIOUS
    <2>2. /\ pc' = pc /\ delta' = delta /\ shared' = shared
          /\ g_banlanceOf' = g_banlanceOf
          /\ balance' = balance + Payment /\ income' = income + Payment
          /\ absorbed' = IF Sharing \/ pc = "start" THEN absorbed + Payment
                         ELSE absorbed
      BY DEF Deposit, delta
    <2> QED
      BY <1>0, <2>1, <2>2, Amounts DEF AccountsInv, AtRest, Sharing, RobotInv
  <1> QED
    BY <1>1, <1>2, <1>3, <1>4

LEMMA DemoStepInv == DemoInv /\ [DemoNext]_demoVars => DemoInv'
  <1> SUFFICES ASSUME DemoInv, [DemoNext]_demoVars PROVE DemoInv'
    OBVIOUS
  <1>1. RobotStep \/ Deposit(Payment) \/ UNCHANGED robotVars
    BY DEF DemoNext, HouseSample, PaymentMined, ACRobotStep, Boots, HouseEnds,
           demoVars
  <1>2. CASE RobotStep
    <2>1. RobotInv'
      BY <1>2, RobotStepInv DEF DemoInv, RobotNext
    <2> QED
      BY <1>2, <2>1, StepPaid, StepWorth, StepAccounts DEF DemoInv
  <1>3. CASE Deposit(Payment)
    BY <1>3, PaymentKeepsInv
  <1>4. CASE UNCHANGED robotVars
    <2>1. RobotInv'
      BY <1>4, RobotStepInv DEF DemoInv
    <2>2. PaidInv' /\ WorthInv' /\ (InitialBalance > 0 => AccountsInv')
      BY <1>4
         DEF robotVars, chainVars, plugVars, paidVars, DemoInv, PaidInv,
             WorthInv, AccountsInv, AtRest, delta
    <2> QED
      BY <2>1, <2>2 DEF DemoInv
  <1> QED
    BY <1>1, <1>2, <1>3, <1>4

LEMMA DemoAlwaysInv == DemoSpec => []DemoInv
  BY DemoInitInv, DemoStepInv, PTL DEF DemoSpec

-----------------------------------------------------------------------------

(***************************************************************************)
(* The fan never runs before the house keeping robot has paid for it,      *)
(* however the two programs start and interleave with the chain.           *)
(***************************************************************************)
THEOREM DemoFanIsPaidFor == DemoSpec => []FanIsPaidFor
  <1>1. DemoInv => FanIsPaidFor
    BY DEF DemoInv, PaidInv, FanIsPaidFor
  <1> QED
    BY <1>1, DemoAlwaysInv, PTL

(***************************************************************************)
(* At the top of the A/C robot's loop all income has been shared out, is   *)
(* visible above the baseline, or was absorbed by a new baseline.          *)
(***************************************************************************)
THEOREM DemoBooksBalance == DemoSpec => []BooksBalance
  <1>1. DemoInv => BooksBalance
    BY DEF DemoInv, AccountsInv, AtRest, BooksBalance
  <1> QED
    BY <1>1, DemoAlwaysInv, PTL

-----------------------------------------------------------------------------

BootInv == BootTypeOK /\ EndsOffline

LEMMA BootInitInv == DemoInit => BootInv
  BY DEF DemoInit, BootInit, BootInv, BootTypeOK, EndsOffline

LEMMA BootStepInv ==
  ASSUME BootInv, NEW r \in Robots, BootStep(r) PROVE BootInv'
  <1> USE DEF BootInv, BootTypeOK, EndsOffline, Goes
  <1>1. CASE ConnectModem(r)
    BY <1>1 DEF ConnectModem
  <1>2. CASE AwaitRegistration(r, Registers[r])
    BY <1>2 DEF AwaitRegistration
  <1>3. CASE RegistrationUnknown(r)
    BY <1>3 DEF RegistrationUnknown
  <1>4. CASE OpenSession(r)
    BY <1>4 DEF OpenSession
  <1>5. CASE SetUp(r)
    BY <1>5 DEF SetUp
  <1>6. CASE Release(r)
    BY <1>6 DEF Release
  <1> QED
    BY <1>1, <1>2, <1>3, <1>4, <1>5, <1>6 DEF BootStep

LEMMA BootNextInv == BootInv /\ [DemoNext]_demoVars => BootInv'
  <1> SUFFICES ASSUME BootInv, [DemoNext]_demoVars PROVE BootInv'
    OBVIOUS
  <1>1. (\E r \in Robots : BootStep(r)) \/ WorkEnds \/ UNCHANGED bootVars
    BY DEF DemoNext, HouseSample, PaymentMined, ACRobotStep, Boots, HouseEnds,
           demoVars
  <1>2. CASE WorkEnds
    BY <1>2 DEF WorkEnds, Goes, BootInv, BootTypeOK, EndsOffline
  <1>3. CASE UNCHANGED bootVars
    BY <1>3 DEF bootVars, BootInv, BootTypeOK, EndsOffline
  <1> QED
    BY <1>1, <1>2, <1>3, BootStepInv

(***************************************************************************)
(* No robot ends with the data session it opened still running, wherever   *)
(* its set-up failed and whatever its modem refused before.                *)
(***************************************************************************)
THEOREM DemoEndsOffline == DemoSpec => []EndsOffline
  BY BootInitInv, BootNextInv, PTL DEF DemoSpec, BootInv

=============================================================================
