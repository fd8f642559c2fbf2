------------------------- MODULE T1Protocol_proofs -------------------------
(***************************************************************************)
(* Proofs about T1Protocol for every block size, all retry limits, every   *)
(* set of commands and replies and any number of bus faults: the element   *)
(* executes each command at most once and whole, a reply is handed out     *)
(* whole or not at all, and the two ends stay in step.                     *)
(***************************************************************************)
EXTENDS T1Protocol, SequenceTheorems, TLAPS

Bit == {0, 1}
Byte == Nat \X Nat              \* <<command, position>>
Block == Nat \X Nat \X Nat      \* <<command, block, blocks of the reply>>

Contexts ==
    [type : {"INVALID", "UNKNOWN", "IFRAME", "RFRAME", "SFRAME"}, seq : Bit,
     offset : Nat, total : Nat, send : Nat, max : 1..MaxInf, chained : BOOLEAN,
     data : Nat, err : {"NO_ERROR", "PARITY_ERROR", "OTHER_ERROR"}, kind : SKinds]

Protos ==
    [state : {"IDLE", "IFRAME", "R_ACK", "R_NACK"} \union SKinds,
     current : {"IDLE", "TRANSCEIVE", "DEINIT"}, next : Contexts, last : Contexts,
     rcvdSeq : Bit, rsp : BOOLEAN,
     lastSentNonError : {"UNKNOWN", "IFRAME", "RFRAME", "SFRAME"},
     recovery : Nat, timeout : Nat, rnack : Nat, wtx : Nat]

IBlocks == [type : {"I"}, seq : Bit, more : BOOLEAN, data : Seq(Block)]
RBlocks ==
    [type : {"R"}, seq : Bit,
     err : {"NO_ERROR", "PARITY_ERROR", "OTHER_ERROR", "SOF_MISSED_ERROR"}]
SBlocks == [type : {"S"}, kind : SKinds \ {"WTX"}, data : {<<ATR>>}]
WtxBlock == [type |-> "S", kind |-> "WTX"]
Blocks == IBlocks \union RBlocks \union SBlocks \union {WtxBlock, Nothing}

Elements ==
    [expect : Bit, seq : Bit, input : Seq(Byte), todo : Seq(Block), last : Blocks,
     wtx : Nat]

Calls ==
    {"none", "RSync", "GetAtr", "Transceive", "EndOfApdu", "ChipReset", "IntfReset"}

Typed ==
    /\ proto \in Protos /\ se \in Elements /\ wire \in Blocks
    /\ reply \in Seq(Block)
    /\ call \in Calls /\ step \in {"send", "receive"} /\ status \in BOOLEAN
    /\ session \in {"closed", "open", "failed"}
    /\ asked \in Seq(CmdLens) /\ outcome \in Seq({"none", "answered", "failed", "noreply"})
    /\ Len(asked) = Len(outcome)
    /\ executed \in Seq(Seq(Byte))

-----------------------------------------------------------------------------
\* The host.

TypeOfState(state) ==
    CASE state = "IFRAME" -> "IFRAME"
      [] state \in {"R_ACK", "R_NACK"} -> "RFRAME"
      [] state \in SKinds -> "SFRAME"

(***************************************************************************)
(* What is sent next is of the kind that the state says.                   *)
(***************************************************************************)
Matching(p) ==
    p.state # "IDLE" =>
        /\ p.next.type = TypeOfState(p.state)
        /\ p.state \in SKinds => p.next.kind = p.state

(***************************************************************************)
(* While an answer is awaited.                                             *)
(***************************************************************************)
Awaiting(p) ==
    /\ p.state # "IDLE" /\ p.last = p.next
    /\ p.state # "R_NACK" => p.lastSentNonError = TypeOfState(p.state)

SameBlock(c, d) ==
    /\ c.seq = d.seq /\ c.offset = d.offset /\ c.total = d.total /\ c.send = d.send
    /\ c.max = d.max /\ c.chained = d.chained /\ c.data = d.data

(***************************************************************************)
(* The host has decided what to send next, the I-block under way is the    *)
(* same.                                                                   *)
(***************************************************************************)
Again(p, q) ==
    /\ q \in Protos /\ SameBlock(q.next, p.next) /\ q.last = p.last
    /\ q.rcvdSeq = p.rcvdSeq /\ q.rsp = p.rsp /\ q.lastSentNonError = p.lastSentNonError
    /\ Matching(q)

(***************************************************************************)
(* The same, for what the host may do about anything that went wrong.      *)
(***************************************************************************)
Continues(p, q) ==
    /\ Again(p, q)
    /\ \/ q.state \in {"R_NACK", "INTF_RESET", "IDLE"}
       \/ q.state = "IFRAME" /\ p.lastSentNonError = "IFRAME"
       \/ q.state = "R_ACK" /\ p.lastSentNonError = "RFRAME"
       \/ q.state = p.state /\ p.state \in SKinds

\* Too many errors: the exchange ends, and no error is reported.
GaveUp(q) == q.state = "IDLE" /\ q.recovery > FrameRetry

Counted(p, q) ==
    /\ q \in Protos /\ q.next = p.next /\ q.last = p.last /\ q.state = p.state
    /\ q.rcvdSeq = p.rcvdSeq /\ q.rsp = p.rsp
    /\ q.lastSentNonError = p.lastSentNonError /\ q.recovery = p.recovery

-----------------------------------------------------------------------------
\* What the host sends next

LEMMA FlipFacts ==
    /\ \A b \in Bit : Flip(b) \in Bit /\ Flip(b) # b /\ Flip(Flip(b)) = b
    /\ \A b, c \in Bit : b # c => b = Flip(c)
    /\ Flip(0) = 1 /\ Flip(1) = 0
  BY DEF Bit, Flip

LEMMA ToSendAgain ==
    ASSUME NEW p \in Protos, NEW kind \in SKinds
    PROVE  Again(p, ToSend(p, kind)) /\ ToSend(p, kind).state = kind
           /\ ToSend(p, kind).recovery = p.recovery
  <1>1. ToSend(p, kind) \in Protos
    BY DEF ToSend, Protos, Contexts
  <1>2. /\ SameBlock(ToSend(p, kind).next, p.next) /\ ToSend(p, kind).state = kind
        /\ ToSend(p, kind).next.type = "SFRAME" /\ ToSend(p, kind).next.kind = kind
        /\ ToSend(p, kind).recovery = p.recovery /\ ToSend(p, kind).last = p.last
        /\ ToSend(p, kind).rcvdSeq = p.rcvdSeq /\ ToSend(p, kind).rsp = p.rsp
        /\ ToSend(p, kind).lastSentNonError = p.lastSentNonError
    BY DEF ToSend, SameBlock, Protos, Contexts
  <1>3. TypeOfState(kind) = "SFRAME"
    BY DEF TypeOfState, SKinds
  <1> QED
    BY <1>1, <1>2, <1>3 DEF Again, Matching

LEMMA NackAgain ==
    ASSUME NEW p \in Protos, NEW err \in {"PARITY_ERROR", "OTHER_ERROR"}
    PROVE  Again(p, Nack(p, err)) /\ Nack(p, err).state = "R_NACK"
           /\ Nack(p, err).recovery = p.recovery
  BY DEF Nack, Again, SameBlock, Matching, Protos, Contexts, TypeOfState, SKinds

LEMMA AckAgain ==
    ASSUME NEW p \in Protos
    PROVE  Again(p, Ack(p)) /\ Ack(p).state = "R_ACK" /\ Ack(p).recovery = p.recovery
  BY DEF Ack, Again, SameBlock, Matching, Protos, Contexts, TypeOfState, SKinds

LEMMA ResendAgain ==
    ASSUME NEW p \in Protos, p.last = p.next, Matching(p)
    PROVE  Again(p, Resend(p)) /\ Resend(p).state = p.state
           /\ Resend(p).recovery = p.recovery
  BY DEF Resend, Again, SameBlock, Matching, Protos

LEMMA ResendIframeAgain ==
    ASSUME NEW p \in Protos, p.last = p.next
    PROVE  Again(p, ResendIframe(p)) /\ ResendIframe(p).state = "IFRAME"
           /\ ResendIframe(p).recovery = p.recovery
  BY DEF ResendIframe, Resend, Again, SameBlock, Matching, Protos, Contexts, TypeOfState,
         SKinds

LEMMA CountedFacts ==
    ASSUME NEW p, NEW q, NEW r
    PROVE  /\ Counted(p, q) /\ Again(q, r) => Again(p, r)
           /\ Again(p, q) /\ Counted(q, r) => Again(p, r)
           /\ Counted(p, q) /\ Matching(p) => Matching(q)
           /\ Counted(p, q) /\ Awaiting(p) => Awaiting(q)
           /\ Counted(p, q) /\ Continues(q, r) => Continues(p, r)
  BY DEF Counted, Again, SameBlock, Matching, Awaiting, Continues

LEMMA CountersCounted ==
    ASSUME NEW p \in Protos, NEW a \in Nat, NEW b \in Nat
    PROVE  /\ Counted(p, [p EXCEPT !.timeout = a, !.rnack = b])
           /\ Counted(p, [p EXCEPT !.timeout = a])
           /\ Counted(p, [p EXCEPT !.rnack = b])
           /\ Counted(p, [p EXCEPT !.wtx = a])
  <1>1. Counted(p, [p EXCEPT !.timeout = a, !.rnack = b])
    BY DEF Counted, Protos
  <1>2. Counted(p, [p EXCEPT !.timeout = a]) /\ Counted(p, [p EXCEPT !.rnack = b])
    BY DEF Counted, Protos
  <1>3. Counted(p, [p EXCEPT !.wtx = a])
    BY DEF Counted, Protos
  <1> QED
    BY <1>1, <1>2, <1>3

LEMMA RetryContinues ==
    ASSUME NEW p \in Protos, NEW q \in Protos, Continues(p, q), Matching(p)
    PROVE  LET r == Retry(p, q)
           IN  Continues(p, r) /\ r.state \in {q.state, "INTF_RESET", "IDLE"}
               /\ (r.state = "IDLE" => q.state = "IDLE" \/ GaveUp(r))
  <1> DEFINE c == IF p.recovery < FrameRetry THEN q ELSE RecoverySteps(p)
             r == Retry(p, q)
  <1>1. r = [c EXCEPT !.recovery = IF @ > FrameRetry THEN @ ELSE @ + 1]
    BY DEF Retry
  <1>2. /\ c \in Protos /\ Continues(p, c) /\ c.state \in {q.state, "INTF_RESET", "IDLE"}
        /\ c.state = "IDLE" => q.state = "IDLE" \/ c.recovery > FrameRetry
    <2>1. CASE p.recovery < FrameRetry
      BY <2>1
    <2>2. CASE ~(p.recovery < FrameRetry) /\ p.recovery <= FrameRetry
      <3>1. c = ToSend(p, "INTF_RESET")
        BY <2>2 DEF RecoverySteps
      <3>2. "INTF_RESET" \in SKinds
        BY DEF SKinds
      <3> HIDE DEF c
      <3> QED
        BY <3>1, <3>2, ToSendAgain DEF Continues, Again
    <2>3. CASE ~(p.recovery < FrameRetry) /\ ~(p.recovery <= FrameRetry)
      <3>1. c = [p EXCEPT !.state = "IDLE"]
        BY <2>3 DEF RecoverySteps
      <3> HIDE DEF c
      <3>2. c \in Protos /\ c.state = "IDLE" /\ c.recovery = p.recovery
            /\ c.next = p.next /\ c.last = p.last /\ c.rcvdSeq = p.rcvdSeq
            /\ c.rsp = p.rsp /\ c.lastSentNonError = p.lastSentNonError
        BY <3>1 DEF Protos
      <3>3. p.recovery \in Nat /\ FrameRetry \in Nat
        BY T1Assumption DEF Protos
      <3>4. Again(p, c)
        BY <3>2 DEF Again, SameBlock, Matching
      <3> QED
        BY <2>3, <3>2, <3>3, <3>4 DEF Continues
    <2> QED
      BY <2>1, <2>2, <2>3
  <1> HIDE DEF c, r
  <1>3. c.recovery \in Nat /\ FrameRetry \in Nat
    BY <1>2, T1Assumption DEF Protos
  <1>4. /\ r \in Protos /\ r.next = c.next /\ r.last = c.last /\ r.state = c.state
        /\ r.rcvdSeq = c.rcvdSeq /\ r.rsp = c.rsp
        /\ r.lastSentNonError = c.lastSentNonError
        /\ r.recovery = IF c.recovery > FrameRetry THEN c.recovery ELSE c.recovery + 1
    BY <1>1, <1>2, <1>3 DEF Protos
  <1>5. Continues(p, r)
    BY <1>2, <1>4 DEF Continues, Again, SameBlock, Matching
  <1>6. r.state = "IDLE" => q.state = "IDLE" \/ r.recovery > FrameRetry
    BY <1>2, <1>3, <1>4
  <1> QED
    BY <1>2, <1>4, <1>5, <1>6 DEF r, GaveUp

LEMMA CrcFailedContinues ==
    ASSUME NEW p \in Protos, Matching(p)
    PROVE  LET q == CrcFailed(p)
           IN  /\ Continues(p, q) /\ q.state \in {"R_NACK", "IDLE"}
               /\ q.state = "IDLE" => ~(p.rnack < RnackLimit)
  <1> DEFINE q == CrcFailed(p)
             n == Nack(p, "PARITY_ERROR")
  <1>1. CASE p.rnack < RnackLimit
    <2>1. q = [n EXCEPT !.timeout = 0, !.rnack = n.rnack + 1]
      BY <1>1 DEF CrcFailed
    <2>2. Again(p, n) /\ n.state = "R_NACK" /\ n \in Protos
      BY NackAgain DEF Again
    <2> HIDE DEF n, q
    <2>3. n.rnack + 1 \in Nat
      BY <2>2 DEF Protos
    <2>4. Counted(n, q)
      BY <2>1, <2>2, <2>3, CountersCounted
    <2> QED
      BY <1>1, <2>2, <2>4, CountedFacts DEF Counted, Continues, q
  <1>2. CASE ~(p.rnack < RnackLimit)
    <2>1. q = [p EXCEPT !.timeout = 0, !.rnack = 0, !.state = "IDLE"]
      BY <1>2 DEF CrcFailed
    <2> HIDE DEF q
    <2>2. q.state = "IDLE" /\ Again(p, q)
      BY <2>1 DEF Again, SameBlock, Matching, Protos
    <2> QED
      BY <1>2, <2>2 DEF Continues, q
  <1> QED
    BY <1>1, <1>2

LEMMA NothingReadContinues ==
    ASSUME NEW p \in Protos, Matching(p), Awaiting(p)
    PROVE  LET q == NothingRead(p)
           IN  Continues(p, q) /\ q.state # "WTX"
  <1> DEFINE q == NothingRead(p)
             wtxSent == p.last.type = "SFRAME" /\ p.last.kind = "WTX"
  <1>0. p.last = p.next /\ p.last.type = TypeOfState(p.state) /\ p.state # "IDLE"
        /\ (p.state \in SKinds => p.last.kind = p.state)
    BY DEF Matching, Awaiting
  <1>1. CASE (wtxSent \/ p.last.type = "IFRAME") /\ p.rnack < RnackLimit
    <2> DEFINE n == Nack(p, IF wtxSent THEN "OTHER_ERROR" ELSE "PARITY_ERROR")
    <2>1. q = [n EXCEPT !.rnack = n.rnack + 1]
      BY <1>1 DEF NothingRead
    <2>2. Again(p, n) /\ n.state = "R_NACK" /\ n \in Protos
      BY NackAgain DEF Again
    <2> HIDE DEF n, q
    <2>3. n.rnack + 1 \in Nat
      BY <2>2 DEF Protos
    <2>4. Counted(n, q)
      BY <2>1, <2>2, <2>3, CountersCounted
    <2> QED
      BY <1>1, <2>2, <2>4, CountedFacts DEF Counted, Continues, q
  <1>2. CASE (wtxSent \/ p.last.type = "IFRAME") /\ ~(p.rnack < RnackLimit)
    <2>1. q = [p EXCEPT !.rnack = 0, !.timeout = 0, !.state = "IDLE"]
      BY <1>2 DEF NothingRead
    <2> HIDE DEF q
    <2>2. q.state = "IDLE" /\ Again(p, q)
      BY <2>1 DEF Again, SameBlock, Matching, Protos
    <2> QED
      BY <2>2 DEF Continues, q
  <1>3. CASE ~(wtxSent \/ p.last.type = "IFRAME") /\ p.timeout < TimeoutRetry
    <2> DEFINE n == Resend(p)
    <2>1. q = [n EXCEPT !.timeout = n.timeout + 1]
      BY <1>3 DEF NothingRead
    <2>2. Again(p, n) /\ n.state = p.state /\ n \in Protos
      BY <1>0, ResendAgain DEF Again
    <2> HIDE DEF n, q
    <2>3. n.timeout + 1 \in Nat
      BY <2>2 DEF Protos
    <2>4. Counted(n, q)
      BY <2>1, <2>2, <2>3, CountersCounted
    <2>5. Again(p, q) /\ q.state = p.state
      BY <2>2, <2>4, CountedFacts DEF Counted
    <2>6. p.state \in {"R_ACK", "R_NACK"} \union SKinds /\ p.state # "WTX"
      BY <1>0, <1>3 DEF TypeOfState, SKinds, Protos
    <2>7. p.state = "R_ACK" => p.lastSentNonError = "RFRAME"
      BY DEF Awaiting, TypeOfState, SKinds
    <2> QED
      BY <2>5, <2>6, <2>7 DEF Continues, q
  <1>4. CASE ~(wtxSent \/ p.last.type = "IFRAME") /\ ~(p.timeout < TimeoutRetry)
    <2>1. q = [p EXCEPT !.timeout = 0, !.state = "IDLE"]
      BY <1>4 DEF NothingRead
    <2> HIDE DEF q
    <2>2. q.state = "IDLE" /\ Again(p, q)
      BY <2>1 DEF Again, SameBlock, Matching, Protos
    <2> QED
      BY <2>2 DEF Continues, q
  <1> QED
    BY <1>1, <1>2, <1>3, <1>4

\* An error the element reports.
LEMMA ErrorContinues ==
    ASSUME NEW p \in Protos, Matching(p), Awaiting(p),
           NEW f \in RBlocks, f.err # "NO_ERROR"
    PROVE  LET q == DecodeRframe(p, f)
           IN  /\ Continues(p, q)
               /\ q.state = "WTX" => p.state = "WTX"
               /\ q.state = "IDLE" => GaveUp(q)
  <1> DEFINE p0 == [p EXCEPT !.wtx = 0]
  <1>1. Counted(p, p0) /\ p0 \in Protos /\ Matching(p0) /\ Awaiting(p0)
        /\ p0.state = p.state /\ p0.lastSentNonError = p.lastSentNonError
    <2>1. 0 \in Nat
      OBVIOUS
    <2>2. Counted(p, p0)
      BY <2>1, CountersCounted
    <2> QED
      BY <2>2, CountedFacts DEF Counted
  <1> HIDE DEF p0
  <1>2. p0.last = p0.next /\ p0.state # "IDLE"
    BY <1>1 DEF Awaiting
  <1>3. ASSUME NEW n \in Protos, Continues(p0, n), n.state = "WTX" => p.state = "WTX",
               n.state # "IDLE"
        PROVE  LET q == Retry(p0, n)
               IN  /\ Continues(p, q)
                   /\ q.state = "WTX" => p.state = "WTX"
                   /\ q.state = "IDLE" => GaveUp(q)
    <2> DEFINE q == Retry(p0, n)
    <2>1. Continues(p0, q) /\ q.state \in {n.state, "INTF_RESET", "IDLE"}
          /\ (q.state = "IDLE" => n.state = "IDLE" \/ GaveUp(q))
      BY <1>1, <1>3, RetryContinues
    <2> HIDE DEF q
    <2>2. Continues(p, q)
      BY <1>1, <2>1, CountedFacts
    <2> QED
      BY <1>3, <2>1, <2>2 DEF q
  <1>4. Resend(p0) \in Protos /\ Continues(p0, Resend(p0)) /\ Resend(p0).state = p.state
    <2>1. Again(p0, Resend(p0)) /\ Resend(p0).state = p0.state
      BY <1>1, <1>2, ResendAgain
    <2>2. p0.state = "IFRAME" => p0.lastSentNonError = "IFRAME"
      BY <1>1 DEF Awaiting, TypeOfState, SKinds
    <2>3. p0.state = "R_ACK" => p0.lastSentNonError = "RFRAME"
      BY <1>1 DEF Awaiting, TypeOfState, SKinds
    <2>4. p0.state \in {"IFRAME", "R_ACK", "R_NACK"} \union SKinds
      BY <1>1, <1>2 DEF Protos
    <2> QED
      BY <1>1, <2>1, <2>2, <2>3, <2>4 DEF Continues, Again
  <1>5. CASE f.err = "SOF_MISSED_ERROR"
    <2>1. DecodeRframe(p, f) = Retry(p0, Resend(p0))
      BY <1>5 DEF DecodeRframe, p0
    <2> QED
      BY <1>1, <1>2, <1>3, <1>4, <2>1
  <1>6. CASE f.err \in {"PARITY_ERROR", "OTHER_ERROR"}
    <2> DEFINE n == CASE p.last.type = "IFRAME" -> ResendIframe(p0)
                      [] p.last.type = "RFRAME" -> AnswerNack(p0, f)
                      [] p.last.type = "SFRAME" -> Resend(p0)
                      [] OTHER -> p0
    <2>1. DecodeRframe(p, f) = Retry(p0, n)
      BY <1>6 DEF DecodeRframe, p0
    <2>2. p.last.type = TypeOfState(p.state) /\ p.state # "IDLE"
      BY DEF Matching, Awaiting
    <2>3. p.state \in {"IFRAME", "R_ACK", "R_NACK"} \union SKinds
      BY <2>2 DEF Protos
    <2>4. n \in Protos /\ Continues(p0, n) /\ n.state # "IDLE"
          /\ (n.state = "WTX" => p.state = "WTX")
      <3>1. CASE p.last.type = "IFRAME"
        <4>1. n = ResendIframe(p0)
          BY <3>1
        <4>2. p.state = "IFRAME"
          BY <2>2, <2>3, <3>1 DEF TypeOfState, SKinds
        <4>3. p0.lastSentNonError = "IFRAME"
          BY <1>1, <4>2 DEF Awaiting, TypeOfState, SKinds
        <4>4. Again(p0, n) /\ n.state = "IFRAME"
          BY <1>1, <1>2, <4>1, ResendIframeAgain
        <4> HIDE DEF n
        <4> QED
          BY <4>3, <4>4 DEF Continues, Again
      <3>2. CASE p.last.type = "RFRAME"
        <4>1. n = AnswerNack(p0, f)
          BY <3>2
        <4> HIDE DEF n
        <4>2. CASE n = ResendIframe(p0) /\ p0.lastSentNonError = "IFRAME"
          <5>1. Again(p0, n) /\ n.state = "IFRAME"
            BY <1>1, <1>2, <4>2, ResendIframeAgain
          <5> QED
            BY <4>2, <5>1 DEF Continues, Again
        <4>3. CASE n = Ack(p0) /\ p0.lastSentNonError = "RFRAME"
          <5>1. Again(p0, n) /\ n.state = "R_ACK"
            BY <1>1, <4>3, AckAgain
          <5> QED
            BY <4>3, <5>1 DEF Continues, Again
        <4>4. CASE n = Nack(p0, "OTHER_ERROR")
          <5>1. Again(p0, n) /\ n.state = "R_NACK"
            BY <1>1, <4>4, NackAgain
          <5> QED
            BY <5>1 DEF Continues, Again
        <4> QED
          BY <4>1, <4>2, <4>3, <4>4 DEF AnswerNack
      <3>3. CASE p.last.type = "SFRAME"
        <4>1. n = Resend(p0)
          BY <3>3
        <4> HIDE DEF n
        <4> QED
          BY <1>4, <2>2, <4>1
      <3> QED
        BY <2>2, <2>3, <3>1, <3>2, <3>3 DEF TypeOfState
    <2> HIDE DEF n
    <2> QED
      BY <1>3, <2>1, <2>4
  <1> QED
    BY <1>5, <1>6 DEF RBlocks

\* The element repeats a block that has been taken.
LEMMA RepeatedContinues ==
    ASSUME NEW p \in Protos, Matching(p), NEW f \in IBlocks, f.seq = p.rcvdSeq
    PROVE  LET q == DecodeIframe(p, f)
           IN  /\ Continues(p, q) /\ q.state # "WTX"
               /\ q.state = "IDLE" => GaveUp(q)
  <1> DEFINE p0 == [p EXCEPT !.wtx = 0]
             n == Nack(p0, "OTHER_ERROR")
             q == DecodeIframe(p, f)
  <1>1. Counted(p, p0)
    <2>1. 0 \in Nat
      OBVIOUS
    <2> QED
      BY <2>1, CountersCounted
  <1>2. q = Retry(p0, n)
    BY DEF DecodeIframe
  <1> HIDE DEF p0, q
  <1>3. p0 \in Protos /\ Matching(p0)
    BY <1>1, CountedFacts DEF Counted
  <1>4. n \in Protos /\ Continues(p0, n) /\ n.state = "R_NACK"
    BY <1>3, NackAgain DEF Continues, Again
  <1> HIDE DEF n
  <1>5. Continues(p0, q) /\ q.state \in {"R_NACK", "INTF_RESET", "IDLE"}
        /\ (q.state = "IDLE" => GaveUp(q))
    BY <1>2, <1>3, <1>4, RetryContinues
  <1>6. Continues(p, q)
    BY <1>1, <1>5, CountedFacts
  <1> QED
    BY <1>5, <1>6 DEF q

Takes(p, q) ==
    /\ q \in Protos /\ SameBlock(q.next, p.next) /\ q.last = p.last
    /\ q.rsp = p.rsp /\ Matching(q)

LEMMA BlockTaken ==
    ASSUME NEW p \in Protos, NEW f \in IBlocks, f.seq # p.rcvdSeq
    PROVE  LET q == DecodeIframe(p, f)
           IN  /\ Takes(p, q) /\ q.rcvdSeq = f.seq
               /\ q.state = IF f.more THEN "R_ACK" ELSE "IDLE"
               /\ q.lastSentNonError = p.lastSentNonError
  <1> DEFINE p0 == [p EXCEPT !.wtx = 0]
             fresh == [p0 EXCEPT !.recovery = 0, !.rcvdSeq = f.seq]
             q == DecodeIframe(p, f)
  <1>1. q = IF f.more THEN Ack(fresh) ELSE [fresh EXCEPT !.state = "IDLE"]
    BY DEF DecodeIframe
  <1>2. /\ fresh \in Protos /\ fresh.next = p.next /\ fresh.last = p.last
        /\ fresh.rsp = p.rsp /\ fresh.rcvdSeq = f.seq
        /\ fresh.lastSentNonError = p.lastSentNonError
    BY DEF Protos, IBlocks
  <1> HIDE DEF fresh, q
  <1>3. CASE f.more
    <2>1. q = Ack(fresh)
      BY <1>1, <1>3
    <2>2. Again(fresh, q) /\ q.state = "R_ACK"
      BY <1>2, <2>1, AckAgain
    <2> QED
      BY <1>2, <1>3, <2>2 DEF Again, Takes, q
  <1>4. CASE ~f.more
    <2>1. q = [fresh EXCEPT !.state = "IDLE"]
      BY <1>1, <1>4
    <2>2. /\ q \in Protos /\ q.state = "IDLE" /\ q.next = p.next /\ q.last = p.last
          /\ q.rsp = p.rsp /\ q.rcvdSeq = f.seq
          /\ q.lastSentNonError = p.lastSentNonError
      BY <1>2, <2>1 DEF Protos
    <2> QED
      BY <1>4, <2>2 DEF Takes, SameBlock, Matching, q
  <1> QED
    BY <1>3, <1>4

LEMMA PortionFacts ==
    ASSUME NEW ctx \in Contexts, NEW total \in Nat
    PROVE  LET c == Portion(ctx, total)
           IN  /\ c \in Contexts /\ c.seq = ctx.seq /\ c.offset = ctx.offset
               /\ c.max = ctx.max /\ c.data = ctx.data /\ c.type = ctx.type
               /\ (c.chained <=> total > ctx.max)
               /\ c.chained => c.send = ctx.max /\ c.total = total - ctx.max
               /\ ~c.chained => c.send = total
  <1>0. ctx.max \in Nat
    BY T1Assumption DEF Contexts
  <1>1. CASE total > ctx.max
    <2>1. total - ctx.max \in Nat
      BY <1>0, <1>1
    <2> QED
      BY <1>0, <1>1, <2>1 DEF Portion, Contexts
  <1>2. CASE ~(total > ctx.max)
    <2> DEFINE c == Portion(ctx, total)
    <2>1. c = [ctx EXCEPT !.chained = FALSE, !.send = total]
      BY <1>2 DEF Portion
    <2> HIDE DEF c
    <2>2. c \in Contexts /\ c.chained = FALSE /\ c.send = total
      BY <2>1 DEF Contexts
    <2>3. c.seq = ctx.seq /\ c.offset = ctx.offset /\ c.max = ctx.max
          /\ c.data = ctx.data /\ c.type = ctx.type
      BY <2>1 DEF Contexts
    <2> QED
      BY <1>0, <1>2, <2>2, <2>3 DEF c
  <1> QED
    BY <1>1, <1>2

\* The element has acknowledged a block of the command: the next one is due.
LEMMA NextIframe ==
    ASSUME NEW p \in Protos, NEW f \in RBlocks, f.err = "NO_ERROR", f.seq # p.last.seq
    PROVE  LET q == DecodeRframe(p, f)
           IN  /\ q \in Protos /\ q.state = "IFRAME" /\ Matching(q)
               /\ q.rcvdSeq = p.rcvdSeq /\ q.rsp = p.rsp
               /\ q.next.seq = Flip(p.last.seq) /\ q.next.data = p.last.data
               /\ q.next.offset = p.last.offset + p.last.max
               /\ q.next.max = p.last.max
               /\ (q.next.chained <=> p.last.total > p.last.max)
               /\ q.next.chained =>
                     q.next.send = p.last.max /\ q.next.total = p.last.total - p.last.max
               /\ ~q.next.chained => q.next.send = p.last.total
  <1> DEFINE r == [p EXCEPT !.wtx = 0, !.recovery = 0]
             n == [p.next EXCEPT !.type = "IFRAME", !.seq = Flip(p.last.seq),
                                 !.offset = p.last.offset + p.last.max,
                                 !.data = p.last.data, !.max = p.last.max]
             q == DecodeRframe(p, f)
  <1>1. /\ r \in Protos /\ r.next = p.next /\ r.last = p.last
        /\ r.rcvdSeq = p.rcvdSeq /\ r.rsp = p.rsp
    BY DEF Protos
  <1>2. q = SetNextIframeContxt(r)
    BY <1>1 DEF DecodeRframe
  <1> HIDE DEF r, q
  <1>3. q = [r EXCEPT !.state = "IFRAME", !.next = Portion(n, p.last.total)]
    BY <1>1, <1>2 DEF SetNextIframeContxt
  <1>4. p.next \in Contexts /\ p.last \in Contexts
    BY DEF Protos
  <1>5. n \in Contexts /\ n.type = "IFRAME" /\ n.seq = Flip(p.last.seq)
        /\ n.offset = p.last.offset + p.last.max /\ n.data = p.last.data
        /\ n.max = p.last.max /\ p.last.total \in Nat
    <2>1. Flip(p.last.seq) \in Bit
      BY <1>4, FlipFacts DEF Contexts
    <2>2. p.last.offset + p.last.max \in Nat
      BY <1>4, T1Assumption DEF Contexts
    <2> QED
      BY <1>4, <2>1, <2>2 DEF Contexts
  <1> HIDE DEF n
  <1> DEFINE c == Portion(n, p.last.total)
  <1>6. /\ c \in Contexts /\ c.seq = n.seq /\ c.offset = n.offset
        /\ c.max = n.max /\ c.data = n.data /\ c.type = n.type
        /\ (c.chained <=> p.last.total > n.max)
        /\ c.chained => c.send = n.max /\ c.total = p.last.total - n.max
        /\ ~c.chained => c.send = p.last.total
    BY <1>5, PortionFacts
  <1> HIDE DEF c
  <1>7. q \in Protos /\ q.state = "IFRAME" /\ q.next = c /\ q.rcvdSeq = p.rcvdSeq
        /\ q.rsp = p.rsp
    BY <1>1, <1>3, <1>6 DEF Protos, c
  <1>8. Matching(q)
    BY <1>5, <1>6, <1>7 DEF Matching, TypeOfState, SKinds
  <1> QED
    BY <1>5, <1>6, <1>7, <1>8 DEF q

LEMMA ExtensionAgain ==
    ASSUME NEW p \in Protos, Matching(p), Awaiting(p)
    PROVE  LET q == DecodeSframe(p, WtxBlock)
           IN  /\ Continues(p, q) \/ (Again(p, q) /\ q.state = "WTX")
               /\ q.state = "IDLE" => GaveUp(q)
  <1> DEFINE p0 == [p EXCEPT !.wtx = p.wtx + 1]
             q == DecodeSframe(p, WtxBlock)
  <1>1. Counted(p, p0) /\ p0 \in Protos /\ Matching(p0) /\ Awaiting(p0)
    <2>1. p.wtx + 1 \in Nat
      BY DEF Protos
    <2>2. Counted(p, p0)
      BY <2>1, CountersCounted
    <2> QED
      BY <2>2, CountedFacts DEF Counted
  <1>2. q = IF p.last.type = "SFRAME" /\ p.last.kind # "WTX"
            THEN Retry(p0, Resend(p0))
            ELSE IF p0.wtx = WtxLimit
            THEN ToSend([p0 EXCEPT !.wtx = 0], "INTF_RESET")
            ELSE ToSend(p0, "WTX")
    BY DEF DecodeSframe, WtxBlock
  <1> HIDE DEF p0, q
  <1>3. CASE p.last.type = "SFRAME" /\ p.last.kind # "WTX"
    <2>1. p0.last = p0.next /\ p0.state # "IDLE" /\ p0.state = p.state
      BY <1>1 DEF Awaiting, Counted
    <2>2. p.state \in SKinds
      BY <1>3 DEF Awaiting, Matching, TypeOfState, Protos
    <2>3. Resend(p0) \in Protos /\ Continues(p0, Resend(p0))
          /\ Resend(p0).state = p0.state
      BY <1>1, <2>1, <2>2, ResendAgain DEF Continues, Again
    <2>4. Continues(p0, q) /\ (q.state = "IDLE" => GaveUp(q))
      BY <1>1, <1>2, <1>3, <2>1, <2>3, RetryContinues
    <2> QED
      BY <1>1, <2>4, CountedFacts DEF q
  <1>4. CASE ~(p.last.type = "SFRAME" /\ p.last.kind # "WTX") /\ p0.wtx = WtxLimit
    <2> DEFINE p1 == [p0 EXCEPT !.wtx = 0]
    <2>1. Counted(p0, p1) /\ p1 \in Protos
      <3>1. 0 \in Nat
        OBVIOUS
      <3> QED
        BY <1>1, <3>1, CountersCounted DEF Counted
    <2>2. q = ToSend(p1, "INTF_RESET") /\ "INTF_RESET" \in SKinds
      BY <1>2, <1>4 DEF SKinds
    <2> HIDE DEF p1
    <2>3. Again(p1, q) /\ q.state = "INTF_RESET"
      BY <2>1, <2>2, ToSendAgain
    <2>4. Again(p, q)
      BY <1>1, <2>1, <2>3, CountedFacts
    <2> QED
      BY <2>3, <2>4 DEF Continues, q
  <1>5. CASE ~(p.last.type = "SFRAME" /\ p.last.kind # "WTX") /\ ~(p0.wtx = WtxLimit)
    <2>1. q = ToSend(p0, "WTX") /\ "WTX" \in SKinds
      BY <1>2, <1>5 DEF SKinds
    <2>2. Again(p0, q) /\ q.state = "WTX"
      BY <1>1, <2>1, ToSendAgain
    <2> QED
      BY <1>1, <2>2, CountedFacts DEF q
  <1> QED
    BY <1>3, <1>4, <1>5

LEMMA ResetTyped ==
    /\ ResetProtoParams \in Protos /\ ResetProtoParams.state = "IDLE"
    /\ ResetProtoParams.rcvdSeq = 1
    /\ [ResetProtoParams EXCEPT !.next.type = "UNKNOWN"] \in Protos
    /\ [ResetProtoParams EXCEPT !.next.type = "UNKNOWN"].state = "IDLE"
    /\ [ResetProtoParams EXCEPT !.next.type = "UNKNOWN"].rcvdSeq = 1
  <1> DEFINE r == ResetProtoParams
             c == [NoContext EXCEPT !.type = "UNKNOWN"]
  <1>1. NoContext \in Contexts
    BY T1Assumption DEF NoContext, Contexts, Bit, SKinds
  <1>2. c \in Contexts
    BY <1>1 DEF Contexts
  <1>3. r \in Protos /\ r.state = "IDLE" /\ r.rcvdSeq = 1 /\ r.next = NoContext
    BY <1>1 DEF ResetProtoParams, Protos, Bit
  <1> HIDE DEF r, c
  <1>4. [r EXCEPT !.next = c] \in Protos /\ [r EXCEPT !.next = c].state = "IDLE"
        /\ [r EXCEPT !.next = c].rcvdSeq = 1
    BY <1>2, <1>3 DEF Protos
  <1>5. [r EXCEPT !.next.type = "UNKNOWN"] = [r EXCEPT !.next = c]
    BY <1>3 DEF c
  <1> QED
    BY <1>3, <1>4, <1>5 DEF r

\* The response to a request ends the exchange; a reset forgets what was received.
LEMMA ResponseTaken ==
    ASSUME NEW p \in Protos, NEW f \in SBlocks
    PROVE  LET q == DecodeSframe(p, f)
           IN  /\ q \in Protos /\ q.state = "IDLE"
               /\ f.kind # "INTF_RESET" => q.rcvdSeq = p.rcvdSeq
               /\ f.kind = "INTF_RESET" /\ DecodeStatus(p, f) => q.rcvdSeq = 1
  <1> DEFINE p0 == [p EXCEPT !.wtx = 0]
             q == DecodeSframe(p, f)
  <1>1. p0 \in Protos /\ p0.rcvdSeq = p.rcvdSeq
    BY DEF Protos
  <1>2. f.kind # "WTX" /\ f.type = "S"
    BY DEF SBlocks
  <1>3. q = IF f.kind = "INTF_RESET"
            THEN IF p.recovery > FrameRetry
                 THEN [p0 EXCEPT !.state = "IDLE"]
                 ELSE [ResetProtoParams EXCEPT !.next.type = "UNKNOWN"]
            ELSE [p0 EXCEPT !.next.type = "UNKNOWN", !.state = "IDLE"]
    BY <1>2 DEF DecodeSframe
  <1> HIDE DEF p0, q
  <1>4. CASE f.kind = "INTF_RESET" /\ p.recovery > FrameRetry
    <2>1. q = [p0 EXCEPT !.state = "IDLE"]
      BY <1>3, <1>4
    <2>2. ~DecodeStatus(p, f)
      BY <1>2, <1>4 DEF DecodeStatus
    <2> QED
      BY <1>1, <1>4, <2>1, <2>2 DEF Protos, q
  <1>5. CASE f.kind = "INTF_RESET" /\ ~(p.recovery > FrameRetry)
    <2>1. q = [ResetProtoParams EXCEPT !.next.type = "UNKNOWN"]
      BY <1>3, <1>5
    <2> QED
      BY <1>5, <2>1, ResetTyped DEF q
  <1>6. CASE f.kind # "INTF_RESET"
    <2>1. q = [p0 EXCEPT !.next.type = "UNKNOWN", !.state = "IDLE"]
      BY <1>3, <1>6
    <2>2. p0.next \in Contexts
      BY <1>1 DEF Protos
    <2>3. [p0.next EXCEPT !.type = "UNKNOWN"] \in Contexts
      BY <2>2 DEF Contexts
    <2> QED
      BY <1>1, <1>6, <2>1, <2>3 DEF Protos, q
  <1> QED
    BY <1>4, <1>5, <1>6

-----------------------------------------------------------------------------
\* The inductive invariant

\* Only a command makes the host send I-blocks, for the first time or again; of
\* S-blocks it sends the call's request, interface resets and extensions.
HostInv ==
    /\ call = "none" => proto.state = "IDLE" /\ step = "send"
    /\ Matching(proto)
    /\ step = "receive" => Awaiting(proto)
    /\ call # "Transceive" =>
          /\ proto.state # "IFRAME"
          /\ proto.state = "R_NACK" => proto.lastSentNonError # "IFRAME"
    /\ proto.state \in SKinds => proto.state \in {"INTF_RESET", "WTX", RequestOf[call]}

AfterReset(e) == e.expect = 0 /\ e.seq = 1 /\ e.input = <<>> /\ e.todo = <<>>
Answer(kind) == [type |-> "S", kind |-> kind, data |-> <<ATR>>]

\* What the element sent last says where it is.
ElementInv ==
    /\ se.todo # <<>> => se.input = <<>>
    /\ se.last.type = "I" =>
          /\ se.last.seq = se.seq /\ se.input = <<>>
          /\ se.last.more <=> se.todo # <<>>
    /\ se.last \in {Answer("RESYNCH"), Answer("INTF_RESET"), Answer("CHIP_RESET")} =>
          AfterReset(se)
    /\ se.last = WtxBlock => se.todo # <<>>

\* The first n bytes of command c, and whether the element has executed it.
Prefix(c, n) == [k \in 1..n |-> <<c, k>>]
Executed(c) == \E i \in DOMAIN executed : executed[i][1][1] = c

\* An answer under way is the element's last, or asks for the block it expects; an
\* acknowledgement comes only for a block of the command that was sent last.
WireInv ==
    /\ step = "send" => wire = Nothing
    /\ wire.type \in {"I", "S"} => wire = se.last
    /\ wire.type = "R" => wire.seq = se.expect
    /\ wire.type = "R" /\ wire.err = "NO_ERROR" =>
          /\ call = "Transceive" /\ proto.state = "IFRAME" /\ ~Executed(Cmd)
          /\ se.expect = Flip(proto.next.seq) /\ proto.next.chained
          /\ se.input = Prefix(Cmd, proto.next.offset + proto.next.send)

ExecutedInv ==
    /\ \A i \in DOMAIN executed :
          /\ executed[i][1][1] \in 1..Cmd
          /\ executed[i] = Prefix(executed[i][1][1], asked[executed[i][1][1]])
    /\ \A i, j \in DOMAIN executed : executed[i][1][1] = executed[j][1][1] => i = j

\* The I-block under way belongs to the command and ends where its length says.
BlockInv ==
    /\ proto.next.data = Cmd /\ proto.next.send > 0
    /\ proto.next.chained =>
          /\ proto.next.send = proto.next.max /\ proto.next.total > 0
          /\ proto.next.offset + proto.next.send + proto.next.total = asked[Cmd]
    /\ ~proto.next.chained => proto.next.offset + proto.next.send = asked[Cmd]

\* The element has the blocks before this one, or this one too.
NotExecuted ==
    /\ ~Executed(Cmd) /\ reply = <<>> /\ proto.rsp
    /\ BlockInv
    /\ se.todo = <<>> /\ se.seq = proto.rcvdSeq
    /\ se.expect = proto.next.seq => se.input = Prefix(Cmd, proto.next.offset)

\* Blocks from + 1 to to of command c's reply of n blocks.
ReplyPart(c, from, to, n) == [i \in 1..to - from |-> <<c, from + i, n>>]

\* The element has executed the command and sent m of n blocks of the reply.
Sent(m, n) ==
    /\ Executed(Cmd) /\ proto.rsp
    /\ se.expect = Flip(proto.next.seq) /\ proto.last.seq = proto.next.seq
    /\ se.input = <<>> /\ se.todo = ReplyPart(Cmd, m, n, n)

\* All blocks sent have come in.
Received(m, n) ==
    /\ Sent(m, n)
    /\ se.seq = proto.rcvdSeq
    /\ reply = ReplyPart(Cmd, 0, m, n)
    /\ m = n => step = "send" /\ proto.state = "IDLE"

\* The last block sent is under way or was lost.
Missed(m, n) ==
    /\ Sent(m, n)
    /\ m > 0
    /\ se.seq = Flip(proto.rcvdSeq)
    /\ se.last.type = "I" /\ se.last.data = <<<<Cmd, m, n>>>>
    /\ reply = ReplyPart(Cmd, 0, m - 1, n)
    /\ proto.state = "WTX" => step = "receive" /\ wire.type = "I"

Replying == \E n \in ReplyBlocks : \E m \in 0..n : Received(m, n) \/ Missed(m, n)

\* A part of a reply that is not the whole of it.
Partial == reply = <<>> \/ \E n \in ReplyBlocks : \E m \in 0..n - 1 :
                              reply = ReplyPart(Cmd, 0, m, n)

\* The element has forgotten the command, its answer to the reset is not in yet.
BeingReset ==
    /\ se.last = Answer("INTF_RESET")
    /\ proto.rsp
    /\ proto.state \in {"INTF_RESET", "R_NACK", "IDLE"}
    /\ proto.state = "R_NACK" => proto.lastSentNonError = "SFRAME"
    /\ Partial

HasATR == reply # <<>> /\ Last(reply) = ATR

Ended == step = "send" /\ proto.state = "IDLE"

TransceiveInv ==
    call = "Transceive" =>
        /\ Cmd > 0 /\ outcome[Cmd] = "none" /\ session = "open"
        /\ NotExecuted \/ Replying \/ BeingReset \/ (Ended /\ HasATR)
        /\ Ended /\ status => HasATR \/ WholeReply(Cmd, reply)

\* Between commands the element has nothing to take, nothing to send, and the
\* number of the last block that the host has taken.
InStep == se.input = <<>> /\ se.todo = <<>> /\ se.seq = proto.rcvdSeq

SessionInv ==
    /\ call # "Transceive" /\ Cmd > 0 => outcome[Cmd] # "none"
    /\ call = "none" /\ session = "open" => InStep
    /\ call \in {"RSync", "GetAtr"} => session = "closed"
    /\ call \in {"ChipReset", "IntfReset"} => session = "failed"
    /\ call = "RSync" =>
          /\ proto.state = "RESYNCH" \/ se.last = Answer("RESYNCH") => proto.rcvdSeq = 1
          /\ Ended /\ status => InStep
    /\ call = "GetAtr" =>
          /\ InStep \/ (se.last = Answer("INTF_RESET") /\ proto.state # "ATR")
          /\ Ended /\ status => InStep

Inv == /\ Typed /\ HostInv /\ ElementInv /\ WireInv
       /\ ExecutedInv /\ TransceiveInv /\ SessionInv

T1Inv == misled \/ Inv

-----------------------------------------------------------------------------
\* Facts about blocks, commands and replies

LEMMA BlockKinds ==
    ASSUME NEW f \in Blocks
    PROVE  /\ f.type = "I" <=> f \in IBlocks
           /\ f.type = "R" <=> f \in RBlocks
           /\ f.type = "S" <=> f \in SBlocks \/ f = WtxBlock
           /\ f.type \in {"I", "R", "S"} <=> f # Nothing
           /\ f \in SBlocks => f.type = "S" /\ f.kind # "WTX" /\ f = Answer(f.kind)
  <1>1. CASE f \in IBlocks
    BY <1>1 DEF IBlocks, RBlocks, SBlocks, WtxBlock, Nothing
  <1>2. CASE f \in RBlocks
    BY <1>2 DEF IBlocks, RBlocks, SBlocks, WtxBlock, Nothing
  <1>3. CASE f \in SBlocks
    <2>1. f.type = "S" /\ f.kind # "WTX" /\ f = Answer(f.kind)
      BY <1>3 DEF SBlocks, Answer
    <2> QED
      BY <1>3, <2>1 DEF IBlocks, RBlocks, Nothing
  <1>4. CASE f = WtxBlock
    BY <1>4 DEF IBlocks, RBlocks, SBlocks, WtxBlock, Nothing
  <1>5. CASE f = Nothing
    BY <1>5 DEF IBlocks, RBlocks, SBlocks, WtxBlock, Nothing
  <1> QED
    BY <1>1, <1>2, <1>3, <1>4, <1>5 DEF Blocks

LEMMA AnswersDiffer ==
    /\ \A k, l : Answer(k) = Answer(l) => k = l
    /\ \A k : Answer(k).type = "S" /\ Answer(k).kind = k /\ Answer(k) # WtxBlock
    /\ WtxBlock.type = "S" /\ WtxBlock.kind = "WTX"
    /\ \A k \in SKinds \ {"WTX"} : Answer(k) \in Blocks
  BY DEF Answer, WtxBlock, Blocks, SBlocks

LEMMA ContinuesKeepsInv ==
    ASSUME Inv, step = "receive", step' = "send", wire' = Nothing,
           UNCHANGED <<reply, call, session, se, asked, executed, outcome>>,
           Again(proto, proto'), status' \in BOOLEAN,
           Continues(proto, proto') \/ (proto'.state = "WTX" /\ wire = WtxBlock),
           proto'.state = "WTX" =>
               wire = WtxBlock \/ (proto.state = "WTX" /\ wire.type # "I"),
           proto'.state = "IDLE" => ~status'
    PROVE  Inv'
  <1> USE DEF Inv
  <1>1. Typed'
    BY DEF Typed, Again, Blocks
  <1>2. /\ proto \in Protos /\ proto' \in Protos /\ proto'.last = proto.last
        /\ proto'.rcvdSeq = proto.rcvdSeq /\ proto'.rsp = proto.rsp
        /\ proto'.lastSentNonError = proto.lastSentNonError
        /\ SameBlock(proto'.next, proto.next) /\ Matching(proto')
        /\ proto.last = proto.next /\ proto.state # "IDLE"
        /\ (proto.state # "R_NACK" => proto.lastSentNonError = TypeOfState(proto.state))
    BY DEF Typed, Again, HostInv, Awaiting
  <1>3. HostInv'
    <2>1. call # "none"
      BY DEF HostInv
    <2>2. ASSUME call # "Transceive"
          PROVE  /\ proto'.state # "IFRAME"
                 /\ proto'.state = "R_NACK" => proto'.lastSentNonError # "IFRAME"
      <3>1. proto.state # "IFRAME"
            /\ (proto.state = "R_NACK" => proto.lastSentNonError # "IFRAME")
        BY <2>2 DEF HostInv
      <3>2. proto.lastSentNonError # "IFRAME"
        BY <1>2, <3>1 DEF TypeOfState, Protos
      <3> QED
        BY <1>2, <3>1, <3>2 DEF Continues, SKinds
    <2>3. ASSUME proto'.state \in SKinds
          PROVE  proto'.state \in {"INTF_RESET", "WTX", RequestOf[call']}
      <3>1. proto.state \in SKinds => proto.state \in {"INTF_RESET", "WTX", RequestOf[call]}
        BY DEF HostInv
      <3> QED
        BY <2>3, <3>1 DEF Continues, SKinds
    <2> QED
      BY <1>2, <2>1, <2>2, <2>3 DEF HostInv
  <1>4. ElementInv' /\ ExecutedInv'
    BY DEF ElementInv, ExecutedInv, AfterReset, Cmd
  <1>5. WireInv'
    BY DEF WireInv, Nothing
  <1>6. TransceiveInv'
    <2> SUFFICES ASSUME call = "Transceive"
                 PROVE  /\ Cmd > 0 /\ outcome[Cmd] = "none" /\ session = "open"
                        /\ (NotExecuted \/ Replying \/ BeingReset \/ (Ended /\ HasATR))'
                        /\ ~(Ended /\ status)'
      BY DEF TransceiveInv, Cmd
    <2>1. /\ Cmd > 0 /\ outcome[Cmd] = "none" /\ session = "open"
          /\ NotExecuted \/ Replying \/ BeingReset
      BY DEF TransceiveInv, Ended
    <2>2. ~(Ended /\ status)'
      BY DEF Ended
    <2>3. ASSUME NotExecuted PROVE NotExecuted'
      BY <1>2, <2>3 DEF NotExecuted, BlockInv, Executed, Cmd, SameBlock
    <2>4. ASSUME NEW m, NEW n, Received(m, n) PROVE Received(m, n)'
      BY <1>2, <2>4 DEF Received, Sent, Executed, Cmd, SameBlock
    <2>5. ASSUME NEW m, NEW n, Missed(m, n) PROVE Missed(m, n)'
      <3>1. proto'.state # "WTX"
        <4>1. wire # WtxBlock
          BY <2>5, AnswersDiffer DEF Missed, WireInv
        <4>2. ~(proto.state = "WTX" /\ wire.type # "I")
          BY <2>5 DEF Missed
        <4> QED
          BY <4>1, <4>2
      <3> QED
        BY <1>2, <2>5, <3>1 DEF Missed, Sent, Executed, Cmd, SameBlock
    <2>6. ASSUME BeingReset PROVE BeingReset'
      <3>1. wire # WtxBlock
        BY <2>6, AnswersDiffer DEF BeingReset, WireInv
      <3>2. proto.lastSentNonError = "SFRAME"
        BY <1>2, <2>6 DEF BeingReset, TypeOfState, SKinds
      <3>3. proto'.state \in {"INTF_RESET", "R_NACK", "IDLE"}
        BY <1>2, <2>6, <3>1, <3>2 DEF BeingReset, Continues, SKinds
      <3> QED
        BY <1>2, <2>6, <3>2, <3>3 DEF BeingReset, Partial, ReplyPart, Cmd
    <2>7. CASE Replying
      <3>1. PICK n \in ReplyBlocks : \E m \in 0..n : Received(m, n) \/ Missed(m, n)
        BY <2>7 DEF Replying
      <3>2. PICK m \in 0..n : Received(m, n) \/ Missed(m, n)
        BY <3>1
      <3>3. Received(m, n)' \/ Missed(m, n)'
        BY <3>2, <2>4, <2>5
      <3> QED
        BY <2>1, <2>2, <3>3 DEF Replying
    <2> QED
      BY <2>1, <2>2, <2>3, <2>6, <2>7
  <1>7. SessionInv'
    <2>1. call # "none" /\ ~(Ended /\ status)'
      BY DEF HostInv, Ended
    <2>2. InStep => InStep'
      BY <1>2 DEF InStep
    <2>3. call = "GetAtr" => InStep' \/ (se'.last = Answer("INTF_RESET") /\ proto'.state # "ATR")
      BY <2>2 DEF SessionInv, Continues, SKinds
    <2>4. call = "RSync" /\ (proto'.state = "RESYNCH" \/ se'.last = Answer("RESYNCH"))
            => proto'.rcvdSeq = 1
      BY <1>2 DEF SessionInv, Continues, SKinds
    <2> QED
      BY <2>1, <2>3, <2>4 DEF SessionInv, Cmd
  <1> QED
    BY <1>1, <1>3, <1>4, <1>5, <1>6, <1>7

LEMMA PrefixFacts ==
    ASSUME NEW c \in Nat, NEW n \in Nat
    PROVE  /\ Prefix(c, n) \in Seq(Byte) /\ Len(Prefix(c, n)) = n
           /\ \A k \in 1..n : Prefix(c, n)[k] = <<c, k>>
           /\ n > 0 => Prefix(c, n)[1][1] = c
           /\ Prefix(c, 0) = <<>>
  <1>1. Prefix(c, n) \in [1..n -> Byte]
    BY DEF Prefix, Byte
  <1>2. Prefix(c, n) \in Seq(Byte) /\ Len(Prefix(c, n)) = n
    BY <1>1
  <1>3. Prefix(c, 0) = <<>>
    BY DEF Prefix
  <1>4. \A k \in 1..n : Prefix(c, n)[k] = <<c, k>>
    BY DEF Prefix
  <1> QED
    BY <1>2, <1>3, <1>4

Bytes(c, from, n) == [i \in 1..n |-> <<c, from + i>>]

LEMMA PrefixGrows ==
    ASSUME NEW c \in Nat, NEW n \in Nat, NEW k \in Nat
    PROVE  Prefix(c, n) \o Bytes(c, n, k) = Prefix(c, n + k)
  <1> DEFINE s == Bytes(c, n, k)
             t == Prefix(c, n) \o s
  <1>1. s \in Seq(Byte) /\ Len(s) = k
    <2>1. s \in [1..k -> Byte]
      BY DEF Byte, Bytes
    <2> QED
      BY <2>1
  <1>2. Prefix(c, n) \in Seq(Byte) /\ Len(Prefix(c, n)) = n
    BY PrefixFacts
  <1>3. Prefix(c, n + k) \in Seq(Byte) /\ Len(Prefix(c, n + k)) = n + k
    BY PrefixFacts
  <1> HIDE DEF s
  <1>4. t \in Seq(Byte) /\ Len(t) = n + k
    BY <1>1, <1>2
  <1>5. ASSUME NEW i \in 1..n + k PROVE t[i] = Prefix(c, n + k)[i]
    <2>1. CASE i \in 1..n
      <3>1. t[i] = Prefix(c, n)[i]
        BY <1>1, <1>2, <2>1
      <3> QED
        BY <2>1, <3>1 DEF Prefix
    <2>2. CASE i \notin 1..n
      <3>1. t[i] = s[i - n] /\ i - n \in 1..k
        BY <1>1, <1>2, <2>2
      <3>2. s[i - n] = <<c, n + (i - n)>>
        BY <3>1 DEF s, Bytes
      <3>3. n + (i - n) = i
        OBVIOUS
      <3>4. Prefix(c, n + k)[i] = <<c, i>>
        BY DEF Prefix
      <3> QED
        BY <3>1, <3>2, <3>3, <3>4
    <2> QED
      BY <2>1, <2>2
  <1> HIDE DEF t
  <1>6. t = Prefix(c, n + k)
    BY <1>3, <1>4, <1>5
  <1> QED
    BY <1>6 DEF s, t

LEMMA ReplyPartFacts ==
    ASSUME NEW c \in Nat, NEW n \in Nat, NEW m \in Nat, NEW from \in Nat, from <= m
    PROVE  /\ ReplyPart(c, from, m, n) \in Seq(Block)
           /\ Len(ReplyPart(c, from, m, n)) = m - from
  <1> DEFINE s == ReplyPart(c, from, m, n)
  <1>0. m - from \in Nat
    OBVIOUS
  <1>1. s \in [1..m - from -> Block]
    BY <1>0 DEF ReplyPart, Block
  <1>2. s \in Seq(Block) /\ Len(s) = m - from
    BY <1>0, <1>1
  <1> QED
    BY <1>2

LEMMA FirstPart ==
    ASSUME NEW c \in Nat, NEW n \in Nat, NEW m \in 0..n
    PROVE  /\ ReplyPart(c, 0, m, n) \in Seq(Block) /\ Len(ReplyPart(c, 0, m, n)) = m
           /\ ReplyPart(c, 0, m, n) = <<>> <=> m = 0
           /\ ReplyPart(c, 0, m, n) = [i \in 1..m |-> <<c, i, n>>]
           /\ \A i \in 1..m : ReplyPart(c, 0, m, n)[i] = <<c, i, n>>
  <1>1. m - 0 = m /\ \A i \in 1..m : 0 + i = i
    OBVIOUS
  <1>2. ReplyPart(c, 0, m, n) = [i \in 1..m |-> <<c, i, n>>]
    BY <1>1 DEF ReplyPart
  <1>3. ReplyPart(c, 0, m, n) \in Seq(Block) /\ Len(ReplyPart(c, 0, m, n)) = m
    <2> DEFINE s == [i \in 1..m |-> <<c, i, n>>]
    <2>1. s \in [1..m -> Block]
      BY DEF Block
    <2>2. s \in Seq(Block) /\ Len(s) = m
      BY <2>1
    <2> QED
      BY <1>2, <2>2
  <1>4. \A i \in 1..m : ReplyPart(c, 0, m, n)[i] = <<c, i, n>>
    BY <1>2
  <1>5. ReplyPart(c, 0, m, n) = <<>> <=> m = 0
    BY <1>1, <1>3, EmptySeq
  <1> QED
    BY <1>1, <1>2, <1>3, <1>4, <1>5

\* One more block of the reply is in.
LEMMA ReplyGrows ==
    ASSUME NEW c \in Nat, NEW n \in Nat, NEW m \in 1..n
    PROVE  ReplyPart(c, 0, m - 1, n) \o <<<<c, m, n>>>> = ReplyPart(c, 0, m, n)
  <1> DEFINE s == ReplyPart(c, 0, m - 1, n)
             b == <<c, m, n>>
             t == s \o <<b>>
             u == ReplyPart(c, 0, m, n)
  <1>0. m - 1 \in 0..n /\ m \in 0..n /\ 0 \in 0..m - 1 /\ 0 \in 0..m /\ b \in Block
    BY DEF Block
  <1>1. s \in Seq(Block) /\ Len(s) = m - 1 /\ \A i \in 1..m - 1 : s[i] = <<c, i, n>>
    BY <1>0, FirstPart
  <1>2. u \in Seq(Block) /\ Len(u) = m /\ \A i \in 1..m : u[i] = <<c, i, n>>
    BY <1>0, FirstPart
  <1> HIDE DEF s, u, b
  <1>3. t \in Seq(Block) /\ Len(t) = m
    BY <1>0, <1>1
  <1>4. ASSUME NEW i \in 1..m PROVE t[i] = u[i]
    <2>0. u[i] = <<c, i, n>>
      BY <1>2
    <2>1. CASE i \in 1..m - 1
      <3>1. t[i] = s[i]
        BY <1>0, <1>1, <2>1
      <3> QED
        BY <1>1, <2>0, <2>1, <3>1
    <2>2. CASE i = m
      <3>1. t[i] = b
        BY <1>0, <1>1, <2>2
      <3> QED
        BY <2>0, <2>2, <3>1 DEF b
    <2>3. i \in 1..m - 1 \/ i = m
      OBVIOUS
    <2> QED
      BY <2>1, <2>2, <2>3
  <1> HIDE DEF t
  <1>5. t = u
    BY <1>2, <1>3, <1>4
  <1> QED
    BY <1>5 DEF t, s, u, b

\* One more block of the reply is on its way.
LEMMA ReplyShrinks ==
    ASSUME NEW c \in Nat, NEW n \in Nat, NEW m \in 0..n, m < n
    PROVE  LET s == ReplyPart(c, m, n, n)
           IN  /\ s # <<>> /\ Head(s) = <<c, m + 1, n>> /\ Tail(s) = ReplyPart(c, m + 1, n, n)
               /\ Len(s) > 1 <=> m + 1 < n
               /\ Tail(s) # <<>> <=> m + 1 < n
  <1> DEFINE s == ReplyPart(c, m, n, n)
             u == ReplyPart(c, m + 1, n, n)
  <1>0. m + 1 \in Nat /\ m + 1 <= n /\ m <= n
    OBVIOUS
  <1>1. s \in Seq(Block) /\ Len(s) = n - m /\ \A i \in 1..n - m : s[i] = <<c, m + i, n>>
    <2>1. s \in Seq(Block) /\ Len(s) = n - m
      BY <1>0, ReplyPartFacts
    <2> QED
      BY <2>1 DEF ReplyPart
  <1>2. u \in Seq(Block) /\ Len(u) = n - (m + 1) /\ (u = <<>> <=> m + 1 = n)
        /\ \A i \in 1..n - (m + 1) : u[i] = <<c, (m + 1) + i, n>>
    <2>1. u \in Seq(Block) /\ Len(u) = n - (m + 1)
      BY <1>0, ReplyPartFacts
    <2>2. u = <<>> <=> m + 1 = n
      BY <2>1, EmptySeq
    <2> QED
      BY <2>1, <2>2 DEF ReplyPart
  <1> HIDE DEF s, u
  <1>3. s # <<>> /\ Head(s) = <<c, m + 1, n>> /\ Len(s) > 1 <=> m + 1 < n
    BY <1>1
  <1>4. Tail(s) \in Seq(Block) /\ Len(Tail(s)) = n - (m + 1)
    BY <1>1
  <1>5. ASSUME NEW i \in 1..n - (m + 1) PROVE Tail(s)[i] = u[i]
    <2>1. Tail(s)[i] = s[i + 1] /\ i + 1 \in 1..n - m
      BY <1>1
    <2>2. m + (i + 1) = (m + 1) + i
      OBVIOUS
    <2>3. s[i + 1] = <<c, m + (i + 1), n>>
      BY <1>1, <2>1
    <2> QED
      BY <1>2, <2>1, <2>2, <2>3
  <1>6. Tail(s) = u
    <2> DEFINE t == Tail(s)
    <2>1. Len(t) = Len(u) /\ t \in Seq(Block) /\ \A i \in 1..Len(t) : t[i] = u[i]
      BY <1>2, <1>4, <1>5
    <2> HIDE DEF t
    <2> QED
      BY <1>2, <2>1, SeqEqual DEF t
  <1>7. s # <<>> /\ Head(s) = <<c, m + 1, n>>
    BY <1>1
  <1>8. Len(s) > 1 <=> m + 1 < n
    BY <1>1
  <1>9. u # <<>> <=> m + 1 < n
    BY <1>0, <1>2
  <1> QED
    BY <1>6, <1>7, <1>8, <1>9 DEF s, u

LEMMA RestEmpty ==
    ASSUME NEW c \in Nat, NEW n \in Nat, NEW m \in 0..n
    PROVE  ReplyPart(c, m, n, n) = <<>> <=> m = n
  <1>1. CASE m = n
    <2>1. ReplyPart(c, m, n, n) \in Seq(Block) /\ Len(ReplyPart(c, m, n, n)) = n - m
      BY ReplyPartFacts
    <2> QED
      BY <1>1, <2>1, EmptySeq
  <1>2. CASE m # n
    <2>1. m < n
      BY <1>2
    <2> QED
      BY <1>2, <2>1, ReplyShrinks
  <1> QED
    BY <1>1, <1>2

\* A part of a reply is a whole reply only when it is all of it.
LEMMA WholeIsAll ==
    ASSUME NEW c \in Nat, NEW n \in Nat, NEW m \in 0..n
    PROVE  WholeReply(c, ReplyPart(c, 0, m, n)) <=> m = n /\ n > 0
  <1> DEFINE s == ReplyPart(c, 0, m, n)
  <1>1. s \in Seq(Block) /\ Len(s) = m /\ (s = <<>> <=> 0 = m)
        /\ (\A i \in 1..m : s[i] = <<c, i, n>>) /\ s = [i \in 1..m |-> <<c, i, n>>]
    BY FirstPart
  <1> HIDE DEF s
  <1>2. ASSUME WholeReply(c, s) PROVE m = n /\ n > 0
    <2>1. s # <<>> /\ s = [i \in 1..m |-> <<c, i, m>>]
      BY <1>1, <1>2 DEF WholeReply
    <2>2. 1 \in 1..m
      BY <1>1, <2>1
    <2>3. s[1] = <<c, 1, m>> /\ s[1] = <<c, 1, n>>
      BY <1>1, <2>1, <2>2
    <2> QED
      BY <2>2, <2>3
  <1>3. ASSUME m = n, n > 0 PROVE WholeReply(c, s)
    <2>1. s = [i \in 1..m |-> <<c, i, n>>]
      BY <1>1
    <2> QED
      BY <1>1, <1>3, <2>1 DEF WholeReply
  <1> QED
    BY <1>2, <1>3 DEF s

-----------------------------------------------------------------------------
\* Receiving

\* A block of the reply, or of the reply to a command before, is taken.
LEMMA TakeBlockKeepsInv ==
    ASSUME Inv, step = "receive", step' = "send", wire' = Nothing,
           UNCHANGED <<call, session, se, asked, executed, outcome>>,
           wire \in IBlocks, wire.seq # proto.rcvdSeq, status' = TRUE,
           Takes(proto, proto'), proto'.rcvdSeq = wire.seq,
           proto'.state = IF wire.more THEN "R_ACK" ELSE "IDLE",
           proto'.lastSentNonError = proto.lastSentNonError,
           reply' = reply \o (IF proto.rsp THEN wire.data ELSE <<>>)
    PROVE  Inv'
  <1> USE DEF Inv
  <1>1. /\ wire = se.last /\ se.last.type = "I" /\ se.last.seq = se.seq
        /\ se.input = <<>> /\ (wire.more <=> se.todo # <<>>) /\ wire.data \in Seq(Block)
        /\ wire.more \in BOOLEAN
    BY DEF IBlocks, WireInv, ElementInv
  <1>2. /\ proto \in Protos /\ proto' \in Protos /\ proto'.last = proto.last
        /\ proto'.rsp = proto.rsp /\ SameBlock(proto'.next, proto.next)
        /\ Matching(proto') /\ se.seq # proto.rcvdSeq /\ proto'.rcvdSeq = se.seq
        /\ proto'.state \in {"R_ACK", "IDLE"}
    BY <1>1 DEF Typed, Takes
  <1>3. Typed'
    BY <1>1, <1>2 DEF Typed, Blocks
  <1>4. HostInv'
    BY <1>2 DEF HostInv, SKinds
  <1>5. ElementInv' /\ ExecutedInv' /\ WireInv'
    BY DEF ElementInv, ExecutedInv, AfterReset, WireInv, Nothing, Cmd
  <1>6. TransceiveInv'
    <2> SUFFICES ASSUME call = "Transceive" PROVE TransceiveInv'
      BY DEF TransceiveInv
    <2>1. Cmd > 0 /\ outcome[Cmd] = "none" /\ session = "open" /\ Cmd \in Nat
      BY DEF TransceiveInv, Cmd, Typed
    <2>2. Replying
      <3>1. ~NotExecuted
        BY <1>2 DEF NotExecuted
      <3>2. ~BeingReset
        BY <1>1, AnswersDiffer DEF BeingReset
      <3> QED
        BY <3>1, <3>2 DEF TransceiveInv, Ended
    <2>3. PICK n \in ReplyBlocks : \E m \in 0..n : Received(m, n) \/ Missed(m, n)
      BY <2>2 DEF Replying
    <2>4. PICK m \in 0..n : Received(m, n) \/ Missed(m, n)
      BY <2>3
    <2>5. Missed(m, n)
      BY <1>2, <2>4 DEF Received
    <2>6. n \in Nat /\ n > 0 /\ m \in 1..n
      BY <2>4, <2>5, T1Assumption DEF Missed
    <2>7. wire.data = <<<<Cmd, m, n>>>> /\ proto.rsp
      BY <1>1, <2>5 DEF Missed, Sent
    <2>8. reply' = ReplyPart(Cmd, 0, m, n)
      BY <2>1, <2>5, <2>6, <2>7, ReplyGrows DEF Missed
    <2>9. Sent(m, n)'
      BY <1>2, <2>5 DEF Missed, Sent, Executed, Cmd, SameBlock
    <2>10. proto'.state = IF m = n THEN "IDLE" ELSE "R_ACK"
      <3>1. se.todo = ReplyPart(Cmd, m, n, n)
        BY <2>5 DEF Missed, Sent
      <3>2. se.todo = <<>> <=> m = n
        <4>1. m \in 0..n /\ n \in Nat
          BY <2>6
        <4> QED
          BY <2>1, <3>1, <4>1, RestEmpty
      <3> QED
        BY <1>1, <3>2
    <2>11. Received(m, n)'
      BY <1>2, <2>6, <2>8, <2>9, <2>10 DEF Received, Cmd
    <2>12. (Ended /\ status)' => WholeReply(Cmd, reply')
      <3>1. m = n => WholeReply(Cmd, ReplyPart(Cmd, 0, m, n))
        BY <2>1, <2>6, WholeIsAll
      <3> QED
        BY <2>8, <2>10, <3>1 DEF Ended
    <2>13. Replying'
      BY <2>3, <2>4, <2>11 DEF Replying
    <2> QED
      BY <2>1, <2>12, <2>13 DEF TransceiveInv, Cmd
  <1>7. SessionInv'
    <2>1. call = "GetAtr" => FALSE
      BY <1>1, <1>2, AnswersDiffer DEF SessionInv, InStep
    <2>2. call = "RSync" =>
            /\ proto'.state # "RESYNCH" /\ se.last # Answer("RESYNCH")
            /\ proto'.state = "IDLE" => InStep'
      BY <1>1, <1>2, AnswersDiffer DEF InStep
    <2>3. call # "none"
      BY DEF HostInv
    <2> QED
      BY <2>1, <2>2, <2>3 DEF SessionInv, Cmd, Ended
  <1> QED
    BY <1>3, <1>4, <1>5, <1>6, <1>7

\* The element has acknowledged a block of the command.
LEMMA NextIframeKeepsInv ==
    ASSUME Inv, step = "receive", step' = "send", wire' = Nothing,
           UNCHANGED <<reply, call, session, se, asked, executed, outcome>>,
           wire \in RBlocks, wire.err = "NO_ERROR", status' = TRUE,
           proto' \in Protos, proto'.state = "IFRAME", Matching(proto'),
           proto'.rcvdSeq = proto.rcvdSeq, proto'.rsp = proto.rsp,
           proto'.next.seq = Flip(proto.last.seq), proto'.next.data = proto.last.data,
           proto'.next.offset = proto.last.offset + proto.last.max,
           proto'.next.max = proto.last.max,
           proto'.next.chained <=> proto.last.total > proto.last.max,
           proto'.next.chained =>
               proto'.next.send = proto.last.max
               /\ proto'.next.total = proto.last.total - proto.last.max,
           ~proto'.next.chained => proto'.next.send = proto.last.total
    PROVE  Inv'
  <1> USE DEF Inv
  <1>1. /\ call = "Transceive" /\ ~Executed(Cmd) /\ proto.state = "IFRAME"
        /\ se.expect = Flip(proto.next.seq) /\ proto.next.chained
        /\ se.input = Prefix(Cmd, proto.next.offset + proto.next.send)
        /\ proto.last = proto.next
    BY DEF RBlocks, WireInv, HostInv, Awaiting
  <1>2. /\ proto.next \in Contexts /\ Cmd \in Nat /\ Cmd > 0
        /\ outcome[Cmd] = "none" /\ session = "open" /\ asked[Cmd] \in Nat
    <2>1. Cmd \in Nat /\ Cmd > 0 /\ outcome[Cmd] = "none" /\ session = "open"
      BY <1>1 DEF TransceiveInv, Cmd, Typed
    <2>2. asked[Cmd] \in CmdLens
      BY <2>1 DEF Typed, Cmd
    <2> QED
      BY <2>1, <2>2, T1Assumption DEF Typed, Protos
  <1>3. NotExecuted
    <2>1. ~Replying
      BY <1>1 DEF Replying, Received, Missed, Sent
    <2>2. ~BeingReset
      BY <1>1 DEF BeingReset
    <2> QED
      BY <1>1, <2>1, <2>2 DEF TransceiveInv, Ended
  <1>4. NotExecuted'
    <2>1. /\ proto.next.seq \in Bit /\ proto.next.max \in Nat /\ proto.next.max > 0
          /\ proto.next.total \in Nat /\ proto.next.offset \in Nat
      BY <1>2, T1Assumption DEF Contexts
    <2>2. /\ proto.next.data = Cmd /\ proto.next.send = proto.next.max
          /\ proto.next.total > 0
          /\ proto.next.offset + proto.next.send + proto.next.total = asked[Cmd]
      BY <1>1, <1>3 DEF NotExecuted, BlockInv
    <2>3. BlockInv'
      <3>1. CASE proto'.next.chained
        <4>1. /\ proto'.next.send = proto.next.max
              /\ proto'.next.total = proto.next.total - proto.next.max
              /\ proto.next.total > proto.next.max
              /\ proto'.next.offset = proto.next.offset + proto.next.max
          BY <1>1, <3>1
        <4> DEFINE o == proto.next.offset
                   x == proto.next.max
                   t == proto.next.total
        <4>2. (o + x) + x + (t - x) = o + x + t /\ t - x > 0
          BY <2>1, <4>1
        <4>3. proto'.next.offset + proto'.next.send + proto'.next.total = asked[Cmd]
          BY <2>1, <2>2, <4>1, <4>2
        <4> QED
          BY <1>1, <2>1, <2>2, <3>1, <4>1, <4>2, <4>3 DEF BlockInv, Cmd
      <3>2. CASE ~proto'.next.chained
        <4>1. /\ proto'.next.send = proto.next.total
              /\ proto'.next.offset = proto.next.offset + proto.next.max
          BY <1>1, <3>2
        <4>2. proto'.next.offset + proto'.next.send = asked[Cmd]
          BY <2>1, <2>2, <4>1
        <4> QED
          BY <1>1, <2>1, <2>2, <3>2, <4>1, <4>2 DEF BlockInv, Cmd
      <3> QED
        BY <3>1, <3>2
    <2>4. se'.input = Prefix(Cmd, proto'.next.offset)
      BY <1>1, <2>2
    <2> QED
      BY <1>1, <1>3, <2>3, <2>4 DEF NotExecuted, Executed, Cmd
  <1>5. Typed'
    BY DEF Typed, Blocks
  <1>6. HostInv'
    BY <1>1 DEF HostInv, SKinds
  <1>7. ElementInv' /\ ExecutedInv' /\ WireInv'
    BY DEF ElementInv, ExecutedInv, AfterReset, WireInv, Nothing, Cmd
  <1>8. TransceiveInv' /\ SessionInv'
    BY <1>1, <1>2, <1>4 DEF TransceiveInv, SessionInv, Ended, Cmd
  <1> QED
    BY <1>5, <1>6, <1>7, <1>8

\* The answer to the call's request, or to an interface reset.
LEMMA ResponseKeepsInv ==
    ASSUME Inv, step = "receive", step' = "send", wire' = Nothing,
           UNCHANGED <<call, session, se, asked, executed, outcome>>,
           wire \in SBlocks, proto' \in Protos, proto'.state = "IDLE", status' \in BOOLEAN,
           wire.kind # "INTF_RESET" => proto'.rcvdSeq = proto.rcvdSeq,
           wire.kind = "INTF_RESET" /\ status' => proto'.rcvdSeq = 1,
           wire.kind \in {"INTF_RESET", RequestOf[call]},
           reply' = reply \o (IF proto.rsp /\ wire.kind \in {"INTF_RESET", "ATR"}
                              THEN wire.data ELSE <<>>)
    PROVE  Inv'
  <1> USE DEF Inv
  <1>1. /\ wire = se.last /\ wire = Answer(wire.kind) /\ wire.data = <<ATR>>
        /\ wire.kind \in SKinds \ {"WTX"} /\ wire.type = "S" /\ ATR \in Block
    <2>1. wire = Answer(wire.kind) /\ wire.type = "S"
      BY BlockKinds DEF Typed
    <2>2. ATR \in Block
      BY DEF ATR, Block
    <2> QED
      BY <2>1, <2>2 DEF WireInv, SBlocks
  <1>2. Typed'
    BY <1>1 DEF Typed, Blocks
  <1>3. HostInv'
    BY DEF HostInv, SKinds, Matching
  <1>4. ElementInv' /\ ExecutedInv' /\ WireInv'
    BY DEF ElementInv, ExecutedInv, AfterReset, WireInv, Nothing, Cmd
  <1>5. TransceiveInv'
    <2> SUFFICES ASSUME call = "Transceive" PROVE TransceiveInv'
      BY DEF TransceiveInv
    <2>1. Cmd > 0 /\ outcome[Cmd] = "none" /\ session = "open"
      BY DEF TransceiveInv
    <2>2. wire.kind = "INTF_RESET"
      BY <1>1 DEF RequestOf, SKinds
    <2>3. proto.rsp
      <3>1. NotExecuted \/ Replying \/ BeingReset
        BY DEF TransceiveInv, Ended
      <3> QED
        BY <3>1 DEF NotExecuted, Replying, Received, Missed, Sent, BeingReset
    <2>4. reply' = reply \o <<ATR>> /\ reply \in Seq(Block)
      BY <1>1, <2>2, <2>3 DEF Typed
    <2>5. HasATR'
      <3>1. Len(reply') = Len(reply) + 1 /\ reply'[Len(reply) + 1] = ATR
            /\ Len(reply) \in Nat
        BY <1>1, <2>4
      <3> QED
        BY <1>1, <2>4, <3>1 DEF HasATR, Last
    <2> QED
      BY <2>1, <2>5 DEF TransceiveInv, Ended, Cmd
  <1>6. SessionInv'
    <2>1. call # "none"
      BY DEF HostInv
    <2>2. wire.kind \in {"RESYNCH", "INTF_RESET"} => AfterReset(se)
      BY <1>1 DEF ElementInv
    <2>3. ASSUME call = "RSync"
          PROVE  /\ se.last = Answer("RESYNCH") => proto'.rcvdSeq = 1
                 /\ status' => InStep'
      <3>1. wire.kind \in {"INTF_RESET", "RESYNCH"}
        BY <2>3 DEF RequestOf
      <3>2. wire.kind = "RESYNCH" => proto'.rcvdSeq = 1
        BY <1>1, <2>3 DEF SessionInv
      <3>3. se.last = Answer("RESYNCH") => wire.kind = "RESYNCH"
        BY <1>1, AnswersDiffer
      <3>4. status' => proto'.rcvdSeq = 1
        BY <3>1, <3>2
      <3> QED
        BY <2>2, <3>1, <3>2, <3>3, <3>4 DEF InStep, AfterReset
    <2>4. ASSUME call = "GetAtr"
          PROVE  /\ InStep' \/ se.last = Answer("INTF_RESET")
                 /\ status' => InStep'
      <3>1. wire.kind \in {"INTF_RESET", "ATR"}
        BY <2>4 DEF RequestOf
      <3>2. CASE wire.kind = "ATR"
        <4>1. se.last # Answer("INTF_RESET")
          BY <1>1, <3>2, AnswersDiffer
        <4> QED
          BY <2>4, <3>2, <4>1 DEF SessionInv, InStep
      <3>3. CASE wire.kind = "INTF_RESET"
        BY <1>1, <2>2, <3>3 DEF InStep, AfterReset
      <3> QED
        BY <3>1, <3>2, <3>3
    <2> QED
      BY <2>1, <2>3, <2>4 DEF SessionInv, Ended, Cmd
  <1> QED
    BY <1>2, <1>3, <1>4, <1>5, <1>6

LEMMA ReceiveKeepsInv ==
    ASSUME Inv, Receive
    PROVE  misled' \/ Inv'
  <1> DEFINE p == [proto EXCEPT !.timeout = 0, !.rnack = 0]
  <1>1. /\ step = "receive" /\ step' = "send" /\ wire' = Nothing
        /\ UNCHANGED <<call, session, se, asked, executed, outcome>>
    BY DEF Receive, sessionVars
  <1>2. proto \in Protos /\ Matching(proto) /\ Awaiting(proto)
    BY <1>1 DEF Inv, Typed, HostInv
  <1>3. wire \in Blocks
    BY DEF Inv, Typed
  <1>4. Counted(proto, p) /\ p \in Protos /\ Matching(p) /\ Awaiting(p)
    <2>1. 0 \in Nat
      OBVIOUS
    <2>2. Counted(proto, p)
      BY <1>2, <2>1, CountersCounted
    <2> QED
      BY <1>2, <2>2, CountedFacts DEF Counted
  <1>5. CASE ReceiveGarbled
    <2>1. /\ proto' = CrcFailed(proto) /\ status' = (proto.rnack < RnackLimit)
          /\ UNCHANGED reply
      BY <1>5 DEF ReceiveGarbled
    <2>2. /\ Continues(proto, proto') /\ proto'.state \in {"R_NACK", "IDLE"}
          /\ proto'.state = "IDLE" => ~status'
      BY <1>2, <2>1, CrcFailedContinues
    <2>3. proto'.state # "WTX" /\ Again(proto, proto') /\ status' \in BOOLEAN
      BY <2>1, <2>2 DEF Continues
    <2> QED
      BY <1>1, <2>1, <2>2, <2>3, ContinuesKeepsInv
  <1>6. CASE ReceiveNothing
    <2>1. proto' = NothingRead(proto) /\ status' = FALSE /\ UNCHANGED reply
      BY <1>6 DEF ReceiveNothing
    <2>2. Continues(proto, proto') /\ proto'.state # "WTX"
      BY <1>2, <2>1, NothingReadContinues
    <2>3. Again(proto, proto')
      BY <2>2 DEF Continues
    <2> QED
      BY <1>1, <2>1, <2>2, <2>3, ContinuesKeepsInv
  <1>7. CASE ReceiveFrame
    <2>1. /\ wire # Nothing /\ proto' = DecodeFrame(p, wire)
          /\ status' = DecodeStatus(p, wire) /\ reply' = reply \o Saved(p, wire)
          /\ misled' = (misled \/ Misleads(p, wire))
      BY <1>7 DEF ReceiveFrame
    <2> HIDE DEF p
    <2>2. /\ p.rcvdSeq = proto.rcvdSeq /\ p.rsp = proto.rsp /\ p.last = proto.last
          /\ p.next = proto.next /\ p.lastSentNonError = proto.lastSentNonError
          /\ p.state = proto.state
      BY <1>4 DEF Counted
    <2>3. reply \in Seq(Block) /\ reply \o <<>> = reply /\ status' \in BOOLEAN
      BY <2>1 DEF Inv, Typed, DecodeStatus
    <2>4. CASE wire \in RBlocks
      <3>1. wire.type = "R"
        BY <2>4 DEF RBlocks
      <3>2. proto' = DecodeRframe(p, wire)
        BY <2>1, <3>1 DEF DecodeFrame
      <3>3. UNCHANGED reply /\ status' = TRUE
        BY <2>1, <2>3, <3>1 DEF Saved, DecodeStatus
      <3>4. CASE wire.err # "NO_ERROR"
        <4>1. /\ Continues(p, proto')
              /\ proto'.state = "WTX" => p.state = "WTX"
              /\ proto'.state = "IDLE" => GaveUp(proto')
          BY <1>4, <2>4, <3>2, <3>4, ErrorContinues
        <4>2. Continues(proto, proto')
          BY <1>4, <4>1, CountedFacts
        <4>3. CASE proto'.state = "IDLE"
          BY <2>1, <3>1, <4>1, <4>3 DEF GaveUp, Misleads, GivesUp
        <4>4. CASE proto'.state # "IDLE"
          <5>1. Again(proto, proto') /\ status' \in BOOLEAN
            BY <2>3, <4>2 DEF Continues
          <5>2. proto'.state = "WTX" => proto.state = "WTX" /\ wire.type # "I"
            BY <2>2, <3>1, <4>1
          <5> QED
            BY <1>1, <3>3, <4>2, <4>4, <5>1, <5>2, ContinuesKeepsInv
        <4> QED
          BY <4>3, <4>4
      <3>5. CASE wire.err = "NO_ERROR"
        <4>1. wire.seq # p.last.seq
          <5>1. wire.seq = se.expect /\ se.expect = Flip(proto.next.seq)
            BY <3>1, <3>5 DEF Inv, WireInv
          <5>2. proto.next.seq \in Bit /\ proto.last = proto.next
            BY <1>2 DEF Protos, Contexts, Awaiting
          <5> QED
            BY <2>2, <5>1, <5>2, FlipFacts
        <4> DEFINE q == DecodeRframe(p, wire)
        <4>2. /\ q \in Protos /\ q.state = "IFRAME" /\ Matching(q)
              /\ q.rcvdSeq = p.rcvdSeq /\ q.rsp = p.rsp
              /\ q.next.seq = Flip(p.last.seq) /\ q.next.data = p.last.data
              /\ q.next.offset = p.last.offset + p.last.max
              /\ q.next.max = p.last.max
              /\ q.next.chained <=> p.last.total > p.last.max
              /\ q.next.chained =>
                    q.next.send = p.last.max /\ q.next.total = p.last.total - p.last.max
              /\ ~q.next.chained => q.next.send = p.last.total
          BY <1>4, <2>4, <3>5, <4>1, NextIframe
        <4> HIDE DEF q
        <4>3. proto' = q
          BY <3>2 DEF q
        <4> QED
          BY <1>1, <2>2, <2>4, <3>3, <3>5, <4>2, <4>3, NextIframeKeepsInv
      <3> QED
        BY <3>4, <3>5
    <2>5. CASE wire \in IBlocks
      <3>1. wire.type = "I" /\ wire.more \in BOOLEAN
        BY <2>5 DEF IBlocks
      <3>2. proto' = DecodeIframe(p, wire) /\ status' = TRUE
        BY <2>1, <3>1 DEF DecodeFrame, DecodeStatus
      <3>3. CASE wire.seq = p.rcvdSeq
        <4>1. UNCHANGED reply
          BY <2>1, <2>3, <3>1, <3>3 DEF Saved
        <4>2. /\ Continues(p, proto') /\ proto'.state # "WTX"
              /\ proto'.state = "IDLE" => GaveUp(proto')
          BY <1>4, <2>5, <3>2, <3>3, RepeatedContinues
        <4>3. Continues(proto, proto')
          BY <1>4, <4>2, CountedFacts
        <4>4. CASE proto'.state = "IDLE"
          BY <2>1, <3>1, <4>2, <4>4 DEF GaveUp, Misleads, GivesUp
        <4>5. CASE proto'.state # "IDLE"
          <5>1. Again(proto, proto') /\ status' \in BOOLEAN
            BY <2>3, <4>3 DEF Continues
          <5> QED
            BY <1>1, <4>1, <4>2, <4>3, <4>5, <5>1, ContinuesKeepsInv
        <4> QED
          BY <4>4, <4>5
      <3>4. CASE wire.seq # p.rcvdSeq
        <4>1. /\ Takes(p, proto') /\ proto'.rcvdSeq = wire.seq
              /\ proto'.state = IF wire.more THEN "R_ACK" ELSE "IDLE"
              /\ proto'.lastSentNonError = p.lastSentNonError
          BY <1>4, <2>5, <3>2, <3>4, BlockTaken
        <4>2. Takes(proto, proto')
          BY <2>2, <4>1 DEF Takes
        <4>3. reply' = reply \o (IF proto.rsp THEN wire.data ELSE <<>>)
          BY <2>1, <2>2, <3>1, <3>4 DEF Saved
        <4> QED
          BY <1>1, <2>2, <2>5, <3>2, <3>4, <4>1, <4>2, <4>3, TakeBlockKeepsInv
      <3> QED
        BY <3>3, <3>4
    <2>6. CASE wire = WtxBlock
      <3>1. wire.type = "S" /\ wire.kind = "WTX"
        BY <2>6 DEF WtxBlock
      <3>2. proto' = DecodeSframe(p, WtxBlock)
        BY <2>1, <2>6, <3>1 DEF DecodeFrame
      <3>3. UNCHANGED reply
        BY <2>1, <2>3, <3>1 DEF Saved
      <3>4. /\ Continues(p, proto') \/ (Again(p, proto') /\ proto'.state = "WTX")
            /\ proto'.state = "IDLE" => GaveUp(proto')
        BY <1>4, <3>2, ExtensionAgain
      <3>5. /\ Continues(proto, proto') \/ proto'.state = "WTX"
            /\ Again(proto, proto')
        BY <1>4, <3>4, CountedFacts DEF Continues
      <3>6. CASE proto'.state = "IDLE"
        BY <2>1, <3>1, <3>4, <3>6 DEF GaveUp, Misleads, GivesUp
      <3>7. CASE proto'.state # "IDLE"
        BY <1>1, <2>3, <2>6, <3>3, <3>5, <3>7, ContinuesKeepsInv
      <3> QED
        BY <3>6, <3>7
    <2>7. CASE wire \in SBlocks
      <3>1. wire.type = "S" /\ wire.kind # "WTX"
        BY <2>7 DEF SBlocks
      <3>2. proto' = DecodeSframe(p, wire)
        BY <2>1, <3>1 DEF DecodeFrame
      <3>3. /\ proto' \in Protos /\ proto'.state = "IDLE"
            /\ wire.kind # "INTF_RESET" => proto'.rcvdSeq = proto.rcvdSeq
            /\ wire.kind = "INTF_RESET" /\ status' => proto'.rcvdSeq = 1
        BY <1>4, <2>1, <2>2, <2>7, <3>2, ResponseTaken
      <3>4. reply' = reply \o (IF proto.rsp /\ wire.kind \in {"INTF_RESET", "ATR"}
                               THEN wire.data ELSE <<>>)
        BY <2>1, <2>2, <3>1 DEF Saved
      <3>5. CASE wire.kind \in {"INTF_RESET", RequestOf[call]}
        BY <1>1, <2>3, <2>7, <3>3, <3>4, <3>5, ResponseKeepsInv
      <3>6. CASE wire.kind \notin {"INTF_RESET", RequestOf[call]}
        BY <2>1, <3>1, <3>6 DEF Misleads, TakesForeign
      <3> QED
        BY <3>5, <3>6
    <2> QED
      BY <1>3, <2>1, <2>4, <2>5, <2>6, <2>7 DEF Blocks
  <1> QED
    BY <1>5, <1>6, <1>7 DEF Receive

-----------------------------------------------------------------------------
\* Sending

LEMMA FramedFacts ==
    ASSUME NEW p \in Protos, p.state # "IDLE"
    PROVE  LET q == Framed(p)
           IN  /\ q \in Protos /\ q.state = p.state /\ q.next = p.next /\ q.last = p.last
               /\ q.rcvdSeq = p.rcvdSeq /\ q.rsp = p.rsp
               /\ p.state # "R_NACK" => q.lastSentNonError = TypeOfState(p.state)
               /\ p.state = "R_NACK" => q.lastSentNonError = p.lastSentNonError
  <1> DEFINE q == Framed(p)
  <1>1. p.state \in {"IFRAME", "R_ACK", "R_NACK"} \union SKinds
    BY DEF Protos
  <1>2. CASE p.state = "R_NACK"
    <2>1. q = p
      BY <1>2 DEF Framed, SKinds
    <2> QED
      BY <1>2, <2>1
  <1>3. CASE p.state # "R_NACK"
    <2>1. q = [p EXCEPT !.lastSentNonError = TypeOfState(p.state)]
          /\ TypeOfState(p.state) \in {"IFRAME", "RFRAME", "SFRAME"}
      BY <1>1, <1>3 DEF Framed, TypeOfState, SKinds
    <2> HIDE DEF q
    <2> QED
      BY <1>3, <2>1 DEF Protos, q
  <1> QED
    BY <1>2, <1>3

\* What sending a block does to the host.
HostSends ==
    /\ step = "send" /\ step' = "receive" /\ status' = TRUE
    /\ UNCHANGED <<reply, call, session, asked, outcome>>
    /\ proto.state # "IDLE" /\ proto' \in Protos /\ proto'.state = proto.state
    /\ proto'.next = proto.next /\ proto'.last = proto.next
    /\ proto'.rcvdSeq = proto.rcvdSeq /\ proto'.rsp = proto.rsp
    /\ Awaiting(proto')
    /\ proto.state = "R_NACK" => proto'.lastSentNonError = proto.lastSentNonError

LEMMA SendingHost ==
    ASSUME Inv, HostSends
    PROVE  HostInv' /\ call # "none" /\ ~Ended'
  BY DEF Inv, HostInv, HostSends, Matching, Ended

Answered(e, f) == [e EXCEPT !.last = f]
Delayed(e, f) == [e EXCEPT !.wtx = @ + 1, !.last = f]
Advanced(e, seq, todo, f) == [e EXCEPT !.seq = seq, !.todo = todo, !.last = f]
Restarted(e, f) == [ResetElement EXCEPT !.wtx = e.wtx, !.last = f]

LEMMA AnsweredFacts ==
    ASSUME NEW e \in Elements, NEW f \in Blocks
    PROVE  LET u == Answered(e, f)
           IN  /\ u \in Elements /\ u.expect = e.expect /\ u.seq = e.seq
               /\ u.input = e.input /\ u.todo = e.todo /\ u.last = f
  BY DEF Elements, Answered

LEMMA DelayedFacts ==
    ASSUME NEW e \in Elements, NEW f \in Blocks
    PROVE  LET u == Delayed(e, f)
           IN  /\ u \in Elements /\ u.expect = e.expect /\ u.seq = e.seq
               /\ u.input = e.input /\ u.todo = e.todo /\ u.last = f
  <1> DEFINE n == e.wtx + 1
             u == [e EXCEPT !.wtx = n, !.last = f]
  <1>1. n \in Nat
    BY DEF Elements
  <1> HIDE DEF n
  <1>2. /\ u \in Elements /\ u.expect = e.expect /\ u.seq = e.seq
        /\ u.input = e.input /\ u.todo = e.todo /\ u.last = f
    BY <1>1 DEF Elements
  <1> QED
    BY <1>2 DEF n, Delayed

LEMMA AdvancedFacts ==
    ASSUME NEW e \in Elements, NEW f \in Blocks, NEW seq \in Bit, NEW todo \in Seq(Block)
    PROVE  LET u == Advanced(e, seq, todo, f)
           IN  /\ u \in Elements /\ u.expect = e.expect /\ u.seq = seq
               /\ u.input = e.input /\ u.todo = todo /\ u.last = f
  <1> DEFINE c == [e EXCEPT !.seq = seq, !.todo = todo]
             u == [c EXCEPT !.last = f]
  <1>1. /\ c \in Elements /\ c.expect = e.expect /\ c.seq = seq
        /\ c.input = e.input /\ c.todo = todo
    BY DEF Elements
  <1> HIDE DEF c
  <1>2. /\ u \in Elements /\ u.expect = e.expect /\ u.seq = seq
        /\ u.input = e.input /\ u.todo = todo /\ u.last = f
    BY <1>1 DEF Elements
  <1> QED
    BY <1>2 DEF c, Advanced

LEMMA RestartedFacts ==
    ASSUME NEW e \in Elements, NEW f \in Blocks
    PROVE  LET u == Restarted(e, f) IN u \in Elements /\ AfterReset(u) /\ u.last = f
  <1> DEFINE c == ResetElement
             n == e.wtx
             u == [c EXCEPT !.wtx = n, !.last = f]
  <1>1. c \in Elements /\ AfterReset(c) /\ n \in Nat
    BY DEF Elements, ResetElement, AfterReset, Bit, Blocks
  <1> HIDE DEF c, n
  <1>2. u \in Elements /\ AfterReset(u) /\ u.last = f
    BY <1>1 DEF Elements, AfterReset
  <1> QED
    BY <1>2 DEF c, n, Restarted

LEMMA TailFacts ==
    ASSUME NEW s \in Seq(Block), s # <<>>
    PROVE  Head(s) \in Block /\ Tail(s) \in Seq(Block) /\ (Len(s) > 1 <=> Tail(s) # <<>>)
  <1>1. /\ Head(s) \in Block /\ Tail(s) \in Seq(Block) /\ Len(Tail(s)) = Len(s) - 1
        /\ Len(s) \in Nat /\ Len(s) > 0
    OBVIOUS
  <1> DEFINE t == Tail(s)
  <1> HIDE DEF t
  <1>2. t \in Seq(Block) /\ Len(t) = Len(s) - 1
    BY <1>1 DEF t
  <1>3. t # <<>> <=> Len(t) > 0
    BY <1>2, EmptySeq
  <1>4. Len(s) > 1 <=> Len(t) > 0
    BY <1>1, <1>2
  <1> QED
    BY <1>1, <1>3, <1>4 DEF t

\* Nothing arrives, or the element answers what it has answered before.
LEMMA QuietKeepsInv ==
    ASSUME Inv, HostSends, UNCHANGED <<se, executed>>,
           \/ wire' = Nothing
           \/ wire' = se.last /\ se.last.type \in {"I", "S"}
           \/ \E err \in {"PARITY_ERROR", "OTHER_ERROR", "SOF_MISSED_ERROR"} :
                 wire' = Ask(se, err)
    PROVE  Inv'
  <1> USE DEF Inv
  <1>1. HostInv' /\ call # "none" /\ ~Ended'
    BY SendingHost
  <1>2. se \in Elements /\ se.last \in Blocks /\ se.expect \in Bit
    BY DEF Typed, Elements
  <1>3. /\ wire' \in Blocks
        /\ wire'.type \in {"I", "S"} => wire' = se.last
        /\ wire'.type = "R" => wire'.seq = se.expect /\ wire'.err # "NO_ERROR"
    <2>1. CASE wire' = Nothing
      BY <2>1 DEF Blocks, Nothing
    <2>2. CASE wire' = se.last /\ se.last.type \in {"I", "S"}
      BY <1>2, <2>2
    <2>3. ASSUME NEW err \in {"PARITY_ERROR", "OTHER_ERROR", "SOF_MISSED_ERROR"},
                 wire' = Ask(se, err)
          PROVE  /\ wire' \in Blocks /\ wire'.type = "R"
                 /\ wire'.seq = se.expect /\ wire'.err # "NO_ERROR"
      BY <1>2, <2>3 DEF Ask, Blocks, RBlocks
    <2> QED
      BY <2>1, <2>2, <2>3
  <1>4. Typed'
    BY <1>3 DEF Typed, HostSends
  <1>5. ElementInv' /\ ExecutedInv' /\ WireInv'
    BY <1>3 DEF ElementInv, ExecutedInv, AfterReset, WireInv, HostSends, Cmd
  <1>6. TransceiveInv'
    <2> SUFFICES ASSUME call = "Transceive" PROVE TransceiveInv'
      BY DEF TransceiveInv, HostSends
    <2>1. /\ Cmd > 0 /\ outcome[Cmd] = "none" /\ session = "open"
          /\ NotExecuted \/ Replying \/ BeingReset
      BY DEF TransceiveInv, Ended, HostSends
    <2>2. ASSUME NotExecuted PROVE NotExecuted'
      BY <2>2 DEF NotExecuted, BlockInv, Executed, Cmd, HostSends
    <2>3. ASSUME NEW m, NEW n, Received(m, n) PROVE Received(m, n)'
      BY <2>3 DEF Received, Sent, Executed, Cmd, HostSends
    <2>4. ASSUME NEW m, NEW n, Missed(m, n) PROVE Missed(m, n)'
      BY <2>4 DEF Missed, Sent, Executed, Cmd, HostSends
    <2>5. ASSUME BeingReset PROVE BeingReset'
      BY <2>5 DEF BeingReset, Partial, Cmd, HostSends
    <2>6. CASE Replying
      <3>1. PICK n \in ReplyBlocks : \E m \in 0..n : Received(m, n) \/ Missed(m, n)
        BY <2>6 DEF Replying
      <3>2. PICK m \in 0..n : Received(m, n) \/ Missed(m, n)
        BY <3>1
      <3>3. Replying'
        BY <3>2, <2>3, <2>4 DEF Replying
      <3> QED
        BY <1>1, <2>1, <3>3 DEF TransceiveInv, HostSends, Cmd
    <2> QED
      BY <1>1, <2>1, <2>2, <2>5, <2>6 DEF TransceiveInv, HostSends, Cmd
  <1>7. SessionInv'
    BY <1>1 DEF SessionInv, InStep, HostSends, Cmd
  <1> QED
    BY <1>1, <1>4, <1>5, <1>6, <1>7

\* The element sends the next block of its reply.
LEMMA NextBlockKeepsInv ==
    ASSUME Inv, HostSends, se.todo # <<>>, UNCHANGED executed,
           proto.state # "RESYNCH",
           proto.state = "WTX" \/ se.last.type # "I" \/ se.seq = proto.rcvdSeq,
           se' = NextBlock(se).element, wire' = NextBlock(se).frame
    PROVE  Inv'
  <1> USE DEF Inv
  <1>1. HostInv' /\ call # "none" /\ ~Ended'
    BY SendingHost
  <1>2. /\ se \in Elements /\ se.seq \in Bit /\ Flip(se.seq) \in Bit
        /\ se.todo \in Seq(Block) /\ Head(se.todo) \in Block
        /\ Tail(se.todo) \in Seq(Block) /\ (Len(se.todo) > 1 <=> Tail(se.todo) # <<>>)
        /\ se.input = <<>>
    <2>1. se \in Elements /\ se.seq \in Bit /\ se.todo \in Seq(Block)
      BY DEF Typed, Elements
    <2> QED
      BY <2>1, TailFacts, FlipFacts DEF ElementInv
  <1> DEFINE f == [type |-> "I", seq |-> Flip(se.seq), more |-> Len(se.todo) > 1,
                   data |-> <<Head(se.todo)>>]
  <1>3. /\ wire' = f /\ f \in IBlocks
        /\ se' = Advanced(se, Flip(se.seq), Tail(se.todo), f)
    <2>1. <<Head(se.todo)>> \in Seq(Block)
      BY <1>2
    <2>2. f \in IBlocks
      BY <1>2, <2>1 DEF IBlocks
    <2> QED
      BY <2>2 DEF NextBlock, Emit, Advanced
  <1>4. /\ f.type = "I" /\ f.seq = Flip(se.seq) /\ f.data = <<Head(se.todo)>>
        /\ (f.more <=> Len(se.todo) > 1) /\ f \in Blocks
    BY <1>3 DEF Blocks
  <1> HIDE DEF f
  <1>5. /\ se' \in Elements /\ se'.expect = se.expect /\ se'.seq = Flip(se.seq)
        /\ se'.input = <<>> /\ se'.todo = Tail(se.todo) /\ se'.last = f
    <2> DEFINE s == Flip(se.seq)
               t == Tail(se.todo)
               u == Advanced(se, s, t, f)
    <2>1. se \in Elements /\ s \in Bit /\ t \in Seq(Block) /\ f \in Blocks
      BY <1>2, <1>4
    <2>2. se' = u /\ se.input = <<>>
      BY <1>2, <1>3
    <2> HIDE DEF s, t
    <2>3. /\ u \in Elements /\ u.expect = se.expect /\ u.seq = s
          /\ u.input = se.input /\ u.todo = t /\ u.last = f
      BY <2>1, AdvancedFacts
    <2> QED
      BY <2>2, <2>3 DEF s, t
  <1>6. \A kind : f # Answer(kind) /\ f # WtxBlock
    BY <1>4, AnswersDiffer
  <1>7. Typed'
    BY <1>3, <1>4, <1>5 DEF Typed, HostSends
  <1>8. ElementInv' /\ ExecutedInv' /\ WireInv'
    BY <1>2, <1>3, <1>4, <1>5, <1>6
       DEF ElementInv, ExecutedInv, WireInv, HostSends, Cmd
  <1>9. ~(se.last = Answer("INTF_RESET")) /\ ~InStep
    BY DEF ElementInv, AfterReset, InStep
  <1>10. TransceiveInv'
    <2> SUFFICES ASSUME call = "Transceive" PROVE TransceiveInv'
      BY DEF TransceiveInv, HostSends
    <2>1. /\ Cmd > 0 /\ outcome[Cmd] = "none" /\ session = "open" /\ Cmd \in Nat
      BY DEF TransceiveInv, Cmd, Typed
    <2>2. Replying
      BY <1>9 DEF TransceiveInv, Ended, HostSends, NotExecuted, BeingReset
    <2>3. PICK n \in ReplyBlocks : \E m \in 0..n : Received(m, n) \/ Missed(m, n)
      BY <2>2 DEF Replying
    <2>4. PICK m \in 0..n : Received(m, n) \/ Missed(m, n)
      BY <2>3
    <2>5. n \in Nat /\ m \in Nat /\ proto.rcvdSeq \in Bit
      BY T1Assumption DEF Typed, Protos
    <2>6. Received(m, n)
      BY <2>4, <2>5, FlipFacts DEF Missed, HostSends
    <2>7. m < n
      BY <2>5, <2>6 DEF Received, HostSends
    <2>8. se.todo = ReplyPart(Cmd, m, n, n)
      BY <2>6 DEF Received, Sent
    <2>9. Head(se.todo) = <<Cmd, m + 1, n>> /\ Tail(se.todo) = ReplyPart(Cmd, m + 1, n, n)
      BY <2>1, <2>5, <2>7, <2>8, ReplyShrinks
    <2>10. m + 1 \in 0..n /\ m + 1 > 0 /\ (m + 1) - 1 = m
      BY <2>5, <2>7
    <2>11. Sent(m + 1, n)'
      BY <1>5, <2>6, <2>9 DEF Received, Sent, Executed, Cmd, HostSends
    <2>12. Missed(m + 1, n)'
      <3>1. se'.last.type = "I" /\ se'.last.data = <<<<Cmd, m + 1, n>>>>
            /\ step' = "receive" /\ wire'.type = "I" /\ se'.seq = Flip(proto'.rcvdSeq)
        BY <1>3, <1>4, <1>5, <2>6, <2>9 DEF Received, HostSends
      <3>2. reply' = ReplyPart(Cmd, 0, (m + 1) - 1, n) /\ Cmd' = Cmd
        BY <2>6, <2>10 DEF Received, Cmd, HostSends
      <3> QED
        BY <2>10, <2>11, <3>1, <3>2 DEF Missed
    <2>13. Replying'
      BY <2>10, <2>12 DEF Replying
    <2> QED
      BY <1>1, <2>1, <2>13 DEF TransceiveInv, HostSends, Cmd
  <1>11. SessionInv'
    BY <1>1, <1>5, <1>6, <1>9 DEF SessionInv, HostSends, Cmd
  <1> QED
    BY <1>1, <1>7, <1>8, <1>10, <1>11

\* The element asks for more time before it goes on with its reply.
LEMMA ExtensionKeepsInv ==
    ASSUME Inv, HostSends, se.todo # <<>>, UNCHANGED executed, proto.state = "WTX",
           se' = Delayed(se, WtxBlock), wire' = WtxBlock
    PROVE  Inv'
  <1> USE DEF Inv
  <1>1. HostInv' /\ call # "none" /\ ~Ended'
    BY SendingHost
  <1>2. /\ se \in Elements /\ se' \in Elements /\ se'.expect = se.expect
        /\ se'.seq = se.seq /\ se'.input = se.input /\ se'.todo = se.todo
        /\ se'.last = WtxBlock /\ se.input = <<>>
    <2>1. se \in Elements /\ WtxBlock \in Blocks
      BY DEF Typed, Blocks
    <2> QED
      BY <2>1, DelayedFacts DEF ElementInv
  <1>3. \A kind : WtxBlock # Answer(kind) /\ WtxBlock.type = "S"
    BY AnswersDiffer
  <1>4. Typed'
    BY <1>2 DEF Typed, HostSends, Blocks
  <1>5. ElementInv' /\ ExecutedInv' /\ WireInv'
    BY <1>2, <1>3 DEF ElementInv, ExecutedInv, WireInv, HostSends, Cmd
  <1>6. ~(se.last = Answer("INTF_RESET")) /\ ~InStep
    BY DEF ElementInv, AfterReset, InStep
  <1>7. TransceiveInv'
    <2> SUFFICES ASSUME call = "Transceive" PROVE TransceiveInv'
      BY DEF TransceiveInv, HostSends
    <2>1. /\ Cmd > 0 /\ outcome[Cmd] = "none" /\ session = "open"
      BY DEF TransceiveInv
    <2>2. Replying
      BY <1>6 DEF TransceiveInv, Ended, HostSends, NotExecuted, BeingReset
    <2>3. PICK n \in ReplyBlocks : \E m \in 0..n : Received(m, n) \/ Missed(m, n)
      BY <2>2 DEF Replying
    <2>4. PICK m \in 0..n : Received(m, n) \/ Missed(m, n)
      BY <2>3
    <2>5. Received(m, n)
      BY <2>4 DEF Missed, HostSends
    <2>6. Received(m, n)'
      BY <1>2, <2>5 DEF Received, Sent, Executed, Cmd, HostSends
    <2>7. Replying'
      BY <2>6 DEF Replying
    <2> QED
      BY <1>1, <2>1, <2>7 DEF TransceiveInv, HostSends, Cmd
  <1>8. SessionInv'
    BY <1>1, <1>2, <1>3, <1>6 DEF SessionInv, HostSends, Cmd
  <1> QED
    BY <1>1, <1>4, <1>5, <1>7, <1>8

\* The element answers a request that makes it start from the beginning.
LEMMA ResetKeepsInv ==
    ASSUME Inv, HostSends, UNCHANGED executed, NEW kind, proto.state = kind,
           kind \in {"RESYNCH", "INTF_RESET", "CHIP_RESET"},
           se' = Restarted(se, Answer(kind)),
           wire' = Answer(kind)
    PROVE  Inv'
  <1> USE DEF Inv
  <1>1. HostInv' /\ call # "none" /\ ~Ended'
    BY SendingHost
  <1>2. /\ Answer(kind) \in Blocks /\ Answer(kind).type = "S" /\ Answer(kind) # WtxBlock
        /\ Answer(kind).type \notin {"I", "R"}
    BY AnswersDiffer DEF SKinds
  <1>3. se' \in Elements /\ AfterReset(se') /\ se'.last = Answer(kind)
    <2>1. se \in Elements
      BY DEF Typed
    <2> QED
      BY <1>2, <2>1, RestartedFacts
  <1>4. Typed'
    BY <1>2, <1>3 DEF Typed, HostSends
  <1>5. ElementInv' /\ ExecutedInv' /\ WireInv'
    BY <1>2, <1>3 DEF ElementInv, AfterReset, ExecutedInv, WireInv, HostSends, Cmd
  <1>6. kind \in {"INTF_RESET", "WTX", RequestOf[call]}
    BY DEF HostInv, SKinds
  <1>7. TransceiveInv'
    <2> SUFFICES ASSUME call = "Transceive" PROVE TransceiveInv'
      BY DEF TransceiveInv, HostSends
    <2>1. /\ Cmd > 0 /\ outcome[Cmd] = "none" /\ session = "open" /\ Cmd \in Nat
      BY DEF TransceiveInv, Cmd, Typed
    <2>2. kind = "INTF_RESET"
      BY <1>6 DEF RequestOf
    <2>3. NotExecuted \/ Replying \/ BeingReset
      BY DEF TransceiveInv, Ended, HostSends
    <2>4. proto.rsp
      BY <2>3 DEF NotExecuted, Replying, Received, Missed, Sent, BeingReset
    <2>5. Partial
      <3>1. CASE Replying
        <4>1. PICK n \in ReplyBlocks : \E m \in 0..n : Received(m, n) \/ Missed(m, n)
          BY <3>1 DEF Replying
        <4>2. PICK m \in 0..n : Received(m, n) \/ Missed(m, n)
          BY <4>1
        <4>3. n \in Nat /\ m \in Nat /\ m <= n
          BY T1Assumption
        <4>4. Received(m, n) => m \in 0..n - 1
          BY <4>3 DEF Received, HostSends
        <4>5. Missed(m, n) => m - 1 \in 0..n - 1
          BY <4>3 DEF Missed
        <4> QED
          BY <4>2, <4>4, <4>5 DEF Received, Missed, Partial
      <3> QED
        BY <2>3, <3>1 DEF NotExecuted, BeingReset, Partial
    <2>6. BeingReset'
      BY <1>3, <2>2, <2>4, <2>5 DEF BeingReset, Partial, Cmd, HostSends
    <2> QED
      BY <1>1, <2>1, <2>6 DEF TransceiveInv, HostSends, Cmd
  <1>8. SessionInv'
    <2>1. call = "GetAtr" => kind = "INTF_RESET"
      BY <1>6 DEF RequestOf
    <2>2. call = "RSync" /\ kind = "RESYNCH" => proto.rcvdSeq = 1
      BY DEF SessionInv
    <2>3. call = "RSync" => kind \in {"RESYNCH", "INTF_RESET"}
      BY <1>6 DEF RequestOf
    <2>4. Answer("RESYNCH") # Answer("INTF_RESET")
      BY AnswersDiffer
    <2>5. call = "RSync" /\ (proto'.state = "RESYNCH" \/ se'.last = Answer("RESYNCH"))
            => proto'.rcvdSeq = 1
      BY <1>3, <2>2, <2>3, <2>4 DEF HostSends
    <2>6. call = "GetAtr" => se'.last = Answer("INTF_RESET") /\ proto'.state # "ATR"
      BY <1>3, <2>1 DEF HostSends
    <2> QED
      BY <1>1, <2>5, <2>6 DEF SessionInv, HostSends, Cmd
  <1> QED
    BY <1>1, <1>4, <1>5, <1>7, <1>8

\* The element answers one of the other requests.
LEMMA AnswerKeepsInv ==
    ASSUME Inv, HostSends, UNCHANGED executed, NEW kind, proto.state = kind,
           kind \in {"END_APDU", "ATR"},
           se' = Answered(se, Answer(kind)), wire' = Answer(kind)
    PROVE  Inv'
  <1> USE DEF Inv
  <1>1. HostInv' /\ call # "none" /\ ~Ended'
    BY SendingHost
  <1>2. /\ Answer(kind) \in Blocks /\ Answer(kind).type = "S" /\ Answer(kind) # WtxBlock
        /\ Answer(kind).type \notin {"I", "R"}
        /\ Answer(kind) \notin {Answer("RESYNCH"), Answer("INTF_RESET"), Answer("CHIP_RESET")}
    BY AnswersDiffer DEF SKinds
  <1>3. /\ se' \in Elements /\ se'.last = Answer(kind) /\ se'.expect = se.expect
        /\ se'.seq = se.seq /\ se'.input = se.input /\ se'.todo = se.todo
    BY <1>2, AnsweredFacts DEF Typed
  <1>4. Typed'
    BY <1>2, <1>3 DEF Typed, HostSends
  <1>5. ElementInv' /\ ExecutedInv' /\ WireInv'
    BY <1>2, <1>3 DEF ElementInv, ExecutedInv, WireInv, HostSends, Cmd
  <1>6. kind \in {"INTF_RESET", "WTX", RequestOf[call]}
    BY DEF HostInv, SKinds
  <1>7. call \in {"EndOfApdu", "GetAtr"} /\ (call = "GetAtr" => kind = "ATR")
    BY <1>1, <1>6 DEF RequestOf, Typed, Calls
  <1>8. TransceiveInv'
    BY <1>7 DEF TransceiveInv, HostSends
  <1>9. SessionInv'
    <2>1. call = "GetAtr" => InStep'
      BY <1>3, <1>7 DEF SessionInv, InStep, HostSends
    <2> QED
      BY <1>1, <1>7, <2>1 DEF SessionInv, HostSends, Cmd
  <1> QED
    BY <1>1, <1>4, <1>5, <1>8, <1>9

\* A block of the command comes in, and with the last one the command is whole.
TakenBy(e, data) == [e EXCEPT !.expect = Flip(@), !.input = @ \o data, !.todo = <<>>]
WithReply(e, data, todo) == [TakenBy(e, data) EXCEPT !.input = <<>>, !.todo = todo]

LEMMA TakenFacts ==
    ASSUME NEW e \in Elements, NEW data \in Seq(Byte), NEW todo \in Seq(Block)
    PROVE  /\ LET u == TakenBy(e, data)
              IN  /\ u \in Elements /\ u.expect = Flip(e.expect) /\ u.seq = e.seq
                  /\ u.input = e.input \o data /\ u.todo = <<>> /\ u.last = e.last
           /\ LET u == WithReply(e, data, todo)
              IN  /\ u \in Elements /\ u.expect = Flip(e.expect) /\ u.seq = e.seq
                  /\ u.input = <<>> /\ u.todo = todo /\ u.last = e.last
  <1> DEFINE x == Flip(e.expect)
             d == e.input \o data
             none == <<>>
             c == [e EXCEPT !.expect = x, !.input = d]
             t == [c EXCEPT !.todo = none]
             u == [t EXCEPT !.input = none, !.todo = todo]
  <1>1. x \in Bit /\ d \in Seq(Byte) /\ none \in Seq(Byte) /\ none \in Seq(Block)
    BY FlipFacts DEF Elements
  <1>2. t = TakenBy(e, data)
    BY DEF TakenBy
  <1>3. u = WithReply(e, data, todo)
    BY <1>2 DEF WithReply
  <1> HIDE DEF x, d, none
  <1>4. /\ c \in Elements /\ c.expect = x /\ c.seq = e.seq /\ c.input = d
        /\ c.last = e.last
    BY <1>1 DEF Elements
  <1> HIDE DEF c
  <1>5. /\ t \in Elements /\ t.expect = x /\ t.seq = e.seq /\ t.input = d
        /\ t.todo = none /\ t.last = e.last
    BY <1>1, <1>4 DEF Elements
  <1> HIDE DEF t
  <1>6. /\ u \in Elements /\ u.expect = x /\ u.seq = e.seq /\ u.input = none
        /\ u.todo = todo /\ u.last = e.last
    BY <1>1, <1>5 DEF Elements
  <1> HIDE DEF u
  <1> QED
    BY <1>2, <1>3, <1>5, <1>6 DEF x, d, none

\* The block that is sent continues what the element has of the command.
LEMMA BlockContinues ==
    ASSUME Inv, call = "Transceive", step = "send", proto.state = "IFRAME"
    PROVE  /\ Cmd \in Nat /\ Cmd > 0 /\ outcome[Cmd] = "none" /\ session = "open"
           /\ asked[Cmd] \in Nat /\ asked[Cmd] > 0
           /\ proto.next \in Contexts /\ Payload(proto.next) \in Seq(Byte)
           /\ proto.next.seq = se.expect =>
                 /\ NotExecuted
                 /\ se.input \o Payload(proto.next)
                       = Prefix(Cmd, proto.next.offset + proto.next.send)
                 /\ proto.next.offset + proto.next.send > 0
                 /\ ~proto.next.chained => proto.next.offset + proto.next.send = asked[Cmd]
  <1> USE DEF Inv
  <1>1. Cmd > 0 /\ outcome[Cmd] = "none" /\ session = "open" /\ Cmd \in Nat
    BY DEF TransceiveInv, Cmd, Typed
  <1>2. asked[Cmd] \in CmdLens
    BY <1>1 DEF Typed, Cmd
  <1>3. asked[Cmd] \in Nat /\ asked[Cmd] > 0
    <2> DEFINE len == asked[Cmd]
    <2> HIDE DEF len
    <2>1. len \in CmdLens
      BY <1>2 DEF len
    <2>2. len \in Nat /\ len > 0
      BY <2>1, T1Assumption
    <2> QED
      BY <2>2 DEF len
  <1>4. proto.next \in Contexts
    BY DEF Typed, Protos
  <1>5. /\ proto.next.offset \in Nat /\ proto.next.send \in Nat /\ proto.next.data \in Nat
        /\ proto.next.seq \in Bit
    BY <1>4 DEF Contexts
  <1>6. Payload(proto.next) \in Seq(Byte)
    <2>1. Payload(proto.next) \in [1..proto.next.send -> Byte]
      BY <1>5 DEF Payload, Byte
    <2> QED
      BY <1>5, <2>1
  <1>7. ASSUME proto.next.seq = se.expect
        PROVE  /\ NotExecuted
               /\ se.input \o Payload(proto.next)
                     = Prefix(Cmd, proto.next.offset + proto.next.send)
               /\ proto.next.offset + proto.next.send > 0
               /\ ~proto.next.chained => proto.next.offset + proto.next.send = asked[Cmd]
    <2>1. ~Replying
      BY <1>5, <1>7, FlipFacts DEF Replying, Received, Missed, Sent
    <2>2. ~BeingReset
      BY DEF BeingReset
    <2>3. NotExecuted
      BY <2>1, <2>2 DEF TransceiveInv, Ended
    <2>4. /\ proto.next.data = Cmd /\ proto.next.send > 0
          /\ ~proto.next.chained => proto.next.offset + proto.next.send = asked[Cmd]
          /\ se.input = Prefix(Cmd, proto.next.offset)
      BY <1>7, <2>3 DEF NotExecuted, BlockInv
    <2>5. Payload(proto.next) = Bytes(Cmd, proto.next.offset, proto.next.send)
      BY <2>4 DEF Payload, Bytes
    <2>6. se.input \o Payload(proto.next)
             = Prefix(Cmd, proto.next.offset + proto.next.send)
      <3> DEFINE o == proto.next.offset
                 k == proto.next.send
      <3>1. o \in Nat /\ k \in Nat /\ se.input = Prefix(Cmd, o)
            /\ Payload(proto.next) = Bytes(Cmd, o, k)
        BY <1>5, <2>4, <2>5
      <3> HIDE DEF o, k
      <3>2. Prefix(Cmd, o) \o Bytes(Cmd, o, k) = Prefix(Cmd, o + k)
        BY <1>1, <3>1, PrefixGrows
      <3>3. se.input \o Payload(proto.next) = Prefix(Cmd, o + k)
        BY <3>1, <3>2
      <3> QED
        BY <3>3 DEF o, k
    <2>7. proto.next.offset + proto.next.send > 0
      BY <1>5, <2>4
    <2> QED
      BY <2>3, <2>4, <2>6, <2>7
  <1> QED
    BY <1>1, <1>3, <1>4, <1>6, <1>7

LEMMA TakenKeepsInv ==
    ASSUME Inv, HostSends, call = "Transceive", proto.state = "IFRAME",
           proto.next.seq = se.expect, proto.next.chained, UNCHANGED executed,
           wire' = Ask(TakenBy(se, Payload(proto.next)), "NO_ERROR"),
           se' = Answered(TakenBy(se, Payload(proto.next)), wire')
    PROVE  Inv'
  <1> USE DEF Inv
  <1>1. HostInv' /\ call # "none" /\ ~Ended'
    BY SendingHost
  <1>2. /\ Cmd > 0 /\ outcome[Cmd] = "none" /\ session = "open"
        /\ NotExecuted /\ Payload(proto.next) \in Seq(Byte)
        /\ se.input \o Payload(proto.next)
              = Prefix(Cmd, proto.next.offset + proto.next.send)
    BY BlockContinues DEF HostSends
  <1> DEFINE e == TakenBy(se, Payload(proto.next))
  <1>3. /\ e \in Elements /\ e.expect = Flip(se.expect) /\ e.seq = se.seq
        /\ e.input = Prefix(Cmd, proto.next.offset + proto.next.send) /\ e.todo = <<>>
    <2>1. se \in Elements /\ <<>> \in Seq(Block)
      BY DEF Typed
    <2> QED
      BY <1>2, <2>1, TakenFacts
  <1> HIDE DEF e
  <1>4. /\ se.expect \in Bit /\ Flip(se.expect) \in Bit /\ Flip(se.expect) # se.expect
        /\ wire' = [type |-> "R", seq |-> Flip(se.expect), err |-> "NO_ERROR"]
    BY <1>3, FlipFacts DEF Typed, Elements, Ask, e
  <1>5. wire' \in Blocks /\ wire'.type = "R" /\ wire'.seq = Flip(se.expect)
        /\ wire'.type \notin {"I", "S"}
    BY <1>4 DEF Blocks, RBlocks
  <1>6. se' = Answered(e, wire')
    BY DEF e
  <1>7. /\ se' \in Elements /\ se'.expect = Flip(se.expect) /\ se'.seq = se.seq
        /\ se'.input = Prefix(Cmd, proto.next.offset + proto.next.send)
        /\ se'.todo = <<>> /\ se'.last = wire'
    BY <1>3, <1>5, <1>6, AnsweredFacts
  <1>8. Typed'
    BY <1>5, <1>7 DEF Typed, HostSends
  <1>9. \A kind : wire' # Answer(kind) /\ wire' # WtxBlock
    BY <1>5, AnswersDiffer
  <1>10. ElementInv' /\ ExecutedInv'
    BY <1>5, <1>7, <1>9 DEF ElementInv, ExecutedInv, HostSends, Cmd
  <1>11. WireInv'
    BY <1>2, <1>5, <1>7 DEF WireInv, HostSends, Cmd, NotExecuted, Executed
  <1>12. NotExecuted'
    BY <1>2, <1>4, <1>7 DEF NotExecuted, BlockInv, Executed, HostSends, Cmd
  <1>13. TransceiveInv' /\ SessionInv'
    BY <1>1, <1>2, <1>12 DEF TransceiveInv, SessionInv, HostSends, Cmd
  <1> QED
    BY <1>1, <1>8, <1>10, <1>11, <1>13

\* The element executes the command once, with all the bytes it was given.
LEMMA ExecutedOnce ==
    ASSUME Inv, HostSends, call = "Transceive", proto.state = "IFRAME",
           proto.next.seq = se.expect, ~proto.next.chained,
           executed' = Append(executed, se.input \o Payload(proto.next))
    PROVE  /\ ExecutedInv' /\ Executed(Cmd)' /\ executed' \in Seq(Seq(Byte))
  <1> USE DEF Inv
  <1> DEFINE x == Prefix(Cmd, asked[Cmd])
  <1>1. /\ Cmd \in Nat /\ Cmd > 0 /\ asked[Cmd] \in Nat /\ asked[Cmd] > 0
        /\ NotExecuted /\ executed' = Append(executed, x)
    BY BlockContinues DEF HostSends
  <1>2. x \in Seq(Byte) /\ x[1][1] = Cmd
    BY <1>1, PrefixFacts
  <1>3. executed \in Seq(Seq(Byte)) /\ Cmd' = Cmd /\ asked' = asked
    BY DEF Typed, Cmd, HostSends
  <1> HIDE DEF x
  <1>4. /\ executed' \in Seq(Seq(Byte)) /\ Len(executed') = Len(executed) + 1
        /\ Len(executed) \in Nat /\ executed'[Len(executed) + 1] = x
        /\ \A i \in 1..Len(executed) : executed'[i] = executed[i]
        /\ DOMAIN executed = 1..Len(executed)
        /\ DOMAIN executed' = 1..(Len(executed) + 1)
    BY <1>1, <1>2, <1>3
  <1>5. Executed(Cmd)'
    <2>1. Len(executed) + 1 \in DOMAIN executed'
      BY <1>4
    <2> QED
      BY <1>2, <1>3, <1>4, <2>1 DEF Executed
  <1>6. \A i \in DOMAIN executed : executed[i][1][1] # Cmd
    BY <1>1 DEF NotExecuted, Executed
  <1>7. ASSUME NEW i \in DOMAIN executed'
        PROVE  /\ executed'[i][1][1] \in 1..Cmd
               /\ executed'[i] = Prefix(executed'[i][1][1], asked[executed'[i][1][1]])
    <2>1. CASE i = Len(executed) + 1
      BY <1>1, <1>2, <1>4, <2>1 DEF x
    <2>2. CASE i \in DOMAIN executed
      BY <1>4, <2>2 DEF ExecutedInv
    <2>3. i = Len(executed) + 1 \/ i \in DOMAIN executed
      BY <1>4
    <2> QED
      BY <2>1, <2>2, <2>3
  <1>8. ASSUME NEW i \in DOMAIN executed', NEW j \in DOMAIN executed',
               executed'[i][1][1] = executed'[j][1][1]
        PROVE  i = j
    <2>1. CASE i \in DOMAIN executed /\ j \in DOMAIN executed
      BY <1>4, <1>8, <2>1 DEF ExecutedInv
    <2>2. CASE i = Len(executed) + 1
      <3>1. executed'[j][1][1] = Cmd
        BY <1>2, <1>4, <1>8, <2>2
      <3>2. j \notin DOMAIN executed
        BY <1>4, <1>6, <3>1
      <3> QED
        BY <1>4, <2>2, <3>2
    <2>3. CASE j = Len(executed) + 1
      <3>1. executed'[i][1][1] = Cmd
        BY <1>2, <1>4, <1>8, <2>3
      <3>2. i \notin DOMAIN executed
        BY <1>4, <1>6, <3>1
      <3> QED
        BY <1>4, <2>3, <3>2
    <2> QED
      BY <1>4, <2>1, <2>2, <2>3
  <1>9. ExecutedInv'
    BY <1>3, <1>7, <1>8 DEF ExecutedInv
  <1> QED
    BY <1>4, <1>5, <1>9

\* The element has executed the command and sends the first block of its reply.
LEMMA FirstBlockKeepsInv ==
    ASSUME Inv, HostSends, call = "Transceive", proto.state = "IFRAME",
           proto.next.seq = se.expect, ~proto.next.chained,
           executed' = Append(executed, se.input \o Payload(proto.next)),
           NEW n \in ReplyBlocks, NEW e,
           e = WithReply(se, Payload(proto.next), ReplyPart(Cmd, 0, n, n)),
           se' = NextBlock(e).element, wire' = NextBlock(e).frame
    PROVE  Inv'
  <1> USE DEF Inv
  <1>1. HostInv' /\ call # "none" /\ ~Ended'
    BY SendingHost
  <1>2. /\ Cmd \in Nat /\ Cmd > 0 /\ outcome[Cmd] = "none" /\ session = "open"
        /\ NotExecuted /\ Payload(proto.next) \in Seq(Byte) /\ n \in Nat /\ n > 0
    BY BlockContinues, T1Assumption DEF HostSends
  <1>3. ExecutedInv' /\ Executed(Cmd)' /\ executed' \in Seq(Seq(Byte))
    BY ExecutedOnce
  <1> DEFINE s == ReplyPart(Cmd, 0, n, n)
             t == ReplyPart(Cmd, 1, n, n)
             b == <<Cmd, 1, n>>
             f == [type |-> "I", seq |-> Flip(e.seq), more |-> Len(e.todo) > 1,
                   data |-> <<Head(e.todo)>>]
  <1>4. s \in Seq(Block) /\ s # <<>> /\ Head(s) = b /\ Tail(s) = t
        /\ (Len(s) > 1 <=> t # <<>>) /\ b \in Block /\ t \in Seq(Block)
    <2>1. s \in Seq(Block)
      BY <1>2, FirstPart
    <2>2. s # <<>> /\ Head(s) = <<Cmd, 0 + 1, n>> /\ Tail(s) = ReplyPart(Cmd, 0 + 1, n, n)
      <3>1. 0 \in 0..n /\ 0 < n
        BY <1>2
      <3> QED
        BY <1>2, <3>1, ReplyShrinks
    <2>3. 0 + 1 = 1
      OBVIOUS
    <2>4. s # <<>> /\ Head(s) = b /\ Tail(s) = t
      BY <2>2, <2>3
    <2> QED
      BY <2>1, <2>4, TailFacts
  <1> HIDE DEF s, t, b
  <1>5. /\ e \in Elements /\ e.expect = Flip(se.expect) /\ e.seq = se.seq
        /\ e.input = <<>> /\ e.todo = s
    <2>1. se \in Elements /\ e = WithReply(se, Payload(proto.next), s)
      BY DEF Typed, s
    <2> QED
      BY <1>2, <1>4, <2>1, TakenFacts
  <1>6. /\ se.seq \in Bit /\ Flip(se.seq) \in Bit /\ se.expect \in Bit
        /\ proto.rcvdSeq \in Bit
    BY FlipFacts DEF Typed, Elements, Protos
  <1>7. wire' = f /\ se' = Advanced(e, Flip(e.seq), Tail(e.todo), f)
    BY DEF NextBlock, Emit, Advanced
  <1>8. /\ f \in IBlocks /\ f \in Blocks /\ f.type = "I" /\ f.seq = Flip(se.seq)
        /\ f.data = <<b>> /\ (f.more <=> t # <<>>)
    <2>1. <<b>> \in Seq(Block)
      BY <1>4
    <2>2. f \in IBlocks
      BY <1>4, <1>5, <1>6, <2>1 DEF IBlocks
    <2> QED
      BY <1>4, <1>5, <2>2 DEF Blocks
  <1> HIDE DEF f
  <1>9. /\ se' \in Elements /\ se'.expect = Flip(se.expect) /\ se'.seq = Flip(se.seq)
        /\ se'.input = <<>> /\ se'.todo = t /\ se'.last = f
    <2> DEFINE x == Flip(se.seq)
               u == Advanced(e, x, t, f)
    <2>1. x \in Bit /\ se' = u
      BY <1>4, <1>5, <1>6, <1>7
    <2> HIDE DEF x
    <2>2. /\ u \in Elements /\ u.expect = e.expect /\ u.seq = x
          /\ u.input = e.input /\ u.todo = t /\ u.last = f
      BY <1>4, <1>5, <1>8, <2>1, AdvancedFacts
    <2> QED
      BY <1>5, <2>1, <2>2 DEF x
  <1>10. \A kind : f # Answer(kind) /\ f # WtxBlock
    BY <1>8, AnswersDiffer
  <1>11. Typed'
    BY <1>3, <1>7, <1>8, <1>9 DEF Typed, HostSends
  <1>12. ElementInv' /\ WireInv'
    BY <1>7, <1>8, <1>9, <1>10 DEF ElementInv, WireInv, HostSends
  <1>13. Missed(1, n)'
    <2>1. Sent(1, n)'
      BY <1>2, <1>3, <1>9 DEF Sent, NotExecuted, HostSends, Cmd, t
    <2>2. reply' = ReplyPart(Cmd, 0, 1 - 1, n)
      <3>1. ReplyPart(Cmd, 0, 0, n) = <<>>
        BY <1>2, FirstPart
      <3>2. 1 - 1 = 0
        OBVIOUS
      <3> QED
        BY <1>2, <3>1, <3>2 DEF NotExecuted, HostSends
    <2>3. se'.last.type = "I" /\ se'.last.data = <<<<Cmd, 1, n>>>>
          /\ se'.seq = Flip(proto'.rcvdSeq) /\ proto'.state # "WTX"
      BY <1>2, <1>8, <1>9 DEF NotExecuted, HostSends, b
    <2> QED
      BY <2>1, <2>2, <2>3 DEF Missed, HostSends, Cmd
  <1>14. TransceiveInv' /\ SessionInv'
    <2>1. 1 \in 0..n
      BY <1>2
    <2>2. Replying'
      BY <1>13, <2>1 DEF Replying
    <2> QED
      BY <1>1, <1>2, <2>2 DEF TransceiveInv, SessionInv, HostSends, Cmd
  <1> QED
    BY <1>1, <1>3, <1>11, <1>12, <1>14

\* The element has executed the command and asks for more time before it replies.
LEMMA FirstExtensionKeepsInv ==
    ASSUME Inv, HostSends, call = "Transceive", proto.state = "IFRAME",
           proto.next.seq = se.expect, ~proto.next.chained,
           executed' = Append(executed, se.input \o Payload(proto.next)),
           NEW n \in ReplyBlocks, NEW e,
           e = WithReply(se, Payload(proto.next), ReplyPart(Cmd, 0, n, n)),
           se' = Delayed(e, WtxBlock), wire' = WtxBlock
    PROVE  Inv'
  <1> USE DEF Inv
  <1>1. HostInv' /\ call # "none" /\ ~Ended'
    BY SendingHost
  <1>2. /\ Cmd \in Nat /\ Cmd > 0 /\ outcome[Cmd] = "none" /\ session = "open"
        /\ NotExecuted /\ Payload(proto.next) \in Seq(Byte) /\ n \in Nat /\ n > 0
    BY BlockContinues, T1Assumption DEF HostSends
  <1>3. ExecutedInv' /\ Executed(Cmd)' /\ executed' \in Seq(Seq(Byte))
    BY ExecutedOnce
  <1> DEFINE s == ReplyPart(Cmd, 0, n, n)
  <1>4. s \in Seq(Block) /\ s # <<>>
    BY <1>2, FirstPart
  <1> HIDE DEF s
  <1>5. /\ e \in Elements /\ e.expect = Flip(se.expect) /\ e.seq = se.seq
        /\ e.input = <<>> /\ e.todo = s
    <2>1. se \in Elements /\ e = WithReply(se, Payload(proto.next), s)
      BY DEF Typed, s
    <2> QED
      BY <1>2, <1>4, <2>1, TakenFacts
  <1>6. /\ se' \in Elements /\ se'.expect = Flip(se.expect) /\ se'.seq = se.seq
        /\ se'.input = <<>> /\ se'.todo = s /\ se'.last = WtxBlock
    <2>1. WtxBlock \in Blocks
      BY DEF Blocks
    <2> QED
      BY <1>5, <2>1, DelayedFacts
  <1>7. \A kind : WtxBlock # Answer(kind) /\ WtxBlock.type = "S"
    BY AnswersDiffer
  <1>8. Typed'
    BY <1>3, <1>6 DEF Typed, HostSends, Blocks
  <1>9. ElementInv' /\ WireInv'
    BY <1>4, <1>6, <1>7 DEF ElementInv, WireInv, HostSends
  <1>10. Received(0, n)'
    <2>1. Sent(0, n)'
      BY <1>2, <1>3, <1>6 DEF Sent, NotExecuted, HostSends, Cmd, s
    <2>2. ReplyPart(Cmd, 0, 0, n) = <<>>
      BY <1>2, FirstPart
    <2> QED
      BY <1>2, <1>6, <2>1, <2>2 DEF Received, NotExecuted, HostSends, Cmd
  <1>11. TransceiveInv' /\ SessionInv'
    <2>1. 0 \in 0..n
      BY <1>2
    <2>2. Replying'
      BY <1>10, <2>1 DEF Replying
    <2> QED
      BY <1>1, <1>2, <2>2 DEF TransceiveInv, SessionInv, HostSends, Cmd
  <1> QED
    BY <1>1, <1>3, <1>8, <1>9, <1>11

-----------------------------------------------------------------------------
\* The bus refuses the block, and the exchange is over.
LEMMA SendFailsKeepsInv ==
    ASSUME Inv, call # "none", step = "send", proto.state # "IDLE", SendFails,
           UNCHANGED <<reply, call, session, asked, outcome>>
    PROVE  Inv'
  <1> USE DEF Inv
  <1>1. /\ UNCHANGED <<step, se, wire, executed>> /\ status' = FALSE
        /\ proto' \in Protos /\ proto'.state = "IDLE" /\ proto'.next = proto.next
        /\ proto'.last = proto.last /\ proto'.rcvdSeq = proto.rcvdSeq
        /\ proto'.rsp = proto.rsp
    <2> DEFINE q == Framed(proto)
    <2>1. /\ q \in Protos /\ q.next = proto.next /\ q.last = proto.last
          /\ q.rcvdSeq = proto.rcvdSeq /\ q.rsp = proto.rsp
      BY FramedFacts DEF Typed
    <2>2. proto' = [q EXCEPT !.state = "IDLE"] /\ status' = FALSE
          /\ UNCHANGED <<step, se, wire, executed>>
      BY DEF SendFails
    <2> HIDE DEF q
    <2> QED
      BY <2>1, <2>2 DEF Protos
  <1>2. Typed'
    BY <1>1 DEF Typed
  <1>3. HostInv'
    BY <1>1 DEF HostInv, Matching, SKinds
  <1>4. wire = Nothing /\ ~(Ended /\ status)'
    BY <1>1 DEF WireInv, Ended
  <1>5. ElementInv' /\ ExecutedInv' /\ WireInv'
    BY <1>1, <1>4 DEF ElementInv, AfterReset, ExecutedInv, WireInv, Nothing, Cmd
  <1>6. TransceiveInv'
    <2> SUFFICES ASSUME call = "Transceive" PROVE TransceiveInv'
      BY DEF TransceiveInv
    <2>1. /\ Cmd > 0 /\ outcome[Cmd] = "none" /\ session = "open"
          /\ NotExecuted \/ Replying \/ BeingReset
      BY DEF TransceiveInv, Ended
    <2>2. ASSUME NotExecuted PROVE NotExecuted'
      BY <1>1, <2>2 DEF NotExecuted, BlockInv, Executed, Cmd
    <2>3. ASSUME NEW m, NEW n, Received(m, n) PROVE Received(m, n)'
      BY <1>1, <2>3 DEF Received, Sent, Executed, Cmd
    <2>4. ASSUME NEW m, NEW n, Missed(m, n) PROVE Missed(m, n)'
      BY <1>1, <2>4 DEF Missed, Sent, Executed, Cmd
    <2>5. ASSUME BeingReset PROVE BeingReset'
      BY <1>1, <2>5 DEF BeingReset, Partial, Cmd
    <2>6. ASSUME Replying PROVE Replying'
      <3>1. PICK n \in ReplyBlocks : \E m \in 0..n : Received(m, n) \/ Missed(m, n)
        BY <2>6 DEF Replying
      <3>2. PICK m \in 0..n : Received(m, n) \/ Missed(m, n)
        BY <3>1
      <3> QED
        BY <3>2, <2>3, <2>4 DEF Replying
    <2> QED
      BY <1>4, <2>1, <2>2, <2>5, <2>6 DEF TransceiveInv, Cmd
  <1>7. SessionInv'
    BY <1>1, <1>4 DEF SessionInv, InStep, Cmd
  <1> QED
    BY <1>2, <1>3, <1>5, <1>6, <1>7

\* The element's choice of a reply to the command that a block completes.
Whole(e, data, n) ==
    LET taken == TakenBy(e, data)
    IN  [taken EXCEPT !.input = <<>>,
                      !.todo = [i \in 1..n |-> <<Head(taken.input)[1], i, n>>]]

LEMMA LastIframe ==
    ASSUME NEW e, NEW f, f.seq = e.expect, ~f.more, NEW r \in OnIframe(e, f)
    PROVE  \E n \in ReplyBlocks : r \in AnswerOrWait(Whole(e, f.data, n))
  BY DEF OnIframe, TakenBy, Whole

\* What the bus delivers when the host is about to send an I-block ...
LEMMA IframeKeepsInv ==
    ASSUME Inv, HostSends, proto.state = "IFRAME", Delivered(SentFrame(proto))
    PROVE  Inv'
  <1> DEFINE f == SentFrame(proto)
             d == Payload(proto.next)
             taken == TakenBy(se, d)
  <1>1. call = "Transceive"
    BY DEF Inv, HostInv
  <1>2. /\ f.type = "I" /\ f.seq = proto.next.seq /\ f.data = d
        /\ f.more = proto.next.chained
    BY DEF SentFrame, SKinds
  <1> HIDE DEF f, d
  <1>3. PICK r \in OnIframe(se, f) :
            /\ se' = r.element /\ wire' = r.frame
            /\ executed' = IF Completes(se, f) THEN Append(executed, se.input \o f.data)
                                               ELSE executed
    BY <1>2 DEF Delivered, Reactions, f
  <1>4. proto.next.chained \in BOOLEAN
    BY DEF Inv, Typed, Protos, Contexts
  <1>5. CASE f.seq # se.expect
    <2>1. r = EmitOnly(se, Ask(se, "OTHER_ERROR"))
      BY <1>3, <1>5 DEF OnIframe
    <2>2. UNCHANGED <<se, executed>> /\ wire' = Ask(se, "OTHER_ERROR")
      BY <1>3, <1>5, <2>1 DEF EmitOnly, Completes
    <2> QED
      BY <2>2, QuietKeepsInv
  <1>6. CASE f.seq = se.expect /\ proto.next.chained
    <2>1. r = Emit(taken, Ask(taken, "NO_ERROR"))
      BY <1>2, <1>3, <1>6 DEF OnIframe, TakenBy
    <2>2. /\ UNCHANGED executed /\ wire' = Ask(taken, "NO_ERROR")
          /\ se' = Answered(taken, wire')
      BY <1>2, <1>3, <1>6, <2>1 DEF Emit, Completes, Answered
    <2> QED
      BY <1>1, <1>2, <1>6, <2>2, TakenKeepsInv DEF d
  <1>7. CASE f.seq = se.expect /\ ~proto.next.chained
    <2>1. executed' = Append(executed, se.input \o d)
      BY <1>2, <1>3, <1>7 DEF Completes
    <2>2. /\ Cmd \in Nat /\ d \in Seq(Byte)
          /\ se.input \o d = Prefix(Cmd, proto.next.offset + proto.next.send)
          /\ proto.next.offset + proto.next.send > 0
          /\ proto.next.offset + proto.next.send \in Nat
      BY <1>1, <1>2, <1>7, BlockContinues DEF d, HostSends, Contexts
    <2>3. Head(taken.input)[1] = Cmd
      <3> DEFINE n == proto.next.offset + proto.next.send
      <3>1. n \in Nat /\ n > 0
        BY <2>2
      <3>2. taken.input = Prefix(Cmd, n)
        <4>1. se \in Elements /\ <<>> \in Seq(Block)
          BY DEF Inv, Typed
        <4> QED
          BY <2>2, <4>1, TakenFacts
      <3> HIDE DEF n, taken
      <3>3. Prefix(Cmd, n) \in Seq(Byte) /\ Len(Prefix(Cmd, n)) = n
            /\ Prefix(Cmd, n)[1] = <<Cmd, 1>>
        <4>1. 1 \in 1..n
          BY <3>1
        <4> QED
          BY <2>2, <3>1, <4>1, PrefixFacts
      <3>4. Head(Prefix(Cmd, n)) = <<Cmd, 1>>
        BY <3>1, <3>3
      <3> QED
        BY <3>2, <3>4
    <2>4. PICK n \in ReplyBlocks : r \in AnswerOrWait(Whole(se, f.data, n))
      BY <1>2, <1>3, <1>7, LastIframe
    <2> DEFINE e == WithReply(se, d, ReplyPart(Cmd, 0, n, n))
    <2>5. r \in AnswerOrWait(e)
      <3>1. n \in Nat /\ n \in 0..n
        BY T1Assumption
      <3>2. ReplyPart(Cmd, 0, n, n) = [i \in 1..n |-> <<Cmd, i, n>>]
        BY <2>2, <3>1, FirstPart
      <3>3. TakenBy(se, f.data) = taken
        BY <1>2
      <3> QED
        BY <2>3, <2>4, <3>2, <3>3 DEF WithReply, Whole
    <2> HIDE DEF e, taken
    <2>6. \/ se' = NextBlock(e).element /\ wire' = NextBlock(e).frame
          \/ se' = Delayed(e, WtxBlock) /\ wire' = WtxBlock
      BY <1>3, <2>5 DEF AnswerOrWait, Emit, Delayed, WtxBlock
    <2> QED
      BY <1>1, <1>2, <1>7, <2>1, <2>6, FirstBlockKeepsInv, FirstExtensionKeepsInv DEF d, e
  <1> QED
    BY <1>4, <1>5, <1>6, <1>7

\* ... an R-block ...
LEMMA RframeKeepsInv ==
    ASSUME Inv, HostSends, proto.state \in {"R_ACK", "R_NACK"},
           Delivered(SentFrame(proto))
    PROVE  Inv'
  <1> DEFINE f == SentFrame(proto)
  <1>1. f.type = "R" /\ f.seq = Flip(proto.rcvdSeq)
    BY DEF SentFrame, SKinds
  <1> HIDE DEF f
  <1>2. PICK r \in OnRframe(se, f) :
            se' = r.element /\ wire' = r.frame /\ executed' = executed
    BY <1>1 DEF Delivered, Reactions, Completes, f
  <1>3. /\ se.last \in Blocks /\ se.seq \in Bit /\ proto.rcvdSeq \in Bit
        /\ se.last.type = "S" => se.last \in SBlocks \/ se.last = WtxBlock
    <2>1. se.last \in Blocks /\ se.seq \in Bit /\ proto.rcvdSeq \in Bit
      BY DEF Inv, Typed, Elements, Protos
    <2> QED
      BY <2>1, BlockKinds
  <1>4. CASE r = EmitOnly(se, Ask(se, "OTHER_ERROR"))
    BY <1>2, <1>4, QuietKeepsInv DEF EmitOnly
  <1>5. CASE r = EmitOnly(se, se.last) /\ se.last.type \in {"I", "S"}
    BY <1>2, <1>5, QuietKeepsInv DEF EmitOnly
  <1>6. CASE /\ r = NextBlock(se) /\ se.todo # <<>>
             /\ se.last.type = "I" => f.seq # se.seq
    <2>1. se.last.type # "I" \/ se.seq = proto.rcvdSeq
      BY <1>1, <1>3, <1>6, FlipFacts
    <2> QED
      BY <1>2, <1>6, <2>1, NextBlockKeepsInv
  <1>7. \/ r = EmitOnly(se, Ask(se, "OTHER_ERROR"))
        \/ r = EmitOnly(se, se.last) /\ se.last.type \in {"I", "S"}
        \/ /\ r = NextBlock(se) /\ se.todo # <<>>
           /\ se.last.type = "I" => f.seq # se.seq
    BY <1>2 DEF OnRframe
  <1> QED
    BY <1>4, <1>5, <1>6, <1>7

\* ... and an S-block.
LEMMA SframeKeepsInv ==
    ASSUME Inv, HostSends, proto.state \in SKinds, Delivered(SentFrame(proto))
    PROVE  Inv'
  <1> DEFINE f == SentFrame(proto)
             kind == proto.state
  <1>1. f = [type |-> "S", kind |-> kind]
    BY DEF SentFrame, SKinds
  <1> HIDE DEF f
  <1>2. f.type = "S" /\ f.kind = kind
    BY <1>1
  <1>3. PICK r \in OnSframe(se, f) :
            se' = r.element /\ wire' = r.frame /\ executed' = executed
    BY <1>2 DEF Delivered, Reactions, Completes, f
  <1>4. CASE kind \in {"RESYNCH", "INTF_RESET", "CHIP_RESET"}
    <2>1. r = Emit([ResetElement EXCEPT !.wtx = se.wtx], Answer(kind))
      BY <1>2, <1>3, <1>4 DEF OnSframe, Answer
    <2>2. se' = Restarted(se, Answer(kind)) /\ wire' = Answer(kind)
      BY <1>3, <2>1 DEF Emit, Restarted
    <2> QED
      BY <1>3, <1>4, <2>2, ResetKeepsInv
  <1>5. CASE kind \in {"END_APDU", "ATR"}
    <2>1. r = Emit(se, Answer(kind))
      BY <1>2, <1>3, <1>5 DEF OnSframe, Answer
    <2>2. se' = Answered(se, Answer(kind)) /\ wire' = Answer(kind)
      BY <1>3, <2>1 DEF Emit, Answered
    <2> QED
      BY <1>3, <1>5, <2>2, AnswerKeepsInv
  <1>6. CASE kind = "WTX" /\ se.todo # <<>>
    <2>1. r \in AnswerOrWait(se)
      BY <1>2, <1>3, <1>6 DEF OnSframe
    <2>2. \/ se' = NextBlock(se).element /\ wire' = NextBlock(se).frame
          \/ se' = Delayed(se, WtxBlock) /\ wire' = WtxBlock
      BY <1>3, <2>1 DEF AnswerOrWait, Emit, Delayed, WtxBlock
    <2> QED
      BY <1>3, <1>6, <2>2, NextBlockKeepsInv, ExtensionKeepsInv
  <1>7. CASE kind = "WTX" /\ se.todo = <<>>
    <2>1. r = EmitOnly(se, Ask(se, "OTHER_ERROR"))
      BY <1>2, <1>3, <1>7 DEF OnSframe
    <2> QED
      BY <1>3, <2>1, QuietKeepsInv DEF EmitOnly
  <1> QED
    BY <1>4, <1>5, <1>6, <1>7 DEF SKinds

LEMMA SendKeepsInv ==
    ASSUME Inv, Send
    PROVE  Inv'
  <1>1. /\ call # "none" /\ step = "send" /\ proto.state # "IDLE"
        /\ UNCHANGED <<reply, call, session, asked, outcome>>
    BY DEF Send, sessionVars
  <1>2. CASE SendFails
    BY <1>1, <1>2, SendFailsKeepsInv
  <1>3. CASE SendFrame
    <2>1. HostSends
      <3> DEFINE q == Framed(proto)
      <3>1. /\ q \in Protos /\ q.state = proto.state /\ q.next = proto.next
            /\ q.rcvdSeq = proto.rcvdSeq /\ q.rsp = proto.rsp
            /\ proto.state # "R_NACK" => q.lastSentNonError = TypeOfState(proto.state)
            /\ proto.state = "R_NACK" => q.lastSentNonError = proto.lastSentNonError
            /\ proto.next \in Contexts
        BY <1>1, FramedFacts DEF Inv, Typed, Protos
      <3>2. proto' = [q EXCEPT !.last = proto.next] /\ status' = TRUE /\ step' = "receive"
        BY <1>3 DEF SendFrame
      <3> HIDE DEF q
      <3>3. /\ proto' \in Protos /\ proto'.state = proto.state /\ proto'.next = proto.next
            /\ proto'.last = proto.next /\ proto'.rcvdSeq = proto.rcvdSeq
            /\ proto'.rsp = proto.rsp /\ proto'.lastSentNonError = q.lastSentNonError
        BY <3>1, <3>2 DEF Protos
      <3> QED
        BY <1>1, <3>1, <3>2, <3>3 DEF HostSends, Awaiting
    <2>2. CASE UNCHANGED <<se, executed>> /\
               wire' \in {Nothing, Ask(se, "PARITY_ERROR"), Ask(se, "SOF_MISSED_ERROR")}
      BY <2>1, <2>2, QuietKeepsInv
    <2>3. CASE Delivered(SentFrame(proto))
      <3>1. proto.state \in {"IFRAME", "R_ACK", "R_NACK"} \union SKinds
        BY <1>1 DEF Inv, Typed, Protos
      <3> QED
        BY <2>1, <2>3, <3>1, IframeKeepsInv, RframeKeepsInv, SframeKeepsInv
    <2> QED
      BY <1>3, <2>2, <2>3 DEF SendFrame
  <1> QED
    BY <1>1, <1>2, <1>3 DEF Send

-----------------------------------------------------------------------------
\* The calls

\* A call starts with its request.
LEMMA RequestKeepsInv ==
    ASSUME Inv, NEW proc \in Calls \ {"none", "Transceive"}, NEW p \in Protos,
           call \in {"none", "RSync"}, step = "send",
           call' = proc, proto' = ToSend(p, RequestOf[proc]), step' = "send",
           status' = FALSE, reply' \in Seq(Block),
           UNCHANGED <<session, se, wire, asked, executed, outcome>>,
           proc = "RSync" => p.rcvdSeq = 1 /\ session = "closed",
           proc = "GetAtr" => InStep /\ p.rcvdSeq = proto.rcvdSeq /\ session = "closed",
           proc \in {"ChipReset", "IntfReset"} => session = "failed"
    PROVE  Inv'
  <1> USE DEF Inv
  <1>1. RequestOf[proc] \in SKinds
        /\ RequestOf[proc] \notin {"IFRAME", "R_NACK", "IDLE", "R_ACK"}
        /\ (proc = "GetAtr" => RequestOf[proc] = "ATR")
    BY DEF RequestOf, SKinds, Calls
  <1>2. /\ proto' \in Protos /\ proto'.state = RequestOf[proc] /\ Matching(proto')
        /\ proto'.rcvdSeq = p.rcvdSeq
    BY <1>1, ToSendAgain DEF Again
  <1>3. Typed'
    BY <1>2 DEF Typed, Calls
  <1>4. HostInv'
    BY <1>1, <1>2 DEF HostInv, Calls
  <1>5. wire = Nothing /\ ~Ended'
    BY <1>1, <1>2 DEF WireInv, Ended
  <1>6. ElementInv' /\ ExecutedInv' /\ WireInv'
    BY <1>5 DEF ElementInv, AfterReset, ExecutedInv, WireInv, Nothing, Cmd
  <1>7. TransceiveInv'
    BY DEF TransceiveInv
  <1>8. SessionInv'
    <2>1. Cmd > 0 => outcome[Cmd] # "none"
      BY DEF SessionInv
    <2>2. proc = "GetAtr" => InStep'
      BY <1>2 DEF InStep
    <2> QED
      BY <1>2, <1>5, <2>1, <2>2 DEF SessionInv, Cmd, Calls
  <1> QED
    BY <1>3, <1>4, <1>6, <1>7, <1>8

\* A call ends.
LEMMA EndKeepsInv ==
    ASSUME Inv, Ended, End, UNCHANGED <<se, wire, asked, executed>>,
           outcome' \in Seq({"none", "answered", "failed", "noreply"}),
           Len(outcome') = Len(outcome), Cmd > 0 => outcome'[Cmd] # "none",
           session' \in {"closed", "open", "failed"}, session' = "open" => InStep
    PROVE  Inv'
  <1> USE DEF Inv
  <1>1. /\ proto' \in Protos /\ proto'.state = "IDLE" /\ proto'.rcvdSeq = proto.rcvdSeq
        /\ call' = "none" /\ step' = "send" /\ status' = FALSE /\ reply' = <<>>
    BY DEF Typed, Protos, Ended, End, Idle
  <1>2. Typed'
    <2>1. reply' \in Seq(Block)
      BY <1>1, EmptySeq
    <2> QED
      BY <1>1, <2>1 DEF Typed, Calls
  <1>3. HostInv' /\ TransceiveInv'
    BY <1>1 DEF HostInv, TransceiveInv, Matching, SKinds
  <1>4. wire = Nothing
    BY DEF WireInv, Ended
  <1>5. Cmd' = Cmd
    BY DEF Cmd
  <1>6. ElementInv' /\ WireInv' /\ ExecutedInv'
    BY <1>1, <1>4, <1>5 DEF ElementInv, AfterReset, ExecutedInv, WireInv, Nothing
  <1>7. SessionInv'
    BY <1>1, <1>5 DEF SessionInv, InStep
  <1> QED
    BY <1>2, <1>3, <1>6, <1>7

LEMMA OpenKeepsInv ==
    ASSUME Inv, Open
    PROVE  Inv'
  <1> DEFINE r == ResetProtoParams
             s == [r EXCEPT !.rsp = TRUE]
             p == [s EXCEPT !.current = "TRANSCEIVE"]
  <1>1. r \in Protos /\ r.rcvdSeq = 1
    BY ResetTyped
  <1> HIDE DEF r
  <1>2. s \in Protos /\ s.rcvdSeq = 1
    BY <1>1 DEF Protos
  <1> HIDE DEF s
  <1>3. p \in Protos /\ p.rcvdSeq = 1
    BY <1>2 DEF Protos
  <1>4. /\ call = "none" /\ session = "closed" /\ call' = "RSync" /\ step' = "send"
        /\ proto' = ToSend(p, "RESYNCH") /\ status' = FALSE /\ reply' = <<>>
        /\ UNCHANGED <<session, se, wire, asked, executed, outcome>>
    BY DEF Open, Start, Request, history, r, s
  <1> HIDE DEF p
  <1>5. step = "send" /\ reply' \in Seq(Block)
    BY <1>4, EmptySeq DEF Inv, HostInv
  <1>6. "RSync" \in Calls \ {"none", "Transceive"} /\ RequestOf["RSync"] = "RESYNCH"
    BY DEF Calls, RequestOf
  <1> QED
    BY <1>3, <1>4, <1>5, <1>6, RequestKeepsInv

LEMMA RSyncReturnsKeepsInv ==
    ASSUME Inv, RSyncReturns
    PROVE  Inv'
  <1> DEFINE s == [proto EXCEPT !.rsp = TRUE]
             p == [s EXCEPT !.current = "TRANSCEIVE"]
  <1>1. /\ call = "RSync" /\ Ended /\ session = "closed"
        /\ UNCHANGED <<session, se, wire, asked, executed, outcome>>
        /\ Cmd > 0 => outcome[Cmd] # "none"
        /\ outcome \in Seq({"none", "answered", "failed", "noreply"})
    BY DEF RSyncReturns, Running, Ended, sessionVars, history, Inv, SessionInv, Typed
  <1>2. CASE status
    <2>1. s \in Protos /\ s.rcvdSeq = proto.rcvdSeq
      BY DEF Inv, Typed, Protos
    <2> HIDE DEF s
    <2>2. p \in Protos /\ p.rcvdSeq = proto.rcvdSeq
      BY <2>1 DEF Protos
    <2>3. /\ call' = "GetAtr" /\ step' = "send" /\ proto' = ToSend(p, "ATR")
          /\ status' = FALSE /\ reply' = <<>>
      BY <1>2 DEF RSyncReturns, Start, Request, s
    <2> HIDE DEF p
    <2>4. InStep /\ step = "send" /\ reply' \in Seq(Block)
      BY <1>1, <1>2, <2>3, EmptySeq DEF Inv, SessionInv, Ended
    <2>5. "GetAtr" \in Calls \ {"none", "Transceive"} /\ RequestOf["GetAtr"] = "ATR"
      BY DEF Calls, RequestOf
    <2> QED
      BY <1>1, <2>2, <2>3, <2>4, <2>5, RequestKeepsInv
  <1>3. CASE ~status
    <2>1. End
      BY <1>3 DEF RSyncReturns
    <2> QED
      BY <1>1, <2>1, EndKeepsInv
  <1> QED
    BY <1>2, <1>3

\* The ATR opens the session, and the element is as after a reset.
LEMMA GetAtrReturnsKeepsInv ==
    ASSUME Inv, GetAtrReturns
    PROVE  Inv'
  <1>1. /\ call = "GetAtr" /\ Ended /\ End
        /\ UNCHANGED <<se, wire, asked, executed, outcome>>
        /\ session' = IF status THEN "open" ELSE "closed"
        /\ Cmd > 0 => outcome[Cmd] # "none"
        /\ outcome \in Seq({"none", "answered", "failed", "noreply"})
    BY DEF GetAtrReturns, Running, Ended, history, Inv, SessionInv, Typed
  <1>2. session' = "open" => InStep
    BY <1>1 DEF Inv, SessionInv
  <1> QED
    BY <1>1, <1>2, EndKeepsInv

LEMMA CloseKeepsInv ==
    ASSUME Inv, Close
    PROVE  Inv'
  <1> DEFINE s == [proto EXCEPT !.current = "DEINIT", !.recovery = 0]
             p == [s EXCEPT !.wtx = 0, !.rsp = FALSE]
  <1>1. s \in Protos
    BY DEF Inv, Typed, Protos
  <1> HIDE DEF s
  <1>2. p \in Protos
    BY <1>1 DEF Protos
  <1>3. /\ call = "none" /\ call' = "EndOfApdu" /\ step' = "send"
        /\ proto' = ToSend(p, "END_APDU") /\ status' = FALSE
        /\ UNCHANGED <<reply, session, se, wire, asked, executed, outcome>>
    BY DEF Close, Start, sessionVars, history, s
  <1> HIDE DEF p
  <1>4. step = "send" /\ reply' \in Seq(Block)
    BY <1>3 DEF Inv, HostInv, Typed
  <1>5. "EndOfApdu" \in Calls \ {"none", "Transceive"}
        /\ RequestOf["EndOfApdu"] = "END_APDU"
    BY DEF Calls, RequestOf
  <1> QED
    BY <1>2, <1>3, <1>4, <1>5, RequestKeepsInv

LEMMA EndOfApduReturnsKeepsInv ==
    ASSUME Inv, EndOfApduReturns
    PROVE  Inv'
  <1>1. /\ call = "EndOfApdu" /\ Ended /\ End /\ session' = "closed"
        /\ UNCHANGED <<se, wire, asked, executed, outcome>>
        /\ Cmd > 0 => outcome[Cmd] # "none"
        /\ outcome \in Seq({"none", "answered", "failed", "noreply"})
    BY DEF EndOfApduReturns, Running, Ended, history, Inv, SessionInv, Typed
  <1> QED
    BY <1>1, EndKeepsInv

LEMMA ChipResetKeepsInv ==
    ASSUME Inv, ChipReset
    PROVE  Inv'
  <1> DEFINE r == ResetProtoParams
             p == [r EXCEPT !.current = "TRANSCEIVE"]
  <1>1. r \in Protos
    BY ResetTyped
  <1> HIDE DEF r
  <1>2. p \in Protos
    BY <1>1 DEF Protos
  <1>3. /\ call = "none" /\ session = "failed" /\ call' = "ChipReset" /\ step' = "send"
        /\ proto' = ToSend(p, "CHIP_RESET") /\ status' = FALSE
        /\ UNCHANGED <<reply, session, se, wire, asked, executed, outcome>>
    BY DEF ChipReset, Start, Request, sessionVars, history, r
  <1> HIDE DEF p
  <1>4. step = "send" /\ reply' \in Seq(Block)
    BY <1>3 DEF Inv, HostInv, Typed
  <1>5. "ChipReset" \in Calls \ {"none", "Transceive"}
        /\ RequestOf["ChipReset"] = "CHIP_RESET"
    BY DEF Calls, RequestOf
  <1> QED
    BY <1>2, <1>3, <1>4, <1>5, RequestKeepsInv

LEMMA IntfResetKeepsInv ==
    ASSUME Inv, IntfReset
    PROVE  Inv'
  <1> DEFINE s == [proto EXCEPT !.rsp = TRUE]
             p == [s EXCEPT !.current = "TRANSCEIVE"]
  <1>1. s \in Protos
    BY DEF Inv, Typed, Protos
  <1> HIDE DEF s
  <1>2. p \in Protos
    BY <1>1 DEF Protos
  <1>3. /\ call = "none" /\ session = "failed" /\ call' = "IntfReset" /\ step' = "send"
        /\ proto' = ToSend(p, "INTF_RESET") /\ status' = FALSE /\ reply' = <<>>
        /\ UNCHANGED <<session, se, wire, asked, executed, outcome>>
    BY DEF IntfReset, Start, Request, sessionVars, history, s
  <1> HIDE DEF p
  <1>4. step = "send" /\ reply' \in Seq(Block)
    BY <1>3, EmptySeq DEF Inv, HostInv
  <1>5. "IntfReset" \in Calls \ {"none", "Transceive"}
        /\ RequestOf["IntfReset"] = "INTF_RESET"
    BY DEF Calls, RequestOf
  <1> QED
    BY <1>2, <1>3, <1>4, <1>5, RequestKeepsInv

LEMMA ResetReturnsKeepsInv ==
    ASSUME Inv, ResetReturns
    PROVE  Inv'
  <1>1. /\ call \in {"ChipReset", "IntfReset"} /\ Ended /\ End /\ session = "failed"
        /\ UNCHANGED <<session, se, wire, asked, executed, outcome>>
        /\ Cmd > 0 => outcome[Cmd] # "none"
        /\ outcome \in Seq({"none", "answered", "failed", "noreply"})
    BY DEF ResetReturns, Running, Ended, sessionVars, history, Inv, SessionInv, Typed
  <1> QED
    BY <1>1, EndKeepsInv

\* The context is gone, or blocks are to be smaller; no call runs.
LEMMA ComResetKeepsInv ==
    ASSUME Inv, ComReset
    PROVE  Inv'
  <1> USE DEF Inv
  <1>1. /\ call = "none" /\ session' = "closed"
        /\ UNCHANGED <<proto, reply, call, step, status, se, wire, asked, executed, outcome>>
    BY DEF ComReset, hostVars, history
  <1>2. Typed' /\ HostInv' /\ TransceiveInv'
    BY <1>1 DEF Typed, HostInv, TransceiveInv
  <1>3. ElementInv' /\ WireInv' /\ ExecutedInv' /\ SessionInv'
    BY <1>1 DEF ElementInv, AfterReset, WireInv, ExecutedInv, SessionInv, Cmd, Executed
  <1> QED
    BY <1>2, <1>3

LEMMA SetIfscKeepsInv ==
    ASSUME Inv, NEW n \in IfscSizes, SetIfsc(n)
    PROVE  Inv'
  <1> USE DEF Inv
  <1>1. /\ call = "none" /\ proto' = [proto EXCEPT !.next.max = n]
        /\ UNCHANGED <<reply, call, step, status, session, se, wire, asked, executed, outcome>>
    BY DEF SetIfsc, sessionVars, history
  <1>2. proto.state = "IDLE" /\ step = "send" /\ wire = Nothing /\ n \in 1..MaxInf
    BY <1>1, T1Assumption DEF HostInv, WireInv
  <1>3. /\ proto' \in Protos /\ proto'.state = "IDLE" /\ proto'.rcvdSeq = proto.rcvdSeq
    <2> DEFINE c == [proto.next EXCEPT !.max = n]
    <2>1. c \in Contexts /\ proto \in Protos
      BY <1>2 DEF Typed, Protos, Contexts
    <2>2. proto' = [proto EXCEPT !.next = c]
      BY <1>1
    <2> HIDE DEF c
    <2> QED
      BY <1>2, <2>1, <2>2 DEF Protos
  <1>4. Typed' /\ HostInv' /\ TransceiveInv'
    BY <1>1, <1>2, <1>3 DEF Typed, HostInv, TransceiveInv, Matching, SKinds
  <1>5. ElementInv' /\ WireInv' /\ ExecutedInv' /\ SessionInv'
    BY <1>1, <1>2, <1>3
       DEF ElementInv, AfterReset, WireInv, ExecutedInv, SessionInv, InStep, Nothing, Cmd
  <1> QED
    BY <1>4, <1>5

-----------------------------------------------------------------------------
\* A command

Handed(p, c, len) ==
    [p EXCEPT !.current = "TRANSCEIVE", !.next.data = c, !.next.total = len, !.rsp = TRUE]

\* The first block of a command is due.
FirstDue(p, c, len, q) ==
    /\ q \in Protos /\ q.state = "IFRAME" /\ Matching(q) /\ q.rsp
    /\ q.rcvdSeq = p.rcvdSeq
    /\ q.next.data = c /\ q.next.offset = 0 /\ q.next.send > 0
    /\ q.next.chained =>
          /\ q.next.send = q.next.max /\ q.next.total > 0
          /\ q.next.offset + q.next.send + q.next.total = len
    /\ ~q.next.chained => q.next.offset + q.next.send = len

LEMMA FirstIframe ==
    ASSUME NEW p \in Protos, NEW c \in Nat, NEW len \in Nat, len > 0
    PROVE  FirstDue(p, c, len, SetFirstIframeContxt(Handed(p, c, len)))
  <1> DEFINE n == [p.next EXCEPT !.data = c, !.total = len]
             r == [p EXCEPT !.current = "TRANSCEIVE", !.next = n]
             s == Handed(p, c, len)
             x == Flip(p.last.seq)
             first == [n EXCEPT !.type = "IFRAME", !.offset = 0, !.seq = x]
             d == Portion(first, len)
             q == SetFirstIframeContxt(s)
  <1>1. n \in Contexts /\ n.total = len /\ n.data = c /\ x \in Bit
    BY FlipFacts DEF Protos, Contexts
  <1>2. s = [r EXCEPT !.rsp = TRUE]
    BY DEF Protos, Contexts, Handed
  <1> HIDE DEF n, x, s
  <1>3. r \in Protos /\ r.next = n /\ r.last = p.last /\ r.rcvdSeq = p.rcvdSeq
    BY <1>1 DEF Protos
  <1> HIDE DEF r
  <1>3a. s \in Protos /\ s.next = n /\ s.last = p.last /\ s.rcvdSeq = p.rcvdSeq /\ s.rsp
    BY <1>2, <1>3 DEF Protos
  <1>4. q = [s EXCEPT !.state = "IFRAME", !.next = d]
    <2>1. q = [s EXCEPT !.state = "IFRAME", !.next = Portion(
                  [s.next EXCEPT !.type = "IFRAME", !.offset = 0, !.seq = Flip(s.last.seq)],
                  [s.next EXCEPT !.type = "IFRAME", !.offset = 0,
                                 !.seq = Flip(s.last.seq)].total)]
      BY DEF SetFirstIframeContxt
    <2>2. s.next = n /\ Flip(s.last.seq) = x
      BY <1>3a DEF x
    <2>3. first.total = len
      BY <1>1 DEF Contexts
    <2> QED
      BY <2>1, <2>2, <2>3
  <1> HIDE DEF q
  <1>5. /\ first \in Contexts /\ first.type = "IFRAME" /\ first.offset = 0
        /\ first.seq = x /\ first.data = c
    BY <1>1 DEF Contexts
  <1> HIDE DEF first
  <1>6. /\ d \in Contexts /\ d.seq = x /\ d.offset = 0 /\ d.data = c
        /\ d.type = "IFRAME" /\ d.max = first.max
        /\ (d.chained <=> len > first.max)
        /\ d.chained => d.send = first.max /\ d.total = len - first.max
        /\ ~d.chained => d.send = len
    BY <1>5, PortionFacts
  <1> HIDE DEF d
  <1>7. /\ q \in Protos /\ q.state = "IFRAME" /\ q.next = d /\ q.rcvdSeq = p.rcvdSeq
        /\ q.last = p.last /\ q.rsp
    BY <1>3a, <1>4, <1>6 DEF Protos
  <1>8. Matching(q)
    BY <1>6, <1>7 DEF Matching, TypeOfState, SKinds
  <1>9. d.max \in Nat /\ d.max > 0 /\ d.send \in Nat /\ d.total \in Nat
    BY <1>6, T1Assumption DEF Contexts
  <1>10. /\ d.send > 0
         /\ d.chained => d.send = d.max /\ d.total > 0 /\ 0 + d.send + d.total = len
         /\ ~d.chained => 0 + d.send = len
    BY <1>6, <1>9
  <1> QED
    BY <1>6, <1>7, <1>8, <1>10 DEF q, s, FirstDue

LEMMA TransceiveKeepsInv ==
    ASSUME Inv, NEW len \in CmdLens, Transceive(len)
    PROVE  Inv'
  <1> USE DEF Inv
  <1> DEFINE c == Cmd + 1
  <1>1. /\ call = "none" /\ session = "open" /\ UNCHANGED <<session, se, wire, executed>>
        /\ call' = "Transceive" /\ step' = "send" /\ status' = FALSE /\ reply' = <<>>
        /\ asked' = Append(asked, len) /\ outcome' = Append(outcome, "none")
        /\ proto' = SetFirstIframeContxt(Handed(proto, c, len))
    BY DEF Transceive, Start, Handed
  <1>2. /\ len \in Nat /\ len > 0 /\ Cmd \in Nat /\ c \in Nat /\ proto \in Protos
        /\ Len(asked) = Cmd
    BY T1Assumption DEF Typed, Cmd
  <1>3. /\ proto' \in Protos /\ proto'.state = "IFRAME" /\ Matching(proto') /\ proto'.rsp
        /\ proto'.rcvdSeq = proto.rcvdSeq
        /\ proto'.next.data = c /\ proto'.next.offset = 0 /\ proto'.next.send > 0
        /\ proto'.next.chained =>
              /\ proto'.next.send = proto'.next.max /\ proto'.next.total > 0
              /\ proto'.next.offset + proto'.next.send + proto'.next.total = len
        /\ ~proto'.next.chained => proto'.next.offset + proto'.next.send = len
    <2> HIDE DEF c
    <2>1. FirstDue(proto, c, len, proto')
      BY <1>1, <1>2, FirstIframe
    <2> QED
      BY <2>1 DEF FirstDue
  <1>4. step = "send" /\ wire = Nothing /\ InStep
    BY <1>1 DEF HostInv, WireInv, SessionInv
  <1>5. /\ asked' \in Seq(CmdLens) /\ Len(asked') = c /\ asked'[c] = len
        /\ \A i \in 1..Cmd : asked'[i] = asked[i]
    <2>1. asked \in Seq(CmdLens)
      BY DEF Typed
    <2> QED
      BY <1>1, <1>2, <2>1
  <1>6. /\ outcome' \in Seq({"none", "answered", "failed", "noreply"})
        /\ Cmd' = c /\ outcome'[c] = "none"
    <2>1. outcome \in Seq({"none", "answered", "failed", "noreply"})
      BY DEF Typed
    <2> QED
      BY <1>1, <2>1 DEF Cmd
  <1>7. Typed'
    <2>1. reply' \in Seq(Block) /\ Len(asked') = Len(outcome')
      BY <1>1, <1>5, <1>6, EmptySeq DEF Cmd
    <2> QED
      BY <1>1, <1>3, <1>5, <1>6, <2>1 DEF Typed, Calls
  <1>8. HostInv'
    BY <1>1, <1>3 DEF HostInv, SKinds
  <1>9. ElementInv' /\ WireInv'
    BY <1>1, <1>4 DEF ElementInv, AfterReset, WireInv, Nothing
  <1>10. ExecutedInv'
    <2>1. ASSUME NEW i \in DOMAIN executed
          PROVE  /\ executed[i][1][1] \in 1..c
                 /\ executed[i] = Prefix(executed[i][1][1], asked'[executed[i][1][1]])
      <3>1. /\ executed[i][1][1] \in 1..Cmd
            /\ executed[i] = Prefix(executed[i][1][1], asked[executed[i][1][1]])
        BY DEF ExecutedInv
      <3> QED
        BY <1>2, <1>5, <3>1
    <2> QED
      BY <1>1, <1>6, <2>1 DEF ExecutedInv
  <1>11. NotExecuted'
    <2>1. ~Executed(Cmd)'
      <3>1. \A i \in DOMAIN executed : executed[i][1][1] \in 1..Cmd
        BY DEF ExecutedInv
      <3> QED
        BY <1>1, <1>2, <1>6, <3>1 DEF Executed
    <2>2. BlockInv'
      BY <1>3, <1>5, <1>6 DEF BlockInv
    <2>3. se.input = Prefix(c, 0)
      BY <1>2, <1>4, PrefixFacts DEF InStep
    <2> QED
      BY <1>1, <1>3, <1>4, <1>6, <2>1, <2>2, <2>3 DEF NotExecuted, InStep
  <1>12. Cmd' > 0 /\ outcome'[Cmd'] = "none" /\ ~Ended'
    BY <1>2, <1>3, <1>6 DEF Ended
  <1>13. TransceiveInv'
    BY <1>1, <1>11, <1>12 DEF TransceiveInv
  <1>14. SessionInv'
    BY <1>1 DEF SessionInv
  <1> QED
    BY <1>7, <1>8, <1>9, <1>10, <1>13, <1>14

\* A whole reply is the element's reply to this command, and all of it was taken.
LEMMA WholeReplyInStep ==
    ASSUME Inv, call = "Transceive", Ended, WholeReply(Cmd, reply)
    PROVE  InStep /\ Executed(Cmd) /\ se.expect = Flip(proto.last.seq)
  <1>1. /\ Cmd \in Nat /\ Cmd > 0 /\ reply \in Seq(Block) /\ reply # <<>>
        /\ NotExecuted \/ Replying \/ BeingReset \/ HasATR
    BY DEF Inv, TransceiveInv, Typed, Cmd, WholeReply
  <1>2. ~NotExecuted
    BY <1>1 DEF NotExecuted
  <1>3. ~HasATR
    <2> DEFINE n == Len(reply)
    <2>1. n \in Nat /\ n > 0 /\ reply = [i \in 1..n |-> <<Cmd, i, n>>]
      BY <1>1, EmptySeq DEF WholeReply
    <2>2. reply[n] = <<Cmd, n, n>>
      <3> HIDE DEF n
      <3> QED
        BY <2>1
    <2>3. <<Cmd, n, n>> # ATR
      BY <1>1 DEF ATR
    <2> QED
      BY <2>2, <2>3 DEF HasATR, Last
  <1>4. ASSUME NEW n \in ReplyBlocks, NEW m \in 0..n, reply = ReplyPart(Cmd, 0, m, n)
        PROVE  m = n
    <2>1. n \in Nat
      BY T1Assumption
    <2> QED
      BY <1>1, <1>4, <2>1, WholeIsAll
  <1>5. ~BeingReset
    <2>1. ASSUME NEW n \in ReplyBlocks, NEW m \in 0..n - 1
          PROVE  reply # ReplyPart(Cmd, 0, m, n)
      <3>1. n \in Nat /\ m \in 0..n /\ m # n
        BY T1Assumption
      <3> QED
        BY <1>4, <3>1
    <2> QED
      BY <1>1, <2>1 DEF BeingReset, Partial
  <1>6. PICK n \in ReplyBlocks : \E m \in 0..n : Received(m, n) \/ Missed(m, n)
    BY <1>1, <1>2, <1>3, <1>5 DEF Replying
  <1>7. PICK m \in 0..n : Received(m, n) \/ Missed(m, n)
    BY <1>6
  <1>8. n \in Nat /\ m \in Nat
    BY T1Assumption
  <1>9. ~Missed(m, n)
    <2>1. Missed(m, n) => m - 1 \in 0..n /\ m - 1 # n
      BY <1>8 DEF Missed
    <2> QED
      BY <1>4, <2>1 DEF Missed
  <1>10. Received(m, n) /\ m = n
    BY <1>4, <1>7, <1>9 DEF Received
  <1>11. se.todo = <<>>
    BY <1>1, <1>8, <1>10, RestEmpty DEF Received, Sent
  <1> QED
    BY <1>10, <1>11 DEF Received, Sent, InStep

LEMMA TransceiveReturnsKeepsInv ==
    ASSUME Inv, TransceiveReturns
    PROVE  Inv'
  <1> DEFINE told == IF ~status THEN "failed"
                     ELSE IF WholeReply(Cmd, reply) THEN "answered" ELSE "noreply"
  <1>1. /\ call = "Transceive" /\ Ended /\ End /\ UNCHANGED <<se, wire, asked, executed>>
        /\ outcome' = [outcome EXCEPT ![Cmd] = told]
        /\ session' = IF outcome'[Cmd] = "answered" THEN "open" ELSE "failed"
    BY DEF TransceiveReturns, Running, Ended
  <1>2. told \in {"answered", "failed", "noreply"}
    OBVIOUS
  <1>3. told = "answered" => WholeReply(Cmd, reply)
    OBVIOUS
  <1> HIDE DEF told
  <1>4. outcome \in Seq({"none", "answered", "failed", "noreply"}) /\ Cmd > 0
        /\ Cmd = Len(outcome)
    BY <1>1 DEF Inv, Typed, TransceiveInv, Cmd
  <1>5. /\ outcome' \in Seq({"none", "answered", "failed", "noreply"})
        /\ Len(outcome') = Len(outcome) /\ outcome'[Cmd] = told
    BY <1>1, <1>2, <1>4
  <1>6. session' = "open" => InStep
    BY <1>1, <1>3, <1>5, WholeReplyInStep
  <1>7. outcome'[Cmd] # "none" /\ session' \in {"closed", "open", "failed"}
    BY <1>1, <1>2, <1>5
  <1> QED
    BY <1>1, <1>5, <1>6, <1>7, EndKeepsInv

LEMMA InitInv ==
    T1Init => Inv
  <1> SUFFICES ASSUME T1Init PROVE Inv
    OBVIOUS
  <1>1. se = ResetElement /\ se \in Elements /\ se.last = Nothing /\ se.todo = <<>>
        /\ se.input = <<>>
    <2> DEFINE none == <<>>
    <2>1. none \in Seq(Byte) /\ none \in Seq(Block) /\ Nothing \in Blocks
      BY DEF Blocks
    <2>2. se = [expect |-> 0, seq |-> 1, input |-> none, todo |-> none,
                last |-> Nothing, wtx |-> 0]
      BY DEF T1Init, ResetElement
    <2> HIDE DEF none
    <2>3. se \in Elements /\ se.last = Nothing /\ se.todo = none /\ se.input = none
      BY <2>1, <2>2 DEF Elements, Bit
    <2> QED
      BY <2>3 DEF T1Init, none
  <1>2. Typed
    BY <1>1, ResetTyped, EmptySeq DEF T1Init, Typed, Calls, Blocks
  <1>3. proto.state = "IDLE"
    BY ResetTyped DEF T1Init
  <1>4. HostInv
    BY <1>3 DEF T1Init, HostInv, Matching, SKinds
  <1>5. ElementInv
    BY <1>1 DEF ElementInv, Nothing, Answer, WtxBlock
  <1>6. WireInv /\ ExecutedInv /\ TransceiveInv /\ SessionInv
    BY DEF T1Init, WireInv, ExecutedInv, TransceiveInv, SessionInv, Nothing, Cmd
  <1> QED
    BY <1>2, <1>4, <1>5, <1>6 DEF Inv

LEMMA StepKeepsInv ==
    ASSUME T1Inv, [T1Next]_vars
    PROVE  T1Inv'
  <1>1. CASE misled
    <2>1. misled'
      BY <1>1 DEF T1Next, Send, Receive, ReceiveFrame, ReceiveGarbled, ReceiveNothing,
                  Return, RSyncReturns, GetAtrReturns, TransceiveReturns,
                  EndOfApduReturns, ResetReturns, Open, Close, ChipReset, IntfReset,
                  ComReset, Transceive, SetIfsc, history, vars
    <2> QED
      BY <2>1 DEF T1Inv
  <1>2. CASE Inv
    <2>1. CASE Send
      BY <1>2, <2>1, SendKeepsInv DEF T1Inv
    <2>2. CASE Receive
      BY <1>2, <2>2, ReceiveKeepsInv DEF T1Inv
    <2>3. CASE Return
      BY <1>2, <2>3, RSyncReturnsKeepsInv, GetAtrReturnsKeepsInv,
         TransceiveReturnsKeepsInv, EndOfApduReturnsKeepsInv, ResetReturnsKeepsInv
         DEF Return, T1Inv
    <2>4. CASE Open \/ Close \/ ChipReset \/ IntfReset \/ ComReset
      BY <1>2, <2>4, OpenKeepsInv, CloseKeepsInv, ChipResetKeepsInv, IntfResetKeepsInv,
         ComResetKeepsInv DEF T1Inv
    <2>5. ASSUME NEW len \in CmdLens, Transceive(len) PROVE T1Inv'
      BY <1>2, <2>5, TransceiveKeepsInv DEF T1Inv
    <2>6. ASSUME NEW n \in IfscSizes, SetIfsc(n) PROVE T1Inv'
      BY <1>2, <2>6, SetIfscKeepsInv DEF T1Inv
    <2>7. CASE UNCHANGED vars
      <3> USE <2>7 DEF vars, hostVars, sessionVars, history
      <3>1. Typed' /\ HostInv' /\ ElementInv'
        BY <1>2 DEF Inv, Typed, HostInv, ElementInv, AfterReset
      <3>2. Cmd' = Cmd /\ InStep' = InStep /\ Ended' = Ended /\ HasATR' = HasATR
            /\ \A c : Executed(c)' = Executed(c)
        BY DEF Cmd, InStep, Ended, HasATR, Executed
      <3>3. WireInv' /\ ExecutedInv' /\ SessionInv'
        BY <1>2, <3>2 DEF Inv, WireInv, ExecutedInv, SessionInv
      <3>4. (NotExecuted' <=> NotExecuted) /\ (BeingReset' <=> BeingReset)
        BY <3>2 DEF NotExecuted, BlockInv, BeingReset, Partial
      <3>5. Replying' <=> Replying
        BY <3>2 DEF Replying, Received, Missed, Sent
      <3>6. TransceiveInv'
        BY <1>2, <3>2, <3>4, <3>5 DEF Inv, TransceiveInv
      <3> QED
        BY <3>1, <3>3, <3>6 DEF T1Inv, Inv
    <2> QED
      BY <2>1, <2>2, <2>3, <2>4, <2>5, <2>6, <2>7 DEF T1Next
  <1> QED
    BY <1>1, <1>2 DEF T1Inv

\* The inductive invariant: the two ends, the block on the wire, the command the
\* element has and the part of the reply the host has fit together, unless an
\* exchange has ended as a success that it was not.
THEOREM T1Invariant == T1Spec => []T1Inv
  <1>1. T1Init => T1Inv
    BY InitInv DEF T1Inv
  <1>2. T1Inv /\ [T1Next]_vars => T1Inv'
    BY StepKeepsInv
  <1> QED
    BY <1>1, <1>2, PTL DEF T1Spec

LEMMA InvCommandsWhole ==
    T1Inv => CommandsWhole
  BY DEF T1Inv, Inv, ExecutedInv, CommandsWhole, Prefix

\* Every command is executed with exactly the bytes it was given, and once, however
\* many blocks are lost, repeated or refused and whatever the retry limits are
\* (SetNextIframeContxt, ProcessResponse and the resends of DecodeFrame).
THEOREM T1CommandsWhole == T1Spec => []CommandsWhole
  BY T1Invariant, InvCommandsWhole, PTL

\* A successful call hands out the whole reply, nothing, or an ATR at the end.
THEOREM T1NoTruncatedReply == T1Spec => NoTruncatedReply
  <1>1. T1Inv /\ [T1Next]_vars =>
            [TransceiveReturns /\ outcome'[Cmd] = "noreply"
                => misled \/ reply = <<>> \/ Last(reply) = ATR]_vars
    <2> SUFFICES ASSUME Inv, TransceiveReturns, outcome'[Cmd] = "noreply"
                 PROVE  reply = <<>> \/ Last(reply) = ATR
      BY DEF T1Inv
    <2>1. /\ call = "Transceive" /\ Ended /\ Cmd > 0 /\ Cmd = Len(outcome)
          /\ outcome \in Seq({"none", "answered", "failed", "noreply"})
          /\ Ended /\ status => HasATR \/ WholeReply(Cmd, reply)
      BY DEF TransceiveReturns, Running, Ended, Inv, Typed, TransceiveInv, Cmd
    <2>2. status /\ ~WholeReply(Cmd, reply)
      BY <2>1 DEF TransceiveReturns
    <2> QED
      BY <2>1, <2>2 DEF HasATR
  <1> QED
    BY <1>1, T1Invariant, PTL DEF T1Spec, NoTruncatedReply

\* After an answered command both ends agree on both sequence numbers.
THEOREM T1StaysInStep == T1Spec => StaysInStep
  <1>1. T1Inv /\ [T1Next]_vars =>
            [TransceiveReturns /\ outcome'[Cmd] = "answered" /\ ~misled
                => se.expect = Flip(proto.last.seq) /\ se.seq = proto.rcvdSeq]_vars
    <2> SUFFICES ASSUME Inv, TransceiveReturns, outcome'[Cmd] = "answered"
                 PROVE  se.expect = Flip(proto.last.seq) /\ se.seq = proto.rcvdSeq
      BY DEF T1Inv
    <2>1. /\ call = "Transceive" /\ Ended /\ Cmd > 0 /\ Cmd = Len(outcome)
          /\ outcome \in Seq({"none", "answered", "failed", "noreply"})
      BY DEF TransceiveReturns, Running, Ended, Inv, Typed, TransceiveInv, Cmd
    <2>2. WholeReply(Cmd, reply)
      BY <2>1 DEF TransceiveReturns
    <2> QED
      BY <2>1, <2>2, WholeReplyInStep DEF InStep
  <1> QED
    BY <1>1, T1Invariant, PTL DEF T1Spec, StaysInStep

-----------------------------------------------------------------------------
\* The link that the keystore relies on

done == [i \in DOMAIN executed |-> executed[i][1][1]]

LEMMA DoneFacts ==
    ASSUME Inv
    PROVE  /\ done \in Seq(Nat) /\ Len(done) = Len(executed)
           /\ \A c : Contains(done, c) <=> Executed(c)
  <1>1. executed \in Seq(Seq(Byte)) /\ Cmd \in Nat
    BY DEF Inv, Typed, Cmd
  <1>2. \A i \in DOMAIN executed : executed[i][1][1] \in Nat
    BY <1>1 DEF Inv, ExecutedInv
  <1>3. done \in [1..Len(executed) -> Nat] /\ Len(executed) \in Nat
    BY <1>1, <1>2 DEF done
  <1>4. done \in Seq(Nat) /\ Len(done) = Len(executed)
    BY <1>3
  <1>5. \A i \in 1..Len(executed) : done[i] = executed[i][1][1]
    BY <1>1 DEF done
  <1>6. ASSUME NEW c PROVE Contains(done, c) <=> Executed(c)
    <2>1. Contains(done, c) <=> \E i \in 1..Len(executed) : done[i] = c
      BY <1>4 DEF Contains
    <2>2. Executed(c) <=> \E i \in 1..Len(executed) : executed[i][1][1] = c
      BY <1>1 DEF Executed
    <2> QED
      BY <1>5, <2>1, <2>2
  <1> QED
    BY <1>4, <1>6

\* Only a block that completes the command under way makes the element execute it.
LEMMA SendExecutes ==
    ASSUME Inv, Send, executed' # executed
    PROVE  /\ call = "Transceive" /\ Cmd \in Nat /\ Cmd > 0 /\ outcome[Cmd] = "none"
           /\ ~Executed(Cmd)
           /\ \E x \in Seq(Byte) : x[1][1] = Cmd /\ executed' = Append(executed, x)
  <1> DEFINE f == SentFrame(proto)
             x == se.input \o Payload(proto.next)
  <1>1. /\ SendFrame /\ Delivered(f) /\ Completes(se, f)
        /\ executed' = Append(executed, se.input \o f.data)
    BY DEF Send, SendFails, SendFrame, Delivered
  <1>2. proto.state \in {"IFRAME", "R_ACK", "R_NACK"} \union SKinds
        /\ step = "send"
    BY DEF Inv, Typed, Protos, Send
  <1>3. proto.state = "IFRAME"
    BY <1>1, <1>2 DEF SentFrame, Completes, SKinds
  <1>4. /\ f.data = Payload(proto.next) /\ f.seq = proto.next.seq
        /\ f.more = proto.next.chained
    BY <1>3 DEF SentFrame, SKinds
  <1> HIDE DEF f
  <1>5. proto.next.seq = se.expect /\ ~proto.next.chained
    BY <1>1, <1>4 DEF Completes
  <1>6. call = "Transceive"
    BY <1>3 DEF Inv, HostInv
  <1>7. /\ Cmd \in Nat /\ Cmd > 0 /\ outcome[Cmd] = "none" /\ NotExecuted
        /\ x = Prefix(Cmd, proto.next.offset + proto.next.send)
        /\ proto.next.offset + proto.next.send = asked[Cmd]
        /\ asked[Cmd] \in Nat /\ asked[Cmd] > 0
    BY <1>2, <1>3, <1>5, <1>6, BlockContinues
  <1>8. x \in Seq(Byte) /\ x[1][1] = Cmd /\ executed' = Append(executed, x)
    BY <1>1, <1>4, <1>7, PrefixFacts
  <1> HIDE DEF x
  <1> QED
    BY <1>6, <1>7, <1>8 DEF NotExecuted

LEMMA ExecutedIsLinkStep ==
    ASSUME Inv, Send, ~misled, executed' # executed
    PROVE  Link!LinkNext
  <1>1. PICK x \in Seq(Byte) : x[1][1] = Cmd /\ executed' = Append(executed, x)
    BY SendExecutes
  <1>2. /\ Cmd \in Nat /\ Cmd > 0 /\ outcome[Cmd] = "none" /\ ~Executed(Cmd)
        /\ outcome' = outcome /\ misled' = misled
    BY SendExecutes DEF Send
  <1>3. executed \in Seq(Seq(Byte)) /\ Len(executed) \in Nat
    BY DEF Inv, Typed
  <1>4. done \in Seq(Nat) /\ Len(done) = Len(executed) /\ ~Contains(done, Cmd)
    BY <1>2, DoneFacts
  <1>5. done' = Append(done, Cmd)
    <2> DEFINE n == Len(executed)
               s == Append(done, Cmd)
    <2>1. /\ DOMAIN executed' = 1..n + 1 /\ executed'[n + 1] = x
          /\ \A i \in 1..n : executed'[i] = executed[i]
      BY <1>1, <1>3
    <2>2. /\ DOMAIN s = 1..n + 1 /\ s[n + 1] = Cmd /\ s \in Seq(Nat)
          /\ \A i \in 1..n : s[i] = done[i]
      BY <1>2, <1>3, <1>4
    <2>3. \A i \in 1..n : done[i] = executed[i][1][1]
      BY <1>3 DEF done
    <2>4. done' = [i \in 1..n + 1 |-> executed'[i][1][1]]
      BY <2>1 DEF done
    <2> HIDE DEF s
    <2>5. ASSUME NEW i \in 1..n + 1 PROVE s[i] = executed'[i][1][1]
      <3>1. i \in 1..n \/ i = n + 1
        BY <1>3
      <3> QED
        BY <1>1, <2>1, <2>2, <2>3, <3>1
    <2>6. s = [i \in 1..n + 1 |-> s[i]]
      BY <2>2
    <2> QED
      BY <2>4, <2>5, <2>6 DEF s
  <1>6. Link!Waiting
    BY <1>2 DEF Link!Waiting, Link!Last, Cmd
  <1>7. Link!Execute
    BY <1>2, <1>4, <1>5, <1>6 DEF Link!Execute, Link!Contains, Contains, done, Cmd
  <1> QED
    BY <1>2, <1>7 DEF Link!LinkNext

LEMMA TransceiveIsLinkStep ==
    ASSUME Inv, ~misled, NEW len \in CmdLens, Transceive(len)
    PROVE  Link!LinkNext
  <1>1. /\ outcome' = Append(outcome, "none") /\ executed' = executed /\ misled' = misled
        /\ Cmd > 0 => outcome[Cmd] # "none"
    BY DEF Transceive, Inv, SessionInv
  <1>2. Link!Submit
    BY <1>1 DEF Link!Submit, Link!Waiting, Link!Last, Cmd
  <1> QED
    BY <1>1, <1>2 DEF Link!LinkNext

LEMMA ReturnIsLinkStep ==
    ASSUME Inv, ~misled, TransceiveReturns
    PROVE  Link!LinkNext
  <1> DEFINE told == IF ~status THEN "failed"
                     ELSE IF WholeReply(Cmd, reply) THEN "answered" ELSE "noreply"
  <1>1. /\ call = "Transceive" /\ Ended /\ outcome' = [outcome EXCEPT ![Cmd] = told]
        /\ executed' = executed /\ misled' = misled
    BY DEF TransceiveReturns, Running, Ended
  <1>2. told \in Link!Verdicts
    BY DEF Link!Verdicts
  <1>3. told = "answered" => Contains(done, Cmd)
    <2>1. told = "answered" => WholeReply(Cmd, reply)
      OBVIOUS
    <2> HIDE DEF told
    <2> QED
      BY <1>1, <2>1, WholeReplyInStep, DoneFacts
  <1>4. Cmd > 0 /\ outcome[Cmd] = "none"
    BY <1>1 DEF Inv, TransceiveInv
  <1> HIDE DEF told
  <1>5. Link!Waiting
    BY <1>4 DEF Link!Waiting, Link!Last, Cmd
  <1>6. Link!Report
    BY <1>1, <1>2, <1>3, <1>5 DEF Link!Report, Link!Contains, Contains, done, Cmd
  <1> QED
    BY <1>1, <1>6 DEF Link!LinkNext

\* Every step of the transport is a step of the link or leaves it alone.
LEMMA StepIsLinkStep ==
    ASSUME T1Inv, [T1Next]_vars
    PROVE  [Link!LinkNext]_(Link!linkVars)
  <1>1. CASE misled'
    BY <1>1 DEF Link!LinkNext
  <1>2. CASE ~misled'
    <2>1. ~misled /\ Inv
      <3>1. misled => misled'
        BY DEF T1Next, Send, Receive, ReceiveFrame, ReceiveGarbled, ReceiveNothing,
               Return, RSyncReturns, GetAtrReturns, TransceiveReturns,
               EndOfApduReturns, ResetReturns, Open, Close, ChipReset, IntfReset,
               ComReset, Transceive, SetIfsc, history, vars
      <3> QED
        BY <1>2, <3>1 DEF T1Inv
    <2>2. CASE UNCHANGED <<executed, outcome>>
      BY <1>2, <2>1, <2>2 DEF Link!linkVars
    <2>3. CASE Send /\ executed' # executed
      BY <2>1, <2>3, ExecutedIsLinkStep
    <2>4. CASE TransceiveReturns
      BY <2>1, <2>4, ReturnIsLinkStep
    <2>5. CASE \E len \in CmdLens : Transceive(len)
      BY <2>1, <2>5, TransceiveIsLinkStep
    <2>6. \/ UNCHANGED <<executed, outcome>> \/ (Send /\ executed' # executed)
          \/ TransceiveReturns \/ \E len \in CmdLens : Transceive(len)
      BY DEF T1Next, Send, Receive, Return, RSyncReturns, GetAtrReturns,
             EndOfApduReturns, ResetReturns, Open, Close, ChipReset, IntfReset,
             ComReset, SetIfsc, history, vars
    <2> QED
      BY <2>2, <2>3, <2>4, <2>5, <2>6
  <1> QED
    BY <1>1, <1>2

\* The transport implements the link: commands one at a time, each executed at most
\* once and only while its caller waits, and reported as answered only if executed.
THEOREM T1ImplementsLink == T1Spec => ImplementsLink
  <1>1. T1Init => Link!LinkInit
    <2> SUFFICES ASSUME T1Init PROVE Link!LinkInit
      OBVIOUS
    <2>1. [i \in DOMAIN executed |-> executed[i][1][1]] = <<>>
      BY DEF T1Init
    <2> QED
      BY <2>1 DEF T1Init, Link!LinkInit
  <1>2. T1Inv /\ [T1Next]_vars => [Link!LinkNext]_(Link!linkVars)
    BY StepIsLinkStep
  <1> QED
    BY <1>1, <1>2, T1Invariant, PTL DEF T1Spec, ImplementsLink, Link!LinkSpec
=============================================================================
