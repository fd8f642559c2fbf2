----------------------------- MODULE T1Protocol -----------------------------
(***************************************************************************)
(* The T=1 block protocol to the secure element over I2C                   *)
(* (phNxpEseProto7816_3.c), the calls on top of it (phNxpEse_Api.c,        *)
(* smComT1oI2C.c) and the sessions in which the keystore uses them, with a *)
(* bus that loses and garbles blocks and the element as its standard       *)
(* describes it.  A block's data are positions <<command, byte>> and       *)
(* <<command, block>>; lengths are in bytes, MaxInf of which fit a block.  *)
(***************************************************************************)
EXTENDS Naturals, Sequences, SequencesExt

CONSTANTS MaxInf,           \* IFSC_SIZE_SEND: data bytes in one I-block
          FrameRetry,       \* PH_PROTO_7816_FRAME_RETRY_COUNT
          TimeoutRetry,     \* PH_PROTO_7816_TIMEOUT_RETRY_COUNT
          RnackLimit,       \* MAX_RNACK_RETRY_LIMIT
          WtxLimit,         \* PH_PROTO_WTX_DEFAULT_COUNT
          CmdLens,          \* lengths of the commands that are sent
          IfscSizes,        \* block sizes that are set
          ReplyBlocks,      \* numbers of blocks a reply may have
          MaxFaults,        \* bound: bus faults during a call
          MaxWtx,           \* bound: extensions the element asks for
          MaxSessions,      \* bound: sessions
          MaxCommands       \* bound: commands in all

ASSUME T1Assumption ==
    /\ MaxInf \in Nat \ {0} /\ RnackLimit \in Nat /\ TimeoutRetry \in Nat
    /\ FrameRetry \in Nat /\ WtxLimit \in Nat \ {0} /\ MaxWtx \in Nat /\ MaxFaults \in Nat
    /\ CmdLens \subseteq Nat \ {0} /\ ReplyBlocks \subseteq Nat \ {0}
    /\ IfscSizes \subseteq 1..MaxInf
    /\ MaxSessions \in Nat /\ MaxCommands \in Nat

VARIABLES proto,        \* phNxpEseProto7816_3_Var
          reply,        \* pRsp->p_data, as far as pRsp->len
          call,         \* the procedure that runs, or "none"
          step,         \* inside TransceiveProcess: "send" or "receive"
          status,       \* the status variable of TransceiveProcess
          lib,          \* EseLibStatus of the connection context
          session,      \* of the keystore: "closed", "open" or "failed"
          sessions,     \* sessions begun
          se,           \* the element
          wire,         \* the block the element sends, or Nothing
          faults,       \* of the bus during the call
          asked,        \* history: the lengths of the commands handed over
          executed,     \* history: the data the element has executed
          outcome,      \* history: what each command's caller was told
          misled        \* history: an exchange ended as a success it was not

hostVars == <<proto, reply, call, step, status>>
sessionVars == <<lib, session, sessions>>
history == <<asked, executed, outcome, misled>>
vars == <<hostVars, sessionVars, se, wire, faults, history>>

Flip(seq) == 1 - seq

Nothing == [type |-> "none"]

\* What an interface hands out at a reset, apart from every reply.
ATR == <<0, 1, 1>>

\* The command whose caller is or was last served.
Cmd == Len(outcome)

(***************************************************************************)
(* The protocol's variables.  A context is what is sent next or was sent   *)
(* last: I-block fields, error of an R-block, kind of an S-block, and      *)
(* which of the three it is.                                               *)
(***************************************************************************)
NoContext ==
    [type |-> "INVALID", seq |-> 1, offset |-> 0, total |-> 0, send |-> 0,
     max |-> MaxInf, chained |-> FALSE, data |-> 0, err |-> "NO_ERROR",
     kind |-> "RESYNCH"]

ResetProtoParams ==
    [state |-> "IDLE", current |-> "IDLE", next |-> NoContext,
     last |-> NoContext, rcvdSeq |-> 1, rsp |-> FALSE,
     lastSentNonError |-> "UNKNOWN", recovery |-> 0, timeout |-> 0,
     rnack |-> 0, wtx |-> 0]

\* The part of total bytes that goes into one block.
Portion(ctx, total) ==
    IF total > ctx.max
    THEN [ctx EXCEPT !.chained = TRUE, !.send = ctx.max, !.total = total - ctx.max]
    ELSE [ctx EXCEPT !.chained = FALSE, !.send = total]

SetFirstIframeContxt(p) ==
    LET first == [p.next EXCEPT !.type = "IFRAME", !.offset = 0,
                                !.seq = Flip(p.last.seq)]
    IN  [p EXCEPT !.state = "IFRAME", !.next = Portion(first, first.total)]

\* Mutant: the offset of the chained command does not advance.
SetNextIframeContxt_SameOffset(p) ==
    LET next == [p.next EXCEPT !.type = "IFRAME", !.seq = Flip(p.last.seq),
                               !.offset = p.last.offset,
                               !.data = p.last.data, !.max = p.last.max]
    IN  [p EXCEPT !.state = "IFRAME", !.next = Portion(next, p.last.total)]

SetNextIframeContxt(p) ==
    LET next == [p.next EXCEPT !.type = "IFRAME", !.seq = Flip(p.last.seq),
                               !.offset = p.last.offset + p.last.max,
                               !.data = p.last.data, !.max = p.last.max]
    IN  [p EXCEPT !.state = "IFRAME", !.next = Portion(next, p.last.total)]

ToSend(p, kind) ==
    [p EXCEPT !.next.type = "SFRAME", !.next.kind = kind, !.state = kind]

RecoverySteps(p) ==
    IF p.recovery <= FrameRetry THEN ToSend(p, "INTF_RESET")
                                ELSE [p EXCEPT !.state = "IDLE"]

\* Mutant: errors are not counted.
Retry_Uncounted(p, q) == IF p.recovery < FrameRetry THEN q ELSE RecoverySteps(p)

\* q, or recovery when too many errors have been seen; either way one more (the
\* counter stops where the code no longer tells its values apart).
Retry(p, q) ==
    [IF p.recovery < FrameRetry THEN q ELSE RecoverySteps(p)
        EXCEPT !.recovery = IF @ > FrameRetry THEN @ ELSE @ + 1]

Nack(p, err) ==
    [p EXCEPT !.next.type = "RFRAME", !.next.err = err, !.state = "R_NACK"]

Ack(p) ==
    [p EXCEPT !.next.type = "RFRAME", !.next.err = "NO_ERROR", !.state = "R_ACK"]

Resend(p) == [p EXCEPT !.next = p.last]

ResendIframe(p) == [Resend(p) EXCEPT !.state = "IFRAME", !.next.type = "IFRAME"]

\* Every S-block the host may send is of a state of that name.
SKinds == {"RESYNCH", "INTF_RESET", "END_APDU", "ATR", "CHIP_RESET", "WTX"}

(***************************************************************************)
(* Sending.                                                                *)
(***************************************************************************)
\* The bytes of the command that an I-block carries.
Payload(ctx) == [i \in 1..ctx.send |-> <<ctx.data, ctx.offset + i>>]

\* phNxpEseProto7816_SendIframe, sendRframe and SendSFrame.
SentFrame(p) ==
    CASE p.state = "IFRAME" ->
            [type |-> "I", seq |-> p.next.seq, more |-> p.next.chained,
             data |-> Payload(p.next)]
      [] p.state = "R_ACK" ->
            [type |-> "R", seq |-> Flip(p.rcvdSeq), err |-> "NO_ERROR"]
      [] p.state = "R_NACK" ->
            [type |-> "R", seq |-> Flip(p.rcvdSeq), err |-> p.next.err]
      [] p.state \in SKinds -> [type |-> "S", kind |-> p.state]

\* What sending leaves behind whether or not the write succeeds.
Framed(p) ==
    CASE p.state = "IFRAME" -> [p EXCEPT !.lastSentNonError = "IFRAME"]
      [] p.state = "R_ACK"  -> [p EXCEPT !.lastSentNonError = "RFRAME"]
      [] p.state = "R_NACK" -> p
      [] p.state \in SKinds -> [p EXCEPT !.lastSentNonError = "SFRAME"]

(***************************************************************************)
(* Receiving.                                                              *)
(***************************************************************************)
\* Mutants: a chained block is taken for the last one; the number of the last
\* block is not remembered.
DecodeIframe_Unchained(p, f) ==
    IF p.rcvdSeq = f.seq THEN Retry(p, Nack(p, "OTHER_ERROR"))
    ELSE [p EXCEPT !.wtx = 0, !.recovery = 0, !.rcvdSeq = f.seq, !.state = "IDLE"]

DecodeIframe_LastForgotten(p, f) ==
    LET fresh == [p EXCEPT !.wtx = 0, !.recovery = 0]
    IN  IF p.rcvdSeq = f.seq THEN Retry(p, Nack(p, "OTHER_ERROR"))
        ELSE IF f.more THEN Ack([fresh EXCEPT !.rcvdSeq = f.seq])
        ELSE [fresh EXCEPT !.state = "IDLE"]

DecodeIframe(p, f) ==
    LET q == [p EXCEPT !.wtx = 0]
        fresh == [q EXCEPT !.recovery = 0, !.rcvdSeq = f.seq]
    IN  IF p.rcvdSeq = f.seq THEN Retry(q, Nack(q, "OTHER_ERROR"))
        ELSE IF f.more THEN Ack(fresh)
        ELSE [fresh EXCEPT !.state = "IDLE"]

\* An R-NACK that answers one of ours: which block does the element want?
AnswerNack(p, f) ==
    IF f.seq = p.last.seq /\ p.lastSentNonError = "IFRAME" THEN ResendIframe(p)
    ELSE IF f.seq # p.last.seq /\ p.lastSentNonError = "RFRAME" THEN Ack(p)
    ELSE Nack(p, "OTHER_ERROR")

DecodeRframe(p, f) ==
    LET q == [p EXCEPT !.wtx = 0]
    IN  CASE f.err = "NO_ERROR" ->
                LET r == [q EXCEPT !.recovery = 0]
                IN  IF f.seq # p.last.seq THEN SetNextIframeContxt(r) ELSE r
          [] f.err \in {"PARITY_ERROR", "OTHER_ERROR"} ->
                Retry(q, CASE p.last.type = "IFRAME" -> ResendIframe(q)
                           [] p.last.type = "RFRAME" -> AnswerNack(q, f)
                           [] p.last.type = "SFRAME" -> Resend(q)
                           [] OTHER -> q)
          [] f.err = "SOF_MISSED_ERROR" -> Retry(q, Resend(q))

\* Responses to S-blocks end the exchange; an interface reset also resets us.
DecodeSframe(p, f) ==
    LET q == IF f.kind = "WTX" THEN [p EXCEPT !.wtx = @ + 1]
                               ELSE [p EXCEPT !.wtx = 0]
    IN  IF f.kind = "WTX"
        THEN IF p.last.type = "SFRAME" /\ p.last.kind # "WTX"
             THEN Retry(q, Resend(q))
             ELSE IF q.wtx = WtxLimit
             THEN ToSend([q EXCEPT !.wtx = 0], "INTF_RESET")
             ELSE ToSend(q, "WTX")
        ELSE IF f.kind = "INTF_RESET"
        THEN IF p.recovery > FrameRetry
             THEN [q EXCEPT !.state = "IDLE"]
             ELSE [ResetProtoParams EXCEPT !.next.type = "UNKNOWN"]
        ELSE [q EXCEPT !.next.type = "UNKNOWN", !.state = "IDLE"]

DecodeFrame(p, f) ==
    CASE f.type = "I" -> DecodeIframe(p, f)
      [] f.type = "R" -> DecodeRframe(p, f)
      [] f.type = "S" -> DecodeSframe(p, f)

DecodeStatus(p, f) ==
    ~(f.type = "S" /\ f.kind = "INTF_RESET" /\ p.recovery > FrameRetry)

\* Two ways in which an exchange ends as a success that it is not: too many
\* errors, after which the status is not set, and a response to another request,
\* because the kind of a response is not compared with that of the request.
GivesUp(p, f) ==
    /\ f.type # "S" \/ f.kind = "WTX"
    /\ DecodeFrame(p, f).state = "IDLE" /\ DecodeFrame(p, f).recovery > FrameRetry

RequestOf ==
    [RSync |-> "RESYNCH", GetAtr |-> "ATR", Transceive |-> "none",
     EndOfApdu |-> "END_APDU", ChipReset |-> "CHIP_RESET", IntfReset |-> "INTF_RESET"]

TakesForeign(f) ==
    f.type = "S" /\ f.kind \notin {"WTX", "INTF_RESET", RequestOf[call]}

Misleads(p, f) == GivesUp(p, f) \/ TakesForeign(f)

\* SaveRxframeData: what the block adds to the caller's buffer, if there is one.
Saved(p, f) ==
    IF p.rsp /\ \/ f.type = "I" /\ f.seq # p.rcvdSeq
                \/ f.type = "S" /\ f.kind \in {"INTF_RESET", "ATR"}
    THEN f.data ELSE <<>>

\* ProcessResponse: the block's checksum is wrong.
CrcFailed(p) ==
    IF p.rnack < RnackLimit
    THEN [Nack(p, "PARITY_ERROR") EXCEPT !.timeout = 0, !.rnack = @ + 1]
    ELSE [p EXCEPT !.timeout = 0, !.rnack = 0, !.state = "IDLE"]

\* Mutant: the command is started again when no answer came.
NothingRead_Restart(p) ==
    IF p.last.type = "IFRAME" /\ p.rnack < RnackLimit
    THEN IF p.last.chained THEN [Nack(p, "PARITY_ERROR") EXCEPT !.rnack = @ + 1]
         ELSE SetFirstIframeContxt([p EXCEPT !.rnack = @ + 1,
                  !.next.total = p.last.offset + p.last.send])
    ELSE [p EXCEPT !.timeout = 0, !.rnack = 0, !.state = "IDLE"]

\* ProcessResponse: no block arrived.
NothingRead(p) ==
    LET wtxSent == p.last.type = "SFRAME" /\ p.last.kind = "WTX"
    IN  IF wtxSent \/ p.last.type = "IFRAME"
        THEN IF p.rnack < RnackLimit
             THEN [Nack(p, IF wtxSent THEN "OTHER_ERROR" ELSE "PARITY_ERROR")
                      EXCEPT !.rnack = @ + 1]
             ELSE [p EXCEPT !.rnack = 0, !.timeout = 0, !.state = "IDLE"]
        ELSE IF p.timeout < TimeoutRetry
        THEN [Resend(p) EXCEPT !.timeout = @ + 1]
        ELSE [p EXCEPT !.timeout = 0, !.state = "IDLE"]

(***************************************************************************)
(* The element.  It numbers its I-blocks, executes a command when its last *)
(* block is in, sends a reply block by block, may ask for more time first, *)
(* and repeats or asks again as the standard says.                         *)
(***************************************************************************)
ResetElement ==
    [expect |-> 0, seq |-> 1, input |-> <<>>, todo |-> <<>>, last |-> Nothing,
     wtx |-> 0]

\* The element wants the block with the number it expects (again).
Ask(e, err) == [type |-> "R", seq |-> e.expect, err |-> err]

Emit(e, f) == [element |-> [e EXCEPT !.last = f], frame |-> f]
EmitOnly(e, f) == [element |-> e, frame |-> f]

NextBlock(e) ==
    Emit([e EXCEPT !.seq = Flip(@), !.todo = Tail(@)],
         [type |-> "I", seq |-> Flip(e.seq), more |-> Len(e.todo) > 1,
          data |-> <<Head(e.todo)>>])

\* A reply, or a request for more time first.
AnswerOrWait(e) ==
    {NextBlock(e)} \cup
    IF e.wtx < MaxWtx
    THEN {Emit([e EXCEPT !.wtx = @ + 1], [type |-> "S", kind |-> "WTX"])}
    ELSE {}

OnIframe(e, f) ==
    LET taken == [e EXCEPT !.expect = Flip(@), !.input = @ \o f.data,
                           !.todo = <<>>]
        c == Head(taken.input)[1]
    IN  IF f.seq # e.expect THEN {EmitOnly(e, Ask(e, "OTHER_ERROR"))}
        ELSE IF f.more THEN {Emit(taken, Ask(taken, "NO_ERROR"))}
        ELSE UNION {AnswerOrWait([taken EXCEPT !.input = <<>>,
                       !.todo = [i \in 1..n |-> <<c, i, n>>]]) : n \in ReplyBlocks}

OnRframe(e, f) ==
    IF e.last.type = "S"
    THEN {EmitOnly(e, e.last)} \cup
         IF e.last.kind = "WTX" THEN {} ELSE {EmitOnly(e, Ask(e, "OTHER_ERROR"))}
    ELSE IF e.last.type = "I" /\ f.seq = e.seq THEN {EmitOnly(e, e.last)}
    ELSE IF f.err = "NO_ERROR" /\ e.todo # <<>> THEN {NextBlock(e)}
    ELSE {EmitOnly(e, Ask(e, "OTHER_ERROR"))}

\* A request is answered by the response of its kind, the resets with the ATR.
OnSframe(e, f) ==
    LET resp == [type |-> "S", kind |-> f.kind, data |-> <<ATR>>]
    IN  CASE f.kind \in {"RESYNCH", "INTF_RESET", "CHIP_RESET"} ->
                {Emit([ResetElement EXCEPT !.wtx = e.wtx], resp)}
          [] f.kind \in {"END_APDU", "ATR"} -> {Emit(e, resp)}
          [] f.kind = "WTX" -> IF e.todo # <<>> THEN AnswerOrWait(e)
                               ELSE {EmitOnly(e, Ask(e, "OTHER_ERROR"))}

Reactions(e, f) ==
    CASE f.type = "I" -> OnIframe(e, f)
      [] f.type = "R" -> OnRframe(e, f)
      [] f.type = "S" -> OnSframe(e, f)

\* The element executes the command its last block completes.
Completes(e, f) == f.type = "I" /\ ~f.more /\ f.seq = e.expect

(***************************************************************************)
(* TransceiveProcess: blocks are sent and answers received until the state *)
(* is IDLE.  The bus may refuse, lose or garble a block in either          *)
(* direction; an answer that comes too late is lost, because the element's *)
(* next answer replaces it.                                                *)
(***************************************************************************)
Running(proc) == call = proc /\ step = "send" /\ proto.state = "IDLE"

Start(proc, p) ==
    /\ call' = proc
    /\ proto' = p
    /\ step' = "send"
    /\ status' = FALSE
    /\ faults' = 0

\* RSync, GetAtr, ChipReset, IntfReset: one request of the given kind.
Request(p, kind) == ToSend([p EXCEPT !.current = "TRANSCEIVE"], kind)

Refused == lib = "CLOSE" \/ (proto.state = "IFRAME" /\ proto.next.send = 0)

Delivered(f) ==
    \E r \in Reactions(se, f) :
        /\ se' = r.element
        /\ wire' = r.frame
        /\ executed' = IF Completes(se, f) THEN Append(executed, se.input \o f.data)
                                           ELSE executed

Fault == faults < MaxFaults /\ faults' = faults + 1

\* phNxpEse_WriteFrame does not write: the bus refuses, or there is nothing.
SendFails ==
    /\ Fault \/ (Refused /\ UNCHANGED faults)
    /\ proto' = [Framed(proto) EXCEPT !.state = "IDLE"]
    /\ status' = FALSE
    /\ UNCHANGED <<step, se, wire, executed>>

\* The block is written; it arrives, or the element sees none or a bad one.
SendFrame ==
    /\ ~Refused
    /\ proto' = [Framed(proto) EXCEPT !.last = proto.next]
    /\ status' = TRUE
    /\ step' = "receive"
    /\ \/ Delivered(SentFrame(proto)) /\ UNCHANGED faults
       \/ /\ Fault
          /\ wire' \in {Nothing, Ask(se, "PARITY_ERROR"), Ask(se, "SOF_MISSED_ERROR")}
          /\ UNCHANGED <<se, executed>>

Send ==
    /\ call # "none" /\ step = "send" /\ proto.state # "IDLE"
    /\ SendFails \/ SendFrame
    /\ UNCHANGED <<reply, call, sessionVars, asked, outcome, misled>>

ReceiveFrame ==
    LET p == [proto EXCEPT !.timeout = 0, !.rnack = 0] IN
    /\ wire # Nothing /\ UNCHANGED faults
    /\ proto' = DecodeFrame(p, wire)
    /\ status' = DecodeStatus(p, wire)
    /\ reply' = reply \o Saved(p, wire)
    /\ misled' = (misled \/ Misleads(p, wire))

ReceiveGarbled ==
    /\ wire # Nothing /\ Fault
    /\ proto' = CrcFailed(proto)
    /\ status' = (proto.rnack < RnackLimit)
    /\ UNCHANGED <<reply, misled>>

ReceiveNothing ==
    /\ Fault \/ (wire = Nothing /\ UNCHANGED faults)
    /\ proto' = NothingRead(proto)
    /\ status' = FALSE
    /\ UNCHANGED <<reply, misled>>

Receive ==
    /\ step = "receive"
    /\ ReceiveFrame \/ ReceiveGarbled \/ ReceiveNothing
    /\ step' = "send"
    /\ wire' = Nothing
    /\ UNCHANGED <<call, sessionVars, se, asked, executed, outcome>>

(***************************************************************************)
(* The calls of the interface, in the sessions the keystore makes of them: *)
(* open, commands until one fails (then perhaps a reset), close.           *)
(***************************************************************************)
Idle(p) == [p EXCEPT !.current = "IDLE"]

\* The end of a call: its variables are gone and the caller has the buffer.
End ==
    /\ call' = "none"
    /\ proto' = Idle(proto)
    /\ reply' = <<>> /\ step' = "send" /\ status' = FALSE /\ faults' = 0

\* smComT1oI2C_Open: opening the bus may fail, which is noticed when writing.
Open ==
    /\ call = "none" /\ session = "closed" /\ sessions < MaxSessions
    /\ lib' \in IF lib = "CLOSE" THEN {"OPEN", "CLOSE"} ELSE {lib}
    /\ sessions' = sessions + 1
    /\ Start("RSync", Request([ResetProtoParams EXCEPT !.rsp = TRUE], "RESYNCH"))
    /\ reply' = <<>>
    /\ UNCHANGED <<session, se, wire, history>>

RSyncReturns ==
    /\ Running("RSync")
    /\ IF status
       THEN Start("GetAtr", Request([proto EXCEPT !.rsp = TRUE], "ATR")) /\ reply' = <<>>
       ELSE End
    /\ UNCHANGED <<sessionVars, se, wire, history>>

GetAtrReturns ==
    /\ Running("GetAtr")
    /\ End
    /\ session' = IF status THEN "open" ELSE "closed"
    /\ UNCHANGED <<lib, sessions, se, wire, history>>

Transceive(len) ==
    /\ call = "none" /\ session = "open" /\ Cmd < MaxCommands
    /\ lib \notin {"CLOSE", "BUSY"} /\ proto.current = "IDLE"
    /\ lib' = "BUSY"
    /\ Start("Transceive", SetFirstIframeContxt(
            [proto EXCEPT !.current = "TRANSCEIVE", !.next.data = Cmd + 1,
                          !.next.total = len, !.rsp = TRUE]))
    /\ reply' = <<>>
    /\ asked' = Append(asked, len)
    /\ outcome' = Append(outcome, "none")
    /\ UNCHANGED <<session, sessions, se, wire, executed, misled>>

\* The reply is all there, and its status word at its end.
WholeReply(c, r) ==
    r # <<>> /\ r = [i \in 1..Len(r) |-> <<c, i, Len(r)>>]

\* The keystore goes on only with a status word of success at the reply's end,
\* which neither an ATR nor a part of a reply has.
TransceiveReturns ==
    /\ Running("Transceive")
    /\ End
    /\ lib' = IF lib = "CLOSE" THEN lib ELSE "IDLE"
    /\ outcome' = [outcome EXCEPT ![Cmd] =
                      IF ~status THEN "failed"
                      ELSE IF WholeReply(Cmd, reply) THEN "answered" ELSE "noreply"]
    /\ session' = IF outcome'[Cmd] = "answered" THEN "open" ELSE "failed"
    /\ UNCHANGED <<sessions, se, wire, asked, executed, misled>>

\* smComT1oI2C_Close, phNxpEseProto7816_Close
Close ==
    /\ call = "none" /\ session \in {"open", "failed"} /\ proto.current = "IDLE"
    /\ Start("EndOfApdu",
             ToSend([proto EXCEPT !.current = "DEINIT", !.recovery = 0, !.wtx = 0,
                                  !.rsp = FALSE], "END_APDU"))
    /\ UNCHANGED <<reply, sessionVars, se, wire, history>>

\* The context is given up only if the element answered.
EndOfApduReturns ==
    /\ Running("EndOfApdu")
    /\ End
    /\ session' = "closed"
    /\ lib' = IF status THEN "CLOSE" ELSE lib
    /\ UNCHANGED <<sessions, se, wire, history>>

\* phNxpEse_chipReset, the reset the code asks for when a command failed: the
\* host forgets its state first, and the call never reports that it failed.
ChipReset ==
    /\ call = "none" /\ session = "failed"
    /\ Start("ChipReset", Request(ResetProtoParams, "CHIP_RESET"))
    /\ UNCHANGED <<reply, sessionVars, se, wire, history>>

\* phNxpEseProto7816_IntfReset
IntfReset ==
    /\ call = "none" /\ session = "failed"
    /\ Start("IntfReset", Request([proto EXCEPT !.rsp = TRUE], "INTF_RESET"))
    /\ reply' = <<>>
    /\ UNCHANGED <<sessionVars, se, wire, history>>

ResetReturns ==
    /\ Running("ChipReset") \/ Running("IntfReset")
    /\ End
    /\ UNCHANGED <<sessionVars, se, wire, history>>

\* smComT1oI2C_ComReset, phNxpEse_deInit: only the bus and the context.
ComReset ==
    /\ call = "none" /\ session \in {"open", "failed"}
    /\ lib' = "CLOSE"
    /\ session' = "closed"
    /\ UNCHANGED <<hostVars, sessions, se, wire, faults, history>>

\* phNxpEse_setIfsc
SetIfsc(n) ==
    /\ call = "none" /\ session = "open"
    /\ proto' = [proto EXCEPT !.next.max = n]
    /\ UNCHANGED <<reply, call, step, status, sessionVars, se, wire, faults, history>>

T1Init ==
    /\ proto = ResetProtoParams
    /\ reply = <<>> /\ call = "none" /\ step = "send" /\ status = FALSE
    /\ lib = "CLOSE" /\ session = "closed" /\ sessions = 0
    /\ se = ResetElement /\ wire = Nothing /\ faults = 0
    /\ asked = <<>> /\ executed = <<>> /\ outcome = <<>> /\ misled = FALSE

Return == \/ RSyncReturns \/ GetAtrReturns \/ TransceiveReturns
          \/ EndOfApduReturns \/ ResetReturns

T1Next ==
    \/ Send \/ Receive \/ Return
    \/ Open \/ Close \/ ChipReset \/ IntfReset \/ ComReset
    \/ \E len \in CmdLens : Transceive(len)
    \/ \E n \in IfscSizes : SetIfsc(n)

\* A call that runs goes on: every read and write of the bus times out.
T1Spec == T1Init /\ [][T1Next]_vars /\ WF_vars(Send \/ Receive \/ Return)

\* The element executes exactly the bytes of a command, and executes it once,
\* whatever blocks of it were lost and sent again and whatever timed out
\* (phNxpEseProto7816_SetNextIframeContxt, lines 520-552, ..._ProcessResponse,
\* 1058-1171, and the resends of ..._DecodeFrame).
CommandsWhole ==
    misled \/ \A i \in DOMAIN executed :
        LET c == executed[i][1][1]
        IN  /\ executed[i] = [k \in 1..asked[c] |-> <<c, k>>]
            /\ \A j \in DOMAIN executed : executed[j][1][1] = c => i = j

\* A successful call never hands out a part of a reply: what lost and repeated
\* blocks can do is leave nothing in the buffer, or the ATR at its end, because
\* the status word is read at the end of the reply (se_process.c, line 67).
NoTruncatedReply ==
    [][TransceiveReturns /\ outcome'[Cmd] = "noreply"
        => misled \/ reply = <<>> \/ Last(reply) = ATR]_vars

\* When a command has been answered the two ends agree on both sequence numbers,
\* whatever was lost and repeated on the way, so that the next command is not
\* taken for a repetition (SetFirstIframeContxt, line 505, and DecodeFrame, 709).
StaysInStep ==
    [][TransceiveReturns /\ outcome'[Cmd] = "answered" /\ ~misled
        => se.expect = Flip(proto.last.seq) /\ se.seq = proto.rcvdSeq]_vars

\* Every call returns if the bus fails at most MaxFaults times while it runs:
\* each way of trying again has a counter (lines 1107-1165).
EveryCallEnds == []<>(call = "none")

Link == INSTANCE SecureElementLink WITH
            executed <- [i \in DOMAIN executed |-> executed[i][1][1]],
            outcome <- outcome, trusted <- ~misled

\* The transport is the link the keystore relies on.
ImplementsLink == Link!LinkSpec
=============================================================================
