------------------------------ MODULE Web3Rpc ------------------------------
(***************************************************************************)
(* RPC calls of one wallet: web3intf.c formats a request, curlport.c posts *)
(* it and collects the response chunk by chunk, eth_parse_json_result      *)
(* copies the result out.  All calls share three buffers that grow and are *)
(* never shrunk; any allocation may fail, and the buffers live on.         *)
(***************************************************************************)
EXTENDS Integers, Sequences

CONSTANTS
    Step,           \* WEB3_STRING_BUF_STEP_SIZE
    RecvStep,       \* CURLPORT_RECV_BUF_SIZE_STEP
    RequestLens,    \* lengths of requests, without terminator
    ChunkLens,      \* sizes of the pieces libcurl hands over
    ResultLens,     \* lengths of result strings
    MaxChunks,      \* bound: pieces of a response
    MaxCalls        \* bound: calls in a behaviour

ASSUME RpcAssumption ==
    /\ Step \in Nat \ {0} /\ RecvStep \in Nat \ {0}
    /\ RequestLens \subseteq Nat /\ ChunkLens \subseteq Nat
    /\ ResultLens \subseteq Nat
    /\ MaxChunks \in Nat /\ MaxCalls \in Nat

VARIABLES
    pc,         \* where the current call is
    id,         \* web3_message_id: the number of the call
    child,      \* what the caller wants: the response as it came ("raw"),
                \* its "result", the "status" of its "result", or an "item"
                \* of the answer of a REST service
    reqLen,     \* expected_string_size
    json,       \* web3_json_string_buf
    resp,       \* curlport_response
    result,     \* web3_result_string_buf
    sent,       \* the node: pieces sent in this call
    answer,     \* the node: what it says when asked
    text,       \* parse_result_str
    ret,        \* what the last call returned
    starved     \* history: an allocation failed in this call

rpcVars == <<pc, id, child, reqLen, json, resp, result, sent, answer, text,
             ret, starved>>

-----------------------------------------------------------------------------

(***************************************************************************)
(* A string is the call it belongs to, its length, and whether it is all   *)
(* of what was meant.                                                      *)
(***************************************************************************)
Text(call, len, whole) == [of |-> call, len |-> len, whole |-> whole]
NoText == Text(0, 0, FALSE)
Texts == [of : Nat, len : Nat, whole : BOOLEAN]

Null == [ptr |-> "NULL", len |-> 0, str |-> NoText]
Allocated(n) == [ptr |-> "heap", len |-> n, str |-> NoText]
Buffers == [ptr : {"heap", "NULL"}, len : Nat, str : Texts]

(***************************************************************************)
(* A response has as "result" a string, an object whose "status" is a      *)
(* string or something else, null, or anything the parser turns down.      *)
(***************************************************************************)
Kinds == {"string", "status", "oddStatus", "null", "bad"}
Answers ==
    [kind : {"string", "status"}, len : ResultLens]
        \union [kind : Kinds \ {"string", "status"}, len : {0}]

NoAnswer == [kind |-> "bad", len |-> 0]
Returns == [code : {"none", "SUCCESS", "ERROR", "OBJ_IS_NULL"}, str : Texts]
NoReturn == [code |-> "none", str |-> NoText]

-----------------------------------------------------------------------------
\* The context of a wallet

NoResponse(space) == [space |-> space, len |-> 0, chunks |-> <<>>]

RpcInit ==
    /\ pc = "down" /\ id = 0 /\ child = "raw" /\ reqLen = 0
    /\ json = Null /\ result = Null /\ resp = NoResponse(0)
    /\ sent = 0 /\ answer = NoAnswer
    /\ text = NoText /\ ret = NoReturn /\ starved = FALSE

(***************************************************************************)
(* web3_init with BoatHttpPortInit.  When one of the allocations fails the *)
(* others are undone, and there is still no context.                       *)
(***************************************************************************)
web3_init ==
    /\ pc = "down" /\ pc' = "idle"
    /\ json' = Allocated(Step) /\ result' = Allocated(Step)
    /\ resp' = NoResponse(RecvStep)
    /\ UNCHANGED <<id, child, reqLen, sent, answer, text, ret, starved>>

\* web3_deinit with BoatHttpPortDeinit: a later web3_init starts afresh.
web3_deinit ==
    /\ pc = "idle" /\ pc' = "down"
    /\ json' = Null /\ result' = Null /\ resp' = NoResponse(0)
    /\ UNCHANGED <<id, child, reqLen, sent, answer, text, ret, starved>>

-----------------------------------------------------------------------------
\* The calls

Return(code, str) ==
    /\ pc' = "idle"
    /\ ret' = [code |-> code, str |-> str]

Call(item) ==
    /\ pc = "idle" /\ id < MaxCalls
    /\ id' = id + 1
    /\ child' = item
    /\ reqLen' \in RequestLens
    /\ starved' = FALSE
    /\ answer' \in Answers
    /\ pc' = "format"
    /\ UNCHANGED <<json, resp, result, sent, text, ret>>

web3_getTransactionCount == Call("result")
web3_gasPrice == Call("result")
web3_sendRawTransaction == Call("result")
web3_getTransactionReceiptStatus == Call("status")
web3_getBalance == Call("raw")
web3_call == Call("raw")
web3_getStorageAt == Call("raw")
platon_web3_call == Call("raw")
web3_fillTransaction == Call("raw")
web3_sendRawPrivateTransaction == Call("raw")

(***************************************************************************)
(* The fan's REST call shares the buffers.  If the request fails it frees  *)
(* an uninitialised pointer; here it returns (ACRobot has the crash).      *)
(***************************************************************************)
web3_eth_sendRestfulCallWithJsonItem == Call("item")

-----------------------------------------------------------------------------
\* Growing a buffer

(***************************************************************************)
(* BoatFieldVariable_malloc_size_expand frees first, so nothing is kept.   *)
(***************************************************************************)
Expanded(b) == Allocated(b.len + Step)

OutOfMemory == Return("ERROR", NoText) /\ starved' = TRUE

-----------------------------------------------------------------------------
\* Request

(***************************************************************************)
(* snprintf writes what fits and returns the length it would have needed.  *)
(***************************************************************************)
Printed ==
    IF reqLen < json.len THEN [json EXCEPT !.str = Text(id, reqLen, TRUE)]
    ELSE IF json.len = 0 THEN json
    ELSE [json EXCEPT !.str = Text(id, json.len - 1, FALSE)]

FormatRequest ==
    /\ pc = "format"
    /\ json' = Printed
    /\ pc' = IF reqLen < json.len THEN "post" ELSE "expandRequest"
    /\ UNCHANGED <<id, child, reqLen, resp, result, sent, answer, text, ret,
                   starved>>

\* Mutant: the request is not formatted again.
ExpandRequest_Once ==
    /\ pc = "expandRequest"
    /\ json' = Expanded(json) /\ pc' = "post" /\ UNCHANGED <<ret, starved>>
    /\ UNCHANGED <<id, child, reqLen, resp, result, sent, answer, text>>

\* Mutant: a buffer that was lost in an earlier call is not made anew.
ExpandRequest_NoNull ==
    /\ pc = "expandRequest"
    /\ IF json.ptr = "NULL"
       THEN Return("ERROR", NoText) /\ UNCHANGED <<json, starved>>
       ELSE \/ json' = Expanded(json) /\ pc' = "format"
               /\ UNCHANGED <<ret, starved>>
            \/ json' = Null /\ OutOfMemory
    /\ UNCHANGED <<id, child, reqLen, resp, result, sent, answer, text>>

ExpandRequest ==
    /\ pc = "expandRequest"
    /\ \/ json' = Expanded(json) /\ pc' = "format" /\ UNCHANGED <<ret, starved>>
       \/ json' = Null /\ OutOfMemory
    /\ UNCHANGED <<id, child, reqLen, resp, result, sent, answer, text>>

-----------------------------------------------------------------------------
\* Response

\* Mutant: the response of the last call is not cleared.
Post_NotCleared ==
    /\ pc = "post"
    /\ sent' = 0 /\ pc' = "receive"
    /\ UNCHANGED <<id, child, reqLen, json, resp, result, answer, text, ret,
                   starved>>

(***************************************************************************)
(* BoatHttpPortRequestSync empties the response buffer and posts.          *)
(***************************************************************************)
Post ==
    /\ pc = "post"
    /\ resp' = [resp EXCEPT !.len = 0, !.chunks = <<>>]
    /\ sent' = 0 /\ pc' = "receive"
    /\ UNCHANGED <<id, child, reqLen, json, result, answer, text, ret, starved>>

\* Mutant: no room for the terminator.
Fits_NoTerminator(n) == resp.space - resp.len >= n

Fits(n) == resp.space - resp.len > n

GrownSpace(n) ==
    LET expand_size == n - (resp.space - resp.len) + 1
        expand_steps == (expand_size - 1) \div RecvStep + 1
    IN  expand_steps * RecvStep + resp.space

Taken(n, space) ==
    resp' = [space |-> space, len |-> resp.len + n,
             chunks |-> Append(resp.chunks, <<id, sent'>>)]

(***************************************************************************)
(* CurlPortWriteMemoryCallback.  When the larger buffer cannot be had the  *)
(* piece is dropped, and the callback reports it as written.               *)
(***************************************************************************)
ReceiveChunk ==
    /\ pc = "receive" /\ sent < MaxChunks
    /\ sent' = sent + 1
    /\ \E n \in ChunkLens :
          \/ Fits(n) /\ Taken(n, resp.space) /\ UNCHANGED starved
          \/ ~Fits(n) /\ Taken(n, GrownSpace(n)) /\ UNCHANGED starved
          \/ ~Fits(n) /\ starved' = TRUE /\ UNCHANGED resp
    /\ UNCHANGED <<pc, id, child, reqLen, json, result, answer, text, ret>>

\* libcurl fails or times out, or the status is neither 200 nor 201.
RequestFails ==
    /\ pc \in {"post", "receive"}
    /\ Return("ERROR", NoText)
    /\ answer' = NoAnswer
    /\ UNCHANGED <<id, child, reqLen, json, resp, result, sent, text, starved>>

SentChunks == [k \in 1..sent |-> <<id, k>>]
ResponseIsWhole == resp.chunks = SentChunks

(***************************************************************************)
(* The response is complete.  An empty one says nothing; every other is    *)
(* the node's answer.  The caller of web3_call and the like gets a pointer *)
(* to the response buffer itself.                                          *)
(***************************************************************************)
EndResponse ==
    /\ pc = "receive"
    /\ answer' = IF sent = 0 THEN NoAnswer ELSE answer
    /\ IF child = "raw"
       THEN Return("SUCCESS", Text(id, resp.len, ResponseIsWhole))
       ELSE pc' = "parse" /\ UNCHANGED ret
    /\ UNCHANGED <<id, child, reqLen, json, resp, result, sent, text, starved>>

-----------------------------------------------------------------------------
\* eth_parse_json_result

\* What the parser finds: with a piece missing it may be anything.
Found ==
    IF ResponseIsWhole THEN {answer} ELSE Answers

Copies(a) == a.kind = "string" \/ (a.kind = "status" /\ child = "status")

\* An object where a string is due: the result buffer stays what it was.
CopiesNothing(a) ==
    \/ a.kind = "oddStatus" /\ child = "status"
    \/ a.kind \in {"status", "oddStatus"} /\ child = "item"

\* Mutant: null is taken for a result that needs no copying.
Parse_NullSucceeds ==
    /\ pc = "parse"
    /\ \E a \in Found :
          \/ /\ Copies(a)
             /\ text' = Text(id, a.len, ResponseIsWhole)
             /\ pc' = "copy" /\ UNCHANGED ret
          \/ /\ CopiesNothing(a) \/ a.kind = "null"
             /\ Return("SUCCESS", result.str) /\ UNCHANGED text
          \/ /\ ~Copies(a) /\ ~CopiesNothing(a) /\ a.kind # "null"
             /\ Return("ERROR", NoText) /\ UNCHANGED text
    /\ UNCHANGED <<id, child, reqLen, json, resp, result, sent, answer, starved>>

Parse ==
    /\ pc = "parse"
    /\ \E a \in Found :
          \/ /\ Copies(a)
             /\ text' = Text(id, a.len, ResponseIsWhole)
             /\ pc' = "copy" /\ UNCHANGED ret
          \/ /\ CopiesNothing(a)
             /\ Return("SUCCESS", result.str) /\ UNCHANGED text
          \/ /\ ~Copies(a) /\ ~CopiesNothing(a)
             /\ Return(IF a.kind = "null" THEN "OBJ_IS_NULL" ELSE "ERROR", NoText)
             /\ UNCHANGED text
    /\ UNCHANGED <<id, child, reqLen, json, resp, result, sent, answer, starved>>

ExpandResult ==
    /\ pc = "copy" /\ text.len >= result.len
    /\ \/ result' = Expanded(result) /\ UNCHANGED <<pc, ret, starved>>
       \/ result' = Null /\ OutOfMemory
    /\ UNCHANGED <<id, child, reqLen, json, resp, sent, answer, text>>

CopyResult ==
    /\ pc = "copy" /\ text.len < result.len
    /\ result' = [result EXCEPT !.str = text]
    /\ Return("SUCCESS", text)
    /\ UNCHANGED <<id, child, reqLen, json, resp, sent, answer, text, starved>>

-----------------------------------------------------------------------------

Web3Call ==
    \/ web3_getTransactionCount \/ web3_gasPrice \/ web3_getBalance
    \/ web3_sendRawTransaction \/ web3_call \/ web3_getTransactionReceiptStatus
    \/ web3_eth_sendRestfulCallWithJsonItem
    \/ web3_getStorageAt \/ platon_web3_call
    \/ web3_fillTransaction \/ web3_sendRawPrivateTransaction

CallStep ==
    \/ FormatRequest \/ ExpandRequest
    \/ Post \/ ReceiveChunk \/ RequestFails \/ EndResponse
    \/ Parse \/ ExpandResult \/ CopyResult

RpcNext == web3_init \/ web3_deinit \/ Web3Call \/ CallStep

(***************************************************************************)
(* Fairness: the code runs on, and CURLOPT_TIMEOUT_MS ends every request.  *)
(***************************************************************************)
RpcSpec == RpcInit /\ [][RpcNext]_rpcVars /\ WF_rpcVars(CallStep)

-----------------------------------------------------------------------------
\* Properties

InSteps(len, step) == \E k \in 0..len : len = k * step

(***************************************************************************)
(* Type invariant; the sizes of the buffers are whole steps.               *)
(***************************************************************************)
RpcTypeOK ==
    /\ pc \in {"down", "idle", "format", "expandRequest", "post", "receive", "parse",
               "copy"}
    /\ id \in Nat /\ child \in {"raw", "result", "status", "item"} /\ reqLen \in Nat
    /\ json \in Buffers /\ result \in Buffers
    /\ resp \in [space : Nat, len : Nat, chunks : Seq(Nat \X Nat)]
    /\ sent \in Nat /\ answer \in [kind : Kinds, len : Nat]
    /\ text \in Texts
    /\ ret \in Returns
    /\ starved \in BOOLEAN
    /\ InSteps(json.len, Step) /\ InSteps(result.len, Step)
    /\ InSteps(resp.space, RecvStep)

(***************************************************************************)
(* No buffer runs over: a string and its terminator fit, in the response   *)
(* buffer too, and a buffer has no length exactly when it is not there     *)
(* (BoatFieldVariable_malloc_size_expand, CurlPortWriteMemoryCallback).    *)
(***************************************************************************)
Holds(b) ==
    /\ b.ptr = "NULL" <=> b.len = 0
    /\ b.str = NoText \/ b.str.len < b.len

BuffersHold ==
    /\ Holds(json) /\ Holds(result)
    /\ pc # "down" => resp.len < resp.space

(***************************************************************************)
(* What is posted is the whole request of this call, however often its     *)
(* buffer had to grow and whatever an earlier call left in it.             *)
(***************************************************************************)
PostedRequestIsWhole ==
    pc \in {"post", "receive", "parse", "copy"} => json.str = Text(id, reqLen, TRUE)

(***************************************************************************)
(* The response buffer never mixes calls: it holds pieces of this call's   *)
(* response, in order, and all of them unless an allocation failed.        *)
(***************************************************************************)
ResponseIsThisCalls ==
    pc \in {"receive", "parse", "copy"} =>
        /\ \A k \in DOMAIN resp.chunks : resp.chunks[k][1] = id
        /\ starved \/ ResponseIsWhole

(***************************************************************************)
(* A call that succeeds returns an answer to its own request.  Excepted is *)
(* an object where a string is due ("un-implemention yet"), and a response *)
(* with a piece missing, which may read like one: eth_parse_json_result    *)
(* then succeeds with what the buffer held before.                         *)
(***************************************************************************)
NoStaleAnswer ==
    pc = "idle" /\ ret.code = "SUCCESS" =>
        ret.str.of = id \/ CopiesNothing(answer) \/ starved

(***************************************************************************)
(* A call answered with a string returns it whole if no allocation failed  *)
(* during this call: failures of earlier calls leave no trace.             *)
(***************************************************************************)
HealthyCallAnswers ==
    pc = "idle" /\ ~starved /\ Copies(answer) =>
        /\ ret.code = "SUCCESS" /\ ret.str.of = id /\ ret.str.whole
        /\ child # "raw" => ret.str.len = answer.len

=============================================================================
