-------------------------- MODULE Web3Rpc_proofs --------------------------
(***************************************************************************)
(* Proofs for Web3Rpc: for every step size, every length and every number  *)
(* of calls the buffers hold what is written into them, and no call posts  *)
(* or reads what belongs to another.  The invariant is inductive as the    *)
(* conjunction of the four properties: that a piece fits needs the length  *)
(* of the buffer, that a request is whole needs the growth before it.      *)
(***************************************************************************)
EXTENDS Web3Rpc, TLAPS

RpcInv == RpcTypeOK /\ BuffersHold /\ PostedRequestIsWhole /\ ResponseIsThisCalls

-----------------------------------------------------------------------------
\* Sizes

(***************************************************************************)
(* A whole number of steps more is a whole number of steps.                *)
(***************************************************************************)
LEMMA StepsAdd ==
    ASSUME NEW len \in Nat, NEW step \in Nat \ {0}, NEW n \in Nat,
           InSteps(len, step)
    PROVE  InSteps(n * step + len, step)
<1>1. PICK k \in 0..len : len = k * step
  BY DEF InSteps
<1>2. /\ n * step + len = (n + k) * step
      /\ n * step + len \in Nat
      /\ n + k \in Nat
  BY <1>1
<1>3. n + k <= (n + k) * step
  BY <1>2
<1> QED
  BY <1>2, <1>3 DEF InSteps

LEMMA OneStep ==
    ASSUME NEW step \in Nat \ {0} PROVE InSteps(step, step)
<1>1. 1 \in 0..step /\ step = 1 * step
  OBVIOUS
<1> QED
  BY <1>1 DEF InSteps

LEMMA NoSteps ==
    ASSUME NEW step \in Nat PROVE InSteps(0, step)
<1>1. 0 \in 0..0 /\ 0 = 0 * step
  OBVIOUS
<1> QED
  BY <1>1 DEF InSteps

(***************************************************************************)
(* CurlPortWriteMemoryCallback grows the buffer far enough for the piece   *)
(* and its terminator, in whole steps.                                     *)
(***************************************************************************)
LEMMA GrowthSuffices ==
    ASSUME NEW n \in Nat, RpcTypeOK, BuffersHold, pc # "down", ~Fits(n)
    PROVE  /\ GrownSpace(n) \in Nat
           /\ resp.len + n < GrownSpace(n)
           /\ InSteps(GrownSpace(n), RecvStep)
<1> DEFINE e == n - (resp.space - resp.len) + 1
           q == (e - 1) \div RecvStep
<1>1. /\ RecvStep \in Nat \ {0} /\ resp.space \in Nat /\ resp.len \in Nat
      /\ resp.len < resp.space
      /\ InSteps(resp.space, RecvStep)
  BY RpcAssumption DEF RpcTypeOK, BuffersHold
<1>2. e - 1 \in Nat
  BY <1>1 DEF Fits
<1>3. q \in Nat /\ e - 1 < (q + 1) * RecvStep
  <2> HIDE DEF e
  <2> QED BY <1>1, <1>2
<1>4. GrownSpace(n) = (q + 1) * RecvStep + resp.space
  BY DEF GrownSpace
<1>5. InSteps((q + 1) * RecvStep + resp.space, RecvStep)
  <2> DEFINE m == q + 1
  <2>1. m \in Nat
    <3> HIDE DEF q
    <3> QED BY <1>3
  <2> HIDE DEF m
  <2>2. InSteps(m * RecvStep + resp.space, RecvStep)
    BY <1>1, <2>1, StepsAdd, Zenon
  <2> QED BY <2>2 DEF m
<1>6. /\ (q + 1) * RecvStep + resp.space \in Nat
      /\ resp.len + n < (q + 1) * RecvStep + resp.space
  <2> DEFINE g == (q + 1) * RecvStep
  <2>1. g \in Nat /\ e - 1 < g
    <3> HIDE DEF q, e
    <3> QED BY <1>1, <1>3
  <2>2. g + resp.space \in Nat /\ resp.len + n < g + resp.space
    <3> HIDE DEF g
    <3> QED BY <1>1, <2>1
  <2> HIDE DEF q
  <2> QED BY <2>2
<1> QED
  BY <1>4, <1>5, <1>6

(***************************************************************************)
(* BoatFieldVariable_malloc_size_expand: one step more, and nothing in it. *)
(***************************************************************************)
LEMMA ExpandedHolds ==
    ASSUME NEW b \in Buffers, InSteps(b.len, Step)
    PROVE  /\ Expanded(b) \in Buffers /\ Holds(Expanded(b))
           /\ InSteps(Expanded(b).len, Step)
<1>1. Step \in Nat \ {0} /\ b.len \in Nat /\ 1 \in Nat
  BY RpcAssumption DEF Buffers
<1>2. InSteps(1 * Step + b.len, Step)
  BY <1>1, StepsAdd, Zenon
<1>3. InSteps(b.len + Step, Step)
  <2>1. 1 * Step + b.len = b.len + Step
    BY <1>1
  <2> QED BY <1>2, <2>1
<1> QED
  BY <1>1, <1>3 DEF Expanded, Allocated, Buffers, Holds, NoText, Text, Texts

LEMMA NullHolds == Null \in Buffers /\ Holds(Null) /\ InSteps(Null.len, Step)
BY RpcAssumption DEF Null, Buffers, Holds, NoText, Text, Texts, InSteps

-----------------------------------------------------------------------------
\* Responses

(***************************************************************************)
(* The pieces stored so far and the next one are the pieces sent so far.   *)
(***************************************************************************)
LEMMA NextChunk ==
    ASSUME NEW c \in Nat, NEW n \in Nat
    PROVE  Append([k \in 1..n |-> <<c, k>>], <<c, n + 1>>)
             = [k \in 1..n + 1 |-> <<c, k>>]
OBVIOUS

LEMMA NoChunks ==
    ASSUME NEW c PROVE [k \in 1..0 |-> <<c, k>>] = << >>
OBVIOUS

-----------------------------------------------------------------------------
\* The invariant

LEMMA RpcInitInv == RpcInit => RpcInv
<1> SUFFICES ASSUME RpcInit PROVE RpcInv
  OBVIOUS
<1>1. InSteps(0, Step) /\ InSteps(0, RecvStep)
  BY RpcAssumption, NoSteps
<1>2. RpcTypeOK
  <2>1. /\ resp \in [space : Nat, len : Nat, chunks : Seq(Nat \X Nat)]
        /\ resp.space = 0
    BY DEF RpcInit, NoResponse
  <2>2. /\ answer \in [kind : Kinds, len : Nat]
        /\ ret \in Returns
        /\ text \in Texts /\ starved \in BOOLEAN
    BY DEF RpcInit, NoAnswer, NoReturn, Returns, Kinds, Texts, Text, NoText
  <2> QED
    BY <1>1, <2>1, <2>2, NullHolds DEF RpcInit, RpcTypeOK
<1>3. BuffersHold
  BY NullHolds DEF RpcInit, BuffersHold
<1> QED
  BY <1>2, <1>3 DEF RpcInit, RpcInv, PostedRequestIsWhole, ResponseIsThisCalls

(***************************************************************************)
(* web3_init allocates a step of everything, web3_deinit leaves nothing.   *)
(***************************************************************************)
LEMMA ContextInv == RpcInv /\ (web3_init \/ web3_deinit) => RpcInv'
<1> SUFFICES ASSUME RpcInv, web3_init \/ web3_deinit PROVE RpcInv'
  OBVIOUS
<1>1. /\ Step \in Nat \ {0} /\ RecvStep \in Nat \ {0}
      /\ InSteps(Step, Step) /\ InSteps(RecvStep, RecvStep)
      /\ InSteps(0, RecvStep)
  BY RpcAssumption, OneStep, NoSteps
<1>2. /\ Allocated(Step) \in Buffers /\ Holds(Allocated(Step))
      /\ Allocated(Step).len = Step
  BY <1>1 DEF Buffers, Allocated, Texts, Text, NoText, Holds
<1>3. /\ json' \in Buffers /\ Holds(json)' /\ InSteps(json'.len, Step)
      /\ result' \in Buffers /\ Holds(result)' /\ InSteps(result'.len, Step)
  BY <1>1, <1>2, NullHolds DEF web3_init, web3_deinit, Holds
<1>4. /\ resp' \in [space : Nat, len : Nat, chunks : Seq(Nat \X Nat)]
      /\ InSteps(resp'.space, RecvStep)
      /\ pc' \in {"down", "idle"} /\ (pc' # "down" => resp'.len < resp'.space)
  <2>1. << >> \in Seq(Nat \X Nat)
    OBVIOUS
  <2>2. ASSUME NEW n \in Nat
        PROVE  /\ NoResponse(n) \in [space : Nat, len : Nat, chunks : Seq(Nat \X Nat)]
               /\ NoResponse(n).space = n /\ NoResponse(n).len = 0
    BY <2>1 DEF NoResponse
  <2>3. CASE web3_init
    <3>1. resp' = NoResponse(RecvStep) /\ pc' = "idle"
      BY <2>3 DEF web3_init
    <3>2. /\ resp' \in [space : Nat, len : Nat, chunks : Seq(Nat \X Nat)]
          /\ resp'.space = RecvStep /\ resp'.len = 0
      BY <1>1, <2>2, <3>1, Zenon
    <3> QED
      BY <1>1, <3>1, <3>2
  <2>4. CASE web3_deinit
    <3>1. resp' = NoResponse(0) /\ pc' = "down"
      BY <2>4 DEF web3_deinit
    <3>2. /\ resp' \in [space : Nat, len : Nat, chunks : Seq(Nat \X Nat)]
          /\ resp'.space = 0 /\ resp'.len = 0
      BY <1>1, <2>2, <3>1, Zenon
    <3> QED
      BY <1>1, <3>1, <3>2
  <2> QED
    BY <2>3, <2>4
<1>5. RpcTypeOK'
  BY <1>3, <1>4 DEF RpcInv, RpcTypeOK, web3_init, web3_deinit
<1>6. BuffersHold' /\ PostedRequestIsWhole' /\ ResponseIsThisCalls'
  BY <1>3, <1>4 DEF BuffersHold, PostedRequestIsWhole, ResponseIsThisCalls
<1> QED
  BY <1>5, <1>6 DEF RpcInv

(***************************************************************************)
(* What a call may return and what a node may answer has the right type.   *)
(***************************************************************************)
LEMMA AnswersTyped == Answers \subseteq [kind : Kinds, len : Nat]
<1> SUFFICES ASSUME NEW a \in Answers PROVE a \in [kind : Kinds, len : Nat]
  OBVIOUS
<1>1. CASE a \in [kind : {"string", "status"}, len : ResultLens]
  BY <1>1, RpcAssumption DEF Kinds
<1>2. CASE a \in [kind : Kinds \ {"string", "status"}, len : {0}]
  BY <1>2 DEF Kinds
<1> QED
  BY <1>1, <1>2 DEF Answers

LEMMA ReturnTyped ==
    ASSUME RpcTypeOK, NEW code \in {"SUCCESS", "ERROR", "OBJ_IS_NULL"},
           NEW str \in Texts, Return(code, str)
    PROVE  ret' \in Returns
BY DEF Return, Returns

LEMMA NoTextTyped == NoText \in Texts
BY DEF NoText, Text, Texts

LEMMA CallInv == RpcInv /\ Web3Call => RpcInv'
<1> SUFFICES ASSUME RpcInv, NEW item \in {"raw", "result", "status", "item"},
                    Call(item)
             PROVE  RpcInv'
  BY DEF Web3Call, web3_getTransactionCount, web3_gasPrice, web3_getBalance,
     web3_sendRawTransaction, web3_call, web3_getTransactionReceiptStatus,
     web3_eth_sendRestfulCallWithJsonItem, web3_getStorageAt,
     platon_web3_call, web3_fillTransaction, web3_sendRawPrivateTransaction
<1>1. RpcTypeOK'
  <2>1. id' \in Nat /\ reqLen' \in Nat
    <3>1. id \in Nat /\ id' = id + 1 /\ reqLen' \in RequestLens
      BY Zenon DEF RpcInv, RpcTypeOK, Call
    <3> QED BY <3>1, RpcAssumption
  <2>2. answer' \in [kind : Kinds, len : Nat]
    BY AnswersTyped DEF Call
  <2> QED
    BY <2>1, <2>2 DEF RpcInv, RpcTypeOK, Call
<1>2. BuffersHold' /\ PostedRequestIsWhole' /\ ResponseIsThisCalls'
  BY DEF RpcInv, Call, BuffersHold, Holds, PostedRequestIsWhole,
     ResponseIsThisCalls
<1> QED
  BY <1>1, <1>2 DEF RpcInv

LEMMA FormatInv == RpcInv /\ FormatRequest => RpcInv'
<1> SUFFICES ASSUME RpcInv, FormatRequest PROVE RpcInv'
  OBVIOUS
<1> USE DEF RpcInv
<1>1. json' \in Buffers /\ Holds(json') /\ json'.len = json.len
  <2>1. /\ json \in Buffers /\ Holds(json) /\ json.len \in Nat
        /\ reqLen \in Nat /\ id \in Nat
    BY DEF RpcTypeOK, BuffersHold, Buffers
  <2>2. json' = Printed
    BY DEF FormatRequest
  <2>3. ASSUME NEW n \in Nat, NEW w \in BOOLEAN, n < json.len
        PROVE  LET b == [json EXCEPT !.str = Text(id, n, w)]
               IN  b \in Buffers /\ Holds(b) /\ b.len = json.len
    <3>1. Text(id, n, w) \in Texts /\ Text(id, n, w).len = n
      BY <2>1, <2>3 DEF Text, Texts
    <3> QED
      BY <2>1, <2>3, <3>1 DEF Buffers, Holds
  <2>4. CASE reqLen < json.len
    BY <2>1, <2>2, <2>3, <2>4 DEF Printed
  <2>5. CASE ~(reqLen < json.len) /\ json.len # 0
    <3>1. json.len - 1 \in Nat /\ json.len - 1 < json.len
      BY <2>1, <2>5
    <3>2. json' = [json EXCEPT !.str = Text(id, json.len - 1, FALSE)]
      BY <2>2, <2>5 DEF Printed
    <3> QED
      BY <2>3, <3>1, <3>2
  <2>6. CASE ~(reqLen < json.len) /\ json.len = 0
    BY <2>1, <2>2, <2>6 DEF Printed
  <2> QED
    BY <2>4, <2>5, <2>6
<1>2. RpcTypeOK'
  BY <1>1 DEF RpcTypeOK, FormatRequest
<1>3. BuffersHold'
  BY <1>1 DEF BuffersHold, Holds, FormatRequest
<1>4. PostedRequestIsWhole'
  BY DEF PostedRequestIsWhole, RpcTypeOK, Buffers, FormatRequest, Printed
<1>5. ResponseIsThisCalls'
  BY DEF ResponseIsThisCalls, FormatRequest
<1> QED
  BY <1>2, <1>3, <1>4, <1>5

LEMMA ExpandInv == RpcInv /\ (ExpandRequest \/ ExpandResult) => RpcInv'
<1> SUFFICES ASSUME RpcInv PROVE (ExpandRequest \/ ExpandResult) => RpcInv'
  OBVIOUS
<1> USE DEF RpcInv
<1>1. ASSUME ExpandRequest PROVE RpcInv'
  <2>1. json' \in Buffers /\ Holds(json') /\ InSteps(json'.len, Step)
    BY <1>1, ExpandedHolds, NullHolds DEF RpcTypeOK, ExpandRequest
  <2>2. RpcTypeOK'
    <3>1. ret' \in Returns
      <4>1. ret' = ret \/ Return("ERROR", NoText)
        BY <1>1, Zenon DEF ExpandRequest, OutOfMemory
      <4> QED
        BY <4>1, ReturnTyped, NoTextTyped DEF RpcTypeOK
    <3>2. starved' \in BOOLEAN
      BY <1>1 DEF RpcTypeOK, ExpandRequest, OutOfMemory
    <3> QED
      BY <1>1, <2>1, <3>1, <3>2 DEF RpcTypeOK, ExpandRequest, OutOfMemory, Return
  <2>3. BuffersHold' /\ PostedRequestIsWhole' /\ ResponseIsThisCalls'
    BY <1>1, <2>1 DEF BuffersHold, Holds, PostedRequestIsWhole,
       ResponseIsThisCalls, ExpandRequest, OutOfMemory, Return
  <2> QED
    BY <2>2, <2>3
<1>2. ASSUME ExpandResult PROVE RpcInv'
  <2>1. result' \in Buffers /\ Holds(result') /\ InSteps(result'.len, Step)
    BY <1>2, ExpandedHolds, NullHolds DEF RpcTypeOK, ExpandResult
  <2>2. RpcTypeOK'
    <3>1. ret' \in Returns
      <4>1. ret' = ret \/ Return("ERROR", NoText)
        BY <1>2, Zenon DEF ExpandResult, OutOfMemory
      <4> QED
        BY <4>1, ReturnTyped, NoTextTyped DEF RpcTypeOK
    <3>2. starved' \in BOOLEAN
      BY <1>2 DEF RpcTypeOK, ExpandResult, OutOfMemory
    <3> QED
      BY <1>2, <2>1, <3>1, <3>2 DEF RpcTypeOK, ExpandResult, OutOfMemory, Return
  <2>3. BuffersHold' /\ PostedRequestIsWhole'
    BY <1>2, <2>1 DEF BuffersHold, Holds, PostedRequestIsWhole, ExpandResult,
       OutOfMemory, Return
  <2>4. ResponseIsThisCalls'
    BY <1>2 DEF ResponseIsThisCalls, ResponseIsWhole, SentChunks, ExpandResult,
       OutOfMemory, Return
  <2> QED
    BY <2>2, <2>3, <2>4
<1> QED
  BY <1>1, <1>2

LEMMA PostInv == RpcInv /\ Post => RpcInv'
<1> SUFFICES ASSUME RpcInv, Post PROVE RpcInv'
  OBVIOUS
<1> USE DEF RpcInv
<1>1. /\ resp'.chunks = << >> /\ resp'.len = 0 /\ resp'.space = resp.space
      /\ resp' \in [space : Nat, len : Nat, chunks : Seq(Nat \X Nat)]
      /\ sent' = 0
  <2>1. /\ resp' = [resp EXCEPT !.len = 0, !.chunks = << >>] /\ sent' = 0
        /\ resp \in [space : Nat, len : Nat, chunks : Seq(Nat \X Nat)]
    BY Zenon DEF RpcTypeOK, Post
  <2>2. << >> \in Seq(Nat \X Nat)
    OBVIOUS
  <2> QED
    BY <2>1, <2>2
<1>2. RpcTypeOK'
  BY <1>1 DEF RpcTypeOK, Post
<1>3. BuffersHold'
  BY <1>1 DEF BuffersHold, Holds, RpcTypeOK, Post
<1>4. PostedRequestIsWhole'
  BY DEF PostedRequestIsWhole, Post
<1>5. ResponseIsThisCalls'
  <2>1. ResponseIsWhole'
    BY <1>1, NoChunks DEF ResponseIsWhole, SentChunks
  <2> QED
    BY <1>1, <2>1 DEF ResponseIsThisCalls
<1> QED
  BY <1>2, <1>3, <1>4, <1>5

(***************************************************************************)
(* A piece of the response arrives: it fits, the buffer grows for it, or   *)
(* it is dropped.                                                          *)
(***************************************************************************)
LEMMA ReceiveInv == RpcInv /\ ReceiveChunk => RpcInv'
<1> SUFFICES ASSUME RpcInv, ReceiveChunk PROVE RpcInv'
  OBVIOUS
<1> USE DEF RpcInv
<1>1. /\ pc = "receive" /\ pc' = "receive" /\ sent' = sent + 1
      /\ id' = id /\ json' = json /\ result' = result /\ reqLen' = reqLen
      /\ sent \in Nat /\ id \in Nat
      /\ resp.len \in Nat /\ resp.space \in Nat
      /\ resp.chunks \in Seq(Nat \X Nat)
  BY DEF ReceiveChunk, RpcTypeOK
<1>2. PICK n \in ChunkLens :
          \/ Fits(n) /\ Taken(n, resp.space) /\ UNCHANGED starved
          \/ ~Fits(n) /\ Taken(n, GrownSpace(n)) /\ UNCHANGED starved
          \/ ~Fits(n) /\ starved' = TRUE /\ UNCHANGED resp
  BY Zenon DEF ReceiveChunk
<1>3. n \in Nat
  BY RpcAssumption
<1>4. ASSUME NEW space \in Nat, InSteps(space, RecvStep), resp.len + n < space,
             Taken(n, space), UNCHANGED starved
      PROVE  RpcInv'
  <2>1. /\ resp' \in [space : Nat, len : Nat, chunks : Seq(Nat \X Nat)]
        /\ resp'.space = space /\ resp'.len = resp.len + n
        /\ resp'.chunks = Append(resp.chunks, <<id, sent + 1>>)
    BY <1>1, <1>3, <1>4 DEF Taken
  <2>2. RpcTypeOK'
    BY <1>1, <1>4, <2>1 DEF RpcTypeOK, ReceiveChunk
  <2>3. BuffersHold' /\ PostedRequestIsWhole'
    BY <1>1, <1>4, <2>1 DEF BuffersHold, Holds, PostedRequestIsWhole
  <2>4. ResponseIsThisCalls'
    <3>1. \A k \in DOMAIN resp'.chunks : resp'.chunks[k][1] = id
      <4> DEFINE c == resp.chunks
                 p == <<id, sent + 1>>
      <4>1. c \in Seq(Nat \X Nat) /\ p \in Nat \X Nat /\ p[1] = id
        BY <1>1
      <4>2. \A k \in DOMAIN c : c[k][1] = id
        BY <1>1 DEF ResponseIsThisCalls
      <4>3. \A k \in DOMAIN Append(c, p) : Append(c, p)[k][1] = id
        <5> HIDE DEF c, p
        <5>1. /\ DOMAIN c = 1..Len(c) /\ Len(c) \in Nat
              /\ DOMAIN Append(c, p) = 1..Len(c) + 1
              /\ \A k \in 1..Len(c) : Append(c, p)[k] = c[k]
              /\ Append(c, p)[Len(c) + 1] = p
          BY <4>1
        <5> QED
          BY <4>1, <4>2, <5>1
      <4> QED
        BY <2>1, <4>3
    <3>2. ResponseIsWhole => ResponseIsWhole'
      <4>1. SUFFICES ASSUME resp.chunks = [k \in 1..sent |-> <<id, k>>]
                     PROVE  resp'.chunks = [k \in 1..sent' |-> <<id', k>>]
        BY DEF ResponseIsWhole, SentChunks
      <4>2. Append([k \in 1..sent |-> <<id, k>>], <<id, sent + 1>>)
              = [k \in 1..sent + 1 |-> <<id, k>>]
        BY <1>1, NextChunk
      <4> QED
        BY <1>1, <2>1, <4>1, <4>2
    <3> QED
      BY <1>1, <1>4, <3>1, <3>2 DEF ResponseIsThisCalls
  <2> QED
    BY <2>2, <2>3, <2>4
<1>5. CASE Fits(n) /\ Taken(n, resp.space) /\ UNCHANGED starved
  <2>1. resp.len + n < resp.space /\ InSteps(resp.space, RecvStep)
    BY <1>1, <1>3, <1>5 DEF Fits, RpcTypeOK
  <2> QED
    BY <1>1, <1>4, <1>5, <2>1
<1>6. CASE ~Fits(n) /\ Taken(n, GrownSpace(n)) /\ UNCHANGED starved
  BY <1>1, <1>3, <1>4, <1>6, GrowthSuffices DEF RpcInv
<1>7. CASE ~Fits(n) /\ starved' = TRUE /\ UNCHANGED resp
  <2>1. RpcTypeOK'
    BY <1>1, <1>7 DEF RpcTypeOK, ReceiveChunk
  <2>2. BuffersHold' /\ PostedRequestIsWhole'
    BY <1>1, <1>7 DEF BuffersHold, Holds, PostedRequestIsWhole
  <2>3. ResponseIsThisCalls'
    BY <1>1, <1>7 DEF ResponseIsThisCalls
  <2> QED
    BY <2>1, <2>2, <2>3
<1> QED
  BY <1>2, <1>5, <1>6, <1>7

LEMMA RequestFailsInv == RpcInv /\ RequestFails => RpcInv'
<1> SUFFICES ASSUME RpcInv, RequestFails PROVE RpcInv'
  OBVIOUS
<1>1. ret' \in Returns
  BY ReturnTyped, NoTextTyped DEF RpcInv, RequestFails
<1>2. answer' \in [kind : Kinds, len : Nat]
  BY DEF RequestFails, NoAnswer, Kinds
<1>3. RpcTypeOK'
  BY <1>1, <1>2 DEF RpcInv, RpcTypeOK, RequestFails, Return
<1>4. BuffersHold' /\ PostedRequestIsWhole' /\ ResponseIsThisCalls'
  BY DEF RpcInv, BuffersHold, Holds, PostedRequestIsWhole,
     ResponseIsThisCalls, RequestFails, Return
<1> QED
  BY <1>3, <1>4 DEF RpcInv

LEMMA EndResponseInv == RpcInv /\ EndResponse => RpcInv'
<1> SUFFICES ASSUME RpcInv, EndResponse PROVE RpcInv'
  OBVIOUS
<1>1. ret' \in Returns
  <2>1. Text(id, resp.len, ResponseIsWhole) \in Texts
    <3>1. id \in Nat /\ resp.len \in Nat /\ ResponseIsWhole \in BOOLEAN
      BY DEF RpcInv, RpcTypeOK, ResponseIsWhole
    <3> QED
      BY <3>1 DEF Text, Texts
  <2>2. \/ Return("SUCCESS", Text(id, resp.len, ResponseIsWhole))
        \/ ret' = ret
    BY Zenon DEF EndResponse
  <2> QED
    BY <2>1, <2>2, ReturnTyped DEF RpcInv, RpcTypeOK
<1>2. pc' \in {"idle", "parse"} /\ answer' \in [kind : Kinds, len : Nat]
  BY DEF RpcInv, RpcTypeOK, EndResponse, Return, NoAnswer, Kinds
<1>3. RpcTypeOK'
  BY <1>1, <1>2 DEF RpcInv, RpcTypeOK, EndResponse
<1>4. BuffersHold' /\ PostedRequestIsWhole' /\ ResponseIsThisCalls'
  BY <1>2 DEF RpcInv, BuffersHold, Holds, PostedRequestIsWhole,
     ResponseIsThisCalls, ResponseIsWhole, SentChunks, EndResponse
<1> QED
  BY <1>3, <1>4 DEF RpcInv

LEMMA ParseInv == RpcInv /\ Parse => RpcInv'
<1> SUFFICES ASSUME RpcInv, Parse PROVE RpcInv'
  OBVIOUS
<1>1. PICK a \in Found :
        \/ /\ text' = Text(id, a.len, ResponseIsWhole)
           /\ pc' = "copy" /\ UNCHANGED ret
        \/ Return("SUCCESS", result.str) /\ UNCHANGED text
        \/ Return("OBJ_IS_NULL", NoText) /\ UNCHANGED text
        \/ Return("ERROR", NoText) /\ UNCHANGED text
  BY DEF Parse
<1>2. a.len \in Nat
  BY AnswersTyped DEF Found, RpcInv, RpcTypeOK
<1>3. Text(id, a.len, ResponseIsWhole) \in Texts
  <2>1. id \in Nat /\ ResponseIsWhole \in BOOLEAN
    BY DEF RpcInv, RpcTypeOK, ResponseIsWhole
  <2> QED
    BY <1>2, <2>1 DEF Text, Texts
<1>4. /\ ret' \in Returns /\ text' \in Texts
      /\ pc' \in {"idle", "copy"}
  <2>1. RpcTypeOK /\ ret \in Returns /\ text \in Texts /\ result.str \in Texts
    BY DEF RpcInv, RpcTypeOK, Buffers
  <2>2. /\ ret' \in Returns
        /\ text' \in Texts
    BY <1>1, <1>3, <2>1, ReturnTyped, NoTextTyped
  <2>3. pc' \in {"idle", "copy"}
    BY <1>1 DEF Return
  <2> QED
    BY <2>2, <2>3
<1>5. RpcTypeOK'
  BY <1>4 DEF RpcInv, RpcTypeOK, Parse
<1>6. BuffersHold' /\ PostedRequestIsWhole' /\ ResponseIsThisCalls'
  BY <1>4 DEF RpcInv, BuffersHold, Holds, PostedRequestIsWhole,
     ResponseIsThisCalls, ResponseIsWhole, SentChunks, Parse
<1> QED
  BY <1>5, <1>6 DEF RpcInv

LEMMA CopyInv == RpcInv /\ CopyResult => RpcInv'
<1> SUFFICES ASSUME RpcInv, CopyResult PROVE RpcInv'
  OBVIOUS
<1>1. /\ result \in Buffers /\ Holds(result) /\ text \in Texts
      /\ text.len \in Nat /\ result.len \in Nat /\ text.len < result.len
      /\ result' = [result EXCEPT !.str = text]
  BY DEF RpcInv, RpcTypeOK, BuffersHold, CopyResult, Buffers, Texts
<1>2. result' \in Buffers /\ Holds(result') /\ result'.len = result.len
  BY <1>1 DEF Buffers, Holds
<1>3. ret' \in Returns
  BY <1>1, ReturnTyped DEF RpcInv, CopyResult
<1>4. RpcTypeOK'
  BY <1>2, <1>3 DEF RpcInv, RpcTypeOK, CopyResult, Return
<1>5. BuffersHold' /\ PostedRequestIsWhole' /\ ResponseIsThisCalls'
  BY <1>2 DEF RpcInv, BuffersHold, Holds, PostedRequestIsWhole,
     ResponseIsThisCalls, CopyResult, Return
<1> QED
  BY <1>4, <1>5 DEF RpcInv

LEMMA RpcStepInv == RpcInv /\ [RpcNext]_rpcVars => RpcInv'
<1>1. RpcInv /\ UNCHANGED rpcVars => RpcInv'
  <2> SUFFICES ASSUME RpcInv, UNCHANGED rpcVars PROVE RpcInv'
    OBVIOUS
  <2>1. RpcTypeOK'
    BY DEF rpcVars, RpcInv, RpcTypeOK
  <2>2. BuffersHold' /\ PostedRequestIsWhole'
    BY DEF rpcVars, RpcInv, BuffersHold, Holds, PostedRequestIsWhole
  <2>3. ResponseIsThisCalls'
    BY DEF rpcVars, RpcInv, ResponseIsThisCalls, ResponseIsWhole, SentChunks
  <2> QED
    BY <2>1, <2>2, <2>3 DEF RpcInv
<1> QED
  BY <1>1, ContextInv, CallInv, FormatInv, ExpandInv, PostInv, ReceiveInv, RequestFailsInv,
     EndResponseInv, ParseInv, CopyInv
  DEF RpcNext, CallStep

-----------------------------------------------------------------------------

LEMMA RpcInvAlways == RpcSpec => []RpcInv
BY RpcInitInv, RpcStepInv, PTL DEF RpcSpec

(***************************************************************************)
(* The variables have their types and every buffer is whole steps long.    *)
(***************************************************************************)
THEOREM RpcTypeCorrect == RpcSpec => []RpcTypeOK
BY RpcInvAlways, PTL DEF RpcInv

(***************************************************************************)
(* No request, response or result ever runs over its buffer, for every     *)
(* step size and every length of request, piece and result.                *)
(***************************************************************************)
THEOREM RpcBuffersHold == RpcSpec => []BuffersHold
BY RpcInvAlways, PTL DEF RpcInv

(***************************************************************************)
(* Whatever was formatted, cut short or lost before, what is posted is the *)
(* whole request of the running call.                                      *)
(***************************************************************************)
THEOREM RpcPostsWholeRequests == RpcSpec => []PostedRequestIsWhole
BY RpcInvAlways, PTL DEF RpcInv

(***************************************************************************)
(* The response buffer never mixes the responses of two calls, and is      *)
(* complete if no allocation failed in this one.                           *)
(***************************************************************************)
THEOREM RpcResponsesDoNotMix == RpcSpec => []ResponseIsThisCalls
BY RpcInvAlways, PTL DEF RpcInv

-----------------------------------------------------------------------------
\* Answers

(***************************************************************************)
(* What is about to be copied out belongs to this call, and is the node's  *)
(* answer unless an allocation failed.  The conjunction is inductive       *)
(* together with RpcInv.                                                   *)
(***************************************************************************)
TextInv ==
    pc = "copy" =>
        /\ text.of = id
        /\ starved \/ (text.whole /\ text.len = answer.len)

(***************************************************************************)
(* What the last call returned is not touched when the context goes down.  *)
(***************************************************************************)
DownInv ==
    pc = "down" =>
        /\ ret.code = "SUCCESS" => ret.str.of = id \/ CopiesNothing(answer) \/ starved
        /\ ~starved /\ Copies(answer) =>
              /\ ret.code = "SUCCESS" /\ ret.str.of = id /\ ret.str.whole
              /\ child # "raw" => ret.str.len = answer.len

AnswerInv == TextInv /\ DownInv /\ NoStaleAnswer /\ HealthyCallAnswers

LEMMA AnswerInitInv == RpcInit => AnswerInv
BY DEF RpcInit, AnswerInv, TextInv, DownInv, NoStaleAnswer, HealthyCallAnswers, NoReturn,
   NoAnswer, Copies

(***************************************************************************)
(* Inside a call, away from the copying, nothing is claimed.               *)
(***************************************************************************)
LEMMA StillCalling == pc' \notin {"idle", "copy", "down"} => AnswerInv'
BY DEF AnswerInv, TextInv, DownInv, NoStaleAnswer, HealthyCallAnswers

LEMMA NoMemoryAnswers == OutOfMemory => AnswerInv'
BY DEF OutOfMemory, Return, AnswerInv, TextInv, DownInv, NoStaleAnswer, HealthyCallAnswers

LEMMA EndResponseAnswers ==
    ASSUME RpcInv, EndResponse PROVE AnswerInv'
<1>1. CASE child = "raw"
  <2>1. /\ pc' = "idle" /\ id' = id /\ child' = "raw" /\ starved' = starved
        /\ ret' = [code |-> "SUCCESS", str |-> Text(id, resp.len, ResponseIsWhole)]
    BY <1>1, Zenon DEF EndResponse, Return
  <2>2. ret'.code = "SUCCESS" /\ ret'.str.of = id /\ ret'.str.whole = ResponseIsWhole
    BY <2>1 DEF Text
  <2>3. starved \/ ResponseIsWhole
    BY DEF RpcInv, ResponseIsThisCalls, EndResponse
  <2> QED
    BY <2>1, <2>2, <2>3
       DEF AnswerInv, TextInv, DownInv, NoStaleAnswer, HealthyCallAnswers
<1>2. CASE child # "raw"
  BY <1>2, StillCalling DEF EndResponse
<1> QED
  BY <1>1, <1>2

LEMMA ParseAnswers ==
    ASSUME RpcInv, Parse PROVE AnswerInv'
<1>1. /\ pc = "parse"
      /\ UNCHANGED <<id, child, answer, starved>>
  BY DEF Parse
<1>2. PICK a \in Found :
          \/ /\ Copies(a)
             /\ text' = Text(id, a.len, ResponseIsWhole)
             /\ pc' = "copy" /\ UNCHANGED ret
          \/ /\ CopiesNothing(a)
             /\ Return("SUCCESS", result.str) /\ UNCHANGED text
          \/ /\ ~Copies(a) /\ ~CopiesNothing(a)
             /\ Return(IF a.kind = "null" THEN "OBJ_IS_NULL" ELSE "ERROR", NoText)
             /\ UNCHANGED text
  BY Zenon DEF Parse
<1>3. starved \/ ResponseIsWhole
  BY <1>1 DEF RpcInv, ResponseIsThisCalls
<1>4. ResponseIsWhole => a = answer
  BY DEF Found
<1>5. CASE Copies(a) /\ text' = Text(id, a.len, ResponseIsWhole) /\ pc' = "copy"
  BY <1>1, <1>3, <1>4, <1>5
     DEF AnswerInv, TextInv, DownInv, NoStaleAnswer, HealthyCallAnswers, Text
<1>6. CASE CopiesNothing(a) /\ Return("SUCCESS", result.str)
  <2>1. ~Copies(a)
    BY <1>6 DEF CopiesNothing, Copies
  <2>2. pc' = "idle" /\ (starved' \/ (CopiesNothing(answer)' /\ ~Copies(answer)'))
    BY <1>1, <1>3, <1>4, <1>6, <2>1 DEF Return, CopiesNothing, Copies
  <2> QED
    BY <2>2 DEF AnswerInv, TextInv, DownInv, NoStaleAnswer, HealthyCallAnswers
<1>7. CASE /\ ~Copies(a)
           /\ Return(IF a.kind = "null" THEN "OBJ_IS_NULL" ELSE "ERROR", NoText)
  <2>1. pc' = "idle" /\ ret'.code # "SUCCESS"
    BY <1>7 DEF Return
  <2>2. starved' \/ ~Copies(answer)'
    BY <1>1, <1>3, <1>4, <1>7 DEF Copies
  <2> QED
    BY <2>1, <2>2 DEF AnswerInv, TextInv, DownInv, NoStaleAnswer, HealthyCallAnswers
<1> QED
  BY <1>2, <1>5, <1>6, <1>7

LEMMA CopyAnswers ==
    ASSUME RpcInv, AnswerInv, CopyResult PROVE AnswerInv'
<1>1. /\ pc = "copy" /\ pc' = "idle"
      /\ ret' = [code |-> "SUCCESS", str |-> text]
      /\ UNCHANGED <<id, child, answer, starved>>
  BY DEF CopyResult, Return
<1>2. ret'.code = "SUCCESS" /\ ret'.str = text
  BY <1>1
<1>3. text.of = id /\ (starved \/ (text.whole /\ text.len = answer.len))
  BY <1>1 DEF AnswerInv, TextInv
<1> QED
  BY <1>1, <1>2, <1>3
     DEF AnswerInv, TextInv, DownInv, NoStaleAnswer, HealthyCallAnswers

LEMMA AnswerStepInv ==
    ASSUME RpcInv, AnswerInv, [RpcNext]_rpcVars PROVE AnswerInv'
<1>1. CASE Web3Call
  BY <1>1, StillCalling
     DEF Web3Call, Call, web3_getTransactionCount, web3_gasPrice, web3_getBalance,
         web3_sendRawTransaction, web3_call, web3_getTransactionReceiptStatus,
         web3_eth_sendRestfulCallWithJsonItem, web3_getStorageAt,
         platon_web3_call, web3_fillTransaction, web3_sendRawPrivateTransaction
<1>10. CASE web3_init \/ web3_deinit
  BY <1>10 DEF web3_init, web3_deinit, AnswerInv, TextInv, DownInv, NoStaleAnswer,
               HealthyCallAnswers, CopiesNothing, Copies
<1>2. CASE FormatRequest \/ Post \/ ReceiveChunk
  BY <1>2, StillCalling DEF FormatRequest, Post, ReceiveChunk
<1>3. CASE ExpandRequest
  BY <1>3, StillCalling, NoMemoryAnswers DEF ExpandRequest
<1>4. CASE RequestFails
  <2>1. pc' = "idle" /\ ret'.code = "ERROR" /\ answer'.kind = "bad"
    BY <1>4 DEF RequestFails, Return, NoAnswer
  <2> QED
    BY <2>1 DEF AnswerInv, TextInv, DownInv, NoStaleAnswer, HealthyCallAnswers, Copies
<1>5. CASE EndResponse
  BY <1>5, EndResponseAnswers
<1>6. CASE Parse
  BY <1>6, ParseAnswers
<1>7. CASE ExpandResult
  <2>1. CASE OutOfMemory
    BY <2>1, NoMemoryAnswers
  <2>2. CASE UNCHANGED <<pc, ret, starved>>
    BY <1>7, <2>2 DEF ExpandResult, AnswerInv, TextInv, DownInv, NoStaleAnswer,
                      HealthyCallAnswers
  <2> QED
    BY <1>7, <2>1, <2>2 DEF ExpandResult
<1>8. CASE CopyResult
  BY <1>8, CopyAnswers
<1>9. CASE UNCHANGED rpcVars
  BY <1>9 DEF rpcVars, AnswerInv, TextInv, DownInv, NoStaleAnswer, HealthyCallAnswers,
              CopiesNothing, Copies
<1> QED
  BY <1>1, <1>2, <1>3, <1>4, <1>5, <1>6, <1>7, <1>8, <1>9,
     <1>10 DEF RpcNext, CallStep

LEMMA AnswerInvAlways == RpcSpec => []AnswerInv
BY RpcInvAlways, AnswerInitInv, AnswerStepInv, PTL DEF RpcSpec

(***************************************************************************)
(* A successful call never returns what an earlier call was answered,      *)
(* whatever fails in between and for all sizes.                            *)
(***************************************************************************)
THEOREM RpcNoStaleAnswer == RpcSpec => []NoStaleAnswer
BY AnswerInvAlways, PTL DEF AnswerInv

(***************************************************************************)
(* After any number of failed calls, a call in which nothing fails returns *)
(* the whole of the node's answer.                                         *)
(***************************************************************************)
THEOREM RpcHealthyCallAnswers == RpcSpec => []HealthyCallAnswers
BY AnswerInvAlways, PTL DEF AnswerInv

=============================================================================
