------------------------ MODULE NetworkStore_proofs ------------------------
(***************************************************************************)
(* Proofs about NetworkStore for every number of networks, every set of    *)
(* network values, and with any number of failed writes and power losses:  *)
(* the three protocols never give out an index twice.                      *)
(***************************************************************************)
EXTENDS NetworkStore, FlashArea_proofs

(***************************************************************************)
(* The area holds records with an index of their own.                      *)
(***************************************************************************)
AreaInv(a) == NumberedArea(a, Records, MaxNum)

Calls ==
    [op : {"none", "create", "delete"}, protocol : Protocols \union {"none"},
     index : 0..MaxNum, net : Networks \union {NoNetwork}, slot : 0..MaxNum,
     before : Seq(Records), mishaps : Nat]

CallTyped == call \in Calls

(***************************************************************************)
(* What the running call has found or done: a network to be written has a  *)
(* new index, one to be deleted is where the call found it, and a record   *)
(* behind the others has an index of its own, so that it may be counted.   *)
(***************************************************************************)
CallInv ==
    /\ pc # "idle" => call.index \in Indexes
    /\ pc = "put" =>
          call.net \in Networks /\ Absent(area, call.index) /\ Count(area) < MaxNum
    /\ pc = "count" => Behind(area) /\ call.slot = Count(area) + 1
    /\ pc = "lower" => call.slot \in Slots(area, call.index)
    /\ pc \in {"shift", "raise"} => Behind(area)
    /\ pc = "shift" => call.slot \in 1..Len(area.recs)

(***************************************************************************)
(* A failed read is taken for an empty area, so all this is about flash    *)
(* that can be read.                                                       *)
(***************************************************************************)
Readable == AreaInv(area) /\ CallTyped /\ CallInv

OneTimeTyped ==
    \/ oneTime = NoOneTime
    \/ oneTime \in [protocol : Protocols, net : Networks]

NetworkInv ==
    /\ blind \in Nat
    /\ OneTimeTyped
    /\ blind = 0 => Readable

-----------------------------------------------------------------------------
\* The records

LEMMA NetworkRecords == \A r \in Records : r.index \in 1..MaxNum
  BY DEF Records, Indexes

LEMMA RecIsRecord ==
    ASSUME NEW p \in Protocols, NEW i \in Indexes, NEW net \in Networks
    PROVE  Rec(p, i, net) \in Records /\ Rec(p, i, net).index = i
  BY DEF Rec, Records

(***************************************************************************)
(* FreeIndex takes the least index that no protocol has.                   *)
(***************************************************************************)
LEMMA FreeIndexIsFree ==
    ASSUME NEW p, AreaInv(area), Count(area) < MaxNum
    PROVE  FreeIndex(p) \in Indexes /\ Absent(area, FreeIndex(p))
  <1> DEFINE Free(i) == Slots(area, i) = {}
             Lower(i) == \A j \in 1..i - 1 : Slots(area, j) # {}
             f == FreeIndex(p)
  <1>1. \E i \in Indexes : Free(i) /\ Lower(i)
    <2>1. MaxNum \in Nat /\ Count(area) \in Nat
      BY AreaFacts DEF AreaInv
    <2> QED
      BY <2>1, LeastFreeIndex DEF Indexes
  <1>2. f = CHOOSE i \in Indexes : Free(i) /\ Lower(i)
    BY DEF FreeIndex
  <1> HIDE DEF Free, Lower, f
  <1>3. f \in Indexes /\ Free(f)
    BY <1>1, <1>2
  <1>4. f \in Indexes /\ Absent(area, f)
    BY <1>3 DEF Free, Slots, Absent
  <1> QED
    BY <1>4 DEF f

-----------------------------------------------------------------------------
\* The steps

LEMMA NetworkInitInv == NetworkInit => NetworkInv
  <1> SUFFICES ASSUME NetworkInit PROVE NetworkInv
    OBVIOUS
  <1>1. AreaInv(EmptyArea)
    BY NetworkRecords, NetworkAssumption, EmptyAreaInv DEF AreaInv
  <1>2. CallTyped
    <2>1. <<>> \in Seq(Records) /\ 0 \in 0..MaxNum
      BY NetworkAssumption
    <2> QED
      BY <2>1 DEF NetworkInit, CallTyped, Calls
  <1>3. CallInv
    BY DEF NetworkInit, CallInv
  <1> QED
    BY <1>1, <1>2, <1>3 DEF NetworkInit, NetworkInv, Readable, OneTimeTyped

(***************************************************************************)
(* Between calls nothing is claimed but the area's own invariant.          *)
(***************************************************************************)
LEMMA OverTyped == CallTyped => Over(call) \in Calls
  <1>1. <<>> \in Seq(Records) /\ 0 \in 0..MaxNum
    BY NetworkAssumption
  <1> QED
    BY <1>1 DEF CallTyped, Calls, Over

LEMMA ReturnInv ==
    ASSUME NetworkInv, blind = 0 => AreaInv(area'), Return
    PROVE  NetworkInv'
  BY OverTyped DEF Return, NetworkInv, Readable, CallTyped, Calls, CallInv, OneTimeTyped

(***************************************************************************)
(* A failed write leaves the area as it was.  The call returns, or goes on *)
(* to an attempt to repair, which wants no more than the step that failed. *)
(***************************************************************************)
LEMMA WriteFailsInv ==
    ASSUME NetworkInv, NEW next, WriteFails(next),
           next \in {"idle", "countOverRecord", "raise"},
           next # "idle" => pc # "idle", next = "raise" => pc = "shift"
    PROVE  NetworkInv'
  <1> DEFINE hit == [call EXCEPT !.mishaps = @ + 1]
  <1>1. /\ pc' = next /\ UNCHANGED <<area, oneTime, blind>>
        /\ call' = IF next = "idle" THEN Over(hit) ELSE hit
    BY DEF WriteFails
  <1>2. ASSUME blind = 0 PROVE Readable'
    <2>1. AreaInv(area) /\ CallTyped /\ CallInv
      BY <1>2 DEF NetworkInv, Readable
    <2>2. /\ hit \in Calls
          /\ hit.index = call.index
      BY <2>1 DEF CallTyped, Calls
    <2>3. CallTyped'
      <3>1. <<>> \in Seq(Records) /\ 0 \in 0..MaxNum
        BY NetworkAssumption
      <3> HIDE DEF hit
      <3> QED
        BY <1>1, <2>2, <3>1 DEF CallTyped, Calls, Over
    <2>4. CallInv'
      <3> HIDE DEF hit
      <3> QED
        BY <1>1, <2>1, <2>2 DEF CallInv
    <2> QED
      BY <1>1, <2>1, <2>3, <2>4 DEF Readable
  <1> QED
    BY <1>1, <1>2 DEF NetworkInv, OneTimeTyped

(***************************************************************************)
(* After a failed read nothing is claimed.                                 *)
(***************************************************************************)
LEMMA ReadFailsInv ==
    ASSUME NetworkInv, NEW next, ReadFails(next)
    PROVE  NetworkInv'
  BY DEF ReadFails, NetworkInv, OneTimeTyped

LEMMA CreateInv ==
    ASSUME NetworkInv, NEW p \in Protocols, NetworkCreate(p)
    PROVE  NetworkInv'
  <1>1. PICK net \in Networks :
          \/ /\ Count(area) < MaxNum
             /\ Called("create", p, FreeIndex(p), net, 0)
             /\ Goto("put")
          \/ /\ Called("create", p, 1, net, 0)
             /\ ReadFails("put")
    BY DEF NetworkCreate
  <1>2. CASE ReadFails("put")
    BY <1>2, ReadFailsInv
  <1>3. CASE /\ Count(area) < MaxNum
             /\ Called("create", p, FreeIndex(p), net, 0)
             /\ Goto("put")
    <2>1. /\ pc' = "put" /\ UNCHANGED <<area, oneTime, blind>>
          /\ call' = [op |-> "create", protocol |-> p, index |-> FreeIndex(p), net |-> net,
                      slot |-> 0, before |-> Listed(area), mishaps |-> 0]
      BY <1>3 DEF Goto, Called, NetworkCreate
    <2>2. ASSUME blind = 0 PROVE Readable'
      <3>1. AreaInv(area)
        BY <2>2 DEF NetworkInv, Readable
      <3>2. FreeIndex(p) \in Indexes /\ Absent(area, FreeIndex(p))
        BY <1>3, <3>1, FreeIndexIsFree
      <3>3. CallTyped'
        <4>1. Listed(area) \in Seq(Records)
          BY <3>1, ListedFacts DEF AreaInv
        <4>2. FreeIndex(p) \in 0..MaxNum /\ 0 \in 0..MaxNum
          BY <3>2, NetworkAssumption DEF Indexes
        <4> QED
          BY <2>1, <4>1, <4>2 DEF CallTyped, Calls
      <3>4. call'.index = FreeIndex(p) /\ call'.net = net
        BY <2>1
      <3>5. CallInv'
        BY <1>3, <2>1, <3>2, <3>4 DEF CallInv
      <3> QED
        BY <2>1, <3>1, <3>3, <3>5 DEF Readable
    <2> QED
      BY <2>1, <2>2 DEF NetworkInv, OneTimeTyped
  <1> QED
    BY <1>1, <1>2, <1>3

(***************************************************************************)
(* Writing behind the last record leaves the count as it is.               *)
(***************************************************************************)
LEMMA PutRecordCount ==
    ASSUME NEW a, AreaInv(a), NEW r PROVE Count(PutRecord(a, r)) = Count(a)
  <1> DEFINE q == Append(Listed(a), r)
  <1>1. a \in [num : Unset..MaxNum, recs : Seq(Records)]
    BY DEF AreaInv, NumberedArea
  <1>2. PutRecord(a, r) = [a EXCEPT !.recs = q]
    BY DEF PutRecord
  <1> HIDE DEF q
  <1>3. PutRecord(a, r).num = a.num
    BY <1>1, <1>2
  <1> QED
    BY <1>3 DEF Count

LEMMA PutInv ==
    ASSUME NetworkInv, NEW p \in Protocols, PutNetwork(p)
    PROVE  NetworkInv'
  <1> DEFINE rec == Rec(p, call.index, call.net)
  <1>1. pc = "put"
    BY DEF PutNetwork
  <1>2. CASE WriteFails("idle")
    BY <1>2, WriteFailsInv
  <1>3. CASE ReadFails("count")
    BY <1>3, ReadFailsInv
  <1>4. CASE Return /\ UNCHANGED area
    BY <1>4, ReturnInv DEF NetworkInv, Readable
  <1>5. CASE /\ Count(area) < MaxNum
             /\ area' = PutRecord(area, rec)
             /\ call' = [call EXCEPT !.slot = Count(area) + 1]
             /\ Goto("count")
    <2>1. pc' = "count" /\ UNCHANGED <<oneTime, blind>>
      BY <1>5 DEF Goto
    <2>2. ASSUME blind = 0 PROVE Readable'
      <3>1. /\ AreaInv(area) /\ CallTyped /\ call.index \in Indexes /\ call.net \in Networks
            /\ Absent(area, call.index)
        BY <1>1, <2>2 DEF NetworkInv, Readable, CallInv
      <3>2. rec \in Records /\ rec.index = call.index
        BY <3>1, RecIsRecord
      <3> HIDE DEF rec
      <3>3. AreaInv(area') /\ Behind(area')
        BY <1>5, <3>1, <3>2, PutRecordInv DEF AreaInv
      <3>4. Count(area') = Count(area)
        BY <1>5, <3>1, PutRecordCount
      <3>5. CallTyped' /\ call'.slot = Count(area') + 1 /\ call'.index = call.index
        <4>1. Count(area) + 1 \in 0..MaxNum
          BY <1>5, <3>1, AreaFacts DEF AreaInv
        <4> QED
          BY <1>5, <3>1, <3>4, <4>1 DEF CallTyped, Calls
      <3>6. CallInv'
        BY <2>1, <3>1, <3>3, <3>5 DEF CallInv
      <3> QED
        BY <3>3, <3>5, <3>6 DEF Readable
    <2> QED
      BY <2>1, <2>2 DEF NetworkInv, OneTimeTyped
  <1> QED
    BY <1>2, <1>3, <1>4, <1>5 DEF PutNetwork

LEMMA CountInv ==
    ASSUME NetworkInv, NEW p \in Protocols, CountNetwork(p) \/ RaiseCount(p)
    PROVE  NetworkInv'
  <1>1. CASE WriteFails("idle")
    BY <1>1, WriteFailsInv
  <1>2. CASE Return /\ area' = SetCount(area, call.slot) /\ pc = "count"
    <2>1. blind = 0 => AreaInv(area')
      BY <1>2, SetCountInv DEF NetworkInv, Readable, CallInv, AreaInv
    <2> QED
      BY <1>2, <2>1, ReturnInv
  <1>3. CASE Return /\ area' = SetCount(area, Count(area) + 1) /\ pc = "raise"
    <2>1. blind = 0 => AreaInv(area')
      BY <1>3, SetCountInv DEF NetworkInv, Readable, CallInv, AreaInv
    <2> QED
      BY <1>3, <2>1, ReturnInv
  <1> QED
    BY <1>1, <1>2, <1>3 DEF CountNetwork, RaiseCount

LEMMA DeleteInv ==
    ASSUME NetworkInv, NEW p \in Protocols, NEW index \in Indexes, NetworkDelete(p, index)
    PROVE  NetworkInv'
  <1>1. PICK s \in FoundAt(p, index) :
          Called("delete", p, index, area.recs[s].net, s)
    BY DEF NetworkDelete
  <1>2. /\ pc' = "lower" /\ UNCHANGED <<area, oneTime, blind>>
        /\ call' = [op |-> "delete", protocol |-> p, index |-> index,
                    net |-> area.recs[s].net, slot |-> s,
                    before |-> Listed(area), mishaps |-> 0]
    BY <1>1 DEF NetworkDelete, Goto, Called
  <1>3. ASSUME blind = 0 PROVE Readable'
    <2>1. AreaInv(area)
      BY <1>3 DEF NetworkInv, Readable
    <2>2. s \in Slots(area, index)
      BY DEF FoundAt
    <2>3. s \in 1..Count(area) /\ s \in 0..MaxNum /\ s \in 1..Len(area.recs)
      BY <2>1, <2>2, AreaFacts DEF Slots, AreaInv
    <2>4. area.recs[s].net \in Networks
      <3>1. area.recs[s] \in Records
        BY <2>1, <2>3, AreaFacts DEF AreaInv
      <3> QED
        BY <3>1 DEF Records
    <2>5. CallTyped'
      <3>1. Listed(area) \in Seq(Records)
        BY <2>1, ListedFacts DEF AreaInv
      <3>2. index \in 0..MaxNum
        BY NetworkAssumption DEF Indexes
      <3> QED
        BY <1>2, <2>3, <2>4, <3>1, <3>2 DEF CallTyped, Calls
    <2>6. call'.index = index /\ call'.slot = s
      BY <1>2
    <2>7. CallInv'
      BY <1>2, <2>2, <2>6 DEF CallInv
    <2> QED
      BY <1>2, <2>1, <2>5, <2>7 DEF Readable
  <1> QED
    BY <1>2, <1>3 DEF NetworkInv, OneTimeTyped

LEMMA LowerInv ==
    ASSUME NetworkInv, NEW p \in Protocols, LowerNetworkCount(p)
    PROVE  NetworkInv'
  <1>1. pc = "lower"
    BY DEF LowerNetworkCount
  <1>2. CASE WriteFails("idle")
    BY <1>2, WriteFailsInv
  <1>3. ASSUME NEW next \in {"wipe", "shift"},
               area' = LowerCount(area), Goto(next), UNCHANGED call
        PROVE  NetworkInv'
    <2>1. pc' = next /\ UNCHANGED <<oneTime, blind>>
      BY <1>3 DEF Goto
    <2>2. ASSUME blind = 0 PROVE Readable'
      <3>1. /\ AreaInv(area) /\ CallTyped /\ call.index \in Indexes
            /\ call.slot \in Slots(area, call.index)
        BY <1>1, <2>2 DEF NetworkInv, Readable, CallInv
      <3>2. AreaInv(area') /\ Behind(area') /\ call.slot \in 1..Len(area'.recs)
        BY <1>3, <3>1, LowerCountInv DEF AreaInv, Indexes
      <3>3. CallInv'
        BY <1>3, <2>1, <3>1, <3>2 DEF CallInv
      <3> QED
        BY <1>3, <3>1, <3>2, <3>3 DEF Readable, CallTyped, Calls
    <2> QED
      BY <2>1, <2>2 DEF NetworkInv, OneTimeTyped
  <1> QED
    BY <1>2, <1>3 DEF LowerNetworkCount

LEMMA WipeInv ==
    ASSUME NetworkInv, NEW p \in Protocols, WipeLast(p)
    PROVE  NetworkInv'
  <1>1. CASE Return /\ area' = [area EXCEPT !.recs = Listed(area)]
    <2>1. blind = 0 => AreaInv(area')
      BY <1>1, PowerLossInv DEF NetworkInv, Readable, AreaInv
    <2> QED
      BY <1>1, <2>1, ReturnInv
  <1>2. CASE WriteFails(IF pc = "wipe" THEN "countOverRecord" ELSE "idle")
    BY <1>2, WriteFailsInv
  <1> QED
    BY <1>1, <1>2 DEF WipeLast

LEMMA ShiftInv ==
    ASSUME NetworkInv, NEW p \in Protocols, ShiftNetworks(p)
    PROVE  NetworkInv'
  <1>1. pc = "shift"
    BY DEF ShiftNetworks
  <1>2. CASE area' = RemoveSlot(area, call.slot) /\ Return
    <2>1. blind = 0 => AreaInv(area')
      BY <1>1, <1>2, RemoveSlotInv DEF NetworkInv, Readable, CallInv, AreaInv
    <2> QED
      BY <1>2, <2>1, ReturnInv
  <1>3. CASE ReadFails("idle")
    BY <1>3, ReadFailsInv
  <1>4. CASE WriteFails("raise")
    BY <1>1, <1>4, WriteFailsInv
  <1> QED
    BY <1>2, <1>3, <1>4 DEF ShiftNetworks

LEMMA OneTimeInv ==
    ASSUME NetworkInv, NEW p \in Protocols, CreateOneTime(p) \/ DeleteOneTime(p)
    PROVE  NetworkInv'
  <1>1. UNCHANGED <<area, pc, call, blind>>
    BY DEF CreateOneTime, DeleteOneTime
  <1>2. OneTimeTyped'
    BY DEF CreateOneTime, DeleteOneTime, OneTimeTyped
  <1> QED
    BY <1>1, <1>2 DEF NetworkInv, Readable, CallInv, CallTyped, Calls

LEMMA PowerInv ==
    ASSUME NetworkInv, PowerLoss
    PROVE  NetworkInv'
  <1> DEFINE hit == [call EXCEPT !.mishaps = @ + 2]
  <1>1. /\ area' = [area EXCEPT !.recs = Listed(area)] /\ oneTime' = NoOneTime
        /\ call' = Over(hit) /\ pc' = "idle" /\ UNCHANGED blind
    BY DEF PowerLoss
  <1>2. ASSUME blind = 0 PROVE Readable'
    <2>1. AreaInv(area) /\ CallTyped
      BY <1>2 DEF NetworkInv, Readable
    <2>2. AreaInv(area')
      BY <1>1, <2>1, PowerLossInv DEF AreaInv
    <2>3. CallTyped'
      <3>1. <<>> \in Seq(Records) /\ 0 \in 0..MaxNum
        BY NetworkAssumption
      <3>2. hit \in Calls
        BY <2>1 DEF CallTyped, Calls
      <3> HIDE DEF hit
      <3> QED
        BY <1>1, <3>1, <3>2 DEF CallTyped, Calls, Over
    <2>4. CallInv'
      BY <1>1 DEF CallInv
    <2> QED
      BY <2>2, <2>3, <2>4 DEF Readable
  <1> QED
    BY <1>1, <1>2 DEF NetworkInv, OneTimeTyped

(***************************************************************************)
(* The three files are the same program: a step is one of its operations   *)
(* for one of the protocols, or the power goes.                            *)
(***************************************************************************)
StepOf(p) ==
    \/ NetworkCreate(p) \/ PutNetwork(p) \/ CountNetwork(p)
    \/ \E index \in Indexes : NetworkDelete(p, index)
    \/ LowerNetworkCount(p) \/ WipeLast(p) \/ ShiftNetworks(p) \/ RaiseCount(p)
    \/ CreateOneTime(p) \/ DeleteOneTime(p)

LEMMA StepCases ==
    ASSUME NetworkNext PROVE PowerLoss \/ \E p \in Protocols : StepOf(p)
  <1>1. "ethereum" \in Protocols /\ "platon" \in Protocols /\ "quorum" \in Protocols
    BY DEF Protocols
  <1>2. CASE EthNetworks
    BY <1>1, <1>2, Zenon
       DEF EthNetworks, EthNetworkDataCtx_Store, EthNetworkDelete, StepOf
  <1>3. CASE PlatONNetworks
    BY <1>1, <1>3, Zenon
       DEF PlatONNetworks, PlatONNetworkCreate, PlatONNetworkDataCtx_Store,
           PlatONNetworkDelete, PlatONNetworkRemove, StepOf
  <1>4. CASE QuorumNetworks
    BY <1>1, <1>4, Zenon
       DEF QuorumNetworks, QuorumNetworkCreate, QuorumNetworkDataCtx_Store,
           QuorumNetworkDelete, QuorumNetworkRemove, StepOf
  <1> QED
    BY <1>2, <1>3, <1>4 DEF NetworkNext

LEMMA NetworkStepInv == NetworkInv /\ [NetworkNext]_networkVars => NetworkInv'
  <1> SUFFICES ASSUME NetworkInv, [NetworkNext]_networkVars PROVE NetworkInv'
    OBVIOUS
  <1>1. CASE UNCHANGED networkVars
    BY <1>1 DEF networkVars, NetworkInv, OneTimeTyped, Readable, CallInv, CallTyped, Calls
  <1>2. CASE PowerLoss
    BY <1>2, PowerInv
  <1>3. ASSUME NEW p \in Protocols, StepOf(p) PROVE NetworkInv'
    BY <1>3, CreateInv, PutInv, CountInv, DeleteInv, LowerInv, WipeInv, ShiftInv,
       OneTimeInv, Zenon DEF StepOf
  <1> QED
    BY <1>1, <1>2, <1>3, StepCases

LEMMA NetworkInvariant == NetworkSpec => []NetworkInv
  BY NetworkInitInv, NetworkStepInv, PTL DEF NetworkSpec

-----------------------------------------------------------------------------

(***************************************************************************)
(* For every number of networks, whichever protocols create and delete     *)
(* them and however many writes fail or power is lost, an index names at   *)
(* most one network as long as the flash can be read.                      *)
(***************************************************************************)
THEOREM NetworkStoreIndexesUnique == NetworkSpec => []NetworkIndexesUnique
  <1>1. NetworkInv => NetworkIndexesUnique
    <2> SUFFICES ASSUME AreaInv(area), NEW s \in 1..Count(area), NEW t \in 1..Count(area)
                 PROVE  /\ area.recs[s].index \in Indexes
                        /\ area.recs[s].index = area.recs[t].index => s = t
      BY DEF NetworkInv, Readable, NetworkIndexesUnique
    <2>1. s \in 1..Len(area.recs)
      BY AreaFacts DEF AreaInv
    <2>2. area.recs[s].index \in Indexes
      BY <2>1, AreaFacts DEF AreaInv, Indexes
    <2> QED
      BY <2>2 DEF AreaInv, NumberedArea, Distinct
  <1> QED
    BY <1>1, NetworkInvariant, PTL

-----------------------------------------------------------------------------
\* What holds even when a read has failed

(***************************************************************************)
(* The area holds at least the records it counts, whatever they are.       *)
(***************************************************************************)
StoredArea(a) ==
    /\ a \in [num : Unset..MaxNum, recs : Seq(Records)]
    /\ Len(a.recs) \in Count(a)..MaxNum

\* The steps of a delete after the count is lowered and before the gap is closed.
Gap == {"wipe", "countOverRecord", "shift", "raise"}

StoredCall ==
    /\ pc \in {"idle", "put", "count", "lower"} \union Gap
    /\ pc # "idle" => call.protocol \in Protocols /\ call.index \in Indexes
    /\ pc = "put" => call.net \in Networks
    /\ pc = "count" => call.slot \in 1..Len(area.recs)
    /\ pc = "lower" => call.slot \in 1..Count(area)
    /\ pc \in Gap => Count(area) < Len(area.recs)
    /\ pc = "shift" => call.slot \in 1..Len(area.recs)

StoredInv == blind \in Nat /\ StoredArea(area) /\ CallTyped /\ StoredCall

LEMMA StoredFacts ==
    ASSUME NEW a, StoredArea(a)
    PROVE  /\ MaxNum \in Nat \ {0} /\ a.num \in Unset..MaxNum
           /\ a = [num |-> a.num, recs |-> a.recs]
           /\ a.recs \in Seq(Records) /\ Len(a.recs) \in Nat /\ Len(a.recs) <= MaxNum
           /\ Count(a) \in 0..MaxNum /\ Count(a) <= Len(a.recs)
           /\ Listed(a) \in Seq(Records) /\ Len(Listed(a)) = Count(a)
           /\ \A s \in 1..Count(a) : Listed(a)[s] = a.recs[s]
  <1>1. /\ MaxNum \in Nat \ {0} /\ a.num \in Unset..MaxNum
        /\ a = [num |-> a.num, recs |-> a.recs]
        /\ a.recs \in Seq(Records) /\ Len(a.recs) \in Nat
    BY NetworkAssumption DEF StoredArea
  <1>2. Count(a) \in 0..MaxNum
    BY <1>1 DEF Count, Unset
  <1>3. Len(a.recs) <= MaxNum /\ Count(a) <= Len(a.recs)
    BY <1>1, <1>2 DEF StoredArea
  <1>4. /\ Listed(a) \in Seq(Records) /\ Len(Listed(a)) = Count(a)
        /\ \A s \in 1..Count(a) : Listed(a)[s] = a.recs[s]
    BY <1>1, <1>2, <1>3, SubSeqProperties DEF Listed
  <1> QED
    BY <1>1, <1>2, <1>3, <1>4

LEMMA StoredAreaOf ==
    ASSUME NEW n \in Unset..MaxNum, NEW q \in Seq(Records), n <= Len(q), Len(q) <= MaxNum,
           NEW a, a = [num |-> n, recs |-> q]
    PROVE  /\ StoredArea(a) /\ a.recs = q /\ a.num = n
           /\ Count(a) = IF n = Unset THEN 0 ELSE n
  <1>1. a \in [num : Unset..MaxNum, recs : Seq(Records)] /\ a.num = n /\ a.recs = q
    OBVIOUS
  <1>2. Count(a) = IF n = Unset THEN 0 ELSE n
    BY <1>1 DEF Count
  <1>3. Len(q) \in Count(a)..MaxNum
    BY <1>2, NetworkAssumption DEF Unset
  <1> QED
    BY <1>1, <1>2, <1>3 DEF StoredArea

(***************************************************************************)
(* Each write keeps the area stored.                                       *)
(***************************************************************************)
LEMMA StoredCut ==
    ASSUME NEW a, StoredArea(a)
    PROVE  LET b == [a EXCEPT !.recs = Listed(a)]
           IN  StoredArea(b) /\ Count(b) = Count(a) /\ b.recs = Listed(a)
  <1> DEFINE q == Listed(a)
             b == [a EXCEPT !.recs = q]
  <1>1. /\ q \in Seq(Records) /\ Len(q) = Count(a) /\ Count(a) <= MaxNum
        /\ a.num \in Unset..MaxNum /\ a = [num |-> a.num, recs |-> a.recs]
    BY StoredFacts
  <1> HIDE DEF q
  <1>2. b = [num |-> a.num, recs |-> q]
    BY <1>1
  <1>3. a.num <= Len(q)
    BY <1>1 DEF Count, Unset
  <1> HIDE DEF b
  <1>4. StoredArea(b) /\ b.recs = q /\ b.num = a.num
    BY <1>1, <1>2, <1>3, StoredAreaOf
  <1> QED
    BY <1>4 DEF Count, b, q

LEMMA StoredPut ==
    ASSUME NEW a, StoredArea(a), NEW r \in Records, Count(a) < MaxNum
    PROVE  LET b == PutRecord(a, r)
           IN  /\ StoredArea(b) /\ Count(b) = Count(a) /\ Len(b.recs) = Count(a) + 1
               /\ b.recs = Append(Listed(a), r)
  <1> DEFINE l == Listed(a)
             q == Append(l, r)
             b == PutRecord(a, r)
  <1>1. /\ l \in Seq(Records) /\ Len(l) = Count(a) /\ Count(a) \in Nat /\ MaxNum \in Nat
        /\ a.num \in Unset..MaxNum /\ a = [num |-> a.num, recs |-> a.recs]
    BY StoredFacts
  <1>2. b = [a EXCEPT !.recs = q]
    BY DEF PutRecord
  <1> HIDE DEF l, b
  <1>3. q \in Seq(Records) /\ Len(q) = Count(a) + 1
    BY <1>1
  <1> HIDE DEF q
  <1>4. b = [num |-> a.num, recs |-> q]
    BY <1>1, <1>2
  <1>5. a.num <= Len(q) /\ Len(q) <= MaxNum
    BY <1>1, <1>3 DEF Count, Unset
  <1>6. StoredArea(b) /\ b.recs = q /\ b.num = a.num
    BY <1>1, <1>3, <1>4, <1>5, StoredAreaOf
  <1>7. Count(b) = Count(a)
    BY <1>6 DEF Count
  <1> QED
    BY <1>3, <1>6, <1>7 DEF b, q, l

LEMMA StoredSetCount ==
    ASSUME NEW a, StoredArea(a), NEW n \in 1..Len(a.recs)
    PROVE  LET b == SetCount(a, n)
           IN  StoredArea(b) /\ Count(b) = n /\ b.recs = a.recs
  <1> DEFINE b == SetCount(a, n)
  <1>1. /\ a.recs \in Seq(Records) /\ Len(a.recs) \in Nat /\ Len(a.recs) <= MaxNum
        /\ a = [num |-> a.num, recs |-> a.recs] /\ MaxNum \in Nat
    BY StoredFacts
  <1>2. b = [num |-> n, recs |-> a.recs]
    BY <1>1 DEF SetCount
  <1>3. n \in Unset..MaxNum /\ n <= Len(a.recs) /\ n # Unset
    BY <1>1 DEF Unset
  <1> HIDE DEF b
  <1>4. StoredArea(b) /\ Count(b) = n /\ b.recs = a.recs
    BY <1>1, <1>2, <1>3, StoredAreaOf
  <1> QED
    BY <1>4 DEF b

LEMMA StoredLower ==
    ASSUME NEW a, StoredArea(a), Count(a) > 0
    PROVE  LET b == LowerCount(a)
           IN  StoredArea(b) /\ Count(b) = Count(a) - 1 /\ b.recs = Listed(a)
  <1> DEFINE b == LowerCount(a)
             l == Listed(a)
             n == Count(a) - 1
  <1>1. /\ l \in Seq(Records) /\ Len(l) = Count(a) /\ Count(a) \in 0..MaxNum /\ MaxNum \in Nat
    BY StoredFacts
  <1>2. b = [num |-> n, recs |-> l]
    BY DEF LowerCount
  <1>3. n \in Unset..MaxNum /\ n <= Len(l) /\ n # Unset /\ Len(l) <= MaxNum
    BY <1>1 DEF Unset
  <1> HIDE DEF b, l, n
  <1>4. StoredArea(b) /\ Count(b) = n /\ b.recs = l
    BY <1>1, <1>2, <1>3, StoredAreaOf
  <1> QED
    BY <1>4 DEF b, l, n

LEMMA StoredRemove ==
    ASSUME NEW a, StoredArea(a), NEW slot \in 1..Len(a.recs), Count(a) < Len(a.recs)
    PROVE  LET b == RemoveSlot(a, slot)
           IN  StoredArea(b) /\ Count(b) = Count(a) /\ b.recs = RemoveAt(a.recs, slot)
  <1> DEFINE b == RemoveSlot(a, slot)
             p == a.recs
             q == RemoveAt(p, slot)
  <1>1. /\ p \in Seq(Records) /\ Len(p) \in Nat /\ Len(p) <= MaxNum /\ MaxNum \in Nat
        /\ a.num \in Unset..MaxNum /\ a = [num |-> a.num, recs |-> p]
        /\ Count(a) \in Nat
    BY StoredFacts
  <1>2. b = [a EXCEPT !.recs = q]
    BY DEF RemoveSlot
  <1>3. slot \in 1..Len(p) /\ Count(a) < Len(p)
    OBVIOUS
  <1> HIDE DEF b, p
  <1>4. q \in Seq(Records) /\ Len(q) = Len(p) - 1
    BY <1>1, <1>3, RemoveAtFacts
  <1> HIDE DEF q
  <1>5. b = [num |-> a.num, recs |-> q]
    BY <1>1, <1>2
  <1>6. a.num <= Len(q) /\ Len(q) <= MaxNum
    BY <1>1, <1>3, <1>4 DEF Count, Unset
  <1>7. StoredArea(b) /\ b.recs = q /\ b.num = a.num
    BY <1>1, <1>4, <1>5, <1>6, StoredAreaOf
  <1>8. Count(b) = Count(a)
    BY <1>7 DEF Count
  <1> QED
    BY <1>7, <1>8 DEF b, p, q

(***************************************************************************)
(* A record written over the first, after a count that could not be read.  *)
(***************************************************************************)
LEMMA StoredFirst ==
    ASSUME NEW a, StoredArea(a), NEW r \in Records
    PROVE  LET b == [a EXCEPT !.recs = <<r>> \o SubSeq(@, 2, Len(@))]
           IN  StoredArea(b) /\ 1 \in 1..Len(b.recs)
  <1> DEFINE p == a.recs
             one == <<r>>
             rest == SubSeq(p, 2, Len(p))
             q == one \o rest
             b == [a EXCEPT !.recs = <<r>> \o SubSeq(@, 2, Len(@))]
  <1>1. /\ p \in Seq(Records) /\ Len(p) \in Nat /\ Len(p) <= MaxNum /\ MaxNum \in Nat \ {0}
        /\ a.num \in Unset..MaxNum /\ a = [num |-> a.num, recs |-> p]
        /\ Count(a) \in Nat /\ Count(a) <= Len(p)
    BY StoredFacts
  <1>2. b = [a EXCEPT !.recs = q]
    BY <1>1
  <1>3. one \in Seq(Records) /\ Len(one) = 1
    OBVIOUS
  <1> HIDE DEF p, b, one
  <1>4. rest \in Seq(Records) /\ Len(rest) = IF Len(p) = 0 THEN 0 ELSE Len(p) - 1
    BY <1>1, SubSeqProperties
  <1> HIDE DEF rest
  <1>5. q \in Seq(Records) /\ Len(q) = 1 + Len(rest)
    <2>1. rest \in Seq(Records) /\ one \in Seq(Records)
      BY <1>3, <1>4
    <2>2. one \o rest \in Seq(Records) /\ Len(one \o rest) = Len(one) + Len(rest)
      BY <2>1, ConcatProperties
    <2> QED
      BY <1>3, <2>2
  <1> HIDE DEF q
  <1>6. b = [num |-> a.num, recs |-> q]
    BY <1>1, <1>2
  <1>7. a.num <= Len(q) /\ Len(q) <= MaxNum /\ Len(q) >= 1 /\ Len(q) \in Nat
    BY <1>1, <1>4, <1>5 DEF Count, Unset
  <1>8. StoredArea(b) /\ b.recs = q
    BY <1>1, <1>5, <1>6, <1>7, StoredAreaOf
  <1> QED
    BY <1>7, <1>8 DEF b

-----------------------------------------------------------------------------
\* The steps keep what is stored.

LEMMA OverFacts ==
    ASSUME NEW c \in Calls
    PROVE  /\ Over(c) \in Calls
           /\ Over(c).op = c.op /\ Over(c).protocol = c.protocol
           /\ Over(c).index = c.index /\ Over(c).mishaps = c.mishaps
  <1>1. <<>> \in Seq(Records) /\ 0 \in 0..MaxNum
    BY NetworkAssumption
  <1> QED
    BY <1>1 DEF Calls, Over

Hit(c, n) == [c EXCEPT !.mishaps = @ + n]

LEMMA HitFacts ==
    ASSUME NEW c \in Calls, NEW n \in Nat
    PROVE  /\ Hit(c, n) \in Calls
           /\ Hit(c, n).op = c.op /\ Hit(c, n).protocol = c.protocol
           /\ Hit(c, n).index = c.index /\ Hit(c, n).mishaps = c.mishaps + n
           /\ Hit(c, n).slot = c.slot /\ Hit(c, n).before = c.before
           /\ Hit(c, n).net = c.net
  BY DEF Calls, Hit

(***************************************************************************)
(* A failed write leaves the area; its call returns or goes on to repair.  *)
(***************************************************************************)
LEMMA WriteFailsStep ==
    ASSUME NEW next, WriteFails(next)
    PROVE  /\ pc' = next /\ UNCHANGED <<area, oneTime, blind>>
           /\ call' = IF next = "idle" THEN Over(Hit(call, 1)) ELSE Hit(call, 1)
  BY DEF WriteFails, Hit

LEMMA StoredReturn ==
    ASSUME StoredInv, StoredArea(area'), call' \in Calls, pc' = "idle", blind' \in Nat
    PROVE  StoredInv'
  BY DEF StoredInv, CallTyped, StoredCall, Gap

LEMMA StoredWriteFails ==
    ASSUME StoredInv, NEW next \in {"idle"} \union Gap, WriteFails(next),
           next # "idle" => pc \in Gap /\ next # "shift"
    PROVE  StoredInv'
  <1>1. /\ pc' = next /\ area' = area /\ blind' = blind
        /\ call' = IF next = "idle" THEN Over(Hit(call, 1)) ELSE Hit(call, 1)
    BY WriteFailsStep
  <1>2. /\ Hit(call, 1) \in Calls /\ Over(Hit(call, 1)) \in Calls
        /\ Hit(call, 1).protocol = call.protocol /\ Hit(call, 1).index = call.index
    BY HitFacts, OverFacts DEF StoredInv, CallTyped
  <1>3. CASE next = "idle"
    BY <1>1, <1>2, <1>3, StoredReturn DEF StoredInv
  <1>4. CASE next # "idle"
    <2>1. StoredCall'
      BY <1>1, <1>2, <1>4 DEF StoredInv, StoredCall, Gap
    <2> QED
      BY <1>1, <1>2, <1>4, <2>1 DEF StoredInv, CallTyped
  <1> QED
    BY <1>3, <1>4

(***************************************************************************)
(* A free index exists whatever the records are, as long as they are fewer *)
(* than the indexes.                                                       *)
(***************************************************************************)
LEMMA FreeIndexInRange ==
    ASSUME NEW p, StoredArea(area), Count(area) < MaxNum
    PROVE  FreeIndex(p) \in Indexes
  <1> DEFINE Free(i) == Slots(area, i) = {}
             Lower(i) == \A j \in 1..i - 1 : Slots(area, j) # {}
  <1>1. \E i \in Indexes : Free(i) /\ Lower(i)
    <2>1. MaxNum \in Nat /\ Count(area) \in Nat
      BY StoredFacts
    <2> QED
      BY <2>1, LeastFreeIndex DEF Indexes
  <1>2. FreeIndex(p) = CHOOSE i \in Indexes : Free(i) /\ Lower(i)
    BY DEF FreeIndex
  <1> HIDE DEF Free, Lower
  <1> QED
    BY <1>1, <1>2

LEMMA CalledFacts ==
    ASSUME StoredArea(area), NEW op \in {"create", "delete"}, NEW p \in Protocols,
           NEW index \in Indexes, NEW net \in Networks, NEW slot \in 0..MaxNum,
           Called(op, p, index, net, slot)
    PROVE  /\ call' \in Calls
           /\ call'.op = op /\ call'.protocol = p /\ call'.index = index /\ call'.net = net
           /\ call'.slot = slot /\ call'.before = Listed(area) /\ call'.mishaps = 0
  <1> DEFINE l == Listed(area)
  <1>1. l \in Seq(Records) /\ index \in 0..MaxNum
    BY StoredFacts, NetworkAssumption DEF Indexes
  <1>2. call' = [op |-> op, protocol |-> p, index |-> index, net |-> net, slot |-> slot,
                 before |-> l, mishaps |-> 0]
    BY DEF Called
  <1> HIDE DEF l
  <1>3. call' \in Calls
    BY <1>1, <1>2 DEF Calls
  <1> QED
    BY <1>2, <1>3 DEF l

LEMMA StoredCreate ==
    ASSUME StoredInv, NEW p \in Protocols, NetworkCreate(p)
    PROVE  StoredInv'
  <1>1. PICK net \in Networks :
          \/ /\ Count(area) < MaxNum
             /\ Called("create", p, FreeIndex(p), net, 0)
             /\ Goto("put")
          \/ /\ Called("create", p, 1, net, 0)
             /\ ReadFails("put")
    BY DEF NetworkCreate
  <1>2. /\ area' = area /\ StoredArea(area) /\ blind \in Nat
        /\ pc' = "put" /\ blind' \in Nat
    BY <1>1 DEF NetworkCreate, Goto, ReadFails, StoredInv
  <1>3. PICK index \in Indexes : Called("create", p, index, net, 0)
    <2>1. 1 \in Indexes
      BY NetworkAssumption DEF Indexes
    <2> QED
      BY <1>1, <1>2, <2>1, FreeIndexInRange
  <1>4. /\ call' \in Calls /\ call'.protocol \in Protocols /\ call'.index \in Indexes
        /\ call'.net \in Networks
    <2>1. 0 \in 0..MaxNum
      BY NetworkAssumption
    <2> QED
      BY <1>2, <1>3, <2>1, CalledFacts
  <1>5. StoredCall'
    BY <1>2, <1>4 DEF StoredCall, Gap
  <1> QED
    BY <1>2, <1>4, <1>5 DEF StoredInv, CallTyped

LEMMA SlotFacts ==
    ASSUME NEW c \in Calls, NEW n \in 0..MaxNum
    PROVE  LET d == [c EXCEPT !.slot = n]
           IN  /\ d \in Calls /\ d.slot = n /\ d.op = c.op /\ d.protocol = c.protocol
               /\ d.index = c.index /\ d.net = c.net /\ d.mishaps = c.mishaps
  BY DEF Calls

LEMMA StoredPutStep ==
    ASSUME StoredInv, NEW p \in Protocols, PutNetwork(p)
    PROVE  StoredInv'
  <1> DEFINE rec == Rec(p, call.index, call.net)
             over == [area EXCEPT !.recs = <<rec>> \o SubSeq(@, 2, Len(@))]
  <1>1. /\ pc = "put" /\ StoredArea(area) /\ call \in Calls /\ blind \in Nat
        /\ call.protocol \in Protocols /\ call.index \in Indexes
    BY DEF PutNetwork, StoredInv, CallTyped, StoredCall
  <1>2. rec \in Records
    BY RecIsRecord DEF PutNetwork, StoredInv, StoredCall
  <1> HIDE DEF rec
  <1>3. CASE WriteFails("idle")
    BY <1>3, StoredWriteFails
  <1>4. CASE Return /\ UNCHANGED area
    <2>1. call' \in Calls /\ pc' = "idle" /\ blind' = blind
      BY <1>1, <1>4, OverFacts DEF Return
    <2> QED
      BY <1>1, <1>4, <2>1, StoredReturn
  <1>5. ASSUME NEW n \in 1..MaxNum, call' = [call EXCEPT !.slot = n], pc' = "count",
               blind' \in Nat, StoredArea(area'), n \in 1..Len(area'.recs)
        PROVE  StoredInv'
    <2>1. /\ call' \in Calls /\ call'.slot = n /\ call'.protocol = call.protocol
          /\ call'.index = call.index
      BY <1>1, <1>5, SlotFacts
    <2>2. StoredCall'
      BY <1>1, <1>5, <2>1 DEF StoredCall, Gap
    <2> QED
      BY <1>5, <2>1, <2>2 DEF StoredInv, CallTyped
  <1>6. CASE /\ Count(area) < MaxNum /\ area' = PutRecord(area, rec)
             /\ call' = [call EXCEPT !.slot = Count(area) + 1] /\ Goto("count")
    <2>1. StoredArea(area') /\ Len(area'.recs) = Count(area) + 1
      BY <1>1, <1>2, <1>6, StoredPut
    <2>2. Count(area) + 1 \in 1..MaxNum /\ Count(area) + 1 \in 1..Len(area'.recs)
      BY <1>1, <1>6, <2>1, StoredFacts
    <2> QED
      BY <1>1, <1>5, <1>6, <2>1, <2>2 DEF Goto
  <1>7. CASE /\ area' = over
             /\ call' = [call EXCEPT !.slot = 1] /\ ReadFails("count")
    <2>1. StoredArea(area') /\ 1 \in 1..Len(area'.recs)
      BY <1>1, <1>2, <1>7, StoredFirst
    <2>2. 1 \in 1..MaxNum
      BY NetworkAssumption
    <2> QED
      BY <1>1, <1>5, <1>7, <2>1, <2>2 DEF ReadFails
  <1> QED
    BY <1>3, <1>4, <1>6, <1>7 DEF PutNetwork, rec

LEMMA StoredCount ==
    ASSUME StoredInv, NEW p \in Protocols, CountNetwork(p) \/ RaiseCount(p)
    PROVE  StoredInv'
  <1>1. StoredArea(area) /\ call \in Calls /\ blind \in Nat
    BY DEF StoredInv, CallTyped
  <1>2. CASE WriteFails("idle")
    BY <1>2, StoredWriteFails
  <1>3. ASSUME NEW n \in 1..Len(area.recs), area' = SetCount(area, n), Return
        PROVE  StoredInv'
    <2>1. StoredArea(area')
      BY <1>1, <1>3, StoredSetCount
    <2>2. call' \in Calls /\ pc' = "idle" /\ blind' = blind
      BY <1>1, <1>3, OverFacts DEF Return
    <2> QED
      BY <1>1, <2>1, <2>2, StoredReturn
  <1>4. pc = "count" => call.slot \in 1..Len(area.recs)
    BY DEF StoredInv, StoredCall
  <1>5. pc = "raise" => Count(area) + 1 \in 1..Len(area.recs)
    BY <1>1, StoredFacts DEF StoredInv, StoredCall, Gap
  <1> QED
    BY <1>2, <1>3, <1>4, <1>5 DEF CountNetwork, RaiseCount

LEMMA StoredDelete ==
    ASSUME StoredInv, NEW p \in Protocols, NEW index \in Indexes, NetworkDelete(p, index)
    PROVE  StoredInv'
  <1>1. PICK s \in FoundAt(p, index) :
          Called("delete", p, index, area.recs[s].net, s)
    BY DEF NetworkDelete
  <1>2. /\ area' = area /\ StoredArea(area) /\ blind \in Nat
        /\ pc' = "lower" /\ blind' = blind
    BY DEF NetworkDelete, Goto, StoredInv
  <1>3. s \in 1..Count(area) /\ s \in 0..MaxNum /\ area.recs[s].net \in Networks
    <2>1. s \in 1..Count(area)
      BY DEF FoundAt, Slots
    <2>2. s \in 1..Len(area.recs) /\ s \in 0..MaxNum /\ area.recs \in Seq(Records)
      BY <1>2, <2>1, StoredFacts
    <2>3. area.recs[s] \in Records
      BY <2>2
    <2> QED
      BY <2>1, <2>2, <2>3 DEF Records
  <1>4. /\ call' \in Calls /\ call'.protocol \in Protocols /\ call'.index \in Indexes
        /\ call'.slot = s
    BY <1>1, <1>2, <1>3, CalledFacts
  <1>5. StoredCall'
    BY <1>2, <1>3, <1>4 DEF StoredCall, Gap
  <1> QED
    BY <1>2, <1>4, <1>5 DEF StoredInv, CallTyped

LEMMA StoredLowerStep ==
    ASSUME StoredInv, NEW p \in Protocols, LowerNetworkCount(p)
    PROVE  StoredInv'
  <1>1. /\ pc = "lower" /\ StoredArea(area) /\ call.slot \in 1..Count(area)
    BY DEF LowerNetworkCount, StoredInv, StoredCall
  <1>2. CASE WriteFails("idle")
    BY <1>2, StoredWriteFails
  <1>3. CASE /\ area' = LowerCount(area) /\ UNCHANGED call
             /\ Goto(IF call.slot = Count(area) THEN "wipe" ELSE "shift")
    <2>1. Count(area) > 0 /\ Len(Listed(area)) = Count(area) /\ Count(area) \in Nat
      BY <1>1, StoredFacts
    <2>2. /\ StoredArea(area') /\ Count(area') = Count(area) - 1
          /\ area'.recs = Listed(area)
      BY <1>1, <1>3, <2>1, StoredLower
    <2>3. Count(area') < Len(area'.recs) /\ call.slot \in 1..Len(area'.recs)
      BY <1>1, <2>1, <2>2
    <2>4. pc' \in {"wipe", "shift"} /\ blind' = blind
      BY <1>3 DEF Goto
    <2>5. StoredCall'
      BY <1>1, <1>3, <2>3, <2>4 DEF StoredInv, StoredCall, Gap
    <2> QED
      BY <1>3, <2>2, <2>4, <2>5 DEF StoredInv, CallTyped
  <1> QED
    BY <1>2, <1>3 DEF LowerNetworkCount

LEMMA StoredWipe ==
    ASSUME StoredInv, NEW p \in Protocols, WipeLast(p)
    PROVE  StoredInv'
  <1>1. CASE area' = [area EXCEPT !.recs = Listed(area)] /\ Return
    <2>1. StoredArea(area')
      BY <1>1, StoredCut DEF StoredInv
    <2>2. call' \in Calls /\ pc' = "idle" /\ blind' = blind
      BY <1>1, OverFacts DEF Return, StoredInv, CallTyped
    <2> QED
      BY <2>1, <2>2, StoredReturn DEF StoredInv
  <1>2. CASE WriteFails(IF pc = "wipe" THEN "countOverRecord" ELSE "idle")
    <2>1. pc \in Gap
      BY DEF WipeLast, Gap
    <2>2. CASE pc = "wipe"
      <3>1. WriteFails("countOverRecord") /\ "countOverRecord" \in Gap
        BY <1>2, <2>2 DEF Gap
      <3> QED
        BY <2>1, <3>1, StoredWriteFails
    <2>3. CASE pc # "wipe"
      BY <1>2, <2>3, StoredWriteFails
    <2> QED
      BY <2>2, <2>3
  <1> QED
    BY <1>1, <1>2 DEF WipeLast

LEMMA StoredShift ==
    ASSUME StoredInv, NEW p \in Protocols, ShiftNetworks(p)
    PROVE  StoredInv'
  <1>1. /\ pc = "shift" /\ pc \in Gap /\ StoredArea(area) /\ blind \in Nat /\ call \in Calls
        /\ call.slot \in 1..Len(area.recs) /\ Count(area) < Len(area.recs)
    BY DEF ShiftNetworks, StoredInv, CallTyped, StoredCall, Gap
  <1>2. Over(call) \in Calls
    BY <1>1, OverFacts
  <1>3. CASE area' = RemoveSlot(area, call.slot) /\ Return
    <2>1. StoredArea(area')
      BY <1>1, <1>3, StoredRemove
    <2> QED
      BY <1>1, <1>2, <1>3, <2>1, StoredReturn DEF Return
  <1>4. CASE ReadFails("idle") /\ call' = Over(call) /\ UNCHANGED area
    BY <1>1, <1>2, <1>4, StoredReturn DEF ReadFails
  <1>5. CASE WriteFails("raise")
    <2>1. "raise" \in Gap
      BY DEF Gap
    <2> QED
      BY <1>1, <1>5, <2>1, StoredWriteFails
  <1> QED
    BY <1>3, <1>4, <1>5 DEF ShiftNetworks

LEMMA StoredPower ==
    ASSUME StoredInv, PowerLoss
    PROVE  StoredInv'
  <1>1. /\ area' = [area EXCEPT !.recs = Listed(area)]
        /\ call' = Over(Hit(call, 2)) /\ pc' = "idle" /\ blind' = blind
    BY DEF PowerLoss, Hit
  <1>2. StoredArea(area')
    BY <1>1, StoredCut DEF StoredInv
  <1>3. call' \in Calls
    BY <1>1, HitFacts, OverFacts DEF StoredInv, CallTyped
  <1> QED
    BY <1>1, <1>2, <1>3, StoredReturn DEF StoredInv

LEMMA StoredInit == NetworkInit => StoredInv
  <1> SUFFICES ASSUME NetworkInit PROVE StoredInv
    OBVIOUS
  <1>1. <<>> \in Seq(Records) /\ Len(<<>>) = 0 /\ 0 \in 0..MaxNum /\ 0 <= MaxNum
    BY NetworkAssumption
  <1>2. StoredArea(EmptyArea)
    BY <1>1, NetworkAssumption DEF StoredArea, EmptyArea, Count, Unset
  <1>3. CallTyped /\ StoredCall
    BY <1>1 DEF NetworkInit, CallTyped, Calls, StoredCall, Gap
  <1> QED
    BY <1>2, <1>3 DEF NetworkInit, StoredInv

LEMMA StoredStep == StoredInv /\ [NetworkNext]_networkVars => StoredInv'
  <1> SUFFICES ASSUME StoredInv, [NetworkNext]_networkVars PROVE StoredInv'
    OBVIOUS
  <1>1. CASE UNCHANGED <<area, pc, call, blind>>
    BY <1>1 DEF StoredInv, CallTyped, StoredCall
  <1>2. UNCHANGED networkVars => UNCHANGED <<area, pc, call, blind>>
    BY DEF networkVars
  <1>3. CASE PowerLoss
    BY <1>3, StoredPower
  <1>4. ASSUME NEW p \in Protocols, StepOf(p) PROVE StoredInv'
    <2>1. CreateOneTime(p) \/ DeleteOneTime(p) => UNCHANGED <<area, pc, call, blind>>
      BY DEF CreateOneTime, DeleteOneTime
    <2> QED
      BY <1>1, <1>4, <2>1, StoredCreate, StoredPutStep, StoredCount, StoredDelete,
         StoredLowerStep, StoredWipe, StoredShift, Zenon DEF StepOf
  <1> QED
    BY <1>1, <1>2, <1>3, <1>4, StepCases

-----------------------------------------------------------------------------
\* The book

(***************************************************************************)
(* The book that a sequence of records stands for.                         *)
(***************************************************************************)
BookOf(q) == [e \in Protocols \X Indexes |-> LookupIn(q, e[1], e[2])]

Has(q, p, index, net) ==
    \E s \in 1..Len(q) : q[s].index = index /\ q[s].protocol = p /\ q[s].net = net

Numbered(q) ==
    /\ q \in Seq(Records)
    /\ \A s, t \in 1..Len(q) : q[s].index = q[t].index => s = t

LEMMA LookupHas ==
    ASSUME NEW q, Numbered(q), NEW p, NEW index, NEW net, Has(q, p, index, net)
    PROVE  LookupIn(q, p, index) = net
  <1> DEFINE found == {s \in 1..Len(q) : q[s].index = index /\ q[s].protocol = p}
             first(s) == \A t \in found : s <= t
  <1>1. PICK s \in 1..Len(q) : q[s].index = index /\ q[s].protocol = p /\ q[s].net = net
    BY DEF Has
  <1>2. found = {s}
    BY <1>1 DEF Numbered
  <1>3. (CHOOSE u \in found : first(u)) = s
    <2>1. first(s)
      BY <1>2
    <2>2. \E u \in found : first(u)
      BY <1>2, <2>1
    <2> HIDE DEF first
    <2> QED
      BY <1>2, <2>2
  <1>4. LookupIn(q, p, index) = q[CHOOSE u \in found : first(u)].net
    BY <1>2 DEF LookupIn
  <1> QED
    BY <1>1, <1>3, <1>4

LEMMA LookupHasNot ==
    ASSUME NEW q, NEW p, NEW index, \A net : ~Has(q, p, index, net)
    PROVE  LookupIn(q, p, index) = NoNetwork
  BY DEF Has, LookupIn

LEMMA LeastSlot ==
    ASSUME NEW F, F \subseteq Nat, F # {}
    PROVE  \E s \in F : \A t \in F : s <= t
  <1>1. PICK s \in F : \A t \in F : ~(<<t, s>> \in OpToRel(<, Nat))
    BY NatLessThanWellFounded, WFMin
  <1>2. \A t \in F : ~(t < s)
    BY <1>1 DEF OpToRel
  <1> QED
    BY <1>2

(***************************************************************************)
(* A book holds networks, whatever the records are.                        *)
(***************************************************************************)
LEMMA BookOfTyped ==
    ASSUME NEW q \in Seq(Records)
    PROVE  BookOf(q) \in [Protocols \X Indexes -> Networks \union {NoNetwork}]
  <1> SUFFICES ASSUME NEW p, NEW index
               PROVE  LookupIn(q, p, index) \in Networks \union {NoNetwork}
    BY DEF BookOf
  <1> DEFINE found == {s \in 1..Len(q) : q[s].index = index /\ q[s].protocol = p}
             first(s) == \A t \in found : s <= t
  <1>1. CASE found = {}
    BY <1>1 DEF LookupIn
  <1>2. CASE found # {}
    <2>1. \E s \in found : first(s)
      <3>1. found \subseteq Nat
        OBVIOUS
      <3> QED
        BY <1>2, <3>1, LeastSlot
    <2>2. LookupIn(q, p, index) = q[CHOOSE s \in found : first(s)].net
      BY <1>2 DEF LookupIn
    <2>3. PICK s \in found : LookupIn(q, p, index) = q[s].net
      <3> HIDE DEF first
      <3> QED
        BY <2>1, <2>2
    <2>4. q[s] \in Records
      OBVIOUS
    <2> QED
      BY <2>3, <2>4 DEF Records
  <1> QED
    BY <1>1, <1>2

(***************************************************************************)
(* Two sequences that hold the same records but for one make books that    *)
(* differ in its entry only.                                               *)
(***************************************************************************)
LEMMA BookWithout ==
    ASSUME NEW q, Numbered(q), NEW d, Numbered(d),
           NEW p \in Protocols, NEW index \in Indexes,
           \A net : ~Has(d, p, index, net),
           \A P, i, net : P # p \/ i # index => (Has(d, P, i, net) <=> Has(q, P, i, net))
    PROVE  BookOf(d) = [BookOf(q) EXCEPT ![<<p, index>>] = NoNetwork]
  <1>1. LookupIn(d, p, index) = NoNetwork
    BY LookupHasNot
  <1>2. ASSUME NEW P, NEW i, P # p \/ i # index
        PROVE  LookupIn(d, P, i) = LookupIn(q, P, i)
    <2>1. CASE \E net : Has(q, P, i, net)
      <3>1. PICK net : Has(q, P, i, net)
        BY <2>1
      <3> QED
        BY <1>2, <3>1, LookupHas
    <2>2. CASE \A net : ~Has(q, P, i, net)
      <3>1. \A net : ~Has(d, P, i, net)
        BY <1>2, <2>2
      <3> QED
        BY <2>2, <3>1, LookupHasNot
    <2> QED
      BY <2>1, <2>2
  <1> DEFINE E == Protocols \X Indexes
             f == BookOf(q)
             g == BookOf(d)
  <1>3. /\ f = [e \in E |-> f[e]] /\ g = [e \in E |-> g[e]] /\ <<p, index>> \in E
        /\ g[<<p, index>>] = NoNetwork
    BY <1>1 DEF BookOf
  <1>4. ASSUME NEW e \in E, e # <<p, index>> PROVE g[e] = f[e]
    <2>1. e[1] # p \/ e[2] # index
      BY <1>4
    <2> QED
      BY <1>2, <2>1 DEF BookOf
  <1> HIDE DEF E, f, g
  <1>5. g = [f EXCEPT ![<<p, index>>] = NoNetwork]
    BY <1>3, <1>4
  <1> QED
    BY <1>5 DEF f, g

(***************************************************************************)
(* The records the book is read from: those listed, or those that were     *)
(* listed before the delete that is closing its gap.                       *)
(***************************************************************************)
View == IF pc \in Gap THEN call.before ELSE Listed(area)

LEMMA ProtocolCases ==
    ASSUME NEW p \in Protocols, NEW i \in 0..MaxNum
    PROVE  Lookup(p, i) = GetNetworkByIndex(p, i)
  BY DEF Protocols, Lookup, PlatON_GetNetworkByIndex, Quorum_GetNetworkByIndex

LEMMA LookupListed ==
    ASSUME StoredArea(area), NEW p \in Protocols, NEW index \in Indexes
    PROVE  Lookup(p, index) = LookupIn(Listed(area), p, index)
  <1> DEFINE l == Listed(area)
             F == FoundAt(p, index)
             first(s) == \A t \in F : s <= t
  <1>1. /\ Len(l) = Count(area) /\ Count(area) \in Nat
        /\ \A s \in 1..Count(area) : l[s] = area.recs[s]
    BY StoredFacts
  <1>2. Lookup(p, index) = GetNetworkByIndex(p, index) /\ index # 0
    <2>1. index \in 0..MaxNum /\ index # 0
      BY NetworkAssumption DEF Indexes
    <2> QED
      BY <2>1, ProtocolCases
  <1>3. F = {s \in 1..Len(l) : l[s].index = index /\ l[s].protocol = p}
    <2> HIDE DEF l
    <2> QED
      BY <1>1 DEF FoundAt, Slots
  <1>4. F \subseteq 1..Count(area)
    BY DEF FoundAt, Slots
  <1> HIDE DEF l, F
  <1>5. CASE F = {}
    BY <1>2, <1>3, <1>5 DEF GetNetworkByIndex, LookupIn, F, l
  <1>6. CASE F # {}
    <2>1. \E s \in F : first(s)
      <3>1. F \subseteq Nat
        BY <1>1, <1>4
      <3> QED
        BY <1>6, <3>1, LeastSlot
    <2>2. GetNetworkByIndex(p, index) = area.recs[CHOOSE s \in F : first(s)].net
      BY <1>2, <1>6 DEF GetNetworkByIndex, F
    <2>3. LookupIn(l, p, index) = l[CHOOSE s \in F : first(s)].net
      BY <1>3, <1>6 DEF LookupIn
    <2> HIDE DEF first
    <2>4. (CHOOSE s \in F : first(s)) \in 1..Count(area)
      BY <1>4, <2>1
    <2> QED
      BY <1>1, <1>2, <2>2, <2>3, <2>4 DEF l
  <1> QED
    BY <1>5, <1>6

LEMMA BookIsOfView == StoredInv => Book = BookOf(View)
  <1> SUFFICES ASSUME StoredArea(area) PROVE Book = BookOf(View)
    BY DEF StoredInv
  <1>1. ASSUME NEW e \in Protocols \X Indexes
        PROVE  Lookup(e[1], e[2]) = LookupIn(Listed(area), e[1], e[2])
    BY LookupListed
  <1>2. CASE pc \in Gap
    BY <1>2 DEF Book, BookOf, View, Gap
  <1>3. CASE pc \notin Gap
    BY <1>1, <1>3 DEF Book, BookOf, View, Gap
  <1> QED
    BY <1>2, <1>3

LEMMA NextBookIsOfView == StoredInv' => (Book = BookOf(View))'
  BY BookIsOfView, PTL

LEMMA BookTyped ==
    StoredInv => Book \in [Protocols \X Indexes -> Networks \union {NoNetwork}]
  <1> SUFFICES ASSUME StoredInv
               PROVE  Book \in [Protocols \X Indexes -> Networks \union {NoNetwork}]
    OBVIOUS
  <1>1. View \in Seq(Records)
    <2>1. Listed(area) \in Seq(Records)
      BY StoredFacts DEF StoredInv
    <2>2. call.before \in Seq(Records)
      BY DEF StoredInv, CallTyped, Calls
    <2> QED
      BY <2>1, <2>2 DEF View
  <1> HIDE DEF View
  <1>2. Book = BookOf(View)
    BY BookIsOfView
  <1> QED
    BY <1>1, <1>2, BookOfTyped

LEMMA NextBookTyped ==
    StoredInv' => (Book \in [Protocols \X Indexes -> Networks \union {NoNetwork}])'
  BY BookTyped, PTL

LEMMA ListedNumbered ==
    ASSUME NEW a, AreaInv(a) PROVE Numbered(Listed(a))
  <1> DEFINE l == Listed(a)
  <1>1. /\ l \in Seq(Records) /\ Len(l) = Count(a)
        /\ \A s \in 1..Count(a) : l[s] = a.recs[s]
    BY ListedFacts DEF AreaInv
  <1>2. Distinct(a, Count(a))
    BY DEF AreaInv, NumberedArea
  <1> HIDE DEF l
  <1>3. Numbered(l)
    BY <1>1, <1>2 DEF Numbered, Distinct
  <1> QED
    BY <1>3 DEF l

LEMMA BehindNumbered ==
    ASSUME NEW a, AreaInv(a), Behind(a)
    PROVE  /\ Numbered(a.recs) /\ Len(a.recs) = Count(a) + 1 /\ Count(a) \in Nat
           /\ \A s \in 1..Len(a.recs) : a.recs[s] \in Records
  BY AreaFacts DEF AreaInv, Behind, Numbered, Distinct

(***************************************************************************)
(* Without the record behind the others, its entry is missing.             *)
(***************************************************************************)
LEMMA BookCut ==
    ASSUME NEW a, AreaInv(a), Behind(a)
    PROVE  LET r == a.recs[Len(a.recs)]
           IN  /\ r \in Records
               /\ BookOf(Listed(a)) = [BookOf(a.recs) EXCEPT ![<<r.protocol, r.index>>] = NoNetwork]
               /\ BookOf(a.recs) = [BookOf(Listed(a)) EXCEPT ![<<r.protocol, r.index>>] = r.net]
               /\ \A p \in Protocols : BookOf(Listed(a))[<<p, r.index>>] = NoNetwork
  <1> DEFINE q == a.recs
             d == Listed(a)
             n == Len(q)
             r == q[n]
  <1>1. /\ Numbered(q) /\ Numbered(d) /\ n \in Nat /\ n > 0 /\ Len(d) = n - 1
        /\ \A s \in 1..n - 1 : d[s] = q[s]
        /\ r \in Records
    <2>1. n = Count(a) + 1 /\ Count(a) \in Nat /\ \A s \in 1..n : q[s] \in Records
      BY BehindNumbered
    <2>2. Len(d) = Count(a) /\ \A s \in 1..Count(a) : d[s] = q[s]
      BY ListedFacts DEF AreaInv
    <2> HIDE DEF q, d, n
    <2>3. n \in 1..n /\ Count(a) = n - 1
      BY <2>1
    <2> QED
      BY <2>1, <2>2, <2>3, BehindNumbered, ListedNumbered DEF q, d
  <1> HIDE DEF q, d, n
  <1>2. r.protocol \in Protocols /\ r.index \in Indexes
    BY <1>1 DEF Records
  <1>3. \A s \in 1..n - 1 : s \in 1..n /\ d[s].index # r.index
    <2>1. \A s \in 1..n - 1 : s \in 1..n /\ s # n /\ n \in 1..n
      BY <1>1
    <2> QED
      BY <1>1, <2>1 DEF Numbered, n
  <1>4. \A P, net : ~Has(d, P, r.index, net)
    BY <1>1, <1>3 DEF Has
  <1>5. ASSUME NEW P, NEW i, NEW net, P # r.protocol \/ i # r.index
        PROVE  Has(d, P, i, net) <=> Has(q, P, i, net)
    <2>1. ASSUME Has(d, P, i, net) PROVE Has(q, P, i, net)
      <3>1. PICK s \in 1..n - 1 : d[s].index = i /\ d[s].protocol = P /\ d[s].net = net
        BY <1>1, <2>1 DEF Has
      <3> QED
        BY <1>1, <1>3, <3>1 DEF Has, n
    <2>2. ASSUME Has(q, P, i, net) PROVE Has(d, P, i, net)
      <3>1. PICK s \in 1..n : q[s].index = i /\ q[s].protocol = P /\ q[s].net = net
        BY <2>2 DEF Has, n
      <3>2. s # n
        BY <1>5, <3>1
      <3>3. s \in 1..n - 1
        BY <1>1, <3>1, <3>2
      <3> QED
        BY <1>1, <3>1, <3>3 DEF Has
    <2> QED
      BY <2>1, <2>2
  <1>6. Has(q, r.protocol, r.index, r.net)
    <2>1. n \in 1..Len(q)
      BY <1>1 DEF n
    <2> QED
      BY <2>1 DEF Has
  <1>7. LookupIn(q, r.protocol, r.index) = r.net
    BY <1>1, <1>6, LookupHas
  <1>8. \A P : LookupIn(d, P, r.index) = NoNetwork
    BY <1>4, LookupHasNot
  <1> DEFINE e == <<r.protocol, r.index>>
             f == BookOf(q)
             g == BookOf(d)
             E == Protocols \X Indexes
  <1> HIDE DEF r
  <1>9. g = [f EXCEPT ![e] = NoNetwork]
    BY <1>1, <1>2, <1>4, <1>5, BookWithout
  <1>10. e \in E /\ f = [x \in E |-> f[x]] /\ f[e] = r.net
    BY <1>2, <1>7 DEF BookOf
  <1>11. \A P \in Protocols : g[<<P, r.index>>] = NoNetwork
    BY <1>2, <1>8 DEF BookOf
  <1> HIDE DEF e, f, g, E
  <1>12. f = [g EXCEPT ![e] = r.net]
    BY <1>9, <1>10
  <1> QED
    BY <1>1, <1>9, <1>11, <1>12 DEF e, f, g, r, q, d, n

(***************************************************************************)
(* The gap that a shift closes is the entry of its record.                 *)
(***************************************************************************)
LEMMA BookRemove ==
    ASSUME NEW q, Numbered(q), NEW slot \in 1..Len(q)
    PROVE  BookOf(RemoveAt(q, slot)) =
             [BookOf(q) EXCEPT ![<<q[slot].protocol, q[slot].index>>] = NoNetwork]
  <1> DEFINE d == RemoveAt(q, slot)
             n == Len(q)
             from(j) == IF j < slot THEN j ELSE j + 1
             r == q[slot]
  <1>1. q \in Seq(Records) /\ n \in Nat /\ slot \in 1..n /\ r \in Records
    BY DEF Numbered
  <1>2. /\ d \in Seq(Records) /\ Len(d) = n - 1
        /\ \A j \in 1..n - 1 : d[j] = IF j < slot THEN q[j] ELSE q[j + 1]
    BY <1>1, RemoveAtFacts
  <1> HIDE DEF d
  <1>3. \A j \in 1..n - 1 : /\ from(j) \in 1..n /\ from(j) # slot
                            /\ d[j] = q[from(j)]
    BY <1>1, <1>2
  <1>4. \A j, k \in 1..n - 1 : from(j) = from(k) => j = k
    BY <1>1
  <1>5. \A s \in 1..n : s # slot => \E j \in 1..n - 1 : from(j) = s
    <2> SUFFICES ASSUME NEW s \in 1..n, s # slot PROVE \E j \in 1..n - 1 : from(j) = s
      OBVIOUS
    <2>1. CASE s < slot
      <3>1. s \in 1..n - 1 /\ from(s) = s
        BY <1>1, <2>1
      <3> QED
        BY <3>1
    <2>2. CASE s > slot
      <3>1. s - 1 \in 1..n - 1 /\ from(s - 1) = s
        BY <1>1, <2>2
      <3> QED
        BY <3>1
    <2> QED
      BY <1>1, <2>1, <2>2
  <1> HIDE DEF from, n
  <1>6. Numbered(d)
    BY <1>2, <1>3, <1>4 DEF Numbered, n
  <1>7. r.protocol \in Protocols /\ r.index \in Indexes
    BY <1>1 DEF Records
  <1>8. \A net : ~Has(d, r.protocol, r.index, net)
    <2>1. \A j \in 1..n - 1 : d[j].index # r.index
      BY <1>1, <1>3 DEF Numbered, n
    <2> QED
      BY <1>2, <2>1 DEF Has
  <1>9. ASSUME NEW P, NEW i, NEW net, P # r.protocol \/ i # r.index
        PROVE  Has(d, P, i, net) <=> Has(q, P, i, net)
    <2>1. ASSUME Has(d, P, i, net) PROVE Has(q, P, i, net)
      <3>1. PICK s \in 1..n - 1 : d[s].index = i /\ d[s].protocol = P /\ d[s].net = net
        BY <1>2, <2>1 DEF Has
      <3> QED
        BY <1>3, <3>1 DEF Has, n
    <2>2. ASSUME Has(q, P, i, net) PROVE Has(d, P, i, net)
      <3>1. PICK s \in 1..n : q[s].index = i /\ q[s].protocol = P /\ q[s].net = net
        BY <2>2 DEF Has, n
      <3>2. s # slot
        BY <1>9, <3>1
      <3>3. PICK j \in 1..n - 1 : from(j) = s
        BY <1>5, <3>2
      <3> QED
        BY <1>2, <1>3, <3>1, <3>3 DEF Has
    <2> QED
      BY <2>1, <2>2
  <1> HIDE DEF r
  <1>10. BookOf(d) = [BookOf(q) EXCEPT ![<<r.protocol, r.index>>] = NoNetwork]
    BY <1>6, <1>7, <1>8, <1>9, BookWithout
  <1> QED
    BY <1>10 DEF d, r

(***************************************************************************)
(* What an area lists after a write.                                       *)
(***************************************************************************)
LEMMA ListedWhole ==
    ASSUME NEW a, a.recs \in Seq(Records), Count(a) = Len(a.recs)
    PROVE  Listed(a) = a.recs
  <1> DEFINE q == a.recs
             l == SubSeq(q, 1, Len(q))
  <1>1. q \in Seq(Records) /\ Listed(a) = l
    BY DEF Listed
  <1> HIDE DEF q
  <1>2. l \in Seq(Records) /\ Len(l) = Len(q) /\ \A s \in 1..Len(q) : l[s] = q[s]
    BY <1>1, SubSeqProperties
  <1> HIDE DEF l
  <1>3. l = q
    BY <1>1, <1>2, SeqEqual
  <1> QED
    BY <1>1, <1>3 DEF q

LEMMA ListedAppend ==
    ASSUME NEW a, StoredArea(a), NEW r \in Records, Count(a) < MaxNum
    PROVE  LET b == PutRecord(a, r)
           IN  /\ Listed(b) = Listed(a) /\ Len(b.recs) = Count(a) + 1 /\ Count(b) = Count(a)
               /\ b.recs[Count(a) + 1] = r
               /\ \A s \in 1..Count(a) : b.recs[s] = a.recs[s]
  <1> DEFINE b == PutRecord(a, r)
             l == Listed(a)
             q == Append(l, r)
             k == Listed(b)
             n == Count(a)
  <1>1. /\ l \in Seq(Records) /\ Len(l) = n /\ n \in Nat
        /\ \A s \in 1..n : l[s] = a.recs[s]
    BY StoredFacts
  <1>2. StoredArea(b) /\ b.recs = q /\ Count(b) = n
    BY StoredPut
  <1>3. /\ k \in Seq(Records) /\ Len(k) = Count(b)
        /\ \A s \in 1..Count(b) : k[s] = b.recs[s]
    BY <1>2, StoredFacts
  <1> HIDE DEF b, l, k, n
  <1>4. Len(q) = n + 1 /\ q[n + 1] = r /\ \A s \in 1..n : q[s] = l[s]
    BY <1>1, AppendProperties
  <1> HIDE DEF q
  <1>5. k = l
    BY <1>1, <1>2, <1>3, <1>4, SeqEqual
  <1> QED
    BY <1>1, <1>2, <1>4, <1>5 DEF b, k, l, n

-----------------------------------------------------------------------------
\* The stores are one registry

(***************************************************************************)
(* What the running call has made of the area it found: where its record   *)
(* is, which records a delete started from, and that a repair is only      *)
(* tried after a failed write.                                             *)
(***************************************************************************)
ExactCall ==
    /\ pc \in {"put", "count"} => call.op = "create"
    /\ pc \in {"lower"} \union Gap => call.op = "delete"
    /\ pc = "count" =>
          /\ call.slot = Len(area.recs)
          /\ area.recs[call.slot] = Rec(call.protocol, call.index, call.net)
    /\ pc = "lower" =>
          /\ call.slot \in FoundAt(call.protocol, call.index)
          /\ call.before = Listed(area)
    /\ pc \in Gap =>
          /\ Behind(area) /\ call.before = area.recs
          /\ call.slot \in 1..Len(area.recs)
          /\ area.recs[call.slot].index = call.index
          /\ area.recs[call.slot].protocol = call.protocol
    /\ pc \in {"wipe", "countOverRecord"} => call.slot = Len(area.recs)
    /\ pc \in {"countOverRecord", "raise"} => call.mishaps >= 1

FitInv == StoredInv /\ NetworkInv /\ (blind = 0 => ExactCall)

\* A step of a call while the flash can be read, before and after.
Seen ==
    /\ FitInv /\ blind = 0
    /\ StoredInv' /\ NetworkInv' /\ blind' = 0

LEMMA SeenFacts ==
    ASSUME Seen
    PROVE  /\ AreaInv(area) /\ StoredArea(area) /\ call \in Calls /\ CallInv /\ StoredCall
           /\ ExactCall /\ call.mishaps \in Nat
           /\ AreaInv(area') /\ StoredArea(area') /\ call' \in Calls
           /\ Book = BookOf(View) /\ Book' = BookOf(View)'
           /\ Numbered(Listed(area)) /\ Numbered(Listed(area'))
  <1>1. /\ AreaInv(area) /\ StoredArea(area) /\ call \in Calls /\ CallInv /\ StoredCall
        /\ ExactCall /\ StoredArea(area)' /\ AreaInv(area') /\ StoredArea(area') /\ call' \in Calls
    BY DEF Seen, FitInv, StoredInv, NetworkInv, Readable, CallTyped
  <1>2. Book = BookOf(View) /\ (Book = BookOf(View))'
    BY BookIsOfView, NextBookIsOfView DEF Seen, FitInv
  <1>3. Book' = BookOf(View)'
    BY <1>2
  <1>4. Numbered(Listed(area)) /\ Numbered(Listed(area'))
    BY <1>1, ListedNumbered
  <1> QED
    BY <1>1, <1>2, <1>3, <1>4 DEF Calls

(***************************************************************************)
(* The call goes on, or returns.                                           *)
(***************************************************************************)
SameCall ==
    /\ call'.op = call.op /\ call'.protocol = call.protocol /\ call'.index = call.index
    /\ pc' = "idle" \/ pc # "idle"
    /\ blind' = blind

LEMMA CallContinues == ASSUME SameCall PROVE Registry!Continues
  <1> DEFINE asked == [op |-> IF pc = "idle" THEN "none" ELSE call.op,
                       protocol |-> call.protocol, index |-> call.index]
  <1>1. asked' \in {asked, [asked EXCEPT !.op = "none"]}
    BY DEF SameCall
  <1> QED
    BY <1>1 DEF Registry!Continues, SameCall

LEMMA FailStep ==
    ASSUME SameCall, Book' = Book, call'.mishaps >= call.mishaps
    PROVE  Registry!RegistryNext
  BY CallContinues DEF Registry!RegistryNext, Registry!Fail

LEMMA StrikeOutStep ==
    ASSUME SameCall, pc # "idle", call.op = "delete", call'.mishaps >= call.mishaps,
           Book' = [Book EXCEPT ![<<call.protocol, call.index>>] = NoNetwork]
    PROVE  Registry!RegistryNext
  BY CallContinues DEF Registry!RegistryNext, Registry!StrikeOut, Registry!Entry

LEMMA LoseAnotherStep ==
    ASSUME SameCall, pc # "idle", call.op = "delete", call'.mishaps >= 2,
           NEW e \in Protocols \X Indexes, Book' = [Book EXCEPT ![e] = NoNetwork]
    PROVE  Registry!RegistryNext
  BY CallContinues DEF Registry!RegistryNext, Registry!LoseAnother, Registry!Entries

LEMMA EnterStep ==
    ASSUME SameCall, pc # "idle", call.op = "create", call'.mishaps = call.mishaps,
           \A p \in Protocols : Book[<<p, call.index>>] = NoNetwork,
           NEW net \in Networks,
           Book' = [Book EXCEPT ![<<call.protocol, call.index>>] = net]
    PROVE  Registry!RegistryNext
  BY CallContinues DEF Registry!RegistryNext, Registry!Enter, Registry!Entry

LEMMA AskStep ==
    ASSUME pc = "idle", pc' # "idle", blind' = blind, Book' = Book,
           call'.op \in {"create", "delete"}, call'.protocol \in Protocols,
           call'.index \in Indexes, call'.mishaps = 0
    PROVE  Registry!RegistryNext
  BY DEF Registry!RegistryNext, Registry!Ask

(***************************************************************************)
(* A failed write or a return changes no record.                           *)
(***************************************************************************)
LEMMA FailedWrite ==
    ASSUME Seen, NEW next, WriteFails(next), next = "idle" \/ pc # "idle"
    PROVE  /\ SameCall /\ call'.mishaps = call.mishaps + 1 /\ area' = area /\ pc' = next
           /\ next # "idle" => call'.slot = call.slot /\ call'.before = call.before
  <1>1. call \in Calls /\ call.mishaps \in Nat
    BY SeenFacts
  <1>2. /\ pc' = next /\ area' = area /\ blind' = blind
        /\ call' = IF next = "idle" THEN Over(Hit(call, 1)) ELSE Hit(call, 1)
    BY WriteFailsStep
  <1>3. Hit(call, 1) \in Calls
    BY <1>1, HitFacts
  <1> QED
    BY <1>1, <1>2, <1>3, HitFacts, OverFacts DEF SameCall

LEMMA Returned ==
    ASSUME Seen, Return
    PROVE  SameCall /\ call'.mishaps = call.mishaps /\ pc' = "idle"
  BY SeenFacts, OverFacts DEF Return, SameCall

LEMMA IdleIsExact == ASSUME pc' = "idle" PROVE ExactCall'
  BY DEF ExactCall, Gap

(***************************************************************************)
(* As long as the area lists the records the book is read from, it stays.  *)
(***************************************************************************)
LEMMA SameBook ==
    ASSUME Seen, View' = View PROVE Book' = Book
  <1>1. BookOf(View)' = BookOf(View)
    BY DEF BookOf
  <1> QED
    BY <1>1, SeenFacts

(***************************************************************************)
(* A create asks, writes its record unseen, and enters it with the count.  *)
(***************************************************************************)
LEMMA CreateFits ==
    ASSUME Seen, NEW p \in Protocols, NetworkCreate(p)
    PROVE  ExactCall' /\ Registry!RegistryNext
  <1>1. PICK net \in Networks :
          /\ Count(area) < MaxNum
          /\ Called("create", p, FreeIndex(p), net, 0)
          /\ Goto("put")
    BY DEF NetworkCreate, ReadFails, Seen
  <1>2. /\ pc = "idle" /\ pc' = "put" /\ area' = area /\ blind' = blind
        /\ StoredArea(area)
    BY <1>1, SeenFacts DEF NetworkCreate, Goto
  <1>3. FreeIndex(p) \in Indexes /\ 0 \in 0..MaxNum
    BY <1>1, <1>2, FreeIndexInRange, NetworkAssumption
  <1>4. /\ call'.op = "create" /\ call'.protocol = p /\ call'.index \in Indexes
        /\ call'.mishaps = 0
    BY <1>1, <1>2, <1>3, CalledFacts
  <1>5. ExactCall'
    BY <1>2, <1>4 DEF ExactCall, Gap
  <1>6. Book' = Book
    BY <1>2, SameBook DEF View, Gap
  <1> QED
    BY <1>2, <1>4, <1>5, <1>6, AskStep

LEMMA PutFits ==
    ASSUME Seen, NEW p \in Protocols, PutNetwork(p)
    PROVE  ExactCall' /\ Registry!RegistryNext
  <1> DEFINE rec == Rec(p, call.index, call.net)
  <1>1. /\ pc = "put" /\ call.protocol = p /\ call \in Calls /\ StoredArea(area)
        /\ Count(area) < MaxNum /\ call.op = "create" /\ call.mishaps \in Nat
        /\ call.index \in Indexes /\ call.net \in Networks /\ Count(area) \in 0..MaxNum
        /\ MaxNum \in Nat
    BY SeenFacts, StoredFacts DEF PutNetwork, CallInv, StoredCall, ExactCall
  <1>2. rec \in Records
    BY <1>1, RecIsRecord
  <1>3. CASE WriteFails("idle")
    <2>1. SameCall /\ call'.mishaps >= call.mishaps /\ area' = area /\ pc' = "idle"
      BY <1>1, <1>3, FailedWrite
    <2>2. Book' = Book
      BY <1>1, <2>1, SameBook DEF View, Gap
    <2> QED
      BY <2>1, <2>2, FailStep, IdleIsExact
  <1>4. CASE /\ area' = PutRecord(area, rec)
             /\ call' = [call EXCEPT !.slot = Count(area) + 1]
             /\ Goto("count")
    <2> HIDE DEF rec
    <2>1. /\ Listed(area') = Listed(area) /\ Len(area'.recs) = Count(area) + 1
          /\ area'.recs[Count(area) + 1] = rec
      BY <1>1, <1>2, <1>4, ListedAppend
    <2>2. pc' = "count" /\ blind' = blind
      BY <1>4 DEF Goto
    <2>3. Count(area) + 1 \in 0..MaxNum
      BY <1>1
    <2>4. /\ call'.slot = Count(area) + 1 /\ call'.op = call.op
          /\ call'.protocol = call.protocol /\ call'.index = call.index
          /\ call'.net = call.net /\ call'.mishaps = call.mishaps
      BY <1>1, <1>4, <2>3, SlotFacts
    <2>5. Book' = Book
      BY <1>1, <2>1, <2>2, SameBook DEF View, Gap
    <2>6. SameCall /\ call'.mishaps >= call.mishaps
      BY <1>1, <2>2, <2>4 DEF SameCall
    <2>7. ExactCall'
      BY <1>1, <2>1, <2>2, <2>4 DEF ExactCall, Gap, rec
    <2> QED
      BY <2>5, <2>6, <2>7, FailStep
  <1>5. ~ReadFails("count") /\ ~(Count(area) >= MaxNum)
    BY <1>1 DEF ReadFails, Seen
  <1> QED
    BY <1>3, <1>4, <1>5 DEF PutNetwork

LEMMA CountFits ==
    ASSUME Seen, NEW p \in Protocols, CountNetwork(p)
    PROVE  ExactCall' /\ Registry!RegistryNext
  <1>1. /\ pc = "count" /\ call.op = "create" /\ call.mishaps \in Nat
        /\ AreaInv(area) /\ StoredArea(area) /\ Behind(area) /\ call.slot = Len(area.recs)
        /\ area.recs[call.slot] = Rec(call.protocol, call.index, call.net)
    BY SeenFacts DEF CountNetwork, CallInv, ExactCall
  <1>2. CASE WriteFails("idle")
    <2>1. SameCall /\ call'.mishaps >= call.mishaps /\ area' = area /\ pc' = "idle"
      BY <1>1, <1>2, FailedWrite
    <2>2. Book' = Book
      BY <1>1, <2>1, SameBook DEF View, Gap
    <2> QED
      BY <2>1, <2>2, FailStep, IdleIsExact
  <1>3. CASE area' = SetCount(area, call.slot) /\ Return
    <2> DEFINE q == area.recs
               r == q[Len(q)]
    <2>1. SameCall /\ call'.mishaps = call.mishaps /\ pc' = "idle"
      BY <1>3, Returned
    <2>2. Listed(area') = q
      <3>1. call.slot \in 1..Len(area.recs) /\ area.recs \in Seq(Records)
        BY <1>1, StoredFacts DEF Behind
      <3>2. Count(area') = Len(area.recs) /\ area'.recs = area.recs
        BY <1>1, <1>3, <3>1, StoredSetCount
      <3> QED
        BY <3>1, <3>2, ListedWhole
    <2>3. /\ r \in Records /\ r.index = call.index /\ r.protocol = call.protocol
          /\ BookOf(q) = [BookOf(Listed(area)) EXCEPT ![<<r.protocol, r.index>>] = r.net]
          /\ \A P \in Protocols : BookOf(Listed(area))[<<P, r.index>>] = NoNetwork
      <3>1. r.index = call.index /\ r.protocol = call.protocol
        BY <1>1 DEF Rec
      <3>2. AreaInv(area) /\ Behind(area)
        BY <1>1
      <3> QED
        BY <3>1, <3>2, BookCut, Zenon
    <2>4. Book = BookOf(Listed(area)) /\ Book' = BookOf(q)
      <3>1. View = Listed(area) /\ View' = Listed(area')
        BY <1>1, <2>1 DEF View, Gap
      <3>2. BookOf(View)' = BookOf(View')
        BY DEF BookOf
      <3> QED
        BY <2>2, <3>1, <3>2, SeenFacts
    <2>5. r.net \in Networks
      BY <2>3 DEF Records
    <2> HIDE DEF q, r
    <2> QED
      BY <1>1, <2>1, <2>3, <2>4, <2>5, EnterStep, IdleIsExact
  <1> QED
    BY <1>2, <1>3 DEF CountNetwork

(***************************************************************************)
(* A delete asks, lowers the count unseen, and strikes out with the write  *)
(* that closes the gap.                                                    *)
(***************************************************************************)
LEMMA DeleteFits ==
    ASSUME Seen, NEW p \in Protocols, NEW index \in Indexes, NetworkDelete(p, index)
    PROVE  ExactCall' /\ Registry!RegistryNext
  <1>1. PICK s \in FoundAt(p, index) :
          Called("delete", p, index, area.recs[s].net, s)
    BY DEF NetworkDelete
  <1>2. /\ pc = "idle" /\ pc' = "lower" /\ area' = area /\ blind' = blind
        /\ StoredArea(area)
    BY SeenFacts DEF NetworkDelete, Goto
  <1>3. s \in 0..MaxNum /\ area.recs[s].net \in Networks
    <2>1. s \in 1..Count(area)
      BY DEF FoundAt, Slots
    <2>2. s \in 1..Len(area.recs) /\ s \in 0..MaxNum /\ area.recs \in Seq(Records)
      BY <1>2, <2>1, StoredFacts
    <2>3. area.recs[s] \in Records
      BY <2>2
    <2> QED
      BY <2>2, <2>3 DEF Records
  <1>4. /\ call'.op = "delete" /\ call'.protocol = p /\ call'.index = index
        /\ call'.slot = s /\ call'.before = Listed(area) /\ call'.mishaps = 0
    BY <1>1, <1>2, <1>3, CalledFacts
  <1>5. ExactCall'
    <2>1. FoundAt(p, index)' = FoundAt(p, index)
      BY <1>2 DEF FoundAt
    <2>2. (call.slot \in FoundAt(call.protocol, call.index))'
      BY <1>2, <1>4 DEF FoundAt
    <2> QED
      BY <1>2, <1>4, <2>2 DEF ExactCall, Gap
  <1>6. Book' = Book
    BY <1>2, SameBook DEF View, Gap
  <1> QED
    BY <1>2, <1>4, <1>5, <1>6, AskStep

LEMMA LowerFits ==
    ASSUME Seen, NEW p \in Protocols, LowerNetworkCount(p)
    PROVE  ExactCall' /\ Registry!RegistryNext
  <1>1. /\ pc = "lower" /\ call.op = "delete" /\ call.mishaps \in Nat /\ call.index \in Indexes
        /\ AreaInv(area) /\ StoredArea(area) /\ call.before = Listed(area)
        /\ call.slot \in Slots(area, call.index)
        /\ area.recs[call.slot].protocol = call.protocol
    BY SeenFacts DEF LowerNetworkCount, CallInv, ExactCall, FoundAt
  <1>2. CASE WriteFails("idle")
    <2>1. SameCall /\ call'.mishaps >= call.mishaps /\ area' = area /\ pc' = "idle"
      BY <1>1, <1>2, FailedWrite
    <2>2. Book' = Book
      BY <1>1, <2>1, SameBook DEF View, Gap
    <2> QED
      BY <2>1, <2>2, FailStep, IdleIsExact
  <1>3. CASE /\ area' = LowerCount(area) /\ UNCHANGED call
             /\ Goto(IF call.slot = Count(area) THEN "wipe" ELSE "shift")
    <2>1. /\ pc' = IF call.slot = Count(area) THEN "wipe" ELSE "shift"
          /\ blind' = blind
      BY <1>3 DEF Goto
    <2>2. /\ Behind(area') /\ call.slot \in 1..Len(area'.recs)
          /\ area'.recs[call.slot].index = call.index
      <3>1. NumberedArea(area, Records, MaxNum) /\ call.index \in 1..MaxNum
        BY <1>1 DEF AreaInv, Indexes
      <3>2. call.slot \in Slots(area, call.index) /\ area' = LowerCount(area)
        BY <1>1, <1>3
      <3> DEFINE b == LowerCount(area)
      <3>3. /\ NumberedArea(b, Records, MaxNum) /\ Behind(b)
            /\ call.slot \in 1..Len(b.recs) /\ b.recs[call.slot].index = call.index
            /\ call.slot \in 1..MaxNum /\ area.recs[call.slot] \in Records
        BY <3>1, <3>2, LowerCountInv
      <3> HIDE DEF b
      <3> QED
        BY <3>2, <3>3 DEF b
    <2>3. area'.recs = Listed(area) /\ Len(area'.recs) = Count(area)
      <3>1. call.slot \in 1..Count(area) /\ Count(area) \in Nat
        BY <1>1, StoredFacts DEF Slots
      <3>2. area'.recs = Listed(area)
        BY <1>1, <1>3, <3>1, StoredLower
      <3> QED
        BY <1>1, <3>2, StoredFacts
    <2>4. area'.recs[call.slot].protocol = call.protocol
      <3>1. call.slot \in 1..Count(area)
        BY <1>1 DEF Slots
      <3> QED
        BY <1>1, <2>3, <3>1, StoredFacts
    <2>5. ExactCall'
      BY <1>1, <1>3, <2>1, <2>2, <2>3, <2>4 DEF ExactCall, Gap
    <2>6. Book' = Book
      <3>1. View' = View
        BY <1>1, <1>3, <2>1 DEF View, Gap
      <3> QED
        BY <3>1, SameBook
    <2>7. SameCall /\ call'.mishaps >= call.mishaps
      BY <1>1, <1>3, <2>1 DEF SameCall
    <2> QED
      BY <2>5, <2>6, <2>7, FailStep
  <1> QED
    BY <1>2, <1>3 DEF LowerNetworkCount

(***************************************************************************)
(* The steps of a delete whose count is lowered: the book is read from the *)
(* records before it until the gap is closed.                              *)
(***************************************************************************)
LEMMA GapFacts ==
    ASSUME Seen, pc \in Gap
    PROVE  /\ call.op = "delete" /\ call.mishaps \in Nat /\ pc # "idle"
           /\ AreaInv(area) /\ StoredArea(area) /\ Behind(area)
           /\ Numbered(area.recs) /\ call.slot \in 1..Len(area.recs)
           /\ area.recs[call.slot].index = call.index
           /\ area.recs[call.slot].protocol = call.protocol
           /\ Count(area) \in Nat /\ Len(area.recs) = Count(area) + 1
           /\ Book = BookOf(area.recs) /\ call.before = area.recs
  <1>1. /\ call.op = "delete" /\ call.mishaps \in Nat /\ pc # "idle"
        /\ AreaInv(area) /\ StoredArea(area) /\ Behind(area)
        /\ call.slot \in 1..Len(area.recs)
        /\ area.recs[call.slot].index = call.index
        /\ area.recs[call.slot].protocol = call.protocol
        /\ call.before = area.recs
    BY SeenFacts DEF ExactCall, Gap
  <1>2. Book = BookOf(area.recs)
    BY <1>1, SeenFacts DEF View
  <1>3. /\ Numbered(area.recs) /\ Len(area.recs) = Count(area) + 1 /\ Count(area) \in Nat
    BY <1>1, BehindNumbered
  <1> QED
    BY <1>1, <1>2, <1>3

(***************************************************************************)
(* A call that ends before the gap is closed loses the last record.        *)
(***************************************************************************)
LEMMA LastLost ==
    ASSUME Seen, pc \in Gap, pc' = "idle", Listed(area') = Listed(area)
    PROVE  LET r == area.recs[Len(area.recs)]
           IN  /\ <<r.protocol, r.index>> \in Protocols \X Indexes
               /\ Book' = [Book EXCEPT ![<<r.protocol, r.index>>] = NoNetwork]
  <1> DEFINE q == area.recs
             d == Listed(area)
             r == q[Len(q)]
  <1>1. AreaInv(area) /\ Behind(area) /\ Book = BookOf(q)
    BY GapFacts
  <1>2. /\ r \in Records
        /\ BookOf(d) = [BookOf(q) EXCEPT ![<<r.protocol, r.index>>] = NoNetwork]
    BY <1>1, BookCut, Zenon
  <1>3. Book' = BookOf(d)
    <2>1. View' = d
      BY DEF View, Gap
    <2>2. BookOf(View)' = BookOf(View')
      BY DEF BookOf
    <2> QED
      BY <2>1, <2>2, SeenFacts
  <1> HIDE DEF q, d, r
  <1>4. <<r.protocol, r.index>> \in Protocols \X Indexes
    BY <1>2 DEF Records
  <1> QED
    BY <1>1, <1>2, <1>3, <1>4 DEF q, r

LEMMA WipeFits ==
    ASSUME Seen, NEW p \in Protocols, WipeLast(p)
    PROVE  ExactCall' /\ Registry!RegistryNext
  <1>1. pc \in {"wipe", "countOverRecord"} /\ pc \in Gap
    BY DEF WipeLast, Gap
  <1>2. /\ call.op = "delete" /\ call.mishaps \in Nat /\ pc # "idle"
        /\ StoredArea(area) /\ call.slot = Len(area.recs)
        /\ area.recs[call.slot].index = call.index
        /\ area.recs[call.slot].protocol = call.protocol
    BY <1>1, GapFacts, SeenFacts DEF ExactCall
  <1>3. ASSUME SameCall, pc' = "idle", Listed(area') = Listed(area),
               call'.mishaps >= call.mishaps
        PROVE  ExactCall' /\ Registry!RegistryNext
    <2>1. Book' = [Book EXCEPT ![<<call.protocol, call.index>>] = NoNetwork]
      BY <1>1, <1>2, <1>3, LastLost
    <2> QED
      BY <1>2, <1>3, <2>1, StrikeOutStep, IdleIsExact
  <1>4. CASE area' = [area EXCEPT !.recs = Listed(area)] /\ Return
    <2>1. SameCall /\ call'.mishaps >= call.mishaps /\ pc' = "idle"
      BY <1>2, <1>4, Returned
    <2>2. Listed(area') = Listed(area)
      <3>1. Count(area') = Count(area) /\ area'.recs = Listed(area)
        BY <1>2, <1>4, StoredCut
      <3>2. Listed(area) \in Seq(Records) /\ Len(Listed(area)) = Count(area)
        BY <1>2, StoredFacts
      <3> QED
        BY <3>1, <3>2, ListedWhole
    <2> QED
      BY <1>3, <2>1, <2>2
  <1>5. CASE WriteFails(IF pc = "wipe" THEN "countOverRecord" ELSE "idle")
    <2>1. CASE pc = "wipe"
      <3>1. WriteFails("countOverRecord")
        BY <1>5, <2>1
      <3>2. /\ SameCall /\ call'.mishaps = call.mishaps + 1 /\ area' = area
            /\ pc' = "countOverRecord"
            /\ call'.slot = call.slot /\ call'.before = call.before
        BY <1>2, <3>1, FailedWrite
      <3>3. ExactCall'
        <4>1. /\ call'.op = call.op /\ call'.index = call.index
              /\ call'.protocol = call.protocol /\ call'.mishaps >= 1
          BY <1>2, <3>2 DEF SameCall
        <4> QED
          BY <1>1, <1>2, <3>2, <4>1, GapFacts DEF ExactCall, Gap
      <3>4. Book' = Book
        <4>1. View' = View
          BY <1>1, <3>2 DEF View, Gap
        <4> QED
          BY <4>1, SameBook
      <3> QED
        BY <1>2, <3>2, <3>3, <3>4, FailStep
    <2>2. CASE pc # "wipe"
      <3>1. WriteFails("idle")
        BY <1>5, <2>2
      <3>2. SameCall /\ call'.mishaps = call.mishaps + 1 /\ area' = area /\ pc' = "idle"
        BY <1>2, <3>1, FailedWrite
      <3> QED
        BY <1>2, <1>3, <3>2
    <2> QED
      BY <2>1, <2>2
  <1> QED
    BY <1>4, <1>5 DEF WipeLast

LEMMA ShiftFits ==
    ASSUME Seen, NEW p \in Protocols, ShiftNetworks(p)
    PROVE  ExactCall' /\ Registry!RegistryNext
  <1>1. pc = "shift" /\ pc \in Gap
    BY DEF ShiftNetworks, Gap
  <1>2. /\ call.op = "delete" /\ call.mishaps \in Nat /\ pc # "idle"
        /\ AreaInv(area) /\ StoredArea(area) /\ Numbered(area.recs)
        /\ call.slot \in 1..Len(area.recs)
        /\ area.recs[call.slot].index = call.index
        /\ area.recs[call.slot].protocol = call.protocol
        /\ Count(area) \in Nat /\ Len(area.recs) = Count(area) + 1
        /\ Book = BookOf(area.recs)
    BY <1>1, GapFacts
  <1>3. CASE area' = RemoveSlot(area, call.slot) /\ Return
    <2> DEFINE q == area.recs
               slot == call.slot
               d == RemoveAt(q, slot)
    <2>1. SameCall /\ call'.mishaps >= call.mishaps /\ pc' = "idle"
      BY <1>2, <1>3, Returned
    <2>2. Listed(area') = d
      <3>1. Count(area) < Len(area.recs)
        BY <1>2
      <3>2. Count(area') = Count(area) /\ area'.recs = d
        BY <1>2, <1>3, <3>1, StoredRemove
      <3>3. d \in Seq(Records) /\ Len(d) = Len(q) - 1
        BY <1>2, RemoveAtFacts DEF Numbered
      <3> HIDE DEF d
      <3> QED
        BY <1>2, <3>2, <3>3, ListedWhole
    <2>3. BookOf(d) = [BookOf(q) EXCEPT ![<<q[slot].protocol, q[slot].index>>] = NoNetwork]
      BY <1>2, BookRemove
    <2>4. Book' = BookOf(d)
      <3>1. View' = d
        BY <2>1, <2>2 DEF View, Gap
      <3>2. BookOf(View)' = BookOf(View')
        BY DEF BookOf
      <3> QED
        BY <3>1, <3>2, SeenFacts
    <2>5. Book' = [Book EXCEPT ![<<call.protocol, call.index>>] = NoNetwork]
      <3> HIDE DEF d
      <3> QED
        BY <1>2, <2>3, <2>4
    <2> QED
      BY <1>2, <2>1, <2>5, StrikeOutStep, IdleIsExact
  <1>4. CASE WriteFails("raise")
    <2>1. /\ SameCall /\ call'.mishaps = call.mishaps + 1 /\ area' = area
          /\ pc' = "raise" /\ call'.slot = call.slot /\ call'.before = call.before
      BY <1>1, <1>4, FailedWrite
    <2>2. ExactCall'
      <3>1. /\ call'.op = call.op /\ call'.index = call.index
            /\ call'.protocol = call.protocol /\ call'.mishaps >= 1
        BY <1>2, <2>1 DEF SameCall
      <3> QED
        BY <1>1, <1>2, <2>1, <3>1, GapFacts DEF ExactCall, Gap
    <2>3. Book' = Book
      <3>1. View' = View
        BY <1>1, <2>1 DEF View, Gap
      <3> QED
        BY <3>1, SameBook
    <2> QED
      BY <1>2, <2>1, <2>2, <2>3, FailStep
  <1>5. ~ReadFails("idle")
    BY DEF ReadFails, Seen
  <1> QED
    BY <1>3, <1>4, <1>5 DEF ShiftNetworks

LEMMA RaiseFits ==
    ASSUME Seen, NEW p \in Protocols, RaiseCount(p)
    PROVE  ExactCall' /\ Registry!RegistryNext
  <1>1. pc = "raise" /\ pc \in Gap
    BY DEF RaiseCount, Gap
  <1>2. /\ call.op = "delete" /\ call.mishaps \in Nat /\ call.mishaps >= 1 /\ pc # "idle"
        /\ StoredArea(area) /\ Numbered(area.recs)
        /\ Count(area) \in Nat /\ Len(area.recs) = Count(area) + 1
        /\ Book = BookOf(area.recs)
    BY <1>1, GapFacts, SeenFacts DEF ExactCall
  <1>3. CASE area' = SetCount(area, Count(area) + 1) /\ Return
    <2>1. SameCall /\ call'.mishaps >= call.mishaps /\ pc' = "idle"
      BY <1>2, <1>3, Returned
    <2>2. Listed(area') = area.recs
      <3>1. Count(area) + 1 \in 1..Len(area.recs) /\ area.recs \in Seq(Records)
        BY <1>2 DEF Numbered
      <3>2. Count(area') = Len(area.recs) /\ area'.recs = area.recs
        BY <1>2, <1>3, <3>1, StoredSetCount
      <3> QED
        BY <3>1, <3>2, ListedWhole
    <2>3. Book' = Book
      <3>1. View' = area.recs
        BY <2>1, <2>2 DEF View, Gap
      <3>2. BookOf(View)' = BookOf(View')
        BY DEF BookOf
      <3> QED
        BY <1>2, <3>1, <3>2, SeenFacts
    <2> QED
      BY <2>1, <2>3, FailStep, IdleIsExact
  <1>4. CASE WriteFails("idle")
    <2> DEFINE r == area.recs[Len(area.recs)]
               e == <<r.protocol, r.index>>
    <2>1. SameCall /\ call'.mishaps = call.mishaps + 1 /\ area' = area /\ pc' = "idle"
      BY <1>2, <1>4, FailedWrite
    <2>2. e \in Protocols \X Indexes /\ Book' = [Book EXCEPT ![e] = NoNetwork]
      BY <1>1, <2>1, LastLost
    <2> HIDE DEF e
    <2>3. call'.mishaps >= 2
      BY <1>2, <2>1
    <2> QED
      BY <1>2, <2>1, <2>2, <2>3, LoseAnotherStep, IdleIsExact
  <1> QED
    BY <1>3, <1>4 DEF RaiseCount

(***************************************************************************)
(* A power loss is no mishap for the book but in the gap of a delete.      *)
(***************************************************************************)
LEMMA PowerFits ==
    ASSUME Seen, PowerLoss
    PROVE  ExactCall' /\ Registry!RegistryNext
  <1>1. call \in Calls /\ call.mishaps \in Nat /\ StoredArea(area)
    BY SeenFacts
  <1>2. /\ area' = [area EXCEPT !.recs = Listed(area)]
        /\ call' = Over(Hit(call, 2)) /\ pc' = "idle" /\ blind' = blind
    BY DEF PowerLoss, Hit
  <1>3. SameCall /\ call'.mishaps = call.mishaps + 2
    <2>1. Hit(call, 2) \in Calls
      BY <1>1, HitFacts
    <2> QED
      BY <1>1, <1>2, <2>1, HitFacts, OverFacts DEF SameCall
  <1>4. Listed(area') = Listed(area)
    <2>1. Count(area') = Count(area) /\ area'.recs = Listed(area)
      BY <1>1, <1>2, StoredCut
    <2>2. Listed(area) \in Seq(Records) /\ Len(Listed(area)) = Count(area)
      BY <1>1, StoredFacts
    <2> QED
      BY <2>1, <2>2, ListedWhole
  <1>5. CASE pc \notin Gap
    <2>1. View' = View
      BY <1>2, <1>4, <1>5 DEF View, Gap
    <2> QED
      BY <1>1, <1>2, <1>3, <2>1, SameBook, FailStep, IdleIsExact
  <1>6. CASE pc \in Gap
    <2> DEFINE r == area.recs[Len(area.recs)]
               e == <<r.protocol, r.index>>
    <2>1. e \in Protocols \X Indexes /\ Book' = [Book EXCEPT ![e] = NoNetwork]
      BY <1>2, <1>4, <1>6, LastLost
    <2> HIDE DEF e
    <2>2. call.op = "delete" /\ pc # "idle" /\ call'.mishaps >= 2
      BY <1>1, <1>3, <1>6, GapFacts
    <2> QED
      BY <1>2, <1>3, <2>1, <2>2, LoseAnotherStep, IdleIsExact
  <1> QED
    BY <1>5, <1>6

(***************************************************************************)
(* The one-time network is in no entry.                                    *)
(***************************************************************************)
LEMMA OneTimeFits ==
    ASSUME Seen, NEW p \in Protocols, CreateOneTime(p) \/ DeleteOneTime(p)
    PROVE  ExactCall' /\ Registry!RegistryNext
  <1>1. area' = area /\ pc' = pc /\ call' = call /\ blind' = blind /\ pc = "idle"
    BY DEF CreateOneTime, DeleteOneTime
  <1>2. View' = View
    BY <1>1 DEF View
  <1>3. SameCall /\ call'.mishaps >= call.mishaps
    BY <1>1, SeenFacts DEF SameCall
  <1> QED
    BY <1>1, <1>2, <1>3, SameBook, FailStep, IdleIsExact

LEMMA SeenStep == ASSUME Seen, NetworkNext PROVE ExactCall' /\ Registry!RegistryNext
  <1>1. CASE PowerLoss
    BY <1>1, PowerFits
  <1>2. ASSUME NEW p \in Protocols, StepOf(p) PROVE ExactCall' /\ Registry!RegistryNext
    BY <1>2, CreateFits, PutFits, CountFits, DeleteFits, LowerFits, WipeFits, ShiftFits,
       RaiseFits, OneTimeFits, Zenon DEF StepOf
  <1> QED
    BY <1>1, <1>2, StepCases

(***************************************************************************)
(* Once a read has failed the flash counts as unreadable for good.         *)
(***************************************************************************)
LEMMA BlindGrows == ASSUME blind \in Nat, NetworkNext PROVE blind' \in {blind, blind + 1}
  <1>1. CASE PowerLoss
    BY <1>1 DEF PowerLoss
  <1>2. ASSUME NEW p \in Protocols, StepOf(p) PROVE blind' \in {blind, blind + 1}
    <2> USE DEF Goto, Return, WriteFails, ReadFails
    <2>1. CASE NetworkCreate(p)
      BY <2>1 DEF NetworkCreate
    <2>2. CASE PutNetwork(p) \/ CountNetwork(p)
      BY <2>2 DEF PutNetwork, CountNetwork
    <2>3. CASE (\E index \in Indexes : NetworkDelete(p, index)) \/ LowerNetworkCount(p)
      BY <2>3 DEF NetworkDelete, LowerNetworkCount
    <2>4. CASE WipeLast(p) \/ ShiftNetworks(p) \/ RaiseCount(p)
      BY <2>4 DEF WipeLast, ShiftNetworks, RaiseCount
    <2>5. CASE CreateOneTime(p) \/ DeleteOneTime(p)
      BY <2>5 DEF CreateOneTime, DeleteOneTime
    <2> QED
      BY <1>2, <2>1, <2>2, <2>3, <2>4, <2>5 DEF StepOf
  <1> QED
    BY <1>1, <1>2, StepCases

LEMMA FitInit == NetworkInit => FitInv /\ Registry!RegistryInit
  <1> SUFFICES ASSUME NetworkInit PROVE FitInv /\ Registry!RegistryInit
    OBVIOUS
  <1>1. StoredInv /\ NetworkInv
    BY StoredInit, NetworkInitInv
  <1>2. ExactCall
    BY DEF NetworkInit, ExactCall, Gap
  <1>3. Book = [e \in Protocols \X Indexes |-> NoNetwork]
    <2>1. Len(Listed(area)) = 0 /\ StoredArea(area)
      BY <1>1, StoredFacts DEF NetworkInit, EmptyArea, Count, Unset, StoredInv
    <2> DEFINE l == Listed(area)
    <2>2. Len(l) = 0
      BY <2>1
    <2> HIDE DEF l
    <2>3. \A P, i, net : ~Has(l, P, i, net)
      BY <2>2 DEF Has
    <2>4. \A P, i : LookupIn(l, P, i) = NoNetwork
      BY <2>3, LookupHasNot
    <2>5. Book = BookOf(l)
      BY <1>1, BookIsOfView DEF NetworkInit, View, Gap, l
    <2> QED
      BY <2>4, <2>5 DEF BookOf
  <1>4. Registry!RegistryInit
    BY <1>3 DEF NetworkInit, Registry!RegistryInit, Registry!Entries
  <1> QED
    BY <1>1, <1>2, <1>4 DEF FitInv

LEMMA FitStep ==
    FitInv /\ [NetworkNext]_networkVars =>
      FitInv' /\ [Registry!RegistryNext]_(Registry!registryVars)
  <1> SUFFICES ASSUME FitInv, [NetworkNext]_networkVars
               PROVE  FitInv' /\ [Registry!RegistryNext]_(Registry!registryVars)
    OBVIOUS
  <1>1. StoredInv' /\ NetworkInv'
    BY StoredStep, NetworkStepInv DEF FitInv
  <1>2. CASE UNCHANGED networkVars
    <2>1. area' = area /\ oneTime' = oneTime /\ pc' = pc /\ call' = call /\ blind' = blind
      BY <1>2 DEF networkVars
    <2>2. (blind = 0 => ExactCall)'
      BY <2>1 DEF FitInv, ExactCall, FoundAt
    <2>3. Book' = Book
      <3>1. View' = View
        BY <2>1 DEF View
      <3>2. BookOf(View)' = BookOf(View')
        BY DEF BookOf
      <3>3. Book = BookOf(View) /\ (Book = BookOf(View))'
        BY <1>1, BookIsOfView, NextBookIsOfView DEF FitInv
      <3>4. Book' = BookOf(View)'
        BY <3>3
      <3> QED
        BY <3>1, <3>2, <3>3, <3>4
    <2> QED
      BY <1>1, <2>1, <2>2, <2>3 DEF FitInv, Registry!registryVars
  <1>3. CASE NetworkNext /\ blind' = 0
    <2>1. blind = 0
      BY <1>3, BlindGrows DEF FitInv, StoredInv
    <2> QED
      BY <1>1, <1>3, <2>1, SeenStep DEF FitInv, Seen
  <1>4. CASE NetworkNext /\ blind' # 0
    <2>1. blind' \in Nat /\ (blind > 0)'
      BY <1>1, <1>4 DEF StoredInv
    <2>2. (Book \in [Protocols \X Indexes -> Networks \union {NoNetwork}])'
      BY <1>1, NextBookTyped
    <2>3. Registry!Blindness
      BY <2>1, <2>2 DEF Registry!Blindness, Registry!Entries
    <2> QED
      BY <1>1, <1>4, <2>3 DEF FitInv, Registry!RegistryNext
  <1> QED
    BY <1>2, <1>3, <1>4

(***************************************************************************)
(* For every number of networks, whatever the protocols create and delete  *)
(* and however many writes and reads fail or power is lost, the stores     *)
(* behave as one registry: a call changes only the entry it was made for,  *)
(* and the steps of network_ethereum.c, network_platon.c and               *)
(* network_quorum.c between are not seen, unless two mishaps meet a delete.*)
(***************************************************************************)
THEOREM NetworkStoreImplementsRegistry == NetworkSpec => ImplementsRegistry
  <1>1. NetworkSpec => []FitInv
    BY FitInit, FitStep, PTL DEF NetworkSpec
  <1> QED
    BY <1>1, FitInit, FitStep, PTL DEF NetworkSpec, ImplementsRegistry, Registry!RegistrySpec

=============================================================================
