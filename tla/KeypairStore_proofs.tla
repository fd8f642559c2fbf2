------------------------ MODULE KeypairStore_proofs ------------------------
(***************************************************************************)
(* Proofs about KeypairStore for every number of keypairs.  With any       *)
(* number of failed writes and power losses, neither flash area ever lists *)
(* an index twice; with at most one, keypairs and private keys stay bound, *)
(* the other keypairs are kept and a create heals what a fault has left.   *)
(***************************************************************************)
EXTENDS KeypairStore, FlashArea_proofs

(***************************************************************************)
(* Both areas hold records with an index of their own.                     *)
(***************************************************************************)
AreaInv(a) == NumberedArea(a, Records, MaxNum)

(***************************************************************************)
(* What the running call has found or done in the two areas.               *)
(***************************************************************************)
CallInv ==
    /\ pc # "idle" => call.index \in Indexes
    /\ pc \notin {"idle", "dropKeypair"} => call.key \in Keys
    /\ pc \in {"putKeypair", "dropPrikey", "closePrikeyGap", "restorePrikeyCount",
               "putBack"} =>
          Absent(kp, call.index) /\ Count(kp) < MaxNum
    /\ pc \in {"countKeypair", "countBack", "restoreCount", "closeGap"} => Behind(kp)
    /\ pc = "closeGap" =>
          call.slot \in 1..Len(kp.recs) /\ kp.recs[call.slot].index = call.index
    /\ pc \in {"countPrikey", "closePrikeyGap", "restorePrikeyCount"} => Behind(pk)
    /\ pc = "closePrikeyGap" => call.slot \in 1..Len(pk.recs)

CallTyped ==
    call \in [op : {"none", "create", "delete"}, index : 0..MaxNum,
              key : Keys \union {None}, slot : 0..MaxNum,
              before : SUBSET Records, faults : Nat]

RestInv ==
    /\ {kpRam, pkRam} \subseteq Keys \union {None}
    /\ failures \in Nat /\ crashes \in Nat /\ failures + crashes <= MaxFaults
    /\ vain \in Nat

StoreInv == AreaInv(kp) /\ AreaInv(pk) /\ CallTyped /\ CallInv /\ RestInv

-----------------------------------------------------------------------------
\* The records

LEMMA StoreRecords ==
    ASSUME NEW a, AreaInv(a)
    PROVE  \A s \in 1..Len(a.recs) :
              a.recs[s] \in Records /\ a.recs[s].index \in Indexes /\ a.recs[s].key \in Keys
  <1>1. \A s \in 1..Len(a.recs) : a.recs[s] \in Records
    BY AreaFacts DEF AreaInv
  <1> QED
    BY <1>1 DEF Records

(***************************************************************************)
(* FreeIndex takes the least index that is free, and there is one.         *)
(***************************************************************************)
LEMMA FreeIndexIsFree ==
    ASSUME AreaInv(kp), Count(kp) < MaxNum
    PROVE  FreeIndex \in Indexes /\ Absent(kp, FreeIndex)
  <1> DEFINE Free(i) == Slots(kp, i) = {}
             Lower(i) == \A j \in 1..i - 1 : Slots(kp, j) # {}
  <1>1. \E i \in Indexes : Free(i) /\ Lower(i)
    <2>1. MaxNum \in Nat /\ Count(kp) \in Nat
      BY AreaFacts DEF AreaInv
    <2> QED
      BY <2>1, LeastFreeIndex DEF Indexes
  <1>2. FreeIndex = CHOOSE i \in Indexes : Free(i) /\ Lower(i)
    BY DEF FreeIndex
  <1> HIDE DEF Free, Lower
  <1>3. FreeIndex \in Indexes /\ Free(FreeIndex)
    BY <1>1, <1>2
  <1> QED
    BY <1>3 DEF Free, Slots, Absent

-----------------------------------------------------------------------------
\* The calls

LEMMA StoreInitInv == StoreInit => StoreInv
  <1> SUFFICES ASSUME StoreInit PROVE StoreInv
    OBVIOUS
  <1>1. AreaInv(EmptyArea)
    <2>1. \A r \in Records : r.index \in 1..MaxNum
      BY DEF Records, Indexes
    <2> QED
      BY <2>1, StoreAssumption, EmptyAreaInv DEF AreaInv
  <1>2. CallTyped
    BY StoreAssumption DEF StoreInit, CallTyped
  <1>3. CallInv
    BY DEF StoreInit, CallInv
  <1>4. RestInv
    BY StoreAssumption DEF StoreInit, RestInv
  <1> QED
    BY <1>1, <1>2, <1>3, <1>4 DEF StoreInit, StoreInv

(***************************************************************************)
(* How a write, a failed write and a return change what is counted.        *)
(***************************************************************************)
LEMMA RestSteps ==
    ASSUME RestInv
    PROVE  /\ \A next : Goto(next) => RestInv'
           /\ \A next : FailAndGoto(next) => RestInv'
           /\ \A ok \in BOOLEAN : ReturnNow(ok) \/ FailAndReturn => RestInv'
  BY StoreAssumption
     DEF RestInv, Goto, FailAndGoto, ReturnNow, FailAndReturn, Return, WriteFails, ram

(***************************************************************************)
(* A step that leaves a call ends between calls, where nothing is claimed  *)
(* but the areas' own invariant; a step inside a call keeps what holds.    *)
(***************************************************************************)
LEMMA ReturnInv ==
    ASSUME StoreInv, AreaInv(kp'), AreaInv(pk'), NEW ok \in BOOLEAN,
           ReturnNow(ok) \/ FailAndReturn
    PROVE  StoreInv'
  <1>1. pc' = "idle" /\ call' = call
    BY DEF ReturnNow, FailAndReturn, Return
  <1>2. RestInv'
    BY RestSteps DEF StoreInv
  <1> QED
    BY <1>1, <1>2 DEF StoreInv, CallTyped, CallInv

LEMMA CreateInv == StoreInv /\ Create => StoreInv'
  <1> SUFFICES ASSUME StoreInv, Create PROVE StoreInv'
    OBVIOUS
  <1>1. PICK key \in FreshKeys :
          call' = [op |-> "create", index |-> FreeIndex, key |-> key, slot |-> 0,
                   before |-> Entries(kp), faults |-> failures + crashes]
    BY DEF Create, Called
  <1>2. /\ pc' = "putKeypair" /\ kp' = kp /\ pk' = pk /\ Count(kp) < MaxNum
        /\ AreaInv(kp) /\ AreaInv(pk) /\ Goto("putKeypair")
    BY DEF Create, Goto, areas, StoreInv
  <1>3. FreeIndex \in Indexes /\ Absent(kp, FreeIndex)
    BY <1>2, FreeIndexIsFree
  <1>4. key \in Keys
    BY DEF FreshKeys
  <1>5. CallTyped'
    <2>1. Entries(kp) \in SUBSET Records
      BY <1>2, ListedFacts DEF AreaInv
    <2>2. failures + crashes \in Nat /\ 0 \in 0..MaxNum /\ FreeIndex \in 0..MaxNum
      BY <1>3, StoreAssumption DEF StoreInv, RestInv, Indexes
    <2> QED
      BY <1>1, <1>4, <2>1, <2>2 DEF CallTyped
  <1>6. call'.index = FreeIndex /\ call'.key = key
    BY <1>1
  <1>7. CallInv'
    BY <1>2, <1>3, <1>4, <1>6 DEF CallInv
  <1>8. RestInv'
    BY <1>2, RestSteps DEF StoreInv
  <1> QED
    BY <1>2, <1>5, <1>7, <1>8 DEF StoreInv

LEMMA DeleteInv ==
    ASSUME StoreInv, NEW index \in Indexes, Delete(index) PROVE StoreInv'
  <1>1. /\ call' = [op |-> "delete", index |-> index, key |-> None, slot |-> 0,
                    before |-> Entries(kp), faults |-> failures + crashes]
        /\ pc' = "dropKeypair" /\ kp' = kp /\ pk' = pk /\ Goto("dropKeypair")
    BY DEF Delete, Called, Goto, areas
  <1>2. AreaInv(kp) /\ AreaInv(pk)
    BY DEF StoreInv
  <1>3. CallTyped'
    <2>1. Entries(kp) \in SUBSET Records
      BY <1>2, ListedFacts DEF AreaInv
    <2>2. failures + crashes \in Nat /\ 0 \in 0..MaxNum /\ index \in 0..MaxNum
      BY StoreAssumption DEF StoreInv, RestInv, Indexes
    <2> QED
      BY <1>1, <2>1, <2>2 DEF CallTyped
  <1>4. CallInv'
    BY <1>1 DEF CallInv
  <1>5. RestInv'
    BY <1>1, RestSteps DEF StoreInv
  <1> QED
    BY <1>1, <1>2, <1>3, <1>4, <1>5 DEF StoreInv

(***************************************************************************)
(* The record of the call can be written: its index is not listed.         *)
(***************************************************************************)
LEMMA CallRecord ==
    ASSUME StoreInv, call.index \in Indexes, call.key \in Keys
    PROVE  LET r == Rec(call.index, call.key)
           IN  r \in Records /\ r.index = call.index
  BY DEF Rec, Records

LEMMA PutInv == StoreInv /\ (PutKeypair \/ PutBack) => StoreInv'
  <1> SUFFICES ASSUME StoreInv,
                      NEW from \in {"putKeypair", "putBack"},
                      NEW next \in {"countKeypair", "countBack"},
                      pc = from,
                      \/ /\ kp' = PutRecord(kp, Rec(call.index, call.key))
                         /\ Goto(next) /\ UNCHANGED <<pk, call>>
                      \/ FailAndReturn
               PROVE  StoreInv'
    BY DEF PutKeypair, PutBack
  <1>1. /\ AreaInv(kp) /\ AreaInv(pk) /\ RestInv /\ CallTyped
        /\ call.index \in Indexes /\ call.key \in Keys
        /\ Absent(kp, call.index) /\ Count(kp) < MaxNum
    BY DEF StoreInv, CallInv
  <1>2. CASE FailAndReturn
    BY <1>1, <1>2, ReturnInv DEF FailAndReturn, areas
  <1>3. CASE /\ kp' = PutRecord(kp, Rec(call.index, call.key))
             /\ Goto(next) /\ UNCHANGED <<pk, call>>
    <2>1. AreaInv(kp') /\ Behind(kp')
      BY <1>1, <1>3, CallRecord, PutRecordInv DEF AreaInv
    <2>2. RestInv' /\ pc' = next
      BY <1>1, <1>3, RestSteps DEF Goto
    <2>3. CallInv'
      BY <1>1, <1>3, <2>1, <2>2 DEF CallInv
    <2> QED
      BY <1>1, <1>3, <2>1, <2>2, <2>3 DEF StoreInv, CallTyped
  <1> QED
    BY <1>2, <1>3

LEMMA CountKeypairInv == StoreInv /\ CountKeypair => StoreInv'
  <1> SUFFICES ASSUME StoreInv, CountKeypair PROVE StoreInv'
    OBVIOUS
  <1>1. /\ AreaInv(kp) /\ AreaInv(pk) /\ RestInv /\ CallTyped
        /\ call.index \in Indexes /\ call.key \in Keys /\ Behind(kp)
    BY DEF StoreInv, CallInv, CountKeypair
  <1>2. CASE FailAndReturn
    BY <1>1, <1>2, ReturnInv DEF FailAndReturn, areas
  <1>3. CASE /\ kp' = SetCount(kp, Count(kp) + 1)
             /\ Goto("putPrikey") /\ UNCHANGED <<pk, call>>
    <2>1. AreaInv(kp')
      BY <1>1, <1>3, SetCountInv DEF AreaInv
    <2>2. RestInv' /\ pc' = "putPrikey"
      BY <1>1, <1>3, RestSteps DEF Goto
    <2>3. CallInv'
      BY <1>1, <1>3, <2>2 DEF CallInv
    <2> QED
      BY <1>1, <1>3, <2>1, <2>2, <2>3 DEF StoreInv, CallTyped
  <1> QED
    BY <1>2, <1>3 DEF CountKeypair

(***************************************************************************)
(* Steps that only go on to the deletion of the keypair.                   *)
(***************************************************************************)
LEMMA GoDropInv ==
    ASSUME StoreInv, pc # "idle", UNCHANGED <<areas, call>>,
           Goto("dropKeypair") \/ FailAndGoto("dropKeypair")
    PROVE  StoreInv'
  <1>1. pc' = "dropKeypair" /\ RestInv'
    BY RestSteps DEF StoreInv, Goto, FailAndGoto
  <1> QED
    BY <1>1 DEF StoreInv, CallInv, CallTyped, areas

LEMMA PutPrikeyInv == StoreInv /\ PutPrikey => StoreInv'
  <1> SUFFICES ASSUME StoreInv, PutPrikey PROVE StoreInv'
    OBVIOUS
  <1>1. /\ AreaInv(kp) /\ AreaInv(pk) /\ RestInv /\ CallTyped
        /\ pc = "putPrikey" /\ call.index \in Indexes /\ call.key \in Keys
    BY DEF StoreInv, CallInv, PutPrikey
  <1>2. CASE PrikeyRefused /\ Goto("dropKeypair") /\ UNCHANGED <<areas, call>>
    BY <1>1, <1>2, GoDropInv
  <1>3. CASE FailAndGoto("dropKeypair")
    BY <1>1, <1>3, GoDropInv DEF FailAndGoto
  <1>4. CASE /\ ~PrikeyRefused
             /\ pk' = PutRecord(pk, Rec(call.index, call.key))
             /\ Goto("countPrikey") /\ UNCHANGED <<kp, call>>
    <2>1. Absent(pk, call.index) /\ Count(pk) < MaxNum
      BY <1>1, <1>4, AreaFacts, StoreAssumption DEF AreaInv, PrikeyRefused, Slots, Absent
    <2>2. AreaInv(pk') /\ Behind(pk')
      BY <1>1, <1>4, <2>1, CallRecord, PutRecordInv DEF AreaInv
    <2>3. RestInv' /\ pc' = "countPrikey"
      BY <1>1, <1>4, RestSteps DEF Goto
    <2>4. CallInv'
      BY <1>1, <1>4, <2>2, <2>3 DEF CallInv
    <2> QED
      BY <1>1, <1>4, <2>2, <2>3, <2>4 DEF StoreInv, CallTyped
  <1> QED
    BY <1>2, <1>3, <1>4 DEF PutPrikey

LEMMA CountPrikeyInv == StoreInv /\ CountPrikey => StoreInv'
  <1> SUFFICES ASSUME StoreInv, CountPrikey PROVE StoreInv'
    OBVIOUS
  <1>1. AreaInv(kp) /\ AreaInv(pk) /\ pc = "countPrikey" /\ Behind(pk)
    BY DEF StoreInv, CallInv, CountPrikey
  <1>2. CASE FailAndGoto("dropKeypair")
    BY <1>1, <1>2, GoDropInv DEF FailAndGoto
  <1>3. CASE /\ pk' = SetCount(pk, Count(pk) + 1)
             /\ ReturnNow(TRUE) /\ UNCHANGED kp
    BY <1>1, <1>3, SetCountInv, ReturnInv DEF AreaInv
  <1> QED
    BY <1>2, <1>3 DEF CountPrikey

LEMMA DropKeypairInv == StoreInv /\ DropKeypair => StoreInv'
  <1> SUFFICES ASSUME StoreInv, DropKeypair PROVE StoreInv'
    OBVIOUS
  <1>1. /\ AreaInv(kp) /\ AreaInv(pk) /\ RestInv /\ CallTyped
        /\ pc = "dropKeypair" /\ call.index \in Indexes
    BY DEF StoreInv, CallInv, DropKeypair
  <1>2. PICK s \in Slots(kp, call.index) :
          \/ /\ kp' = LowerCount(kp)
             /\ call' = [call EXCEPT !.slot = s, !.key = kp.recs[s].key]
             /\ Goto("closeGap") /\ UNCHANGED pk
          \/ FailAndReturn
    BY DEF DropKeypair
  <1>3. CASE FailAndReturn
    BY <1>1, <1>3, ReturnInv DEF FailAndReturn, areas
  <1>4. CASE /\ kp' = LowerCount(kp)
             /\ call' = [call EXCEPT !.slot = s, !.key = kp.recs[s].key]
             /\ Goto("closeGap") /\ UNCHANGED pk
    <2>1. /\ AreaInv(kp') /\ Behind(kp')
          /\ s \in 1..Len(kp'.recs) /\ kp'.recs[s].index = call.index
          /\ s \in 1..MaxNum /\ kp.recs[s].key \in Keys
      <3>1. LET b == LowerCount(kp)
            IN  /\ AreaInv(b) /\ Behind(b)
                /\ s \in 1..Len(b.recs) /\ b.recs[s].index = call.index
                /\ s \in 1..MaxNum /\ kp.recs[s] \in Records
        BY <1>1, LowerCountInv DEF AreaInv, Indexes
      <3> QED
        BY <1>4, <3>1 DEF Records
    <2>2. /\ call'.slot = s /\ call'.key = kp.recs[s].key /\ call'.index = call.index
          /\ CallTyped'
      <3>1. call \in [op : {"none", "create", "delete"}, index : 0..MaxNum,
                      key : Keys \union {None}, slot : 0..MaxNum,
                      before : SUBSET Records, faults : Nat]
        BY <1>1 DEF CallTyped
      <3>2. s \in 0..MaxNum /\ kp.recs[s].key \in Keys \union {None}
        BY <2>1
      <3> QED
        BY <1>4, <3>1, <3>2 DEF CallTyped
    <2>3. RestInv' /\ pc' = "closeGap"
      BY <1>1, <1>4, RestSteps DEF Goto
    <2>4. CallInv'
      BY <1>1, <2>1, <2>2, <2>3 DEF CallInv
    <2> QED
      BY <1>1, <1>4, <2>1, <2>2, <2>3, <2>4 DEF StoreInv
  <1> QED
    BY <1>2, <1>3, <1>4

LEMMA CloseGapInv == StoreInv /\ CloseGap => StoreInv'
  <1> SUFFICES ASSUME StoreInv, CloseGap PROVE StoreInv'
    OBVIOUS
  <1>1. /\ AreaInv(kp) /\ AreaInv(pk) /\ RestInv /\ CallTyped
        /\ call.index \in Indexes /\ call.key \in Keys /\ Behind(kp)
        /\ call.slot \in 1..Len(kp.recs) /\ kp.recs[call.slot].index = call.index
    BY DEF StoreInv, CallInv, CloseGap
  <1>2. CASE FailAndGoto("restoreCount")
    <2>1. RestInv' /\ pc' = "restoreCount" /\ UNCHANGED <<kp, pk, call>>
      BY <1>1, <1>2, RestSteps DEF FailAndGoto, areas
    <2> QED
      BY <1>1, <2>1 DEF StoreInv, CallInv, CallTyped
  <1>3. CASE /\ kp' = RemoveSlot(kp, call.slot)
             /\ Goto("dropPrikey") /\ UNCHANGED <<pk, call>>
    <2>1. AreaInv(kp') /\ Count(kp') < MaxNum /\ Absent(kp', call.index)
      BY <1>1, <1>3, RemoveSlotInv DEF AreaInv
    <2>2. RestInv' /\ pc' = "dropPrikey"
      BY <1>1, <1>3, RestSteps DEF Goto
    <2>3. CallInv'
      BY <1>1, <1>3, <2>1, <2>2 DEF CallInv
    <2> QED
      BY <1>1, <1>3, <2>1, <2>2, <2>3 DEF StoreInv, CallTyped
  <1> QED
    BY <1>2, <1>3 DEF CloseGap

LEMMA RestoreInv == StoreInv /\ (RestoreCount \/ CountBack) => StoreInv'
  <1> SUFFICES ASSUME StoreInv, pc \in {"restoreCount", "countBack"},
                      \/ /\ kp' = SetCount(kp, Count(kp) + 1)
                         /\ ReturnNow(FALSE) /\ UNCHANGED pk
                      \/ FailAndReturn
               PROVE  StoreInv'
    BY DEF RestoreCount, CountBack
  <1>1. AreaInv(kp) /\ AreaInv(pk) /\ Behind(kp)
    BY DEF StoreInv, CallInv
  <1> QED
    BY <1>1, SetCountInv, ReturnInv DEF AreaInv, FailAndReturn, areas

(***************************************************************************)
(* While the private key is deleted the keypair is not listed, and may be  *)
(* put back.                                                               *)
(***************************************************************************)
LEMMA GoBackInv ==
    ASSUME StoreInv, UNCHANGED <<areas, call>>,
           pc \in {"dropPrikey", "closePrikeyGap", "restorePrikeyCount"},
           NEW next \in {"putBack", "restorePrikeyCount"},
           next = "restorePrikeyCount" => pc = "closePrikeyGap",
           Goto(next) \/ FailAndGoto(next)
    PROVE  StoreInv'
  <1>1. pc' = next /\ RestInv'
    BY RestSteps DEF StoreInv, Goto, FailAndGoto
  <1> QED
    BY <1>1 DEF StoreInv, CallInv, CallTyped, areas

LEMMA DropPrikeyInv == StoreInv /\ DropPrikey => StoreInv'
  <1> SUFFICES ASSUME StoreInv, DropPrikey PROVE StoreInv'
    OBVIOUS
  <1>1. /\ AreaInv(kp) /\ AreaInv(pk) /\ RestInv /\ CallTyped /\ pc = "dropPrikey"
        /\ call.index \in Indexes /\ call.key \in Keys
        /\ Absent(kp, call.index) /\ Count(kp) < MaxNum
    BY DEF StoreInv, CallInv, DropPrikey
  <1>2. CASE DeleteReturns(TRUE) /\ UNCHANGED areas
    BY <1>1, <1>2, ReturnInv DEF DeleteReturns, areas
  <1>3. CASE Goto("putBack") /\ UNCHANGED <<areas, call>>
    BY <1>1, <1>3, GoBackInv
  <1>4. CASE FailAndGoto("putBack")
    BY <1>1, <1>4, GoBackInv DEF FailAndGoto
  <1>5. ASSUME NEW s \in Slots(pk, call.index), pk' = LowerCount(pk),
               call' = [call EXCEPT !.slot = s], Goto("closePrikeyGap"), UNCHANGED kp
        PROVE  StoreInv'
    <2>1. AreaInv(pk') /\ Behind(pk') /\ s \in 1..Len(pk'.recs) /\ s \in 1..MaxNum
      BY <1>1, <1>5, LowerCountInv DEF AreaInv, Indexes
    <2>2. /\ call'.slot = s /\ call'.key = call.key /\ call'.index = call.index
          /\ CallTyped'
      <3>1. call \in [op : {"none", "create", "delete"}, index : 0..MaxNum,
                      key : Keys \union {None}, slot : 0..MaxNum,
                      before : SUBSET Records, faults : Nat]
        BY <1>1 DEF CallTyped
      <3>2. s \in 0..MaxNum
        BY <2>1
      <3> QED
        BY <1>5, <3>1, <3>2 DEF CallTyped
    <2>3. RestInv' /\ pc' = "closePrikeyGap"
      BY <1>1, <1>5, RestSteps DEF Goto
    <2>4. CallInv'
      BY <1>1, <1>5, <2>1, <2>2, <2>3 DEF CallInv
    <2> QED
      BY <1>1, <1>5, <2>1, <2>2, <2>3, <2>4 DEF StoreInv
  <1> QED
    BY <1>2, <1>3, <1>4, <1>5 DEF DropPrikey

LEMMA ClosePrikeyGapInv == StoreInv /\ ClosePrikeyGap => StoreInv'
  <1> SUFFICES ASSUME StoreInv, ClosePrikeyGap PROVE StoreInv'
    OBVIOUS
  <1>1. /\ AreaInv(kp) /\ AreaInv(pk) /\ pc = "closePrikeyGap"
        /\ Behind(pk) /\ call.slot \in 1..Len(pk.recs)
    BY DEF StoreInv, CallInv, ClosePrikeyGap
  <1>2. CASE FailAndGoto("restorePrikeyCount")
    BY <1>1, <1>2, GoBackInv DEF FailAndGoto
  <1>3. CASE /\ pk' = RemoveSlot(pk, call.slot)
             /\ DeleteReturns(TRUE) /\ UNCHANGED kp
    <2>1. AreaInv(pk')
      BY <1>1, <1>3, RemoveSlotInv DEF AreaInv
    <2> QED
      BY <1>1, <1>3, <2>1, ReturnInv DEF DeleteReturns
  <1> QED
    BY <1>2, <1>3 DEF ClosePrikeyGap

LEMMA RestorePrikeyCountInv == StoreInv /\ RestorePrikeyCount => StoreInv'
  <1> SUFFICES ASSUME StoreInv, RestorePrikeyCount PROVE StoreInv'
    OBVIOUS
  <1>1. AreaInv(kp) /\ AreaInv(pk) /\ pc = "restorePrikeyCount" /\ Behind(pk)
    BY DEF StoreInv, CallInv, RestorePrikeyCount
  <1>2. CASE FailAndGoto("putBack")
    BY <1>1, <1>2, GoBackInv DEF FailAndGoto
  <1>3. CASE /\ pk' = SetCount(pk, Count(pk) + 1)
             /\ DeleteReturns(TRUE) /\ UNCHANGED kp
    BY <1>1, <1>3, SetCountInv, ReturnInv DEF AreaInv, DeleteReturns
  <1> QED
    BY <1>2, <1>3 DEF RestorePrikeyCount

(***************************************************************************)
(* The one-time keypair and the power.                                     *)
(***************************************************************************)
LEMMA RamInv == StoreInv /\ (CreateRam \/ DeleteRam) => StoreInv'
  <1> SUFFICES ASSUME StoreInv, CreateRam \/ DeleteRam PROVE StoreInv'
    OBVIOUS
  <1>1. UNCHANGED <<kp, pk, pc, call, failures, crashes, vain>>
    BY DEF CreateRam, DeleteRam, areas
  <1>2. {kpRam', pkRam'} \subseteq Keys \union {None}
    BY DEF CreateRam, DeleteRam, FreshKeys, StoreInv, RestInv
  <1> QED
    BY <1>1, <1>2 DEF StoreInv, CallInv, CallTyped, RestInv

LEMMA PowerInv == StoreInv /\ PowerLoss => StoreInv'
  <1> SUFFICES ASSUME StoreInv, PowerLoss PROVE StoreInv'
    OBVIOUS
  <1>1. AreaInv(kp') /\ AreaInv(pk')
    BY PowerLossInv DEF AreaInv, StoreInv, PowerLoss
  <1>2. RestInv'
    BY StoreAssumption DEF StoreInv, RestInv, PowerLoss
  <1> QED
    BY <1>1, <1>2 DEF StoreInv, CallInv, CallTyped, PowerLoss

LEMMA StoreStepInv == StoreInv /\ [StoreNext]_storeVars => StoreInv'
  <1> SUFFICES ASSUME StoreInv, [StoreNext]_storeVars PROVE StoreInv'
    OBVIOUS
  <1>1. CASE UNCHANGED storeVars
    BY <1>1 DEF storeVars, StoreInv, CallInv, CallTyped, RestInv
  <1> QED
    BY <1>1, CreateInv, DeleteInv, PutInv, CountKeypairInv, PutPrikeyInv,
       CountPrikeyInv, DropKeypairInv, CloseGapInv, RestoreInv, DropPrikeyInv,
       ClosePrikeyGapInv, RestorePrikeyCountInv, RamInv, PowerInv, Zenon
       DEF StoreNext, DeleteStep

LEMMA StoreInvariant == StoreSpec => []StoreInv
  BY StoreInitInv, StoreStepInv, PTL DEF StoreSpec

-----------------------------------------------------------------------------

(***************************************************************************)
(* For every number of keypairs, and however many writes fail or power is  *)
(* lost at whatever step of a call, an index names at most one keypair and *)
(* at most one private key.                                                *)
(***************************************************************************)
THEOREM StoreIndexesUnique == StoreSpec => []IndexesUnique
  <1>1. StoreInv => IndexesUnique
    <2> SUFFICES ASSUME NEW a, AreaInv(a), NEW s \in 1..Count(a), NEW t \in 1..Count(a)
                 PROVE  /\ a.recs[s].index \in Indexes
                        /\ a.recs[s].index = a.recs[t].index => s = t
      BY DEF StoreInv, IndexesUnique
    <2>1. s \in 1..Len(a.recs)
      BY AreaFacts DEF AreaInv
    <2> QED
      BY <2>1, StoreRecords DEF AreaInv, NumberedArea, Distinct
  <1> QED
    BY <1>1, StoreInvariant, PTL

(***************************************************************************)
(* The areas, the call and the counters have their types: no area ever     *)
(* holds more than MaxNum records.                                         *)
(***************************************************************************)
THEOREM StoreTypeCorrect == StoreSpec => []StoreTypeOK
  <1>1. ASSUME NEW a, AreaInv(a) PROVE AreaOK(a, Records, MaxNum)
    <2> DEFINE n == Len(a.recs)
    <2>1. n \in 0..MaxNum /\ a.recs \in [1..n -> Records]
      BY <1>1, AreaFacts DEF AreaInv
    <2>2. a.recs \in BoundedSeq(Records, MaxNum)
      <3> HIDE DEF n
      <3> QED
        BY <2>1 DEF BoundedSeq, SeqOf
    <2> QED
      BY <1>1, <2>2 DEF AreaInv, NumberedArea, AreaOK
  <1>2. StoreInv => StoreTypeOK
    BY <1>1, StoreAssumption DEF StoreInv, RestInv, CallTyped, StoreTypeOK
  <1> QED
    BY <1>2, StoreInvariant, PTL

-----------------------------------------------------------------------------
\* What a call makes of the two areas, as sets

Faults == failures + crashes

\* The record the call is about.
Own == Rec(call.index, call.key)

(***************************************************************************)
(* The keypairs and the private keys that are stored.  While a gap is open *)
(* the record behind the others is one of them.                            *)
(***************************************************************************)
Keypairs == IF pc \in {"closeGap", "restoreCount"} THEN Whole(kp) ELSE Entries(kp)
Prikeys == IF pc \in {"closePrikeyGap", "restorePrikeyCount"} THEN Whole(pk)
           ELSE Entries(pk)

StoredSame == Keypairs' = Keypairs /\ Prikeys' = Prikeys
CallSame ==
    /\ call'.op = call.op /\ call'.index = call.index
    /\ call'.before = call.before /\ call'.faults = call.faults

(***************************************************************************)
(* What the call has written or found, whatever has failed.                *)
(***************************************************************************)
WriteInv ==
    /\ pc \in {"idle", "putKeypair", "countKeypair", "putPrikey", "countPrikey",
               "dropKeypair", "closeGap", "restoreCount", "dropPrikey",
               "closePrikeyGap", "restorePrikeyCount", "putBack", "countBack"}
    /\ pc # "idle" => call.faults <= Faults /\ call.op \in {"create", "delete"}
    /\ pc \in {"putKeypair", "countKeypair", "putPrikey", "countPrikey"} =>
          call.op = "create"
    /\ pc \in {"countKeypair", "countBack"} => kp.recs[Count(kp) + 1] = Own
    /\ pc = "closeGap" => kp.recs[call.slot] = Own
    /\ pc = "countPrikey" => pk.recs[Count(pk) + 1] = Own
    /\ pc = "closePrikeyGap" => pk.recs[call.slot].index = call.index
    /\ pc \in {"restoreCount", "restorePrikeyCount"} => call.faults < Faults

Returned(ok) ==
    vain' = IF call.op # "create" THEN vain
            ELSE IF ok \/ Faults' # call.faults THEN 0 ELSE vain + 1

LEMMA ControlFacts ==
    ASSUME StoreInv
    PROVE  /\ Faults \in Nat /\ call.faults \in Nat
           /\ \A next : Goto(next) => pc' = next /\ Faults' = Faults /\ vain' = vain
           /\ \A next : FailAndGoto(next) =>
                 /\ pc' = next /\ Faults' = Faults + 1 /\ vain' = vain
                 /\ kp' = kp /\ pk' = pk /\ call' = call
           /\ FailAndReturn =>
                 /\ pc' = "idle" /\ Faults' = Faults + 1 /\ Returned(FALSE)
                 /\ kp' = kp /\ pk' = pk /\ call' = call
           /\ \A ok \in BOOLEAN : ReturnNow(ok) =>
                 pc' = "idle" /\ Faults' = Faults /\ Returned(ok) /\ call' = call
  <1>1. failures \in Nat /\ crashes \in Nat
    BY DEF StoreInv, RestInv
  <1>2. Faults \in Nat /\ call.faults \in Nat
    BY <1>1 DEF Faults, StoreInv, CallTyped
  <1>3. \A next : Goto(next) => pc' = next /\ Faults' = Faults /\ vain' = vain
    BY DEF Goto, Faults
  <1>4. \A next : FailAndGoto(next) =>
                 /\ pc' = next /\ Faults' = Faults + 1 /\ vain' = vain
                 /\ kp' = kp /\ pk' = pk /\ call' = call
    BY <1>1 DEF FailAndGoto, WriteFails, Faults, areas
  <1>5. FailAndReturn =>
                 /\ pc' = "idle" /\ Faults' = Faults + 1 /\ Returned(FALSE)
                 /\ kp' = kp /\ pk' = pk /\ call' = call
    BY <1>1 DEF FailAndReturn, WriteFails, Return, Returned, Faults, areas
  <1>6. ASSUME NEW ok \in BOOLEAN, ReturnNow(ok)
        PROVE  pc' = "idle" /\ Faults' = Faults /\ Returned(ok) /\ call' = call
    BY <1>6 DEF ReturnNow, Return, Returned, Faults
  <1> QED
    BY <1>2, <1>3, <1>4, <1>5, <1>6

LEMMA OwnFacts ==
    /\ Own.index = call.index /\ Own.key = call.key
    /\ \A r \in Records : r = Rec(r.index, r.key)
    /\ call.index \in Indexes /\ call.key \in Keys => Own \in Records
  BY DEF Own, Rec, Records

\* A step that ends a call disturbs nothing of the call's own invariant.
LEMMA WriteIdle == pc' = "idle" => WriteInv'
  BY DEF WriteInv

-----------------------------------------------------------------------------

LEMMA CreateSets ==
    ASSUME StoreInv, Create
    PROVE  /\ WriteInv' /\ StoredSame /\ pc' = "putKeypair" /\ Faults' = Faults
           /\ vain' = vain /\ pc = "idle"
           /\ call'.op = "create" /\ call'.before = Keypairs /\ call'.faults = Faults
           /\ ~Named(Keypairs, call'.index)
  <1>1. PICK key \in FreshKeys :
          call' = [op |-> "create", index |-> FreeIndex, key |-> key, slot |-> 0,
                   before |-> Entries(kp), faults |-> failures + crashes]
    BY DEF Create, Called
  <1>2. /\ pc = "idle" /\ kp' = kp /\ pk' = pk /\ Count(kp) < MaxNum
        /\ AreaInv(kp) /\ Goto("putKeypair")
    BY DEF Create, areas, StoreInv
  <1>3. /\ call'.op = "create" /\ call'.before = Entries(kp) /\ call'.faults = Faults
        /\ call'.index = FreeIndex
    BY <1>1 DEF Faults
  <1>4. pc' = "putKeypair" /\ Faults' = Faults /\ vain' = vain /\ Faults \in Nat
    BY <1>2, ControlFacts
  <1>5. ~Named(Entries(kp), FreeIndex)
    BY <1>2, FreeIndexIsFree, EntriesFacts DEF AreaInv
  <1>6. Keypairs = Entries(kp) /\ StoredSame
    BY <1>2, <1>4 DEF StoredSame, Keypairs, Prikeys
  <1>7. WriteInv'
    BY <1>3, <1>4 DEF WriteInv
  <1> QED
    BY <1>2, <1>3, <1>4, <1>5, <1>6, <1>7

LEMMA DeleteSets ==
    ASSUME StoreInv, NEW index \in Indexes, Delete(index)
    PROVE  /\ WriteInv' /\ StoredSame /\ pc' = "dropKeypair" /\ Faults' = Faults
           /\ vain' = vain /\ pc = "idle"
           /\ call'.op = "delete" /\ call'.before = Keypairs /\ call'.faults = Faults
           /\ Named(Keypairs, call'.index)
  <1>1. call' = [op |-> "delete", index |-> index, key |-> None, slot |-> 0,
                 before |-> Entries(kp), faults |-> failures + crashes]
    BY DEF Delete, Called
  <1>2. /\ pc = "idle" /\ kp' = kp /\ pk' = pk /\ Slots(kp, index) # {}
        /\ AreaInv(kp) /\ Goto("dropKeypair")
    BY DEF Delete, areas, StoreInv
  <1>3. /\ call'.op = "delete" /\ call'.before = Entries(kp) /\ call'.faults = Faults
        /\ call'.index = index
    BY <1>1 DEF Faults
  <1>4. pc' = "dropKeypair" /\ Faults' = Faults /\ vain' = vain /\ Faults \in Nat
    BY <1>2, ControlFacts
  <1>5. Named(Entries(kp), index)
    BY <1>2, EntriesFacts DEF AreaInv
  <1>6. Keypairs = Entries(kp) /\ StoredSame
    BY <1>2, <1>4 DEF StoredSame, Keypairs, Prikeys
  <1>7. WriteInv'
    BY <1>3, <1>4 DEF WriteInv
  <1> QED
    BY <1>2, <1>3, <1>4, <1>5, <1>6, <1>7

LEMMA PutSets ==
    ASSUME StoreInv, WriteInv, PutKeypair \/ PutBack
    PROVE  WriteInv' /\ StoredSame
  <1>1. /\ AreaInv(kp) /\ call.index \in Indexes /\ call.key \in Keys
        /\ pc \in {"putKeypair", "putBack"}
    BY DEF StoreInv, CallInv, PutKeypair, PutBack
  <1>2. CASE FailAndReturn
    BY <1>1, <1>2, ControlFacts, WriteIdle DEF StoredSame, Keypairs, Prikeys
  <1>3. ASSUME NEW next, next = IF pc = "putKeypair" THEN "countKeypair" ELSE "countBack",
               kp' = PutRecord(kp, Own), Goto(next), pk' = pk, call' = call
        PROVE  WriteInv' /\ StoredSame
    <2>1. pc' = next /\ Faults' = Faults
      BY <1>3, ControlFacts
    <2>2. Own \in Records
      BY <1>1, OwnFacts
    <2>3. Entries(kp') = Entries(kp) /\ kp'.recs[Count(kp') + 1] = Own
      BY <1>1, <1>3, <2>2, EntriesPut DEF AreaInv
    <2>4. Own' = Own
      BY <1>3 DEF Own
    <2>5. StoredSame
      BY <1>1, <1>3, <2>1, <2>3 DEF StoredSame, Keypairs, Prikeys
    <2>6. WriteInv'
      BY <1>1, <1>3, <2>1, <2>3, <2>4 DEF WriteInv
    <2> QED
      BY <2>5, <2>6
  <1> QED
    BY <1>2, <1>3 DEF PutKeypair, PutBack, Own

(***************************************************************************)
(* Counting the record behind the others stores it.                        *)
(***************************************************************************)
LEMMA CountSets ==
    ASSUME StoreInv, WriteInv, CountKeypair \/ CountBack, ~FailAndReturn
    PROVE  /\ WriteInv' /\ Keypairs' = Keypairs \union {Own} /\ Prikeys' = Prikeys
           /\ call' = call /\ Faults' = Faults
  <1>1. /\ AreaInv(kp) /\ Behind(kp) /\ pc \in {"countKeypair", "countBack"}
        /\ kp.recs[Count(kp) + 1] = Own
    BY DEF StoreInv, CallInv, WriteInv, CountKeypair, CountBack
  <1>2. /\ kp' = SetCount(kp, Count(kp) + 1) /\ pk' = pk /\ call' = call
        /\ pc' \in {"putPrikey", "idle"} /\ Faults' = Faults
        /\ pc' = "putPrikey" => pc = "countKeypair"
    BY ControlFacts DEF CountKeypair, CountBack
  <1>3. Entries(kp') = Entries(kp) \union {Own}
    BY <1>1, <1>2, EntriesSetCount, WholeFacts DEF AreaInv
  <1>4. Keypairs' = Keypairs \union {Own} /\ Prikeys' = Prikeys
    BY <1>1, <1>2, <1>3 DEF Keypairs, Prikeys
  <1>5. WriteInv'
    BY <1>1, <1>2 DEF WriteInv
  <1> QED
    BY <1>2, <1>4, <1>5

LEMMA CountFails ==
    ASSUME StoreInv, WriteInv, CountKeypair \/ CountBack, FailAndReturn
    PROVE  WriteInv' /\ StoredSame
  BY ControlFacts, WriteIdle DEF StoredSame, Keypairs, Prikeys, CountKeypair, CountBack

LEMMA PutPrikeySets ==
    ASSUME StoreInv, WriteInv, PutPrikey
    PROVE  WriteInv' /\ StoredSame /\ call' = call
  <1>1. /\ AreaInv(pk) /\ call.index \in Indexes /\ call.key \in Keys /\ pc = "putPrikey"
        /\ call.op = "create" /\ call.faults <= Faults
        /\ call.faults \in Nat /\ Faults \in Nat
    BY ControlFacts DEF StoreInv, CallInv, WriteInv, PutPrikey
  <1>2. ASSUME kp' = kp, pk' = pk, call' = call, pc' = "dropKeypair",
               Faults' \in {Faults, Faults + 1}
        PROVE  WriteInv' /\ StoredSame
    BY <1>1, <1>2 DEF WriteInv, StoredSame, Keypairs, Prikeys
  <1>3. CASE PrikeyRefused /\ Goto("dropKeypair") /\ UNCHANGED <<areas, call>>
    BY <1>2, <1>3, ControlFacts DEF areas
  <1>4. CASE FailAndGoto("dropKeypair")
    BY <1>2, <1>4, ControlFacts
  <1>5. CASE /\ pk' = PutRecord(pk, Own) /\ Goto("countPrikey") /\ UNCHANGED <<kp, call>>
    <2>1. pc' = "countPrikey" /\ Faults' = Faults /\ Own \in Records /\ Own' = Own
      BY <1>1, <1>5, ControlFacts, OwnFacts DEF Own
    <2>2. Entries(pk') = Entries(pk) /\ pk'.recs[Count(pk') + 1] = Own
      BY <1>1, <1>5, <2>1, EntriesPut DEF AreaInv
    <2> QED
      BY <1>1, <1>5, <2>1, <2>2 DEF WriteInv, StoredSame, Keypairs, Prikeys
  <1>6. call' = call
    BY ControlFacts DEF PutPrikey
  <1> QED
    BY <1>3, <1>4, <1>5, <1>6 DEF PutPrikey, Own

LEMMA CountPrikeySets ==
    ASSUME StoreInv, WriteInv, CountPrikey
    PROVE  /\ WriteInv' /\ call' = call /\ Keypairs' = Keypairs
           /\ IF FailAndGoto("dropKeypair") THEN Prikeys' = Prikeys
              ELSE Prikeys' = Prikeys \union {Own} /\ ReturnNow(TRUE)
  <1>1. /\ AreaInv(pk) /\ Behind(pk) /\ pc = "countPrikey"
        /\ pk.recs[Count(pk) + 1] = Own /\ call.op = "create" /\ call.faults <= Faults
        /\ call.faults \in Nat /\ Faults \in Nat
    BY ControlFacts DEF StoreInv, CallInv, WriteInv, CountPrikey
  <1>2. CASE FailAndGoto("dropKeypair")
    <2>1. /\ kp' = kp /\ pk' = pk /\ call' = call /\ pc' = "dropKeypair"
          /\ Faults' = Faults + 1
      BY <1>2, ControlFacts
    <2> QED
      BY <1>1, <1>2, <2>1 DEF WriteInv, Keypairs, Prikeys
  <1>3. CASE ~FailAndGoto("dropKeypair")
    <2>1. pk' = SetCount(pk, Count(pk) + 1) /\ ReturnNow(TRUE) /\ kp' = kp
      BY <1>3 DEF CountPrikey
    <2>2. pc' = "idle" /\ call' = call
      BY <2>1, ControlFacts
    <2>3. Entries(pk') = Entries(pk) \union {Own}
      BY <1>1, <2>1, EntriesSetCount, WholeFacts DEF AreaInv
    <2> QED
      BY <1>1, <1>3, <2>1, <2>2, <2>3, WriteIdle DEF Keypairs, Prikeys
  <1> QED
    BY <1>2, <1>3

(***************************************************************************)
(* The record that is dropped is the one its index names, and remembered.  *)
(***************************************************************************)
LEMMA DropSets ==
    ASSUME StoreInv, WriteInv, DropKeypair
    PROVE  /\ WriteInv' /\ StoredSame /\ CallSame
           /\ \/ FailAndReturn
              \/ /\ pc' = "closeGap" /\ Faults' = Faults /\ vain' = vain
                 /\ Own' \in Keypairs
  <1>1. /\ AreaInv(kp) /\ pc = "dropKeypair" /\ call.index \in Indexes
        /\ call.faults <= Faults /\ call.op \in {"create", "delete"}
    BY DEF StoreInv, CallInv, WriteInv, DropKeypair
  <1>2. CASE FailAndReturn
    BY <1>1, <1>2, ControlFacts, WriteIdle DEF StoredSame, Keypairs, Prikeys, CallSame
  <1>3. ASSUME NEW s \in Slots(kp, call.index), kp' = LowerCount(kp),
               call' = [call EXCEPT !.slot = s, !.key = kp.recs[s].key],
               Goto("closeGap"), pk' = pk
        PROVE  /\ WriteInv' /\ StoredSame /\ CallSame
               /\ pc' = "closeGap" /\ Faults' = Faults /\ vain' = vain
               /\ Own' \in Keypairs
    <2>1. CallSame /\ call'.slot = s /\ call'.key = kp.recs[s].key
      <3>1. call \in [op : {"none", "create", "delete"}, index : 0..MaxNum,
                      key : Keys \union {None}, slot : 0..MaxNum,
                      before : SUBSET Records, faults : Nat]
        BY DEF StoreInv, CallTyped
      <3> QED
        BY <1>3, <3>1 DEF CallSame
    <2>2. pc' = "closeGap" /\ Faults' = Faults /\ vain' = vain
      BY <1>3, ControlFacts
    <2>3. s \in 1..Count(kp) /\ kp.recs[s].index = call.index
      BY DEF Slots
    <2>4. Whole(kp') = Entries(kp) /\ kp'.recs[s] = kp.recs[s]
      BY <1>1, <1>3, <2>3, WholeLower DEF AreaInv
    <2>5. kp.recs[s] \in Records /\ kp.recs[s] \in Entries(kp)
      BY <1>1, <2>3, AreaFacts, EntriesFacts DEF AreaInv
    <2>6. Own' = kp.recs[s]
      BY <2>1, <2>3, <2>5, OwnFacts DEF Own, CallSame
    <2>7. StoredSame
      BY <1>1, <1>3, <2>2, <2>4 DEF StoredSame, Keypairs, Prikeys
    <2>8. WriteInv'
      BY <1>1, <2>1, <2>2, <2>4, <2>6 DEF WriteInv, CallSame
    <2> QED
      BY <1>1, <2>1, <2>2, <2>5, <2>6, <2>7, <2>8 DEF Keypairs
  <1> QED
    BY <1>2, <1>3 DEF DropKeypair

LEMMA CloseGapSets ==
    ASSUME StoreInv, WriteInv, CloseGap
    PROVE  /\ WriteInv' /\ call' = call /\ Prikeys' = Prikeys /\ Own \in Keypairs
           /\ IF FailAndGoto("restoreCount") THEN Keypairs' = Keypairs
              ELSE Goto("dropPrikey") /\ Keypairs' = Keypairs \ {Own}
  <1>1. /\ AreaInv(kp) /\ Behind(kp) /\ pc = "closeGap"
        /\ call.slot \in 1..Len(kp.recs) /\ kp.recs[call.slot] = Own
        /\ call.faults <= Faults /\ call.op \in {"create", "delete"}
        /\ call.faults \in Nat /\ Faults \in Nat
    BY ControlFacts DEF StoreInv, CallInv, WriteInv, CloseGap
  <1>2. Keypairs = Whole(kp) /\ Own \in Keypairs
    BY <1>1, WholeFacts DEF Keypairs, AreaInv
  <1>3. CASE FailAndGoto("restoreCount")
    <2>1. /\ kp' = kp /\ pk' = pk /\ call' = call /\ pc' = "restoreCount"
          /\ Faults' = Faults + 1 /\ Own' = Own
      BY <1>3, ControlFacts DEF Own
    <2> QED
      BY <1>1, <1>2, <1>3, <2>1 DEF WriteInv, Keypairs, Prikeys
  <1>4. CASE ~FailAndGoto("restoreCount")
    <2>1. /\ kp' = RemoveSlot(kp, call.slot) /\ Goto("dropPrikey")
          /\ pk' = pk /\ call' = call
      BY <1>4 DEF CloseGap
    <2>2. pc' = "dropPrikey" /\ Faults' = Faults
      BY <2>1, ControlFacts
    <2>3. Entries(kp') = Whole(kp) \ {Own}
      BY <1>1, <2>1, EntriesRemove DEF AreaInv
    <2> QED
      BY <1>1, <1>2, <1>4, <2>1, <2>2, <2>3 DEF WriteInv, Keypairs, Prikeys
  <1> QED
    BY <1>3, <1>4

\* When the count cannot be restored either, that is a second fault.
LEMMA RestoreSets ==
    ASSUME StoreInv, WriteInv, RestoreCount
    PROVE  /\ WriteInv' /\ call' = call
           /\ \/ Faults' >= 2
              \/ ReturnNow(FALSE) /\ StoredSame /\ call.faults < Faults
  <1>1. /\ AreaInv(kp) /\ Behind(kp) /\ pc = "restoreCount" /\ call.faults < Faults
        /\ call.faults \in Nat /\ Faults \in Nat
    BY ControlFacts DEF StoreInv, CallInv, WriteInv, RestoreCount
  <1>2. CASE FailAndReturn
    <2>1. Faults + 1 >= 2
      BY <1>1
    <2> QED
      BY <1>2, <2>1, ControlFacts, WriteIdle
  <1>3. CASE kp' = SetCount(kp, Count(kp) + 1) /\ ReturnNow(FALSE) /\ UNCHANGED pk
    <2>1. pc' = "idle" /\ call' = call
      BY <1>3, ControlFacts
    <2>2. Entries(kp') = Whole(kp)
      BY <1>1, <1>3, EntriesSetCount DEF AreaInv
    <2> QED
      BY <1>1, <1>3, <2>1, <2>2, WriteIdle DEF StoredSame, Keypairs, Prikeys
  <1> QED
    BY <1>2, <1>3 DEF RestoreCount

LEMMA DropPrikeySets ==
    ASSUME StoreInv, WriteInv, DropPrikey
    PROVE  /\ WriteInv' /\ StoredSame /\ CallSame /\ Own' = Own
           /\ \/ DeleteReturns(TRUE) /\ Prikeys = {}
              \/ Goto("putBack") /\ ~Named(Prikeys, call.index)
              \/ Goto("closePrikeyGap")
              \/ FailAndGoto("putBack")
  <1>1. /\ AreaInv(pk) /\ pc = "dropPrikey" /\ Prikeys = Entries(pk)
        /\ call.faults <= Faults /\ call.op \in {"create", "delete"}
        /\ call.faults \in Nat /\ Faults \in Nat
    BY ControlFacts DEF StoreInv, WriteInv, DropPrikey, Prikeys
  <1>2. CASE pk.num = 0 /\ DeleteReturns(TRUE) /\ UNCHANGED areas
    <2>1. pc' = "idle" /\ call' = call /\ kp' = kp /\ pk' = pk
      BY <1>2, ControlFacts DEF DeleteReturns, areas
    <2>2. Count(pk) = 0
      BY <1>2 DEF Count
    <2>3. Entries(pk) = {}
      BY <1>1, <2>2, EntriesFacts DEF AreaInv
    <2> QED
      BY <1>1, <1>2, <2>1, <2>3, WriteIdle
         DEF StoredSame, Keypairs, Prikeys, CallSame, Own
  <1>3. CASE Slots(pk, call.index) = {} /\ Goto("putBack") /\ UNCHANGED <<areas, call>>
    <2>1. pc' = "putBack" /\ call' = call /\ kp' = kp /\ pk' = pk /\ Faults' = Faults
      BY <1>3, ControlFacts DEF areas
    <2>2. ~Named(Entries(pk), call.index)
      BY <1>1, <1>3, EntriesFacts DEF AreaInv
    <2> QED
      BY <1>1, <1>3, <2>1, <2>2 DEF WriteInv, StoredSame, Keypairs, Prikeys, CallSame, Own
  <1>4. CASE FailAndGoto("putBack")
    <2>1. pc' = "putBack" /\ call' = call /\ kp' = kp /\ pk' = pk /\ Faults' = Faults + 1
      BY <1>4, ControlFacts
    <2>2. call.faults <= Faults + 1
      BY <1>1
    <2>3. WriteInv'
      BY <1>1, <2>1, <2>2 DEF WriteInv
    <2> QED
      BY <1>1, <1>4, <2>1, <2>3 DEF StoredSame, Keypairs, Prikeys, CallSame, Own
  <1>5. ASSUME NEW s \in Slots(pk, call.index), pk' = LowerCount(pk),
               call' = [call EXCEPT !.slot = s], Goto("closePrikeyGap"), kp' = kp
        PROVE  WriteInv' /\ StoredSame /\ CallSame /\ Own' = Own
    <2>1. CallSame /\ call'.slot = s /\ call'.key = call.key
      <3>1. call \in [op : {"none", "create", "delete"}, index : 0..MaxNum,
                      key : Keys \union {None}, slot : 0..MaxNum,
                      before : SUBSET Records, faults : Nat]
        BY DEF StoreInv, CallTyped
      <3> QED
        BY <1>5, <3>1 DEF CallSame
    <2>2. pc' = "closePrikeyGap" /\ Faults' = Faults
      BY <1>5, ControlFacts
    <2>3. s \in 1..Count(pk) /\ pk.recs[s].index = call.index
      BY DEF Slots
    <2>4. Whole(pk') = Entries(pk) /\ pk'.recs[s] = pk.recs[s]
      BY <1>1, <1>5, <2>3, WholeLower DEF AreaInv
    <2>5. StoredSame /\ Own' = Own
      BY <1>1, <1>5, <2>1, <2>2, <2>4 DEF StoredSame, Keypairs, Prikeys, Own, CallSame
    <2>6. WriteInv'
      BY <1>1, <2>1, <2>2, <2>3, <2>4 DEF WriteInv, CallSame
    <2> QED
      BY <2>1, <2>5, <2>6
  <1> QED
    BY <1>2, <1>3, <1>4, <1>5 DEF DropPrikey

\* The private key that is removed is the one stored under the index.
LEMMA ClosePrikeyGapSets ==
    ASSUME StoreInv, WriteInv, ClosePrikeyGap
    PROVE  /\ WriteInv' /\ call' = call /\ Keypairs' = Keypairs
           /\ IF FailAndGoto("restorePrikeyCount") THEN Prikeys' = Prikeys
              ELSE /\ DeleteReturns(TRUE)
                   /\ \E x \in Prikeys : x.index = call.index /\ Prikeys' = Prikeys \ {x}
  <1>1. /\ AreaInv(pk) /\ Behind(pk) /\ pc = "closePrikeyGap"
        /\ call.slot \in 1..Len(pk.recs) /\ pk.recs[call.slot].index = call.index
        /\ call.faults <= Faults /\ call.op \in {"create", "delete"}
        /\ call.faults \in Nat /\ Faults \in Nat
    BY ControlFacts DEF StoreInv, CallInv, WriteInv, ClosePrikeyGap
  <1>2. Prikeys = Whole(pk) /\ pk.recs[call.slot] \in Prikeys
    BY <1>1, WholeFacts DEF Prikeys, AreaInv
  <1>3. CASE FailAndGoto("restorePrikeyCount")
    <2>1. /\ kp' = kp /\ pk' = pk /\ call' = call /\ pc' = "restorePrikeyCount"
          /\ Faults' = Faults + 1
      BY <1>3, ControlFacts
    <2> QED
      BY <1>1, <1>2, <1>3, <2>1 DEF WriteInv, Keypairs, Prikeys
  <1>4. CASE ~FailAndGoto("restorePrikeyCount")
    <2>1. pk' = RemoveSlot(pk, call.slot) /\ DeleteReturns(TRUE) /\ kp' = kp
      BY <1>4 DEF ClosePrikeyGap
    <2>2. pc' = "idle" /\ call' = call
      BY <2>1, ControlFacts DEF DeleteReturns
    <2>3. Entries(pk') = Whole(pk) \ {pk.recs[call.slot]}
      BY <1>1, <2>1, EntriesRemove DEF AreaInv
    <2>4. Keypairs' = Keypairs /\ Prikeys' = Prikeys \ {pk.recs[call.slot]}
      BY <1>1, <1>2, <2>1, <2>2, <2>3 DEF Keypairs, Prikeys
    <2> QED
      BY <1>1, <1>2, <1>4, <2>1, <2>2, <2>4, WriteIdle
  <1> QED
    BY <1>3, <1>4

LEMMA RestorePrikeySets ==
    ASSUME StoreInv, WriteInv, RestorePrikeyCount
    PROVE  /\ WriteInv' /\ call' = call /\ Keypairs' = Keypairs
           /\ \/ Faults' >= 2
              \/ DeleteReturns(TRUE) /\ Prikeys' = Prikeys /\ call.faults < Faults
  <1>1. /\ AreaInv(pk) /\ Behind(pk) /\ pc = "restorePrikeyCount"
        /\ call.faults < Faults /\ call.op \in {"create", "delete"}
        /\ call.faults \in Nat /\ Faults \in Nat
    BY ControlFacts DEF StoreInv, CallInv, WriteInv, RestorePrikeyCount
  <1>2. CASE FailAndGoto("putBack")
    <2>1. /\ kp' = kp /\ pk' = pk /\ call' = call /\ pc' = "putBack"
          /\ Faults' = Faults + 1
      BY <1>2, ControlFacts
    <2>2. Faults + 1 >= 2 /\ call.faults <= Faults + 1
      BY <1>1
    <2>3. WriteInv'
      BY <1>1, <2>1, <2>2 DEF WriteInv
    <2> QED
      BY <1>1, <2>1, <2>2, <2>3 DEF Keypairs
  <1>3. CASE pk' = SetCount(pk, Count(pk) + 1) /\ DeleteReturns(TRUE) /\ UNCHANGED kp
    <2>1. pc' = "idle" /\ call' = call
      BY <1>3, ControlFacts DEF DeleteReturns
    <2>2. Entries(pk') = Whole(pk)
      BY <1>1, <1>3, EntriesSetCount DEF AreaInv
    <2> QED
      BY <1>1, <1>3, <2>1, <2>2, WriteIdle DEF Keypairs, Prikeys
  <1> QED
    BY <1>2, <1>3 DEF RestorePrikeyCount

(***************************************************************************)
(* The power takes the record behind the others, if a gap is open.         *)
(***************************************************************************)
LEMMA PowerSets ==
    ASSUME StoreInv, WriteInv, PowerLoss
    PROVE  /\ WriteInv' /\ pc' = "idle" /\ Faults' = Faults + 1 /\ vain' = 0
           /\ Keypairs' = Entries(kp) /\ Prikeys' = Entries(pk)
           /\ pc \notin {"closeGap", "restoreCount"} => Keypairs' = Keypairs
           /\ pc \notin {"closePrikeyGap", "restorePrikeyCount"} => Prikeys' = Prikeys
           /\ pc = "closeGap" => \E x : Keypairs = Keypairs' \union {x}
           /\ pc = "closePrikeyGap" => Prikeys' \subseteq Prikeys
  <1>1. /\ kp' = [kp EXCEPT !.recs = Listed(kp)] /\ pk' = [pk EXCEPT !.recs = Listed(pk)]
        /\ pc' = "idle" /\ vain' = 0 /\ AreaInv(kp) /\ AreaInv(pk)
    BY DEF PowerLoss, StoreInv
  <1>2. Entries(kp') = Entries(kp) /\ Entries(pk') = Entries(pk)
    BY <1>1, EntriesCut DEF AreaInv
  <1>3. Faults' = Faults + 1
    BY DEF PowerLoss, Faults, StoreInv, RestInv
  <1>4. Keypairs' = Entries(kp) /\ Prikeys' = Entries(pk)
    BY <1>1, <1>2 DEF Keypairs, Prikeys
  <1>5. pc = "closeGap" => Keypairs = Entries(kp) \union {kp.recs[Count(kp) + 1]}
    BY <1>1, WholeFacts DEF AreaInv, StoreInv, CallInv, Keypairs
  <1>6. pc = "closePrikeyGap" => Entries(pk) \subseteq Prikeys
    BY <1>1, WholeFacts DEF AreaInv, StoreInv, CallInv, Prikeys
  <1> QED
    BY <1>1, <1>3, <1>4, <1>5, <1>6, WriteIdle DEF Keypairs, Prikeys

-----------------------------------------------------------------------------
\* The other keypairs

\* The steps of a call that is under way.
CallStep == PutKeypair \/ CountKeypair \/ PutPrikey \/ CountPrikey \/ DeleteStep

LEMMA NextCases ==
    StoreNext => \/ Create \/ \E index \in Indexes : Delete(index)
                 \/ CallStep \/ CreateRam \/ DeleteRam \/ PowerLoss
  BY Zenon DEF StoreNext, CallStep

(***************************************************************************)
(* A step of a call adds or takes only its own record, or ends the call    *)
(* with a second fault.                                                    *)
(***************************************************************************)
LEMMA CallStepSets ==
    ASSUME StoreInv, WriteInv, CallStep
    PROVE  /\ WriteInv' /\ CallSame /\ pc # "idle"
           /\ \/ Keypairs' \in {Keypairs, Keypairs \union {Own}, Keypairs \ {Own}}
              \/ pc = "restoreCount" /\ pc' = "idle" /\ Faults' >= 2
  <1> DEFINE Kept == Keypairs' \in {Keypairs, Keypairs \union {Own}, Keypairs \ {Own}}
  <1>1. call' = call => CallSame
    BY DEF CallSame
  <1>2. CASE PutKeypair \/ PutBack
    <2>1. call' = call
      BY <1>2, ControlFacts DEF PutKeypair, PutBack
    <2> QED
      BY <1>1, <1>2, <2>1, PutSets DEF StoredSame, PutKeypair, PutBack
  <1>3. CASE CountKeypair \/ CountBack
    <2>1. CASE FailAndReturn
      BY <1>1, <1>3, <2>1, CountFails, ControlFacts DEF StoredSame, CountKeypair, CountBack
    <2>2. CASE ~FailAndReturn
      BY <1>1, <1>3, <2>2, CountSets DEF CountKeypair, CountBack
    <2> QED
      BY <2>1, <2>2
  <1>4. CASE PutPrikey
    BY <1>1, <1>4, PutPrikeySets DEF StoredSame, PutPrikey
  <1>5. CASE CountPrikey
    BY <1>1, <1>5, CountPrikeySets DEF CountPrikey
  <1>6. CASE DropKeypair
    BY <1>6, DropSets DEF StoredSame, DropKeypair
  <1>7. CASE CloseGap
    BY <1>1, <1>7, CloseGapSets DEF CloseGap
  <1>8. CASE RestoreCount
    <2>1. pc = "restoreCount" /\ pc' = "idle"
      BY <1>8, ControlFacts DEF RestoreCount
    <2> QED
      BY <1>1, <1>8, <2>1, RestoreSets DEF StoredSame
  <1>9. CASE DropPrikey
    BY <1>9, DropPrikeySets DEF StoredSame, DropPrikey
  <1>10. CASE ClosePrikeyGap
    BY <1>1, <1>10, ClosePrikeyGapSets DEF ClosePrikeyGap
  <1>11. CASE RestorePrikeyCount
    BY <1>1, <1>11, RestorePrikeySets DEF RestorePrikeyCount
  <1> QED
    BY <1>2, <1>3, <1>4, <1>5, <1>6, <1>7, <1>8, <1>9, <1>10, <1>11
       DEF CallStep, DeleteStep

OthersInv == pc # "idle" => Others(Keypairs) = Others(call.before)

LEMMA OthersStep ==
    ASSUME StoreInv, WriteInv, OthersInv, CallStep
    PROVE  \/ Others(Keypairs') = Others(call.before)
           \/ pc' = "idle" /\ Faults' >= 2
  <1>1. Own.index = call.index
    BY OwnFacts
  <1>2. Others(Keypairs) = Others(call.before)
    BY CallStepSets DEF OthersInv
  <1>3. ASSUME NEW K, K \in {Keypairs, Keypairs \union {Own}, Keypairs \ {Own}}
        PROVE  Others(K) = Others(Keypairs)
    BY <1>1, <1>3 DEF Others
  <1> QED
    BY <1>2, <1>3, CallStepSets

LEMMA OthersStepInv ==
    StoreInv /\ WriteInv /\ OthersInv /\ [StoreNext]_storeVars
      => WriteInv' /\ OthersInv'
  <1> SUFFICES ASSUME StoreInv, WriteInv, OthersInv, [StoreNext]_storeVars
               PROVE  WriteInv' /\ OthersInv'
    OBVIOUS
  <1>1. CASE UNCHANGED <<kp, pk, pc, call, failures, crashes>>
    BY <1>1 DEF WriteInv, OthersInv, Others, Keypairs, Own, Faults
  <1>2. CASE CreateRam \/ DeleteRam
    BY <1>1, <1>2 DEF CreateRam, DeleteRam, areas
  <1>3. CASE Create
    <2>1. WriteInv' /\ call'.before = Keypairs /\ Keypairs' = Keypairs
      BY <1>3, CreateSets DEF StoredSame
    <2> QED
      BY <2>1 DEF OthersInv, Others
  <1>4. ASSUME NEW index \in Indexes, Delete(index) PROVE WriteInv' /\ OthersInv'
    <2>1. WriteInv' /\ call'.before = Keypairs /\ Keypairs' = Keypairs
      BY <1>4, DeleteSets DEF StoredSame
    <2> QED
      BY <2>1 DEF OthersInv, Others
  <1>5. CASE PowerLoss
    BY <1>5, PowerSets DEF OthersInv
  <1>6. CASE CallStep
    <2>1. WriteInv' /\ CallSame
      BY <1>6, CallStepSets
    <2>2. pc' = "idle" \/ Others(Keypairs') = Others(call.before)
      BY <1>6, OthersStep
    <2> QED
      BY <2>1, <2>2 DEF OthersInv, Others, CallSame
  <1>7. CASE UNCHANGED storeVars
    BY <1>1, <1>7 DEF storeVars
  <1> QED
    BY <1>2, <1>3, <1>4, <1>5, <1>6, <1>7, NextCases

LEMMA OthersInvariant == StoreSpec => [](WriteInv /\ OthersInv)
  <1>1. StoreInit => WriteInv /\ OthersInv
    BY DEF StoreInit, WriteInv, OthersInv
  <1> QED
    BY <1>1, OthersStepInv, StoreInvariant, PTL DEF StoreSpec

(***************************************************************************)
(* Creating or deleting one keypair, successfully or not and with one      *)
(* failed write anywhere, changes nothing about the others: the records    *)
(* moved down over a gap are all still listed, and the count restored      *)
(* after a failure brings back the last of them.                           *)
(***************************************************************************)
THEOREM StoreOthersKept == StoreSpec => OthersKept
  <1>1. StoreInv /\ WriteInv /\ OthersInv /\ [StoreNext]_storeVars
          => [pc # "idle" /\ pc' = "idle" /\ crashes' = crashes /\ OneFault'
                => Others(Entries(kp')) = Others(call.before)]_storeVars
    <2> SUFFICES ASSUME StoreInv, WriteInv, OthersInv, StoreNext,
                        pc # "idle", pc' = "idle", crashes' = crashes, OneFault'
                 PROVE  Others(Entries(kp')) = Others(call.before)
      OBVIOUS
    <2>1. Keypairs' = Entries(kp')
      BY DEF Keypairs
    <2>2. ~PowerLoss
      BY DEF PowerLoss, StoreInv, RestInv
    <2>3. CallStep
      BY <2>2, NextCases DEF Create, Delete, CreateRam, DeleteRam
    <2>4. ~(Faults' >= 2)
      <3>1. Faults' \in Nat /\ Faults' <= 1
        BY StoreStepInv, ControlFacts, NextCases DEF OneFault, Faults, StoreInv, RestInv
      <3> QED
        BY <3>1
    <2> QED
      BY <2>1, <2>3, <2>4, OthersStep
  <1> QED
    BY <1>1, StoreInvariant, OthersInvariant, PTL DEF StoreSpec, OthersKept

-----------------------------------------------------------------------------
\* Keypairs and private keys belong together

(***************************************************************************)
(* K and P are what the two areas store after n faults, and v creates in a *)
(* row have failed for nothing: equal indexes mean the same key, at most   *)
(* one private key has no keypair, and a create that fails has removed it. *)
(***************************************************************************)
Agree(K, P) == \A r \in K, s \in P : r.index = s.index => r = s
OneLeft(K, P) == \A x, y \in P \ K : x = y

Bound(K, P, n, v) ==
    /\ Agree(K, P) /\ OneLeft(K, P)
    /\ v \in {0, 1}
    /\ v = 1 => P \subseteq K
    /\ n = 0 => K = P /\ v = 0

LEMMA BoundLater ==
    ASSUME NEW K, NEW P, NEW v, NEW n \in Nat, NEW f \in Nat, n <= f, Bound(K, P, n, v)
    PROVE  Bound(K, P, f, v)
  <1>1. f = 0 => n = 0
    OBVIOUS
  <1> QED
    BY <1>1 DEF Bound

(***************************************************************************)
(* Where the first fault strikes the areas agree; it can cost a keypair or *)
(* leave a new one, and leave one private key.                             *)
(***************************************************************************)
LEMMA FirstFault ==
    ASSUME NEW S, Agree(S, S), NEW r, ~Named(S, r.index),
           NEW K, K \subseteq S \union {r}, NEW P, P \subseteq S, OneLeft(K, P),
           NEW f, f # 0
    PROVE  Bound(K, P, f, 0)
  BY DEF Bound, Agree, Named

LEMMA AddBoth ==
    ASSUME NEW K, NEW P, NEW v, NEW n \in Nat, NEW f \in Nat, n <= f, Bound(K, P, n, v),
           NEW r, ~Named(K, r.index), ~Named(P, r.index)
    PROVE  Bound(K \union {r}, P \union {r}, f, 0)
  <1>1. Bound(K, P, f, v)
    BY BoundLater
  <1>2. Agree(K \union {r}, P \union {r})
    BY <1>1 DEF Bound, Agree, Named
  <1>3. OneLeft(K \union {r}, P \union {r})
    BY <1>1 DEF Bound, OneLeft
  <1> QED
    BY <1>1, <1>2, <1>3 DEF Bound

LEMMA TakeBoth ==
    ASSUME NEW K, NEW P, NEW v, NEW n \in Nat, NEW f \in Nat, n <= f, Bound(K, P, n, v),
           NEW r
    PROVE  Bound(K \ {r}, P \ {r}, f, v)
  <1>1. Bound(K, P, f, v)
    BY BoundLater
  <1>2. Agree(K \ {r}, P \ {r})
    BY <1>1 DEF Bound, Agree
  <1>3. OneLeft(K \ {r}, P \ {r})
    BY <1>1 DEF Bound, OneLeft
  <1> QED
    BY <1>1, <1>2, <1>3 DEF Bound

\* A create that fails on a private key left behind has taken it away.
LEMMA Healed ==
    ASSUME NEW K, NEW P, NEW v, NEW n, Bound(K, P, n, v), NEW x \in P, ~Named(K, x.index)
    PROVE  v = 0 /\ Bound(K, P \ {x}, n, 1)
  <1>1. x \in P \ K
    BY DEF Named
  <1>2. v = 0 /\ n # 0 /\ P \ {x} \subseteq K
    BY <1>1 DEF Bound, OneLeft
  <1>3. Agree(K, P \ {x}) /\ OneLeft(K, P \ {x})
    BY <1>2 DEF Bound, Agree, OneLeft
  <1> QED
    BY <1>2, <1>3 DEF Bound

(***************************************************************************)
(* What the running call has done so far to what was stored when it began. *)
(***************************************************************************)
Dropping == {"dropKeypair", "closeGap", "restoreCount"}
Dropped == {"dropPrikey", "closePrikeyGap", "restorePrikeyCount", "putBack", "countBack"}

CreateSoFar ==
    /\ ~Named(call.before, call.index)
    /\ pc \in {"putKeypair", "countKeypair"} \union Dropped => Keypairs = call.before
    /\ pc \in {"putPrikey", "countPrikey"} \union Dropping =>
          Keypairs = call.before \union {Own}
    /\ pc = "countPrikey" => ~Named(Prikeys, call.index)
    /\ pc \in Dropping \union Dropped =>
          Faults # 0 /\ (Faults = call.faults => Named(Prikeys, call.index))
    /\ pc \in {"putBack", "countBack"} => Faults # call.faults

DeleteSoFar ==
    /\ pc \in Dropping => Keypairs = call.before
    /\ pc \in Dropped => Own \in call.before /\ Keypairs = call.before \ {Own}
    /\ pc \in {"putBack", "countBack"} => Faults # 0

BoundIdle == pc = "idle" => Bound(Keypairs, Prikeys, Faults, vain)
BoundCall ==
    pc # "idle" => /\ Bound(call.before, Prikeys, call.faults, vain)
                   /\ call.op = "create" => CreateSoFar
                   /\ call.op = "delete" => DeleteSoFar

BoundInv == Faults <= 1 => BoundIdle /\ BoundCall

LEMMA BoundStart ==
    ASSUME StoreInv, BoundInv, Create \/ \E index \in Indexes : Delete(index)
    PROVE  BoundInv'
  <1> SUFFICES ASSUME Faults' <= 1 PROVE (BoundIdle /\ BoundCall)'
    BY DEF BoundInv
  <1>1. CASE Create
    <2>1. /\ pc = "idle" /\ pc' = "putKeypair" /\ Faults' = Faults /\ vain' = vain
          /\ call'.op = "create" /\ call'.before = Keypairs /\ call'.faults = Faults
          /\ ~Named(Keypairs, call'.index) /\ Keypairs' = Keypairs /\ Prikeys' = Prikeys
      BY <1>1, CreateSets DEF StoredSame
    <2>2. Bound(Keypairs, Prikeys, Faults, vain)
      BY <2>1 DEF BoundInv, BoundIdle
    <2> QED
      BY <2>1, <2>2 DEF BoundIdle, BoundCall, CreateSoFar, Dropping, Dropped
  <1>2. ASSUME NEW index \in Indexes, Delete(index) PROVE (BoundIdle /\ BoundCall)'
    <2>1. /\ pc = "idle" /\ pc' = "dropKeypair" /\ Faults' = Faults /\ vain' = vain
          /\ call'.op = "delete" /\ call'.before = Keypairs /\ call'.faults = Faults
          /\ Keypairs' = Keypairs /\ Prikeys' = Prikeys
      BY <1>2, DeleteSets DEF StoredSame
    <2>2. Bound(Keypairs, Prikeys, Faults, vain)
      BY <2>1 DEF BoundInv, BoundIdle
    <2> QED
      BY <2>1, <2>2 DEF BoundIdle, BoundCall, DeleteSoFar, Dropping, Dropped
  <1> QED
    BY <1>1, <1>2

(***************************************************************************)
(* What is known where a step of the call is taken; before the first fault *)
(* the areas agreed when the call began, so that a step that fails ends or *)
(* goes on with at most the one record of the call between them.           *)
(***************************************************************************)
LEMMA CallKnown ==
    ASSUME StoreInv, WriteInv, BoundInv, CallStep, Faults' <= 1, Faults' \in {Faults, Faults + 1}
    PROVE  /\ Faults \in Nat /\ Faults <= 1 /\ call.faults \in Nat /\ call.faults <= Faults
           /\ pc # "idle" /\ CallSame /\ WriteInv'
           /\ Bound(call.before, Prikeys, call.faults, vain)
           /\ \/ call.op = "create" /\ CreateSoFar
              \/ call.op = "delete" /\ DeleteSoFar
           /\ Own.index = call.index
           /\ Faults' # Faults \/ call.faults # Faults =>
                 call.faults = 0 /\ call.before = Prikeys /\ vain = 0
           /\ Faults' # Faults => Faults = 0
  <1>1. Faults \in Nat /\ call.faults \in Nat /\ Own.index = call.index
    BY ControlFacts, OwnFacts
  <1>2. pc # "idle" /\ CallSame /\ WriteInv'
    BY CallStepSets
  <1>3. call.faults <= Faults /\ call.op \in {"create", "delete"}
    BY <1>2 DEF WriteInv
  <1>4. Faults <= 1
    BY <1>1
  <1>5. BoundCall
    BY <1>4 DEF BoundInv
  <1>6. Bound(call.before, Prikeys, call.faults, vain)
    BY <1>2, <1>5 DEF BoundCall
  <1>7. /\ Faults' # Faults \/ call.faults # Faults => call.faults = 0
        /\ Faults' # Faults => Faults = 0
    BY <1>1, <1>3, <1>4
  <1>8. call.faults = 0 => call.before = Prikeys /\ vain = 0
    BY <1>6 DEF Bound
  <1> QED
    BY <1>1, <1>2, <1>3, <1>4, <1>5, <1>6, <1>7, <1>8 DEF BoundCall

LEMMA FailedEnd ==
    ASSUME StoreInv, WriteInv, BoundInv, CallStep, Faults' <= 1, FailAndReturn, StoredSame,
           pc \in {"putKeypair", "countKeypair", "dropKeypair", "putBack", "countBack"}
    PROVE  (BoundIdle /\ BoundCall)'
  <1>1. pc' = "idle" /\ Faults' = Faults + 1 /\ Returned(FALSE) /\ call' = call
    BY ControlFacts
  <1>2. Faults \in Nat /\ Faults' # Faults /\ Faults' # 0
    BY <1>1, ControlFacts
  <1>3. /\ Faults = 0 /\ call.faults = 0 /\ call.before = Prikeys /\ vain = 0
        /\ Bound(call.before, Prikeys, call.faults, vain)
        /\ \/ call.op = "create" /\ CreateSoFar
           \/ call.op = "delete" /\ DeleteSoFar
    BY <1>1, <1>2, CallKnown
  <1>4. pc \in {"putKeypair", "countKeypair", "dropKeypair"} /\ Keypairs = call.before
    BY <1>3, CallKnown DEF CreateSoFar, DeleteSoFar, Dropping, Dropped, WriteInv
  <1>5. vain' = 0
    BY <1>1, <1>2, <1>3 DEF Returned
  <1>6. Bound(Prikeys, Prikeys, Faults', 0)
    BY <1>2, <1>3 DEF Bound
  <1> QED
    BY <1>1, <1>3, <1>4, <1>5, <1>6 DEF BoundIdle, BoundCall, StoredSame

LEMMA BoundPut ==
    ASSUME StoreInv, WriteInv, BoundInv, PutKeypair \/ PutBack, Faults' <= 1
    PROVE  (BoundIdle /\ BoundCall)'
  <1>1. CallStep /\ StoredSame /\ pc \in {"putKeypair", "putBack"}
    BY PutSets DEF CallStep, DeleteStep, PutKeypair, PutBack
  <1>2. CASE FailAndReturn
    BY <1>1, <1>2, FailedEnd
  <1>3. CASE ~FailAndReturn
    <2>1. /\ call' = call /\ Faults' = Faults /\ vain' = vain
          /\ pc' = IF pc = "putKeypair" THEN "countKeypair" ELSE "countBack"
      BY <1>3, ControlFacts DEF PutKeypair, PutBack
    <2>2. Faults' \in {Faults, Faults + 1} /\ Own' = Own
      BY <2>1 DEF Own
    <2>3. /\ Bound(call.before, Prikeys, call.faults, vain)
          /\ \/ call.op = "create" /\ CreateSoFar
             \/ call.op = "delete" /\ DeleteSoFar
      BY <1>1, <2>2, CallKnown
    <2>4. call.op = "create" => CreateSoFar'
      BY <1>1, <2>1, <2>2, <2>3 DEF CreateSoFar, Dropping, Dropped, StoredSame
    <2>5. call.op = "delete" => DeleteSoFar'
      BY <1>1, <2>1, <2>2, <2>3 DEF DeleteSoFar, Dropping, Dropped, StoredSame
    <2> QED
      BY <1>1, <2>1, <2>3, <2>4, <2>5 DEF BoundIdle, BoundCall, StoredSame
  <1> QED
    BY <1>2, <1>3

LEMMA BoundCount ==
    ASSUME StoreInv, WriteInv, BoundInv, CountKeypair \/ CountBack, Faults' <= 1
    PROVE  (BoundIdle /\ BoundCall)'
  <1>1. CallStep /\ pc \in {"countKeypair", "countBack"}
    BY DEF CallStep, DeleteStep, CountKeypair, CountBack
  <1>2. CASE FailAndReturn
    BY <1>1, <1>2, CountFails, FailedEnd
  <1>3. CASE ~FailAndReturn
    <2>1. /\ Keypairs' = Keypairs \union {Own} /\ Prikeys' = Prikeys
          /\ call' = call /\ Faults' = Faults /\ Own' = Own
      BY <1>3, CountSets DEF Own
    <2>2. Faults' \in {Faults, Faults + 1}
      BY <2>1
    <2>3. /\ Bound(call.before, Prikeys, call.faults, vain) /\ Own.index = call.index
          /\ Faults \in Nat /\ call.faults \in Nat /\ call.faults <= Faults
          /\ call.faults # Faults =>
                call.faults = 0 /\ call.before = Prikeys /\ vain = 0
          /\ \/ call.op = "create" /\ CreateSoFar
             \/ call.op = "delete" /\ DeleteSoFar
      BY <1>1, <2>2, CallKnown
    <2>4. CASE CountKeypair
      <3>1. /\ pc = "countKeypair" /\ pc' = "putPrikey" /\ vain' = vain
            /\ call.op = "create"
        BY <1>3, <2>4, ControlFacts DEF CountKeypair, WriteInv
      <3>2. CreateSoFar'
        BY <2>1, <2>3, <3>1 DEF CreateSoFar, Dropping, Dropped
      <3> QED
        BY <2>1, <2>3, <3>1, <3>2 DEF BoundIdle, BoundCall
    <2>5. CASE CountBack
      <3>1. pc = "countBack" /\ pc' = "idle" /\ Returned(FALSE)
        BY <1>3, <2>5, ControlFacts DEF CountBack
      <3>2. CASE call.op = "create"
        <4>1. /\ Faults # 0 /\ Faults # call.faults /\ Keypairs = call.before
              /\ ~Named(call.before, call.index)
          BY <2>3, <3>1, <3>2 DEF CreateSoFar, Dropped
        <4>2. call.before = Prikeys /\ vain' = 0
          BY <2>1, <2>3, <3>1, <4>1 DEF Returned
        <4>3. Agree(Prikeys, Prikeys) /\ OneLeft(Keypairs \union {Own}, Prikeys)
          BY <2>3, <4>1, <4>2 DEF Bound, OneLeft
        <4>4. Bound(Keypairs \union {Own}, Prikeys, Faults, 0)
          BY <2>3, <4>1, <4>2, <4>3, FirstFault
        <4> QED
          BY <2>1, <3>1, <4>2, <4>4 DEF BoundIdle, BoundCall
      <3>3. CASE call.op = "delete"
        <4>1. Keypairs \union {Own} = call.before
          BY <2>3, <3>1, <3>3 DEF DeleteSoFar, Dropped
        <4>2. Bound(call.before, Prikeys, Faults, vain)
          BY <2>3, BoundLater
        <4>3. vain' = vain
          BY <3>1, <3>3 DEF Returned
        <4> QED
          BY <2>1, <3>1, <4>1, <4>2, <4>3 DEF BoundIdle, BoundCall
      <3> QED
        BY <2>3, <3>2, <3>3
    <2> QED
      BY <2>4, <2>5
  <1> QED
    BY <1>2, <1>3

(***************************************************************************)
(* The private key is refused only if its index is taken or the store is   *)
(* full, and a full store names every index: the areas did not agree when  *)
(* the call began.                                                         *)
(***************************************************************************)
LEMMA BoundPutPrikey ==
    ASSUME StoreInv, WriteInv, BoundInv, PutPrikey, Faults' <= 1
    PROVE  (BoundIdle /\ BoundCall)'
  <1>1. /\ CallStep /\ StoredSame /\ call' = call /\ pc = "putPrikey" /\ Own' = Own
        /\ call.op = "create" /\ Prikeys = Entries(pk) /\ AreaInv(pk)
        /\ call.index \in 1..MaxNum
    BY PutPrikeySets
       DEF CallStep, PutPrikey, WriteInv, Own, Prikeys, StoreInv, CallInv, Indexes
  <1>2. PrikeyRefused <=> Named(Prikeys, call.index)
    <2>1. Count(pk) >= MaxNum => Named(Entries(pk), call.index)
      BY <1>1, FullNamesAll DEF AreaInv
    <2>2. Slots(pk, call.index) # {} <=> Named(Entries(pk), call.index)
      BY <1>1, EntriesFacts DEF AreaInv
    <2> QED
      BY <1>1, <2>1, <2>2 DEF PrikeyRefused
  <1>3. /\ Faults' \in {Faults, Faults + 1} /\ vain' = vain
        /\ \/ ~PrikeyRefused /\ pc' = "countPrikey" /\ Faults' = Faults
           \/ PrikeyRefused /\ pc' = "dropKeypair" /\ Faults' = Faults
           \/ pc' = "dropKeypair" /\ Faults' = Faults + 1
    BY ControlFacts DEF PutPrikey
  <1>4. /\ Faults \in Nat /\ call.faults \in Nat /\ call.faults <= Faults /\ CreateSoFar
        /\ Bound(call.before, Prikeys, call.faults, vain)
    BY <1>1, <1>3, CallKnown
  <1>5. ~Named(call.before, call.index) /\ Keypairs = call.before \union {Own}
    BY <1>1, <1>4 DEF CreateSoFar
  <1>6. CreateSoFar'
    <2>1. CASE ~PrikeyRefused /\ pc' = "countPrikey"
      BY <1>1, <1>2, <1>5, <2>1 DEF CreateSoFar, Dropping, Dropped, StoredSame
    <2>2. CASE PrikeyRefused /\ pc' = "dropKeypair" /\ Faults' = Faults
      <3>1. call.before # Prikeys /\ Named(Prikeys, call.index)
        BY <1>2, <1>5, <2>2
      <3>2. Faults # 0
        BY <1>4, <3>1 DEF Bound
      <3> QED
        BY <1>1, <1>5, <2>2, <3>1, <3>2 DEF CreateSoFar, Dropping, Dropped, StoredSame
    <2>3. CASE pc' = "dropKeypair" /\ Faults' = Faults + 1
      <3>1. Faults' # 0 /\ Faults' # call.faults
        BY <1>4, <2>3
      <3> QED
        BY <1>1, <1>5, <2>3, <3>1 DEF CreateSoFar, Dropping, Dropped, StoredSame
    <2> QED
      BY <1>3, <2>1, <2>2, <2>3
  <1> QED
    BY <1>1, <1>3, <1>4, <1>6 DEF BoundIdle, BoundCall, StoredSame

LEMMA BoundCountPrikey ==
    ASSUME StoreInv, WriteInv, BoundInv, CountPrikey, Faults' <= 1
    PROVE  (BoundIdle /\ BoundCall)'
  <1>1. /\ CallStep /\ call' = call /\ Keypairs' = Keypairs /\ pc = "countPrikey"
        /\ Own' = Own /\ call.op = "create"
    BY CountPrikeySets DEF CallStep, CountPrikey, WriteInv, Own
  <1>2. CASE FailAndGoto("dropKeypair")
    <2>1. /\ Prikeys' = Prikeys /\ pc' = "dropKeypair" /\ Faults' = Faults + 1
          /\ vain' = vain
      BY <1>2, CountPrikeySets, ControlFacts
    <2>2. /\ Faults \in Nat /\ call.faults \in Nat /\ call.faults <= Faults /\ CreateSoFar
          /\ Bound(call.before, Prikeys, call.faults, vain)
      BY <1>1, <2>1, CallKnown
    <2>3. Faults' # 0 /\ Faults' # call.faults
      BY <2>1, <2>2
    <2>4. CreateSoFar'
      BY <1>1, <2>1, <2>2, <2>3 DEF CreateSoFar, Dropping, Dropped
    <2> QED
      BY <1>1, <2>1, <2>2, <2>4 DEF BoundIdle, BoundCall
  <1>3. CASE ~FailAndGoto("dropKeypair")
    <2>1. Prikeys' = Prikeys \union {Own} /\ ReturnNow(TRUE)
      BY <1>3, CountPrikeySets
    <2>2. pc' = "idle" /\ Faults' = Faults /\ vain' = 0
      BY <1>1, <2>1, ControlFacts DEF Returned
    <2>3. /\ Faults \in Nat /\ call.faults \in Nat /\ call.faults <= Faults /\ CreateSoFar
          /\ Bound(call.before, Prikeys, call.faults, vain) /\ Own.index = call.index
      BY <1>1, <2>2, CallKnown
    <2>4. /\ ~Named(call.before, Own.index) /\ ~Named(Prikeys, Own.index)
          /\ Keypairs = call.before \union {Own}
      BY <1>1, <2>3 DEF CreateSoFar
    <2>5. Bound(call.before \union {Own}, Prikeys \union {Own}, Faults, 0)
      BY <2>3, <2>4, AddBoth
    <2> QED
      BY <1>1, <2>1, <2>2, <2>4, <2>5 DEF BoundIdle, BoundCall
  <1> QED
    BY <1>2, <1>3

LEMMA BoundDrop ==
    ASSUME StoreInv, WriteInv, BoundInv, DropKeypair, Faults' <= 1
    PROVE  (BoundIdle /\ BoundCall)'
  <1>1. CallStep /\ StoredSame /\ pc = "dropKeypair"
    BY DropSets DEF CallStep, DeleteStep, DropKeypair
  <1>2. CASE FailAndReturn
    BY <1>1, <1>2, FailedEnd
  <1>3. CASE ~FailAndReturn
    <2>1. /\ pc' = "closeGap" /\ Faults' = Faults /\ vain' = vain /\ Own' \in Keypairs
          /\ CallSame
      BY <1>3, DropSets
    <2>2. /\ Bound(call.before, Prikeys, call.faults, vain) /\ Own.index = call.index
          /\ \/ call.op = "create" /\ CreateSoFar
             \/ call.op = "delete" /\ DeleteSoFar
      BY <1>1, <2>1, CallKnown
    <2>3. Own'.index = call.index
      BY <2>1, OwnFacts DEF Own, Rec, CallSame
    <2>4. ASSUME call.op = "create" PROVE CreateSoFar'
      <3>1. Keypairs = call.before \union {Own} /\ ~Named(call.before, call.index)
        BY <1>1, <2>2, <2>4 DEF CreateSoFar, Dropping
      <3>2. Own' = Own
        BY <2>1, <2>3, <3>1 DEF Named
      <3> QED
        BY <1>1, <2>1, <2>2, <2>4, <3>1, <3>2
           DEF CreateSoFar, Dropping, Dropped, StoredSame, CallSame
    <2>5. ASSUME call.op = "delete" PROVE DeleteSoFar'
      BY <1>1, <2>1, <2>2, <2>5 DEF DeleteSoFar, Dropping, Dropped, StoredSame, CallSame
    <2> QED
      BY <1>1, <2>1, <2>2, <2>4, <2>5 DEF BoundIdle, BoundCall, StoredSame, CallSame
  <1> QED
    BY <1>2, <1>3

LEMMA BoundCloseGap ==
    ASSUME StoreInv, WriteInv, BoundInv, CloseGap, Faults' <= 1
    PROVE  (BoundIdle /\ BoundCall)'
  <1>1. /\ CallStep /\ pc = "closeGap" /\ call' = call /\ Own' = Own
        /\ Prikeys' = Prikeys /\ Own \in Keypairs
    BY CloseGapSets DEF CallStep, DeleteStep, CloseGap, Own
  <1>2. \/ /\ pc' = "restoreCount" /\ Keypairs' = Keypairs /\ Faults' = Faults + 1
           /\ vain' = vain
        \/ /\ pc' = "dropPrikey" /\ Keypairs' = Keypairs \ {Own} /\ Faults' = Faults
           /\ vain' = vain
    BY CloseGapSets, ControlFacts
  <1>3. /\ Faults \in Nat /\ call.faults \in Nat /\ call.faults <= Faults
        /\ Bound(call.before, Prikeys, call.faults, vain) /\ Own.index = call.index
        /\ \/ call.op = "create" /\ CreateSoFar
           \/ call.op = "delete" /\ DeleteSoFar
    BY <1>1, <1>2, CallKnown
  <1>4. /\ Faults' = Faults \/ (Faults' # 0 /\ Faults' # call.faults)
        /\ pc' = "dropPrikey" => Faults' = Faults
    BY <1>2, <1>3
  <1>5. ASSUME call.op = "create" PROVE CreateSoFar'
    <2>1. /\ Keypairs = call.before \union {Own} /\ ~Named(call.before, call.index)
          /\ Faults # 0 /\ (Faults = call.faults => Named(Prikeys, call.index))
      BY <1>1, <1>3, <1>5 DEF CreateSoFar, Dropping
    <2>2. Keypairs \ {Own} = call.before
      BY <1>3, <2>1 DEF Named
    <2> QED
      BY <1>1, <1>2, <1>4, <2>1, <2>2 DEF CreateSoFar, Dropping, Dropped
  <1>6. ASSUME call.op = "delete" PROVE DeleteSoFar'
    <2>1. Keypairs = call.before
      BY <1>1, <1>3, <1>6 DEF DeleteSoFar, Dropping
    <2> QED
      BY <1>1, <1>2, <2>1 DEF DeleteSoFar, Dropping, Dropped
  <1> QED
    BY <1>1, <1>2, <1>3, <1>5, <1>6 DEF BoundIdle, BoundCall

LEMMA BoundRestore ==
    ASSUME StoreInv, WriteInv, BoundInv, RestoreCount, Faults' <= 1
    PROVE  (BoundIdle /\ BoundCall)'
  <1>1. CallStep /\ pc = "restoreCount"
    BY DEF CallStep, DeleteStep, RestoreCount
  <1>2. ~(Faults' >= 2)
    <2>1. Faults' = Faults \/ Faults' = Faults + 1
      BY ControlFacts DEF RestoreCount
    <2>2. Faults \in Nat
      BY ControlFacts
    <2> QED
      BY <2>1, <2>2
  <1>3. ReturnNow(FALSE) /\ StoredSame /\ call.faults < Faults /\ call' = call
    BY <1>2, RestoreSets
  <1>4. pc' = "idle" /\ Faults' = Faults /\ Returned(FALSE)
    BY <1>3, ControlFacts
  <1>5. /\ Faults \in Nat /\ call.faults \in Nat /\ Own.index = call.index
        /\ Bound(call.before, Prikeys, call.faults, vain)
        /\ call.faults # Faults => call.before = Prikeys /\ vain = 0
        /\ \/ call.op = "create" /\ CreateSoFar
           \/ call.op = "delete" /\ DeleteSoFar
    BY <1>1, <1>4, CallKnown
  <1>6. Faults # call.faults /\ Faults # 0
    BY <1>3, <1>5
  <1>7. call.before = Prikeys /\ vain' = 0
    BY <1>4, <1>5, <1>6 DEF Returned
  <1>8. Agree(Prikeys, Prikeys)
    BY <1>5, <1>7 DEF Bound
  <1>9. CASE call.op = "create"
    <2>1. Keypairs = Prikeys \union {Own} /\ ~Named(Prikeys, Own.index)
      BY <1>1, <1>5, <1>7, <1>9 DEF CreateSoFar, Dropping
    <2>2. OneLeft(Keypairs, Prikeys)
      BY <2>1 DEF OneLeft
    <2>3. Bound(Keypairs, Prikeys, Faults, 0)
      BY <1>6, <1>8, <2>1, <2>2, FirstFault
    <2> QED
      BY <1>3, <1>4, <1>7, <2>3 DEF BoundIdle, BoundCall, StoredSame
  <1>10. CASE call.op = "delete"
    <2>1. Keypairs = Prikeys
      BY <1>1, <1>5, <1>7, <1>10 DEF DeleteSoFar, Dropping
    <2>2. Bound(Prikeys, Prikeys, Faults, 0)
      BY <1>6, <1>8 DEF Bound, OneLeft
    <2> QED
      BY <1>3, <1>4, <1>7, <2>1, <2>2 DEF BoundIdle, BoundCall, StoredSame
  <1> QED
    BY <1>5, <1>9, <1>10

LEMMA BoundDropPrikey ==
    ASSUME StoreInv, WriteInv, BoundInv, DropPrikey, Faults' <= 1
    PROVE  (BoundIdle /\ BoundCall)'
  <1>1. /\ CallStep /\ pc = "dropPrikey" /\ StoredSame /\ CallSame /\ Own' = Own
    BY DropPrikeySets DEF CallStep, DeleteStep, DropPrikey
  <1>2. \/ DeleteReturns(TRUE) /\ Prikeys = {}
        \/ Goto("putBack") /\ ~Named(Prikeys, call.index)
        \/ Goto("closePrikeyGap")
        \/ FailAndGoto("putBack")
    BY DropPrikeySets
  <1>3. Faults' \in {Faults, Faults + 1}
    BY <1>2, ControlFacts DEF DeleteReturns
  <1>4. /\ Faults \in Nat /\ call.faults \in Nat /\ call.faults <= Faults
        /\ Bound(call.before, Prikeys, call.faults, vain) /\ Own.index = call.index
        /\ \/ call.op = "create" /\ CreateSoFar
           \/ call.op = "delete" /\ DeleteSoFar
        /\ call.faults # Faults => call.before = Prikeys /\ vain = 0
    BY <1>1, <1>3, CallKnown
  <1>5. CASE DeleteReturns(TRUE) /\ Prikeys = {}
    <2>1. pc' = "idle" /\ Faults' = Faults /\ Returned(call.op = "delete")
      BY <1>5, ControlFacts DEF DeleteReturns
    <2>2. Faults # 0
      <3>1. CASE call.op = "create"
        BY <1>1, <1>4, <3>1 DEF CreateSoFar, Dropped
      <3>2. CASE call.op = "delete"
        <4>1. call.before # Prikeys
          BY <1>1, <1>4, <1>5, <3>2 DEF DeleteSoFar, Dropped
        <4> QED
          BY <1>4, <4>1 DEF Bound
      <3> QED
        BY <1>4, <3>1, <3>2
    <2>3. vain' \in {0, 1}
      <3>1. CASE call.op = "create"
        <4>1. Faults # call.faults
          BY <1>1, <1>4, <1>5, <3>1 DEF CreateSoFar, Dropped, Named
        <4> QED
          BY <2>1, <3>1, <4>1 DEF Returned
      <3>2. CASE call.op = "delete"
        BY <1>4, <2>1, <3>2 DEF Returned, Bound
      <3> QED
        BY <1>4, <3>1, <3>2
    <2>4. Bound(Keypairs, {}, Faults, vain')
      BY <2>2, <2>3 DEF Bound, Agree, OneLeft
    <2> QED
      BY <1>1, <1>5, <2>1, <2>4 DEF BoundIdle, BoundCall, StoredSame
  <1>6. CASE ~(DeleteReturns(TRUE) /\ Prikeys = {})
    <2>1. /\ pc' \in {"putBack", "closePrikeyGap"} /\ vain' = vain
          /\ \/ Faults' = Faults
             \/ Faults' = Faults + 1
          /\ pc' = "putBack" /\ Faults' = Faults => ~Named(Prikeys, call.index)
      <3>1. CASE Goto("putBack") /\ ~Named(Prikeys, call.index)
        BY <3>1, ControlFacts
      <3>2. CASE Goto("closePrikeyGap")
        BY <3>2, ControlFacts
      <3>3. CASE FailAndGoto("putBack")
        <4>1. Faults + 1 # Faults
          BY <1>4
        <4> QED
          BY <3>3, <4>1, ControlFacts
      <3> QED
        BY <1>2, <1>6, <3>1, <3>2, <3>3
    <2>2. Faults' = Faults \/ (Faults' # 0 /\ Faults' # call.faults)
      BY <1>4, <2>1
    <2>3. ASSUME call.op = "create" PROVE CreateSoFar'
      <3>1. /\ Keypairs = call.before /\ ~Named(call.before, call.index) /\ Faults # 0
            /\ Faults = call.faults => Named(Prikeys, call.index)
        BY <1>1, <1>4, <2>3 DEF CreateSoFar, Dropped
      <3> QED
        BY <1>1, <2>1, <2>2, <3>1 DEF CreateSoFar, Dropping, Dropped, StoredSame, CallSame
    <2>4. ASSUME call.op = "delete" PROVE DeleteSoFar'
      <3>1. Own \in call.before /\ Keypairs = call.before \ {Own}
        BY <1>1, <1>4, <2>4 DEF DeleteSoFar, Dropped
      <3>2. pc' = "putBack" => Faults' # 0
        <4>1. ASSUME ~Named(Prikeys, call.index) PROVE Faults # 0
          <5>1. call.before # Prikeys
            BY <1>4, <3>1, <4>1 DEF Named
          <5> QED
            BY <1>4, <5>1 DEF Bound
        <4> QED
          BY <2>1, <2>2, <4>1
      <3> QED
        BY <1>1, <2>1, <3>1, <3>2 DEF DeleteSoFar, Dropping, Dropped, StoredSame, CallSame
    <2> QED
      BY <1>1, <1>4, <2>1, <2>3, <2>4 DEF BoundIdle, BoundCall, StoredSame, CallSame
  <1> QED
    BY <1>5, <1>6

(***************************************************************************)
(* A delete takes the private key of the keypair, a failed create the one  *)
(* that was left behind.                                                   *)
(***************************************************************************)
LEMMA BoundClosePrikeyGap ==
    ASSUME StoreInv, WriteInv, BoundInv, ClosePrikeyGap, Faults' <= 1
    PROVE  (BoundIdle /\ BoundCall)'
  <1>1. /\ CallStep /\ pc = "closePrikeyGap" /\ call' = call /\ Own' = Own
        /\ Keypairs' = Keypairs
    BY ClosePrikeyGapSets DEF CallStep, DeleteStep, ClosePrikeyGap, Own
  <1>2. CASE FailAndGoto("restorePrikeyCount")
    <2>1. /\ pc' = "restorePrikeyCount" /\ Prikeys' = Prikeys /\ Faults' = Faults + 1
          /\ vain' = vain
      BY <1>2, ClosePrikeyGapSets, ControlFacts
    <2>2. /\ Faults \in Nat /\ call.faults \in Nat /\ call.faults <= Faults
          /\ Bound(call.before, Prikeys, call.faults, vain)
          /\ \/ call.op = "create" /\ CreateSoFar
             \/ call.op = "delete" /\ DeleteSoFar
      BY <1>1, <2>1, CallKnown
    <2>3. Faults' # 0 /\ Faults' # call.faults
      BY <2>1, <2>2
    <2>4. call.op = "create" => CreateSoFar'
      BY <1>1, <2>1, <2>2, <2>3 DEF CreateSoFar, Dropping, Dropped
    <2>5. call.op = "delete" => DeleteSoFar'
      BY <1>1, <2>1, <2>2, <2>3 DEF DeleteSoFar, Dropping, Dropped
    <2> QED
      BY <1>1, <2>1, <2>2, <2>4, <2>5 DEF BoundIdle, BoundCall
  <1>3. CASE ~FailAndGoto("restorePrikeyCount")
    <2>1. PICK x \in Prikeys : x.index = call.index /\ Prikeys' = Prikeys \ {x}
      BY <1>3, ClosePrikeyGapSets
    <2>2. pc' = "idle" /\ Faults' = Faults /\ Returned(call.op = "delete")
      BY <1>3, ClosePrikeyGapSets, ControlFacts DEF DeleteReturns
    <2>3. /\ Faults \in Nat /\ call.faults \in Nat /\ call.faults <= Faults
          /\ Bound(call.before, Prikeys, call.faults, vain) /\ Own.index = call.index
          /\ \/ call.op = "create" /\ CreateSoFar
             \/ call.op = "delete" /\ DeleteSoFar
          /\ call.faults # Faults => call.before = Prikeys /\ vain = 0
      BY <1>1, <2>2, CallKnown
    <2>4. CASE call.op = "create"
      <3>1. Keypairs = call.before /\ ~Named(call.before, x.index)
        BY <1>1, <2>1, <2>3, <2>4 DEF CreateSoFar, Dropped
      <3>2. vain = 0 /\ Bound(Keypairs, Prikeys \ {x}, call.faults, 1)
        BY <2>3, <3>1, Healed
      <3>3. call.before # Prikeys
        BY <3>1 DEF Named
      <3>4. Faults = call.faults
        BY <2>3, <3>3
      <3>5. vain' = 1
        BY <2>2, <2>4, <3>2, <3>4 DEF Returned
      <3> QED
        BY <1>1, <2>1, <2>2, <3>2, <3>4, <3>5 DEF BoundIdle, BoundCall
    <2>5. CASE call.op = "delete"
      <3>1. Own \in call.before /\ Keypairs = call.before \ {Own}
        BY <1>1, <2>3, <2>5 DEF DeleteSoFar, Dropped
      <3>2. x = Own
        BY <2>1, <2>3, <3>1 DEF Bound, Agree
      <3>3. Bound(call.before \ {Own}, Prikeys \ {Own}, Faults, vain)
        BY <2>3, TakeBoth
      <3>4. vain' = vain
        BY <2>2, <2>5 DEF Returned
      <3> QED
        BY <1>1, <2>1, <2>2, <3>1, <3>2, <3>3, <3>4 DEF BoundIdle, BoundCall
    <2> QED
      BY <2>3, <2>4, <2>5
  <1> QED
    BY <1>2, <1>3

\* The one fault was a failed write of the private key area: its key stays.
LEMMA BoundRestorePrikey ==
    ASSUME StoreInv, WriteInv, BoundInv, RestorePrikeyCount, Faults' <= 1
    PROVE  (BoundIdle /\ BoundCall)'
  <1>1. /\ CallStep /\ pc = "restorePrikeyCount" /\ call' = call /\ Keypairs' = Keypairs
    BY RestorePrikeySets DEF CallStep, DeleteStep, RestorePrikeyCount
  <1>2. ~(Faults' >= 2)
    <2>1. Faults' = Faults \/ Faults' = Faults + 1
      BY ControlFacts DEF RestorePrikeyCount, DeleteReturns
    <2>2. Faults \in Nat
      BY ControlFacts
    <2> QED
      BY <2>1, <2>2
  <1>3. DeleteReturns(TRUE) /\ Prikeys' = Prikeys /\ call.faults < Faults
    BY <1>2, RestorePrikeySets
  <1>4. pc' = "idle" /\ Faults' = Faults /\ Returned(call.op = "delete")
    BY <1>3, ControlFacts DEF DeleteReturns
  <1>5. /\ Faults \in Nat /\ call.faults \in Nat
        /\ Bound(call.before, Prikeys, call.faults, vain)
        /\ call.faults # Faults => call.before = Prikeys /\ vain = 0
        /\ \/ call.op = "create" /\ CreateSoFar
           \/ call.op = "delete" /\ DeleteSoFar
    BY <1>1, <1>4, CallKnown
  <1>6. Faults # call.faults /\ Faults # 0
    BY <1>3, <1>5
  <1>7. call.before = Prikeys /\ vain' = 0
    BY <1>4, <1>5, <1>6 DEF Returned
  <1>8. Keypairs = Prikeys \/ Keypairs = Prikeys \ {Own}
    BY <1>1, <1>5, <1>7 DEF CreateSoFar, DeleteSoFar, Dropped
  <1>9. Bound(Keypairs, Prikeys, Faults, 0)
    <2>1. Agree(Prikeys, Prikeys)
      BY <1>5, <1>7 DEF Bound
    <2>2. Agree(Keypairs, Prikeys) /\ OneLeft(Keypairs, Prikeys)
      BY <1>8, <2>1 DEF Agree, OneLeft
    <2> QED
      BY <1>6, <2>2 DEF Bound
  <1> QED
    BY <1>1, <1>3, <1>4, <1>7, <1>9 DEF BoundIdle, BoundCall

(***************************************************************************)
(* A power loss that is the first fault: the areas agreed when the call    *)
(* began, and the call has not yet done more than one thing to each.       *)
(***************************************************************************)
LEMMA BoundPower ==
    ASSUME StoreInv, WriteInv, BoundInv, PowerLoss, Faults' <= 1
    PROVE  (BoundIdle /\ BoundCall)'
  <1>1. pc' = "idle" /\ Faults' = Faults + 1 /\ vain' = 0
    BY PowerSets
  <1>2. Faults \in Nat /\ call.faults \in Nat
    BY ControlFacts
  <1>3. Faults = 0 /\ Faults' # 0
    BY <1>1, <1>2
  <1>4. BoundIdle /\ BoundCall
    BY <1>3 DEF BoundInv
  <1> SUFFICES Bound(Keypairs', Prikeys', Faults', 0)
    BY <1>1 DEF BoundIdle, BoundCall
  <1>5. CASE pc = "idle"
    <2>1. Keypairs' = Keypairs /\ Prikeys' = Prikeys
      BY <1>5, PowerSets
    <2>2. Bound(Keypairs, Prikeys, 0, vain)
      BY <1>3, <1>4, <1>5 DEF BoundIdle
    <2> QED
      BY <1>3, <2>1, <2>2 DEF Bound
  <1>6. CASE pc # "idle"
    <2>1. call.faults = 0
      BY <1>2, <1>3, <1>6 DEF WriteInv
    <2>2. call.before = Prikeys /\ Agree(Prikeys, Prikeys)
      BY <1>4, <1>6, <2>1 DEF BoundCall, Bound
    <2>3. \/ call.op = "create" /\ CreateSoFar
          \/ call.op = "delete" /\ DeleteSoFar
      BY <1>4, <1>6 DEF BoundCall, WriteInv
    <2>4. pc \notin {"restoreCount", "restorePrikeyCount"}
      BY <1>3, <2>1 DEF WriteInv
    <2>5. CASE pc \in {"putPrikey", "countPrikey"}
      <3>1. Keypairs = Prikeys \union {Own} /\ ~Named(Prikeys, Own.index)
        BY <2>2, <2>3, <2>5, OwnFacts DEF WriteInv, CreateSoFar
      <3>2. Keypairs' = Keypairs /\ Prikeys' = Prikeys /\ OneLeft(Keypairs, Prikeys)
        BY <2>5, <3>1, PowerSets DEF OneLeft
      <3> QED
        BY <1>3, <2>2, <3>1, <3>2, FirstFault
    <2>6. CASE pc \in {"putKeypair", "countKeypair", "dropKeypair", "closeGap"}
      <3>1. Keypairs = Prikeys
        BY <1>3, <2>2, <2>3, <2>6 DEF WriteInv, CreateSoFar, DeleteSoFar, Dropping
      <3>2. Prikeys' = Prikeys /\ \E x : Prikeys = Keypairs' \union {x} \/ Keypairs' = Prikeys
        BY <2>6, <3>1, PowerSets
      <3>3. Agree(Keypairs', Prikeys') /\ OneLeft(Keypairs', Prikeys')
        BY <2>2, <3>2 DEF Agree, OneLeft
      <3> QED
        BY <1>3, <3>3 DEF Bound
    <2>7. CASE pc \in Dropped
      <3>1. Keypairs = Prikeys \ {Own}
        BY <1>3, <2>2, <2>3, <2>7 DEF CreateSoFar, DeleteSoFar, Dropped
      <3>2. Keypairs' = Keypairs /\ Prikeys' \subseteq Prikeys
        BY <2>4, <2>7, PowerSets DEF Dropped
      <3>3. Agree(Keypairs', Prikeys') /\ OneLeft(Keypairs', Prikeys')
        BY <2>2, <3>1, <3>2 DEF Agree, OneLeft
      <3> QED
        BY <1>3, <3>3 DEF Bound
    <2>8. pc \in {"putKeypair", "countKeypair", "putPrikey", "countPrikey"}
                   \union Dropping \union Dropped
      BY <1>6 DEF WriteInv, Dropping, Dropped
    <2> QED
      BY <2>4, <2>5, <2>6, <2>7, <2>8 DEF Dropping
  <1> QED
    BY <1>5, <1>6

LEMMA BoundStepInv ==
    StoreInv /\ WriteInv /\ BoundInv /\ [StoreNext]_storeVars => BoundInv'
  <1> SUFFICES ASSUME StoreInv, WriteInv, BoundInv, [StoreNext]_storeVars, Faults' <= 1
               PROVE  (BoundIdle /\ BoundCall)'
    BY DEF BoundInv
  <1>1. CASE UNCHANGED <<kp, pk, pc, call, failures, crashes, vain>>
    <2>1. Faults' = Faults
      BY <1>1 DEF Faults
    <2>2. BoundIdle /\ BoundCall
      BY <2>1 DEF BoundInv
    <2>3. /\ Keypairs' = Keypairs /\ Prikeys' = Prikeys /\ Own' = Own
          /\ pc' = pc /\ call' = call /\ vain' = vain
      BY <1>1 DEF Keypairs, Prikeys, Own
    <2> QED
      BY <2>1, <2>2, <2>3 DEF BoundIdle, BoundCall, CreateSoFar, DeleteSoFar
  <1>2. CASE CreateRam \/ DeleteRam
    BY <1>1, <1>2 DEF CreateRam, DeleteRam, areas
  <1>3. CASE UNCHANGED storeVars
    BY <1>1, <1>3 DEF storeVars
  <1>4. CASE Create \/ \E index \in Indexes : Delete(index)
    BY <1>4, BoundStart DEF BoundInv
  <1>5. CASE PowerLoss
    BY <1>5, BoundPower
  <1>6. CASE CallStep
    BY <1>6, BoundPut, BoundCount, BoundPutPrikey, BoundCountPrikey, BoundDrop,
       BoundCloseGap, BoundRestore, BoundDropPrikey, BoundClosePrikeyGap,
       BoundRestorePrikey DEF CallStep, DeleteStep
  <1> QED
    BY <1>2, <1>3, <1>4, <1>5, <1>6, NextCases

LEMMA BoundInvariant == StoreSpec => []BoundInv
  <1>1. StoreInit => BoundInv
    <2> SUFFICES ASSUME StoreInit PROVE BoundInv
      OBVIOUS
    <2>1. /\ pc = "idle" /\ vain = 0 /\ Keypairs = Entries(EmptyArea)
          /\ Prikeys = Entries(EmptyArea) /\ AreaInv(EmptyArea)
      BY StoreInitInv DEF StoreInit, Keypairs, Prikeys, StoreInv
    <2>2. Agree(Entries(EmptyArea), Entries(EmptyArea))
      BY <2>1, EntriesFacts DEF AreaInv, OwnIndex, Agree
    <2>3. Bound(Entries(EmptyArea), Entries(EmptyArea), Faults, 0)
      BY <2>2 DEF Bound, OneLeft
    <2> QED
      BY <2>1, <2>3 DEF BoundInv, BoundIdle, BoundCall
  <1> QED
    BY <1>1, BoundStepInv, StoreInvariant, OthersInvariant, PTL DEF StoreSpec

(***************************************************************************)
(* The one-time keypair and its private key are made together, and lost    *)
(* together with the power.                                                *)
(***************************************************************************)
RamBound == kpRam # None => pkRam = kpRam

LEMMA RamBoundInvariant == StoreSpec => []RamBound
  <1>1. StoreInit => RamBound
    BY DEF StoreInit, RamBound
  <1>2. RamBound /\ [StoreNext]_storeVars => RamBound'
    <2> SUFFICES ASSUME RamBound, [StoreNext]_storeVars PROVE RamBound'
      OBVIOUS
    <2>1. CASE UNCHANGED ram
      BY <2>1 DEF RamBound, ram
    <2>2. CASE CreateRam \/ DeleteRam \/ PowerLoss
      BY <2>2 DEF CreateRam, DeleteRam, PowerLoss, RamBound
    <2>3. CASE Create \/ \E index \in Indexes : Delete(index)
      BY <2>1, <2>3 DEF Create, Delete, Goto
    <2>4. CASE CallStep
      <3>1. CASE PutKeypair \/ CountKeypair \/ PutPrikey \/ CountPrikey
        BY <2>1, <3>1 DEF PutKeypair, CountKeypair, PutPrikey, CountPrikey,
           Goto, FailAndGoto, ReturnNow, FailAndReturn, Return
      <3>2. CASE DropKeypair \/ CloseGap \/ RestoreCount \/ PutBack \/ CountBack
        BY <2>1, <3>2 DEF DropKeypair, CloseGap, RestoreCount, PutBack, CountBack,
           Goto, FailAndGoto, ReturnNow, FailAndReturn, Return
      <3>3. CASE DropPrikey \/ ClosePrikeyGap \/ RestorePrikeyCount
        BY <2>1, <3>3 DEF DropPrikey, ClosePrikeyGap, RestorePrikeyCount, DeleteReturns,
           Goto, FailAndGoto, ReturnNow, Return
      <3> QED
        BY <2>4, <3>1, <3>2, <3>3 DEF CallStep, DeleteStep
    <2>5. CASE UNCHANGED storeVars
      BY <2>1, <2>5 DEF storeVars, ram
    <2> QED
      BY <2>2, <2>3, <2>4, <2>5, NextCases
  <1> QED
    BY <1>1, <1>2, PTL DEF StoreSpec

(***************************************************************************)
(* For every number of keypairs: between calls, with at most one failed    *)
(* write or power loss anywhere before, the private key stored under the   *)
(* index of a listed keypair is the keypair's own, and nothing is left     *)
(* over while nothing has failed.  The roll-backs of create and delete     *)
(* restore that from wherever the fault struck.                            *)
(***************************************************************************)
THEOREM StoreKeysBound == StoreSpec => []KeysBound
  <1>1. StoreInv /\ BoundInv /\ RamBound => KeysBound
    <2> SUFFICES ASSUME StoreInv, BoundInv, RamBound, pc = "idle"
                 PROVE  /\ Faults = 0 => Entries(kp) = Entries(pk)
                        /\ \A r \in Entries(kp), s \in Entries(pk) :
                              Faults <= 1 /\ r.index = s.index => r.key = s.key
                        /\ kpRam # None => pkRam = kpRam
      BY DEF KeysBound, OneFault, Faults
    <2>1. Keypairs = Entries(kp) /\ Prikeys = Entries(pk)
      BY DEF Keypairs, Prikeys
    <2>2. Faults <= 1 => Bound(Entries(kp), Entries(pk), Faults, vain)
      BY <2>1 DEF BoundInv, BoundIdle
    <2>3. Faults = 0 => Faults <= 1
      OBVIOUS
    <2> QED
      BY <2>2, <2>3 DEF Bound, Agree, RamBound
  <1> QED
    BY <1>1, StoreInvariant, BoundInvariant, RamBoundInvariant, PTL

(***************************************************************************)
(* For every number of keypairs and after any one fault: a create that     *)
(* fails without a fault of its own has removed the private key that stood *)
(* in its way, so that the next one cannot fail for the same reason.       *)
(***************************************************************************)
THEOREM StoreCreateHeals == StoreSpec => []CreateHeals
  <1>1. BoundInv => CreateHeals
    BY DEF BoundInv, BoundIdle, BoundCall, Bound, CreateHeals, OneFault, Faults
  <1> QED
    BY <1>1, BoundInvariant, PTL

=============================================================================
