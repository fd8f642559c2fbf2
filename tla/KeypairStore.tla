---------------------------- MODULE KeypairStore ----------------------------
(***************************************************************************)
(* Creating and deleting keypairs (boatkeypair.c) over the private key     *)
(* store of the software keystore (boat_keystore_soft.c).  A call is a     *)
(* sequence of writes to two flash areas; each write is a step, and before *)
(* each of them the write may fail or the power may go.  The library is    *)
(* not thread safe: there is one call at a time.                           *)
(***************************************************************************)
EXTENDS FlashArea, FiniteSets

CONSTANTS
    Keys,       \* keypairs, told apart by their public key
    MaxNum,     \* BOAT_MAX_KEYPAIR_NUM, 5 in the code
    MaxFaults   \* bound: failed writes and power losses in a behaviour

None == "none"
ASSUME StoreAssumption ==
    MaxNum \in Nat \ {0} /\ MaxFaults \in Nat /\ None \notin Keys

VARIABLES
    kp,         \* flash area of the keypairs
    pk,         \* flash area of the private keys
    kpRam,      \* the one-time keypair, index 0
    pkRam,      \* its private key
    pc,         \* the write the call does next
    call,       \* the running or last call, with what it read
    failures,   \* failed writes so far
    crashes,    \* power losses so far
    vain        \* history: creates without a fault that failed in a row

storeVars == <<kp, pk, kpRam, pkRam, pc, call, failures, crashes, vain>>

Indexes == 1..MaxNum
Rec(index, key) == [index |-> index, key |-> key]
Records == [index : Indexes, key : Keys]

\* A new key is unlike every key still stored somewhere.
FreshKeys ==
    Keys \ ({r.key : r \in ToSet(kp.recs) \union ToSet(pk.recs)}
              \union {kpRam, pkRam})

-----------------------------------------------------------------------------

StoreInit ==
    /\ kp = EmptyArea /\ pk = EmptyArea
    /\ kpRam = None /\ pkRam = None
    /\ pc = "idle"
    /\ call = [op |-> "none", index |-> 0, key |-> None, slot |-> 0,
               before |-> {}, faults |-> 0]
    /\ failures = 0 /\ crashes = 0
    /\ vain = 0

areas == <<kp, pk>>
ram == <<kpRam, pkRam>>

Goto(next) == pc' = next /\ UNCHANGED <<ram, failures, crashes, vain>>
WriteFails == failures + crashes < MaxFaults /\ failures' = failures + 1

Return(ok) ==
    /\ pc' = "idle"
    /\ vain' = IF call.op # "create" THEN vain
               ELSE IF ok \/ failures' + crashes # call.faults THEN 0
               ELSE vain + 1
    /\ UNCHANGED <<ram, call, crashes>>

ReturnNow(ok) == UNCHANGED failures /\ Return(ok)
FailAndReturn == WriteFails /\ Return(FALSE) /\ UNCHANGED areas
FailAndGoto(next) ==
    /\ WriteFails /\ pc' = next
    /\ UNCHANGED <<areas, ram, call, crashes, vain>>

Called(op, index, key, slot) ==
    call' = [op |-> op, index |-> index, key |-> key, slot |-> slot,
             before |-> Entries(kp), faults |-> failures + crashes]

-----------------------------------------------------------------------------
\* BoatKeypairCreate

\* Mutant: the index after the number of keypairs.
FreeIndex_Next == Count(kp) + 1

(***************************************************************************)
(* BoATKeypair_GetFreeIndex_From_Persistent: the least index not listed.   *)
(* The one-time keypair is listed too but has index 0.                     *)
(***************************************************************************)
FreeIndex ==
    CHOOSE i \in Indexes :
        /\ Slots(kp, i) = {}
        /\ \A j \in 1..i - 1 : Slots(kp, j) # {}

(***************************************************************************)
(* A call at the limit returns BOAT_ERROR_KEYPAIR_KEY_INDEX_EXCEED and     *)
(* changes nothing, as does one whose key cannot be made.                  *)
(***************************************************************************)
Create ==
    /\ pc = "idle"
    /\ Count(kp) < MaxNum
    /\ \E key \in FreshKeys :
          Called("create", FreeIndex, key, 0) /\ Goto("putKeypair")
    /\ UNCHANGED areas

\* BoATKeypair_DataCtx_Store: the record, then the count.
PutKeypair ==
    /\ pc = "putKeypair"
    /\ \/ /\ kp' = PutRecord(kp, Rec(call.index, call.key))
          /\ Goto("countKeypair") /\ UNCHANGED <<pk, call>>
       \/ FailAndReturn

CountKeypair ==
    /\ pc = "countKeypair"
    /\ \/ /\ kp' = SetCount(kp, Count(kp) + 1)
          /\ Goto("putPrikey") /\ UNCHANGED <<pk, call>>
       \/ FailAndReturn

\* Mutant: the store takes an index it already has.
PrikeyRefused_WhenFull == Count(pk) >= MaxNum

(***************************************************************************)
(* BoAT_Keystore_store_prikey_soft refuses a full store and an index it    *)
(* already has.                                                            *)
(***************************************************************************)
PrikeyRefused == Count(pk) >= MaxNum \/ Slots(pk, call.index) # {}

(***************************************************************************)
(* When the private key cannot be stored the keypair is deleted again, by  *)
(* BoATIotKeypairDelete.                                                   *)
(***************************************************************************)
PutPrikey ==
    /\ pc = "putPrikey"
    /\ \/ /\ ~PrikeyRefused
          /\ pk' = PutRecord(pk, Rec(call.index, call.key))
          /\ Goto("countPrikey") /\ UNCHANGED <<kp, call>>
       \/ /\ PrikeyRefused
          /\ Goto("dropKeypair") /\ UNCHANGED <<areas, call>>
       \/ ~PrikeyRefused /\ FailAndGoto("dropKeypair")

CountPrikey ==
    /\ pc = "countPrikey"
    /\ \/ /\ pk' = SetCount(pk, Count(pk) + 1)
          /\ ReturnNow(TRUE) /\ UNCHANGED kp
       \/ FailAndGoto("dropKeypair")

-----------------------------------------------------------------------------
\* BoATIotKeypairDelete

Delete(index) ==
    /\ pc = "idle"
    /\ Slots(kp, index) # {}
    /\ Called("delete", index, None, 0)
    /\ Goto("dropKeypair")
    /\ UNCHANGED areas

\* A delete that was called by a create ends in the create's error.
DeleteReturns(ok) == ReturnNow(ok /\ call.op = "delete")

(***************************************************************************)
(* The record is remembered (restorekeypair) and the count written first.  *)
(* The record is there: Delete checks it, and a create has just stored it. *)
(***************************************************************************)
DropKeypair ==
    /\ pc = "dropKeypair"
    /\ \E s \in Slots(kp, call.index) :
          \/ /\ kp' = LowerCount(kp)
             /\ call' = [call EXCEPT !.slot = s, !.key = kp.recs[s].key]
             /\ Goto("closeGap") /\ UNCHANGED pk
          \/ FailAndReturn

\* Mutants: the count is not restored; the private key is left behind.
CloseGap_NoRestore ==
    /\ pc = "closeGap"
    /\ \/ /\ kp' = RemoveSlot(kp, call.slot)
          /\ Goto("dropPrikey") /\ UNCHANGED <<pk, call>>
       \/ FailAndReturn

CloseGap_KeepsPrikey ==
    /\ pc = "closeGap"
    /\ \/ /\ kp' = RemoveSlot(kp, call.slot)
          /\ DeleteReturns(TRUE) /\ UNCHANGED pk
       \/ FailAndGoto("restoreCount")

(***************************************************************************)
(* The later records are moved down; the last record is only wiped.  A     *)
(* failure restores the count.                                             *)
(***************************************************************************)
CloseGap ==
    /\ pc = "closeGap"
    /\ \/ /\ kp' = RemoveSlot(kp, call.slot)
          /\ Goto("dropPrikey") /\ UNCHANGED <<pk, call>>
       \/ FailAndGoto("restoreCount")

RestoreCount ==
    /\ pc = "restoreCount"
    /\ \/ /\ kp' = SetCount(kp, Count(kp) + 1)
          /\ ReturnNow(FALSE) /\ UNCHANGED pk
       \/ FailAndReturn

(***************************************************************************)
(* BoAT_DeletePrikeyByIndex_soft: an empty store is a success, a store     *)
(* without valid count bytes or without the index an error, which puts the *)
(* keypair back.                                                           *)
(***************************************************************************)
DropPrikey ==
    /\ pc = "dropPrikey"
    /\ \/ /\ pk.num = 0
          /\ DeleteReturns(TRUE) /\ UNCHANGED areas
       \/ /\ pk.num # 0 /\ Slots(pk, call.index) = {}
          /\ Goto("putBack") /\ UNCHANGED <<areas, call>>
       \/ \E s \in Slots(pk, call.index) :
             \/ /\ pk' = LowerCount(pk)
                /\ call' = [call EXCEPT !.slot = s]
                /\ Goto("closePrikeyGap") /\ UNCHANGED kp
             \/ FailAndGoto("putBack")

ClosePrikeyGap ==
    /\ pc = "closePrikeyGap"
    /\ \/ /\ pk' = RemoveSlot(pk, call.slot)
          /\ DeleteReturns(TRUE) /\ UNCHANGED kp
       \/ FailAndGoto("restorePrikeyCount")

(***************************************************************************)
(* After the count is restored the function falls through to               *)
(* "return BOAT_SUCCESS": the keypair is deleted, its private key is not.  *)
(***************************************************************************)
RestorePrikeyCount ==
    /\ pc = "restorePrikeyCount"
    /\ \/ /\ pk' = SetCount(pk, Count(pk) + 1)
          /\ DeleteReturns(TRUE) /\ UNCHANGED kp
       \/ FailAndGoto("putBack")

\* The keypair is stored again, behind the others; the result is an error.
PutBack ==
    /\ pc = "putBack"
    /\ \/ /\ kp' = PutRecord(kp, Rec(call.index, call.key))
          /\ Goto("countBack") /\ UNCHANGED <<pk, call>>
       \/ FailAndReturn

CountBack ==
    /\ pc = "countBack"
    /\ \/ /\ kp' = SetCount(kp, Count(kp) + 1)
          /\ ReturnNow(FALSE) /\ UNCHANGED pk
       \/ FailAndReturn

-----------------------------------------------------------------------------
\* The one-time keypair in RAM: index 0, one record, no failing writes.

CreateRam ==
    /\ pc = "idle"
    /\ \E key \in FreshKeys : kpRam' = key /\ pkRam' = key
    /\ UNCHANGED <<areas, pc, call, failures, crashes, vain>>

\* Only the count of the keypair area is cleared; the private key stays.
DeleteRam ==
    /\ pc = "idle"
    /\ kpRam # None
    /\ kpRam' = None
    /\ UNCHANGED <<areas, pkRam, pc, call, failures, crashes, vain>>

\* The power goes and comes back: flash stays, RAM and the call are lost.
PowerLoss ==
    /\ failures + crashes < MaxFaults
    /\ crashes' = crashes + 1
    /\ kp' = [kp EXCEPT !.recs = Listed(kp)]
    /\ pk' = [pk EXCEPT !.recs = Listed(pk)]
    /\ kpRam' = None /\ pkRam' = None
    /\ pc' = "idle"
    /\ vain' = 0
    /\ UNCHANGED <<call, failures>>

DeleteStep ==
    \/ DropKeypair \/ CloseGap \/ RestoreCount
    \/ DropPrikey \/ ClosePrikeyGap \/ RestorePrikeyCount
    \/ PutBack \/ CountBack

StoreNext ==
    \/ Create \/ PutKeypair \/ CountKeypair \/ PutPrikey \/ CountPrikey
    \/ \E index \in Indexes : Delete(index)
    \/ DeleteStep
    \/ CreateRam \/ DeleteRam
    \/ PowerLoss

StoreSpec == StoreInit /\ [][StoreNext]_storeVars

-----------------------------------------------------------------------------

StoreTypeOK ==
    /\ AreaOK(kp, Records, MaxNum) /\ AreaOK(pk, Records, MaxNum)
    /\ {kpRam, pkRam} \subseteq Keys \union {None}
    /\ call.index \in 0..MaxNum /\ call.slot \in 0..MaxNum
    /\ call.key \in Keys \union {None}
    /\ failures + crashes \in 0..MaxFaults
    /\ vain \in Nat

(***************************************************************************)
(* Neither area ever lists an index twice or one that is out of range, at  *)
(* any point of any call, with power lost or a write failing anywhere: an  *)
(* index names one keypair, and there are never more than MaxNum.          *)
(***************************************************************************)
IndexesUnique ==
    \A a \in {kp, pk} : \A s, t \in 1..Count(a) :
        /\ a.recs[s].index \in Indexes
        /\ a.recs[s].index = a.recs[t].index => s = t

\* The store is made to survive one failed write or one power loss.
OneFault == failures + crashes <= 1

(***************************************************************************)
(* "Prikey should bind with keypair" (boat_keystore_soft.c:348): between   *)
(* calls, after at most one fault anywhere, a listed keypair and the       *)
(* private key stored under its index belong together, so BoatSignature    *)
(* never signs with another key; and as long as nothing has failed, the    *)
(* two areas list the same keypairs.  The one-time keypair is bound        *)
(* whatever fails.                                                         *)
(***************************************************************************)
KeysBound ==
    pc = "idle" =>
        /\ failures + crashes = 0 => Entries(kp) = Entries(pk)
        /\ \A r \in Entries(kp), s \in Entries(pk) :
              OneFault /\ r.index = s.index => r.key = s.key
        /\ kpRam # None => pkRam = kpRam

(***************************************************************************)
(* A private key left behind by a fault makes the next create fail, but    *)
(* its clean-up removes the leftover: no two creates in a row fail without *)
(* a fault of their own.                                                   *)
(***************************************************************************)
CreateHeals == OneFault => vain <= 1

(***************************************************************************)
(* A call that returns, whatever the result and with one fault anywhere,   *)
(* leaves every keypair listed that it was not called for, and adds none   *)
(* but its own.                                                            *)
(***************************************************************************)
Others(entries) == {r \in entries : r.index # call.index}
OthersKept ==
    [][pc # "idle" /\ pc' = "idle" /\ crashes' = crashes /\ OneFault'
         => Others(Entries(kp')) = Others(call.before)]_storeVars

(***************************************************************************)
(* BoATIotKeypairDelete "deletes the keypair which keypairIndex equals     *)
(* index" (boatkeypair.c:1070) and no other, even if the power goes.       *)
(***************************************************************************)
OnlyNamedKeypairLost ==
    [][pc # "idle" /\ pc' = "idle"
         => Others(call.before) \subseteq Entries(kp')]_storeVars

=============================================================================
