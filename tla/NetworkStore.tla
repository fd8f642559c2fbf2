---------------------------- MODULE NetworkStore ----------------------------
(***************************************************************************)
(* The stores of blockchain networks: network_ethereum.c,                  *)
(* network_platon.c and network_quorum.c, which are the same program and   *)
(* share one flash area and one RAM area.  Each operation takes the        *)
(* protocol whose file it stands for.  A call is a sequence of writes; one *)
(* may fail, and the power may go, before any of them.  There is one call  *)
(* at a time.                                                              *)
(***************************************************************************)
EXTENDS FlashArea, FiniteSets

CONSTANTS
    Networks,       \* chain id and node url, told apart only
    MaxNum,         \* BOAT_MAX_NETWORK_NUM, 5 in the code
    MaxFaults,      \* bound: failed writes and power losses in a behaviour
    MaxBlind        \* bound: failed reads and allocations in a behaviour

NoNetwork == "no network"
ASSUME NetworkAssumption ==
    /\ MaxNum \in Nat \ {0} /\ MaxFaults \in Nat /\ MaxBlind \in Nat
    /\ NoNetwork \notin Networks

Protocols == {"ethereum", "platon", "quorum"}

VARIABLES
    area,       \* flash area BOAT_STORE_NETWORK
    oneTime,    \* the one-time network in RAM, index 0
    pc,         \* what the call does next
    call,       \* the running or last call, with what it read
    faults,     \* failed writes and power losses so far
    blind       \* failed reads and allocations so far

networkVars == <<area, oneTime, pc, call, faults, blind>>

Indexes == 1..MaxNum
Rec(p, index, net) == [index |-> index, protocol |-> p, net |-> net]
Records == [index : Indexes, protocol : Protocols, net : Networks]
NoOneTime == [protocol |-> "none", net |-> NoNetwork]

NetworkInit ==
    /\ area = EmptyArea
    /\ oneTime = NoOneTime
    /\ pc = "idle"
    /\ call = [op |-> "none", protocol |-> "none", index |-> 0,
               net |-> NoNetwork, slot |-> 0, before |-> <<>>, mishaps |-> 0]
    /\ faults = 0 /\ blind = 0

-----------------------------------------------------------------------------
\* Steps of a call.

Goto(next) == pc' = next /\ UNCHANGED <<oneTime, faults, blind>>

\* What is left of a call that has returned.
Over(c) == [c EXCEPT !.net = NoNetwork, !.slot = 0, !.before = <<>>]
Return ==
    /\ pc' = "idle"
    /\ call' = Over(call)
    /\ UNCHANGED <<oneTime, faults, blind>>

WriteFails(next) ==
    /\ faults < MaxFaults
    /\ faults' = faults + 1
    /\ LET hit == [call EXCEPT !.mishaps = @ + 1]
       IN call' = IF next = "idle" THEN Over(hit) ELSE hit
    /\ pc' = next
    /\ UNCHANGED <<area, oneTime, blind>>

ReadFails(next) ==
    /\ blind < MaxBlind
    /\ blind' = blind + 1
    /\ pc' = next
    /\ UNCHANGED <<oneTime, faults>>

Called(op, p, index, net, slot) ==
    call' = [op |-> op, protocol |-> p, index |-> index, net |-> net,
             slot |-> slot, before |-> Listed(area), mishaps |-> 0]

-----------------------------------------------------------------------------
\* BoATEthNetworkCreate

\* Mutant: a protocol looks at its own networks only.
FreeIndex_Own(p) ==
    CHOOSE i \in Indexes : \A j \in 1..i - 1 : Slots(area, j) # {} /\
        ~\E s \in Slots(area, i) : area.recs[s].protocol = p

(***************************************************************************)
(* BoATEth_GetFreeNetworkIndex_From_Persistent: the least index that no    *)
(* network of any protocol has.                                            *)
(***************************************************************************)
FreeIndex(p) ==
    CHOOSE i \in Indexes :
        /\ Slots(area, i) = {}
        /\ \A j \in 1..i - 1 : Slots(area, j) # {}

(***************************************************************************)
(* At the limit the call returns BOAT_ERROR_NETWORK_INDEX_EXCEED and       *)
(* changes nothing.  A count that cannot be read is taken for 0, so the    *)
(* index is 1.                                                             *)
(***************************************************************************)
NetworkCreate(p) ==
    /\ pc = "idle"
    /\ \E net \in Networks :
          \/ /\ Count(area) < MaxNum
             /\ Called("create", p, FreeIndex(p), net, 0)
             /\ Goto("put")
          \/ /\ Called("create", p, 1, net, 0)
             /\ ReadFails("put")
    /\ UNCHANGED area

(***************************************************************************)
(* BoATEth_NetworkDataCtx_Store reads the count once more to find the end  *)
(* of the area, again taking 0 for a count it cannot read, and writes the  *)
(* protocol, the index and the data there in three writes, none of which   *)
(* is seen before the count.                                               *)
(***************************************************************************)
PutNetwork(p) ==
    /\ pc = "put" /\ call.protocol = p
    /\ LET rec == Rec(p, call.index, call.net) IN
       \/ /\ Count(area) < MaxNum
          /\ area' = PutRecord(area, rec)
          /\ call' = [call EXCEPT !.slot = Count(area) + 1]
          /\ Goto("count")
       \/ /\ Count(area) >= MaxNum
          /\ UNCHANGED area /\ Return
       \/ /\ area' = [area EXCEPT !.recs = <<rec>> \o SubSeq(@, 2, Len(@))]
          /\ call' = [call EXCEPT !.slot = 1]
          /\ ReadFails("count")
       \/ WriteFails("idle")

CountNetwork(p) ==
    /\ pc = "count" /\ call.protocol = p
    /\ \/ /\ area' = SetCount(area, call.slot)
          /\ Return
       \/ WriteFails("idle")

-----------------------------------------------------------------------------
\* BoATEthNetworkDelete

FoundAt(p, index) ==
    {s \in Slots(area, index) : area.recs[s].protocol = p}

\* The first record with the index and the protocol; without one the call
\* returns BOAT_ERROR_NETWORK_INEXISTENCE.
NetworkDelete(p, index) ==
    /\ pc = "idle"
    /\ \E s \in FoundAt(p, index) :
          /\ \A t \in FoundAt(p, index) : s <= t
          /\ Called("delete", p, index, area.recs[s].net, s)
    /\ Goto("lower")
    /\ UNCHANGED area

LowerNetworkCount(p) ==
    /\ pc = "lower" /\ call.protocol = p
    /\ \/ /\ area' = LowerCount(area)
          /\ Goto(IF call.slot = Count(area) THEN "wipe" ELSE "shift")
          /\ UNCHANGED call
       \/ WriteFails("idle")

(***************************************************************************)
(* The last record: its first three bytes are zeroed.  If that fails the   *)
(* old count is written back, but at the place of the record, and the      *)
(* result of that write is returned: either way the count stays lowered    *)
(* and the network is gone.                                                *)
(***************************************************************************)
WipeLast(p) ==
    /\ pc \in {"wipe", "countOverRecord"} /\ call.protocol = p
    /\ \/ /\ area' = [area EXCEPT !.recs = Listed(area)]
          /\ Return
       \/ WriteFails(IF pc = "wipe" THEN "countOverRecord" ELSE "idle")

\* Mutant: the failed shift leaves the count lowered.
ShiftNetworks_NoRestore(p) ==
    /\ pc = "shift" /\ call.protocol = p
    /\ \/ area' = RemoveSlot(area, call.slot) /\ Return
       \/ WriteFails("idle")

(***************************************************************************)
(* Any other record: those behind it are read into allocated memory and    *)
(* written back over it.  If they cannot be read the call returns with the *)
(* count lowered; if they cannot be written the count is put back.         *)
(***************************************************************************)
ShiftNetworks(p) ==
    /\ pc = "shift" /\ call.protocol = p
    /\ \/ area' = RemoveSlot(area, call.slot) /\ Return
       \/ ReadFails("idle") /\ call' = Over(call) /\ UNCHANGED area
       \/ WriteFails("raise")

RaiseCount(p) ==
    /\ pc = "raise" /\ call.protocol = p
    /\ \/ area' = SetCount(area, Count(area) + 1) /\ Return
       \/ WriteFails("idle")

-----------------------------------------------------------------------------
\* The one-time network.

(***************************************************************************)
(* The new network replaces the one there, whichever protocol created it;  *)
(* the limit is only reached if it is 1.                                   *)
(***************************************************************************)
CreateOneTime(p) ==
    /\ pc = "idle"
    /\ oneTime = NoOneTime \/ MaxNum > 1
    /\ \E net \in Networks : oneTime' = [protocol |-> p, net |-> net]
    /\ UNCHANGED <<area, pc, call, faults, blind>>

\* Index 0: the count is cleared without a look at the protocol.
DeleteOneTime(p) ==
    /\ pc = "idle"
    /\ oneTime # NoOneTime
    /\ oneTime' = NoOneTime
    /\ UNCHANGED <<area, pc, call, faults, blind>>

\* The power goes and comes back: flash stays, RAM and the call are lost.
PowerLoss ==
    /\ faults < MaxFaults
    /\ faults' = faults + 1
    /\ area' = [area EXCEPT !.recs = Listed(area)]
    /\ oneTime' = NoOneTime
    /\ call' = Over([call EXCEPT !.mishaps = @ + 2])
    /\ pc' = "idle"
    /\ UNCHANGED blind

-----------------------------------------------------------------------------
\* Reading.

\* BoATEth_GetNetworkByIndex; NoNetwork is BOAT_ERROR_NETWORK_INEXISTENCE.
GetNetworkByIndex(p, index) ==
    IF index = 0
    THEN IF oneTime.protocol = p THEN oneTime.net ELSE NoNetwork
    ELSE IF FoundAt(p, index) = {} THEN NoNetwork
    ELSE area.recs[CHOOSE s \in FoundAt(p, index) :
                      \A t \in FoundAt(p, index) : s <= t].net

-----------------------------------------------------------------------------

\* network_ethereum.c
EthNetworkDataCtx_Store == PutNetwork("ethereum") \/ CountNetwork("ethereum")
EthNetworkDelete ==
    \/ \E index \in Indexes : NetworkDelete("ethereum", index)
    \/ LowerNetworkCount("ethereum") \/ WipeLast("ethereum")
    \/ ShiftNetworks("ethereum") \/ RaiseCount("ethereum")
EthNetworks ==
    \/ NetworkCreate("ethereum") \/ EthNetworkDataCtx_Store
    \/ EthNetworkDelete
    \/ CreateOneTime("ethereum") \/ DeleteOneTime("ethereum")

\* network_platon.c
PlatONNetworkCreate == NetworkCreate("platon") \/ CreateOneTime("platon")
PlatONNetworkDataCtx_Store == PutNetwork("platon") \/ CountNetwork("platon")
PlatONNetworkDelete ==
    \/ \E index \in Indexes : NetworkDelete("platon", index)
    \/ LowerNetworkCount("platon") \/ DeleteOneTime("platon")
PlatONNetworkRemove ==
    WipeLast("platon") \/ ShiftNetworks("platon") \/ RaiseCount("platon")
PlatON_GetNetworkByIndex(index) == GetNetworkByIndex("platon", index)
PlatONNetworks ==
    \/ PlatONNetworkCreate \/ PlatONNetworkDataCtx_Store
    \/ PlatONNetworkDelete \/ PlatONNetworkRemove

\* network_quorum.c
QuorumNetworkCreate == NetworkCreate("quorum") \/ CreateOneTime("quorum")
QuorumNetworkDataCtx_Store == PutNetwork("quorum") \/ CountNetwork("quorum")
QuorumNetworkDelete ==
    \/ \E index \in Indexes : NetworkDelete("quorum", index)
    \/ LowerNetworkCount("quorum") \/ DeleteOneTime("quorum")
QuorumNetworkRemove ==
    WipeLast("quorum") \/ ShiftNetworks("quorum") \/ RaiseCount("quorum")
Quorum_GetNetworkByIndex(index) == GetNetworkByIndex("quorum", index)
QuorumNetworks ==
    \/ QuorumNetworkCreate \/ QuorumNetworkDataCtx_Store
    \/ QuorumNetworkDelete \/ QuorumNetworkRemove

NetworkNext == EthNetworks \/ PlatONNetworks \/ QuorumNetworks \/ PowerLoss

NetworkSpec == NetworkInit /\ [][NetworkNext]_networkVars

-----------------------------------------------------------------------------

(***************************************************************************)
(* As long as the flash can be read, an index names one network, whichever *)
(* protocols created and deleted networks in whatever order and whatever   *)
(* write failed: the three files give out indexes from one space.          *)
(***************************************************************************)
NetworkIndexesUnique ==
    blind = 0 =>
        \A s, t \in 1..Count(area) :
            /\ area.recs[s].index \in Indexes
            /\ area.recs[s].index = area.recs[t].index => s = t

Lookup(p, index) ==
    CASE p = "platon" -> PlatON_GetNetworkByIndex(index)
      [] p = "quorum" -> Quorum_GetNetworkByIndex(index)
      [] OTHER -> GetNetworkByIndex("ethereum", index)

(***************************************************************************)
(* The book of the registry is what each protocol can look up.  While a    *)
(* delete closes the gap it is still what it was before the call.          *)
(***************************************************************************)
LookupIn(recs, p, index) ==
    LET found == {s \in 1..Len(recs) :
                    recs[s].index = index /\ recs[s].protocol = p}
    IN IF found = {} THEN NoNetwork
       ELSE recs[CHOOSE s \in found : \A t \in found : s <= t].net

Book ==
    [e \in Protocols \X Indexes |->
       IF pc \in {"wipe", "countOverRecord", "shift", "raise"}
       THEN LookupIn(call.before, e[1], e[2])
       ELSE Lookup(e[1], e[2])]

Registry == INSTANCE NetworkRegistry WITH
    book <- Book,
    asked <- [op |-> IF pc = "idle" THEN "none" ELSE call.op,
              protocol |-> call.protocol, index |-> call.index],
    mishaps <- call.mishaps,
    blind <- blind > 0

(***************************************************************************)
(* The three stores behave as one registry: a call changes only the entry  *)
(* it was made for, unless the power goes or two writes of it fail.        *)
(***************************************************************************)
ImplementsRegistry == Registry!RegistrySpec
=============================================================================
