----------------------------- MODULE FlashArea -----------------------------
(***************************************************************************)
(* One area of boat_wallet_file (persiststore.c): four count bytes "AA 55  *)
(* num crc", then records back to back.  A record is reached by stepping   *)
(* over the lengths of those before it, so only the first num records      *)
(* count; what lies behind them is never read again and is overwritten by  *)
(* the next record.  A record is [index, key].                             *)
(***************************************************************************)
EXTENDS Integers, SequencesExt

Unset == -1     \* no valid count bytes: area never written

EmptyArea == [num |-> Unset, recs |-> <<>>]

(***************************************************************************)
(* utility_check_NumBytes; every caller but one takes an invalid count for *)
(* 0.                                                                      *)
(***************************************************************************)
Count(a) == IF a.num = Unset THEN 0 ELSE a.num

Listed(a) == SubSeq(a.recs, 1, Count(a))
Entries(a) == ToSet(Listed(a))
Slots(a, index) == {s \in 1..Count(a) : a.recs[s].index = index}

\* The writes an area knows.  The count is lowered before the gap is closed:
\* until then the last record is still in place.
LowerCount(a) == [num |-> Count(a) - 1, recs |-> Listed(a)]
PutRecord(a, rec) == [a EXCEPT !.recs = Append(Listed(a), rec)]
SetCount(a, n) == [a EXCEPT !.num = n]
RemoveSlot(a, slot) == [a EXCEPT !.recs = RemoveAt(@, slot)]

AreaOK(a, recs, max) ==
    /\ a.num \in Unset..max
    /\ a.recs \in BoundedSeq(recs, max)
    /\ Len(a.recs) \in Count(a)..Count(a) + 1
=============================================================================
