-------------------------- MODULE FlashArea_proofs --------------------------
(***************************************************************************)
(* Lemmas about the operations on a flash area, for records of any set R   *)
(* that carry an index of 1..m.  The proofs about the stores rest on them. *)
(***************************************************************************)
EXTENDS FlashArea, FiniteSetTheorems, SequenceTheorems, WellFoundedInduction,
        TLAPS

(***************************************************************************)
(* The records an area lists have different indexes; behind them lies at   *)
(* most one record more.                                                   *)
(***************************************************************************)
Distinct(a, n) ==
    \A s, t \in 1..n : a.recs[s].index = a.recs[t].index => s = t

NumberedArea(a, R, m) ==
    /\ m \in Nat \ {0} /\ \A r \in R : r.index \in 1..m
    /\ a \in [num : Unset..m, recs : Seq(R)]
    /\ Len(a.recs) \in Count(a)..Count(a) + 1
    /\ Len(a.recs) <= m
    /\ Distinct(a, Count(a))

(***************************************************************************)
(* The record behind the others may be listed with them: it is a new one,  *)
(* or the count has been lowered and the gap is still open.                *)
(***************************************************************************)
Behind(a) ==
    /\ Len(a.recs) = Count(a) + 1
    /\ Distinct(a, Count(a) + 1)

Absent(a, index) == \A s \in 1..Count(a) : a.recs[s].index # index

-----------------------------------------------------------------------------

LEMMA AreaFacts ==
    ASSUME NEW R, NEW m, NEW a, NumberedArea(a, R, m)
    PROVE  /\ m \in Nat \ {0} /\ a.recs \in Seq(R) /\ Len(a.recs) \in Nat
           /\ Count(a) \in 0..m /\ Len(a.recs) \in Count(a)..m /\ a.num \in Unset..m
           /\ \A s \in 1..Len(a.recs) :
                 a.recs[s] \in R /\ a.recs[s].index \in 1..m
  <1>1. /\ m \in Nat \ {0} /\ a.recs \in Seq(R) /\ Len(a.recs) \in Nat
        /\ a.num \in Unset..m
    BY DEF NumberedArea
  <1>2. Count(a) \in 0..m
    BY <1>1 DEF Count, Unset
  <1>3. Len(a.recs) \in Count(a)..m
    BY <1>1, <1>2 DEF NumberedArea
  <1>4. ASSUME NEW s \in 1..Len(a.recs)
        PROVE  a.recs[s] \in R /\ a.recs[s].index \in 1..m
    <2>1. a.recs[s] \in R
      BY <1>1
    <2> QED
      BY <2>1 DEF NumberedArea
  <1> QED
    BY <1>1, <1>2, <1>3, <1>4

LEMMA ListedFacts ==
    ASSUME NEW R, NEW m, NEW a, NumberedArea(a, R, m)
    PROVE  /\ Listed(a) \in Seq(R) /\ Len(Listed(a)) = Count(a)
           /\ \A s \in 1..Count(a) : Listed(a)[s] = a.recs[s]
           /\ Entries(a) \in SUBSET R
  <1> USE AreaFacts
  <1>1. /\ Listed(a) \in Seq(R) /\ Len(Listed(a)) = Count(a)
        /\ \A s \in 1..Count(a) : Listed(a)[s] = a.recs[s]
    BY SubSeqProperties DEF Listed
  <1>2. Entries(a) \in SUBSET R
    BY <1>1 DEF Entries, ToSet
  <1> QED
    BY <1>1, <1>2

LEMMA EmptyAreaInv ==
    ASSUME NEW R, NEW m \in Nat \ {0}, \A r \in R : r.index \in 1..m
    PROVE  NumberedArea(EmptyArea, R, m)
  <1>1. <<>> \in Seq(R) /\ Len(<<>>) = 0
    OBVIOUS
  <1> QED
    BY <1>1 DEF NumberedArea, EmptyArea, Distinct, Count, Unset

(***************************************************************************)
(* A record with a new index is written behind the others ...              *)
(***************************************************************************)
LEMMA PutRecordInv ==
    ASSUME NEW R, NEW m, NEW a, NumberedArea(a, R, m), NEW r \in R, Absent(a, r.index), Count(a) < m
    PROVE  NumberedArea(PutRecord(a, r), R, m) /\ Behind(PutRecord(a, r))
  <1> DEFINE n == Count(a)
             b == PutRecord(a, r)
             l == Listed(a)
  <1>1. n \in Nat /\ n + 1 <= m /\ a.num \in Unset..m /\ m \in Nat
    BY AreaFacts
  <1>2. b.num = a.num /\ b.recs = Append(l, r) /\ b = [num |-> a.num, recs |-> Append(l, r)]
    <2> DEFINE q == Append(l, r)
    <2>1. b = [a EXCEPT !.recs = q]
      BY DEF PutRecord
    <2>2. a \in [num : Unset..m, recs : Seq(R)]
      BY DEF NumberedArea
    <2> HIDE DEF q, b
    <2>3. b.num = a.num /\ b.recs = q /\ b = [num |-> a.num, recs |-> q]
      BY <2>1, <2>2
    <2> QED
      BY <2>3 DEF q
  <1>3. /\ l \in Seq(R) /\ Len(l) = n
        /\ \A s \in 1..n : l[s] = a.recs[s]
    BY ListedFacts
  <1>4. /\ b.recs \in Seq(R) /\ Len(b.recs) = n + 1
        /\ \A s \in 1..n : b.recs[s] = a.recs[s]
        /\ b.recs[n + 1] = r
    <2> HIDE DEF l, b, n
    <2>1. l \in Seq(R) /\ r \in R /\ Len(l) = n /\ b.recs = Append(l, r) /\ n \in Nat
      BY <1>1, <1>2, <1>3
    <2>2. /\ Append(l, r) \in Seq(R) /\ Len(Append(l, r)) = n + 1
          /\ \A s \in 1..n : Append(l, r)[s] = l[s]
          /\ Append(l, r)[n + 1] = r
      BY <2>1, AppendProperties
    <2> QED
      BY <1>3, <2>1, <2>2
  <1>5. Count(b) = n
    BY <1>2 DEF Count
  <1>6. b \in [num : Unset..m, recs : Seq(R)]
    BY <1>1, <1>2, <1>4
  <1> HIDE DEF b, l
  <1>7. Distinct(b, n + 1)
    <2> SUFFICES ASSUME NEW s \in 1..n + 1, NEW t \in 1..n + 1,
                        b.recs[s].index = b.recs[t].index
                 PROVE  s = t
      BY DEF Distinct
    <2>1. \A u \in 1..n : b.recs[u].index # r.index
      BY <1>4 DEF Absent
    <2>2. CASE s \in 1..n /\ t \in 1..n
      BY <1>4, <2>2 DEF NumberedArea, Distinct
    <2>3. CASE s = n + 1 /\ t = n + 1
      BY <2>3
    <2>4. CASE (s = n + 1) # (t = n + 1)
      BY <1>1, <1>4, <2>1, <2>4
    <2> QED
      BY <1>1, <2>2, <2>3, <2>4
  <1>8. Distinct(b, n)
    BY <1>1, <1>7 DEF Distinct
  <1> HIDE DEF n
  <1>9. NumberedArea(b, R, m)
    BY <1>1, <1>4, <1>5, <1>6, <1>8 DEF NumberedArea
  <1> QED
    BY <1>4, <1>5, <1>7, <1>9 DEF Behind, b

(***************************************************************************)
(* ... and counted.                                                        *)
(***************************************************************************)
LEMMA SetCountInv ==
    ASSUME NEW R, NEW m, NEW a, NumberedArea(a, R, m), Behind(a)
    PROVE  NumberedArea(SetCount(a, Count(a) + 1), R, m)
  <1> DEFINE n == Count(a) + 1
             b == SetCount(a, n)
  <1>1. n \in Nat /\ n = Len(a.recs) /\ n <= m /\ a.recs \in Seq(R)
        /\ m \in Nat
    BY AreaFacts DEF Behind
  <1>2. b = [num |-> n, recs |-> a.recs]
    BY DEF SetCount, NumberedArea
  <1>3. Distinct(a, n)
    BY DEF Behind
  <1> HIDE DEF n, b
  <1>4. b \in [num : Unset..m, recs : Seq(R)] /\ b.recs = a.recs /\ b.num = n
    BY <1>1, <1>2 DEF Unset
  <1>5. Count(b) = n
    BY <1>1, <1>4 DEF Count, Unset
  <1>6. NumberedArea(b, R, m)
    BY <1>1, <1>3, <1>4, <1>5 DEF NumberedArea, Distinct
  <1> QED
    BY <1>6 DEF b, n

(***************************************************************************)
(* The count is lowered while every record is still in place ...           *)
(***************************************************************************)
LEMMA LowerCountInv ==
    ASSUME NEW R, NEW m, NEW a, NumberedArea(a, R, m), NEW index \in 1..m, NEW s \in Slots(a, index)
    PROVE  LET b == LowerCount(a)
           IN  /\ NumberedArea(b, R, m) /\ Behind(b)
               /\ s \in 1..Len(b.recs) /\ b.recs[s].index = index
               /\ s \in 1..m /\ a.recs[s] \in R
  <1> DEFINE n == Count(a)
             b == LowerCount(a)
  <1>1. /\ n \in 1..m /\ s \in 1..n /\ a.recs[s].index = index
        /\ a.recs[s] \in R /\ m \in Nat
    BY AreaFacts DEF Slots
  <1>2. b = [num |-> n - 1, recs |-> Listed(a)]
    BY DEF LowerCount
  <1>3. /\ Listed(a) \in Seq(R) /\ Len(Listed(a)) = n
        /\ \A t \in 1..n : Listed(a)[t] = a.recs[t]
    BY ListedFacts
  <1>4. Distinct(a, n)
    BY DEF NumberedArea
  <1> HIDE DEF n, b
  <1>5. /\ b.num = n - 1 /\ b.recs = Listed(a)
        /\ b \in [num : Unset..m, recs : Seq(R)]
    BY <1>1, <1>2, <1>3 DEF Unset
  <1>6. Count(b) = n - 1
    BY <1>1, <1>5 DEF Count, Unset
  <1>7. Distinct(b, n)
    BY <1>3, <1>4, <1>5 DEF Distinct
  <1>8. Distinct(b, n - 1)
    BY <1>1, <1>7 DEF Distinct
  <1>9. NumberedArea(b, R, m)
    BY <1>1, <1>3, <1>5, <1>6, <1>8 DEF NumberedArea
  <1>10. Behind(b)
    BY <1>1, <1>3, <1>5, <1>6, <1>7 DEF Behind
  <1>11. s \in 1..Len(b.recs) /\ b.recs[s].index = index /\ s \in 1..m
    BY <1>1, <1>3, <1>5
  <1> QED
    BY <1>1, <1>9, <1>10, <1>11 DEF b

(***************************************************************************)
(* ... and then the gap is closed: no record has the index any more.       *)
(***************************************************************************)
LEMMA RemoveAtFacts ==
    ASSUME NEW S, NEW q \in Seq(S), NEW i \in 1..Len(q)
    PROVE  /\ RemoveAt(q, i) \in Seq(S) /\ Len(RemoveAt(q, i)) = Len(q) - 1
           /\ \A j \in 1..Len(q) - 1 :
                 RemoveAt(q, i)[j] = IF j < i THEN q[j] ELSE q[j + 1]
  <1> DEFINE x == SubSeq(q, 1, i - 1)
             y == SubSeq(q, i + 1, Len(q))
  <1>1. /\ x \in Seq(S) /\ Len(x) = i - 1 /\ \A j \in 1..i - 1 : x[j] = q[j]
    BY SubSeqProperties
  <1>2. /\ y \in Seq(S) /\ Len(y) = Len(q) - i
        /\ \A j \in 1..Len(q) - i : y[j] = q[j + i]
    BY SubSeqProperties
  <1>3. RemoveAt(q, i) = x \o y
    BY DEF RemoveAt
  <1> HIDE DEF x, y
  <1>4. x \o y \in Seq(S) /\ Len(x \o y) = Len(x) + Len(y)
    BY <1>1, <1>2, ConcatProperties
  <1>5. Len(q) \in Nat /\ i \in Int /\ Len(x \o y) = Len(q) - 1
    BY <1>1, <1>2, <1>4
  <1>6. ASSUME NEW j \in 1..Len(q) - 1
        PROVE  (x \o y)[j] = IF j < i THEN q[j] ELSE q[j + 1]
    <2>1. CASE j < i
      <3>1. j \in 1..Len(x)
        BY <1>1, <1>5, <2>1
      <3>2. (x \o y)[j] = x[j]
        BY <1>1, <1>2, <3>1, ConcatProperties
      <3> QED
        BY <1>1, <2>1, <3>1, <3>2
    <2>2. CASE ~(j < i)
      <3>1. /\ j \in Len(x) + 1..Len(x) + Len(y)
            /\ j - Len(x) \in 1..Len(q) - i
            /\ j - Len(x) + i = j + 1
        BY <1>1, <1>2, <1>5, <2>2
      <3>2. (x \o y)[j] = y[j - Len(x)]
        BY <1>1, <1>2, <3>1
      <3>3. y[j - Len(x)] = q[j - Len(x) + i]
        BY <1>2, <3>1
      <3> QED
        BY <2>2, <3>1, <3>2, <3>3
    <2> QED
      BY <2>1, <2>2
  <1> QED
    BY <1>3, <1>4, <1>5, <1>6

LEMMA RemoveSlotInv ==
    ASSUME NEW R, NEW m, NEW a, NumberedArea(a, R, m), Behind(a), NEW slot \in 1..Len(a.recs)
    PROVE  LET b == RemoveSlot(a, slot)
           IN  NumberedArea(b, R, m) /\ Count(b) < m /\ Absent(b, a.recs[slot].index)
  <1> DEFINE n == Count(a)
             b == RemoveSlot(a, slot)
  <1>1. /\ n \in Nat /\ Len(a.recs) = n + 1 /\ n + 1 <= m /\ a.recs \in Seq(R)
        /\ a.num \in Unset..m /\ m \in Nat
    BY AreaFacts DEF Behind
  <1>2. b = [num |-> a.num, recs |-> RemoveAt(a.recs, slot)]
    BY DEF RemoveSlot, NumberedArea
  <1>3. b.num = a.num /\ b.recs = RemoveAt(a.recs, slot)
    BY <1>2
  <1>4. Distinct(a, n + 1)
    BY DEF Behind
  <1>5. Count(b) = n
    BY <1>3 DEF Count
  <1> HIDE DEF n, b
  <1>6. /\ b.recs \in Seq(R) /\ Len(b.recs) = n
        /\ \A j \in 1..n : b.recs[j] = IF j < slot THEN a.recs[j] ELSE a.recs[j + 1]
    <2> DEFINE q == a.recs
    <2>1. q \in Seq(R) /\ slot \in 1..Len(q) /\ Len(q) - 1 = n
      BY <1>1
    <2> HIDE DEF q
    <2>2. /\ RemoveAt(q, slot) \in Seq(R) /\ Len(RemoveAt(q, slot)) = n
          /\ \A j \in 1..n :
                RemoveAt(q, slot)[j] = IF j < slot THEN q[j] ELSE q[j + 1]
      BY <2>1, RemoveAtFacts
    <2> QED
      BY <1>3, <2>2 DEF q
  <1>7. b \in [num : Unset..m, recs : Seq(R)]
    BY <1>1, <1>2, <1>6
  <1> DEFINE from(j) == IF j < slot THEN j ELSE j + 1
  <1>11. \A j \in 1..n : /\ from(j) \in 1..n + 1 /\ from(j) # slot
                          /\ b.recs[j] = a.recs[from(j)]
    BY <1>1, <1>6
  <1>12. \A j, k \in 1..n : from(j) = from(k) => j = k
    BY <1>1
  <1> HIDE DEF from
  <1>8. Distinct(b, n)
    BY <1>4, <1>11, <1>12 DEF Distinct
  <1>9. Absent(b, a.recs[slot].index)
    BY <1>1, <1>4, <1>5, <1>11 DEF Distinct, Absent
  <1>10. NumberedArea(b, R, m)
    BY <1>1, <1>5, <1>6, <1>7, <1>8 DEF NumberedArea
  <1> QED
    BY <1>1, <1>5, <1>9, <1>10 DEF b

LEMMA PowerLossInv ==
    ASSUME NEW R, NEW m, NEW a, NumberedArea(a, R, m) PROVE NumberedArea([a EXCEPT !.recs = Listed(a)], R, m)
  <1> DEFINE b == [a EXCEPT !.recs = Listed(a)]
  <1>1. b = [num |-> a.num, recs |-> Listed(a)]
    BY DEF NumberedArea
  <1>2. /\ Listed(a) \in Seq(R) /\ Len(Listed(a)) = Count(a)
        /\ \A t \in 1..Count(a) : Listed(a)[t] = a.recs[t]
        /\ Count(a) \in 0..m /\ a.num \in Unset..m /\ m \in Nat
    BY ListedFacts, AreaFacts
  <1> HIDE DEF b
  <1>3. /\ b.num = a.num /\ b.recs = Listed(a)
        /\ b \in [num : Unset..m, recs : Seq(R)]
    BY <1>1, <1>2
  <1>4. Count(b) = Count(a)
    BY <1>3 DEF Count
  <1>5. Distinct(b, Count(b))
    BY <1>2, <1>3, <1>4 DEF Distinct, NumberedArea
  <1>6. NumberedArea(b, R, m)
    BY <1>2, <1>3, <1>4, <1>5 DEF NumberedArea
  <1> QED
    BY <1>6 DEF b

(***************************************************************************)
(* More indexes than slots: two indexes share a slot.                      *)
(***************************************************************************)
LEMMA NoInjection ==
    ASSUME NEW m \in Nat, NEW n \in Nat, n < m, NEW f \in [1..m -> 1..n]
    PROVE  \E x, y \in 1..m : x # y /\ f[x] = f[y]
  <1> DEFINE D == 1..m
             R == 1..n
  <1>1. IsFiniteSet(D) /\ Cardinality(D) = m
    BY FS_Interval
  <1>2. IsFiniteSet(R) /\ Cardinality(R) = n
    BY FS_Interval
  <1>3. f \in [D -> R]
    OBVIOUS
  <1> HIDE DEF D, R
  <1>4. Cardinality(R) < Cardinality(D)
    BY <1>1, <1>2
  <1>5. \E x, y \in D : x # y /\ f[x] = f[y]
    BY <1>1, <1>2, <1>3, <1>4, FS_PigeonHole, Zenon
  <1> QED
    BY <1>5 DEF D

(***************************************************************************)
(* Fewer records than indexes leave an index free; there is a least one.   *)
(***************************************************************************)
LEMMA LeastFreeIndex ==
    ASSUME NEW m \in Nat, NEW a, Count(a) \in Nat, Count(a) < m
    PROVE  \E i \in 1..m : /\ Slots(a, i) = {}
                           /\ \A j \in 1..i - 1 : Slots(a, j) # {}
  <1> DEFINE n == Count(a)
             Free == {i \in 1..m : Slots(a, i) = {}}
  <1>1. n \in Nat /\ n < m /\ m \in Nat
    OBVIOUS
  <1>2. Free # {}
    <2> SUFFICES ASSUME Free = {} PROVE FALSE
      OBVIOUS
    <2> DEFINE slotOf == [i \in 1..m |-> CHOOSE s \in 1..n : a.recs[s].index = i]
    <2>1. ASSUME NEW i \in 1..m
          PROVE  slotOf[i] \in 1..n /\ a.recs[slotOf[i]].index = i
      <3>1. \E s \in 1..n : a.recs[s].index = i
        BY DEF Slots
      <3> QED
        BY <3>1
    <2>2. \E f \in [1..m -> 1..n] : \A i \in 1..m : a.recs[f[i]].index = i
      <3>1. slotOf \in [1..m -> 1..n]
        BY <2>1
      <3> QED
        BY <2>1, <3>1
    <2> HIDE DEF slotOf
    <2>3. PICK f \in [1..m -> 1..n] : \A i \in 1..m : a.recs[f[i]].index = i
      BY <2>2
    <2>4. \E x, y \in 1..m : x # y /\ f[x] = f[y]
      BY <1>1, <2>3, NoInjection
    <2> QED
      BY <2>3, <2>4
  <1>3. Free \subseteq Nat
    BY <1>1
  <1>4. PICK i \in Free : \A j \in Free : ~(<<j, i>> \in OpToRel(<, Nat))
    BY <1>2, <1>3, NatLessThanWellFounded, WFMin
  <1>5. \A j \in Free : ~(j < i)
    BY <1>3, <1>4 DEF OpToRel
  <1>6. \A j \in 1..i - 1 : j \in 1..m /\ j < i
    BY <1>1
  <1> QED
    BY <1>5, <1>6

-----------------------------------------------------------------------------
\* What an area lists, as a set

\* All records of an area, the one behind the others too.
Whole(a) == {a.recs[s] : s \in 1..Len(a.recs)}

Named(records, index) == \E r \in records : r.index = index

OwnIndex(records) == \A x, y \in records : x.index = y.index => x = y

LEMMA EntriesFacts ==
    ASSUME NEW R, NEW m, NEW a, NumberedArea(a, R, m)
    PROVE  /\ Entries(a) = {a.recs[s] : s \in 1..Count(a)}
           /\ Entries(a) \subseteq R /\ OwnIndex(Entries(a))
           /\ \A i : Slots(a, i) # {} <=> Named(Entries(a), i)
           /\ \A i : Absent(a, i) <=> ~Named(Entries(a), i)
  <1>1. /\ Len(Listed(a)) = Count(a) /\ Listed(a) \in Seq(R)
        /\ \A s \in 1..Count(a) : Listed(a)[s] = a.recs[s]
        /\ Entries(a) \in SUBSET R
    BY ListedFacts
  <1>2. Entries(a) = {a.recs[s] : s \in 1..Count(a)}
    BY <1>1 DEF Entries, ToSet
  <1>3. OwnIndex(Entries(a))
    BY <1>2 DEF OwnIndex, NumberedArea, Distinct
  <1>4. \A i : Slots(a, i) # {} <=> Named(Entries(a), i)
    BY <1>2 DEF Slots, Named
  <1>5. \A i : Absent(a, i) <=> ~Named(Entries(a), i)
    BY <1>2 DEF Absent, Named
  <1> QED
    BY <1>1, <1>2, <1>3, <1>4, <1>5

LEMMA WholeFacts ==
    ASSUME NEW R, NEW m, NEW a, NumberedArea(a, R, m), Behind(a)
    PROVE  /\ Whole(a) = Entries(a) \union {a.recs[Count(a) + 1]}
           /\ OwnIndex(Whole(a))
           /\ \A s \in 1..Len(a.recs) : a.recs[s] \in Whole(a)
  <1>1. Count(a) \in Nat /\ Len(a.recs) = Count(a) + 1
    BY AreaFacts DEF Behind
  <1>2. Entries(a) = {a.recs[s] : s \in 1..Count(a)}
    BY EntriesFacts
  <1> DEFINE n == Count(a)
  <1>3. \A s : s \in 1..n + 1 <=> s \in 1..n \/ s = n + 1
    BY <1>1
  <1>4. Whole(a) = {a.recs[s] : s \in 1..n + 1}
    BY <1>1 DEF Whole
  <1>5. OwnIndex(Whole(a))
    BY <1>4 DEF OwnIndex, Behind, Distinct
  <1>6. \A s \in 1..Len(a.recs) : a.recs[s] \in Whole(a)
    BY DEF Whole
  <1> HIDE DEF n
  <1>7. Whole(a) = Entries(a) \union {a.recs[n + 1]}
    BY <1>2, <1>3, <1>4 DEF n
  <1> QED
    BY <1>5, <1>6, <1>7 DEF n

(***************************************************************************)
(* How each write changes what is listed.                                  *)
(***************************************************************************)
LEMMA EntriesPut ==
    ASSUME NEW R, NEW m, NEW a, NumberedArea(a, R, m), NEW r \in R,
           NEW b, b = PutRecord(a, r)
    PROVE  /\ Entries(b) = Entries(a) /\ Count(b) = Count(a)
           /\ b.recs[Count(b) + 1] = r
  <1> DEFINE l == Listed(a)
             q == Append(l, r)
             n == Count(a)
             k == SubSeq(q, 1, n)
  <1>1. l \in Seq(R) /\ Len(l) = n /\ n \in Nat
    BY ListedFacts, AreaFacts
  <1>2. b.num = a.num /\ b.recs = q
    <2>1. a \in [num : Unset..m, recs : Seq(R)] /\ b = [a EXCEPT !.recs = q]
      BY DEF NumberedArea, PutRecord
    <2> HIDE DEF q
    <2> QED
      BY <2>1
  <1>3. Count(b) = n
    BY <1>2 DEF Count
  <1> HIDE DEF l, n
  <1>4. /\ q \in Seq(R) /\ Len(q) = n + 1 /\ q[n + 1] = r
        /\ \A s \in 1..n : q[s] = l[s]
    BY <1>1, AppendProperties
  <1> HIDE DEF q
  <1>5. k \in Seq(R) /\ Len(k) = n /\ \A s \in 1..n : k[s] = q[s]
    BY <1>1, <1>4, SubSeqProperties
  <1>6. Listed(b) = k
    BY <1>2, <1>3 DEF Listed
  <1> HIDE DEF k
  <1>7. k = l
    BY <1>1, <1>4, <1>5, SeqEqual
  <1> QED
    BY <1>2, <1>3, <1>4, <1>6, <1>7 DEF Entries, l, n

LEMMA EntriesSetCount ==
    ASSUME NEW R, NEW m, NEW a, NumberedArea(a, R, m), Behind(a),
           NEW b, b = SetCount(a, Count(a) + 1)
    PROVE  Entries(b) = Whole(a)
  <1> DEFINE n == Count(a) + 1
  <1>1. n \in Nat /\ n > 0 /\ n = Len(a.recs) /\ NumberedArea(b, R, m)
    BY AreaFacts, SetCountInv DEF Behind
  <1>2. b.recs = a.recs /\ b.num = n
    <2>1. a \in [num : Unset..m, recs : Seq(R)] /\ b = [a EXCEPT !.num = n]
      BY DEF NumberedArea, SetCount
    <2> HIDE DEF n
    <2> QED
      BY <2>1
  <1> HIDE DEF n
  <1>3. Count(b) = n
    BY <1>1, <1>2 DEF Count, Unset
  <1> QED
    BY <1>1, <1>2, <1>3, EntriesFacts DEF Whole

LEMMA WholeLower ==
    ASSUME NEW R, NEW m, NEW a, NumberedArea(a, R, m), NEW b, b = LowerCount(a)
    PROVE  /\ Whole(b) = Entries(a)
           /\ \A s \in 1..Count(a) : b.recs[s] = a.recs[s]
  <1>1. b.recs = Listed(a)
    BY DEF LowerCount
  <1>2. /\ Len(Listed(a)) = Count(a)
        /\ \A s \in 1..Count(a) : Listed(a)[s] = a.recs[s]
    BY ListedFacts
  <1> QED
    BY <1>1, <1>2, EntriesFacts DEF Whole

LEMMA EntriesRemove ==
    ASSUME NEW R, NEW m, NEW a, NumberedArea(a, R, m), Behind(a),
           NEW slot \in 1..Len(a.recs), NEW b, b = RemoveSlot(a, slot)
    PROVE  Entries(b) = Whole(a) \ {a.recs[slot]}
  <1> DEFINE n == Count(a)
             q == a.recs
             d == RemoveAt(q, slot)
             from(j) == IF j < slot THEN j ELSE j + 1
  <1>1. /\ n \in Nat /\ Len(q) = n + 1 /\ q \in Seq(R) /\ NumberedArea(b, R, m)
    BY AreaFacts, RemoveSlotInv DEF Behind
  <1>2. b.num = a.num /\ b.recs = d
    <2>1. a \in [num : Unset..m, recs : Seq(R)] /\ b = [a EXCEPT !.recs = d]
      BY DEF NumberedArea, RemoveSlot
    <2> HIDE DEF d
    <2> QED
      BY <2>1
  <1>3. Count(b) = n
    BY <1>2 DEF Count
  <1>4. slot \in 1..n + 1 /\ Distinct(a, n + 1)
    BY <1>1 DEF Behind
  <1> HIDE DEF n, q
  <1>5. \A j \in 1..n : d[j] = IF j < slot THEN q[j] ELSE q[j + 1]
    <2>1. slot \in 1..Len(q) /\ Len(q) - 1 = n
      BY <1>1, <1>4
    <2> QED
      BY <1>1, <2>1, RemoveAtFacts
  <1> HIDE DEF d
  <1>6. \A j \in 1..n : from(j) \in 1..n + 1 /\ from(j) # slot /\ d[j] = q[from(j)]
    BY <1>1, <1>4, <1>5
  <1>7. \A s \in 1..n + 1 : s # slot => \E j \in 1..n : from(j) = s
    <2> SUFFICES ASSUME NEW s \in 1..n + 1, s # slot PROVE \E j \in 1..n : from(j) = s
      OBVIOUS
    <2>1. CASE s < slot
      <3>1. s \in 1..n /\ from(s) = s
        BY <1>1, <1>4, <2>1
      <3> QED
        BY <3>1
    <2>2. CASE s > slot
      <3>1. s - 1 \in 1..n /\ from(s - 1) = s
        BY <1>1, <1>4, <2>2
      <3> QED
        BY <3>1
    <2> QED
      BY <1>1, <1>4, <2>1, <2>2
  <1> HIDE DEF from
  <1>8. \A s, t \in 1..n + 1 : q[s] = q[t] => s = t
    BY <1>4 DEF Distinct, q
  <1>9. Entries(b) = {d[j] : j \in 1..n}
    BY <1>1, <1>2, <1>3, EntriesFacts
  <1>10. Whole(a) = {q[s] : s \in 1..n + 1}
    BY <1>1 DEF Whole, q
  <1>11. Entries(b) \subseteq Whole(a) \ {q[slot]}
    BY <1>4, <1>6, <1>8, <1>9, <1>10
  <1>12. Whole(a) \ {q[slot]} \subseteq Entries(b)
    <2> SUFFICES ASSUME NEW s \in 1..n + 1, q[s] # q[slot] PROVE q[s] \in Entries(b)
      BY <1>10
    <2>1. PICK j \in 1..n : from(j) = s
      BY <1>7
    <2> QED
      BY <1>6, <1>9, <2>1
  <1> QED
    BY <1>11, <1>12 DEF q

LEMMA EntriesSame ==
    ASSUME NEW R, NEW m, NEW a, NumberedArea(a, R, m),
           NEW b, NumberedArea(b, R, m), Count(b) = Count(a), b.recs = Listed(a)
    PROVE  Entries(b) = Entries(a)
  <1>1. \A s \in 1..Count(a) : b.recs[s] = a.recs[s]
    BY ListedFacts
  <1>2. Entries(a) = {a.recs[s] : s \in 1..Count(a)}
    BY EntriesFacts
  <1>3. Entries(b) = {b.recs[s] : s \in 1..Count(b)}
    BY EntriesFacts
  <1> QED
    BY <1>1, <1>2, <1>3

LEMMA EntriesCut ==
    ASSUME NEW R, NEW m, NEW a, NumberedArea(a, R, m)
    PROVE  Entries([a EXCEPT !.recs = Listed(a)]) = Entries(a)
  <1> DEFINE l == Listed(a)
             b == [a EXCEPT !.recs = l]
  <1>1. NumberedArea(b, R, m)
    BY PowerLossInv
  <1>2. b.num = a.num /\ b.recs = l
    <2>1. a \in [num : Unset..m, recs : Seq(R)]
      BY DEF NumberedArea
    <2> HIDE DEF l
    <2> QED
      BY <2>1
  <1> HIDE DEF b
  <1>3. Count(b) = Count(a)
    BY <1>2 DEF Count
  <1>4. Entries(b) = Entries(a)
    BY <1>1, <1>2, <1>3, EntriesSame
  <1> QED
    BY <1>4 DEF b

(***************************************************************************)
(* A full area names every index.                                          *)
(***************************************************************************)
LEMMA FullNamesAll ==
    ASSUME NEW R, NEW m, NEW a, NumberedArea(a, R, m), Count(a) >= m, NEW i \in 1..m
    PROVE  Named(Entries(a), i)
  <1> SUFFICES ASSUME ~Named(Entries(a), i) PROVE FALSE
    OBVIOUS
  <1> DEFINE D == 1..m
             E == D \ {i}
             f == [s \in D |-> a.recs[s].index]
  <1>1. m \in Nat /\ Count(a) = m
    BY AreaFacts
  <1>2. IsFiniteSet(D) /\ Cardinality(D) = m
    BY <1>1, FS_Interval
  <1>3. f \in [D -> E]
    <2>1. \A s \in D : a.recs[s].index \in D /\ a.recs[s].index # i
      BY <1>1, AreaFacts, EntriesFacts DEF Absent
    <2> QED
      BY <2>1
  <1>4. \A x, y \in D : f[x] = f[y] => x = y
    BY <1>1 DEF NumberedArea, Distinct
  <1>5. i \in D
    OBVIOUS
  <1> HIDE DEF D, f
  <1>6. IsFiniteSet(E) /\ Cardinality(E) = Cardinality(D) - 1
    BY <1>2, <1>5, FS_RemoveElement
  <1>7. Cardinality(E) < Cardinality(D)
    BY <1>1, <1>2, <1>6
  <1> HIDE DEF E
  <1>8. \E x, y \in D : x # y /\ f[x] = f[y]
    BY <1>2, <1>3, <1>6, <1>7, FS_PigeonHole, Zenon
  <1> QED
    BY <1>4, <1>8

=============================================================================
