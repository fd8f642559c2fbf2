------------------------- MODULE EncodedData_proofs -------------------------
(***************************************************************************)
(* What the conversions of Encodings give back, for every sequence of      *)
(* bytes: hexadecimal and base64 texts, tags with lengths and values, the  *)
(* bytes that guard a count, signatures; then what the records of          *)
(* StoredRecords and the commands and replies of Se05xApdu give back for   *)
(* every list of fields, and what is read out of a list in RLP and of the  *)
(* transactions of RawTransaction.  From that, the invariants of           *)
(* EncodedData that are about them, for every data and every size.         *)
(***************************************************************************)
EXTENDS EncodedData, SequenceTheorems, WellFoundedInduction, TLAPS

Byte == 0..255
Digit == 0..15
Char == Nat

-----------------------------------------------------------------------------
(* Sequences.                                                              *)

LEMMA Ranges ==
    /\ Byte \subseteq Nat /\ 0 \in Byte
    /\ Digit \subseteq Nat /\ 0 \in Digit
  BY DEF Byte, Digit

LEMMA LeastOf ==
    ASSUME NEW S, S \subseteq Nat, S # {}
    PROVE  /\ Min(S) \in S
           /\ \A i \in S : Min(S) <= i
<1>1. PICK i \in S : \A j \in S : i <= j
  <2>1. PICK i \in S : \A j \in S : <<j, i>> \notin OpToRel(<, Nat)
    BY NatLessThanWellFounded, WFMin
  <2>2. \A j \in S : ~(j < i)
    BY <2>1 DEF OpToRel
  <2> QED BY <2>2
<1> QED BY <1>1 DEF Min

LEMMA Joined ==
    ASSUME NEW S, NEW s \in Seq(S), NEW t \in Seq(S)
    PROVE  /\ s \o t \in Seq(S)
           /\ Len(s \o t) = Len(s) + Len(t)
           /\ \A i \in 1..Len(s) : (s \o t)[i] = s[i]
           /\ \A i \in 1..Len(t) : (s \o t)[Len(s) + i] = t[i]
<1>1. Len(s) \in Nat /\ Len(t) \in Nat
  OBVIOUS
<1> QED BY <1>1, ConcatProperties

LEMMA Sliced ==
    ASSUME NEW S, NEW s \in Seq(S), NEW m \in Int, NEW n \in Int,
           1 <= m, n <= Len(s), m <= n + 1
    PROVE  /\ SubSeq(s, m, n) \in Seq(S)
           /\ Len(SubSeq(s, m, n)) = n - m + 1
           /\ \A i \in 1..n - m + 1 : SubSeq(s, m, n)[i] = s[m + i - 1]
<1>1. Len(s) \in Nat
  OBVIOUS
<1>2. \A i \in m..n : s[i] \in S
  BY <1>1, ElementOfSeq
<1> QED BY <1>2, SubSeqProperties

LEMMA SameSeq ==
    ASSUME NEW S, NEW s \in Seq(S), NEW t \in Seq(S), NEW n \in Nat,
           Len(s) = n, Len(t) = n, \A i \in 1..n : s[i] = t[i]
    PROVE  s = t
  BY SeqEqual

LEMMA Built ==
    ASSUME NEW S, NEW n \in Nat, NEW f, f = [i \in 1..n |-> f[i]],
           \A i \in 1..n : f[i] \in S
    PROVE  f \in Seq(S) /\ Len(f) = n
<1>1. f \in [1..n -> S]
  OBVIOUS
<1> QED BY <1>1

-----------------------------------------------------------------------------
(* Leading zeros.                                                          *)

LEMMA TrimFacts ==
    ASSUME NEW S, S \subseteq Nat, NEW s \in Seq(S)
    PROVE  \/ /\ \A i \in 1..Len(s) : s[i] = 0
              /\ TrimZeros(s) = <<>>
           \/ \E k \in 1..Len(s) :
                 /\ s[k] # 0 /\ \A i \in 1..k - 1 : s[i] = 0
                 /\ TrimZeros(s) = SubSeq(s, k, Len(s))
<1> DEFINE kept == {i \in DOMAIN s : s[i] # 0}
<1>1. Len(s) \in Nat /\ DOMAIN s = 1..Len(s)
  OBVIOUS
<1>2. TrimZeros(s) = IF kept = {} THEN <<>> ELSE SubSeq(s, Min(kept), Len(s))
  BY DEF TrimZeros
<1>3. CASE kept = {}
  BY <1>1, <1>2, <1>3
<1>4. CASE kept # {}
  <2>1. kept \subseteq Nat
    BY <1>1
  <2> DEFINE k == Min(kept)
  <2>2. k \in kept /\ \A i \in kept : k <= i
    BY <1>4, <2>1, LeastOf
  <2>3. k \in 1..Len(s) /\ s[k] # 0 /\ TrimZeros(s) = SubSeq(s, k, Len(s))
    BY <1>1, <1>2, <1>4, <2>2
  <2>4. \A i \in 1..Len(s) : s[i] # 0 => k <= i
    BY <1>1, <2>2
  <2> HIDE DEF k, kept
  <2>5. \A i \in 1..k - 1 : s[i] = 0
    BY <1>1, <2>3, <2>4
  <2> QED BY <2>3, <2>5
<1> QED BY <1>3, <1>4

(* The form in which the other lemmas use it. *)
LEMMA TrimCase ==
    ASSUME NEW S, S \subseteq Nat, NEW s \in Seq(S)
    PROVE  /\ TrimZeros(s) \in Seq(S)
           /\ Len(TrimZeros(s)) <= Len(s)
           /\ TrimZeros(s) # <<>> => TrimZeros(s)[1] # 0
           /\ \A k \in 1..Len(s) :
                 s[k] # 0 /\ (\A i \in 1..k - 1 : s[i] = 0)
                     => TrimZeros(s) = SubSeq(s, k, Len(s))
           /\ (\A i \in 1..Len(s) : s[i] = 0) => TrimZeros(s) = <<>>
           /\ TrimZeros(s) = <<>> => \A i \in 1..Len(s) : s[i] = 0
           /\ s # <<>> /\ s[1] # 0 => TrimZeros(s) = s
<1>1. Len(s) \in Nat
  OBVIOUS
<1>2. CASE (\A i \in 1..Len(s) : s[i] = 0) /\ TrimZeros(s) = <<>>
  <2>1. s # <<>> => 1 \in 1..Len(s)
    BY <1>1, EmptySeq
  <2> QED BY <1>1, <1>2, <2>1
<1>3. ASSUME NEW k \in 1..Len(s), s[k] # 0, \A i \in 1..k - 1 : s[i] = 0,
             TrimZeros(s) = SubSeq(s, k, Len(s))
      PROVE  /\ TrimZeros(s) \in Seq(S)
             /\ Len(TrimZeros(s)) = Len(s) - k + 1
             /\ TrimZeros(s)[1] = s[k]
             /\ TrimZeros(s) # <<>>
  <2>1. /\ TrimZeros(s) \in Seq(S)
        /\ Len(TrimZeros(s)) = Len(s) - k + 1
        /\ \A i \in 1..Len(s) - k + 1 : TrimZeros(s)[i] = s[k + i - 1]
    BY <1>1, <1>3, Sliced
  <2> QED BY <1>1, <2>1
<1>4. ASSUME NEW k \in 1..Len(s), s[k] # 0, \A i \in 1..k - 1 : s[i] = 0,
             NEW j \in 1..Len(s), s[j] # 0, \A i \in 1..j - 1 : s[i] = 0
      PROVE  j = k
  BY <1>1, <1>4
<1>5. ASSUME NEW k \in 1..Len(s), s[k] # 0, \A i \in 1..k - 1 : s[i] = 0,
             TrimZeros(s) = SubSeq(s, k, Len(s)), s[1] # 0
      PROVE  TrimZeros(s) = s
  <2>1. k = 1
    BY <1>1, <1>5
  <2> QED BY <1>5, <2>1, SubSeqFull
<1>6. CASE \E k \in 1..Len(s) :
               /\ s[k] # 0 /\ \A i \in 1..k - 1 : s[i] = 0
               /\ TrimZeros(s) = SubSeq(s, k, Len(s))
  <2>1. PICK k \in 1..Len(s) :
               /\ s[k] # 0 /\ \A i \in 1..k - 1 : s[i] = 0
               /\ TrimZeros(s) = SubSeq(s, k, Len(s))
    BY <1>6
  <2>2. /\ TrimZeros(s) \in Seq(S)
        /\ Len(TrimZeros(s)) = Len(s) - k + 1
        /\ TrimZeros(s)[1] = s[k]
        /\ TrimZeros(s) # <<>>
    BY <1>3, <2>1
  <2>3. \A j \in 1..Len(s) : s[j] # 0 /\ (\A i \in 1..j - 1 : s[i] = 0) => j = k
    BY <1>4, <2>1
  <2>4. s[1] # 0 => TrimZeros(s) = s
    BY <1>5, <2>1
  <2>5. Len(TrimZeros(s)) <= Len(s)
    BY <1>1, <2>2
  <2>6. ~ \A i \in 1..Len(s) : s[i] = 0
    BY <2>1
  <2>7. \A j \in 1..Len(s) : s[j] # 0 /\ (\A i \in 1..j - 1 : s[i] = 0)
                                => TrimZeros(s) = SubSeq(s, j, Len(s))
    BY <2>1, <2>3
  <2> QED BY <2>1, <2>2, <2>4, <2>5, <2>6, <2>7
<1> QED BY <1>2, <1>6, TrimFacts

-----------------------------------------------------------------------------
(* Hexadecimal texts.                                                      *)

(* The steps of UtilityHexToBin by name.                                   *)
Bare(from) ==
    IF Len(from) > 2 /\ from[1] = 0 /\ from[2] = Ex
    THEN SubSeq(from, 3, Len(from)) ELSE from
Wrong(digits) == {i \in DOMAIN digits : ~IsDigit(digits[i])}
Packed(digits, read) ==
    [i \in 1..read \div 2 |-> 16 * digits[2 * i - 1] + digits[2 * i]]
Kept(bytes, leftTrim) == IF leftTrim THEN TrimZeros(bytes) ELSE bytes

LEMMA HexToBinSteps ==
    ASSUME NEW room \in Nat \ {0}, NEW from, NEW leftTrim, NEW digits,
           digits = EvenDigits(Bare(from)), NEW read,
           read = IF Wrong(digits) = {} THEN Len(digits) ELSE Min(Wrong(digits)) - 1,
           NEW kept, kept = Kept(Packed(digits, read), leftTrim), Len(kept) \in Nat
    PROVE  UtilityHexToBin(room, from, leftTrim, FALSE) =
               IF Len(kept) >= room THEN SubSeq(kept, 1, room)
               ELSE IF Wrong(digits) # {} THEN <<>>
               ELSE IF kept = <<>> THEN <<0>> ELSE kept
<1> DEFINE d == EvenDigits(Bare(from))
           n == IF Wrong(d) = {} THEN Len(d) ELSE Min(Wrong(d)) - 1
           k == Kept(Packed(d, n), leftTrim)
<1>0. UtilityHexToBin(room, from, leftTrim, FALSE) =
          CASE room = 0                               -> <<>>
            [] room > 0 /\ Len(k) >= room             -> SubSeq(k, 1, room)
            [] room > 0 /\ Len(k) < room /\ Wrong(d) # {} -> <<>>
            [] room > 0 /\ Len(k) < room /\ Wrong(d) = {} ->
                  IF k = <<>> /\ ~FALSE THEN <<0>> ELSE k
  BY DEF UtilityHexToBin, Bare, Wrong, Packed, Kept
<1> HIDE DEF d, n, k
<1>1. d = digits /\ k = kept
  <2>1. d = digits
    BY DEF d
  <2>2. n = read
    BY <2>1 DEF n
  <2> QED BY <2>1, <2>2 DEF k
<1>2. room # 0 /\ room > 0
  OBVIOUS
<1>3. CASE Len(kept) >= room
  <2>1. ~(Len(kept) < room)
    BY <1>3
  <2> QED BY <1>0, <1>1, <1>2, <1>3, <2>1
<1>4. CASE ~(Len(kept) >= room)
  <2>1. Len(kept) < room
    BY <1>4
  <2> QED BY <1>0, <1>1, <1>2, <1>4, <2>1
<1> QED BY <1>3, <1>4

LEMMA DigitsFacts ==
    ASSUME NEW bytes \in Seq(Byte)
    PROVE  /\ Digits(bytes) \in Seq(Digit)
           /\ Len(Digits(bytes)) = 2 * Len(bytes)
           /\ \A i \in 1..Len(bytes) :
                 /\ Digits(bytes)[2 * i - 1] = bytes[i] \div 16
                 /\ Digits(bytes)[2 * i] = bytes[i] % 16
<1>1. Len(bytes) \in Nat /\ \A i \in 1..Len(bytes) : bytes[i] \in Byte
  BY ElementOfSeq
<1> DEFINE n == 2 * Len(bytes)
           d(i) == IF i % 2 = 1 THEN bytes[(i + 1) \div 2] \div 16 ELSE bytes[i \div 2] % 16
<1>2. Digits(bytes) = [i \in 1..n |-> d(i)]
  BY DEF Digits
<1>3. \A i \in 1..n : d(i) \in Digit
  <2>1. TAKE i \in 1..n
  <2>2. i % 2 = 1 => (i + 1) \div 2 \in 1..Len(bytes)
    BY <1>1
  <2>3. i % 2 # 1 => i \div 2 \in 1..Len(bytes)
    BY <1>1
  <2>4. \A b \in Byte : b \div 16 \in Digit /\ b % 16 \in Digit
    BY DEF Byte, Digit
  <2> QED BY <1>1, <2>2, <2>3, <2>4
<1>4. n \in Nat
  BY <1>1
<1>5. \A i \in 1..Len(bytes) : 2 * i - 1 \in 1..n /\ 2 * i \in 1..n
  BY <1>1
<1>6. \A i \in 1..Len(bytes) :
         d(2 * i - 1) = bytes[i] \div 16 /\ d(2 * i) = bytes[i] % 16
  <2>1. TAKE i \in 1..Len(bytes)
  <2>2. (2 * i - 1) % 2 = 1 /\ (2 * i - 1 + 1) \div 2 = i
    OBVIOUS
  <2>3. (2 * i) % 2 = 0 /\ (2 * i) \div 2 = i
    OBVIOUS
  <2> QED BY <2>2, <2>3
<1> HIDE DEF n, d
<1>7. Digits(bytes) \in [1..n -> Digit]
  BY <1>2, <1>3
<1>8. Digits(bytes) \in Seq(Digit) /\ Len(Digits(bytes)) = n
  BY <1>4, <1>7
<1> QED BY <1>2, <1>5, <1>6, <1>8 DEF n

(* A text of an even number of digits is read as it stands, an odd one as  *)
(* if a 0 stood before it.                                                 *)
LEMMA EvenFacts ==
    ASSUME NEW S, 0 \in S, NEW d \in Seq(S)
    PROVE  /\ EvenDigits(d) \in Seq(S)
           /\ Len(d) % 2 = 0 => EvenDigits(d) = d
           /\ Len(d) % 2 = 1 =>
                 /\ Len(EvenDigits(d)) = Len(d) + 1 /\ EvenDigits(d)[1] = 0
                 /\ \A i \in 1..Len(d) : EvenDigits(d)[i + 1] = d[i]
           /\ Len(EvenDigits(d)) % 2 = 0
<1>1. Len(d) \in Nat
  OBVIOUS
<1>2. CASE Len(d) % 2 = 1
  <2>1. <<0>> \in Seq(S) /\ Len(<<0>>) = 1 /\ <<0>>[1] = 0
    OBVIOUS
  <2>2. /\ <<0>> \o d \in Seq(S)
        /\ Len(<<0>> \o d) = Len(<<0>>) + Len(d)
        /\ \A i \in 1..Len(<<0>>) : (<<0>> \o d)[i] = <<0>>[i]
        /\ \A i \in 1..Len(d) : (<<0>> \o d)[Len(<<0>>) + i] = d[i]
    BY <2>1, Joined
  <2>3. /\ Len(<<0>> \o d) = Len(d) + 1 /\ (<<0>> \o d)[1] = 0
        /\ \A i \in 1..Len(d) : (<<0>> \o d)[i + 1] = d[i]
    BY <1>1, <2>1, <2>2
  <2>4. (Len(d) + 1) % 2 = 0
    BY <1>1, <1>2
  <2> QED BY <1>2, <2>2, <2>3, <2>4 DEF EvenDigits
<1>3. CASE Len(d) % 2 # 1
  <2>1. Len(d) % 2 = 0
    BY <1>1, <1>3
  <2> QED BY <1>3, <2>1 DEF EvenDigits
<1> QED BY <1>2, <1>3

LEMMA BareFacts ==
    ASSUME NEW S, 0 \in S, Ex \in S, NEW d \in Seq(S), d # <<>>, NEW prefix \in BOOLEAN,
           Len(d) > 1 => d[2] # Ex
    PROVE  Bare((IF prefix THEN Prefix ELSE <<>>) \o d) = d
<1>1. Len(d) \in Nat /\ Len(d) >= 1
  BY EmptySeq
<1>2. CASE prefix
  <2>1. Prefix \in Seq(S) /\ Len(Prefix) = 2 /\ Prefix[1] = 0 /\ Prefix[2] = Ex
    BY DEF Prefix, Ex
  <2> DEFINE t == Prefix \o d
  <2>2. /\ t \in Seq(S)
        /\ Len(t) = Len(Prefix) + Len(d)
        /\ \A i \in 1..Len(Prefix) : t[i] = Prefix[i]
        /\ \A i \in 1..Len(d) : t[Len(Prefix) + i] = d[i]
    <3>1. Prefix \in Seq(S)
      BY <2>1
    <3>2. \A p \in Seq(S) : 
        /\ p \o d \in Seq(S)
        /\ Len(p \o d) = Len(p) + Len(d)
        /\ \A i \in 1..Len(p) : (p \o d)[i] = p[i]
        /\ \A i \in 1..Len(d) : (p \o d)[Len(p) + i] = d[i]
       BY Joined
    <3> QED BY <3>1, <3>2
  <2> HIDE DEF t
  <2>3. Len(t) > 2 /\ t[1] = 0 /\ t[2] = Ex
    BY <1>1, <2>1, <2>2
  <2>4. /\ SubSeq(t, 3, Len(t)) \in Seq(S)
        /\ Len(SubSeq(t, 3, Len(t))) = Len(t) - 3 + 1
        /\ \A i \in 1..Len(t) - 3 + 1 : SubSeq(t, 3, Len(t))[i] = t[3 + i - 1]
    BY <1>1, <2>1, <2>2, <2>3, Sliced
  <2>5. Len(SubSeq(t, 3, Len(t))) = Len(d)
    BY <1>1, <2>1, <2>2, <2>4
  <2>6. \A i \in 1..Len(d) : SubSeq(t, 3, Len(t))[i] = d[i]
    BY <1>1, <2>1, <2>2, <2>4
  <2>7. SubSeq(t, 3, Len(t)) = d
    BY <1>1, <2>4, <2>5, <2>6, SameSeq
  <2> QED BY <1>2, <2>3, <2>7 DEF t, Bare
<1>3. CASE ~prefix
  <2>1. <<>> \o d = d
    BY ConcatEmptySeq
  <2>2. ~(Len(d) > 2 /\ d[2] = Ex)
    BY <1>1
  <2> QED BY <1>3, <2>1, <2>2 DEF Bare
<1> QED BY <1>2, <1>3

LEMMA PackedFacts ==
    ASSUME NEW S, S \subseteq Nat, NEW d \in Seq(S), NEW read \in 0..Len(d),
           \A i \in 1..read : d[i] \in Digit
    PROVE  /\ Packed(d, read) \in Seq(Byte)
           /\ Len(Packed(d, read)) = read \div 2
           /\ \A i \in 1..read \div 2 :
                 Packed(d, read)[i] = 16 * d[2 * i - 1] + d[2 * i]
<1>1. Len(d) \in Nat
  OBVIOUS
<1> DEFINE n == read \div 2
           p(i) == 16 * d[2 * i - 1] + d[2 * i]
<1>2. n \in Nat /\ 2 * n <= read
  BY <1>1
<1>3. \A i \in 1..n : p(i) \in Byte
  <2>1. TAKE i \in 1..n
  <2>2. 2 * i - 1 \in 1..read /\ 2 * i \in 1..read
    BY <1>1, <1>2
  <2>3. d[2 * i - 1] \in Digit /\ d[2 * i] \in Digit
    BY <2>2
  <2>4. \A x, y \in Digit : 16 * x + y \in Byte
    BY DEF Digit, Byte
  <2> QED BY <2>3, <2>4
<1>4. Packed(d, read) = [i \in 1..n |-> p(i)]
  BY DEF Packed
<1> HIDE DEF n, p
<1>5. Packed(d, read) \in [1..n -> Byte]
  BY <1>3, <1>4
<1>6. Packed(d, read) \in Seq(Byte) /\ Len(Packed(d, read)) = n
  BY <1>2, <1>5
<1> QED BY <1>4, <1>6 DEF n, p

(* Two digits of a byte make the byte. *)
LEMMA PackedDigits ==
    ASSUME NEW b \in Seq(Byte)
    PROVE  Packed(Digits(b), 2 * Len(b)) = b
<1>1. Len(b) \in Nat /\ \A i \in 1..Len(b) : b[i] \in Byte
  BY ElementOfSeq
<1> DEFINE d == Digits(b)
<1>2. /\ d \in Seq(Digit) /\ Len(d) = 2 * Len(b)
      /\ \A i \in 1..Len(b) : d[2 * i - 1] = b[i] \div 16 /\ d[2 * i] = b[i] % 16
  BY DigitsFacts
<1> HIDE DEF d
<1>3. \A i \in 1..2 * Len(b) : d[i] \in Digit
  BY <1>2, ElementOfSeq
<1>4. Digit \subseteq Nat /\ 2 * Len(b) \in 0..Len(d) /\ (2 * Len(b)) \div 2 = Len(b)
  BY <1>1, <1>2 DEF Digit
<1>5. /\ Packed(d, 2 * Len(b)) \in Seq(Byte)
      /\ Len(Packed(d, 2 * Len(b))) = (2 * Len(b)) \div 2
      /\ \A i \in 1..(2 * Len(b)) \div 2 :
            Packed(d, 2 * Len(b))[i] = 16 * d[2 * i - 1] + d[2 * i]
  BY <1>2, <1>3, <1>4, PackedFacts
<1>6. \A x \in Byte : 16 * (x \div 16) + (x % 16) = x
  BY DEF Byte
<1>7. \A i \in 1..Len(b) : Packed(d, 2 * Len(b))[i] = b[i]
  <2>1. TAKE i \in 1..Len(b)
  <2>2. Packed(d, 2 * Len(b))[i] = 16 * (b[i] \div 16) + (b[i] % 16)
    BY <1>2, <1>4, <1>5
  <2> QED BY <1>1, <1>6, <2>2
<1>8. Packed(d, 2 * Len(b)) = b
  BY <1>1, <1>4, <1>5, <1>7, SameSeq
<1> QED BY <1>8 DEF d

(* A text whose digits make the bytes b, read into a buffer of "room" bytes. *)
LEMMA ReadsBytes ==
    ASSUME NEW b \in Seq(Byte), NEW d \in Seq(Digit), d # <<>>,
           Packed(EvenDigits(d), Len(EvenDigits(d))) = b,
           NEW room \in Nat \ {0}, NEW prefix \in BOOLEAN, NEW leftTrim \in BOOLEAN
    PROVE  UtilityHexToBin(room, (IF prefix THEN Prefix ELSE <<>>) \o d, leftTrim, FALSE) =
               IF Len(Kept(b, leftTrim)) >= room THEN SubSeq(Kept(b, leftTrim), 1, room)
               ELSE IF Kept(b, leftTrim) = <<>> THEN <<0>> ELSE Kept(b, leftTrim)
<1> DEFINE from == (IF prefix THEN Prefix ELSE <<>>) \o d
           digits == EvenDigits(d)
           kept == Kept(b, leftTrim)
<1>1. Bare(from) = d
  <2>1. d \in Seq(Char)
    <3>1. Digit \subseteq Char
      BY DEF Digit, Char
    <3> QED BY <3>1, SeqMonotonic
  <2>2. 0 \in Char /\ Ex \in Char
    BY DEF Ex, Char
  <2>3. ASSUME Len(d) > 1
        PROVE  d[2] # Ex
    <3>1. 2 \in 1..Len(d)
      BY <2>3
    <3>2. d[2] \in Digit
      BY <3>1, ElementOfSeq
    <3> QED BY <3>2, SMTT(30) DEF Digit, Ex
  <2> QED BY <2>1, <2>2, <2>3, BareFacts
<1>2. digits \in Seq(Digit)
  BY EvenFacts, Ranges
<1>3. Wrong(digits) = {}
  BY <1>2, ElementOfSeq, SMTT(30) DEF Wrong, IsDigit, Digit
<1>4. Len(kept) \in Nat
  BY TrimCase, Ranges DEF Kept
<1>5. digits = EvenDigits(Bare(from))
  BY <1>1
<1> HIDE DEF from, digits, kept
<1>6. kept = Kept(Packed(digits, Len(digits)), leftTrim)
  BY DEF kept, digits
<1> DEFINE read == IF Wrong(digits) = {} THEN Len(digits) ELSE Min(Wrong(digits)) - 1
<1>7. read = Len(digits)
  BY <1>3
<1>9. read = IF Wrong(digits) = {} THEN Len(digits) ELSE Min(Wrong(digits)) - 1
  OBVIOUS
<1> HIDE DEF read
<1>10. kept = Kept(Packed(digits, read), leftTrim)
  BY <1>6, <1>7
<1>8. UtilityHexToBin(room, from, leftTrim, FALSE) =
          IF Len(kept) >= room THEN SubSeq(kept, 1, room)
          ELSE IF Wrong(digits) # {} THEN <<>>
          ELSE IF kept = <<>> THEN <<0>> ELSE kept
  BY <1>4, <1>5, <1>9, <1>10, HexToBinSteps, Zenon
<1> QED BY <1>3, <1>8 DEF from, kept

(* A number without its leading zero digits has the digits of the number   *)
(* without its leading zero bytes, but for one zero that an odd text gets. *)
LEMMA QuantityDigits ==
    ASSUME NEW b \in Seq(Byte)
    PROVE  /\ TrimZeros(b) = <<>> <=> TrimZeros(Digits(b)) = <<>>
           /\ TrimZeros(b) # <<>> => EvenDigits(TrimZeros(Digits(b))) = Digits(TrimZeros(b))
<1> DEFINE n == Len(b)
           d == Digits(b)
           t == TrimZeros(b)
           q == TrimZeros(d)
<1>1. n \in Nat /\ \A i \in 1..n : b[i] \in Byte
  BY ElementOfSeq
<1>2. /\ d \in Seq(Digit) /\ Len(d) = 2 * n
      /\ \A i \in 1..n : d[2 * i - 1] = b[i] \div 16 /\ d[2 * i] = (b[i] % 16)
  BY DigitsFacts
<1>3. Byte \subseteq Nat /\ Digit \subseteq Nat /\ 0 \in Digit
  BY DEF Byte, Digit
<1>4. \A x \in Byte : 16 * (x \div 16) + (x % 16) = x /\ x \div 16 \in Nat /\ (x % 16) \in Nat
  BY DEF Byte
<1>5. /\ \A k \in 1..n : b[k] # 0 /\ (\A i \in 1..k - 1 : b[i] = 0) => t = SubSeq(b, k, n)
      /\ (\A i \in 1..n : b[i] = 0) => t = <<>>
      /\ t = <<>> => \A i \in 1..n : b[i] = 0
      /\ t \in Seq(Byte)
  BY <1>3, TrimCase
<1>6. /\ \A k \in 1..Len(d) : d[k] # 0 /\ (\A i \in 1..k - 1 : d[i] = 0)
                               => q = SubSeq(d, k, Len(d))
      /\ (\A i \in 1..Len(d) : d[i] = 0) => q = <<>>
      /\ q \in Seq(Digit)
  BY <1>2, <1>3, TrimCase
<1>7. \A i \in 1..2 * n : \E j \in 1..n : i = 2 * j - 1 \/ i = 2 * j
  <2>1. TAKE i \in 1..2 * n
  <2> WITNESS (i + 1) \div 2 \in 1..n
  <2> QED BY <1>1
<1>8. \A m \in 0..n : (\A i \in 1..m : b[i] = 0) => \A i \in 1..2 * m : d[i] = 0
  <2>1. SUFFICES ASSUME NEW m \in 0..n, \A i \in 1..m : b[i] = 0, NEW i \in 1..2 * m
                 PROVE  d[i] = 0
    OBVIOUS
  <2>2. i \in 1..2 * n
    BY <1>1
  <2>3. PICK j \in 1..n : i = 2 * j - 1 \/ i = 2 * j
    BY <1>7, <2>2
  <2>4. j \in 1..m
    BY <1>1, <2>3
  <2>5. b[j] = 0 /\ 0 \div 16 = 0 /\ (0 % 16) = 0
    BY <2>1, <2>4
  <2> QED BY <1>2, <2>3, <2>5
<1> HIDE DEF n, d, t, q
<1>9. CASE \A i \in 1..n : b[i] = 0
  <2>1. t = <<>>
    BY <1>5, <1>9
  <2>2. n \in 0..n
    BY <1>1
  <2>3. q = <<>>
    BY <1>1, <1>2, <1>6, <1>8, <1>9, <2>2
  <2> QED BY <2>1, <2>3 DEF t, q, d
<1>10. CASE ~ \A i \in 1..n : b[i] = 0
  <2>1. PICK k \in 1..n : b[k] # 0 /\ (\A i \in 1..k - 1 : b[i] = 0)
    BY <1>3, <1>5, <1>10, TrimFacts DEF t, n
  <2>2. t = SubSeq(b, k, n)
    BY <1>5, <2>1
  <2>3. k - 1 \in 0..n /\ \A i \in 1..2 * (k - 1) : d[i] = 0
    <3>1. k - 1 \in 0..n
      BY <1>1
    <3> QED BY <1>8, <2>1, <3>1
  <2>4. /\ t \in Seq(Byte) /\ Len(t) = n - k + 1
        /\ \A i \in 1..n - k + 1 : t[i] = b[k + i - 1]
    BY <1>1, <2>2, Sliced DEF n
  <2> DEFINE l == n - k + 1
  <2>5. l \in Nat \ {0} /\ Len(t) = l
    BY <1>1, <2>4
  <2> DEFINE w == Digits(t)
  <2>6. /\ w \in Seq(Digit) /\ Len(w) = 2 * l
        /\ \A i \in 1..l : w[2 * i - 1] = t[i] \div 16 /\ w[2 * i] = (t[i] % 16)
    BY <2>4, <2>5, DigitsFacts
  <2>7. \A i \in 1..2 * l : w[i] = d[2 * (k - 1) + i]
    <3>1. TAKE i \in 1..2 * l
    <3>2. PICK j \in 1..l : i = 2 * j - 1 \/ i = 2 * j
      <4> l \in Nat \ {0}
        BY <2>5
      <4> HIDE DEF l
      <4> WITNESS (i + 1) \div 2 \in 1..l
      <4> QED OBVIOUS
    <3>3. k + j - 1 \in 1..n /\ t[j] = b[k + j - 1]
      BY <1>1, <2>4
    <3>4. /\ d[2 * (k + j - 1) - 1] = w[2 * j - 1]
          /\ d[2 * (k + j - 1)] = w[2 * j]
      BY <1>2, <2>6, <3>3
    <3>5. 2 * (k + j - 1) - 1 = 2 * (k - 1) + (2 * j - 1) /\ 2 * (k + j - 1) = 2 * (k - 1) + 2 * j
      BY <1>1
    <3> QED BY <3>2, <3>4, <3>5
  <2> HIDE DEF l, w
  <2>8. d[2 * k - 1] = b[k] \div 16 /\ d[2 * k] = (b[k] % 16)
    BY <1>2
  <2>9. CASE b[k] \div 16 # 0
    <3> DEFINE j == 2 * k - 1
    <3>1. j \in 1..Len(d) /\ d[j] # 0
      BY <1>1, <1>2, <2>8, <2>9
    <3>2. \A i \in 1..j - 1 : d[i] = 0
      BY <1>1, <2>3
    <3>3. q = SubSeq(d, j, Len(d))
      BY <1>6, <3>1, <3>2
    <3> HIDE DEF j
    <3>4. j = 2 * (k - 1) + 1 /\ Len(d) - j + 1 = 2 * l /\ j \in 1..Len(d) /\ Len(d) \in Nat
      BY <1>1, <1>2, <2>5 DEF j, l
    <3>5. /\ q \in Seq(Digit) /\ Len(q) = Len(d) - j + 1
          /\ \A i \in 1..Len(d) - j + 1 : q[i] = d[j + i - 1]
      <4>1. 1 <= j /\ j <= Len(d) + 1 /\ j \in Int /\ Len(d) \in Int
        BY <3>4
      <4> QED BY <1>2, <3>3, <4>1, Sliced
    <3>6. Len(q) = 2 * l /\ \A i \in 1..2 * l : q[i] = w[i]
      <4>1. Len(q) = 2 * l
        BY <3>4, <3>5
      <4>2. ASSUME NEW i \in 1..2 * l
            PROVE  q[i] = w[i]
        <5>1. j + i - 1 = 2 * (k - 1) + i
          BY <1>1, <2>5, <3>4
        <5> QED BY <2>7, <3>4, <3>5, <5>1
      <4> QED BY <4>1, <4>2
    <3>7. q = w
      BY <2>5, <2>6, <3>5, <3>6, SameSeq
    <3>8. (2 * l) % 2 = 0 /\ 2 * l # 0
      BY <2>5
    <3>9. EvenDigits(q) = q
      BY <1>3, <3>5, <3>6, <3>8, EvenFacts
    <3>10. q # <<>> /\ t # <<>>
      BY <2>5, <3>6, <3>8
    <3> QED BY <3>7, <3>9, <3>10 DEF t, q, d, w
  <2>10. CASE b[k] \div 16 = 0
    <3> DEFINE j == 2 * k
    <3>1. b[k] % 16 # 0
      BY <1>1, <1>4, <2>1, <2>10
    <3>2. j \in 1..Len(d) /\ d[j] # 0
      BY <1>1, <1>2, <2>8, <3>1
    <3>3. d[2 * k - 1] = 0
      BY <2>8, <2>10
    <3>4. \A i \in 1..j - 1 : d[i] = 0
      <4>1. \A i \in 1..j - 1 : i \in 1..2 * (k - 1) \/ i = 2 * k - 1
        BY <1>1
      <4> QED BY <2>3, <3>3, <4>1
    <3>5. q = SubSeq(d, j, Len(d))
      BY <1>6, <3>2, <3>4
    <3> HIDE DEF j
    <3>6. j = 2 * (k - 1) + 2 /\ Len(d) - j + 1 = 2 * l - 1 /\ j \in 1..Len(d) /\ Len(d) \in Nat
      BY <1>1, <1>2, <2>5 DEF j, l
    <3>7. /\ q \in Seq(Digit) /\ Len(q) = Len(d) - j + 1
          /\ \A i \in 1..Len(d) - j + 1 : q[i] = d[j + i - 1]
      <4>1. 1 <= j /\ j <= Len(d) + 1 /\ j \in Int /\ Len(d) \in Int
        BY <3>6
      <4> QED BY <1>2, <3>5, <4>1, Sliced
    <3>8. Len(q) = 2 * l - 1 /\ (2 * l - 1) % 2 = 1
      BY <2>5, <3>6, <3>7
    <3>9. /\ EvenDigits(q) \in Seq(Digit)
          /\ Len(EvenDigits(q)) = Len(q) + 1 /\ EvenDigits(q)[1] = 0
          /\ \A i \in 1..Len(q) : EvenDigits(q)[i + 1] = q[i]
      BY <1>3, <3>7, <3>8, EvenFacts
    <3>10. Len(EvenDigits(q)) = 2 * l
      BY <2>5, <3>8, <3>9
    <3>11. ASSUME NEW i \in 1..2 * l
           PROVE  EvenDigits(q)[i] = w[i]
      <4>1. CASE i = 1
        <5>1. w[1] = d[2 * (k - 1) + 1] /\ 2 * (k - 1) + 1 = 2 * k - 1
          BY <1>1, <2>7, <4>1
        <5> QED BY <3>3, <3>9, <4>1, <5>1
      <4>2. CASE i # 1
        <5>1. i - 1 \in 1..Len(q) /\ i - 1 + 1 = i
          BY <2>5, <3>8, <4>2
        <5>2. EvenDigits(q)[i] = q[i - 1]
          BY <3>9, <5>1
        <5>3. q[i - 1] = d[j + (i - 1) - 1] /\ j + (i - 1) - 1 = 2 * (k - 1) + i
          BY <1>1, <2>5, <3>6, <3>7, <5>1
        <5> QED BY <2>7, <5>2, <5>3
      <4> QED BY <4>1, <4>2
    <3>12. EvenDigits(q) = w
      BY <2>5, <2>6, <3>9, <3>10, <3>11, SameSeq
    <3>13. q # <<>> /\ t # <<>>
      BY <2>5, <3>8
    <3> QED BY <3>12, <3>13 DEF t, q, d, w
  <2> QED BY <2>9, <2>10
<1> QED BY <1>9, <1>10

(* The digits of a text, and the bytes they make. *)
TextDigits(bytes, mode) ==
    IF HexDigits(bytes, mode) # <<>> THEN HexDigits(bytes, mode)
    ELSE IF mode = "quantity" THEN <<0>> ELSE <<0, 0>>
TextBytes(bytes, mode) ==
    LET kept == Kept(bytes, mode # "unfmtdata") IN IF kept = <<>> THEN <<0>> ELSE kept

LEMMA ZeroTexts ==
    /\ <<0>> \in Seq(Digit) /\ <<0, 0>> \in Seq(Digit)
    /\ EvenDigits(<<0>>) = <<0, 0>> /\ EvenDigits(<<0, 0>>) = <<0, 0>>
    /\ Packed(<<0, 0>>, 2) = <<0>>
    /\ <<0>> \in Seq(Byte) /\ TrimZeros(<<0>>) = <<>>
<1>1. <<0>> \in Seq(Digit) /\ <<0, 0>> \in Seq(Digit) /\ <<0>> \in Seq(Byte)
  BY DEF Digit, Byte
<1>2. Len(<<0>>) = 1 /\ Len(<<0, 0>>) = 2 /\ 1 % 2 = 1 /\ 2 % 2 = 0 /\ 2 \div 2 = 1
  OBVIOUS
<1>3. <<0>> \o <<0>> = <<0, 0>>
  <2>1. /\ <<0>> \o <<0>> \in Seq(Digit)
        /\ Len(<<0>> \o <<0>>) = Len(<<0>>) + Len(<<0>>)
        /\ \A i \in 1..Len(<<0>>) : (<<0>> \o <<0>>)[i] = <<0>>[i]
        /\ \A i \in 1..Len(<<0>>) : (<<0>> \o <<0>>)[Len(<<0>>) + i] = <<0>>[i]
    BY <1>1, Joined
  <2>2. /\ Len(<<0>> \o <<0>>) = 2
        /\ \A i \in 1..2 : (<<0>> \o <<0>>)[i] = <<0, 0>>[i]
    BY <1>2, <2>1
  <2> QED BY <1>1, <1>2, <2>1, <2>2, SameSeq
<1>4. EvenDigits(<<0>>) = <<0, 0>> /\ EvenDigits(<<0, 0>>) = <<0, 0>>
  BY <1>2, <1>3 DEF EvenDigits
<1>5. Packed(<<0, 0>>, 2) = <<0>>
  <2>1. Digit \subseteq Nat /\ 2 \in 0..Len(<<0, 0>>)
        /\ \A i \in 1..2 : <<0, 0>>[i] \in Digit
    BY DEF Digit
  <2>2. /\ Packed(<<0, 0>>, 2) \in Seq(Byte)
        /\ Len(Packed(<<0, 0>>, 2)) = 2 \div 2
        /\ \A i \in 1..2 \div 2 :
              Packed(<<0, 0>>, 2)[i] = 16 * <<0, 0>>[2 * i - 1] + <<0, 0>>[2 * i]
    BY <1>1, <2>1, PackedFacts
  <2>3. Packed(<<0, 0>>, 2)[1] = 0
    BY <1>2, <2>2
  <2>4. \A i \in 1..1 : Packed(<<0, 0>>, 2)[i] = <<0>>[i]
    BY <2>3
  <2> HIDE DEF Packed
  <2> QED BY <1>1, <1>2, <2>2, <2>4, SameSeq
<1>6. \A i \in 1..Len(<<0>>) : <<0>>[i] = 0
  OBVIOUS
<1>7. TrimZeros(<<0>>) = <<>>
  BY <1>1, <1>6, TrimCase, Ranges
<1> QED BY <1>1, <1>4, <1>5, <1>7

LEMMA TextFacts ==
    ASSUME NEW bytes \in Seq(Byte), bytes # <<>>, NEW mode \in TrimModes
    PROVE  /\ TextDigits(bytes, mode) \in Seq(Digit) /\ TextDigits(bytes, mode) # <<>>
           /\ TextBytes(bytes, mode) \in Seq(Byte)
           /\ Packed(EvenDigits(TextDigits(bytes, mode)),
                     Len(EvenDigits(TextDigits(bytes, mode)))) = TextBytes(bytes, mode)
           /\ Len(EvenDigits(TextDigits(bytes, mode))) <= 2 * Len(bytes)
           /\ \A prefix \in BOOLEAN :
                 UtilityBinToHex(bytes, mode, prefix, FALSE) =
                     (IF prefix THEN Prefix ELSE <<>>) \o TextDigits(bytes, mode)
<1> DEFINE d == TextDigits(bytes, mode)
           b == TextBytes(bytes, mode)
           kept == Kept(bytes, mode # "unfmtdata")
<1>1. Len(bytes) \in Nat \ {0}
  BY EmptySeq
<1>2. \A prefix \in BOOLEAN :
         UtilityBinToHex(bytes, mode, prefix, FALSE) = (IF prefix THEN Prefix ELSE <<>>) \o d
  BY DEF UtilityBinToHex, TextDigits
<1>3. TrimZeros(bytes) \in Seq(Byte) /\ Len(TrimZeros(bytes)) <= Len(bytes)
  BY TrimCase, Ranges
<1>4. kept \in Seq(Byte) /\ Len(kept) <= Len(bytes) /\ Len(kept) \in Nat
  BY <1>1, <1>3 DEF Kept
<1>5. Digits(kept) \in Seq(Digit) /\ Len(Digits(kept)) = 2 * Len(kept)
  BY <1>4, DigitsFacts
<1>6. CASE kept = <<>>
  <2>1. mode # "unfmtdata" /\ TrimZeros(bytes) = <<>>
    BY <1>6 DEF Kept
  <2>2. HexDigits(bytes, mode) = <<>>
    <3>1. CASE mode = "fmtdata"
      <4>1. Len(Digits(kept)) = 0
        BY <1>5, <1>6
      <4>2. Digits(kept) = <<>>
        BY <1>5, <4>1, EmptySeq
      <4> QED BY <1>6, <2>1, <3>1, <4>2 DEF HexDigits
    <3>2. CASE mode = "quantity"
      BY <2>1, <3>2, QuantityDigits DEF HexDigits
    <3> QED BY <2>1, <3>1, <3>2 DEF TrimModes
  <2>3. (d = <<0>> \/ d = <<0, 0>>) /\ b = <<0>>
    BY <1>6, <2>2 DEF TextDigits, TextBytes
  <2>4. d \in Seq(Digit) /\ d # <<>> /\ EvenDigits(d) = <<0, 0>> /\ b \in Seq(Byte)
    <3>1. <<0>> # <<>> /\ <<0, 0>> # <<>>
      OBVIOUS
    <3> HIDE DEF d, b
    <3> QED BY <2>3, <3>1, ZeroTexts
  <2>5. Len(<<0, 0>>) = 2 /\ 2 <= 2 * Len(bytes)
    BY <1>1
  <2> HIDE DEF d, b, kept
  <2>6. Packed(EvenDigits(d), Len(EvenDigits(d))) = b
    BY <2>3, <2>4, <2>5, ZeroTexts
  <2> QED BY <1>2, <2>4, <2>5, <2>6 DEF d, b
<1>7. CASE kept # <<>>
  <2>1. b = kept
    BY <1>7 DEF TextBytes
  <2>2. Len(kept) # 0
    BY <1>4, <1>7, EmptySeq
  <2>3. EvenDigits(Digits(kept)) = Digits(kept)
    <3>1. (2 * Len(kept)) % 2 = 0
      BY <1>4
    <3> QED BY <1>5, <3>1, EvenFacts, Ranges
  <2>4. /\ HexDigits(bytes, mode) \in Seq(Digit) /\ HexDigits(bytes, mode) # <<>>
        /\ EvenDigits(HexDigits(bytes, mode)) = Digits(kept)
    <3>1. CASE mode = "unfmtdata"
      <4>1. HexDigits(bytes, mode) = Digits(kept)
        BY <3>1 DEF HexDigits, Kept
      <4> QED BY <1>4, <1>5, <2>2, <2>3, <4>1, EmptySeq
    <3>2. CASE mode = "fmtdata"
      <4>1. HexDigits(bytes, mode) = Digits(kept)
        BY <3>2 DEF HexDigits, Kept
      <4> QED BY <1>4, <1>5, <2>2, <2>3, <4>1, EmptySeq
    <3>3. CASE mode = "quantity"
      <4>1. HexDigits(bytes, mode) = TrimZeros(Digits(bytes)) /\ kept = TrimZeros(bytes)
        BY <3>3 DEF HexDigits, Kept
      <4>2. Digits(bytes) \in Seq(Digit)
        BY DigitsFacts
      <4>3. TrimZeros(Digits(bytes)) \in Seq(Digit)
        BY <4>2, TrimCase, Ranges
      <4> QED BY <1>7, <4>1, <4>3, QuantityDigits
    <3> QED BY <3>1, <3>2, <3>3 DEF TrimModes
  <2>5. d = HexDigits(bytes, mode)
    BY <2>4 DEF TextDigits
  <2>6. Packed(Digits(kept), 2 * Len(kept)) = kept
    BY <1>4, PackedDigits
  <2> HIDE DEF d, b, kept
  <2>7. Packed(EvenDigits(d), Len(EvenDigits(d))) = b
    BY <1>5, <2>1, <2>4, <2>5, <2>6
  <2>8. Len(EvenDigits(d)) <= 2 * Len(bytes)
    BY <1>1, <1>4, <1>5, <2>4, <2>5
  <2> QED BY <1>2, <1>4, <2>1, <2>4, <2>5, <2>7, <2>8 DEF d, b
<1> QED BY <1>6, <1>7

(***************************************************************************)
(* The text of every sequence of bytes, in each of the three forms and     *)
(* with or without "0x", is read back as these bytes, without their leading *)
(* zeros where the form drops them (UtilityBinToHex, UtilityHexToBin).     *)
(***************************************************************************)
THEOREM HexReadsBack ==
    ASSUME NEW bytes \in Seq(Byte), bytes # <<>>, NEW mode \in TrimModes,
           NEW prefix \in BOOLEAN
    PROVE  UtilityHexToBin(Len(bytes), UtilityBinToHex(bytes, mode, prefix, FALSE),
                           mode # "unfmtdata", FALSE)
               = UtilityTrimBin(bytes, mode # "unfmtdata", FALSE)
<1> DEFINE d == TextDigits(bytes, mode)
           b == TextBytes(bytes, mode)
           leftTrim == mode # "unfmtdata"
           n == Len(bytes)
           kept == Kept(bytes, leftTrim)
<1>1. n \in Nat \ {0} /\ SubSeq(bytes, 1, n) = bytes
  BY EmptySeq, SubSeqFull
<1>2. /\ d \in Seq(Digit) /\ d # <<>> /\ b \in Seq(Byte)
      /\ Packed(EvenDigits(d), Len(EvenDigits(d))) = b
      /\ UtilityBinToHex(bytes, mode, prefix, FALSE) = (IF prefix THEN Prefix ELSE <<>>) \o d
  BY TextFacts
<1>3. leftTrim \in BOOLEAN
  OBVIOUS
<1>4. UtilityTrimBin(bytes, leftTrim, FALSE) = IF kept = <<>> THEN <<0>> ELSE kept
  BY DEF UtilityTrimBin, Kept
<1>5. kept \in Seq(Byte) /\ Len(kept) \in Nat /\ Len(kept) <= n
  <2>1. TrimZeros(bytes) \in Seq(Byte) /\ Len(TrimZeros(bytes)) <= n
    BY TrimCase, Ranges
  <2> QED BY <1>1, <2>1 DEF Kept
<1>6. b = IF kept = <<>> THEN <<0>> ELSE kept
  BY DEF TextBytes
<1>7. Kept(b, leftTrim) = kept
  <2>1. CASE kept = <<>>
    <3>1. leftTrim
      BY <2>1 DEF Kept
    <3> QED BY <1>6, <2>1, <3>1, ZeroTexts DEF Kept
  <2>2. CASE kept # <<>> /\ leftTrim
    <3>1. kept = TrimZeros(bytes) /\ kept[1] # 0
      BY <2>2, TrimCase, Ranges DEF Kept
    <3>2. TrimZeros(kept) = kept
      BY <1>5, <2>2, <3>1, TrimCase, Ranges
    <3> QED BY <1>6, <2>2, <3>2 DEF Kept
  <2>3. CASE kept # <<>> /\ ~leftTrim
    BY <1>6, <2>3 DEF Kept
  <2> QED BY <2>1, <2>2, <2>3
<1> HIDE DEF d, b, leftTrim, n, kept
<1>8. UtilityHexToBin(n, (IF prefix THEN Prefix ELSE <<>>) \o d, leftTrim, FALSE) =
          IF Len(kept) >= n THEN SubSeq(kept, 1, n)
          ELSE IF kept = <<>> THEN <<0>> ELSE kept
  BY <1>1, <1>2, <1>3, <1>7, ReadsBytes, ZenonT(60)
<1>9. Len(kept) >= n => SubSeq(kept, 1, n) = kept /\ kept # <<>>
  BY <1>1, <1>5, SubSeqFull, EmptySeq
<1>10. UtilityHexToBin(n, (IF prefix THEN Prefix ELSE <<>>) \o d, leftTrim, FALSE)
          = IF kept = <<>> THEN <<0>> ELSE kept
  BY <1>8, <1>9
<1> QED BY <1>2, <1>4, <1>10 DEF n, leftTrim

(***************************************************************************)
(* A text with a character that is no digit, wherever it stands behind the *)
(* "0x", is refused when the buffer has room for the whole text            *)
(* (UtilityHexToBin).                                                      *)
(***************************************************************************)
THEOREM HexRefusesWrong ==
    ASSUME NEW from, Bare(from) \in Seq(Char),
           Wrong(EvenDigits(Bare(from))) # {},
           NEW room \in Nat \ {0}, Len(EvenDigits(Bare(from))) <= 2 * room,
           NEW leftTrim \in BOOLEAN
    PROVE  UtilityHexToBin(room, from, leftTrim, FALSE) = <<>>
<1> DEFINE digits == EvenDigits(Bare(from))
           read == IF Wrong(digits) = {} THEN Len(digits) ELSE Min(Wrong(digits)) - 1
           packed == Packed(digits, read)
           kept == Kept(packed, leftTrim)
<1>1. Wrong(digits) # {} /\ digits \in Seq(Char) /\ Len(digits) <= 2 * room
      /\ Len(digits) % 2 = 0
  <2>1. 0 \in Char
    BY DEF Char
  <2> QED BY <2>1, EvenFacts
<1>2. Wrong(digits) \subseteq 1..Len(digits) /\ Len(digits) \in Nat
  BY <1>1 DEF Wrong
<1>3. \A i \in 1..Len(digits) : i \notin Wrong(digits) => digits[i] \in Digit
  BY SMTT(30) DEF Wrong, IsDigit, Digit
<1>4. digits = EvenDigits(Bare(from))
  OBVIOUS
<1>5. read = IF Wrong(digits) = {} THEN Len(digits) ELSE Min(Wrong(digits)) - 1
  OBVIOUS
<1>6. kept = Kept(Packed(digits, read), leftTrim) /\ packed = Packed(digits, read)
  OBVIOUS
<1> HIDE DEF digits, read, packed, kept
<1>7. Min(Wrong(digits)) \in Wrong(digits) /\ \A i \in Wrong(digits) : Min(Wrong(digits)) <= i
  <2>1. Wrong(digits) \subseteq Nat
    BY <1>2
  <2> QED BY <1>1, <2>1, LeastOf
<1>8. read \in 0..Len(digits) /\ read < Len(digits)
  BY <1>2, <1>1, <1>5, <1>7
<1>9. \A i \in 1..read : i \in 1..Len(digits) /\ i \notin Wrong(digits)
  BY <1>2, <1>1, <1>5, <1>7
<1>10. packed \in Seq(Byte) /\ Len(packed) = read \div 2
  <2>1. Char \subseteq Nat
    BY DEF Char
  <2>2. \A i \in 1..read : digits[i] \in Digit
    BY <1>3, <1>9
  <2> QED BY <1>1, <1>6, <1>8, <2>1, <2>2, PackedFacts
<1>11. Len(kept) \in Nat /\ Len(kept) <= read \div 2
  <2>1. TrimZeros(packed) \in Seq(Byte) /\ Len(TrimZeros(packed)) <= Len(packed)
    BY <1>10, TrimCase, Ranges
  <2>2. Len(TrimZeros(packed)) \in Nat /\ Len(packed) \in Nat
    BY <1>10, <2>1
  <2>3. kept = IF leftTrim THEN TrimZeros(packed) ELSE packed
    BY <1>6 DEF Kept
  <2> QED BY <1>10, <2>1, <2>2, <2>3
<1>12. read \div 2 < room
  BY <1>2, <1>1, <1>8
<1>13. UtilityHexToBin(room, from, leftTrim, FALSE) =
          IF Len(kept) >= room THEN SubSeq(kept, 1, room)
          ELSE IF Wrong(digits) # {} THEN <<>>
          ELSE IF kept = <<>> THEN <<0>> ELSE kept
  BY <1>4, <1>5, <1>6, <1>11, HexToBinSteps, ZenonT(60)
<1>14. ~(Len(kept) >= room)
  BY <1>8, <1>11, <1>12
<1> QED BY <1>1, <1>13, <1>14

-----------------------------------------------------------------------------
(* Base64.                                                                 *)

LEMMA SextetArithmetic ==
    ASSUME NEW x \in Byte, NEW y \in Byte, NEW z \in Byte
    PROVE  LET s0 == x \div 4
               s1 == 16 * (x % 4) + (y \div 16)
               s2 == 4 * (y % 16) + (z \div 64)
               s3 == z % 64
           IN  /\ s0 \in 0..63 /\ s1 \in 0..63 /\ s2 \in 0..63 /\ s3 \in 0..63
               /\ 4 * s0 + ((s1 \div 16) % 4) = x
               /\ 16 * (s1 % 16) + ((s2 \div 4) % 16) = y
               /\ 64 * (s2 % 4) + s3 = z
<1> DEFINE s0 == x \div 4
           s1 == 16 * (x % 4) + (y \div 16)
           s2 == 4 * (y % 16) + (z \div 64)
           s3 == z % 64
<1>1. x \in 0..255 /\ y \in 0..255 /\ z \in 0..255
  BY DEF Byte
<1>2. s0 \in 0..63 /\ s1 \in 0..63 /\ s2 \in 0..63 /\ s3 \in 0..63
  BY <1>1
<1>3. s1 \div 16 = x % 4 /\ s1 % 16 = y \div 16
  BY <1>1
<1>4. s2 \div 4 = y % 16 /\ s2 % 4 = z \div 64
  BY <1>1
<1>5. 4 * s0 + ((s1 \div 16) % 4) = x
  BY <1>1, <1>3
<1>6. 16 * (s1 % 16) + ((s2 \div 4) % 16) = y
  BY <1>1, <1>3, <1>4
<1>7. 64 * (s2 % 4) + s3 = z
  BY <1>1, <1>4
<1> QED BY <1>2, <1>5, <1>6, <1>7

(* The k-th sextet of a text, counted from 0, and the j-th byte it makes.  *)
SextetOf(in, k) ==
    LET g == 3 * (k \div 4)
    IN  CASE k % 4 = 0 -> ByteAt(in, g + 1) \div 4
          [] k % 4 = 1 -> 16 * (ByteAt(in, g + 1) % 4) + (ByteAt(in, g + 2) \div 16)
          [] k % 4 = 2 -> 4 * (ByteAt(in, g + 2) % 16) + (ByteAt(in, g + 3) \div 64)
          [] k % 4 = 3 -> ByteAt(in, g + 3) % 64
ByteOf(text, j) ==
    LET g == 4 * (j \div 3)
    IN  CASE j % 3 = 0 -> 4 * text[g + 1] + ((text[g + 1 + 1] \div 16) % 4)
          [] j % 3 = 1 -> 16 * (text[g + 1 + 1] % 16) + ((text[g + 2 + 1] \div 4) % 16)
          [] j % 3 = 2 -> 64 * (text[g + 2 + 1] % 4) + text[g + 3 + 1]
Ends(text) == {i \in DOMAIN text : text[i] = Pad}
UpTo(text) == IF Ends(text) = {} THEN Len(text) ELSE Min(Ends(text)) - 1

LEMMA EncodeSteps ==
    ASSUME NEW in
    PROVE  BoAT_base64_encode(in) =
               [k \in 1..4 * ((Len(in) + 2) \div 3) |->
                   IF k <= Sextets(Len(in)) THEN SextetOf(in, k - 1) ELSE Pad]
  BY DEF BoAT_base64_encode, SextetOf

LEMMA DecodeSteps ==
    ASSUME NEW in
    PROVE  BoAT_base64_decode(in) =
               IF Len(in) % 4 # 0 \/ \E i \in 1..UpTo(in) : in[i] \notin 0..63 THEN <<>>
               ELSE [j \in 1..(6 * UpTo(in)) \div 8 |-> ByteOf(in, j - 1)]
  BY DEF BoAT_base64_decode, UpTo, Ends, ByteOf

(* Sextets and bytes of a group of three. *)
LEMMA SextetCases ==
    ASSUME NEW in, NEW q \in Nat
    PROVE  /\ SextetOf(in, 4 * q) = ByteAt(in, 3 * q + 1) \div 4
           /\ SextetOf(in, 4 * q + 1) =
                 16 * (ByteAt(in, 3 * q + 1) % 4) + (ByteAt(in, 3 * q + 2) \div 16)
           /\ SextetOf(in, 4 * q + 2) =
                 4 * (ByteAt(in, 3 * q + 2) % 16) + (ByteAt(in, 3 * q + 3) \div 64)
           /\ SextetOf(in, 4 * q + 3) = ByteAt(in, 3 * q + 3) % 64
<1>1. /\ (4 * q) \div 4 = q /\ (4 * q) % 4 = 0
      /\ (4 * q + 1) \div 4 = q /\ (4 * q + 1) % 4 = 1
      /\ (4 * q + 2) \div 4 = q /\ (4 * q + 2) % 4 = 2
      /\ (4 * q + 3) \div 4 = q /\ (4 * q + 3) % 4 = 3
  OBVIOUS
<1> QED BY <1>1 DEF SextetOf

LEMMA ByteCases ==
    ASSUME NEW text, NEW q \in Nat
    PROVE  /\ ByteOf(text, 3 * q) = 4 * text[4 * q + 1] + ((text[4 * q + 2] \div 16) % 4)
           /\ ByteOf(text, 3 * q + 1) =
                 16 * (text[4 * q + 2] % 16) + ((text[4 * q + 3] \div 4) % 16)
           /\ ByteOf(text, 3 * q + 2) = 64 * (text[4 * q + 3] % 4) + text[4 * q + 4]
<1>1. /\ (3 * q) \div 3 = q /\ (3 * q) % 3 = 0
      /\ (3 * q + 1) \div 3 = q /\ (3 * q + 1) % 3 = 1
      /\ (3 * q + 2) \div 3 = q /\ (3 * q + 2) % 3 = 2
  OBVIOUS
<1>2. 4 * q + 1 + 1 = 4 * q + 2 /\ 4 * q + 2 + 1 = 4 * q + 3 /\ 4 * q + 3 + 1 = 4 * q + 4
  OBVIOUS
<1> QED BY <1>1, <1>2 DEF ByteOf

LEMMA SextetRange ==
    ASSUME NEW in \in Seq(Byte), NEW k \in Nat
    PROVE  SextetOf(in, k) \in 0..63
<1>1. PICK q \in Nat : k = 4 * q \/ k = 4 * q + 1 \/ k = 4 * q + 2 \/ k = 4 * q + 3
  <2> WITNESS k \div 4 \in Nat
  <2> QED OBVIOUS
<1>2. \A i : ByteAt(in, i) \in Byte
  BY ElementOfSeq, Ranges DEF ByteAt
<1> DEFINE x == ByteAt(in, 3 * q + 1)
           y == ByteAt(in, 3 * q + 2)
           z == ByteAt(in, 3 * q + 3)
<1>3. x \in Byte /\ y \in Byte /\ z \in Byte
  BY <1>2
<1>4. /\ SextetOf(in, 4 * q) = x \div 4
      /\ SextetOf(in, 4 * q + 1) = 16 * (x % 4) + (y \div 16)
      /\ SextetOf(in, 4 * q + 2) = 4 * (y % 16) + (z \div 64)
      /\ SextetOf(in, 4 * q + 3) = z % 64
  BY SextetCases
<1> HIDE DEF x, y, z
<1>5. /\ x \div 4 \in 0..63 /\ 16 * (x % 4) + (y \div 16) \in 0..63
      /\ 4 * (y % 16) + (z \div 64) \in 0..63 /\ z % 64 \in 0..63
  BY <1>3, SextetArithmetic
<1> QED BY <1>1, <1>4, <1>5

LEMMA Base64Text ==
    ASSUME NEW in \in Seq(Byte)
    PROVE  LET text == BoAT_base64_encode(in) n == Len(in)
           IN  /\ text \in Seq(Char) /\ Len(text) = 4 * ((n + 2) \div 3)
               /\ Len(text) % 4 = 0 /\ UpTo(text) = Sextets(n)
               /\ Sextets(n) \in 0..Len(text) /\ (6 * Sextets(n)) \div 8 = n
               /\ \A k \in 1..Sextets(n) : text[k] = SextetOf(in, k - 1) /\ text[k] \in 0..63
<1> DEFINE text == BoAT_base64_encode(in)
           n == Len(in)
           m == Sextets(n)
           l == 4 * ((n + 2) \div 3)
           c(k) == IF k <= m THEN SextetOf(in, k - 1) ELSE Pad
<1>1. n \in Nat
  OBVIOUS
<1>2. m \in Nat /\ l \in Nat /\ m <= l /\ l % 4 = 0 /\ (6 * m) \div 8 = n
  BY <1>1 DEF Sextets
<1>3. text = [k \in 1..l |-> c(k)]
  BY EncodeSteps
<1>4. \A k \in 1..m : c(k) = SextetOf(in, k - 1) /\ c(k) \in 0..63
  <2>1. TAKE k \in 1..m
  <2>2. k - 1 \in Nat /\ k <= m
    BY <1>2
  <2> HIDE DEF m
  <2> QED BY <2>2, SextetRange
<1>5. \A k \in m + 1..l : c(k) = Pad
  BY <1>2
<1>6. \A k \in 1..l : k \in 1..m \/ k \in m + 1..l
  BY <1>2
<1> HIDE DEF text, n, m, l, c
<1>7. \A k \in 1..l : c(k) \in Char
  <2>1. Pad \in Char /\ 0..63 \subseteq Char
    BY DEF Char, Pad
  <2> QED BY <1>4, <1>5, <1>6, <2>1
<1>8. text \in [1..l -> Char]
  BY <1>3, <1>7
<1>9. text \in Seq(Char) /\ Len(text) = l /\ DOMAIN text = 1..l
  BY <1>2, <1>8
<1>10. \A k \in 1..m : text[k] = SextetOf(in, k - 1) /\ text[k] \in 0..63
  BY <1>2, <1>3, <1>4
<1>11. Ends(text) = m + 1..l
  <2>1. \A k \in 1..m : k \notin m + 1..l /\ c(k) # Pad
    <3>1. m \in Nat /\ l \in Nat
      BY <1>2
    <3>2. Pad \notin 0..63
      BY DEF Pad
    <3>3. \A k \in 1..m : k \notin m + 1..l
      BY <3>1
    <3> QED BY <1>4, <3>2, <3>3
  <2>2. \A k \in 1..l : text[k] = Pad <=> k \in m + 1..l
    <3>1. TAKE k \in 1..l
    <3>2. text[k] = c(k)
      BY <1>3
    <3>3. k \in m + 1..l => c(k) = Pad
      BY <1>5
    <3>4. k \notin m + 1..l => c(k) # Pad
      BY <1>6, <2>1
    <3> QED BY <3>2, <3>3, <3>4
  <2> QED BY <1>2, <1>9, <2>2 DEF Ends
<1>12. UpTo(text) = m
  <2>1. CASE m = l
    <3>1. Ends(text) = {}
      BY <1>2, <1>11, <2>1
    <3> QED BY <1>9, <2>1, <3>1 DEF UpTo
  <2>2. CASE m # l
    <3>1. m + 1 \in Ends(text) /\ Ends(text) \subseteq Nat /\ \A k \in Ends(text) : m + 1 <= k
      BY <1>2, <1>11, <2>2
    <3>2. Min(Ends(text)) \in Ends(text) /\ \A k \in Ends(text) : Min(Ends(text)) <= k
      BY <3>1, LeastOf
    <3>3. Min(Ends(text)) = m + 1
      BY <1>2, <3>1, <3>2
    <3> QED BY <1>2, <3>1, <3>3 DEF UpTo
  <2> QED BY <2>1, <2>2
<1> QED BY <1>2, <1>9, <1>10, <1>12 DEF text, n, m, l

(***************************************************************************)
(* A base64 text gives back the bytes it was made of                       *)
(* (BoAT_base64_encode, BoAT_base64_decode).                               *)
(***************************************************************************)
THEOREM Base64ReadsBack ==
    ASSUME NEW in \in Seq(Byte)
    PROVE  BoAT_base64_decode(BoAT_base64_encode(in)) = in
<1> DEFINE text == BoAT_base64_encode(in)
           n == Len(in)
           m == Sextets(n)
<1>1. n \in Nat /\ m = (8 * n + 5) \div 6
  BY DEF Sextets
<1>2. /\ Len(text) % 4 = 0 /\ UpTo(text) = m /\ (6 * m) \div 8 = n
      /\ \A k \in 1..m : text[k] = SextetOf(in, k - 1) /\ text[k] \in 0..63
  BY Base64Text
<1>3. BoAT_base64_decode(text) =
          IF Len(text) % 4 # 0 \/ \E i \in 1..UpTo(text) : text[i] \notin 0..63 THEN <<>>
          ELSE [j \in 1..(6 * UpTo(text)) \div 8 |-> ByteOf(text, j - 1)]
  BY DecodeSteps
<1>4. \A i \in 1..n : in[i] \in Byte /\ ByteAt(in, i) = in[i]
  BY ElementOfSeq DEF ByteAt
<1>5. \A i : ByteAt(in, i) \in Byte
  BY ElementOfSeq, Ranges DEF ByteAt
<1> HIDE DEF text, n, m
<1>6. BoAT_base64_decode(text) = [j \in 1..n |-> ByteOf(text, j - 1)]
  BY <1>2, <1>3
<1>7. ASSUME NEW j \in 1..n
      PROVE  ByteOf(text, j - 1) = in[j]
  <2>1. PICK q \in Nat : j = 3 * q + 1 \/ j = 3 * q + 2 \/ j = 3 * q + 3
    <3> WITNESS (j - 1) \div 3 \in Nat
    <3> QED BY <1>1
  <2> DEFINE x == ByteAt(in, 3 * q + 1)
             y == ByteAt(in, 3 * q + 2)
             z == ByteAt(in, 3 * q + 3)
  <2>2. x \in Byte /\ y \in Byte /\ z \in Byte
    BY <1>5
  <2>3. /\ SextetOf(in, 4 * q) = x \div 4
        /\ SextetOf(in, 4 * q + 1) = 16 * (x % 4) + (y \div 16)
        /\ SextetOf(in, 4 * q + 2) = 4 * (y % 16) + (z \div 64)
        /\ SextetOf(in, 4 * q + 3) = z % 64
    BY SextetCases
  <2>4. /\ 4 * (x \div 4) + (((16 * (x % 4) + (y \div 16)) \div 16) % 4) = x
        /\ 16 * ((16 * (x % 4) + (y \div 16)) % 16)
              + (((4 * (y % 16) + (z \div 64)) \div 4) % 16) = y
        /\ 64 * ((4 * (y % 16) + (z \div 64)) % 4) + (z % 64) = z
    BY <2>2, SextetArithmetic
  <2>5. /\ ByteOf(text, 3 * q) = 4 * text[4 * q + 1] + ((text[4 * q + 2] \div 16) % 4)
        /\ ByteOf(text, 3 * q + 1) =
              16 * (text[4 * q + 2] % 16) + ((text[4 * q + 3] \div 4) % 16)
        /\ ByteOf(text, 3 * q + 2) = 64 * (text[4 * q + 3] % 4) + text[4 * q + 4]
    BY ByteCases
  <2>6. /\ 4 * q + 1 - 1 = 4 * q /\ 4 * q + 2 - 1 = 4 * q + 1
        /\ 4 * q + 3 - 1 = 4 * q + 2 /\ 4 * q + 4 - 1 = 4 * q + 3
    OBVIOUS
  <2> HIDE DEF x, y, z
  <2>7. CASE j = 3 * q + 1
    <3>1. 4 * q + 1 \in 1..m /\ 4 * q + 2 \in 1..m
      BY <1>1, <2>7
    <3>2. text[4 * q + 1] = x \div 4 /\ text[4 * q + 2] = 16 * (x % 4) + (y \div 16)
      BY <1>2, <2>3, <2>6, <3>1
    <3>3. ByteOf(text, 3 * q) = x
      BY <2>4, <2>5, <3>2
    <3>4. j - 1 = 3 * q /\ in[j] = x
      BY <1>4, <2>7 DEF x
    <3> QED BY <3>3, <3>4
  <2>8. CASE j = 3 * q + 2
    <3>1. 4 * q + 2 \in 1..m /\ 4 * q + 3 \in 1..m
      BY <1>1, <2>8
    <3>2. /\ text[4 * q + 2] = 16 * (x % 4) + (y \div 16)
          /\ text[4 * q + 3] = 4 * (y % 16) + (z \div 64)
      BY <1>2, <2>3, <2>6, <3>1
    <3>3. ByteOf(text, 3 * q + 1) = y
      BY <2>4, <2>5, <3>2
    <3>4. j - 1 = 3 * q + 1 /\ in[j] = y
      BY <1>4, <2>8 DEF y
    <3> QED BY <3>3, <3>4
  <2>9. CASE j = 3 * q + 3
    <3>1. 4 * q + 3 \in 1..m /\ 4 * q + 4 \in 1..m
      BY <1>1, <2>9
    <3>2. text[4 * q + 3] = 4 * (y % 16) + (z \div 64) /\ text[4 * q + 4] = z % 64
      BY <1>2, <2>3, <2>6, <3>1
    <3>3. ByteOf(text, 3 * q + 2) = z
      BY <2>4, <2>5, <3>2
    <3>4. j - 1 = 3 * q + 2 /\ in[j] = z
      BY <1>4, <2>9 DEF z
    <3> QED BY <3>3, <3>4
  <2> QED BY <2>1, <2>7, <2>8, <2>9
<1>8. in = [j \in 1..n |-> in[j]]
  BY DEF n
<1> QED BY <1>6, <1>7, <1>8 DEF text

(***************************************************************************)
(* A base64 text with a character outside the alphabet before its padding  *)
(* is refused (BoAT_base64_decode).                                        *)
(***************************************************************************)
THEOREM Base64RefusesWrong ==
    ASSUME NEW in, NEW i \in 1..UpTo(in), in[i] \notin 0..63
    PROVE  BoAT_base64_decode(in) = <<>>
  BY DecodeSteps

-----------------------------------------------------------------------------
(* Tags, lengths and values.                                               *)

Word16 == {n \in Nat : n < 65536}

LEMMA LengthFacts ==
    ASSUME NEW n \in Word16
    PROVE  LET bytes == LengthBytes(n) ll == UtilityGetTLV_LL_from_len(n)
           IN  /\ bytes \in Seq(Byte) /\ Len(bytes) = ll /\ ll \in 1..3
               /\ ll = 1 => bytes[1] = n /\ n < 128
               /\ ll = 2 => bytes[1] = 129 /\ bytes[2] = n
               /\ ll = 3 => bytes[1] = 130 /\ 256 * bytes[2] + bytes[3] = n
<1> DEFINE bytes == LengthBytes(n)
           ll == UtilityGetTLV_LL_from_len(n)
<1>1. n \in Nat /\ n < 65536
  BY DEF Word16
<1>2. CASE n < 128
  <2>1. ll = 1
    BY <1>2 DEF UtilityGetTLV_LL_from_len
  <2>2. bytes = <<n>>
    BY <2>1 DEF LengthBytes
  <2>3. n \in Byte
    <3>1. n \in 0..255
      BY <1>1, <1>2
    <3> QED BY <3>1 DEF Byte
  <2> HIDE DEF bytes, ll
  <2> QED BY <1>2, <2>1, <2>2, <2>3 DEF bytes, ll
<1>3. CASE n >= 128 /\ n < 256
  <2>1. n \div 128 = 1 /\ ~(n < 128)
    BY <1>1, <1>3
  <2>2. ll = 2
    BY <2>1 DEF UtilityGetTLV_LL_from_len
  <2>3. bytes = <<129, n>>
    BY <2>2 DEF LengthBytes
  <2>4. n \in Byte /\ 129 \in Byte
    BY <1>1, <1>3 DEF Byte
  <2> HIDE DEF bytes, ll
  <2> QED BY <2>2, <2>3, <2>4 DEF bytes, ll
<1>4. CASE n >= 256
  <2>1. n \div 128 # 1 /\ ~(n < 128)
    BY <1>1, <1>4
  <2>2. ll = 3
    BY <2>1 DEF UtilityGetTLV_LL_from_len
  <2> DEFINE high == (n \div 256) % 256
             low == n % 256
  <2>3. bytes = <<130, high, low>>
    BY <2>2 DEF LengthBytes
  <2>4. high \in 0..255 /\ low \in 0..255 /\ 130 \in 0..255
    BY <1>1
  <2>5. 256 * high + low = n
    BY <1>1
  <2>6. high \in Byte /\ low \in Byte /\ 130 \in Byte
    BY <2>4 DEF Byte
  <2> HIDE DEF bytes, ll, high, low
  <2> QED BY <2>2, <2>3, <2>5, <2>6 DEF bytes, ll
<1> QED BY <1>1, <1>2, <1>3, <1>4

LEMMA LengthForms ==
    ASSUME NEW s, ByteAt(s, 2) \in Byte
    PROVE  /\ ByteAt(s, 2) < 128 =>
                  UtilityGetTLV_LL(s) = 1 /\ UtilityGetTLV_L(s) = ByteAt(s, 2)
           /\ ByteAt(s, 2) = 129 =>
                  UtilityGetTLV_LL(s) = 2 /\ UtilityGetTLV_L(s) = ByteAt(s, 3)
           /\ ByteAt(s, 2) = 130 =>
                  /\ UtilityGetTLV_LL(s) = 3
                  /\ UtilityGetTLV_L(s) = 256 * ByteAt(s, 3) + ByteAt(s, 4)
<1> DEFINE b == ByteAt(s, 2)
           Rest == 128 .. 255 \ {129, 130}
<1>1. b \in Nat
  BY Ranges
<1>2. /\ UtilityGetTLV_LL(s) = CASE b < 128 -> 1
                                 [] b = 129 -> 2
                                 [] b = 130 -> 3
                                 [] b \in Rest -> -1
      /\ UtilityGetTLV_L(s) = CASE b < 128 -> b
                                [] b = 129 -> ByteAt(s, 3)
                                [] b = 130 -> 256 * ByteAt(s, 3) + ByteAt(s, 4)
                                [] b \in Rest -> -1
  BY DEF UtilityGetTLV_LL, UtilityGetTLV_L, UtilityGetLVData_L
<1>3. \A x \in Nat : x < 128 \/ x = 129 \/ x = 130 => x \notin Rest
  OBVIOUS
<1> HIDE DEF b, Rest
<1>4. ASSUME b < 128
      PROVE  UtilityGetTLV_LL(s) = 1 /\ UtilityGetTLV_L(s) = b
  <2>1. b # 129 /\ b # 130 /\ b \notin Rest
    BY <1>1, <1>3, <1>4
  <2> QED BY <1>2, <1>4, <2>1
<1>5. ASSUME b = 129
      PROVE  UtilityGetTLV_LL(s) = 2 /\ UtilityGetTLV_L(s) = ByteAt(s, 3)
  <2>1. ~(b < 128) /\ b # 130 /\ b \notin Rest
    BY <1>1, <1>3, <1>5
  <2> QED BY <1>2, <1>5, <2>1
<1>6. ASSUME b = 130
      PROVE  UtilityGetTLV_LL(s) = 3 /\ UtilityGetTLV_L(s) = 256 * ByteAt(s, 3) + ByteAt(s, 4)
  <2>1. ~(b < 128) /\ b # 129 /\ b \notin Rest
    BY <1>1, <1>3, <1>6
  <2> QED BY <1>2, <1>6, <2>1
<1> QED BY <1>4, <1>5, <1>6 DEF b

(* The length bytes at position 2 of s, or those of them that s still has. *)
LEMMA LengthRead ==
    ASSUME NEW n \in Word16, NEW s \in Seq(Byte),
           \A i \in 1..UtilityGetTLV_LL_from_len(n) :
               1 + i <= Len(s) => s[1 + i] = LengthBytes(n)[i]
    PROVE  LET ll == UtilityGetTLV_LL_from_len(n)
           IN  /\ Len(s) >= 1 + ll => UtilityGetTLV_LL(s) = ll /\ UtilityGetTLV_L(s) = n
               /\ Len(s) < 1 + ll => ~UtilityGetTLV(s).ok
<1> DEFINE bytes == LengthBytes(n)
           ll == UtilityGetTLV_LL_from_len(n)
<1>1. Len(s) \in Nat /\ DOMAIN s = 1..Len(s)
  OBVIOUS
<1>2. \A i : ByteAt(s, i) \in Byte
  BY ElementOfSeq, Ranges DEF ByteAt
<1>3. /\ bytes \in Seq(Byte) /\ Len(bytes) = ll /\ ll \in 1..3
      /\ ll = 1 => bytes[1] = n /\ n < 128
      /\ ll = 2 => bytes[1] = 129 /\ bytes[2] = n
      /\ ll = 3 => bytes[1] = 130 /\ 256 * bytes[2] + bytes[3] = n
  BY LengthFacts
<1>4. \A i \in 1..ll : 1 + i <= Len(s) => s[1 + i] = bytes[i]
  OBVIOUS
<1> HIDE DEF bytes, ll
<1>5. \A i \in 1..ll : 1 + i <= Len(s) => ByteAt(s, 1 + i) = bytes[i]
  BY <1>1, <1>3, <1>4 DEF ByteAt
<1>6. n \in Nat
  BY DEF Word16
<1>7. ASSUME Len(s) >= 1 + ll
      PROVE  UtilityGetTLV_LL(s) = ll /\ UtilityGetTLV_L(s) = n
  <2>1. \A i \in 1..ll : ByteAt(s, 1 + i) = bytes[i]
    BY <1>1, <1>3, <1>5, <1>7
  <2>2. CASE ll = 1
    <3>1. ByteAt(s, 2) = n /\ n < 128
      BY <1>3, <2>1, <2>2
    <3> QED BY <2>2, <1>2, <3>1, LengthForms
  <2>3. CASE ll = 2
    <3>1. ByteAt(s, 2) = 129 /\ ByteAt(s, 3) = n
      BY <1>3, <2>1, <2>3
    <3> QED BY <2>3, <1>2, <3>1, LengthForms
  <2>4. CASE ll = 3
    <3>1. ByteAt(s, 2) = 130 /\ 256 * ByteAt(s, 3) + ByteAt(s, 4) = n
      BY <1>3, <2>1, <2>4
    <3> QED BY <2>4, <1>2, <3>1, LengthForms
  <2> QED BY <1>3, <2>2, <2>3, <2>4
<1>8. ASSUME Len(s) < 1 + ll
      PROVE  ~UtilityGetTLV(s).ok
  <2>1. \E k \in 1..3 : /\ UtilityGetTLV_LL(s) = k /\ UtilityGetTLV_L(s) \in Nat
                        /\ Len(s) < 1 + k
    <3>1. CASE Len(s) < 2
      <4>1. ByteAt(s, 2) = 0
        BY <1>1, <3>1 DEF ByteAt
      <4>2. UtilityGetTLV_LL(s) = 1 /\ UtilityGetTLV_L(s) = 0
        BY <1>2, <4>1, LengthForms
      <4> QED BY <3>1, <4>2
    <3>2. CASE Len(s) >= 2
      <4>1. ll = 2 \/ ll = 3
        BY <1>1, <1>3, <1>8, <3>2
      <4>2. 1 \in 1..ll /\ 1 + 1 <= Len(s)
        BY <1>3, <3>2
      <4>3. ByteAt(s, 2) = bytes[1]
        BY <1>5, <4>2
      <4>4. ByteAt(s, 3) \in Nat /\ ByteAt(s, 4) \in Nat
        BY <1>2, Ranges
      <4>5. CASE ll = 2
        <5>1. ByteAt(s, 2) = 129
          BY <1>3, <4>3, <4>5
        <5>2. UtilityGetTLV_LL(s) = 2 /\ UtilityGetTLV_L(s) = ByteAt(s, 3)
          BY <1>2, <5>1, LengthForms
        <5> QED BY <1>8, <4>4, <4>5, <5>2
      <4>6. CASE ll = 3
        <5>1. ByteAt(s, 2) = 130
          BY <1>3, <4>3, <4>6
        <5>2. UtilityGetTLV_LL(s) = 3 /\ UtilityGetTLV_L(s) = 256 * ByteAt(s, 3) + ByteAt(s, 4)
          BY <1>2, <5>1, LengthForms
        <5>3. 256 * ByteAt(s, 3) + ByteAt(s, 4) \in Nat
          BY <4>4
        <5> QED BY <1>8, <4>6, <5>2, <5>3
      <4> QED BY <4>1, <4>5, <4>6
    <3> QED BY <1>1, <3>1, <3>2
  <2>2. PICK k \in 1..3 : /\ UtilityGetTLV_LL(s) = k /\ UtilityGetTLV_L(s) \in Nat
                          /\ Len(s) < 1 + k
    BY <2>1
  <2>3. UtilityGetTLV_L(s) + UtilityGetTLV_LL(s) + 1 > Len(s)
    BY <1>1, <2>2
  <2>4. UtilityGetTLV(s) = NoTLV
    BY <2>3 DEF UtilityGetTLV
  <2> QED BY <2>4 DEF NoTLV
<1> QED BY <1>7, <1>8 DEF ll

(* The bytes of an item: its tag, the length bytes and the whole value. *)
ItemOf(tag, whole) == <<tag>> \o LengthBytes(Len(whole)) \o whole

LEMMA ItemFacts ==
    ASSUME NEW tag \in Byte, NEW whole \in Seq(Byte), Len(whole) \in Word16
    PROVE  LET ll == UtilityGetTLV_LL_from_len(Len(whole)) item == ItemOf(tag, whole)
           IN  /\ item \in Seq(Byte) /\ Len(item) = 1 + ll + Len(whole) /\ ll \in 1..3
               /\ item[1] = tag
               /\ \A i \in 1..ll : item[1 + i] = LengthBytes(Len(whole))[i]
               /\ \A i \in 1..Len(whole) : item[1 + ll + i] = whole[i]
<1> DEFINE n == Len(whole)
           bytes == LengthBytes(n)
           ll == UtilityGetTLV_LL_from_len(n)
           top == <<tag>> \o bytes
           item == top \o whole
<1>1. bytes \in Seq(Byte) /\ Len(bytes) = ll /\ ll \in 1..3
  BY LengthFacts
<1>2. n \in Nat
  OBVIOUS
<1> DEFINE first == <<tag>>
<1>3. first \in Seq(Byte) /\ Len(first) = 1 /\ first[1] = tag
  OBVIOUS
<1>4. top = first \o bytes
  OBVIOUS
<1> HIDE DEF first, bytes
<1>5. /\ top \in Seq(Byte) /\ Len(top) = Len(first) + Len(bytes)
      /\ \A i \in 1..Len(first) : top[i] = first[i]
      /\ \A i \in 1..Len(bytes) : top[Len(first) + i] = bytes[i]
  BY <1>1, <1>3, <1>4, Joined
<1> HIDE DEF top
<1>6. /\ item \in Seq(Byte) /\ Len(item) = Len(top) + Len(whole)
      /\ \A i \in 1..Len(top) : item[i] = top[i]
      /\ \A i \in 1..Len(whole) : item[Len(top) + i] = whole[i]
  <2>1. top \in Seq(Byte)
    BY <1>5
  <2> QED BY <2>1, Joined
<1>7. ItemOf(tag, whole) = item
  BY DEF ItemOf, top, bytes, n
<1> HIDE DEF item, ll, n
<1>8. Len(top) = 1 + ll
  BY <1>1, <1>3, <1>5
<1>9. Len(item) = 1 + ll + n
  BY <1>6, <1>8 DEF n
<1>10. item[1] = tag
  <2>1. 1 \in 1..Len(top) /\ 1 \in 1..Len(first)
    BY <1>1, <1>3, <1>8
  <2> QED BY <1>3, <1>5, <1>6, <2>1
<1>11. \A i \in 1..ll : item[1 + i] = bytes[i]
  <2>1. TAKE i \in 1..ll
  <2>2. 1 + i \in 1..Len(top) /\ i \in 1..Len(bytes)
    BY <1>1, <1>8
  <2> QED BY <1>3, <1>5, <1>6, <2>2
<1>12. \A i \in 1..n : item[1 + ll + i] = whole[i]
  BY <1>6, <1>8 DEF n
<1> QED BY <1>1, <1>6, <1>7, <1>9, <1>10, <1>11, <1>12 DEF n, ll, bytes

LEMMA ItemIsAdded ==
    ASSUME NEW tag, NEW value, value # <<>>, tag # BitString
    PROVE  add_TL_withOffset(tag, value) = ItemOf(tag, value)
  BY DEF add_TL_withOffset, ItemOf

LEMMA BitItemIsAdded ==
    ASSUME NEW value \in Seq(Byte)
    PROVE  /\ add_TL_withOffset(BitString, value) = ItemOf(BitString, <<0>> \o value)
           /\ <<0>> \o value \in Seq(Byte) /\ Len(<<0>> \o value) = Len(value) + 1
<1> DEFINE first == <<0>>
           whole == first \o value
<1>1. first \in Seq(Byte) /\ Len(first) = 1 /\ Len(value) \in Nat
  BY Ranges
<1>2. whole = <<0>> \o value
  OBVIOUS
<1> HIDE DEF first
<1>3. whole \in Seq(Byte) /\ Len(whole) = Len(first) + Len(value)
  BY <1>1, Joined
<1> HIDE DEF whole
<1>4. whole \in Seq(Byte) /\ Len(whole) = Len(value) + 1 /\ whole # <<>>
  BY <1>1, <1>3, EmptySeq
<1>5. add_TL_withOffset(BitString, value) = ItemOf(BitString, whole)
  BY <1>2, <1>4 DEF add_TL_withOffset, ItemOf
<1> QED BY <1>2, <1>4, <1>5

(* An item is read whatever follows it, and no shorter piece of it is taken *)
(* for an item.                                                            *)
LEMMA ItemRead ==
    ASSUME NEW tag \in Byte, NEW whole \in Seq(Byte), Len(whole) \in Word16,
           NEW rest \in Seq(Byte)
    PROVE  UtilityGetTLV(ItemOf(tag, whole) \o rest) =
               [ok |-> TRUE, tag |-> tag, whole |-> Len(ItemOf(tag, whole)), data |-> whole]
<1> DEFINE n == Len(whole)
           ll == UtilityGetTLV_LL_from_len(n)
           item == ItemOf(tag, whole)
           s == item \o rest
<1>1. /\ item \in Seq(Byte) /\ Len(item) = 1 + ll + n /\ ll \in 1..3 /\ n \in Nat
      /\ item[1] = tag
      /\ \A i \in 1..ll : item[1 + i] = LengthBytes(n)[i]
      /\ \A i \in 1..n : item[1 + ll + i] = whole[i]
  BY ItemFacts
<1> HIDE DEF item
<1>2. /\ s \in Seq(Byte) /\ Len(s) = Len(item) + Len(rest) /\ Len(rest) \in Nat
      /\ \A i \in 1..Len(item) : s[i] = item[i]
  <2>1. item \in Seq(Byte)
    BY <1>1
  <2> QED BY <2>1, Joined
<1> HIDE DEF s, ll, n
<1>3. Len(s) >= 1 + ll
  BY <1>1, <1>2
<1>4. \A i \in 1..ll : s[1 + i] = LengthBytes(n)[i]
  <2>1. \A i \in 1..ll : 1 + i \in 1..Len(item)
    BY <1>1
  <2> QED BY <1>1, <1>2, <2>1
<1>5. UtilityGetTLV_LL(s) = ll /\ UtilityGetTLV_L(s) = n
  <2>1. \A i \in 1..ll : 1 + i <= Len(s) => s[1 + i] = LengthBytes(n)[i]
    BY <1>4
  <2> QED BY <1>2, <1>3, <2>1, LengthRead DEF n, ll
<1>6. ~(ll < 0) /\ ~(n + ll + 1 > Len(s))
  BY <1>1, <1>2
<1>7. UtilityGetTLV(s) = [ok |-> TRUE, tag |-> s[1], whole |-> 1 + ll + n,
                          data |-> SubSeq(s, 2 + ll, 1 + ll + n)]
  BY <1>5, <1>6 DEF UtilityGetTLV
<1>8. s[1] = tag
  BY <1>1, <1>2
<1>9. SubSeq(s, 2 + ll, 1 + ll + n) = whole
  <2> DEFINE f == 2 + ll
             t == 1 + ll + n
  <2>1. f \in Int /\ t \in Int /\ 1 <= f /\ t <= Len(s) /\ f <= t + 1 /\ t - f + 1 = n
    BY <1>1, <1>2
  <2>2. \A i \in 1..n : f + i - 1 = 1 + ll + i /\ f + i - 1 \in 1..Len(item)
    BY <1>1
  <2> HIDE DEF f, t
  <2>3. /\ SubSeq(s, f, t) \in Seq(Byte)
        /\ Len(SubSeq(s, f, t)) = t - f + 1
        /\ \A i \in 1..t - f + 1 : SubSeq(s, f, t)[i] = s[f + i - 1]
    BY <1>2, <2>1, Sliced
  <2>4. \A i \in 1..n : SubSeq(s, f, t)[i] = whole[i]
    BY <1>1, <1>2, <2>1, <2>2, <2>3
  <2> DEFINE taken == SubSeq(s, f, t)
  <2>6. taken \in Seq(Byte) /\ Len(taken) = n /\ \A i \in 1..n : taken[i] = whole[i]
    BY <2>1, <2>3, <2>4
  <2>7. whole \in Seq(Byte) /\ Len(whole) = n /\ n \in Nat
    BY <1>1 DEF n
  <2> HIDE DEF taken, n
  <2>8. taken = whole
    BY <2>6, <2>7, SameSeq
  <2>5. SubSeq(s, f, t) = whole
    BY <2>8 DEF taken
  <2> QED BY <2>5 DEF f, t
<1> QED BY <1>1, <1>7, <1>8, <1>9 DEF s, item, n

LEMMA ItemCut ==
    ASSUME NEW tag \in Byte, NEW whole \in Seq(Byte), Len(whole) \in Word16,
           NEW k \in 0..Len(ItemOf(tag, whole)) - 1
    PROVE  ~UtilityGetTLV(SubSeq(ItemOf(tag, whole), 1, k)).ok
<1> DEFINE n == Len(whole)
           ll == UtilityGetTLV_LL_from_len(n)
           item == ItemOf(tag, whole)
           s == SubSeq(item, 1, k)
<1>1. /\ item \in Seq(Byte) /\ Len(item) = 1 + ll + n /\ ll \in 1..3 /\ n \in Nat
      /\ \A i \in 1..ll : item[1 + i] = LengthBytes(n)[i]
  BY ItemFacts
<1>2. k \in 0..Len(item) - 1
  OBVIOUS
<1> HIDE DEF item
<1>3. /\ s \in Seq(Byte) /\ Len(s) = k /\ \A i \in 1..k : s[i] = item[i]
  <2>1. 1 <= k + 1 /\ k <= Len(item) /\ k \in Int /\ k - 1 + 1 = k
    BY <1>1, <1>2
  <2>2. item \in Seq(Byte)
    BY <1>1
  <2>3. /\ s \in Seq(Byte) /\ Len(s) = k - 1 + 1
        /\ \A i \in 1..k - 1 + 1 : s[i] = item[1 + i - 1]
    BY <2>1, <2>2, Sliced
  <2>4. \A i \in 1..k : 1 + i - 1 = i
    OBVIOUS
  <2> QED BY <2>1, <2>3, <2>4
<1> HIDE DEF s, ll, n
<1>4. \A i \in 1..ll : 1 + i <= Len(s) => s[1 + i] = LengthBytes(n)[i]
  BY <1>1, <1>2, <1>3
<1>5. CASE Len(s) < 1 + ll
  BY <1>3, <1>4, <1>5, LengthRead DEF n, ll, s, item
<1>6. CASE Len(s) >= 1 + ll
  <2>1. UtilityGetTLV_LL(s) = ll /\ UtilityGetTLV_L(s) = n
    BY <1>3, <1>4, <1>6, LengthRead DEF n, ll
  <2>2. n + ll + 1 > Len(s)
    BY <1>1, <1>2, <1>3
  <2>3. UtilityGetTLV(s) = NoTLV
    BY <2>1, <2>2 DEF UtilityGetTLV
  <2> QED BY <2>3 DEF NoTLV, s, item
<1> QED BY <1>1, <1>2, <1>3, <1>5, <1>6

(***************************************************************************)
(* Every value that is not empty and whose length 16 bits can hold is read *)
(* back from its tag, length and value, whatever follows; a bit string with *)
(* the byte of its unused bits.  An item that was cut is refused wherever  *)
(* the cut is (add_TL_withOffset, UtilityGetTLV).                          *)
(***************************************************************************)
THEOREM TlvReadsBack ==
    ASSUME NEW tag \in Byte, NEW value \in Seq(Byte), value # <<>>,
           Len(value) + 1 \in Word16, NEW rest \in Seq(Byte)
    PROVE  LET item == add_TL_withOffset(tag, value)
           IN  /\ UtilityGetTLV(item \o rest) =
                     [ok |-> TRUE, tag |-> tag, whole |-> Len(item),
                      data |-> IF tag = BitString THEN <<0>> \o value ELSE value]
               /\ \A k \in 0..Len(item) - 1 : ~UtilityGetTLV(SubSeq(item, 1, k)).ok
<1>1. Len(value) \in Word16
  BY DEF Word16
<1>2. CASE tag = BitString
  <2> DEFINE whole == <<0>> \o value
  <2>1. /\ add_TL_withOffset(tag, value) = ItemOf(tag, whole)
        /\ whole \in Seq(Byte) /\ Len(whole) \in Word16
    BY <1>2, BitItemIsAdded
  <2>2. whole = IF tag = BitString THEN <<0>> \o value ELSE value
    BY <1>2
  <2> HIDE DEF whole
  <2> QED BY <2>1, <2>2, ItemRead, ItemCut
<1>3. CASE tag # BitString
  BY <1>1, <1>3, ItemIsAdded, ItemRead, ItemCut
<1> QED BY <1>2, <1>3

(***************************************************************************)
(* The four bytes that guard a count give the count, and with any one of   *)
(* them damaged none (utility_get_NumBytes, utility_check_NumBytes).       *)
(***************************************************************************)
THEOREM CountBytesGuard ==
    ASSUME NEW n \in Byte
    PROVE  /\ utility_check_NumBytes(utility_get_NumBytes(n)) = n
           /\ \A i \in 1..4 : \A b \in Byte \ {utility_get_NumBytes(n)[i]} :
                 utility_check_NumBytes([utility_get_NumBytes(n) EXCEPT ![i] = b]) = NoCount
<1>1. n \in 0..255
  BY DEF Byte
<1>2. utility_check_NumBytes(utility_get_NumBytes(n)) = n
  BY DEF utility_check_NumBytes, utility_get_NumBytes
<1>3. ASSUME NEW i \in 1..4, NEW b \in Byte, b # utility_get_NumBytes(n)[i]
      PROVE  utility_check_NumBytes([utility_get_NumBytes(n) EXCEPT ![i] = b]) = NoCount
  <2> DEFINE four == utility_get_NumBytes(n)
             broken == [four EXCEPT ![i] = b]
  <2>1. /\ four[1] = 170 /\ four[2] = 85 /\ four[3] = n /\ four[4] = 255 - n
        /\ DOMAIN four = 1..4
    BY DEF utility_get_NumBytes
  <2>2. b \in Nat /\ n \in Nat
    BY <1>1, <1>3, Ranges
  <2> HIDE DEF four
  <2>3. \A j \in 1..4 : broken[j] = IF j = i THEN b ELSE four[j]
    BY <2>1
  <2>4. b # four[i]
    BY <1>3 DEF four
  <2> HIDE DEF broken
  <2>5. ~(broken[1] = 170 /\ broken[2] = 85 /\ broken[4] = 255 - broken[3])
    <3>1. i = 1 \/ i = 2 \/ i = 3 \/ i = 4
      OBVIOUS
    <3> QED BY <2>1, <2>2, <2>3, <2>4, <3>1
  <2> QED BY <2>5 DEF utility_check_NumBytes, broken, four
<1> QED BY <1>2, <1>3

-----------------------------------------------------------------------------
(* Signatures in ASN.1.                                                    *)

LEMMA ShortItem ==
    ASSUME NEW tag \in Byte, NEW whole \in Seq(Byte), Len(whole) < 128
    PROVE  /\ ItemOf(tag, whole) \in Seq(Byte) /\ Len(ItemOf(tag, whole)) = 2 + Len(whole)
           /\ ItemOf(tag, whole)[1] = tag /\ ItemOf(tag, whole)[2] = Len(whole)
           /\ \A i \in 1..Len(whole) : ItemOf(tag, whole)[2 + i] = whole[i]
           /\ Len(whole) \in Word16
<1> DEFINE n == Len(whole)
           ll == UtilityGetTLV_LL_from_len(n)
           item == ItemOf(tag, whole)
<1>1. n \in Nat /\ n \in Word16
  BY DEF Word16
<1>2. ll = 1
  BY DEF UtilityGetTLV_LL_from_len
<1>3. LengthBytes(n)[1] = n
  BY <1>1, <1>2, LengthFacts
<1>4. /\ item \in Seq(Byte) /\ Len(item) = 1 + ll + n /\ item[1] = tag
      /\ \A i \in 1..ll : item[1 + i] = LengthBytes(n)[i]
      /\ \A i \in 1..n : item[1 + ll + i] = whole[i]
  BY <1>1, ItemFacts
<1> HIDE DEF item, ll, n
<1>5. item[2] = n
  <2>1. 1 \in 1..ll /\ 1 + 1 = 2
    BY <1>2
  <2> QED BY <1>3, <1>4, <2>1
<1>6. 1 + ll = 2
  BY <1>2
<1> QED BY <1>1, <1>4, <1>5, <1>6 DEF n, item

(* The two numbers of a signature have w = 32 bytes each. *)
LEMMA SplitBack ==
    ASSUME NEW w \in Nat, NEW r \in Seq(Byte), Len(r) = w, NEW s \in Seq(Byte), Len(s) = w
    PROVE  /\ r \o s \in Seq(Byte) /\ Len(r \o s) = w + w
           /\ SubSeq(r \o s, 1, w) = r /\ SubSeq(r \o s, w + 1, w + w) = s
<1> DEFINE sig == r \o s
<1>1. /\ sig \in Seq(Byte) /\ Len(sig) = w + w
      /\ \A i \in 1..w : sig[i] = r[i]
      /\ \A i \in 1..w : sig[w + i] = s[i]
  BY Joined
<1> HIDE DEF sig
<1>2. SubSeq(sig, 1, w) = r
  <2>1. 1 <= w + 1 /\ w <= Len(sig) /\ w - 1 + 1 = w
    BY <1>1
  <2>2. /\ SubSeq(sig, 1, w) \in Seq(Byte) /\ Len(SubSeq(sig, 1, w)) = w - 1 + 1
        /\ \A i \in 1..w - 1 + 1 : SubSeq(sig, 1, w)[i] = sig[1 + i - 1]
    BY <1>1, <2>1, Sliced
  <2>3. \A i \in 1..w : SubSeq(sig, 1, w)[i] = r[i]
    <3>1. \A i \in 1..w : 1 + i - 1 = i
      OBVIOUS
    <3> QED BY <1>1, <2>1, <2>2, <3>1
  <2> QED BY <2>1, <2>2, <2>3, SameSeq
<1>3. SubSeq(sig, w + 1, w + w) = s
  <2> DEFINE f == w + 1
             e == w + w
  <2>1. f \in Int /\ e \in Int /\ 1 <= f /\ f <= e + 1 /\ e <= Len(sig) /\ e - f + 1 = w
    BY <1>1
  <2>2. \A i \in 1..w : f + i - 1 = w + i
    OBVIOUS
  <2> HIDE DEF f, e
  <2>3. /\ SubSeq(sig, f, e) \in Seq(Byte) /\ Len(SubSeq(sig, f, e)) = e - f + 1
        /\ \A i \in 1..e - f + 1 : SubSeq(sig, f, e)[i] = sig[f + i - 1]
    BY <1>1, <2>1, Sliced
  <2>4. \A i \in 1..w : SubSeq(sig, f, e)[i] = s[i]
    BY <1>1, <2>1, <2>2, <2>3
  <2>5. SubSeq(sig, f, e) = s
    BY <2>1, <2>3, <2>4, SameSeq
  <2> QED BY <2>5 DEF f, e
<1> QED BY <1>1, <1>2, <1>3 DEF sig

(* The bytes in front of the first number, and where the others are. *)
Shift(r) == IF r[1] >= 128 THEN 5 ELSE 4

LEMMA Asn1Facts ==
    ASSUME NEW w \in Nat, w > 31, w < 33,
           NEW r \in Seq(Byte), Len(r) = w, NEW s \in Seq(Byte), Len(s) = w
    PROVE  LET a == utility_signature_to_asn1(r \o s) h == Shift(r)
           IN  /\ a \in Seq(Byte) /\ Len(a) = h + w + 2 + w /\ (h = 4 \/ h = 5)
               /\ a[1] = 48 /\ a[2] = 64 + h /\ a[3] = 2 /\ a[4] = 28 + h
               /\ h = 5 => a[5] = 0
               /\ \A k \in 1..w : a[h + k] = r[k]
               /\ a[h + w + 1] = 2 /\ a[h + w + 2] = 32
               /\ \A k \in 1..w : a[h + w + 2 + k] = s[k]
<1> DEFINE sig == r \o s
           h == Shift(r)
           head == IF h = 5 THEN <<48, 69, 2, 33, 0>> ELSE <<48, 68, 2, 32>>
           mid == <<2, 32>>
<1>1. w \in Nat /\ w = 32
  OBVIOUS
<1>2. SubSeq(sig, 1, 32) = r /\ SubSeq(sig, 33, 64) = s
  <2>1. SubSeq(sig, 1, w) = r /\ SubSeq(sig, w + 1, w + w) = s
    BY SplitBack
  <2>2. w = 32 /\ w + 1 = 33 /\ w + w = 64
    BY <1>1
  <2> HIDE DEF sig
  <2> QED BY <2>1, <2>2
<1> HIDE DEF sig
<1>3. (h = 4 \/ h = 5) /\ (r[1] >= 128 <=> h = 5)
  BY DEF Shift
<1>4. utility_signature_to_asn1(sig) = head \o r \o mid \o s
  <2>1. utility_signature_to_asn1(sig) =
            (IF r[1] >= 128 THEN <<48, 69, 2, 33, 0>> ELSE <<48, 68, 2, 32>>)
                \o r \o mid \o s
    BY <1>2 DEF utility_signature_to_asn1
  <2> QED BY <1>3, <2>1
<1>5. /\ head \in Seq(Byte) /\ Len(head) = h
      /\ head[1] = 48 /\ head[2] = 64 + h /\ head[3] = 2 /\ head[4] = 28 + h
      /\ h = 5 => head[5] = 0
  <2>1. 48 \in Byte /\ 69 \in Byte /\ 68 \in Byte /\ 2 \in Byte /\ 33 \in Byte
        /\ 32 \in Byte /\ 0 \in Byte
    BY DEF Byte
  <2> HIDE DEF h
  <2> QED BY <1>3, <2>1
<1>6. mid \in Seq(Byte) /\ Len(mid) = 2 /\ mid[1] = 2 /\ mid[2] = 32
  BY DEF Byte
<1> HIDE DEF h, head, mid
<1> DEFINE x == head \o r
           y == x \o mid
           a == y \o s
<1>7. /\ x \in Seq(Byte) /\ Len(x) = h + w
      /\ \A i \in 1..h : x[i] = head[i]
      /\ \A i \in 1..w : x[h + i] = r[i]
  <2>1. head \in Seq(Byte) /\ Len(head) = h
    BY <1>5
  <2> QED BY <2>1, Joined
<1> HIDE DEF x
<1>8. /\ y \in Seq(Byte) /\ Len(y) = h + w + 2
      /\ \A i \in 1..h + w : y[i] = x[i]
      /\ y[h + w + 1] = mid[1] /\ y[h + w + 2] = mid[2]
  <2>1. x \in Seq(Byte) /\ mid \in Seq(Byte)
    BY <1>6, <1>7
  <2>2. /\ y \in Seq(Byte) /\ Len(y) = Len(x) + Len(mid)
        /\ \A i \in 1..Len(x) : y[i] = x[i]
        /\ \A i \in 1..Len(mid) : y[Len(x) + i] = mid[i]
    BY <2>1, Joined
  <2>3. 1 \in 1..Len(mid) /\ 2 \in 1..Len(mid)
    BY <1>6
  <2> HIDE DEF y
  <2> QED BY <1>6, <1>7, <2>2, <2>3
<1> HIDE DEF y
<1>9. /\ a \in Seq(Byte) /\ Len(a) = h + w + 2 + w
      /\ \A i \in 1..h + w + 2 : a[i] = y[i]
      /\ \A i \in 1..w : a[h + w + 2 + i] = s[i]
  <2>1. y \in Seq(Byte) /\ Len(y) = h + w + 2
    BY <1>8
  <2> QED BY <2>1, Joined
<1>10. a = utility_signature_to_asn1(sig)
  BY <1>4 DEF x, y
<1> HIDE DEF a
<1>11. h \in Nat
  BY <1>3
<1>12. \A i \in 1..h + w : a[i] = x[i]
  BY <1>8, <1>9, <1>11
<1>13. \A i \in 1..h : a[i] = head[i]
  BY <1>7, <1>11, <1>12
<1>14. \A k \in 1..w : a[h + k] = r[k]
  BY <1>7, <1>11, <1>12
<1>15. a[h + w + 1] = 2 /\ a[h + w + 2] = 32
  <2>1. h + w + 1 \in 1..h + w + 2 /\ h + w + 2 \in 1..h + w + 2
    BY <1>11
  <2> QED BY <1>6, <1>8, <1>9, <2>1
<1>16. a[1] = 48 /\ a[2] = 64 + h /\ a[3] = 2 /\ a[4] = 28 + h /\ (h = 5 => a[5] = 0)
  <2>1. 1 \in 1..h /\ 2 \in 1..h /\ 3 \in 1..h /\ 4 \in 1..h /\ (h = 5 => 5 \in 1..h)
    BY <1>3
  <2> QED BY <1>5, <1>13, <2>1
<1> QED BY <1>3, <1>9, <1>10, <1>14, <1>15, <1>16 DEF h, sig

(* The ASN.1 form is a sequence of two numbers; the first has a zero in    *)
(* front of it when its top bit is set.                                    *)
Positive(r) == IF r[1] >= 128 THEN <<0>> \o r ELSE r
Numbers(r, s) == ItemOf(2, Positive(r)) \o ItemOf(2, s)

LEMMA PositiveFacts ==
    ASSUME NEW w \in Nat, w > 31, w < 33, NEW r \in Seq(Byte), Len(r) = w
    PROVE  LET p == Positive(r) h == Shift(r)
           IN  /\ p \in Seq(Byte) /\ Len(p) = w + h - 4 /\ (h = 4 \/ h = 5)
               /\ h = 5 => p[1] = 0
               /\ \A k \in 1..w : p[h - 4 + k] = r[k]
               /\ p[1] < 128 /\ TrimZeros(p) = TrimZeros(r)
<1> DEFINE first == <<0>>
           p == first \o r
<1>1. first \in Seq(Byte) /\ Len(first) = 1 /\ first[1] = 0
  BY Ranges
<1>2. r[1] \in Byte
  BY ElementOfSeq
<1>3. r[1] \in Nat
  BY <1>2, Ranges
<1>4. CASE r[1] >= 128
  <2>1. Positive(r) = p /\ Shift(r) = 5
    BY <1>4 DEF Positive, Shift
  <2> HIDE DEF first
  <2>2. /\ p \in Seq(Byte) /\ Len(p) = Len(first) + Len(r)
        /\ \A i \in 1..Len(first) : p[i] = first[i]
        /\ \A i \in 1..Len(r) : p[Len(first) + i] = r[i]
    <3>1. first \in Seq(Byte)
      BY <1>1
    <3>2. \A q \in Seq(Byte) :
              /\ q \o r \in Seq(Byte) /\ Len(q \o r) = Len(q) + Len(r)
              /\ \A i \in 1..Len(q) : (q \o r)[i] = q[i]
              /\ \A i \in 1..Len(r) : (q \o r)[Len(q) + i] = r[i]
      BY Joined
    <3> QED BY <3>1, <3>2
  <2> HIDE DEF p
  <2>3. 1 \in 1..Len(first) /\ 1 \in 1..w
    BY <1>1
  <2>4. /\ Len(p) = w + 1 /\ p[1] = 0 /\ \A k \in 1..w : p[1 + k] = r[k]
    BY <1>1, <2>2, <2>3
  <2>5. p[2] = r[1] /\ r[1] # 0
    <3>1. p[1 + 1] = r[1]
      BY <2>3, <2>4
    <3> QED BY <1>3, <1>4, <3>1
  <2>6. TrimZeros(r) = r
    <3>1. r # <<>>
      BY EmptySeq
    <3> QED BY <2>5, <3>1, TrimCase, Ranges
  <2>7. TrimZeros(p) = SubSeq(p, 2, Len(p))
    <3>1. 2 \in 1..Len(p)
      BY <2>4
    <3>2. p[2] # 0
      BY <2>5
    <3>3. \A i \in 1..2 - 1 : p[i] = 0
      BY <2>4
    <3> QED BY <2>2, <3>1, <3>2, <3>3, TrimCase, Ranges
  <2>8. SubSeq(p, 2, Len(p)) = r
    <3> DEFINE e == Len(p)
    <3>1. e \in Int /\ e = w + 1 /\ 1 <= 2 /\ 2 <= e + 1 /\ e <= Len(p) /\ e - 2 + 1 = w /\ 2 \in Int
      BY <2>4
    <3> HIDE DEF e
    <3>2. /\ SubSeq(p, 2, e) \in Seq(Byte) /\ Len(SubSeq(p, 2, e)) = e - 2 + 1
          /\ \A i \in 1..e - 2 + 1 : SubSeq(p, 2, e)[i] = p[2 + i - 1]
      BY <2>2, <3>1, Sliced, SMTT(30)
    <3>3. \A i \in 1..w : 2 + i - 1 = 1 + i
      OBVIOUS
    <3>4. \A i \in 1..w : SubSeq(p, 2, e)[i] = r[i]
      BY <2>4, <3>1, <3>2, <3>3
    <3>5. SubSeq(p, 2, e) = r
      BY <3>1, <3>2, <3>4, SameSeq
    <3> QED BY <3>5 DEF e
  <2>9. /\ 5 - 4 + 0 = 1 /\ w + 5 - 4 = w + 1 /\ 0 < 128
        /\ \A k \in 1..w : 5 - 4 + k = 1 + k
    OBVIOUS
  <2>10. \A k \in 1..w : p[5 - 4 + k] = r[k]
    BY <2>4, <2>9
  <2> QED BY <2>1, <2>2, <2>4, <2>6, <2>7, <2>8, <2>9, <2>10
<1>5. CASE ~(r[1] >= 128)
  <2>1. Positive(r) = r /\ Shift(r) = 4
    BY <1>5 DEF Positive, Shift
  <2>2. r[1] < 128
    BY <1>3, <1>5
  <2>3. w + 4 - 4 = w /\ \A k \in 1..w : 4 - 4 + k = k
    OBVIOUS
  <2> QED BY <2>1, <2>2, <2>3
<1> QED BY <1>4, <1>5

LEMMA SignatureItems ==
    ASSUME NEW w \in Nat, w > 31, w < 33,
           NEW r \in Seq(Byte), Len(r) = w, NEW s \in Seq(Byte), Len(s) = w
    PROVE  /\ utility_signature_to_asn1(r \o s) = ItemOf(48, Numbers(r, s))
           /\ Numbers(r, s) \in Seq(Byte) /\ Len(Numbers(r, s)) < 128
<1> DEFINE a == utility_signature_to_asn1(r \o s)
           h == Shift(r)
           p == Positive(r)
           one == ItemOf(2, p)
           two == ItemOf(2, s)
           inner == one \o two
           item == ItemOf(48, inner)
<1>1. /\ a \in Seq(Byte) /\ Len(a) = h + w + 2 + w /\ (h = 4 \/ h = 5)
      /\ a[1] = 48 /\ a[2] = 64 + h /\ a[3] = 2 /\ a[4] = 28 + h
      /\ h = 5 => a[5] = 0
      /\ \A k \in 1..w : a[h + k] = r[k]
      /\ a[h + w + 1] = 2 /\ a[h + w + 2] = 32
      /\ \A k \in 1..w : a[h + w + 2 + k] = s[k]
  BY Asn1Facts
<1>2. /\ p \in Seq(Byte) /\ Len(p) = w + h - 4 /\ (h = 5 => p[1] = 0)
      /\ \A k \in 1..w : p[h - 4 + k] = r[k]
  BY PositiveFacts
<1>3. 2 \in Byte /\ 48 \in Byte
  BY DEF Byte
<1>4. Numbers(r, s) = inner
  BY DEF Numbers
<1> HIDE DEF a, h, p
<1>5. /\ one \in Seq(Byte) /\ Len(one) = 2 + Len(p) /\ one[1] = 2 /\ one[2] = Len(p)
      /\ \A i \in 1..Len(p) : one[2 + i] = p[i]
  <2>1. Len(p) < 128
    BY <1>1, <1>2
  <2> QED BY <1>2, <1>3, <2>1, ShortItem
<1>6. /\ two \in Seq(Byte) /\ Len(two) = 2 + w /\ two[1] = 2 /\ two[2] = w
      /\ \A i \in 1..w : two[2 + i] = s[i]
  <2>1. Len(s) < 128
    OBVIOUS
  <2>2. \A q \in Seq(Byte) :
            Len(q) < 128 =>
                /\ ItemOf(2, q) \in Seq(Byte) /\ Len(ItemOf(2, q)) = 2 + Len(q)
                /\ ItemOf(2, q)[1] = 2 /\ ItemOf(2, q)[2] = Len(q)
                /\ \A i \in 1..Len(q) : ItemOf(2, q)[2 + i] = q[i]
    BY <1>3, ShortItem
  <2> QED BY <2>1, <2>2
<1> HIDE DEF one, two
<1>7. /\ inner \in Seq(Byte) /\ Len(inner) = Len(one) + Len(two)
      /\ \A i \in 1..Len(one) : inner[i] = one[i]
      /\ \A i \in 1..Len(two) : inner[Len(one) + i] = two[i]
  <2>1. one \in Seq(Byte) /\ two \in Seq(Byte)
    BY <1>5, <1>6
  <2> QED BY <2>1, Joined
<1> HIDE DEF inner
<1>8. Len(one) = w + h - 2 /\ Len(inner) = w + w + h /\ Len(inner) < 128 /\ h \in Nat /\ h < 6
  <2>1. h \in Nat /\ h < 6
    BY <1>1
  <2>2. Len(one) = w + h - 2
    <3>1. Len(one) = 2 + Len(p) /\ Len(p) = w + h - 4
      BY <1>2, <1>5
    <3> QED BY <2>1, <3>1
  <2>3. Len(inner) = w + w + h
    <3>1. Len(inner) = Len(one) + Len(two) /\ Len(two) = 2 + w
      BY <1>6, <1>7
    <3> QED BY <2>1, <2>2, <3>1
  <2> QED BY <2>1, <2>2, <2>3
<1>9. /\ item \in Seq(Byte) /\ Len(item) = 2 + Len(inner)
      /\ item[1] = 48 /\ item[2] = Len(inner)
      /\ \A i \in 1..Len(inner) : item[2 + i] = inner[i]
  BY <1>3, <1>7, <1>8, ShortItem, ZenonT(60)
<1> HIDE DEF item
<1>10. ASSUME NEW i \in 1..Len(a)
       PROVE  a[i] = item[i]
  <2>1. i \in Nat /\ i >= 1 /\ i <= h + w + 2 + w
    BY <1>1
  <2>2. CASE i = 1 \/ i = 2
    <3>1. Len(inner) = 64 + h
      BY <1>8
    <3>2. a[1] = item[1]
      BY <1>1, <1>9
    <3>3. a[2] = item[2]
      BY <1>1, <1>9, <3>1
    <3> QED BY <2>2, <3>2, <3>3
  <2>3. CASE i > 2
    <3> DEFINE j == i - 2
    <3>1. j \in 1..Len(inner) /\ i = 2 + j
      BY <1>8, <2>1, <2>3
    <3>2. item[i] = inner[j]
      BY <1>9, <3>1
    <3>3. CASE j <= Len(one)
      <4>1. j \in 1..Len(one)
        BY <1>8, <3>1, <3>3
      <4>2. item[i] = one[j]
        BY <1>7, <3>2, <4>1
      <4>3. CASE j = 1
        BY <1>1, <1>5, <4>2, <4>3
      <4>4. CASE j = 2
        <5>1. i = 4 /\ one[j] = w + h - 4 /\ w + h - 4 = 28 + h
          BY <1>2, <1>5, <1>8, <4>4
        <5> QED BY <1>1, <4>2, <5>1
      <4>5. CASE j > 2
        <5> DEFINE k == j - 2
        <5>1. k \in 1..Len(p) /\ j = 2 + k /\ i = 4 + k
          BY <1>2, <1>5, <1>8, <4>1, <4>5
        <5>2. item[i] = p[k]
          BY <1>5, <4>2, <5>1
        <5>3. CASE h = 5 /\ k = 1
          <6>1. i = 5
            BY <5>1, <5>3
          <6> QED BY <1>1, <1>2, <5>2, <5>3, <6>1
        <5>4. CASE ~(h = 5 /\ k = 1)
          <6> DEFINE m == k - (h - 4)
          <6>1. m \in 1..w /\ k = h - 4 + m /\ i = h + m
            BY <1>1, <1>2, <1>8, <5>1, <5>4
          <6> HIDE DEF m, k, j
          <6> QED BY <1>1, <1>2, <5>2, <6>1
        <5> QED BY <5>3, <5>4
      <4> QED BY <3>1, <4>3, <4>4, <4>5
    <3>4. CASE j > Len(one)
      <4> DEFINE k == j - Len(one)
      <4>1. k \in 1..Len(two) /\ j = Len(one) + k /\ i = h + w + k
        BY <1>6, <1>7, <1>8, <3>1, <3>4
      <4>2. item[i] = two[k]
        BY <1>7, <3>2, <4>1
      <4>3. CASE k = 1
        BY <1>1, <1>6, <4>1, <4>2, <4>3
      <4>4. CASE k = 2
        <5>1. w = 32
          OBVIOUS
        <5>2. a[h + w + 2] = 32 /\ two[2] = w
          BY <1>1, <1>6
        <5>3. i = h + w + 2
          BY <4>1, <4>4
        <5>4. item[i] = two[2]
          BY <4>2, <4>4
        <5> HIDE DEF k, j
        <5> QED BY <5>1, <5>2, <5>3, <5>4
      <4>5. CASE k > 2
        <5> DEFINE m == k - 2
        <5>1. m \in 1..w /\ k = 2 + m /\ i = h + w + 2 + m
          BY <1>6, <1>8, <4>1, <4>5
        <5> HIDE DEF m, k, j
        <5> QED BY <1>1, <1>6, <4>2, <5>1
      <4> QED BY <4>1, <4>3, <4>4, <4>5
    <3> QED BY <1>8, <3>1, <3>3, <3>4
  <2> QED BY <2>1, <2>2, <2>3
<1>11. Len(a) = Len(item) /\ Len(a) \in Nat
  BY <1>1, <1>8, <1>9
<1>12. a = item
  BY <1>1, <1>9, <1>10, <1>11, SameSeq
<1> QED BY <1>4, <1>7, <1>8, <1>12 DEF a, item

(* What stands behind the first of two sequences is the second. *)
LEMMA BehindFirst ==
    ASSUME NEW S, NEW s \in Seq(S), NEW t \in Seq(S)
    PROVE  SubSeq(s \o t, Len(s) + 1, Len(s \o t)) = t
<1> DEFINE j == s \o t
           f == Len(s) + 1
           e == Len(j)
           n == Len(t)
<1>1. /\ j \in Seq(S) /\ Len(j) = Len(s) + n
      /\ \A i \in 1..n : j[Len(s) + i] = t[i]
  BY Joined
<1>2. Len(s) \in Nat /\ n \in Nat
  OBVIOUS
<1> HIDE DEF j, n
<1>3. /\ f \in Int /\ e \in Int /\ 1 <= f /\ f <= e + 1 /\ e <= Len(j) /\ e - f + 1 = n
      /\ \A i \in 1..n : f + i - 1 = Len(s) + i
  BY <1>1, <1>2
<1> HIDE DEF f, e
<1>4. /\ SubSeq(j, f, e) \in Seq(S) /\ Len(SubSeq(j, f, e)) = e - f + 1
      /\ \A i \in 1..e - f + 1 : SubSeq(j, f, e)[i] = j[f + i - 1]
  BY <1>1, <1>3, Sliced
<1>5. \A i \in 1..n : SubSeq(j, f, e)[i] = t[i]
  BY <1>1, <1>3, <1>4
<1>6. Len(t) = n
  BY DEF n
<1>7. SubSeq(j, f, e) = t
  BY <1>2, <1>3, <1>4, <1>5, <1>6, SameSeq
<1> QED BY <1>7 DEF j, f, e

LEMMA SignatureOffsets ==
    ASSUME NEW w \in Nat, w > 31, w < 33,
           NEW r \in Seq(Byte), Len(r) = w, NEW s \in Seq(Byte), Len(s) = w
    PROVE  SignatureTaken(utility_signature_to_asn1(r \o s)) = r \o s
<1> DEFINE a == utility_signature_to_asn1(r \o s)
           h == Shift(r)
           from(i) == IF At(a, i) = 33 THEN i + 2 ELSE i + 1
           number(i) == [k \in 1..32 |-> At(a, from(i) + k - 1)]
           next(i) == from(i) + 32
<1>1. SignatureTaken(a) = number(3) \o number(next(3) + 1)
  BY DEF SignatureTaken
<1>2. /\ a \in Seq(Byte) /\ Len(a) = h + w + 2 + w /\ (h = 4 \/ h = 5)
      /\ a[1] = 48 /\ a[2] = 64 + h /\ a[3] = 2 /\ a[4] = 28 + h
      /\ h = 5 => a[5] = 0
      /\ \A k \in 1..w : a[h + k] = r[k]
      /\ a[h + w + 1] = 2 /\ a[h + w + 2] = 32
      /\ \A k \in 1..w : a[h + w + 2 + k] = s[k]
  BY Asn1Facts
<1>3. w = 32 /\ 1..32 = 1..w
  <2>1. w = 32
    OBVIOUS
  <2> QED BY <2>1, Zenon
<1> HIDE DEF a, h
<1>4. h \in Nat /\ \A i \in Nat : i < Len(a) => At(a, i) = a[i + 1]
  <2>1. h \in Nat
    BY <1>2
  <2>2. Len(a) \in Nat /\ DOMAIN a = 1..Len(a)
    BY <1>2
  <2>3. \A i \in Nat : i < Len(a) => i + 1 \in DOMAIN a
    BY <2>2
  <2> QED BY <2>1, <2>3 DEF At, ByteAt
<1>5. from(3) = h
  <2>1. At(a, 3) = a[4]
    <3>1. 3 < Len(a) /\ 3 + 1 = 4
      BY <1>2
    <3> QED BY <1>4, <3>1
  <2>2. At(a, 3) = 28 + h
    BY <1>2, <2>1
  <2> QED BY <1>2, <2>2
<1>6. next(3) + 1 = h + w + 1
  BY <1>3, <1>4, <1>5
<1>7. from(h + w + 1) = h + w + 2
  <2>1. At(a, h + w + 1) = a[h + w + 2]
    <3>1. h + w + 1 \in Nat /\ h + w + 1 < Len(a) /\ h + w + 1 + 1 = h + w + 2
      BY <1>2, <1>4
    <3> QED BY <1>4, <3>1
  <2>2. At(a, h + w + 1) # 33
    BY <1>2, <2>1
  <2> QED BY <1>4, <2>2
<1> HIDE DEF from, next
<1>8. number(3) = r
  <2> DEFINE n == [k \in 1..w |-> At(a, h + k - 1)]
  <2>1. number(3) = n
    BY <1>3, <1>5
  <2>2. \A k \in 1..w : At(a, h + k - 1) = r[k]
    <3> TAKE k \in 1..w
    <3>1. h + k - 1 \in Nat /\ h + k - 1 < Len(a) /\ h + k - 1 + 1 = h + k
      BY <1>2, <1>4
    <3> QED BY <1>2, <1>4, <3>1
  <2>3. n = [k \in 1..w |-> r[k]]
    BY <2>2
  <2>4. r = [k \in 1..w |-> r[k]]
    OBVIOUS
  <2> HIDE DEF n
  <2> QED BY <2>1, <2>3, <2>4
<1>9. number(h + w + 1) = s
  <2> DEFINE n == [k \in 1..w |-> At(a, h + w + 2 + k - 1)]
  <2>1. number(h + w + 1) = n
    BY <1>3, <1>7
  <2>2. \A k \in 1..w : At(a, h + w + 2 + k - 1) = s[k]
    <3> TAKE k \in 1..w
    <3>1. /\ h + w + 2 + k - 1 \in Nat /\ h + w + 2 + k - 1 < Len(a)
          /\ h + w + 2 + k - 1 + 1 = h + w + 2 + k
      BY <1>2, <1>4
    <3> QED BY <1>2, <1>4, <3>1
  <2>3. n = [k \in 1..w |-> s[k]]
    BY <2>2
  <2>4. s = [k \in 1..w |-> s[k]]
    OBVIOUS
  <2> HIDE DEF n
  <2> QED BY <2>1, <2>3, <2>4
<1> HIDE DEF number
<1> QED BY <1>1, <1>6, <1>8, <1>9 DEF a

(***************************************************************************)
(* The reader of tags and lengths finds in the ASN.1 form of a signature   *)
(* the numbers r and s, the first with a zero in front of it when it would *)
(* be read as negative, and what the reader of the secure element's        *)
(* signatures takes out of it is the signature (utility_signature_to_asn1, *)
(* UtilityGetTLV, Se05x_API_ECDSASign).                                    *)
(***************************************************************************)
THEOREM SignatureReadsBack ==
    ASSUME NEW r \in Seq(Byte), Len(r) = 32, NEW s \in Seq(Byte), Len(s) = 32
    PROVE  LET asn1   == utility_signature_to_asn1(r \o s)
               inner  == UtilityGetTLV(asn1).data
               first  == UtilityGetTLV(inner)
               second == UtilityGetTLV(SubSeq(inner, first.whole + 1, Len(inner)))
           IN  /\ TrimZeros(first.data) = TrimZeros(r) /\ first.data[1] < 128
               /\ second.data = s /\ first.whole + second.whole = Len(inner)
               /\ SignatureTaken(asn1) = r \o s
<1> DEFINE w == Len(r)
           asn1 == utility_signature_to_asn1(r \o s)
           inner == UtilityGetTLV(asn1).data
           first == UtilityGetTLV(inner)
           rest == SubSeq(inner, first.whole + 1, Len(inner))
           second == UtilityGetTLV(rest)
           p == Positive(r)
           one == ItemOf(2, p)
           two == ItemOf(2, s)
<1>1. w \in Nat /\ w > 31 /\ w < 33 /\ w = Len(r) /\ w = Len(s)
  OBVIOUS
<1> HIDE DEF w
<1>2. /\ asn1 = ItemOf(48, Numbers(r, s))
      /\ Numbers(r, s) \in Seq(Byte) /\ Len(Numbers(r, s)) < 128
  BY <1>1, SignatureItems
<1>3. SignatureTaken(asn1) = r \o s
  BY <1>1, SignatureOffsets
<1>4. /\ p \in Seq(Byte) /\ Len(p) < 128
      /\ p[1] < 128 /\ TrimZeros(p) = TrimZeros(r)
  <2>1. /\ p \in Seq(Byte) /\ Len(p) = w + Shift(r) - 4 /\ (Shift(r) = 4 \/ Shift(r) = 5)
        /\ p[1] < 128 /\ TrimZeros(p) = TrimZeros(r)
    BY <1>1, PositiveFacts, ZenonT(60)
  <2>2. Len(p) < 128
    BY <1>1, <2>1
  <2> QED BY <2>1, <2>2
<1>5. Len(s) < 128
  OBVIOUS
<1>6. 2 \in Byte /\ 48 \in Byte /\ <<>> \in Seq(Byte)
  BY EmptySeq DEF Byte
<1>7. \A tag \in Byte, q \in Seq(Byte) :
          Len(q) < 128 =>
              /\ ItemOf(tag, q) \in Seq(Byte)
              /\ Len(q) \in Word16
  BY ShortItem
<1>8. \A tag \in Byte, q \in Seq(Byte), more \in Seq(Byte) :
          Len(q) < 128 =>
              UtilityGetTLV(ItemOf(tag, q) \o more) =
                  [ok |-> TRUE, tag |-> tag, whole |-> Len(ItemOf(tag, q)), data |-> q]
  BY <1>7, ItemRead
<1>9. \A tag \in Byte, q \in Seq(Byte) :
          Len(q) < 128 =>
              UtilityGetTLV(ItemOf(tag, q)) =
                  [ok |-> TRUE, tag |-> tag, whole |-> Len(ItemOf(tag, q)), data |-> q]
  <2> TAKE tag \in Byte, q \in Seq(Byte)
  <2> HAVE Len(q) < 128
  <2>1. ItemOf(tag, q) \o <<>> = ItemOf(tag, q)
    BY <1>7, ConcatEmptySeq
  <2> QED BY <1>6, <1>8, <2>1
<1> HIDE DEF asn1
<1>10. inner = Numbers(r, s)
  BY <1>2, <1>6, <1>9
<1>11. Numbers(r, s) = one \o two
  BY DEF Numbers
<1>12. /\ one \in Seq(Byte) /\ two \in Seq(Byte)
  BY <1>4, <1>5, <1>6, <1>7
<1>13. UtilityGetTLV(one \o two) = [ok |-> TRUE, tag |-> 2, whole |-> Len(one), data |-> p]
  BY <1>4, <1>6, <1>8, <1>12
<1>14. UtilityGetTLV(two) = [ok |-> TRUE, tag |-> 2, whole |-> Len(two), data |-> s]
  BY <1>5, <1>6, <1>9
<1> HIDE DEF inner, one, two, p
<1>15. first.whole = Len(one) /\ first.data = p
  BY <1>10, <1>11, <1>13
<1>16. rest = two
  BY <1>10, <1>11, <1>12, <1>15, BehindFirst
<1>17. second.data = s /\ second.whole = Len(two)
  <2>1. second = UtilityGetTLV(two)
    BY <1>16
  <2> HIDE DEF second
  <2> QED BY <1>14, <2>1
<1>18. Len(inner) = Len(one) + Len(two)
  BY <1>10, <1>11, <1>12, Joined
<1> HIDE DEF first, second
<1> QED BY <1>3, <1>4, <1>15, <1>17, <1>18 DEF asn1, inner, first, second

-----------------------------------------------------------------------------
(* The invariants of DataSpec.                                             *)

DataInv == data \in Seq(Byte) /\ size \in Nat

LEMMA DataAlways == DataSpec => []DataInv
<1>1. DataInit => DataInv
  BY EmptySeq DEF DataInit, DataInv
<1>2. DataInv /\ [DataNext]_dataVars => DataInv'
  <2> SUFFICES ASSUME DataInv, [DataNext]_dataVars PROVE DataInv'
    OBVIOUS
  <2>1. Bytes \subseteq Byte /\ Sizes \subseteq Nat
    BY DataAssumption DEF Byte
  <2>2. ASSUME NEW b \in Bytes, AppendByte(b) PROVE DataInv'
    <3>1. b \in Byte /\ data' = Append(data, b) /\ size' = size
      BY <2>1, <2>2 DEF AppendByte
    <3> QED BY <3>1, AppendProperties DEF DataInv
  <2>3. ASSUME NEW n \in Sizes, Resize(n) PROVE DataInv'
    BY <2>1, <2>3 DEF DataInv, Resize
  <2>4. CASE UNCHANGED dataVars
    BY <2>4 DEF DataInv, dataVars
  <2> QED BY <2>2, <2>3, <2>4 DEF DataNext
<1> QED BY <1>1, <1>2, PTL DEF DataSpec

LEMMA StretchFacts ==
    ASSUME DataInv, NEW n \in Nat
    PROVE  Stretch(n) \in Seq(Byte) /\ Len(Stretch(n)) = n
<1> DEFINE f == Stretch(n)
           byte(i) == IF data = <<>> THEN 90 ELSE data[1 + ((i - 1) % Len(data))]
<1>1. f = [i \in 1..n |-> byte(i)]
  BY DEF Stretch
<1>2. \A i \in 1..n : byte(i) \in Byte
  <2> TAKE i \in 1..n
  <2>1. CASE data = <<>>
    BY <2>1 DEF Byte
  <2>2. CASE data # <<>>
    <3>1. data \in Seq(Byte) /\ Len(data) \in Nat \ {0}
      BY <2>2, EmptySeq DEF DataInv
    <3>2. i - 1 \in Nat
      OBVIOUS
    <3>3. 1 + ((i - 1) % Len(data)) \in 1..Len(data)
      BY <3>1, <3>2
    <3>4. data[1 + ((i - 1) % Len(data))] \in Byte
      BY <3>1, <3>3, ElementOfSeq
    <3> QED BY <2>2, <3>4
  <2> QED BY <2>1, <2>2
<1> HIDE DEF byte, f
<1>3. f = [i \in 1..n |-> f[i]] /\ \A i \in 1..n : f[i] \in Byte
  BY <1>1, <1>2
<1>4. f \in Seq(Byte) /\ Len(f) = n
  BY <1>3, Built
<1> QED BY <1>4 DEF f

(* The payload, and a value that is never empty. *)
LEMMA PayloadFacts ==
    ASSUME DataInv
    PROVE  /\ payload \in Seq(Byte)
           /\ Append(payload, 7) \in Seq(Byte) /\ Append(payload, 7) # <<>>
           /\ Len(Append(payload, 7)) \in Nat \ {0}
<1>1. payload \in Seq(Byte) /\ Len(payload) \in Nat
  BY StretchFacts DEF payload, DataInv
<1>2. 7 \in Byte
  BY DEF Byte
<1>3. Append(payload, 7) \in Seq(Byte) /\ Len(Append(payload, 7)) = Len(payload) + 1
  BY <1>1, <1>2, AppendProperties
<1> QED BY <1>1, <1>3, EmptySeq

(* A text with one character that is neither a digit nor in the alphabet. *)
Spoilt(s, m) == [s EXCEPT ![m] = Alien]

LEMMA SpoiltFacts ==
    \A s \in Seq(Nat) : \A m \in 1..Len(s) :
        /\ Spoilt(s, m) \in Seq(Nat) /\ Len(Spoilt(s, m)) = Len(s)
        /\ Spoilt(s, m)[m] = Alien
        /\ \A i \in 1..Len(s) : i # m => Spoilt(s, m)[i] = s[i]
<1> TAKE s \in Seq(Nat)
<1> TAKE m \in 1..Len(s)
<1> DEFINE t == [s EXCEPT ![m] = Alien]
           n == Len(s)
<1>1. n \in Nat /\ DOMAIN s = 1..n /\ \A i \in 1..n : s[i] \in Nat
  BY ElementOfSeq
<1>2. /\ t \in [1..n -> Nat] /\ t[m] = Alien
      /\ \A i \in 1..n : i # m => t[i] = s[i]
  BY <1>1 DEF Alien
<1> HIDE DEF t, n
<1>3. t \in Seq(Nat) /\ Len(t) = n
  BY <1>1, <1>2
<1> QED BY <1>2, <1>3 DEF t, n, Spoilt

(* A text whose last character is no digit. *)
LEMMA WrongAtEnd ==
    ASSUME NEW d \in Seq(Digit), d # <<>>, NEW prefix \in BOOLEAN,
           NEW room \in Nat \ {0}, Len(EvenDigits(d)) <= 2 * room,
           NEW leftTrim \in BOOLEAN, NEW text, text = (IF prefix THEN Prefix ELSE <<>>) \o d
    PROVE  UtilityHexToBin(room, Spoilt(text, Len(text)), leftTrim, FALSE) = <<>>
<1> DEFINE head == IF prefix THEN Prefix ELSE <<>>
           n == Len(d)
           dw == Spoilt(d, n)
           tw == Spoilt(text, Len(text))
<1>1. n \in Nat \ {0} /\ d \in Seq(Nat)
  <2>1. Digit \subseteq Nat
    BY Ranges
  <2>2. n \in Nat \ {0} /\ \A i \in 1..n : d[i] \in Digit
    BY EmptySeq, ElementOfSeq
  <2>3. d = [i \in 1..n |-> d[i]]
    OBVIOUS
  <2>4. \A i \in 1..n : d[i] \in Nat
    BY <2>1, <2>2
  <2> HIDE DEF n
  <2> QED BY <2>2, <2>3, <2>4, Built
<1>2. \A i \in 1..n : d[i] \in Digit
  BY ElementOfSeq
<1>3. Alien \in Nat /\ Alien \notin Digit /\ Alien # Ex /\ ~IsDigit(Alien)
  BY DEF Alien, Ex, Digit, IsDigit
<1>4. \A i \in 1..n : d[i] # Ex
  <2>1. \A c \in Digit : c # Ex
    BY DEF Ex, Digit
  <2> QED BY <1>2, <2>1
<1>5. head \in Seq(Nat) /\ Len(head) \in Nat
  BY EmptySeq DEF Prefix, Ex
<1>6. text = head \o d
  OBVIOUS
<1> HIDE DEF n, head
<1>7. /\ dw \in Seq(Nat) /\ Len(dw) = n /\ dw # <<>>
      /\ dw[n] = Alien /\ \A i \in 1..n : i # n => dw[i] = d[i]
  <2>1. n \in 1..Len(d) /\ Len(d) = n
    BY <1>1 DEF n
  <2>2. /\ dw \in Seq(Nat) /\ Len(dw) = Len(d) /\ dw[n] = Alien
        /\ \A i \in 1..Len(d) : i # n => dw[i] = d[i]
    BY <1>1, <2>1, SpoiltFacts
  <2> QED BY <1>1, <2>1, <2>2, EmptySeq
<1>8. /\ text \in Seq(Nat) /\ Len(text) = Len(head) + n
      /\ \A i \in 1..Len(head) : text[i] = head[i]
      /\ \A i \in 1..n : text[Len(head) + i] = d[i]
  <2>1. \A q \in Seq(Nat) :
            /\ q \o d \in Seq(Nat) /\ Len(q \o d) = Len(q) + Len(d)
            /\ \A i \in 1..Len(q) : (q \o d)[i] = q[i]
            /\ \A i \in 1..Len(d) : (q \o d)[Len(q) + i] = d[i]
    BY <1>1, Joined
  <2> QED BY <1>5, <1>6, <2>1 DEF n
<1>9. tw = head \o dw
  <2> DEFINE m == Len(text)
             other == head \o dw
  <2>1. /\ other \in Seq(Nat) /\ Len(other) = Len(head) + Len(dw)
        /\ \A i \in 1..Len(head) : other[i] = head[i]
        /\ \A i \in 1..Len(dw) : other[Len(head) + i] = dw[i]
    BY <1>5, <1>7, Joined
  <2>2. m \in Nat \ {0} /\ m = Len(head) + n
    BY <1>1, <1>5, <1>8
  <2>3. /\ tw \in Seq(Nat) /\ Len(tw) = m
        /\ tw[m] = Alien /\ \A i \in 1..m : i # m => tw[i] = text[i]
    <3>1. text \in Seq(Nat) /\ m \in 1..Len(text)
      BY <1>8, <2>2
    <3> QED BY <3>1, SpoiltFacts
  <2> HIDE DEF tw, other, m, dw
  <2>4. ASSUME NEW i \in 1..m PROVE tw[i] = other[i]
    <3>1. CASE i \in 1..Len(head)
      <4>1. i # m
        BY <1>1, <1>5, <2>2, <3>1
      <4> QED BY <1>8, <2>1, <2>3, <3>1, <4>1
    <3>2. CASE i \notin 1..Len(head)
      <4> DEFINE k == i - Len(head)
      <4>1. k \in 1..n /\ i = Len(head) + k /\ (i = m <=> k = n)
        BY <1>1, <1>5, <2>2, <3>2
      <4> HIDE DEF k
      <4>2. other[i] = dw[k]
        BY <1>7, <2>1, <4>1
      <4>3. CASE k = n
        BY <1>7, <2>3, <4>1, <4>2, <4>3
      <4>4. CASE k # n
        BY <1>7, <1>8, <2>3, <4>1, <4>2, <4>4
      <4> QED BY <4>3, <4>4
    <3> QED BY <3>1, <3>2
  <2>5. Len(other) = m
    BY <1>7, <2>1, <2>2
  <2>6. tw = other
    BY <2>1, <2>2, <2>3, <2>4, <2>5, SameSeq
  <2> QED BY <2>6 DEF other
<1> HIDE DEF dw, tw
<1>10. Bare(tw) = dw
  <2>1. Len(dw) > 1 => dw[2] # Ex
    <3> SUFFICES ASSUME Len(dw) > 1 PROVE dw[2] # Ex
      OBVIOUS
    <3>1. 2 \in 1..n
      BY <1>1, <1>7
    <3> QED BY <1>3, <1>4, <1>7, <3>1
  <2>2. 0 \in Nat /\ Ex \in Nat
    BY DEF Ex
  <2>3. Bare((IF prefix THEN Prefix ELSE <<>>) \o dw) = dw
    BY <1>7, <2>1, <2>2, BareFacts
  <2> QED BY <1>9, <2>3 DEF head
<1>11. Len(EvenDigits(dw)) <= 2 * room /\ Wrong(EvenDigits(dw)) # {}
  <2>1. 0 \in Nat /\ 0 \in Digit
    BY Ranges
  <2>2. /\ EvenDigits(dw) \in Seq(Nat)
        /\ Len(dw) % 2 = 0 => EvenDigits(dw) = dw
        /\ Len(dw) % 2 = 1 =>
              /\ Len(EvenDigits(dw)) = Len(dw) + 1
              /\ \A i \in 1..Len(dw) : EvenDigits(dw)[i + 1] = dw[i]
    BY <1>7, <2>1, EvenFacts
  <2>3. /\ Len(d) % 2 = 0 => EvenDigits(d) = d
        /\ Len(d) % 2 = 1 => Len(EvenDigits(d)) = Len(d) + 1
    BY <2>1, EvenFacts
  <2>4. Len(d) = n
    BY DEF n
  <2>5. n % 2 = 0 \/ n % 2 = 1
    BY <1>1
  <2>6. CASE n % 2 = 0
    <3>1. EvenDigits(dw) = dw /\ EvenDigits(d) = d
      BY <1>7, <2>2, <2>3, <2>4, <2>6
    <3>2. n \in Wrong(dw)
      <4>1. n \in DOMAIN dw
        BY <1>1, <1>7
      <4> QED BY <1>3, <1>7, <4>1 DEF Wrong
    <3> QED BY <1>7, <2>4, <3>1, <3>2
  <2>7. CASE n % 2 = 1
    <3> DEFINE e == EvenDigits(dw)
    <3>1. /\ e \in Seq(Nat) /\ Len(e) = n + 1 /\ e[n + 1] = Alien
          /\ Len(e) = Len(EvenDigits(d))
      <4>1. n \in 1..n
        BY <1>1
      <4> QED BY <1>7, <2>2, <2>3, <2>4, <2>7, <4>1
    <3>2. n + 1 \in Wrong(e)
      <4> HIDE DEF e
      <4>1. n + 1 \in DOMAIN e
        BY <1>1, <3>1
      <4> QED BY <1>3, <3>1, <4>1 DEF Wrong
    <3> QED BY <3>1, <3>2
  <2> QED BY <2>5, <2>6, <2>7
<1>12. Bare(tw) \in Seq(Char)
  BY <1>7, <1>10 DEF Char
<1>13. UtilityHexToBin(room, tw, leftTrim, FALSE) = <<>>
  BY <1>10, <1>11, <1>12, HexRefusesWrong
<1> QED BY <1>13 DEF tw

(***************************************************************************)
(* HexRoundTrip for every data and size: an amount, nonce or hash written  *)
(* as a text is read back, a quantity has no leading zero, and a text with *)
(* a wrong character at its end is refused (UtilityBinToHex,               *)
(* UtilityHexToBin).                                                       *)
(***************************************************************************)
THEOREM HexAlwaysReadsBack == DataSpec => []HexRoundTrip
<1>1. DataInv => HexRoundTrip
  <2> SUFFICES ASSUME DataInv,
                      NEW bytes \in {payload, Append(payload, 7)} \ {<<>>},
                      NEW mode \in TrimModes, NEW prefix \in BOOLEAN
               PROVE  LET text == UtilityBinToHex(bytes, mode, prefix, FALSE)
                          read(t) == UtilityHexToBin(Len(bytes), t, mode # "unfmtdata", FALSE)
                      IN  /\ read(text) = UtilityTrimBin(bytes, mode # "unfmtdata", FALSE)
                          /\ mode = "quantity" /\ ~prefix => text[1] # 0 \/ text = <<0>>
                          /\ read([text EXCEPT ![Len(text)] = Alien]) = <<>>
    BY DEF HexRoundTrip
  <2> DEFINE text == UtilityBinToHex(bytes, mode, prefix, FALSE)
             d == TextDigits(bytes, mode)
             n == Len(bytes)
             leftTrim == mode # "unfmtdata"
             wrong == Spoilt(text, Len(text))
  <2>1. bytes \in Seq(Byte) /\ bytes # <<>> /\ n \in Nat \ {0}
    <3>1. bytes \in Seq(Byte) /\ bytes # <<>>
      BY PayloadFacts
    <3> QED BY <3>1, EmptySeq
  <2>2. UtilityHexToBin(n, text, leftTrim, FALSE) = UtilityTrimBin(bytes, leftTrim, FALSE)
    BY <2>1, HexReadsBack
  <2>3. /\ d \in Seq(Digit) /\ d # <<>> /\ Len(EvenDigits(d)) <= 2 * n
        /\ text = (IF prefix THEN Prefix ELSE <<>>) \o d
    BY <2>1, TextFacts
  <2>4. leftTrim \in BOOLEAN
    OBVIOUS
  <2> HIDE DEF text, d, n
  <2>5. UtilityHexToBin(n, wrong, leftTrim, FALSE) = <<>>
    BY <2>1, <2>3, <2>4, WrongAtEnd
  <2>6. ASSUME mode = "quantity", ~prefix
        PROVE  text[1] # 0 \/ text = <<0>>
    <3>1. text = d
      BY <2>3, <2>6, ConcatEmptySeq
    <3>2. Digits(bytes) \in Seq(Digit)
      BY <2>1, DigitsFacts
    <3>3. HexDigits(bytes, mode) = TrimZeros(Digits(bytes))
      BY <2>6 DEF HexDigits
    <3>4. d = IF TrimZeros(Digits(bytes)) # <<>> THEN TrimZeros(Digits(bytes)) ELSE <<0>>
      BY <2>6, <3>3 DEF d, TextDigits
    <3>5. TrimZeros(Digits(bytes)) # <<>> => TrimZeros(Digits(bytes))[1] # 0
      BY <3>2, TrimCase, Ranges
    <3> QED BY <3>1, <3>4, <3>5
  <2> HIDE DEF wrong
  <2> QED BY <2>2, <2>5, <2>6 DEF text, n, wrong, Spoilt
<1> QED BY <1>1, DataAlways, PTL

(***************************************************************************)
(* Base64RoundTrip for every data and size: what base64 makes of the bytes *)
(* of a key is read back, and a text whose first character is foreign is   *)
(* refused (BoAT_base64_encode, BoAT_base64_decode).                       *)
(***************************************************************************)
THEOREM Base64AlwaysReadsBack == DataSpec => []Base64RoundTrip
<1>1. DataInv => Base64RoundTrip
  <2> SUFFICES ASSUME DataInv PROVE Base64RoundTrip
    OBVIOUS
  <2> DEFINE bytes == Append(payload, 7)
             n == Len(bytes)
             text == BoAT_base64_encode(bytes)
             wrong == Spoilt(text, 1)
  <2>1. bytes \in Seq(Byte) /\ n \in Nat \ {0}
    BY PayloadFacts
  <2>2. BoAT_base64_decode(text) = bytes
    BY <2>1, Base64ReadsBack
  <2> HIDE DEF bytes
  <2>3. /\ text \in Seq(Char) /\ UpTo(text) = Sextets(n)
        /\ Sextets(n) \in 0..Len(text)
        /\ \A k \in 1..Sextets(n) : text[k] \in 0..63
    BY <2>1, Base64Text
  <2>4. Sextets(n) >= 1
    BY <2>1 DEF Sextets
  <2> HIDE DEF n, text
  <2>5. text \in Seq(Nat) /\ Len(text) \in Nat /\ 1 \in 1..Len(text) /\ 1 \in 1..Sextets(n)
    BY <2>3, <2>4 DEF Char
  <2>6. /\ Alien \in Nat /\ Alien \notin 0..63 /\ Alien # Pad
        /\ \A c \in 0..63 : c # Pad
    BY DEF Alien, Pad
  <2>7. /\ wrong \in Seq(Nat) /\ Len(wrong) = Len(text) /\ wrong[1] = Alien
        /\ \A i \in 1..Len(text) : i # 1 => wrong[i] = text[i]
    BY <2>5, SpoiltFacts
  <2>8. Ends(wrong) = Ends(text)
    <3>1. DOMAIN wrong = 1..Len(text) /\ DOMAIN text = 1..Len(text)
      BY <2>5, <2>7
    <3>2. text[1] # Pad /\ wrong[1] # Pad
      BY <2>3, <2>5, <2>6, <2>7
    <3> HIDE DEF wrong
    <3>3. \A i \in 1..Len(text) : wrong[i] = Pad <=> text[i] = Pad
      BY <2>7, <3>2
    <3> QED BY <3>1, <3>3 DEF Ends
  <2> HIDE DEF wrong
  <2>9. UpTo(wrong) = UpTo(text)
    BY <2>7, <2>8 DEF UpTo
  <2>10. 1 \in 1..UpTo(wrong) /\ wrong[1] \notin 0..63
    BY <2>3, <2>5, <2>6, <2>7, <2>9
  <2>11. BoAT_base64_decode(wrong) = <<>>
    BY <2>10, Base64RefusesWrong
  <2> QED BY <2>2, <2>11 DEF Base64RoundTrip, bytes, text, wrong, Spoilt
<1> QED BY <1>1, DataAlways, PTL

(***************************************************************************)
(* TlvRoundTrip for every data and size: a value of up to 65535 bytes is   *)
(* read back behind its tag and length whatever follows it, and refused    *)
(* without its last byte (add_TL_withOffset, UtilityGetTLV).               *)
(***************************************************************************)
THEOREM TlvAlwaysReadsBack == DataSpec => []TlvRoundTrip
<1>1. DataInv => TlvRoundTrip
  <2> SUFFICES ASSUME DataInv, Len(Append(payload, 7)) < 256 * 256
               PROVE  LET value == Append(payload, 7)
                          item == add_TL_withOffset(OctetString, value)
                          read == UtilityGetTLV(item \o data)
                      IN  /\ read = [ok |-> TRUE, tag |-> OctetString,
                                     whole |-> Len(item), data |-> value]
                          /\ ~UtilityGetTLV(Front(item)).ok
    BY DEF TlvRoundTrip
  <2> DEFINE value == Append(payload, 7)
             item == ItemOf(OctetString, value)
             n == Len(item)
  <2>1. value \in Seq(Byte) /\ value # <<>> /\ Len(value) \in Word16
    BY PayloadFacts DEF Word16
  <2>2. OctetString \in Byte /\ OctetString # BitString
    BY DEF OctetString, BitString, Byte
  <2> HIDE DEF value
  <2>3. add_TL_withOffset(OctetString, value) = item
    BY <2>1, <2>2, ItemIsAdded
  <2>4. data \in Seq(Byte)
    BY DEF DataInv
  <2>5. UtilityGetTLV(item \o data) =
            [ok |-> TRUE, tag |-> OctetString, whole |-> Len(item), data |-> value]
    BY <2>1, <2>2, <2>4, ItemRead
  <2>6. n \in Nat /\ n >= 1
    <3>1. /\ n = 1 + UtilityGetTLV_LL_from_len(Len(value)) + Len(value)
          /\ UtilityGetTLV_LL_from_len(Len(value)) \in 1..3
      BY <2>1, <2>2, ItemFacts
    <3>2. Len(value) \in Nat
      BY <2>1
    <3> HIDE DEF n
    <3> QED BY <3>1, <3>2
  <2>7. ~UtilityGetTLV(SubSeq(item, 1, n - 1)).ok
    <3>1. \A k \in 0..n - 1 : ~UtilityGetTLV(SubSeq(item, 1, k)).ok
      BY <2>1, <2>2, ItemCut
    <3> HIDE DEF n
    <3>2. n - 1 \in 0..n - 1
      BY <2>6, SMTT(30)
    <3> QED BY <3>1, <3>2
  <2> HIDE DEF item
  <2> QED BY <2>3, <2>5, <2>7 DEF Front, value
<1> QED BY <1>1, DataAlways, PTL

(***************************************************************************)
(* SignatureRoundTrip for every data: the numbers of a signature come back *)
(* from its ASN.1 form (utility_signature_to_asn1, Se05x_API_ECDSASign).   *)
(***************************************************************************)
THEOREM SignatureAlwaysReadsBack == DataSpec => []SignatureRoundTrip
<1>1. DataInv => SignatureRoundTrip
  <2> SUFFICES ASSUME DataInv PROVE SignatureRoundTrip
    OBVIOUS
  <2> DEFINE r == Stretch(32)
             s == <<r[1] % 128>> \o Tail(r)
  <2>1. r \in Seq(Byte) /\ Len(r) = 32
    BY StretchFacts
  <2> HIDE DEF r
  <2>2. s \in Seq(Byte) /\ Len(s) = 32
    <3> DEFINE low == <<r[1] % 128>>
    <3>1. r[1] \in Byte
      BY <2>1, ElementOfSeq
    <3>2. \A b \in Byte : b % 128 \in Byte
      BY DEF Byte
    <3>3. low \in Seq(Byte) /\ Len(low) = 1
      BY <3>1, <3>2
    <3>4. Tail(r) \in Seq(Byte) /\ Len(Tail(r)) = Len(r) - 1
      <4>1. Len(<<>>) = 0
        OBVIOUS
      <4>2. r # <<>>
        <5>1. r = <<>> => Len(r) = Len(<<>>)
          OBVIOUS
        <5> QED BY <2>1, <4>1, <5>1
      <4> QED BY <2>1, <4>2, HeadTailProperties
    <3> HIDE DEF low
    <3>5. low \o Tail(r) \in Seq(Byte) /\ Len(low \o Tail(r)) = Len(low) + Len(Tail(r))
      BY <3>3, <3>4, Joined
    <3> QED BY <2>1, <3>3, <3>4, <3>5 DEF low
  <2> HIDE DEF s
  <2>3. LET asn1   == utility_signature_to_asn1(r \o s)
            inner  == UtilityGetTLV(asn1).data
            first  == UtilityGetTLV(inner)
            second == UtilityGetTLV(SubSeq(inner, first.whole + 1, Len(inner)))
        IN  /\ TrimZeros(first.data) = TrimZeros(r) /\ first.data[1] < 128
            /\ second.data = s /\ first.whole + second.whole = Len(inner)
            /\ SignatureTaken(asn1) = r \o s
    BY <2>1, <2>2, SignatureReadsBack
  <2> QED BY <2>3 DEF SignatureRoundTrip, r, s
<1> QED BY <1>1, DataAlways, PTL

(***************************************************************************)
(* What the conversions promise, together.                                 *)
(***************************************************************************)
THEOREM ConversionsAlwaysReadBack == DataSpec => []ConversionsReadBack
<1>1. HexRoundTrip /\ Base64RoundTrip /\ TlvRoundTrip /\ SignatureRoundTrip
          => ConversionsReadBack
  BY DEF ConversionsReadBack
<1> QED
  BY <1>1, HexAlwaysReadsBack, Base64AlwaysReadsBack, TlvAlwaysReadsBack,
     SignatureAlwaysReadsBack, PTL

-----------------------------------------------------------------------------
(* Induction and recursive functions.                                      *)

LEMMA Induction ==
    ASSUME NEW T, 0 \in T, \A n \in Nat : n \in T => n + 1 \in T
    PROVE  \A n \in Nat : n \in T
<1> DEFINE bad == Nat \ T
<1>1. SUFFICES ASSUME bad # {} PROVE FALSE
  OBVIOUS
<1>2. Min(bad) \in bad /\ \A i \in bad : Min(bad) <= i
  <2>1. bad \subseteq Nat
    OBVIOUS
  <2> HIDE DEF bad
  <2> QED BY <1>1, <2>1, LeastOf
<1>3. Min(bad) # 0 /\ Min(bad) - 1 \in Nat
  BY <1>2
<1>4. Min(bad) - 1 \in T
  BY <1>2, <1>3
<1> QED BY <1>2, <1>3, <1>4

(* The functions that give each number the result of a step on the value   *)
(* before it: there is one.                                                *)
Iterations(V, base, n, step) ==
    {g \in [0..n -> V] : g[0] = base /\ \A i \in 1..n : g[i] = step[i][g[i - 1]]}

LEMMA Iterates ==
    ASSUME NEW V, NEW base \in V, NEW n \in Nat, NEW step \in [1..n -> [V -> V]]
    PROVE  Iterations(V, base, n, step) # {}
<1> DEFINE upTo(k) == \E g \in [0..k -> V] : g[0] = base /\ \A i \in 1..k : g[i] = step[i][g[i - 1]]
           T == {k \in Nat : k <= n => upTo(k)}
<1>1. 0 \in T
  <2> DEFINE g == [i \in 0..0 |-> base]
  <2>1. g \in [0..0 -> V] /\ g[0] = base /\ \A i \in 1..0 : g[i] = step[i][g[i - 1]]
    OBVIOUS
  <2> QED BY <2>1
<1>2. ASSUME NEW k \in Nat, k \in T PROVE k + 1 \in T
  <2>1. SUFFICES ASSUME k + 1 <= n PROVE upTo(k + 1)
    OBVIOUS
  <2>2. PICK g \in [0..k -> V] : g[0] = base /\ \A i \in 1..k : g[i] = step[i][g[i - 1]]
    BY <1>2, <2>1
  <2> DEFINE h == [i \in 0..k + 1 |-> IF i = k + 1 THEN step[k + 1][g[k]] ELSE g[i]]
  <2>3. step[k + 1][g[k]] \in V
    <3>1. k + 1 \in 1..n /\ k \in 0..k
      BY <2>1
    <3> QED BY <2>2, <3>1
  <2>4. \A i \in 0..k + 1 : h[i] \in V
    BY <2>2, <2>3
  <2>5. \A i \in 0..k : h[i] = g[i]
    OBVIOUS
  <2>6. h[k + 1] = step[k + 1][g[k]]
    OBVIOUS
  <2>7. h \in [0..k + 1 -> V]
    BY <2>4
  <2> HIDE DEF h
  <2>8. \A i \in 1..k + 1 : h[i] = step[i][h[i - 1]]
    <3>1. TAKE i \in 1..k + 1
    <3>2. CASE i = k + 1
      BY <2>5, <2>6, <3>2
    <3>3. CASE i # k + 1
      BY <2>2, <2>5, <3>3
    <3> QED BY <3>2, <3>3
  <2>9. h[0] = base
    BY <2>2, <2>5
  <2> QED BY <2>7, <2>8, <2>9
<1> HIDE DEF T
<1>3. \A k \in Nat : k \in T
  BY <1>1, <1>2, Induction
<1>4. upTo(n)
  BY <1>3 DEF T
<1> QED BY <1>4 DEF Iterations

(* Induction up to n. *)
LEMMA InductionTo ==
    ASSUME NEW T, NEW n \in Nat, 0 \in T, \A i \in 1..n : i - 1 \in T => i \in T
    PROVE  \A i \in 0..n : i \in T
<1> DEFINE U == {k \in Nat : k <= n => k \in T}
<1>1. 0 \in U
  OBVIOUS
<1>2. \A k \in Nat : k \in U => k + 1 \in U
  <2>1. SUFFICES ASSUME NEW k \in Nat, k \in T, k + 1 <= n PROVE k + 1 \in T
    OBVIOUS
  <2>2. k + 1 \in 1..n /\ k + 1 - 1 = k
    BY <2>1
  <2> QED BY <2>1, <2>2
<1> HIDE DEF U
<1>3. \A k \in Nat : k \in U
  BY <1>1, <1>2, Induction
<1> QED BY <1>3 DEF U

LEMMA StaysIn ==
    ASSUME NEW V, NEW n \in Nat, NEW f, f[0] \in V,
           \A i \in 1..n : f[i - 1] \in V => f[i] \in V
    PROVE  \A i \in 0..n : f[i] \in V
<1> DEFINE T == {k \in 0..n : f[k] \in V}
<1>1. 0 \in T
  OBVIOUS
<1>2. \A i \in 1..n : i - 1 \in T => i \in T
  OBVIOUS
<1> HIDE DEF T
<1>3. \A i \in 0..n : i \in T
  BY <1>1, <1>2, InductionTo
<1> QED BY <1>3 DEF T

-----------------------------------------------------------------------------
(* Sums.                                                                   *)

(* The recursive function of Total by name. *)
Sums(ns) ==
    CHOOSE sum : sum = [i \in 0 .. Len(ns) |-> IF i = 0 THEN 0 ELSE sum[i - 1] + ns[i]]

LEMMA SumsFacts ==
    ASSUME NEW ns \in Seq(Nat)
    PROVE  /\ Total(ns) = Sums(ns)[Len(ns)]
           /\ Sums(ns) \in [0..Len(ns) -> Nat]
           /\ Sums(ns)[0] = 0
           /\ \A i \in 1..Len(ns) : Sums(ns)[i] = Sums(ns)[i - 1] + ns[i]
<1>1. Total(ns) = Sums(ns)[Len(ns)]
  BY DEF Total, Sums
<1> DEFINE n == Len(ns)
           step == [i \in 1..n |-> [v \in Nat |-> v + ns[i]]]
<1>2. n \in Nat /\ \A i \in 1..n : ns[i] \in Nat
  BY ElementOfSeq
<1>3. step \in [1..n -> [Nat -> Nat]]
  BY <1>2
<1>4. PICK g \in [0..n -> Nat] : g[0] = 0 /\ \A i \in 1..n : g[i] = step[i][g[i - 1]]
  <2>1. 0 \in Nat
    OBVIOUS
  <2> HIDE DEF n, step
  <2>2. Iterations(Nat, 0, n, step) # {}
    BY <1>2, <1>3, <2>1, Iterates
  <2> QED BY <2>2 DEF Iterations
<1>5. \A i \in 1..n : g[i] = g[i - 1] + ns[i]
  <2>1. TAKE i \in 1..n
  <2>2. i - 1 \in 0..n
    BY <1>2
  <2>3. g[i - 1] \in Nat
    <3> HIDE DEF n, step
    <3> QED BY <2>2
  <2> QED BY <1>4, <2>3
<1>6. g = [i \in 0..n |-> IF i = 0 THEN 0 ELSE g[i - 1] + ns[i]]
  BY <1>2, <1>4, <1>5
<1>7. Sums(ns) = [i \in 0..n |-> IF i = 0 THEN 0 ELSE Sums(ns)[i - 1] + ns[i]]
  BY <1>6 DEF Sums
<1>8. Sums(ns)[0] = 0 /\ \A i \in 1..n : Sums(ns)[i] = Sums(ns)[i - 1] + ns[i]
  BY <1>2, <1>7
<1>9. \A i \in 0..n : Sums(ns)[i] \in Nat
  <2>1. ASSUME NEW i \in 1..n, Sums(ns)[i - 1] \in Nat PROVE Sums(ns)[i] \in Nat
    <3>1. ns[i] \in Nat /\ Sums(ns)[i] = Sums(ns)[i - 1] + ns[i]
      BY <1>2, <1>8
    <3> QED BY <2>1, <3>1
  <2>2. Sums(ns)[0] \in Nat
    BY <1>8
  <2> HIDE DEF n
  <2> QED BY <1>2, <2>1, <2>2, StaysIn
<1>10. Sums(ns) \in [0..n -> Nat]
  BY <1>7, <1>9, SMTT(30)
<1> QED BY <1>1, <1>8, <1>10

-----------------------------------------------------------------------------
(* Concatenations.                                                         *)

(* The recursive function of FlattenSeq by name, and the concatenation of  *)
(* the first i of the sequences ss.                                        *)
Joins(ss) ==
    CHOOSE flatten : flatten = [i \in 1..Len(ss) |-> IF i = 1 THEN ss[i] ELSE flatten[i-1] \o ss[i]]
Leading(ss, i) == IF i = 0 THEN <<>> ELSE Joins(ss)[i]

LEMMA JoinsDefined ==
    ASSUME NEW S, NEW ss \in Seq(Seq(S))
    PROVE  Joins(ss) = [i \in 1..Len(ss) |-> IF i = 1 THEN ss[i] ELSE Joins(ss)[i - 1] \o ss[i]]
<1> DEFINE n == Len(ss)
           step == [i \in 1..n |-> [v \in Seq(S) |-> v \o ss[i]]]
<1>1. n \in Nat /\ \A i \in 1..n : ss[i] \in Seq(S)
  BY ElementOfSeq
<1>2. step \in [1..n -> [Seq(S) -> Seq(S)]]
  <2>1. ASSUME NEW i \in 1..n, NEW v \in Seq(S) PROVE v \o ss[i] \in Seq(S)
    <3>1. ss[i] \in Seq(S)
      BY <1>1
    <3> QED BY <3>1, ConcatProperties
  <2> QED BY <2>1
<1>3. PICK g \in [0..n -> Seq(S)] : g[0] = <<>> /\ \A i \in 1..n : g[i] = step[i][g[i - 1]]
  <2>1. <<>> \in Seq(S)
    BY EmptySeq
  <2> HIDE DEF n, step
  <2>2. Iterations(Seq(S), <<>>, n, step) # {}
    BY <1>1, <1>2, <2>1, Iterates
  <2> QED BY <2>2 DEF Iterations
<1>4. \A i \in 1..n : g[i] = g[i - 1] \o ss[i]
  <2>1. TAKE i \in 1..n
  <2>2. g[i - 1] \in Seq(S)
    <3>1. i - 1 \in 0..n
      BY <1>1
    <3> QED BY <3>1
  <2> QED BY <1>3, <2>2
<1> DEFINE h == [i \in 1..n |-> g[i]]
<1>5. ASSUME NEW i \in 1..n PROVE h[i] = IF i = 1 THEN ss[i] ELSE h[i - 1] \o ss[i]
  <2>1. h[i] = g[i - 1] \o ss[i]
    BY <1>4
  <2>2. CASE i = 1
    <3>1. g[i - 1] = <<>> /\ ss[i] \in Seq(S)
      BY <1>1, <1>3, <2>2
    <3> QED BY <2>1, <2>2, <3>1, ConcatEmptySeq
  <2>3. CASE i # 1
    <3>1. i - 1 \in 1..n
      BY <1>1, <2>3
    <3> QED BY <2>1, <2>3, <3>1
  <2> QED BY <2>2, <2>3
<1>6. h = [i \in 1..n |-> IF i = 1 THEN ss[i] ELSE h[i - 1] \o ss[i]]
  BY <1>5
<1>7. \E f : f = [i \in 1..Len(ss) |-> IF i = 1 THEN ss[i] ELSE f[i - 1] \o ss[i]]
  <2> HIDE DEF h
  <2> QED BY <1>6
<1> QED BY <1>7 DEF Joins

LEMMA LeadingFacts ==
    ASSUME NEW S, NEW ss \in Seq(Seq(S))
    PROVE  /\ FlattenSeq(ss) = Leading(ss, Len(ss))
           /\ Leading(ss, 0) = <<>>
           /\ \A i \in 0..Len(ss) : Leading(ss, i) \in Seq(S)
           /\ \A i \in 1..Len(ss) : Leading(ss, i) = Leading(ss, i - 1) \o ss[i]
<1> DEFINE n == Len(ss)
<1>1. n \in Nat /\ \A i \in 1..n : ss[i] \in Seq(S)
  BY ElementOfSeq
<1>2. FlattenSeq(ss) = IF n = 0 THEN ss ELSE Joins(ss)[n]
  BY DEF FlattenSeq, Joins
<1>3. FlattenSeq(ss) = Leading(ss, n)
  <2>1. n = 0 => ss = <<>>
    BY EmptySeq
  <2> QED BY <1>2, <2>1 DEF Leading
<1>4. ASSUME NEW i \in 1..n PROVE Leading(ss, i) = Leading(ss, i - 1) \o ss[i]
  <2> DEFINE f == Joins(ss)
  <2>1. f = [j \in 1..n |-> IF j = 1 THEN ss[j] ELSE f[j - 1] \o ss[j]]
    BY JoinsDefined
  <2> HIDE DEF f
  <2>2. f[i] = IF i = 1 THEN ss[i] ELSE f[i - 1] \o ss[i]
    BY <2>1
  <2>3. Leading(ss, i) = f[i]
    BY DEF Leading, f
  <2>4. CASE i = 1
    <3>1. Leading(ss, i - 1) = <<>> /\ ss[i] \in Seq(S)
      BY <1>1, <2>4 DEF Leading
    <3> QED BY <2>2, <2>3, <2>4, <3>1, ConcatEmptySeq
  <2>5. CASE i # 1
    <3>1. Leading(ss, i - 1) = f[i - 1]
      BY <1>1, <2>5 DEF Leading, f
    <3> QED BY <2>2, <2>3, <2>5, <3>1
  <2> QED BY <2>4, <2>5
<1>5. Leading(ss, 0) = <<>>
  BY DEF Leading
<1>6. \A i \in 0..n : Leading(ss, i) \in Seq(S)
  <2> DEFINE f == [i \in 0..n |-> Leading(ss, i)]
  <2>1. f[0] \in Seq(S)
    <3>1. f[0] = <<>>
      BY <1>1, <1>5
    <3> HIDE DEF f
    <3> QED BY <3>1
  <2>2. ASSUME NEW i \in 1..n, f[i - 1] \in Seq(S) PROVE f[i] \in Seq(S)
    <3>1. Leading(ss, i - 1) \in Seq(S) /\ ss[i] \in Seq(S)
      BY <1>1, <2>2
    <3>2. Leading(ss, i) \in Seq(S)
      BY <1>4, <3>1, ConcatProperties
    <3> QED BY <3>2
  <2>3. \A i \in 0..n : f[i] = Leading(ss, i)
    OBVIOUS
  <2> HIDE DEF f
  <2>4. \A i \in 0..n : f[i] \in Seq(S)
    <3> HIDE DEF n
    <3> QED BY <1>1, <2>1, <2>2, StaysIn
  <2> QED BY <2>3, <2>4
<1> QED BY <1>3, <1>4, <1>5, <1>6

(* t stands in s behind its first "at" elements. *)
Holds(s, at, t) == at + Len(t) <= Len(s) /\ \A k \in 1..Len(t) : s[at + k] = t[k]

LEMMA HoldsWhole ==
    ASSUME NEW S, NEW s \in Seq(S)
    PROVE  Holds(s, 0, s)
  BY DEF Holds

LEMMA HoldsJoined ==
    ASSUME NEW S, NEW s \in Seq(S), NEW t \in Seq(S)
    PROVE  /\ s \o t \in Seq(S) /\ Len(s \o t) = Len(s) + Len(t)
           /\ Holds(s \o t, 0, s) /\ Holds(s \o t, Len(s), t)
<1>1. Len(s) \in Nat /\ Len(t) \in Nat
  OBVIOUS
<1>2. /\ s \o t \in Seq(S) /\ Len(s \o t) = Len(s) + Len(t)
      /\ \A i \in 1..Len(s) : (s \o t)[i] = s[i]
      /\ \A i \in 1..Len(t) : (s \o t)[Len(s) + i] = t[i]
  BY Joined
<1> DEFINE j == s \o t
<1> HIDE DEF j
<1>3. Holds(j, 0, s) /\ Holds(j, Len(s), t)
  BY <1>1, <1>2 DEF Holds, j
<1> QED BY <1>2, <1>3 DEF j

LEMMA HoldsWithin ==
    ASSUME NEW S, NEW s \in Seq(S), NEW t \in Seq(S), NEW u \in Seq(S),
           NEW at \in Nat, NEW off \in Nat, Holds(s, at, t), Holds(t, off, u)
    PROVE  Holds(s, at + off, u)
<1>1. Len(s) \in Nat /\ Len(t) \in Nat /\ Len(u) \in Nat
  OBVIOUS
<1>2. at + off + Len(u) <= Len(s)
  BY <1>1 DEF Holds
<1>3. ASSUME NEW k \in 1..Len(u) PROVE s[at + off + k] = u[k]
  <2>1. off + k \in 1..Len(t) /\ at + (off + k) = at + off + k
    BY <1>1 DEF Holds
  <2>2. t[off + k] = u[k]
    BY DEF Holds
  <2>3. s[at + (off + k)] = t[off + k]
    BY <2>1 DEF Holds
  <2> QED BY <2>1, <2>2, <2>3
<1> QED BY <1>2, <1>3 DEF Holds

(* What is held in s is found in the parts of it. *)
LEMMA HoldsParts ==
    ASSUME NEW S, NEW s \in Seq(S), NEW t \in Seq(S), NEW u \in Seq(S),
           NEW at \in Nat, Holds(s, at, t \o u)
    PROVE  Holds(s, at, t) /\ Holds(s, at + Len(t), u)
<1>1. /\ t \o u \in Seq(S)
      /\ Holds(t \o u, 0, t) /\ Holds(t \o u, Len(t), u)
  BY HoldsJoined
<1>2. Len(t) \in Nat /\ at + 0 = at
  OBVIOUS
<1> DEFINE j == t \o u
<1>3. j \in Seq(S) /\ Holds(s, at, j) /\ Holds(j, 0, t) /\ Holds(j, Len(t), u)
  BY <1>1
<1> HIDE DEF j
<1>4. Holds(s, at + 0, t)
  BY <1>3, HoldsWithin
<1>5. Holds(s, at + Len(t), u)
  BY <1>2, <1>3, HoldsWithin
<1> QED BY <1>2, <1>4, <1>5

LEMMA HoldsSlice ==
    ASSUME NEW S, NEW s \in Seq(S), NEW t \in Seq(S), NEW at \in Nat, Holds(s, at, t)
    PROVE  SubSeq(s, at + 1, at + Len(t)) = t
<1>1. Len(s) \in Nat /\ Len(t) \in Nat
  OBVIOUS
<1> DEFINE f == at + 1
           l == at + Len(t)
<1>2. f \in Int /\ l \in Int /\ 1 <= f /\ l <= Len(s) /\ f <= l + 1 /\ l - f + 1 = Len(t)
  BY <1>1 DEF Holds
<1>3. \A i \in 1..Len(t) : f + i - 1 = at + i
  BY <1>1
<1> HIDE DEF f, l
<1>4. /\ SubSeq(s, f, l) \in Seq(S) /\ Len(SubSeq(s, f, l)) = l - f + 1
      /\ \A i \in 1..l - f + 1 : SubSeq(s, f, l)[i] = s[f + i - 1]
  BY <1>2, Sliced
<1>5. \A i \in 1..Len(t) : SubSeq(s, f, l)[i] = t[i]
  BY <1>2, <1>3, <1>4 DEF Holds
<1>6. SubSeq(s, f, l) = t
  BY <1>1, <1>2, <1>4, <1>5, SameSeq
<1> QED BY <1>6 DEF f, l

LEMMA HoldsElement ==
    ASSUME NEW S, NEW s \in Seq(S), NEW t \in Seq(S), NEW at \in Nat, Holds(s, at, t)
    PROVE  \A k \in 1..Len(t) : at + k \in 1..Len(s) /\ ByteAt(s, at + k) = t[k]
<1>1. Len(s) \in Nat /\ Len(t) \in Nat /\ DOMAIN s = 1..Len(s)
  OBVIOUS
<1>2. ASSUME NEW k \in 1..Len(t) PROVE at + k \in 1..Len(s) /\ s[at + k] = t[k]
  BY <1>1 DEF Holds
<1> QED BY <1>1, <1>2 DEF ByteAt

(* Each of the sequences joined stands behind those before it. *)
LEMMA LeadingGrows ==
    ASSUME NEW S, NEW ss \in Seq(Seq(S)), NEW j \in 0..Len(ss)
    PROVE  \A i \in 0..j : Holds(Leading(ss, j), 0, Leading(ss, i))
<1> DEFINE n == Len(ss)
           T == {k \in 0..n : \A i \in 0..k : Holds(Leading(ss, k), 0, Leading(ss, i))}
<1>1. n \in Nat /\ \A i \in 1..n : ss[i] \in Seq(S)
  BY ElementOfSeq
<1>2. \A i \in 0..n : Leading(ss, i) \in Seq(S)
  BY LeadingFacts
<1>3. \A i \in 1..n : Leading(ss, i) = Leading(ss, i - 1) \o ss[i]
  BY LeadingFacts
<1>4. \A i \in 0..n : Holds(Leading(ss, i), 0, Leading(ss, i))
  BY <1>2, HoldsWhole
<1>5. 0 \in T
  BY <1>1, <1>4
<1>6. ASSUME NEW k \in 1..n, k - 1 \in T PROVE k \in T
  <2> DEFINE m == k - 1
  <2>1. k \in 0..n /\ m \in 0..n
    BY <1>1
  <2>2. Holds(Leading(ss, k), 0, Leading(ss, m))
    <3>1. Leading(ss, k) = Leading(ss, m) \o ss[k] /\ ss[k] \in Seq(S) /\ Leading(ss, m) \in Seq(S)
      BY <1>1, <1>2, <1>3, <2>1
    <3> HIDE DEF m
    <3>2. \A s, t \in Seq(S) : Holds(s \o t, 0, s)
      BY HoldsJoined
    <3> QED BY <3>1, <3>2
  <2>3. ASSUME NEW i \in 0..m PROVE Holds(Leading(ss, k), 0, Leading(ss, i))
    <3>1. Holds(Leading(ss, m), 0, Leading(ss, i)) /\ i \in 0..n
      BY <1>6, <2>1
    <3>2. Leading(ss, k) \in Seq(S) /\ Leading(ss, m) \in Seq(S) /\ Leading(ss, i) \in Seq(S)
      BY <1>2, <2>1, <3>1
    <3>3. Holds(Leading(ss, k), 0 + 0, Leading(ss, i))
      BY <2>2, <3>1, <3>2, HoldsWithin
    <3> QED BY <3>3
  <2>4. \A i \in 0..k : i = k \/ i \in 0..m
    BY <2>1
  <2> QED BY <1>4, <2>1, <2>3, <2>4
<1> HIDE DEF T
<1>7. \A k \in 0..n : k \in T
  BY <1>1, <1>5, <1>6, InductionTo
<1> QED BY <1>7 DEF T

LEMMA PartStands ==
    ASSUME NEW S, NEW ss \in Seq(Seq(S)), NEW i \in 1..Len(ss)
    PROVE  /\ Leading(ss, i - 1) \in Seq(S) /\ ss[i] \in Seq(S) /\ FlattenSeq(ss) \in Seq(S)
           /\ Len(Leading(ss, i)) = Len(Leading(ss, i - 1)) + Len(ss[i])
           /\ Holds(FlattenSeq(ss), Len(Leading(ss, i - 1)), ss[i])
<1> DEFINE n == Len(ss)
           before == Leading(ss, i - 1)
           all == Leading(ss, n)
<1>1. n \in Nat /\ ss[i] \in Seq(S) /\ i - 1 \in 0..n /\ i \in 0..n /\ n \in 0..n
  BY ElementOfSeq
<1>2. /\ before \in Seq(S) /\ Leading(ss, i) \in Seq(S) /\ all \in Seq(S)
      /\ Leading(ss, i) = before \o ss[i] /\ FlattenSeq(ss) = all
  BY <1>1, LeadingFacts
<1>3. Holds(all, 0, Leading(ss, i))
  BY <1>1, LeadingGrows
<1> HIDE DEF before, all
<1>4. Len(Leading(ss, i)) = Len(before) + Len(ss[i])
  BY <1>1, <1>2, Joined
<1>5. Holds(all, 0 + Len(before), ss[i])
  BY <1>1, <1>2, <1>3, HoldsParts
<1>6. 0 + Len(before) = Len(before)
  BY <1>2
<1> QED BY <1>1, <1>2, <1>4, <1>5, <1>6 DEF before

(* The length of a concatenation is the sum of the lengths. *)
LEMMA LengthOfJoined ==
    ASSUME NEW S, NEW ss \in Seq(Seq(S)), NEW ns \in Seq(Nat), Len(ns) = Len(ss),
           \A i \in 1..Len(ss) : ns[i] = Len(ss[i])
    PROVE  /\ \A i \in 0..Len(ss) : Len(Leading(ss, i)) = Sums(ns)[i]
           /\ Len(FlattenSeq(ss)) = Total(ns)
<1> DEFINE n == Len(ss)
           T == {k \in 0..n : Len(Leading(ss, k)) = Sums(ns)[k]}
<1>1. n \in Nat
  OBVIOUS
<1>2. 0 \in T
  <2>1. Sums(ns)[0] = 0
    BY SumsFacts
  <2> QED BY <2>1 DEF Leading
<1>3. ASSUME NEW k \in 1..n, k - 1 \in T PROVE k \in T
  <2>1. Len(Leading(ss, k)) = Len(Leading(ss, k - 1)) + Len(ss[k])
    BY PartStands
  <2>2. Sums(ns)[k] = Sums(ns)[k - 1] + ns[k]
    BY SumsFacts
  <2>3. ns[k] = Len(ss[k])
    OBVIOUS
  <2>4. Len(Leading(ss, k - 1)) = Sums(ns)[k - 1]
    BY <1>3
  <2>5. Len(Leading(ss, k)) = Sums(ns)[k]
    BY <2>1, <2>2, <2>3, <2>4
  <2> QED BY <2>5
<1> HIDE DEF T
<1>4. \A k \in 0..n : k \in T
  BY <1>1, <1>2, <1>3, InductionTo
<1>5. \A i \in 0..n : Len(Leading(ss, i)) = Sums(ns)[i]
  BY <1>1, <1>4 DEF T
<1>6. FlattenSeq(ss) = Leading(ss, n)
  BY LeadingFacts
<1>7. Total(ns) = Sums(ns)[n]
  BY SumsFacts
<1> QED BY <1>1, <1>5, <1>6, <1>7

-----------------------------------------------------------------------------
(* Length and value.                                                       *)

(* The length bytes at any place of s, as UtilityGetLVData_L finds them.   *)
LEMMA LvForms ==
    ASSUME NEW s, NEW i, ByteAt(s, i) \in Byte
    PROVE  /\ ByteAt(s, i) < 128 => UtilityGetLVData_L(s, i) = ByteAt(s, i)
           /\ ByteAt(s, i) = 129 => UtilityGetLVData_L(s, i) = ByteAt(s, i + 1)
           /\ ByteAt(s, i) = 130 =>
                  UtilityGetLVData_L(s, i) = 256 * ByteAt(s, i + 1) + ByteAt(s, i + 2)
<1> DEFINE b == ByteAt(s, i)
           Rest == 128 .. 255 \ {129, 130}
<1>1. b \in Nat
  BY Ranges
<1>2. UtilityGetLVData_L(s, i) = CASE b < 128 -> b
                                   [] b = 129 -> ByteAt(s, i + 1)
                                   [] b = 130 -> 256 * ByteAt(s, i + 1) + ByteAt(s, i + 2)
                                   [] b \in Rest -> -1
  BY DEF UtilityGetLVData_L
<1>3. \A x \in Nat : x < 128 \/ x = 129 \/ x = 130 => x \notin Rest
  OBVIOUS
<1> HIDE DEF b, Rest
<1>4. ASSUME b < 128 PROVE UtilityGetLVData_L(s, i) = b
  <2>1. b # 129 /\ b # 130 /\ b \notin Rest
    BY <1>1, <1>3, <1>4
  <2> QED BY <1>2, <1>4, <2>1
<1>5. ASSUME b = 129 PROVE UtilityGetLVData_L(s, i) = ByteAt(s, i + 1)
  <2>1. ~(b < 128) /\ b # 130 /\ b \notin Rest
    BY <1>1, <1>3, <1>5
  <2> QED BY <1>2, <1>5, <2>1
<1>6. ASSUME b = 130
      PROVE  UtilityGetLVData_L(s, i) = 256 * ByteAt(s, i + 1) + ByteAt(s, i + 2)
  <2>1. ~(b < 128) /\ b # 129 /\ b \notin Rest
    BY <1>1, <1>3, <1>6
  <2> QED BY <1>2, <1>6, <2>1
<1> QED BY <1>4, <1>5, <1>6 DEF b

LEMMA LvRead ==
    ASSUME NEW n \in Word16, NEW s \in Seq(Byte), NEW at \in Nat, Holds(s, at, LengthBytes(n))
    PROVE  UtilityGetLVData_L(s, at + 1) = n
<1> DEFINE bytes == LengthBytes(n)
           ll == UtilityGetTLV_LL_from_len(n)
           b == ByteAt(s, at + 1)
<1>1. /\ bytes \in Seq(Byte) /\ Len(bytes) = ll /\ ll \in 1..3
      /\ ll = 1 => bytes[1] = n /\ n < 128
      /\ ll = 2 => bytes[1] = 129 /\ bytes[2] = n
      /\ ll = 3 => bytes[1] = 130 /\ 256 * bytes[2] + bytes[3] = n
  BY LengthFacts
<1> HIDE DEF bytes, ll
<1>2. \A k \in 1..ll : ByteAt(s, at + k) = bytes[k]
  <2>1. bytes \in Seq(Byte) /\ Holds(s, at, bytes)
    BY <1>1 DEF bytes
  <2>2. \A k \in 1..Len(bytes) : ByteAt(s, at + k) = bytes[k]
    BY <2>1, HoldsElement
  <2> QED BY <1>1, <2>2
<1>3. \A k \in 1..ll : bytes[k] \in Byte
  BY <1>1, ElementOfSeq
<1>4. b \in Byte
  BY <1>1, <1>2, <1>3
<1>5. at + 1 + 1 = at + 2 /\ at + 1 + 2 = at + 3
  OBVIOUS
<1>6. CASE ll = 1
  <2>1. b = n /\ b < 128
    BY <1>1, <1>2, <1>6
  <2> QED BY <1>4, <2>1, LvForms
<1>7. CASE ll = 2
  <2>1. b = 129 /\ ByteAt(s, at + 2) = n
    BY <1>1, <1>2, <1>7
  <2>2. UtilityGetLVData_L(s, at + 1) = ByteAt(s, at + 1 + 1)
    BY <1>4, <2>1, LvForms
  <2> QED BY <1>5, <2>1, <2>2
<1>8. CASE ll = 3
  <2>1. b = 130 /\ 256 * ByteAt(s, at + 2) + ByteAt(s, at + 3) = n
    BY <1>1, <1>2, <1>8
  <2>2. UtilityGetLVData_L(s, at + 1) = 256 * ByteAt(s, at + 1 + 1) + ByteAt(s, at + 1 + 2)
    BY <1>4, <2>1, LvForms
  <2> QED BY <1>5, <2>1, <2>2
<1> QED BY <1>1, <1>6, <1>7, <1>8

LEMMA LvFacts ==
    ASSUME NEW v \in Seq(Byte), v # <<>>, Len(v) \in Word16
    PROVE  /\ add_L_withOffset(v) = LengthBytes(Len(v)) \o v
           /\ LengthBytes(Len(v)) \in Seq(Byte)
           /\ Len(LengthBytes(Len(v))) = UtilityGetTLV_LL_from_len(Len(v))
           /\ UtilityGetTLV_LL_from_len(Len(v)) \in 1..3
           /\ add_L_withOffset(v) \in Seq(Byte)
           /\ Len(add_L_withOffset(v)) = UtilityGetTLV_LL_from_len(Len(v)) + Len(v)
<1> DEFINE bytes == LengthBytes(Len(v))
           ll == UtilityGetTLV_LL_from_len(Len(v))
<1>1. bytes \in Seq(Byte) /\ Len(bytes) = ll /\ ll \in 1..3
  BY LengthFacts
<1>2. add_L_withOffset(v) = bytes \o v
  BY DEF add_L_withOffset
<1> HIDE DEF bytes, ll
<1>3. bytes \o v \in Seq(Byte) /\ Len(bytes \o v) = Len(bytes) + Len(v)
  <2>1. bytes \in Seq(Byte)
    BY <1>1
  <2> QED BY <2>1, HoldsJoined
<1> QED BY <1>1, <1>2, <1>3 DEF bytes, ll

(* A length with its value is read at any place where it stands. *)
LEMMA LvStands ==
    ASSUME NEW v \in Seq(Byte), v # <<>>, Len(v) \in Word16,
           NEW s \in Seq(Byte), NEW at \in Nat, Holds(s, at, add_L_withOffset(v))
    PROVE  /\ UtilityGetLVData_L(s, at + 1) = Len(v)
           /\ Holds(s, at + UtilityGetTLV_LL_from_len(Len(v)), v)
<1> DEFINE bytes == LengthBytes(Len(v))
<1>1. /\ add_L_withOffset(v) = bytes \o v /\ bytes \in Seq(Byte)
      /\ Len(bytes) = UtilityGetTLV_LL_from_len(Len(v))
  BY LvFacts
<1> HIDE DEF bytes
<1>2. Holds(s, at, bytes) /\ Holds(s, at + Len(bytes), v)
  BY <1>1, HoldsParts
<1>3. UtilityGetLVData_L(s, at + 1) = Len(v)
  BY <1>2, LvRead DEF bytes
<1> QED BY <1>1, <1>2, <1>3

-----------------------------------------------------------------------------
(* Records.                                                                *)

(* The fields of a record as they are written one behind the other. *)
Parts(fields) == [i \in DOMAIN fields |-> add_L_withOffset(fields[i])]

(* Fields that have bytes, and lengths that can be written. *)
Writable(fields) ==
    /\ fields \in Seq(Seq(Byte)) /\ fields # <<>>
    /\ \A i \in 1..Len(fields) : fields[i] # <<>> /\ Len(fields[i]) \in Word16
    /\ Len(FlattenSeq(Parts(fields))) \in Word16

LEMMA PartsFacts ==
    ASSUME NEW fields, Writable(fields)
    PROVE  /\ Parts(fields) \in Seq(Seq(Byte)) /\ Len(Parts(fields)) = Len(fields)
           /\ Len(fields) \in Nat \ {0}
           /\ \A i \in 1..Len(fields) :
                /\ fields[i] \in Seq(Byte) /\ Len(fields[i]) \in Nat \ {0}
                /\ Parts(fields)[i] = add_L_withOffset(fields[i])
                /\ Parts(fields)[i] \in Seq(Byte)
                /\ UtilityGetTLV_LL_from_len(Len(fields[i])) \in 1..3
                /\ Len(Parts(fields)[i]) = UtilityGetTLV_LL_from_len(Len(fields[i])) + Len(fields[i])
<1> DEFINE n == Len(fields)
           p == Parts(fields)
<1>1. fields \in Seq(Seq(Byte)) /\ n \in Nat \ {0} /\ DOMAIN fields = 1..n
  BY EmptySeq DEF Writable
<1>2. \A i \in 1..n : fields[i] \in Seq(Byte) /\ fields[i] # <<>> /\ Len(fields[i]) \in Word16
  BY <1>1, ElementOfSeq DEF Writable
<1>3. p = [i \in 1..n |-> add_L_withOffset(fields[i])]
  BY <1>1 DEF Parts
<1> HIDE DEF n, p
<1>4. ASSUME NEW i \in 1..n
      PROVE  /\ Len(fields[i]) \in Nat \ {0}
             /\ p[i] = add_L_withOffset(fields[i])
             /\ p[i] \in Seq(Byte)
             /\ UtilityGetTLV_LL_from_len(Len(fields[i])) \in 1..3
             /\ Len(p[i]) = UtilityGetTLV_LL_from_len(Len(fields[i])) + Len(fields[i])
  <2>1. fields[i] \in Seq(Byte) /\ fields[i] # <<>> /\ Len(fields[i]) \in Word16
    BY <1>2
  <2>2. Len(fields[i]) \in Nat \ {0}
    BY <2>1, EmptySeq
  <2>3. p[i] = add_L_withOffset(fields[i])
    BY <1>3
  <2> QED BY <2>1, <2>2, <2>3, LvFacts
<1>5. p \in Seq(Seq(Byte)) /\ Len(p) = n
  <2>1. p = [i \in 1..n |-> p[i]]
    BY <1>3
  <2>2. \A i \in 1..n : p[i] \in Seq(Byte)
    BY <1>4
  <2> QED BY <1>1, <2>1, <2>2, Built
<1> QED BY <1>1, <1>2, <1>4, <1>5 DEF n, p

(* The step of ReadRecord and its recursive function, by name. *)
TakeStep(area, objects, whole, before, want) ==
    LET len  == UtilityGetLVData_L(area, before.offset + 1)
        from == before.offset + UtilityGetTLV_LL_from_len(len)
    IN  IF /\ before.ok
           /\ len > 0
           /\ want \in {AnyLen, len}
           /\ from - objects + len <= whole
           /\ from + len <= Len(area)
        THEN [ok |-> TRUE, offset |-> from + len,
              fields |-> Append(before.fields, SubSeq(area, from + 1, from + len))]
        ELSE [before EXCEPT !.ok = FALSE]

Takes(area, lens, objects, whole) ==
    CHOOSE take : take =
        [i \in 0..Len(lens) |->
            IF i = 0 THEN [ok |-> whole >= 0, offset |-> objects, fields |-> <<>>]
            ELSE TakeStep(area, objects, whole, take[i - 1], lens[i])]

LEMMA ReadSteps ==
    ASSUME NEW area, NEW start, NEW lens, NEW whole, NEW objects,
           whole = UtilityGetLVData_L(area, start + 1),
           objects = start + UtilityGetTLV_LL_from_len(whole)
    PROVE  ReadRecord(area, start, lens) =
               IF Takes(area, lens, objects, whole)[Len(lens)].ok
               THEN [ok |-> TRUE, fields |-> Takes(area, lens, objects, whole)[Len(lens)].fields,
                     outlen |-> whole + UtilityGetTLV_LL_from_len(whole)]
               ELSE Refused
  BY DEF ReadRecord, Takes, TakeStep

Taken(offset, fields) == [ok |-> TRUE, offset |-> offset, fields |-> fields]
Before(objects, fields, i) ==
    Taken(objects + Len(Leading(Parts(fields), i)), SubSeq(fields, 1, i))

(* One field is taken from where it stands. *)
LEMMA FieldTaken ==
    ASSUME NEW area \in Seq(Byte), NEW objects \in Nat, NEW whole \in Nat,
           NEW o \in Nat, NEW fs, NEW v \in Seq(Byte), v # <<>>, Len(v) \in Word16,
           Holds(area, o, add_L_withOffset(v)),
           o + Len(add_L_withOffset(v)) <= objects + whole,
           NEW want, want \in {AnyLen, Len(v)}
    PROVE  TakeStep(area, objects, whole, Taken(o, fs), want) =
               Taken(o + Len(add_L_withOffset(v)), Append(fs, v))
<1> DEFINE before == Taken(o, fs)
           n == Len(v)
           ll == UtilityGetTLV_LL_from_len(n)
           written == add_L_withOffset(v)
<1>1. ll \in 1..3 /\ Len(written) = ll + n
  BY LvFacts
<1>2. UtilityGetLVData_L(area, o + 1) = n /\ Holds(area, o + ll, v)
  BY LvStands
<1>3. n \in Nat /\ n > 0
  BY EmptySeq
<1>4. before.ok = TRUE /\ before.offset = o /\ before.fields = fs
  BY DEF Taken
<1>5. SubSeq(area, o + ll + 1, o + ll + n) = v
  <2> DEFINE at == o + ll
  <2>1. at \in Nat /\ Holds(area, at, v)
    BY <1>1, <1>2
  <2> HIDE DEF at
  <2>2. SubSeq(area, at + 1, at + Len(v)) = v
    BY <2>1, HoldsSlice
  <2> QED BY <2>2 DEF at
<1>6. o + ll + n <= Len(area)
  BY <1>2 DEF Holds
<1>7. o + ll - objects + n <= whole /\ o + ll + n = o + Len(written)
  <2>1. o + Len(written) <= objects + whole
    OBVIOUS
  <2> HIDE DEF ll, n, written
  <2> QED BY <1>1, <1>3, <2>1
<1>8. want \in {AnyLen, n}
  OBVIOUS
<1> HIDE DEF before, n, ll, written
<1>9. TakeStep(area, objects, whole, before, want) =
          Taken(o + ll + n, Append(fs, SubSeq(area, o + ll + 1, o + ll + n)))
  <2> DEFINE len == UtilityGetLVData_L(area, before.offset + 1)
             from == before.offset + UtilityGetTLV_LL_from_len(len)
  <2>1. TakeStep(area, objects, whole, before, want) =
            IF /\ before.ok /\ len > 0 /\ want \in {AnyLen, len}
               /\ from - objects + len <= whole /\ from + len <= Len(area)
            THEN Taken(from + len, Append(before.fields, SubSeq(area, from + 1, from + len)))
            ELSE [before EXCEPT !.ok = FALSE]
    BY DEF TakeStep, Taken
  <2>2. len = n /\ from = o + ll
    BY <1>2, <1>4 DEF ll
  <2> HIDE DEF len, from
  <2>3. before.ok
    BY <1>4
  <2>4. len > 0 /\ want \in {AnyLen, len}
    BY <1>3, <1>8, <2>2
  <2>5. from - objects + len <= whole /\ from + len <= Len(area)
    BY <1>1, <1>3, <1>6, <1>7, <2>2
  <2>6. TakeStep(area, objects, whole, before, want) =
            Taken(from + len, Append(before.fields, SubSeq(area, from + 1, from + len)))
    BY <2>1, <2>3, <2>4, <2>5, Zenon
  <2> QED BY <1>4, <2>2, <2>6, Zenon
<1> QED BY <1>5, <1>7, <1>9 DEF before, written, n

LEMMA TakesEach ==
    ASSUME NEW fields, Writable(fields), NEW area \in Seq(Byte), NEW objects \in Nat,
           Holds(area, objects, FlattenSeq(Parts(fields))),
           NEW lens \in Seq(Nat), Len(lens) = Len(fields),
           \A i \in 1..Len(fields) : lens[i] \in {AnyLen, Len(fields[i])}
    PROVE  Takes(area, lens, objects, Len(FlattenSeq(Parts(fields))))[Len(fields)] =
               Before(objects, fields, Len(fields))
<1> DEFINE n == Len(fields)
           p == Parts(fields)
           flat == FlattenSeq(p)
           whole == Len(flat)
           B(i) == Before(objects, fields, i)
           First == [ok |-> whole >= 0, offset |-> objects, fields |-> <<>>]
           Step(v, i) == TakeStep(area, objects, whole, v, lens[i])
           g == [i \in 0..n |-> B(i)]
           take == Takes(area, lens, objects, whole)
<1>1. /\ p \in Seq(Seq(Byte)) /\ Len(p) = n /\ n \in Nat \ {0}
      /\ \A i \in 1..n : fields[i] \in Seq(Byte) /\ p[i] = add_L_withOffset(fields[i]) /\ p[i] \in Seq(Byte)
  BY PartsFacts
<1>2. \A i \in 1..n : fields[i] # <<>> /\ Len(fields[i]) \in Word16
  BY DEF Writable
<1>3. fields \in Seq(Seq(Byte))
  BY DEF Writable
<1> HIDE DEF p
<1>4. /\ flat = Leading(p, n) /\ Leading(p, 0) = <<>>
      /\ \A i \in 0..n : Leading(p, i) \in Seq(Byte)
  BY <1>1, LeadingFacts
<1>5. whole \in Nat
  BY <1>1, <1>4
<1>6. B(0) = First
  <2>1. Len(Leading(p, 0)) = 0
    BY <1>4
  <2>2. SubSeq(fields, 1, 0) = <<>>
    BY <1>3
  <2>3. (whole >= 0) = TRUE /\ objects + Len(Leading(p, 0)) = objects
    BY <1>5, <2>1
  <2>4. B(0) = Taken(objects + Len(Leading(p, 0)), SubSeq(fields, 1, 0))
    BY DEF Before, p
  <2> HIDE DEF whole, B
  <2> QED BY <2>2, <2>3, <2>4, Zenon DEF Taken
<1>7. ASSUME NEW i \in 1..n PROVE B(i) = Step(B(i - 1), i)
  <2> DEFINE o == objects + Len(Leading(p, i - 1))
             v == fields[i]
             fs == SubSeq(fields, 1, i - 1)
  <2>1. v \in Seq(Byte) /\ v # <<>> /\ Len(v) \in Word16 /\ p[i] = add_L_withOffset(v)
    BY <1>1, <1>2
  <2>2. i - 1 \in 0..n /\ Leading(p, i - 1) \in Seq(Byte) /\ Len(Leading(p, i - 1)) \in Nat
    <3>1. i - 1 \in 0..n
      BY <1>1
    <3>2. Leading(p, i - 1) \in Seq(Byte)
      BY <1>4, <3>1
    <3> QED BY <3>1, <3>2
  <2>3. /\ Len(Leading(p, i)) = Len(Leading(p, i - 1)) + Len(p[i])
        /\ Holds(flat, Len(Leading(p, i - 1)), p[i])
    BY <1>1, PartStands
  <2>4. flat \in Seq(Byte)
    BY <1>1, <1>4
  <2>5. Holds(area, o, p[i])
    <3>1. p[i] \in Seq(Byte) /\ Holds(area, objects, flat)
      BY <1>1 DEF p
    <3> HIDE DEF flat
    <3> QED BY <2>2, <2>3, <2>4, <3>1, HoldsWithin
  <2>6. o + Len(p[i]) <= objects + whole
    <3>1. Len(Leading(p, i - 1)) + Len(p[i]) <= Len(flat)
      BY <2>3 DEF Holds
    <3>2. Len(p[i]) \in Nat
      BY <1>1
    <3> DEFINE before == Len(Leading(p, i - 1))
               l == Len(p[i])
    <3>3. before \in Nat /\ l \in Nat /\ before + l <= whole
      BY <2>2, <3>1, <3>2
    <3> HIDE DEF before, l, whole
    <3>4. objects + before + l <= objects + whole
      BY <1>5, <3>3
    <3> QED BY <3>4 DEF before, l
  <2>7. lens[i] \in {AnyLen, Len(v)}
    OBVIOUS
  <2>8. o \in Nat
    BY <2>2
  <2>9. Append(fs, v) = SubSeq(fields, 1, i)
    BY <1>1, <1>3
  <2>10. B(i - 1) = Taken(o, fs)
    BY DEF Before, p
  <2>11. B(i) = Taken(o + Len(p[i]), SubSeq(fields, 1, i))
    <3>1. objects + Len(Leading(p, i)) = o + Len(p[i])
      <4>1. Len(p[i]) \in Nat
        BY <1>1
      <4> DEFINE before == Len(Leading(p, i - 1))
                 l == Len(p[i])
      <4>2. before \in Nat /\ l \in Nat /\ Len(Leading(p, i)) = before + l
        BY <2>2, <2>3, <4>1
      <4> HIDE DEF before, l
      <4>3. objects + Len(Leading(p, i)) = objects + before + l
        BY <4>2
      <4> QED BY <4>3 DEF before, l
    <3> QED BY <3>1 DEF Before, p
  <2> DEFINE want == lens[i]
             fit == add_L_withOffset(v)
  <2> HIDE DEF o, v, fs, whole, B, want
  <2>12. Holds(area, o, fit) /\ o + Len(fit) <= objects + whole /\ fit = p[i] /\ want \in {AnyLen, Len(v)}
    BY <2>1, <2>5, <2>6, <2>7 DEF want
  <2>13. TakeStep(area, objects, whole, Taken(o, fs), want) =
             Taken(o + Len(fit), Append(fs, v))
    BY <1>5, <2>1, <2>8, <2>12, FieldTaken
  <2>14. Step(Taken(o, fs), i) =
             Taken(o + Len(p[i]), Append(fs, v))
    BY <2>12, <2>13 DEF want
  <2> QED BY <2>9, <2>10, <2>11, <2>14
<1> HIDE DEF B, First, Step, whole, n
<1>8. g = [i \in 0..n |-> IF i = 0 THEN First ELSE Step(g[i - 1], i)]
  <2>1. \A i \in 1..n : i - 1 \in 0..n
    BY <1>1
  <2> QED BY <1>1, <1>6, <1>7, <2>1
<1>9. take = [i \in 0..n |-> IF i = 0 THEN First ELSE Step(take[i - 1], i)]
  <2>1. Len(lens) = n
    BY DEF n
  <2> HIDE DEF g
  <2> QED BY <1>8, <2>1 DEF Takes, First, Step
<1> HIDE DEF take
<1> DEFINE T == {i \in 0..n : take[i] = B(i)}
<1>10. 0 \in T
  BY <1>1, <1>6, <1>9
<1>11. \A i \in 1..n : i - 1 \in T => i \in T
  BY <1>1, <1>7, <1>9
<1> HIDE DEF T
<1>12. \A i \in 0..n : i \in T
  BY <1>1, <1>10, <1>11, InductionTo
<1>13. take[n] = B(n)
  BY <1>1, <1>12 DEF T
<1> QED BY <1>13 DEF take, B, n, whole, flat, p

(* What is written for a record, and that its length is the length computed. *)
LEMMA RecordFacts ==
    ASSUME NEW fields, Writable(fields)
    PROVE  LET flat == FlattenSeq(Parts(fields)) ll == UtilityGetTLV_LL_from_len(Len(flat))
           IN  /\ flat \in Seq(Byte) /\ flat # <<>> /\ Len(flat) \in Word16
               /\ ll \in 1..3
               /\ RecordData(fields) = add_L_withOffset(flat)
               /\ RecordData(fields) \in Seq(Byte)
               /\ Len(RecordData(fields)) = Len(flat) + ll
               /\ RecordLen(fields) = Len(RecordData(fields))
<1> DEFINE n == Len(fields)
           p == Parts(fields)
           flat == FlattenSeq(p)
           whole == Len(flat)
           ll == UtilityGetTLV_LL_from_len(whole)
           ns == [i \in 1..n |-> UtilityGetTLV_LL_from_len(Len(fields[i])) + Len(fields[i])]
<1>1. /\ p \in Seq(Seq(Byte)) /\ Len(p) = n /\ n \in Nat \ {0}
      /\ \A i \in 1..n :
              /\ fields[i] \in Seq(Byte) /\ Len(fields[i]) \in Nat \ {0}
              /\ p[i] = add_L_withOffset(fields[i])
              /\ p[i] \in Seq(Byte)
              /\ UtilityGetTLV_LL_from_len(Len(fields[i])) \in 1..3
              /\ Len(p[i]) = UtilityGetTLV_LL_from_len(Len(fields[i])) + Len(fields[i])
  BY PartsFacts
<1>2. fields \in Seq(Seq(Byte)) /\ whole \in Word16
  BY DEF Writable
<1> HIDE DEF p
<1>3. /\ flat = Leading(p, n) /\ Leading(p, n) \in Seq(Byte)
  <2>1. FlattenSeq(p) = Leading(p, Len(p)) /\ \A i \in 0..Len(p) : Leading(p, i) \in Seq(Byte)
    BY <1>1, LeadingFacts
  <2>2. n \in 0..n
    BY <1>1
  <2> QED BY <1>1, <2>1, <2>2
<1>4. flat # <<>>
  <2>9. n \in Nat \ {0} /\ Len(p) = n /\ \A i \in 1..n : Len(fields[i]) \in Nat \ {0}
             /\ UtilityGetTLV_LL_from_len(Len(fields[i])) \in 1..3
             /\ Len(p[i]) = UtilityGetTLV_LL_from_len(Len(fields[i])) + Len(fields[i])
    BY <1>1
  <2> HIDE DEF n
  <2>1. n \in 1..Len(p)
    BY <2>9
  <2>2. Len(Leading(p, n)) = Len(Leading(p, n - 1)) + Len(p[n])
    <3>1. p \in Seq(Seq(Byte))
      BY <1>1
    <3> QED BY <2>1, <3>1, PartStands
  <2>3. Len(p[n]) > 0
    <3> DEFINE l == Len(fields[n])
               b == UtilityGetTLV_LL_from_len(Len(fields[n]))
    <3>1. n \in 1..n /\ l \in Nat \ {0} /\ b \in 1..3 /\ Len(p[n]) = b + l
      BY <2>9
    <3> HIDE DEF l, b
    <3> QED BY <3>1
  <2>4. Len(Leading(p, n - 1)) \in Nat
    <3>1. n - 1 \in 0..n
      BY <2>9
    <3>2. Leading(p, n - 1) \in Seq(Byte)
      BY <1>1, <2>9, <3>1, LeadingFacts
    <3> QED BY <3>2
  <2>5. Len(p[n]) \in Nat
    BY <2>9
  <2>6. Len(flat) # 0
    <3> DEFINE l == Len(p[n])
               b == Len(Leading(p, n - 1))
    <3>1. l \in Nat /\ b \in Nat /\ l > 0 /\ Len(flat) = b + l
      BY <1>3, <2>2, <2>3, <2>4, <2>5
    <3> HIDE DEF l, b
    <3> QED BY <3>1
  <2> HIDE DEF flat
  <2> QED BY <2>6
<1>5. RecordData(fields) = add_L_withOffset(flat)
  BY DEF RecordData, Parts, p
<1>6. FieldsLen(fields) = Total(ns)
  <2>1. DOMAIN fields = 1..n
    BY <1>2
  <2> QED BY <2>1, Zenon DEF FieldsLen
<1>7. flat \in Seq(Byte)
  BY <1>3
<1> HIDE DEF flat
<1>8. ll \in 1..3 /\ Len(add_L_withOffset(flat)) = ll + whole /\ add_L_withOffset(flat) \in Seq(Byte)
  BY <1>2, <1>4, <1>7, LvFacts
<1>9. whole \in Nat
  BY <1>7
<1>10. Total(ns) = whole
  <2>1. ns \in Seq(Nat) /\ Len(ns) = n /\ \A i \in 1..n : ns[i] = Len(p[i])
    <3>1. \A i \in 1..n : ns[i] \in Nat /\ ns[i] = Len(p[i])
      BY <1>1
    <3>2. ns = [i \in 1..n |-> ns[i]]
      OBVIOUS
    <3> HIDE DEF ns
    <3> QED BY <1>1, <3>1, <3>2, Built
  <2> HIDE DEF ns
  <2>2. Len(FlattenSeq(p)) = Total(ns)
    BY <1>1, <2>1, LengthOfJoined
  <2> QED BY <2>2 DEF flat
<1>11. RecordLen(fields) = whole + ll
  BY <1>6, <1>10 DEF RecordLen
<1> HIDE DEF whole, ll
<1>12. Len(RecordData(fields)) = whole + ll
  BY <1>5, <1>8, <1>9
<1> QED BY <1>2, <1>4, <1>5, <1>7, <1>8, <1>11, <1>12 DEF p, flat, whole, ll

(* The lengths a reader asks of the fields are those they have, and the    *)
(* result of reading them all.                                             *)
Agrees(lens, fields) ==
    /\ lens \in Seq(Nat) /\ Len(lens) = Len(fields)
    /\ \A i \in 1..Len(fields) : lens[i] \in {AnyLen, Len(fields[i])}
AsWritten(fields) == [ok |-> TRUE, fields |-> fields, outlen |-> Len(RecordData(fields))]

(***************************************************************************)
(* A record of any fields that it has room for is read back from wherever  *)
(* it stands, field by field, by a reader that asks for the lengths the    *)
(* fields have, and the next record begins behind it                       *)
(* (boatkeypair.c, network_ethereum.c, network_platon.c, network_quorum.c).*)
(***************************************************************************)
THEOREM RecordReadsBack ==
    ASSUME NEW fields, Writable(fields), NEW area \in Seq(Byte), NEW start \in Nat,
           Holds(area, start, RecordData(fields)),
           NEW lens, Agrees(lens, fields)
    PROVE  ReadRecord(area, start, lens) = AsWritten(fields)
<1> DEFINE n == Len(fields)
           flat == FlattenSeq(Parts(fields))
           whole == Len(flat)
           ll == UtilityGetTLV_LL_from_len(whole)
           objects == start + ll
           take == Takes(area, lens, objects, whole)[n]
<1>1. /\ flat \in Seq(Byte) /\ flat # <<>> /\ whole \in Word16 /\ ll \in 1..3
      /\ RecordData(fields) = add_L_withOffset(flat)
      /\ Len(RecordData(fields)) = whole + ll
  BY RecordFacts
<1>2. fields \in Seq(Seq(Byte)) /\ n \in Nat
  BY DEF Writable
<1>3. /\ UtilityGetLVData_L(area, start + 1) = whole
      /\ Holds(area, objects, flat)
  <2>1. Holds(area, start, add_L_withOffset(flat))
    BY <1>1
  <2> HIDE DEF flat
  <2> QED BY <1>1, <2>1, LvStands
<1>4. objects \in Nat
  BY <1>1
<1>5. take = Before(objects, fields, n)
  <2> HIDE DEF objects
  <2> QED BY <1>3, <1>4, TakesEach DEF Agrees
<1>6. SubSeq(fields, 1, n) = fields
  BY <1>2
<1>7. take.ok = TRUE /\ take.fields = fields
  <2>1. take = Taken(objects + Len(Leading(Parts(fields), n)), SubSeq(fields, 1, n))
    BY <1>5 DEF Before
  <2> HIDE DEF take
  <2> QED BY <1>6, <2>1 DEF Taken
<1> HIDE DEF whole
<1>8. ReadRecord(area, start, lens) =
             IF Takes(area, lens, objects, whole)[Len(lens)].ok
             THEN [ok |-> TRUE, fields |-> Takes(area, lens, objects, whole)[Len(lens)].fields,
                   outlen |-> whole + UtilityGetTLV_LL_from_len(whole)]
             ELSE Refused
  BY <1>3, ReadSteps
<1>9. ReadRecord(area, start, lens) =
             IF take.ok THEN [ok |-> TRUE, fields |-> take.fields, outlen |-> whole + ll]
             ELSE Refused
  BY <1>8 DEF Agrees
<1> HIDE DEF take, ll
<1> QED BY <1>1, <1>7, <1>9 DEF AsWritten

(* A few fields of at most 128 bytes can always be written. *)
LEMMA ShortRecord ==
    ASSUME NEW fields \in Seq(Seq(Byte)), fields # <<>>, Len(fields) <= 8,
           \A i \in 1..Len(fields) : fields[i] # <<>> /\ Len(fields[i]) <= 128
    PROVE  Writable(fields)
<1> DEFINE n == Len(fields)
           p == Parts(fields)
           T == {i \in 0..n : Len(Leading(p, i)) <= 131 * i}
<1>1. n \in Nat /\ n # 0
  BY EmptySeq
<1>2. \A i \in 1..n : fields[i] \in Seq(Byte) /\ fields[i] # <<>> /\ Len(fields[i]) \in Word16
                      /\ Len(fields[i]) <= 128
  <2>1. \A i \in 1..n : fields[i] \in Seq(Byte)
    BY <1>1, ElementOfSeq
  <2>2. \A i \in 1..n : Len(fields[i]) \in Nat
    BY <2>1
  <2> QED BY <2>1, <2>2 DEF Word16
<1>3. \A i \in 1..n : /\ p[i] = add_L_withOffset(fields[i]) /\ p[i] \in Seq(Byte)
                      /\ Len(p[i]) <= 131
  <2>1. TAKE i \in 1..n
  <2> DEFINE v == fields[i]
             ll == UtilityGetTLV_LL_from_len(Len(v))
  <2>2. v \in Seq(Byte) /\ v # <<>> /\ Len(v) \in Word16 /\ Len(v) <= 128 /\ Len(v) \in Nat
    BY <1>2 DEF Word16
  <2>3. p[i] = add_L_withOffset(v)
    BY DEF Parts
  <2> HIDE DEF v, p
  <2>4. ll \in 1..3 /\ Len(add_L_withOffset(v)) = ll + Len(v) /\ add_L_withOffset(v) \in Seq(Byte)
    BY <2>2, LvFacts
  <2> HIDE DEF ll
  <2> QED BY <2>2, <2>3, <2>4 DEF v
<1>4. p \in Seq(Seq(Byte)) /\ Len(p) = n
  <2>1. p = [i \in 1..n |-> p[i]]
    BY DEF Parts
  <2> HIDE DEF p
  <2> QED BY <1>1, <1>3, <2>1, Built
<1> HIDE DEF n, p
<1>5. 0 \in T
  <2>1. Leading(p, 0) = <<>>
    BY DEF Leading
  <2>2. Len(Leading(p, 0)) = 0
    BY <2>1
  <2> QED BY <1>1, <2>2
<1>6. ASSUME NEW i \in 1..n, i - 1 \in T PROVE i \in T
  <2> DEFINE a == Len(Leading(p, i - 1))
             b == Len(p[i])
  <2>1. Len(Leading(p, i)) = a + b /\ a \in Nat /\ b \in Nat
    <3>1. i \in 1..Len(p)
      BY <1>4
    <3>2. Leading(p, i - 1) \in Seq(Byte) /\ p[i] \in Seq(Byte)
           /\ Len(Leading(p, i)) = Len(Leading(p, i - 1)) + Len(p[i])
      BY <1>4, <3>1, PartStands
    <3> QED BY <3>2
  <2>2. a <= 131 * (i - 1) /\ b <= 131
    BY <1>3, <1>6
  <2> HIDE DEF a, b
  <2>3. a + b <= 131 * i /\ i \in 0..n
    BY <1>1, <2>1, <2>2
  <2> QED BY <2>1, <2>3
<1> HIDE DEF T
<1>7. \A i \in 0..n : i \in T
  BY <1>1, <1>5, <1>6, InductionTo
<1>8. FlattenSeq(p) = Leading(p, n) /\ Leading(p, n) \in Seq(Byte)
  <2>1. FlattenSeq(p) = Leading(p, Len(p)) /\ \A i \in 0..Len(p) : Leading(p, i) \in Seq(Byte)
    BY <1>4, LeadingFacts
  <2>2. n \in 0..n
    BY <1>1
  <2> QED BY <1>4, <2>1, <2>2
<1>9. Len(FlattenSeq(p)) \in Word16
  <2>1. Len(Leading(p, n)) <= 131 * n /\ n <= 8
    <3>1. n \in 0..n
      BY <1>1
    <3> QED BY <1>7, <3>1 DEF T, n
  <2>2. Len(Leading(p, n)) \in Nat
    BY <1>8
  <2> QED BY <1>1, <1>8, <2>1, <2>2 DEF Word16
<1> QED BY <1>2, <1>9 DEF Writable, n, p

(* Two records one behind the other. *)
LEMMA BothReadBack ==
    ASSUME NEW one, Writable(one), NEW two, Writable(two),
           NEW lens, Agrees(lens, one), Agrees(lens, two)
    PROVE  LET area == RecordData(one) \o RecordData(two)
           IN  /\ ReadRecord(area, 0, lens) = AsWritten(one)
               /\ ReadRecord(area, Len(RecordData(one)), lens) = AsWritten(two)
<1> DEFINE a == RecordData(one)
           b == RecordData(two)
           area == a \o b
<1>1. \A f : Writable(f) => RecordData(f) \in Seq(Byte)
  <2>1. SUFFICES ASSUME NEW f, Writable(f) PROVE RecordData(f) \in Seq(Byte)
    OBVIOUS
  <2> QED BY <2>1, RecordFacts
<1>2. a \in Seq(Byte) /\ b \in Seq(Byte)
  BY <1>1
<1> HIDE DEF a, b
<1>3. area \in Seq(Byte) /\ Holds(area, 0, a) /\ Holds(area, Len(a), b) /\ Len(a) \in Nat
  BY <1>2, HoldsJoined
<1> HIDE DEF area
<1>4. ReadRecord(area, 0, lens) = AsWritten(one)
  <2>1. Holds(area, 0, RecordData(one)) /\ 0 \in Nat
    BY <1>3 DEF a
  <2> QED BY <1>3, <2>1, RecordReadsBack
<1>5. ReadRecord(area, Len(a), lens) = AsWritten(two)
  <2> DEFINE at == Len(a)
  <2>1. Holds(area, at, RecordData(two)) /\ at \in Nat
    BY <1>3 DEF b
  <2> HIDE DEF at
  <2>2. ReadRecord(area, at, lens) = AsWritten(two)
    BY <1>3, <2>1, RecordReadsBack
  <2> QED BY <2>2 DEF at
<1> QED BY <1>4, <1>5 DEF area, a, b

(* The powers of 256 that the code uses.  The provers compute a power only *)
(* when both numbers are written out.                                      *)
Exponent == {k \in Nat : k < 4}

LEMMA Powers ==
    /\ \A k : k = 0 => 256 ^ k = 1
    /\ \A k : k = 1 => 256 ^ k = 256
    /\ \A k : k = 2 => 256 ^ k = 65536
    /\ \A k : k = 3 => 256 ^ k = 16777216
    /\ \A k \in Exponent : 256 ^ k \in Nat \ {0}
<1>1. \A k \in Exponent : k = 0 \/ k = 1 \/ k = 2 \/ k = 3
  BY DEF Exponent
<1>2. \A k : k = 0 => 256 ^ k = 1
  <2>1. ASSUME NEW k, k = 0 PROVE 256 ^ k = 256 ^ 0
    BY <2>1, Zenon
  <2> QED BY <2>1, SMT
<1>3. \A k : k = 1 => 256 ^ k = 256
  <2>1. ASSUME NEW k, k = 1 PROVE 256 ^ k = 256 ^ 1
    BY <2>1, Zenon
  <2> QED BY <2>1, SMT
<1>4. \A k : k = 2 => 256 ^ k = 65536
  <2>1. ASSUME NEW k, k = 2 PROVE 256 ^ k = 256 ^ 2
    BY <2>1, Zenon
  <2> QED BY <2>1, SMT
<1>5. \A k : k = 3 => 256 ^ k = 16777216
  <2>1. ASSUME NEW k, k = 3 PROVE 256 ^ k = 256 ^ 3
    BY <2>1, Zenon
  <2> QED BY <2>1, SMT
<1>6. \A k \in Exponent : 256 ^ k \in Nat \ {0}
  <2>1. TAKE k \in Exponent
  <2>2. CASE k = 0
    BY <1>2, <2>2
  <2>3. CASE k = 1
    BY <1>3, <2>3
  <2>4. CASE k = 2
    BY <1>4, <2>4
  <2>5. CASE k = 3
    BY <1>5, <2>5
  <2> QED BY <1>1, <2>2, <2>3, <2>4, <2>5
<1> QED BY <1>2, <1>3, <1>4, <1>5, <1>6

LEMMA OctetsFacts ==
    ASSUME NEW n \in Nat
    PROVE  Octets(n, 4) \in Seq(Byte) /\ Len(Octets(n, 4)) = 4
<1> DEFINE o == Octets(n, 4)
           digit(d) == (n \div d) % 256
<1>1. o = [i \in 1..4 |-> (n \div 256 ^ (4 - i)) % 256]
  BY DEF Octets
<1>2. \A d \in Nat \ {0} : digit(d) \in Byte
  BY DEF Byte
<1>3. \A i \in 1..4 : i = 1 \/ i = 2 \/ i = 3 \/ i = 4
  OBVIOUS
<1>4. \A i \in 1..4 : 256 ^ (4 - i) \in Nat \ {0}
  <2>1. \A k \in Exponent : 256 ^ k \in Nat \ {0}
    BY Powers
  <2>2. \A i \in 1..4 : 4 - i \in Exponent
    BY DEF Exponent
  <2> QED BY <2>1, <2>2
<1>5. \A i \in 1..4 : o[i] \in Byte
  <2>1. TAKE i \in 1..4
  <2>2. digit(256 ^ (4 - i)) \in Byte
    BY <1>2, <1>4
  <2>3. o[i] = digit(256 ^ (4 - i))
    BY <1>1
  <2> QED BY <2>2, <2>3
<1>6. o = [i \in 1..4 |-> o[i]]
  BY <1>1
<1> HIDE DEF o
<1>7. 4 \in Nat
  OBVIOUS
<1>8. o \in Seq(Byte) /\ Len(o) = 4
  BY <1>5, <1>6, <1>7, Built
<1> QED BY <1>8 DEF o

(* Records of four and of five short fields, and the lengths asked of them. *)
Small(v) == v \in Seq(Byte) /\ v # <<>> /\ Len(v) <= 128

LEMMA IsSmall ==
    ASSUME NEW v \in Seq(Byte), Len(v) # 0, Len(v) <= 128
    PROVE  Small(v)
  BY EmptySeq DEF Small

LEMMA FiveFields ==
    ASSUME NEW a, NEW b, NEW c, NEW d, NEW e,
           Small(a), Small(b), Small(c), Small(d), Small(e), Len(a) = 1, Len(e) = 64,
           NEW lens, lens = <<1, AnyLen, AnyLen, AnyLen, 64>>
    PROVE  /\ Writable(<<a, b, c, d, e>>) /\ Len(<<a, b, c, d, e>>) = 5
           /\ Agrees(lens, <<a, b, c, d, e>>)
<1> DEFINE f == <<a, b, c, d, e>>
           n == Len(f)
<1>1. n = 5 /\ f[1] = a /\ f[2] = b /\ f[3] = c /\ f[4] = d /\ f[5] = e
  OBVIOUS
<1>2. f \in Seq(Seq(Byte)) /\ f # <<>>
  BY DEF Small
<1>3. /\ lens \in Seq(Nat) /\ Len(lens) = 5
      /\ lens[1] = 1 /\ lens[2] = AnyLen /\ lens[3] = AnyLen /\ lens[4] = AnyLen /\ lens[5] = 64
  BY DEF AnyLen
<1> HIDE DEF f, n
<1>4. \A i \in 1..n : i = 1 \/ i = 2 \/ i = 3 \/ i = 4 \/ i = 5
  BY <1>1
<1>5. \A i \in 1..n : Small(f[i])
  BY <1>1, <1>4, Zenon
<1>6. Writable(f)
  <2>1. \A i \in 1..Len(f) : f[i] # <<>> /\ Len(f[i]) <= 128
    BY <1>5 DEF Small, n
  <2>2. Len(f) <= 8
    BY <1>1 DEF n
  <2> QED BY <1>2, <2>1, <2>2, ShortRecord
<1>7. Agrees(lens, f)
  <2>1. \A i \in 1..n : lens[i] = AnyLen \/ lens[i] = Len(f[i])
    BY <1>1, <1>3, <1>4
  <2> QED BY <1>1, <1>3, <2>1 DEF Agrees, n
<1> QED BY <1>1, <1>6, <1>7 DEF f, n

LEMMA FourFields ==
    ASSUME NEW a, NEW b, NEW c, NEW d, Small(a), Small(b), Small(c), Small(d), Len(a) = 1,
           NEW lens, lens = <<1, AnyLen, AnyLen, AnyLen>>
    PROVE  /\ Writable(<<a, b, c, d>>) /\ Len(<<a, b, c, d>>) = 4
           /\ Agrees(lens, <<a, b, c, d>>)
<1> DEFINE f == <<a, b, c, d>>
           n == Len(f)
<1>1. n = 4 /\ f[1] = a /\ f[2] = b /\ f[3] = c /\ f[4] = d
  OBVIOUS
<1>2. f \in Seq(Seq(Byte)) /\ f # <<>>
  BY DEF Small
<1>3. /\ lens \in Seq(Nat) /\ Len(lens) = 4
      /\ lens[1] = 1 /\ lens[2] = AnyLen /\ lens[3] = AnyLen /\ lens[4] = AnyLen
  BY DEF AnyLen
<1> HIDE DEF f, n
<1>4. \A i \in 1..n : i = 1 \/ i = 2 \/ i = 3 \/ i = 4
  BY <1>1
<1>5. \A i \in 1..n : Small(f[i])
  BY <1>1, <1>4, Zenon
<1>6. Writable(f)
  <2>1. \A i \in 1..Len(f) : f[i] # <<>> /\ Len(f[i]) <= 128
    BY <1>5 DEF Small, n
  <2>2. Len(f) <= 8
    BY <1>1 DEF n
  <2> QED BY <1>2, <2>1, <2>2, ShortRecord
<1>7. Agrees(lens, f)
  <2>1. \A i \in 1..n : lens[i] = AnyLen \/ lens[i] = Len(f[i])
    BY <1>1, <1>3, <1>4
  <2> QED BY <1>1, <1>3, <2>1 DEF Agrees, n
<1> QED BY <1>1, <1>6, <1>7 DEF f, n

KeypairLens == <<1, AnyLen, AnyLen, AnyLen, 64>>
NetworkLens == <<1, AnyLen, AnyLen, AnyLen>>

LEMMA KeypairWritable ==
    ASSUME DataInv, size # 0, size <= 127, NEW i \in 1..2
    PROVE  /\ Writable(KeypairFields(KeypairAt(i))) /\ Len(KeypairFields(KeypairAt(i))) = 5
           /\ Agrees(KeypairLens, KeypairFields(KeypairAt(i)))
<1> DEFINE f == KeypairFields(KeypairAt(i))
           key == Stretch(64)
           p == payload
           format == <<i, 0, 0, 0>>
           type == <<1, 0, 0, 0>>
           index == <<i>>
<1>1. p \in Seq(Byte) /\ Len(p) = size
  BY StretchFacts DEF payload, DataInv
<1>2. key \in Seq(Byte) /\ Len(key) = 64
  BY StretchFacts
<1>3. i \in Byte /\ 0 \in Byte /\ 1 \in Byte
  BY DEF Byte
<1>4. f = <<index, p, format, type, key>>
  BY DEF KeypairFields, KeypairAt, Enum
<1> HIDE DEF key, p, f
<1>5. /\ index \in Seq(Byte) /\ format \in Seq(Byte) /\ type \in Seq(Byte)
      /\ Len(index) = 1 /\ Len(format) = 4 /\ Len(type) = 4
  BY <1>3
<1> HIDE DEF index, format, type
<1>6. Small(p)
  <2>1. size \in Nat /\ size <= 128
    BY DEF DataInv
  <2> QED BY <1>1, <2>1, IsSmall
<1>7. Small(index) /\ Small(format) /\ Small(type) /\ Small(key)
  <2>1. Small(index)
    <3>1. index \in Seq(Byte) /\ Len(index) # 0 /\ Len(index) <= 128
      BY <1>5
    <3> QED BY <3>1, IsSmall
  <2>2. Small(format)
    <3>1. format \in Seq(Byte) /\ Len(format) # 0 /\ Len(format) <= 128
      BY <1>5
    <3> QED BY <3>1, IsSmall
  <2>3. Small(type)
    <3>1. type \in Seq(Byte) /\ Len(type) # 0 /\ Len(type) <= 128
      BY <1>5
    <3> QED BY <3>1, IsSmall
  <2>4. Small(key)
    <3>1. key \in Seq(Byte) /\ Len(key) # 0 /\ Len(key) <= 128
      BY <1>2
    <3> QED BY <3>1, IsSmall
  <2> QED BY <2>1, <2>2, <2>3, <2>4
<1>8. Writable(f) /\ Len(f) = 5 /\ Agrees(KeypairLens, f)
  BY <1>2, <1>4, <1>5, <1>6, <1>7, FiveFields DEF KeypairLens
<1> QED BY <1>8 DEF f

LEMMA NetworkWritable ==
    ASSUME DataInv, size # 0, size <= 127, NEW i \in 1..2
    PROVE  /\ Writable(NetworkFields(NetworkAt(i))) /\ Len(NetworkFields(NetworkAt(i))) = 4
           /\ Agrees(NetworkLens, NetworkFields(NetworkAt(i)))
<1> DEFINE f == NetworkFields(NetworkAt(i))
           chain == Octets(7 * i, 4)
           end == <<0>>
           url == payload \o end
           index == <<i>>
           eip == <<1>>
<1>1. payload \in Seq(Byte) /\ Len(payload) = size
  BY StretchFacts DEF payload, DataInv
<1>2. chain \in Seq(Byte) /\ Len(chain) = 4
  <2>1. 7 * i \in Nat
    OBVIOUS
  <2> QED BY <2>1, OctetsFacts
<1>3. i \in Byte /\ 0 \in Byte /\ 1 \in Byte
  BY DEF Byte
<1>4. f = <<index, chain, eip, url>>
  BY DEF NetworkFields, NetworkAt, Text
<1> HIDE DEF chain, f
<1>5. /\ index \in Seq(Byte) /\ eip \in Seq(Byte) /\ end \in Seq(Byte)
      /\ Len(index) = 1 /\ Len(eip) = 1 /\ Len(end) = 1
  BY <1>3
<1> HIDE DEF index, eip, end
<1>6. url \in Seq(Byte) /\ Len(url) = size + 1
  <2>1. end \in Seq(Byte) /\ Len(end) = 1
    BY <1>5
  <2>2. url \in Seq(Byte) /\ Len(url) = Len(payload) + Len(end)
    BY <1>1, <2>1, Joined
  <2> QED BY <1>1, <2>1, <2>2
<1> HIDE DEF url
<1>7. Small(url)
  <2> DEFINE long == size + 1
  <2>1. long \in Nat /\ long # 0 /\ long <= 128
    BY DEF DataInv
  <2>2. url \in Seq(Byte) /\ Len(url) = long
    BY <1>6
  <2> HIDE DEF long
  <2> QED BY <2>1, <2>2, IsSmall
<1>8. Small(index) /\ Small(chain) /\ Small(eip)
  <2>1. Small(index)
    <3>1. index \in Seq(Byte) /\ Len(index) # 0 /\ Len(index) <= 128
      BY <1>5
    <3> QED BY <3>1, IsSmall
  <2>2. Small(chain)
    <3>1. chain \in Seq(Byte) /\ Len(chain) # 0 /\ Len(chain) <= 128
      BY <1>2
    <3> QED BY <3>1, IsSmall
  <2>3. Small(eip)
    <3>1. eip \in Seq(Byte) /\ Len(eip) # 0 /\ Len(eip) <= 128
      BY <1>5
    <3> QED BY <3>1, IsSmall
  <2> QED BY <2>1, <2>2, <2>3
<1>9. Writable(f) /\ Len(f) = 4 /\ Agrees(NetworkLens, f)
  BY <1>4, <1>5, <1>7, <1>8, FourFields DEF NetworkLens
<1> QED BY <1>9 DEF f

LEMMA KeypairsReadBack ==
    ASSUME DataInv, size # 0, size <= 127
    PROVE  ReadsBack(BoATKeypair_Get_DataCtx_Data, KeypairFields,
                     BoATKeypair_GetKeypairFromNvram, KeypairAt)
<1> DEFINE one == KeypairFields(KeypairAt(1))
           two == KeypairFields(KeypairAt(2))
           area == RecordData(one) \o RecordData(two)
<1>1. 1 \in 1..2 /\ 2 \in 1..2
  OBVIOUS
<1>2. /\ Writable(one) /\ Len(one) = 5 /\ Agrees(KeypairLens, one)
      /\ Writable(two) /\ Len(two) = 5 /\ Agrees(KeypairLens, two)
  BY <1>1, KeypairWritable
<1> HIDE DEF one, two
<1>3. /\ ReadRecord(area, 0, KeypairLens) = AsWritten(one)
      /\ ReadRecord(area, Len(RecordData(one)), KeypairLens) = AsWritten(two)
  BY <1>2, BothReadBack
<1> QED
  BY <1>3 DEF ReadsBack, BoATKeypair_Get_DataCtx_Data, BoATKeypair_GetKeypairFromNvram,
              one, two, KeypairLens, AsWritten

LEMMA NetworksReadBack ==
    ASSUME DataInv, size # 0, size <= 127
    PROVE  /\ ReadsBack(BoATEth_Get_Network_Data, NetworkFields,
                        BoATEth_GetNetworkFromNvram, NetworkAt)
           /\ ReadsBack(BoATPlatON_Get_Network_Data, NetworkFields,
                        BoATPlatON_GetNetworkFromNvram, NetworkAt)
           /\ ReadsBack(BoATQuorum_Get_Network_Data, NetworkFields,
                        BoATQuorum_GetNetworkFromNvram, NetworkAt)
<1> DEFINE one == NetworkFields(NetworkAt(1))
           two == NetworkFields(NetworkAt(2))
           area == RecordData(one) \o RecordData(two)
<1>1. 1 \in 1..2 /\ 2 \in 1..2
  OBVIOUS
<1>2. /\ Writable(one) /\ Len(one) = 4 /\ Agrees(NetworkLens, one)
      /\ Writable(two) /\ Len(two) = 4 /\ Agrees(NetworkLens, two)
  BY <1>1, NetworkWritable
<1> HIDE DEF one, two
<1>3. /\ ReadRecord(area, 0, NetworkLens) = AsWritten(one)
      /\ ReadRecord(area, Len(RecordData(one)), NetworkLens) = AsWritten(two)
  BY <1>2, BothReadBack
<1> QED
  BY <1>3 DEF ReadsBack, BoATEth_Get_Network_Data, BoATEth_GetNetworkFromNvram,
              BoATPlatON_Get_Network_Data, BoATPlatON_GetNetworkFromNvram,
              BoATQuorum_Get_Network_Data, BoATQuorum_GetNetworkFromNvram,
              one, two, NetworkLens, AsWritten

(***************************************************************************)
(* RecordsReadBack for every data and size: two records stored one behind  *)
(* the other are both read back, and the space computed for a record is    *)
(* the space it takes (boatkeypair.c and the three network files).         *)
(***************************************************************************)
THEOREM RecordsAlwaysReadBack == DataSpec => []RecordsReadBack
<1>1. DataInv => RecordsReadBack
  <2> SUFFICES ASSUME DataInv, size # 0, size <= 127 PROVE RecordsReadBack
    <3>1. size \in 1..127 => size # 0 /\ size <= 127
      OBVIOUS
    <3> QED BY <3>1, Zenon DEF RecordsReadBack
  <2>1. 1 \in 1..2
    OBVIOUS
  <2>2. Writable(KeypairFields(KeypairAt(1))) /\ Writable(NetworkFields(NetworkAt(1)))
    BY <2>1, KeypairWritable, NetworkWritable
  <2>3. \A f : Writable(f) => RecordLen(f) = Len(RecordData(f))
    <3>1. SUFFICES ASSUME NEW f, Writable(f) PROVE RecordLen(f) = Len(RecordData(f))
      OBVIOUS
    <3> QED BY <3>1, RecordFacts
  <2>4. /\ BoATKeypair_Get_DataCtx_Len(KeypairAt(1)) = Len(BoATKeypair_Get_DataCtx_Data(KeypairAt(1)))
        /\ BoATEth_Get_NetworkData_Len(NetworkAt(1)) = Len(BoATEth_Get_Network_Data(NetworkAt(1)))
    BY <2>2, <2>3 DEF BoATKeypair_Get_DataCtx_Len, BoATKeypair_Get_DataCtx_Data,
                      BoATEth_Get_NetworkData_Len, BoATEth_Get_Network_Data
  <2> QED
    BY <2>4, KeypairsReadBack, NetworksReadBack, Zenon DEF RecordsReadBack
<1> QED BY <1>1, DataAlways, PTL

LEMMA InductionDown ==
    ASSUME NEW T, NEW n \in Nat, n \in T, \A i \in 1..n : i \in T => i - 1 \in T
    PROVE  \A i \in 0..n : i \in T
<1> DEFINE U == {k \in 0..n : n - k \in T}
<1>1. 0 \in U
  OBVIOUS
<1>2. ASSUME NEW k \in 1..n, k - 1 \in U PROVE k \in U
  <2> DEFINE i == n - (k - 1)
  <2>1. i \in 1..n /\ i - 1 = n - k /\ i \in T
    BY <1>2
  <2> HIDE DEF i
  <2> QED BY <2>1
<1> HIDE DEF U
<1>3. \A k \in 0..n : k \in U
  BY <1>1, <1>2, InductionTo
<1>4. TAKE i \in 0..n
<1>5. n - i \in 0..n /\ n - (n - i) = i
  OBVIOUS
<1> QED BY <1>3, <1>5 DEF U

(* What an item says of its length stays within the bytes it is read from. *)
LEMMA TlvInside ==
    ASSUME NEW s \in Seq(Byte), UtilityGetTLV(s).ok
    PROVE  UtilityGetTLV(s).whole \in 1..Len(s)
<1> DEFINE b == ByteAt(s, 2)
           ll == UtilityGetTLV_LL(s)
           len == UtilityGetTLV_L(s)
           Rest == 128 .. 255 \ {129, 130}
<1>1. \A i \in Nat : ByteAt(s, i) \in Byte
  BY ElementOfSeq, Ranges DEF ByteAt
<1>2. b \in Byte /\ b \in Nat /\ ByteAt(s, 3) \in Nat /\ ByteAt(s, 4) \in Nat
  BY <1>1, Ranges
<1>3. /\ b < 128 => ll = 1 /\ len = b
      /\ b = 129 => ll = 2 /\ len = ByteAt(s, 3)
      /\ b = 130 => ll = 3 /\ len = 256 * ByteAt(s, 3) + ByteAt(s, 4)
  BY <1>2, LengthForms
<1>4. ~(b < 128) /\ b # 129 /\ b # 130 => ll = -1
  <2>1. ll = CASE b < 128 -> 1 [] b = 129 -> 2 [] b = 130 -> 3 [] b \in Rest -> -1
    BY DEF UtilityGetTLV_LL
  <2>2. ~(b < 128) /\ b # 129 /\ b # 130 => b \in Rest
    <3>1. \A x \in Byte : ~(x < 128) /\ x # 129 /\ x # 130 => x \in Rest
      BY DEF Byte
    <3> HIDE DEF b, Rest
    <3> QED BY <1>2, <3>1
  <2> HIDE DEF b, Rest, ll
  <2> QED BY <2>1, <2>2
<1> HIDE DEF b, ll, len
<1>5. ~(ll < 0 \/ len + ll + 1 > Len(s)) /\ UtilityGetTLV(s).whole = 1 + ll + len
  <2>1. UtilityGetTLV(s) =
            IF ll < 0 \/ len + ll + 1 > Len(s) THEN NoTLV
            ELSE [ok |-> TRUE, tag |-> s[1], whole |-> 1 + ll + len,
                  data |-> SubSeq(s, 2 + ll, 1 + ll + len)]
    BY DEF UtilityGetTLV, ll, len
  <2>2. ~NoTLV.ok
    BY DEF NoTLV
  <2>3. ~(ll < 0 \/ len + ll + 1 > Len(s))
    BY <2>1, <2>2
  <2> QED BY <2>1, <2>3
<1>6. ll \in 1..3 /\ len \in Nat
  BY <1>2, <1>3, <1>4, <1>5
<1> QED BY <1>5, <1>6

-----------------------------------------------------------------------------
(* Items.                                                                  *)

(* The recursive function of Items by name. *)
FromStep(s, from, o) ==
    IF o = Len(s) THEN <<>>
    ELSE LET item == UtilityGetTLV(SubSeq(s, o + 1, Len(s)))
         IN  IF item.ok THEN <<item>> \o from[o + item.whole] ELSE <<Malformed>>
FromOf(s) == CHOOSE from : from = [o \in 0..Len(s) |-> FromStep(s, from, o)]

LEMMA ItemsFrom == \A s : Items(s) = FromOf(s)[0]
  BY DEF Items, FromOf, FromStep

LEMMA FromStepSame ==
    ASSUME NEW s \in Seq(Byte), NEW o \in 0..Len(s), NEW f, NEW h,
           \A p \in o + 1..Len(s) : f[p] = h[p]
    PROVE  FromStep(s, f, o) = FromStep(s, h, o)
<1> DEFINE n == Len(s)
           item == UtilityGetTLV(SubSeq(s, o + 1, n))
<1>1. CASE o = n
  BY <1>1 DEF FromStep
<1>2. CASE o # n /\ ~item.ok
  BY <1>2 DEF FromStep
<1>3. CASE o # n /\ item.ok
  <2>1. n \in Nat /\ o + 1 \in Nat /\ o + 1 <= n
    BY <1>3
  <2>2. SubSeq(s, o + 1, n) \in Seq(Byte) /\ Len(SubSeq(s, o + 1, n)) = n - o
    <3> DEFINE m == o + 1
    <3>1. m \in Int /\ n \in Int /\ 1 <= m /\ n <= Len(s) /\ m <= n + 1 /\ n - m + 1 = n - o
      BY <2>1
    <3> HIDE DEF m, n
    <3>2. SubSeq(s, m, n) \in Seq(Byte) /\ Len(SubSeq(s, m, n)) = n - m + 1
      BY <3>1, Sliced
    <3> QED BY <3>1, <3>2 DEF m
  <2>3. item.whole \in 1..n - o
    <3> DEFINE t == SubSeq(s, o + 1, n)
    <3>1. t \in Seq(Byte) /\ UtilityGetTLV(t).ok /\ Len(t) = n - o
      BY <1>3, <2>2
    <3> HIDE DEF t
    <3>2. UtilityGetTLV(t).whole \in 1..Len(t)
      BY <3>1, TlvInside
    <3> QED BY <3>1, <3>2 DEF t
  <2> HIDE DEF item, n
  <2>4. o + item.whole \in o + 1..n
    BY <2>1, <2>3
  <2>5. f[o + item.whole] = h[o + item.whole]
    BY <2>4 DEF n
  <2> QED BY <2>5 DEF FromStep, item, n
<1> QED BY <1>1, <1>2, <1>3

LEMMA FromDefined ==
    ASSUME NEW s \in Seq(Byte)
    PROVE  FromOf(s) = [o \in 0..Len(s) |-> FromStep(s, FromOf(s), o)]
<1> DEFINE n == Len(s)
           upFrom(k) == \E f : \A o \in k..n : f[o] = FromStep(s, f, o)
           T == {k \in 0..n : upFrom(k)}
<1>1. n \in Nat
  OBVIOUS
<1>2. n \in T
  <2> DEFINE f == [o \in {n} |-> <<>>]
  <2>1. \A o \in n..n : f[o] = FromStep(s, f, o)
    BY <1>1 DEF FromStep
  <2> HIDE DEF f
  <2> QED BY <1>1, <2>1
<1>3. ASSUME NEW k \in 1..n, k \in T PROVE k - 1 \in T
  <2>1. PICK f : \A o \in k..n : f[o] = FromStep(s, f, o)
    BY <1>3
  <2> DEFINE m == k - 1
             h == [o \in 0..n |-> IF o = m THEN FromStep(s, f, m) ELSE f[o]]
  <2>2. m \in 0..n /\ \A o \in m..n : o = m \/ o \in k..n
    BY <1>1
  <2>3. \A p \in k..n : p \in 0..n /\ p # m
    BY <1>1
  <2> HIDE DEF m
  <2>4. h[m] = FromStep(s, f, m) /\ \A p \in k..n : f[p] = h[p]
    BY <2>2, <2>3
  <2> HIDE DEF h
  <2>5. ASSUME NEW o \in m..n PROVE FromStep(s, f, o) = FromStep(s, h, o)
    <3>1. o \in 0..n /\ \A p \in o + 1..n : p \in k..n
      BY <1>1, <2>2 DEF m
    <3>2. \A p \in o + 1..n : f[p] = h[p]
      BY <2>4, <3>1
    <3> QED BY <3>1, <3>2, FromStepSame
  <2>6. \A o \in m..n : h[o] = FromStep(s, h, o)
    <3>1. TAKE o \in m..n
    <3>2. CASE o = m
      BY <2>4, <2>5, <3>2
    <3>3. CASE o \in k..n
      BY <2>1, <2>4, <2>5, <3>3
    <3> QED BY <2>2, <3>2, <3>3
  <2> QED BY <2>2, <2>6 DEF m
<1> HIDE DEF T
<1>4. \A k \in 0..n : k \in T
  <2> HIDE DEF n
  <2> QED BY <1>1, <1>2, <1>3, InductionDown
<1>5. upFrom(0)
  BY <1>1, <1>4 DEF T
<1>6. PICK f : \A o \in 0..n : f[o] = FromStep(s, f, o)
  BY <1>5
<1> DEFINE g == [o \in 0..n |-> f[o]]
<1>7. \A o \in 0..n : f[o] = g[o]
  OBVIOUS
<1>8. g = [o \in 0..n |-> FromStep(s, f, o)]
  BY <1>6
<1> HIDE DEF g
<1>9. \A o \in 0..n : FromStep(s, f, o) = FromStep(s, g, o)
  <2>1. TAKE o \in 0..n
  <2>2. \A p \in o + 1..n : p \in 0..n
    BY <1>1
  <2>3. \A p \in o + 1..n : f[p] = g[p]
    BY <1>7, <2>2
  <2> QED BY <2>3, FromStepSame
<1>10. g = [o \in 0..n |-> FromStep(s, g, o)]
  BY <1>8, <1>9
<1> QED BY <1>10 DEF FromOf

LEMMA RestOfHolds ==
    ASSUME NEW s \in Seq(Byte), NEW t \in Seq(Byte), NEW at \in Nat, Holds(s, at, t)
    PROVE  /\ SubSeq(s, at + 1, Len(s)) = t \o SubSeq(s, at + Len(t) + 1, Len(s))
           /\ SubSeq(s, at + Len(t) + 1, Len(s)) \in Seq(Byte)
<1> DEFINE n == Len(s)
           l == Len(t)
           m == at + 1
           e == at + l + 1
           whole == SubSeq(s, m, n)
           rest == SubSeq(s, e, n)
<1>1. n \in Nat /\ l \in Nat /\ at + l <= n
  BY DEF Holds
<1>2. /\ m \in Int /\ n \in Int /\ 1 <= m /\ n <= Len(s) /\ m <= n + 1
      /\ e \in Int /\ 1 <= e /\ e <= n + 1
  BY <1>1
<1> HIDE DEF m, e
<1>3. /\ whole \in Seq(Byte) /\ Len(whole) = n - m + 1
      /\ \A i \in 1..n - m + 1 : whole[i] = s[m + i - 1]
  BY <1>2, Sliced
<1>4. /\ rest \in Seq(Byte) /\ Len(rest) = n - e + 1
      /\ \A i \in 1..n - e + 1 : rest[i] = s[e + i - 1]
  BY <1>2, Sliced
<1> HIDE DEF whole, rest
<1> DEFINE j == t \o rest
<1>5. /\ j \in Seq(Byte) /\ Len(j) = l + Len(rest)
      /\ \A i \in 1..l : j[i] = t[i]
      /\ \A i \in 1..Len(rest) : j[l + i] = rest[i]
  BY <1>4, Joined
<1> HIDE DEF j, n, l
<1>6. Len(j) = n - at /\ Len(whole) = n - at /\ Len(rest) = n - at - l /\ n - at \in Nat
  BY <1>1, <1>3, <1>4, <1>5 DEF m, e
<1>7. ASSUME NEW i \in 1..n - at PROVE whole[i] = j[i]
  <2>1. whole[i] = s[at + i]
    <3>1. i \in 1..n - m + 1 /\ m + i - 1 = at + i
      BY <1>1 DEF m
    <3> QED BY <1>3, <3>1
  <2>2. CASE i <= l
    <3>1. i \in 1..l
      BY <1>1, <2>2
    <3>2. s[at + i] = t[i]
      BY <3>1 DEF Holds, l
    <3> QED BY <1>5, <2>1, <3>1, <3>2
  <2>3. CASE i > l
    <3> DEFINE k == i - l
    <3>1. k \in 1..Len(rest) /\ k \in 1..n - e + 1 /\ e + k - 1 = at + i /\ l + k = i
      BY <1>1, <1>6, <2>3 DEF e
    <3> HIDE DEF k
    <3>2. rest[k] = s[at + i] /\ j[i] = rest[k]
      BY <1>4, <1>5, <3>1
    <3> QED BY <2>1, <3>2
  <2> QED BY <1>1, <2>2, <2>3
<1>8. whole = j
  BY <1>3, <1>5, <1>6, <1>7, SameSeq
<1> QED BY <1>4, <1>8 DEF whole, j, rest, m, e, n, l

(* What UtilityGetTLV makes of an item. *)
ItemAs(tag, v) == [ok |-> TRUE, tag |-> tag, whole |-> Len(ItemOf(tag, v)), data |-> v]

LEMMA Prepended ==
    ASSUME NEW S, NEW m \in Nat, NEW f, NEW x \in S, NEW g,
           g = [j \in 1..m |-> f[j + 1]], \A j \in 1..m + 1 : f[j] \in S, f[1] = x
    PROVE  <<x>> \o g = [j \in 1..m + 1 |-> f[j]]
<1> DEFINE h == [j \in 1..m + 1 |-> f[j]]
           l == <<x>> \o g
<1>1. \A j \in 1..m : j + 1 \in 1..m + 1 /\ g[j] = f[j + 1]
  OBVIOUS
<1>2. g = [j \in 1..m |-> g[j]] /\ \A j \in 1..m : g[j] \in S
  BY <1>1
<1>3. g \in Seq(S) /\ Len(g) = m
  BY <1>2, Built
<1>4. h \in Seq(S) /\ Len(h) = m + 1
  <2>1. h = [j \in 1..m + 1 |-> h[j]] /\ \A j \in 1..m + 1 : h[j] \in S
    OBVIOUS
  <2>2. m + 1 \in Nat
    OBVIOUS
  <2> HIDE DEF h
  <2> QED BY <2>1, <2>2, Built
<1>5. <<x>> \in Seq(S) /\ Len(<<x>>) = 1 /\ <<x>>[1] = x
  OBVIOUS
<1>6. /\ l \in Seq(S) /\ Len(l) = 1 + m /\ l[1] = x
      /\ \A j \in 1..m : l[1 + j] = g[j]
  <2> DEFINE o == <<x>>
  <2>1. o \in Seq(S) /\ Len(o) = 1 /\ o[1] = x
    OBVIOUS
  <2> HIDE DEF o
  <2>2. /\ o \o g \in Seq(S) /\ Len(o \o g) = Len(o) + Len(g)
        /\ \A j \in 1..Len(o) : (o \o g)[j] = o[j]
        /\ \A j \in 1..Len(g) : (o \o g)[Len(o) + j] = g[j]
    <3>1. o \in Seq(S) /\ g \in Seq(S)
      BY <1>3, <2>1
    <3>2. \A p, q \in Seq(S) : /\ p \o q \in Seq(S)
                               /\ Len(p \o q) = Len(p) + Len(q)
                               /\ \A j \in 1..Len(p) : (p \o q)[j] = p[j]
                               /\ \A j \in 1..Len(q) : (p \o q)[Len(p) + j] = q[j]
      BY Joined
    <3> QED BY <3>1, <3>2
  <2>3. 1 \in 1..1
    OBVIOUS
  <2>4. l = o \o g
    BY DEF o
  <2> HIDE DEF l
  <2> QED BY <1>3, <2>1, <2>2, <2>3, <2>4
<1>7. \A j \in 1..m + 1 : l[j] = h[j]
  <2>1. TAKE j \in 1..m + 1
  <2>2. h[j] = f[j]
    OBVIOUS
  <2> HIDE DEF l, h
  <2>3. CASE j = 1
    BY <1>6, <2>2, <2>3
  <2>4. CASE j # 1
    <3>1. PICK k \in 1..m : j = 1 + k /\ k + 1 = j
      <4>1. j - 1 \in 1..m /\ 1 + (j - 1) = j /\ j - 1 + 1 = j
        BY <2>4
      <4> QED BY <4>1
    <3>2. l[j] = g[k] /\ g[k] = f[j]
      BY <1>1, <1>6, <3>1
    <3> QED BY <2>2, <3>2
  <2> QED BY <2>3, <2>4
<1>8. m + 1 \in Nat /\ 1 + m = m + 1
  OBVIOUS
<1> HIDE DEF l, h
<1>9. l = h
  BY <1>4, <1>6, <1>7, <1>8, SameSeq
<1> QED BY <1>9 DEF l, h

(* Items joined are found again, one after another. *)
LEMMA ItemsOfJoined ==
    ASSUME NEW n \in Nat, NEW ts \in [1..n -> Byte], NEW vs \in [1..n -> Seq(Byte)],
           \A i \in 1..n : Len(vs[i]) \in Word16
    PROVE  Items(FlattenSeq([i \in 1..n |-> ItemOf(ts[i], vs[i])])) =
               [i \in 1..n |-> ItemAs(ts[i], vs[i])]
<1> DEFINE ps == [i \in 1..n |-> ItemOf(ts[i], vs[i])]
           s == FlattenSeq(ps)
           from == FromOf(s)
           at(i) == Len(Leading(ps, i))
           after(i) == [j \in 1..n - i |-> ItemAs(ts[i + j], vs[i + j])]
           T == {i \in 0..n : from[at(i)] = after(i)}
<1>1. \A i \in 1..n : /\ ps[i] = ItemOf(ts[i], vs[i])
                      /\ ts[i] \in Byte /\ vs[i] \in Seq(Byte) /\ Len(vs[i]) \in Word16
  OBVIOUS
<1>2. \A i \in 1..n : ps[i] \in Seq(Byte) /\ Len(ps[i]) >= 1
  <2>1. TAKE i \in 1..n
  <2>2. ts[i] \in Byte /\ vs[i] \in Seq(Byte) /\ Len(vs[i]) \in Word16
    BY <1>1
  <2> DEFINE p == ItemOf(ts[i], vs[i])
             ll == UtilityGetTLV_LL_from_len(Len(vs[i]))
  <2>3. p \in Seq(Byte) /\ Len(p) = 1 + ll + Len(vs[i]) /\ ll \in 1..3
    BY <2>2, ItemFacts
  <2>4. Len(vs[i]) \in Nat
    BY <2>2
  <2>5. ps[i] = p
    BY <1>1
  <2> HIDE DEF p, ll, ps
  <2> QED BY <2>3, <2>4, <2>5
<1>3. ps \in Seq(Seq(Byte)) /\ Len(ps) = n
  <2>1. ps = [i \in 1..n |-> ps[i]]
    OBVIOUS
  <2> HIDE DEF ps
  <2> QED BY <1>2, <2>1, Built
<1> HIDE DEF ps
<1>4. /\ s = Leading(ps, n) /\ Leading(ps, 0) = <<>>
      /\ \A i \in 0..n : Leading(ps, i) \in Seq(Byte)
  BY <1>3, LeadingFacts
<1>5. s \in Seq(Byte) /\ Len(s) = at(n) /\ at(0) = 0
  <2>1. n \in 0..n
    OBVIOUS
  <2> QED BY <1>4, <2>1
<1>6. from = [o \in 0..Len(s) |-> FromStep(s, from, o)]
  BY <1>5, FromDefined
<1>7. \A i \in 1..n : Holds(s, at(i - 1), ps[i]) /\ at(i) = at(i - 1) + Len(ps[i])
  BY <1>3, PartStands
<1>8. \A i \in 0..n : at(i) \in Nat
  BY <1>4
<1> HIDE DEF s, from, at
<1>9. n \in T
  <2>1. Len(s) \in Nat
    BY <1>5
  <2>2. Len(s) \in 0..Len(s)
    BY <2>1
  <2>3. from[at(n)] = <<>>
    BY <1>5, <1>6, <2>2 DEF FromStep
  <2>4. after(n) = <<>>
    <3>1. 1..n - n = {}
      OBVIOUS
    <3> DEFINE e == after(n)
    <3>2. e = [j \in {} |-> e[j]]
      BY <3>1
    <3> HIDE DEF e
    <3>3. e = <<>>
      BY <3>2
    <3> QED BY <3>3 DEF e
  <2> QED BY <2>3, <2>4
<1>10. ASSUME NEW i \in 1..n, i \in T PROVE i - 1 \in T
  <2> DEFINE k == i - 1
             o == at(k)
             p == ps[i]
             rest == SubSeq(s, o + Len(p) + 1, Len(s))
  <2>1. k \in 0..n /\ k + 1 = i /\ i \in 0..n
    OBVIOUS
  <2>2. Holds(s, o, p) /\ at(i) = o + Len(p) /\ o \in Nat /\ p \in Seq(Byte) /\ Len(p) >= 1
    BY <1>2, <1>7, <1>8, <2>1
  <2>3. Len(s) \in Nat /\ o + Len(p) <= Len(s)
    BY <1>5, <2>2 DEF Holds
  <2> HIDE DEF o, p, k
  <2>4. o \in 0..Len(s) /\ o # Len(s)
    <3> DEFINE l == Len(p)
               m == Len(s)
    <3>1. l \in Nat /\ m \in Nat /\ o \in Nat /\ l >= 1 /\ o + l <= m
      BY <2>2, <2>3
    <3> HIDE DEF l, m
    <3>2. o \in 0..m /\ o # m
      BY <3>1
    <3> QED BY <3>2 DEF m
  <2>5. SubSeq(s, o + 1, Len(s)) = p \o rest /\ rest \in Seq(Byte)
    BY <1>5, <2>2, RestOfHolds
  <2> HIDE DEF rest
  <2> DEFINE item == ItemAs(ts[i], vs[i])
  <2>6. UtilityGetTLV(p \o rest) = item /\ Len(p) = item.whole /\ item.ok
    <3>1. ts[i] \in Byte /\ vs[i] \in Seq(Byte) /\ Len(vs[i]) \in Word16 /\ p = ItemOf(ts[i], vs[i])
      BY <1>1 DEF p
    <3>2. UtilityGetTLV(ItemOf(ts[i], vs[i]) \o rest) = ItemAs(ts[i], vs[i])
      BY <2>5, <3>1, ItemRead DEF ItemAs
    <3> QED BY <3>1, <3>2 DEF ItemAs
  <2> HIDE DEF item
  <2>7. from[o] = <<item>> \o from[o + Len(p)]
    <3>1. from[o] = FromStep(s, from, o)
      BY <1>6, <2>4
    <3>2. FromStep(s, from, o) = <<item>> \o from[o + item.whole]
      BY <2>4, <2>5, <2>6 DEF FromStep
    <3> QED BY <2>6, <3>1, <3>2
  <2>8. from[o + Len(p)] = after(i)
    BY <1>10, <2>2
  <2>9. <<item>> \o after(i) = after(k)
    <3> DEFINE S == {ItemAs(ts[j], vs[j]) : j \in 1..n}
               m == n - i
               f == [j \in 1..m + 1 |-> ItemAs(ts[k + j], vs[k + j])]
               g == after(i)
    <3>1. m \in Nat /\ m + 1 = n - k /\ \A j \in 1..m + 1 : k + j \in 1..n
      BY <2>1
    <3>2. \A j \in 1..m : j + 1 \in 1..m + 1 /\ k + (j + 1) = i + j
      BY <2>1
    <3>3. \A j \in 1..m + 1 : f[j] \in S
      BY <3>1
    <3>4. 1 \in 1..m + 1 /\ k + 1 = i
      BY <2>1
    <3>5. f[1] = item /\ item \in S
      BY <3>4 DEF item
    <3>6. g = [j \in 1..m |-> f[j + 1]]
      BY <3>2
    <3>7. f = [j \in 1..m + 1 |-> f[j]]
      OBVIOUS
    <3>8. f = after(k)
      BY <3>1
    <3> HIDE DEF f, m, S, g, after
    <3>9. <<item>> \o g = [j \in 1..m + 1 |-> f[j]]
      BY <3>1, <3>3, <3>5, <3>6, Prepended
    <3> QED BY <3>7, <3>8, <3>9 DEF g
  <2>10. from[at(k)] = after(k)
    <3> HIDE DEF after
    <3> QED BY <2>7, <2>8, <2>9 DEF o
  <2> QED BY <2>1, <2>10 DEF k
<1> HIDE DEF T
<1>11. \A i \in 0..n : i \in T
  BY <1>9, <1>10, InductionDown
<1>12. from[0] = after(0)
  <2>1. 0 \in T
    BY <1>11
  <2> QED BY <1>5, <2>1 DEF T
<1>13. after(0) = [i \in 1..n |-> ItemAs(ts[i], vs[i])]
  <2>1. n - 0 = n /\ \A j \in 1..n : 0 + j = j
    OBVIOUS
  <2> QED BY <2>1
<1>14. Items(s) = after(0)
  BY <1>12, ItemsFrom DEF from
<1> QED BY <1>13, <1>14 DEF s, ps

-----------------------------------------------------------------------------
(* Commands to the secure element.                                         *)

Field == [tag : Byte, value : Seq(Byte)]
Lists == Seq(Field)

LEMMA PartOfSum ==
    ASSUME NEW ns \in Seq(Nat)
    PROVE  Total(ns) \in Nat /\ \A i \in 1..Len(ns) : ns[i] <= Total(ns)
<1> DEFINE n == Len(ns)
           sum == Sums(ns)
           T == {k \in 0..n : \A i \in 1..k : ns[i] <= sum[k]}
<1>1. /\ n \in Nat /\ \A i \in 1..n : ns[i] \in Nat
  BY ElementOfSeq
<1>2. /\ Total(ns) = sum[n] /\ sum \in [0..n -> Nat]
      /\ \A i \in 1..n : sum[i] = sum[i - 1] + ns[i]
  BY SumsFacts
<1> HIDE DEF n, sum
<1>3. 0 \in T
  BY <1>1
<1>4. ASSUME NEW k \in 1..n, k - 1 \in T PROVE k \in T
  <2> DEFINE m == k - 1
  <2>1. m \in 0..n /\ k \in 0..n
    BY <1>1
  <2>2. sum[m] \in Nat /\ ns[k] \in Nat /\ sum[k] = sum[m] + ns[k]
    BY <1>1, <1>2, <2>1
  <2>3. \A i \in 1..m : ns[i] <= sum[m]
    BY <1>4
  <2>4. \A i \in 1..k : i = k \/ i \in 1..m
    BY <1>1
  <2>5. \A i \in 1..k : i \in 1..n
    BY <1>1
  <2> HIDE DEF m
  <2>6. \A i \in 1..k : ns[i] <= sum[k]
    <3>1. TAKE i \in 1..k
    <3>2. ns[i] \in Nat
      BY <1>1, <2>5
    <3>3. CASE i = k
      BY <2>2, <3>2, <3>3
    <3>4. CASE i \in 1..m
      <4>1. ns[i] <= sum[m]
        BY <2>3, <3>4
      <4> QED BY <2>2, <3>2, <4>1
    <3> QED BY <2>4, <3>3, <3>4
  <2> QED BY <2>1, <2>6
<1> HIDE DEF T
<1>5. \A k \in 0..n : k \in T
  BY <1>1, <1>3, <1>4, InductionTo
<1>6. n \in T
  BY <1>1, <1>5
<1> QED BY <1>1, <1>2, <1>6 DEF T, n

LEMMA FieldForms ==
    ASSUME NEW n \in Word16
    PROVE  /\ FieldLength(n) = LengthBytes(n)
           /\ SizeOfLength(n) = UtilityGetTLV_LL_from_len(n)
<1> DEFINE ll == UtilityGetTLV_LL_from_len(n)
<1>1. n \in Nat /\ n < 65536
  BY DEF Word16
<1>2. n \div 128 = 1 <=> n >= 128 /\ n <= 255
  BY <1>1
<1>3. SizeOfLength(n) = ll
  BY <1>1, <1>2 DEF SizeOfLength, UtilityGetTLV_LL_from_len
<1>4. (n \div 256) % 256 = n \div 256
  <2>1. n \div 256 \in Nat /\ n \div 256 < 256
    BY <1>1
  <2> DEFINE q == n \div 256
  <2> HIDE DEF q
  <2>2. q % 256 = q
    BY <2>1 DEF q
  <2> QED BY <2>2 DEF q
<1>5. LengthBytes(n) = CASE ll = 1 -> <<n>>
                         [] ll = 2 -> <<129, n>>
                         [] ll = 3 -> <<130, (n \div 256) % 256, n % 256>>
  BY DEF LengthBytes
<1>6. FieldLength(n) = CASE ll = 1 -> <<n>>
                         [] ll = 2 -> <<129, n>>
                         [] ll = 3 -> <<130, n \div 256, n % 256>>
  BY <1>3 DEF FieldLength
<1> HIDE DEF ll
<1>7. FieldLength(n) = LengthBytes(n)
  BY <1>4, <1>5, <1>6, Zenon
<1> QED BY <1>3, <1>7 DEF ll

(* The fields that fit are items behind one another. *)
LEMMA BodyFacts ==
    ASSUME NEW fields \in Lists, Fits(fields)
    PROVE  /\ Body(fields) \in Seq(Byte) /\ Len(Body(fields)) <= MaxCmd
           /\ Items(Body(fields)) =
                  [i \in 1..Len(fields) |-> ItemAs(fields[i].tag, fields[i].value)]
<1> DEFINE n == Len(fields)
           ns == [i \in 1..n |-> SizeOfTlv(fields[i])]
           ts == [i \in 1..n |-> fields[i].tag]
           vs == [i \in 1..n |-> fields[i].value]
           ps == [i \in 1..n |-> ItemOf(ts[i], vs[i])]
<1>1. n \in Nat /\ DOMAIN fields = 1..n /\ \A i \in 1..n : fields[i] \in Field
  BY ElementOfSeq DEF Lists
<1>2. \A i \in 1..n : fields[i].tag \in Byte /\ fields[i].value \in Seq(Byte)
  BY <1>1 DEF Field
<1>3. ts \in [1..n -> Byte] /\ vs \in [1..n -> Seq(Byte)]
  BY <1>2
<1>4. \A i \in 1..n : /\ ns[i] = 1 + SizeOfLength(Len(vs[i])) + Len(vs[i])
                      /\ Len(vs[i]) \in Nat
  BY <1>2 DEF SizeOfTlv
<1>5. \A i \in 1..n : ns[i] \in Nat /\ Len(vs[i]) <= ns[i]
  <2>1. \A k \in Nat : SizeOfLength(k) \in Nat
    BY DEF SizeOfLength
  <2>2. TAKE i \in 1..n
  <2> DEFINE a == Len(vs[i])
             b == SizeOfLength(a)
  <2>3. a \in Nat /\ ns[i] = 1 + b + a
    BY <1>4
  <2> HIDE DEF ns, a
  <2>4. b \in Nat
    BY <2>1, <2>3
  <2> HIDE DEF b
  <2>5. ns[i] \in Nat /\ a <= ns[i]
    BY <2>3, <2>4
  <2> QED BY <2>5 DEF a
<1>6. ns \in Seq(Nat) /\ Len(ns) = n
  <2>1. ns = [i \in 1..n |-> ns[i]]
    OBVIOUS
  <2> HIDE DEF ns
  <2> QED BY <1>1, <1>5, <2>1, Built
<1>7. Total(ns) <= 892
  BY <1>1 DEF Fits, MaxCmd
<1> HIDE DEF ns
<1>8. \A i \in 1..n : Len(vs[i]) \in Word16
  <2>1. TAKE i \in 1..n
  <2>2. ns[i] <= Total(ns) /\ Total(ns) \in Nat
    <3>1. ns \in Seq(Nat) /\ i \in 1..Len(ns)
      BY <1>6
    <3>2. \A q \in Seq(Nat) : Total(q) \in Nat /\ \A k \in 1..Len(q) : q[k] <= Total(q)
      BY PartOfSum
    <3> QED BY <3>1, <3>2
  <2>3. ns[i] \in Nat /\ Len(vs[i]) \in Nat /\ Len(vs[i]) <= ns[i]
    BY <1>4, <1>5
  <2> DEFINE a == Len(vs[i])
             b == ns[i]
             c == Total(ns)
  <2>4. a \in Nat /\ b \in Nat /\ c \in Nat /\ a <= b /\ b <= c /\ c <= 892
    BY <1>7, <2>2, <2>3
  <2> HIDE DEF a, b, c
  <2>5. a \in Word16
    BY <2>4 DEF Word16
  <2> QED BY <2>5 DEF a
<1>9. \A i \in 1..n : /\ FieldBytes(fields[i]) = ps[i]
                      /\ ps[i] \in Seq(Byte) /\ ns[i] = Len(ps[i])
  <2>1. TAKE i \in 1..n
  <2> DEFINE t == ts[i]
             v == vs[i]
             ll == UtilityGetTLV_LL_from_len(Len(v))
  <2>2. t \in Byte /\ v \in Seq(Byte) /\ Len(v) \in Word16 /\ ps[i] = ItemOf(t, v)
    BY <1>2, <1>8
  <2>3. FieldBytes(fields[i]) = <<t>> \o FieldLength(Len(v)) \o v
    BY DEF FieldBytes
  <2>4. ns[i] = 1 + SizeOfLength(Len(v)) + Len(v)
    BY <1>4
  <2> HIDE DEF t, v, ps, vs, ts
  <2>5. FieldLength(Len(v)) = LengthBytes(Len(v)) /\ SizeOfLength(Len(v)) = ll
    BY <2>2, FieldForms
  <2>6. ItemOf(t, v) \in Seq(Byte) /\ Len(ItemOf(t, v)) = 1 + ll + Len(v)
    BY <2>2, ItemFacts
  <2>7. FieldBytes(fields[i]) = ItemOf(t, v)
    BY <2>3, <2>5 DEF ItemOf
  <2> QED BY <2>2, <2>4, <2>5, <2>6, <2>7
<1>10. Body(fields) = FlattenSeq(ps)
  <2>1. [i \in 1..n |-> FieldBytes(fields[i])] = ps
    <3>1. ps = [i \in 1..n |-> ps[i]]
      OBVIOUS
    <3> HIDE DEF ps
    <3> QED BY <1>9, <3>1
  <2> QED BY <1>1, <2>1 DEF Body
<1>11. ps \in Seq(Seq(Byte)) /\ Len(ps) = n
  <2>1. ps = [i \in 1..n |-> ps[i]]
    OBVIOUS
  <2> HIDE DEF ps
  <2> QED BY <1>1, <1>9, <2>1, Built
<1>12. Items(FlattenSeq(ps)) = [i \in 1..n |-> ItemAs(ts[i], vs[i])]
  <2> HIDE DEF n, ts, vs
  <2> QED BY <1>1, <1>3, <1>8, ItemsOfJoined
<1>13. [i \in 1..n |-> ItemAs(ts[i], vs[i])] =
           [i \in 1..n |-> ItemAs(fields[i].tag, fields[i].value)]
  OBVIOUS
<1> HIDE DEF ps, n, ts, vs
<1>14. FlattenSeq(ps) \in Seq(Byte) /\ Len(FlattenSeq(ps)) = Total(ns)
  <2>1. FlattenSeq(ps) \in Seq(Byte)
    <3>1. FlattenSeq(ps) = Leading(ps, n) /\ \A i \in 0..n : Leading(ps, i) \in Seq(Byte)
      BY <1>11, LeadingFacts
    <3>2. n \in 0..n
      BY <1>1
    <3> QED BY <3>1, <3>2
  <2>2. Len(ns) = Len(ps) /\ \A i \in 1..Len(ps) : ns[i] = Len(ps[i])
    BY <1>6, <1>9, <1>11
  <2>3. Len(FlattenSeq(ps)) = Total(ns)
    BY <1>6, <1>11, <2>2, LengthOfJoined
  <2> QED BY <2>1, <2>3
<1> QED BY <1>7, <1>10, <1>12, <1>13, <1>14 DEF n, MaxCmd

(* A command behind its header: what its length bytes announce is its body. *)
Headed(ins, p1, p2, body) ==
    LET n  == Len(body)
        lc == IF n < 255 THEN <<n>> ELSE <<0, n \div 256, n % 256>>
    IN  <<128, ins, p1, p2>> \o lc \o body

LEMMA HeadedFacts ==
    ASSUME NEW ins \in Nat, NEW p1 \in Nat, NEW p2 \in Nat,
           NEW body \in Seq(Byte), Len(body) <= 892
    PROVE  /\ BodyOf(Headed(ins, p1, p2, body)) = body
           /\ Len(Headed(ins, p1, p2, body)) = Len(body) + (IF Len(body) < 255 THEN 5 ELSE 7)
<1> DEFINE n == Len(body)
           lc == IF n < 255 THEN <<n>> ELSE <<0, n \div 256, n % 256>>
           first == <<128, ins, p1, p2>>
           head == first \o lc
           h == Len(lc) + 4
           command == head \o body
<1>1. n \in Nat /\ n <= 892
  OBVIOUS
<1>2. body \in Seq(Nat)
  BY Ranges, SeqMonotonic
<1>3. /\ n < 255 => lc \in Seq(Nat) /\ Len(lc) = 1 /\ lc[1] = n
      /\ ~(n < 255) => /\ lc \in Seq(Nat) /\ Len(lc) = 3
                       /\ lc[1] = 0 /\ lc[2] = n \div 256 /\ lc[3] = n % 256
  <2>1. n \div 256 \in Nat /\ n % 256 \in Nat
    BY <1>1
  <2> DEFINE d == n \div 256
             e == n % 256
  <2>2. d \in Nat /\ e \in Nat
    BY <2>1
  <2> HIDE DEF d, e, n
  <2>3. <<0, d, e>> \in Seq(Nat) /\ Len(<<0, d, e>>) = 3 /\ <<0, d, e>>[1] = 0
        /\ <<0, d, e>>[2] = d /\ <<0, d, e>>[3] = e
    BY <2>2
  <2>4. <<n>> \in Seq(Nat) /\ Len(<<n>>) = 1 /\ <<n>>[1] = n
    BY <1>1
  <2>5. CASE n < 255
    BY <2>4, <2>5
  <2>6. CASE ~(n < 255)
    <3>1. lc = <<0, d, e>>
      BY <2>6 DEF d, e
    <3> HIDE DEF lc
    <3> QED BY <2>3, <2>6, <3>1 DEF d, e
  <2> QED BY <2>5, <2>6
<1>4. first \in Seq(Nat) /\ Len(first) = 4
  OBVIOUS
<1> HIDE DEF lc, n, first
<1>5. lc \in Seq(Nat) /\ Len(lc) \in Nat
  BY <1>3
<1>6. /\ head \in Seq(Nat) /\ Len(head) = h
      /\ \A i \in 1..Len(lc) : head[4 + i] = lc[i]
  <2>1. /\ first \o lc \in Seq(Nat) /\ Len(first \o lc) = Len(first) + Len(lc)
        /\ \A i \in 1..Len(lc) : (first \o lc)[Len(first) + i] = lc[i]
    <3>1. first \in Seq(Nat) /\ lc \in Seq(Nat)
      BY <1>4, <1>5
    <3>2. \A p, q \in Seq(Nat) : /\ p \o q \in Seq(Nat)
                                /\ Len(p \o q) = Len(p) + Len(q)
                                /\ \A i \in 1..Len(q) : (p \o q)[Len(p) + i] = q[i]
      BY Joined
    <3> QED BY <3>1, <3>2
  <2>2. Len(first) + Len(lc) = h
    BY <1>4, <1>5
  <2> QED BY <1>4, <2>1, <2>2
<1> HIDE DEF head
<1>7. /\ command \in Seq(Nat) /\ Len(command) = h + n
      /\ Holds(command, 0, head) /\ Holds(command, h, body)
  <2>1. head \in Seq(Nat) /\ body \in Seq(Nat)
    BY <1>2, <1>6
  <2>2. /\ head \o body \in Seq(Nat) /\ Len(head \o body) = Len(head) + Len(body)
        /\ Holds(head \o body, 0, head) /\ Holds(head \o body, Len(head), body)
    BY <2>1, HoldsJoined
  <2> QED BY <1>6, <2>2 DEF n
<1>8. h \in Nat
  BY <1>5
<1> HIDE DEF command
<1>9. SubSeq(command, h + 1, h + n) = body
  <2>1. command \in Seq(Nat) /\ body \in Seq(Nat) /\ h \in Nat /\ Holds(command, h, body)
    BY <1>2, <1>7, <1>8
  <2> HIDE DEF h
  <2>2. SubSeq(command, h + 1, h + Len(body)) = body
    BY <2>1, HoldsSlice
  <2> QED BY <2>2 DEF n
<1>10. \A i \in 1..h : command[i] = head[i]
  <2>1. \A i \in 1..Len(head) : command[0 + i] = head[i]
    BY <1>7 DEF Holds
  <2>2. \A i \in 1..h : 0 + i = i
    BY <1>8
  <2> HIDE DEF h
  <2> QED BY <1>6, <2>1, <2>2
<1>11. command = Headed(ins, p1, p2, body)
  BY DEF Headed, command, head, first, lc, n
<1>12. BodyOf(command) = body
  <2>1. BodyOf(command) = IF command[5] = 0 /\ Len(command) > 5
                          THEN SubSeq(command, 8, 7 + 256 * command[6] + command[7])
                          ELSE SubSeq(command, 6, 5 + command[5])
    BY DEF BodyOf
  <2>2. CASE n < 255
    <3>1. lc[1] = n /\ Len(lc) = 1
      BY <1>3, <2>2
    <3>2. h = 5
      BY <3>1
    <3>3. head[4 + 1] = lc[1]
      <4>1. 1 \in 1..Len(lc)
        BY <3>1
      <4> QED BY <1>6, <4>1
    <3>4. 4 + 1 = 5 /\ 5 \in 1..h
      BY <3>2
    <3> HIDE DEF h
    <3>5. command[5] = n
      BY <1>10, <3>1, <3>3, <3>4
    <3>6. Len(command) = 5 + n
      BY <1>7, <3>2
    <3>7. ~(n = 0 /\ 5 + n > 5)
      BY <1>1
    <3>8. BodyOf(command) = SubSeq(command, 6, 5 + n)
      BY <2>1, <3>5, <3>6, <3>7
    <3>9. h + 1 = 6 /\ h + n = 5 + n
      BY <3>2
    <3> QED BY <1>9, <3>8, <3>9
  <2>3. CASE ~(n < 255)
    <3>1. lc[1] = 0 /\ lc[2] = n \div 256 /\ lc[3] = n % 256 /\ Len(lc) = 3
      BY <1>3, <2>3
    <3>2. h = 7
      BY <3>1
    <3>3. head[4 + 1] = lc[1] /\ head[4 + 2] = lc[2] /\ head[4 + 3] = lc[3]
      <4>1. 1 \in 1..Len(lc) /\ 2 \in 1..Len(lc) /\ 3 \in 1..Len(lc)
        BY <3>1
      <4> QED BY <1>6, <4>1
    <3>4. /\ 4 + 1 = 5 /\ 4 + 2 = 6 /\ 4 + 3 = 7
          /\ 5 \in 1..h /\ 6 \in 1..h /\ 7 \in 1..h
      BY <3>2
    <3> HIDE DEF h
    <3>5. command[5] = 0 /\ command[6] = n \div 256 /\ command[7] = n % 256
      BY <1>10, <3>1, <3>3, <3>4
    <3>6. Len(command) = 7 + n /\ 7 + n > 5
      BY <1>1, <1>7, <3>2
    <3>7. 256 * (n \div 256) + (n % 256) = n
      BY <1>1
    <3>8. 7 + 256 * (n \div 256) + (n % 256) = 7 + n
      <4>1. n \div 256 \in Nat /\ n % 256 \in Nat
        BY <1>1
      <4> DEFINE a == n \div 256
                 b == n % 256
      <4>2. a \in Nat /\ b \in Nat /\ 256 * a + b = n
        BY <3>7, <4>1
      <4> HIDE DEF a, b
      <4>3. 7 + 256 * a + b = 7 + n
        BY <1>1, <4>2
      <4> QED BY <4>3 DEF a, b
    <3>9. BodyOf(command) = SubSeq(command, 8, 7 + n)
      BY <2>1, <3>5, <3>6, <3>8
    <3>10. h + 1 = 8 /\ h + n = 7 + n
      BY <3>2
    <3> QED BY <1>9, <3>9, <3>10
  <2> QED BY <2>2, <2>3
<1>13. Len(command) = n + (IF n < 255 THEN 5 ELSE 7)
  <2>1. CASE n < 255
    <3>1. Len(lc) = 1
      BY <1>3, <2>1
    <3>2. h = 5
      BY <3>1
    <3> HIDE DEF h
    <3> QED BY <1>1, <1>7, <2>1, <3>2
  <2>2. CASE ~(n < 255)
    <3>1. Len(lc) = 3
      BY <1>3, <2>2
    <3>2. h = 7
      BY <3>1
    <3> HIDE DEF h
    <3> QED BY <1>1, <1>7, <2>2, <3>2
  <2> QED BY <2>1, <2>2
<1> QED BY <1>11, <1>12, <1>13 DEF n

(* A call whose command can be written. *)
Sendable(api) ==
    /\ api.ins \in Nat /\ api.p1 \in Nat /\ api.p2 \in Nat
    /\ api.fields \in Lists

CarriesFields(api) ==
    LET command == sss_se05x_channel_txnRaw(api)
        items   == Items(BodyOf(command))
    IN  IF Fits(api.fields)
        THEN /\ Len(items) = Len(api.fields)
             /\ \A i \in DOMAIN items :
                   items[i].ok /\ items[i].tag = api.fields[i].tag /\ items[i].data = api.fields[i].value
             /\ Len(command) = Len(BodyOf(command)) + (IF Len(BodyOf(command)) < 255 THEN 5 ELSE 7)
        ELSE command = TooLong

(***************************************************************************)
(* Whatever fields a call has, with values of any length: the body that    *)
(* the command announces is the fields in order, each with its tag and its *)
(* whole value, or the command is not sent because it would not fit        *)
(* (tlvSet_u8buf, sss_se05x_channel_txnRaw).                               *)
(***************************************************************************)
THEOREM EveryCommandCarriesFields ==
    ASSUME NEW api, Sendable(api)
    PROVE  CarriesFields(api)
<1> DEFINE fields == api.fields
           command == sss_se05x_channel_txnRaw(api)
           body == Body(fields)
           items == Items(BodyOf(command))
           n == Len(fields)
<1>1. CASE ~Fits(fields)
  BY <1>1 DEF sss_se05x_channel_txnRaw, CarriesFields
<1>2. CASE Fits(fields)
  <2>1. api.ins \in Nat /\ api.p1 \in Nat /\ api.p2 \in Nat /\ fields \in Lists
    BY DEF Sendable
  <2>2. /\ body \in Seq(Byte) /\ Len(body) <= 892
        /\ Items(body) = [i \in 1..n |-> ItemAs(fields[i].tag, fields[i].value)]
    <3> HIDE DEF fields
    <3> QED BY <1>2, <2>1, BodyFacts DEF MaxCmd
  <2>3. command = Headed(api.ins, api.p1, api.p2, body)
    BY <1>2 DEF sss_se05x_channel_txnRaw, Headed
  <2>4. CarriesFields(api) <=>
            /\ Len(items) = n
            /\ \A i \in DOMAIN items :
                  /\ items[i].ok /\ items[i].tag = fields[i].tag
                  /\ items[i].data = fields[i].value
            /\ Len(command) = Len(BodyOf(command)) + (IF Len(BodyOf(command)) < 255 THEN 5 ELSE 7)
    BY <1>2 DEF CarriesFields
  <2>5. n \in Nat
    BY <2>1 DEF Lists
  <2> HIDE DEF body, command, fields, n
  <2>6. /\ BodyOf(command) = body
        /\ Len(command) = Len(body) + (IF Len(body) < 255 THEN 5 ELSE 7)
    <3>1. \A a, b, c \in Nat, q \in Seq(Byte) :
              Len(q) <= 892 =>
                  /\ BodyOf(Headed(a, b, c, q)) = q
                  /\ Len(Headed(a, b, c, q)) = Len(q) + (IF Len(q) < 255 THEN 5 ELSE 7)
      BY HeadedFacts
    <3> DEFINE a == api.ins
               b == api.p1
               c == api.p2
    <3>2. /\ a \in Nat /\ b \in Nat /\ c \in Nat
          /\ body \in Seq(Byte) /\ Len(body) <= 892 /\ command = Headed(a, b, c, body)
      BY <2>1, <2>2, <2>3
    <3> HIDE DEF a, b, c
    <3>3. /\ BodyOf(Headed(a, b, c, body)) = body
          /\ Len(Headed(a, b, c, body)) = Len(body) + (IF Len(body) < 255 THEN 5 ELSE 7)
      BY <3>1, <3>2
    <3> QED BY <3>2, <3>3
  <2>7. items = [i \in 1..n |-> ItemAs(fields[i].tag, fields[i].value)]
    BY <2>2, <2>6
  <2> HIDE DEF items
  <2>8. Len(items) = n /\ DOMAIN items = 1..n
    BY <2>5, <2>7
  <2>9. \A i \in 1..n : /\ items[i].ok /\ items[i].tag = fields[i].tag
                        /\ items[i].data = fields[i].value
    BY <2>7 DEF ItemAs
  <2> QED BY <2>4, <2>6, <2>8, <2>9
<1> QED BY <1>1, <1>2

(* Numbers of up to four bytes. *)
LEMMA OctetsAre ==
    ASSUME NEW n \in Nat, NEW c \in Nat, c <= 4
    PROVE  Octets(n, c) \in Seq(Byte) /\ Len(Octets(n, c)) = c
<1> DEFINE o == Octets(n, c)
           digit(d) == (n \div d) % 256
<1>1. o = [i \in 1..c |-> (n \div 256 ^ (c - i)) % 256]
  BY DEF Octets
<1>2. \A d \in Nat \ {0} : digit(d) \in Byte
  BY DEF Byte
<1>3. \A i \in 1..c : 256 ^ (c - i) \in Nat \ {0}
  <2>1. \A k \in Exponent : 256 ^ k \in Nat \ {0}
    BY Powers
  <2>2. \A i \in 1..c : c - i \in Exponent
    BY DEF Exponent
  <2> QED BY <2>1, <2>2
<1>4. \A i \in 1..c : o[i] \in Byte
  <2>1. TAKE i \in 1..c
  <2>2. digit(256 ^ (c - i)) \in Byte
    BY <1>2, <1>3
  <2>3. o[i] = digit(256 ^ (c - i))
    BY <1>1
  <2> QED BY <2>2, <2>3
<1>5. o = [i \in 1..c |-> o[i]]
  BY <1>1
<1> HIDE DEF o
<1>6. o \in Seq(Byte) /\ Len(o) = c
  BY <1>4, <1>5, Built
<1> QED BY <1>6 DEF o

(* Every list of fields that the helpers set is a list of fields. *)
LEMMA ListFacts ==
    /\ <<>> \in Lists
    /\ \A a, b \in Lists : a \o b \in Lists
    /\ \A tag \in Byte, v \in Byte : tlvSet_U8(tag, v) \in Lists /\ tlvSet_ECCurve(tag, v) \in Lists
    /\ \A tag \in Byte, v \in Nat :
          /\ tlvSet_U16(tag, v) \in Lists /\ tlvSet_U16Optional(tag, v) \in Lists
          /\ tlvSet_MaxAttemps(tag, v) \in Lists
          /\ tlvSet_U32(tag, v) \in Lists /\ tlvSet_KeyID(tag, v) \in Lists
    /\ \A tag \in Byte, s \in Seq(Byte) :
          /\ tlvSet_u8buf(tag, s) \in Lists /\ tlvSet_u8bufOptional(tag, s) \in Lists
          /\ tlvSet_Se05xPolicy(tag, <<s>>) \in Lists
    /\ \A tag \in Byte : tlvSet_Se05xPolicy(tag, NoPolicy) \in Lists
<1>1. <<>> \in Lists
  BY EmptySeq DEF Lists
<1>2. \A a, b \in Lists : a \o b \in Lists
  BY ConcatProperties DEF Lists
<1>3. \A tag \in Byte, s \in Seq(Byte) : << [tag |-> tag, value |-> s] >> \in Lists
  <2>1. TAKE tag \in Byte, s \in Seq(Byte)
  <2> DEFINE f == [tag |-> tag, value |-> s]
  <2>2. f \in Field
    BY DEF Field
  <2> HIDE DEF f
  <2>3. <<f>> \in Lists
    BY <2>2 DEF Lists
  <2> QED BY <2>3 DEF f
<1>4. \A v \in Byte : <<v>> \in Seq(Byte)
  OBVIOUS
<1>5. \A v \in Nat : Octets(v, 2) \in Seq(Byte) /\ Octets(v, 4) \in Seq(Byte)
  <2>1. 2 \in Nat /\ 2 <= 4 /\ 4 \in Nat /\ 4 <= 4
    OBVIOUS
  <2>2. \A v, c \in Nat : c <= 4 => Octets(v, c) \in Seq(Byte)
    BY OctetsAre
  <2> QED BY <2>1, <2>2
<1>6. \A tag \in Byte, v \in Byte : tlvSet_U8(tag, v) \in Lists /\ tlvSet_ECCurve(tag, v) \in Lists
  BY <1>1, <1>3, <1>4, Zenon DEF tlvSet_U8, tlvSet_ECCurve
<1>7. \A tag \in Byte, v \in Nat : tlvSet_U16(tag, v) \in Lists /\ tlvSet_U32(tag, v) \in Lists
  BY <1>3, <1>5, Zenon DEF tlvSet_U16, tlvSet_U32
<1>8. \A tag \in Byte, v \in Nat :
          /\ tlvSet_U16Optional(tag, v) \in Lists /\ tlvSet_MaxAttemps(tag, v) \in Lists
          /\ tlvSet_KeyID(tag, v) \in Lists
  BY <1>1, <1>7, Zenon DEF tlvSet_U16Optional, tlvSet_MaxAttemps, tlvSet_KeyID
<1>9. \A tag \in Byte, s \in Seq(Byte) :
          tlvSet_u8buf(tag, s) \in Lists /\ tlvSet_u8bufOptional(tag, s) \in Lists
  BY <1>1, <1>3, Zenon DEF tlvSet_u8buf, tlvSet_u8bufOptional
<1>10. \A tag \in Byte, s \in Seq(Byte) : tlvSet_Se05xPolicy(tag, <<s>>) \in Lists
  <2>1. TAKE tag \in Byte, s \in Seq(Byte)
  <2>2. <<s>> # <<>> /\ <<s>>[1] = s
    OBVIOUS
  <2> QED BY <1>9, <2>2, Zenon DEF tlvSet_Se05xPolicy, NoPolicy
<1>11. \A tag \in Byte : tlvSet_Se05xPolicy(tag, NoPolicy) \in Lists
  BY <1>1, Zenon DEF tlvSet_Se05xPolicy
<1> QED BY <1>1, <1>2, <1>6, <1>7, <1>8, <1>9, <1>10, <1>11, Zenon

LEMMA ApiFacts ==
    ASSUME NEW ins \in Nat, NEW p1 \in Nat, NEW p2 \in Nat, NEW fields \in Lists, NEW gets
    PROVE  Sendable(Api(ins, p1, p2, fields, gets)) /\ Api(ins, p1, p2, fields, gets).gets = gets
  BY DEF Sendable, Api

-----------------------------------------------------------------------------
(* The values that a reply must hold.                                      *)

IsGetter(get) ==
    /\ get.tag \in Nat /\ 64 < get.tag /\ get.tag < 128
    /\ \/ get.kind = "number" /\ get.room \in Nat /\ get.room # 0 /\ get.room <= 4
       \/ get.kind = "bytes" /\ get.room \in Word16

(* All values are needed, or all but the first. *)
Needed(gets) ==
    /\ Len(gets) \in Nat /\ DOMAIN gets = 1..Len(gets) /\ (gets = <<>> \/ Len(gets) # 0)
    /\ \A i \in 1..Len(gets) : IsGetter(gets[i]) /\ gets[i].need = TRUE
NeededBehindFirst(gets) ==
    /\ Len(gets) = 6 /\ DOMAIN gets = 1..Len(gets)
    /\ gets[2].tag # gets[1].tag
    /\ \A i \in 1..Len(gets) : IsGetter(gets[i])
    /\ \A i \in 2..Len(gets) : gets[i].need = TRUE
    /\ gets[1].kind = "bytes" /\ gets[2].kind = "bytes" /\ gets[4].kind = "bytes"
    /\ gets[1].room = gets[2].room /\ gets[1].room = gets[4].room

LEMMA GetterFacts ==
    \A i \in Nat : i # 0 /\ i < 64 =>
        /\ IsGetter(GetU8(i)) /\ GetU8(i).need = TRUE
        /\ IsGetter(GetU16(i)) /\ GetU16(i).need = TRUE
        /\ IsGetter(GetResult(i)) /\ GetResult(i).need = TRUE
        /\ IsGetter(GetTimeStamp(i)) /\ GetTimeStamp(i).need = TRUE
        /\ \A room \in Word16 : /\ IsGetter(GetBuf(i, room)) /\ GetBuf(i, room).need = TRUE
                                /\ IsGetter(MayGetBuf(i, room))
<1>1. TAKE i \in Nat
<1> SUFFICES ASSUME i # 0, i < 64
             PROVE  /\ IsGetter(GetU8(i)) /\ GetU8(i).need = TRUE
                    /\ IsGetter(GetU16(i)) /\ GetU16(i).need = TRUE
                    /\ IsGetter(GetResult(i)) /\ GetResult(i).need = TRUE
                    /\ IsGetter(GetTimeStamp(i)) /\ GetTimeStamp(i).need = TRUE
                    /\ \A room \in Word16 :
                          /\ IsGetter(GetBuf(i, room)) /\ GetBuf(i, room).need = TRUE
                          /\ IsGetter(MayGetBuf(i, room))
  OBVIOUS
<1>2. Tag(i) \in Nat /\ 64 < Tag(i) /\ Tag(i) < 128
  BY DEF Tag
<1>3. \A room \in Word16 : IsGetter(GetBuf(i, room)) /\ GetBuf(i, room).need = TRUE
  BY <1>2 DEF IsGetter, GetBuf, Get
<1>4. \A room \in Word16 : IsGetter(MayGetBuf(i, room))
  BY <1>2 DEF IsGetter, MayGetBuf, GetBuf, Get
<1>5. IsGetter(GetU8(i)) /\ GetU8(i).need = TRUE
  BY <1>2 DEF IsGetter, GetU8, Get
<1>6. IsGetter(GetU16(i)) /\ GetU16(i).need = TRUE
  BY <1>2 DEF IsGetter, GetU16, Get
<1>7. 1 \in Word16 /\ 12 \in Word16
  BY DEF Word16
<1>8. /\ IsGetter(GetResult(i)) /\ GetResult(i).need = TRUE
      /\ IsGetter(GetTimeStamp(i)) /\ GetTimeStamp(i).need = TRUE
  BY <1>3, <1>7 DEF GetResult, GetTimeStamp
<1> QED BY <1>3, <1>4, <1>5, <1>6, <1>8, Zenon

LEMMA NeededFacts ==
    /\ Needed(<<>>)
    /\ \A g : IsGetter(g) /\ g.need = TRUE => Needed(<<g>>)
    /\ \A g, h : IsGetter(g) /\ g.need = TRUE /\ IsGetter(h) /\ h.need = TRUE => Needed(<<g, h>>)
<1>1. Needed(<<>>)
  BY DEF Needed
<1>2. ASSUME NEW g, IsGetter(g), g.need = TRUE PROVE Needed(<<g>>)
  <2> DEFINE s == <<g>>
  <2>1. Len(s) = 1 /\ DOMAIN s = 1..Len(s) /\ s[1] = g
    OBVIOUS
  <2> HIDE DEF s
  <2>2. \A i \in 1..Len(s) : i = 1
    BY <2>1
  <2>3. Needed(s)
    BY <1>2, <2>1, <2>2 DEF Needed
  <2> QED BY <2>3 DEF s
<1>3. ASSUME NEW g, NEW h, IsGetter(g), g.need = TRUE, IsGetter(h), h.need = TRUE
      PROVE  Needed(<<g, h>>)
  <2> DEFINE s == <<g, h>>
  <2>1. Len(s) = 2 /\ DOMAIN s = 1..Len(s) /\ s[1] = g /\ s[2] = h
    OBVIOUS
  <2> HIDE DEF s
  <2>2. \A i \in 1..Len(s) : i = 1 \/ i = 2
    BY <2>1
  <2>3. \A i \in 1..Len(s) : IsGetter(s[i]) /\ s[i].need = TRUE
    BY <1>3, <2>1, <2>2
  <2>4. Needed(s)
    BY <2>1, <2>3 DEF Needed
  <2> QED BY <2>4 DEF s
<1> QED BY <1>1, <1>2, <1>3

(* A call whose command can be written and whose reply can be read. *)
Good(api) ==
    /\ Sendable(api)
    /\ Needed(api.gets) \/ NeededBehindFirst(api.gets)

LEMMA GoodFacts ==
    /\ \A ins, p1, p2 \in Nat, fields \in Lists : Good(Api(ins, p1, p2, fields, <<>>))
    /\ \A ins, p1, p2 \in Nat, fields \in Lists : \A g :
          IsGetter(g) /\ g.need = TRUE => Good(Api(ins, p1, p2, fields, <<g>>))
    /\ \A ins, p1, p2 \in Nat, fields \in Lists : \A g, h :
          IsGetter(g) /\ g.need = TRUE /\ IsGetter(h) /\ h.need = TRUE =>
              Good(Api(ins, p1, p2, fields, <<g, h>>))
    /\ \A ins, p1, p2 \in Nat, fields \in Lists : \A gets :
          NeededBehindFirst(gets) => Good(Api(ins, p1, p2, fields, gets))
<1>1. \A ins, p1, p2 \in Nat, fields \in Lists : \A gets :
          Sendable(Api(ins, p1, p2, fields, gets)) /\ Api(ins, p1, p2, fields, gets).gets = gets
  BY ApiFacts
<1>2. \A ins, p1, p2 \in Nat, fields \in Lists : \A gets :
          Needed(gets) \/ NeededBehindFirst(gets) => Good(Api(ins, p1, p2, fields, gets))
  <2>1. TAKE ins, p1, p2 \in Nat, fields \in Lists
  <2> TAKE gets
  <2> DEFINE api == Api(ins, p1, p2, fields, gets)
  <2>2. Sendable(api) /\ api.gets = gets
    BY <1>1
  <2> HIDE DEF api
  <2>3. Needed(gets) \/ NeededBehindFirst(gets) => Good(api)
    BY <2>2 DEF Good
  <2> QED BY <2>3 DEF api
<1> QED BY <1>2, NeededFacts, Zenon

LEMMA Attested ==
    NeededBehindFirst(<<MayGetBuf(1, 300), GetBuf(2, 300), GetTimeStamp(3), GetBuf(4, 300),
                        GetBuf(5, 300), GetBuf(6, 300)>>)
<1> DEFINE a == MayGetBuf(1, 300)
           b == GetBuf(2, 300)
           c == GetTimeStamp(3)
           d == GetBuf(4, 300)
           e == GetBuf(5, 300)
           f == GetBuf(6, 300)
           s == <<a, b, c, d, e, f>>
<1>1. 300 \in Word16
  BY DEF Word16
<1>2. /\ 1 \in Nat /\ 1 # 0 /\ 1 < 64 /\ 2 \in Nat /\ 2 # 0 /\ 2 < 64
      /\ 3 \in Nat /\ 3 # 0 /\ 3 < 64 /\ 4 \in Nat /\ 4 # 0 /\ 4 < 64
      /\ 5 \in Nat /\ 5 # 0 /\ 5 < 64 /\ 6 \in Nat /\ 6 # 0 /\ 6 < 64
  OBVIOUS
<1>3. /\ IsGetter(a) /\ IsGetter(b) /\ IsGetter(c) /\ IsGetter(d) /\ IsGetter(e) /\ IsGetter(f)
      /\ b.need = TRUE /\ c.need = TRUE /\ d.need = TRUE /\ e.need = TRUE /\ f.need = TRUE
  <2>1. \A i \in Nat : i # 0 /\ i < 64 =>
            /\ IsGetter(GetTimeStamp(i)) /\ GetTimeStamp(i).need = TRUE
            /\ IsGetter(GetBuf(i, 300)) /\ GetBuf(i, 300).need = TRUE
            /\ IsGetter(MayGetBuf(i, 300))
    BY <1>1, GetterFacts, ZenonT(60)
  <2>2. IsGetter(a) /\ IsGetter(b) /\ b.need = TRUE /\ IsGetter(c) /\ c.need = TRUE
    BY <1>2, <2>1, ZenonT(60)
  <2>3. /\ IsGetter(d) /\ d.need = TRUE /\ IsGetter(e) /\ e.need = TRUE
        /\ IsGetter(f) /\ f.need = TRUE
    BY <1>2, <2>1, ZenonT(60)
  <2> QED BY <2>2, <2>3, Zenon
<1>4. /\ a.tag = 65 /\ b.tag = 66 /\ a.room = 300 /\ b.room = 300 /\ d.room = 300
      /\ a.kind = "bytes" /\ b.kind = "bytes" /\ d.kind = "bytes"
  BY DEF MayGetBuf, GetBuf, Get, Tag
<1> HIDE DEF a, b, c, d, e, f
<1>5. /\ Len(s) = 6 /\ DOMAIN s = 1..Len(s)
      /\ s[1] = a /\ s[2] = b /\ s[3] = c /\ s[4] = d /\ s[5] = e /\ s[6] = f
  OBVIOUS
<1> HIDE DEF s
<1>6. \A i \in 1..Len(s) : i = 1 \/ i = 2 \/ i = 3 \/ i = 4 \/ i = 5 \/ i = 6
  BY <1>5
<1>7. \A i \in 2..Len(s) : i = 2 \/ i = 3 \/ i = 4 \/ i = 5 \/ i = 6
  BY <1>5
<1>8. \A i \in 1..Len(s) : IsGetter(s[i])
  BY <1>3, <1>5, <1>6
<1>9. \A i \in 2..Len(s) : s[i].need = TRUE
  BY <1>3, <1>5, <1>7
<1>10. 66 # 65
  OBVIOUS
<1>11. /\ s[1].tag = 65 /\ s[2].tag = 66 /\ s[1].room = 300 /\ s[2].room = 300 /\ s[4].room = 300
       /\ s[1].kind = "bytes" /\ s[2].kind = "bytes" /\ s[4].kind = "bytes"
  BY <1>4, <1>5, Zenon
<1>12. s[2].tag # s[1].tag /\ s[1].room = s[2].room /\ s[1].room = s[4].room
  BY <1>11
<1>13. NeededBehindFirst(s)
  BY <1>5, <1>8, <1>9, <1>11, <1>12, Zenon DEF NeededBehindFirst
<1> QED BY <1>13 DEF s, a, b, c, d, e, f

(* All the calls are such calls. *)
LEMMA EveryCallGood ==
    ASSUME DataInv
    PROVE  \A api \in Calls \cup OtherCalls : Good(api)
<1> DEFINE o == 2147483647
<1>1. data \in Seq(Byte) /\ size \in Nat
  BY DEF DataInv
<1>2. /\ payload \in Seq(Byte) /\ Stretch(16) \in Seq(Byte) /\ Len(Stretch(16)) = 16
      /\ Stretch(32) \in Seq(Byte) /\ Stretch(65) \in Seq(Byte)
  BY <1>1, StretchFacts, PayloadFacts
<1>3. /\ Tag(1) \in Byte /\ Tag(2) \in Byte /\ Tag(3) \in Byte /\ Tag(4) \in Byte
      /\ Tag(5) \in Byte /\ Tag(6) \in Byte /\ Tag(7) \in Byte
      /\ PolicyTag \in Byte /\ AttemptsTag \in Byte
  BY DEF Byte, Tag, PolicyTag, AttemptsTag
<1>4. \A n \in Nat : n <= 255 => n \in Byte
  BY DEF Byte
<1>5. /\ 1 \in Byte /\ 2 \in Byte /\ 7 \in Byte /\ 16 \in Byte /\ 33 \in Byte
      /\ 163 \in Byte /\ 255 \in Byte
  BY <1>4
<1>6. <<>> \in Seq(Byte)
  BY EmptySeq
<1>7. /\ 16 \in Word16 /\ 24 \in Word16 /\ 64 \in Word16 /\ 74 \in Word16 /\ 300 \in Word16
  BY DEF Word16
<1>8. /\ 1 \in Nat /\ 1 # 0 /\ 1 < 64 /\ 2 \in Nat /\ 2 # 0 /\ 2 < 64
      /\ 3 \in Nat /\ 3 # 0 /\ 3 < 64
  OBVIOUS
<1>9. /\ IsGetter(GetU8(1)) /\ GetU8(1).need = TRUE /\ IsGetter(GetU8(2)) /\ GetU8(2).need = TRUE
      /\ IsGetter(GetU16(1)) /\ GetU16(1).need = TRUE
      /\ IsGetter(GetResult(1)) /\ GetResult(1).need = TRUE
      /\ IsGetter(GetTimeStamp(1)) /\ GetTimeStamp(1).need = TRUE
      /\ \A room \in Word16 :
            /\ IsGetter(GetBuf(1, room)) /\ GetBuf(1, room).need = TRUE
            /\ IsGetter(GetBuf(2, room)) /\ GetBuf(2, room).need = TRUE
            /\ IsGetter(GetBuf(3, room)) /\ GetBuf(3, room).need = TRUE
  BY <1>8, GetterFacts, Zenon
<1>10. o \in Nat
  OBVIOUS
<1>11. /\ 0 \in Nat /\ 1 \in Nat /\ 5 \in Nat /\ 7 \in Nat /\ 9 \in Nat /\ 300 \in Nat
        /\ Len(Stretch(16)) \in Nat
  BY <1>2
<1> HIDE DEF o
<1>12. Good(Se05x_API_CreateSession(o, 16))
  BY <1>3, <1>7, <1>9, <1>10, <1>11, ListFacts, GoodFacts
     DEF Se05x_API_CreateSession, Mgmt, Default
<1>13. Good(Se05x_API_ExchangeSessionData(<<payload>>))
  BY <1>2, <1>3, ListFacts, GoodFacts
     DEF Se05x_API_ExchangeSessionData, Mgmt, Default
<1>14. Good(Se05x_API_RefreshSession(NoPolicy))
  BY <1>3, ListFacts, GoodFacts
     DEF Se05x_API_RefreshSession, Mgmt, Default
<1>15. Good(Se05x_API_WriteECKey(NoPolicy, 0, o, 16, <<>>, <<>>, 0, 96))
  <2> DEFINE a == tlvSet_Se05xPolicy(PolicyTag, NoPolicy)
             b == tlvSet_MaxAttemps(AttemptsTag, 0)
             c == tlvSet_U32(Tag(1), o)
             d == tlvSet_ECCurve(Tag(2), 16)
             e == tlvSet_u8bufOptional(Tag(3), <<>>)
             f == tlvSet_u8bufOptional(Tag(4), <<>>)
  <2> DEFINE gets == <<>>
  <2>1. a \in Lists /\ b \in Lists /\ c \in Lists /\ d \in Lists /\ e \in Lists /\ f \in Lists
    <3>1. a \in Lists
      BY <1>3, ListFacts
    <3>2. b \in Lists
      BY <1>3, <1>11, ListFacts
    <3>3. c \in Lists
      BY <1>3, <1>10, ListFacts
    <3>4. d \in Lists
      BY <1>3, <1>5, ListFacts
    <3>5. e \in Lists
      BY <1>3, <1>6, ListFacts
    <3>6. f \in Lists
      BY <1>3, <1>6, ListFacts
    <3> QED BY <3>1, <3>2, <3>3, <3>4, <3>5, <3>6
  <2> HIDE DEF a, b, c, d, e, f
  <2>2. a \o b \o c \o d \o e \o f \in Lists
    BY <2>1, ListFacts
  <2>3. Write + 0 \in Nat /\ Ec + 96 \in Nat /\ Default \in Nat
    BY DEF Write, Default, Ec
  <2> DEFINE ins == Write + 0
             p1 == Ec + 96
             p2 == Default
             fields == a \o b \o c \o d \o e \o f
  <2>4. ins \in Nat /\ p1 \in Nat /\ p2 \in Nat /\ fields \in Lists
    BY <2>2, <2>3
  <2> HIDE DEF ins, p1, p2, fields
  <2>6. Good(Api(ins, p1, p2, fields, gets))
    BY <2>4, GoodFacts
  <2> QED
    BY <2>6 DEF Se05x_API_WriteECKey, a, b, c, d, e, f, gets, ins, p1, p2, fields
<1>16. Good(Se05x_API_WriteECKey(<<data>>, 5, o, 16, Stretch(32), Stretch(65), 64, 32))
  <2> DEFINE a == tlvSet_Se05xPolicy(PolicyTag, <<data>>)
             b == tlvSet_MaxAttemps(AttemptsTag, 5)
             c == tlvSet_U32(Tag(1), o)
             d == tlvSet_ECCurve(Tag(2), 16)
             e == tlvSet_u8bufOptional(Tag(3), Stretch(32))
             f == tlvSet_u8bufOptional(Tag(4), Stretch(65))
  <2> DEFINE gets == <<>>
  <2>1. a \in Lists /\ b \in Lists /\ c \in Lists /\ d \in Lists /\ e \in Lists /\ f \in Lists
    <3>1. a \in Lists
      BY <1>1, <1>3, ListFacts
    <3>2. b \in Lists
      BY <1>3, <1>11, ListFacts
    <3>3. c \in Lists
      BY <1>3, <1>10, ListFacts
    <3>4. d \in Lists
      BY <1>3, <1>5, ListFacts
    <3>5. e \in Lists
      BY <1>2, <1>3, ListFacts
    <3>6. f \in Lists
      BY <1>2, <1>3, ListFacts
    <3> QED BY <3>1, <3>2, <3>3, <3>4, <3>5, <3>6
  <2> HIDE DEF a, b, c, d, e, f
  <2>2. a \o b \o c \o d \o e \o f \in Lists
    BY <2>1, ListFacts
  <2>3. Write + 64 \in Nat /\ Ec + 32 \in Nat /\ Default \in Nat
    BY DEF Write, Default, Ec
  <2> DEFINE ins == Write + 64
             p1 == Ec + 32
             p2 == Default
             fields == a \o b \o c \o d \o e \o f
  <2>4. ins \in Nat /\ p1 \in Nat /\ p2 \in Nat /\ fields \in Lists
    BY <2>2, <2>3
  <2> HIDE DEF ins, p1, p2, fields
  <2>6. Good(Api(ins, p1, p2, fields, gets))
    BY <2>4, GoodFacts
  <2> QED
    BY <2>6 DEF Se05x_API_WriteECKey, a, b, c, d, e, f, gets, ins, p1, p2, fields
<1>17. Good(Se05x_API_WriteSymmKey(NoPolicy, 1, o, o, payload, 0, 3))
  <2> DEFINE a == tlvSet_Se05xPolicy(PolicyTag, NoPolicy)
             b == tlvSet_MaxAttemps(AttemptsTag, 1)
             c == tlvSet_U32(Tag(1), o)
             d == tlvSet_KeyID(Tag(2), o)
             e == tlvSet_u8bufOptional(Tag(3), payload)
  <2> DEFINE gets == <<>>
  <2>1. a \in Lists /\ b \in Lists /\ c \in Lists /\ d \in Lists /\ e \in Lists
    <3>1. a \in Lists
      BY <1>3, ListFacts
    <3>2. b \in Lists
      BY <1>3, <1>11, ListFacts
    <3>3. c \in Lists
      BY <1>3, <1>10, ListFacts
    <3>4. d \in Lists
      BY <1>3, <1>10, ListFacts
    <3>5. e \in Lists
      BY <1>2, <1>3, ListFacts
    <3> QED BY <3>1, <3>2, <3>3, <3>4, <3>5
  <2> HIDE DEF a, b, c, d, e
  <2>2. a \o b \o c \o d \o e \in Lists
    BY <2>1, ListFacts
  <2>3. Write + 0 \in Nat /\ 3 \in Nat /\ Default \in Nat
    BY DEF Write, Default
  <2> DEFINE ins == Write + 0
             p1 == 3
             p2 == Default
             fields == a \o b \o c \o d \o e
  <2>4. ins \in Nat /\ p1 \in Nat /\ p2 \in Nat /\ fields \in Lists
    BY <2>2, <2>3
  <2> HIDE DEF ins, p1, p2, fields
  <2>6. Good(Api(ins, p1, p2, fields, gets))
    BY <2>4, GoodFacts
  <2> QED
    BY <2>6 DEF Se05x_API_WriteSymmKey, a, b, c, d, e, gets, ins, p1, p2, fields
<1>18. Good(Se05x_API_WriteBinary(NoPolicy, o, size, 300, payload))
  <2> DEFINE a == tlvSet_Se05xPolicy(PolicyTag, NoPolicy)
             b == tlvSet_U32(Tag(1), o)
             c == tlvSet_U16Optional(Tag(2), size)
             d == tlvSet_U16Optional(Tag(3), 300)
             e == tlvSet_u8bufOptional(Tag(4), payload)
  <2> DEFINE gets == <<>>
  <2>1. a \in Lists /\ b \in Lists /\ c \in Lists /\ d \in Lists /\ e \in Lists
    <3>1. a \in Lists
      BY <1>3, ListFacts
    <3>2. b \in Lists
      BY <1>3, <1>10, ListFacts
    <3>3. c \in Lists
      BY <1>1, <1>3, <1>11, ListFacts
    <3>4. d \in Lists
      BY <1>3, <1>11, ListFacts
    <3>5. e \in Lists
      BY <1>2, <1>3, ListFacts
    <3> QED BY <3>1, <3>2, <3>3, <3>4, <3>5
  <2> HIDE DEF a, b, c, d, e
  <2>2. a \o b \o c \o d \o e \in Lists
    BY <2>1, ListFacts
  <2>3. Write \in Nat /\ Binary \in Nat /\ Default \in Nat
    BY DEF Write, Default, Binary
  <2> DEFINE ins == Write
             p1 == Binary
             p2 == Default
             fields == a \o b \o c \o d \o e
  <2>4. ins \in Nat /\ p1 \in Nat /\ p2 \in Nat /\ fields \in Lists
    BY <2>2, <2>3
  <2> HIDE DEF ins, p1, p2, fields
  <2>6. Good(Api(ins, p1, p2, fields, gets))
    BY <2>4, GoodFacts
  <2> QED
    BY <2>6 DEF Se05x_API_WriteBinary, a, b, c, d, e, gets, ins, p1, p2, fields
<1>19. Good(Se05x_API_WriteUserID(<<payload>>, 0, o, data, 64))
  <2> DEFINE a == tlvSet_Se05xPolicy(PolicyTag, <<payload>>)
             b == tlvSet_MaxAttemps(AttemptsTag, 0)
             c == tlvSet_U32(Tag(1), o)
             d == tlvSet_u8bufOptional(Tag(2), data)
  <2> DEFINE gets == <<>>
  <2>1. a \in Lists /\ b \in Lists /\ c \in Lists /\ d \in Lists
    <3>1. a \in Lists
      BY <1>2, <1>3, ListFacts
    <3>2. b \in Lists
      BY <1>3, <1>11, ListFacts
    <3>3. c \in Lists
      BY <1>3, <1>10, ListFacts
    <3>4. d \in Lists
      BY <1>1, <1>3, ListFacts
    <3> QED BY <3>1, <3>2, <3>3, <3>4
  <2> HIDE DEF a, b, c, d
  <2>2. a \o b \o c \o d \in Lists
    BY <2>1, ListFacts
  <2>3. Write + 64 \in Nat /\ UserId \in Nat /\ Default \in Nat
    BY DEF Write, Default, UserId
  <2> DEFINE ins == Write + 64
             p1 == UserId
             p2 == Default
             fields == a \o b \o c \o d
  <2>4. ins \in Nat /\ p1 \in Nat /\ p2 \in Nat /\ fields \in Lists
    BY <2>2, <2>3
  <2> HIDE DEF ins, p1, p2, fields
  <2>6. Good(Api(ins, p1, p2, fields, gets))
    BY <2>4, GoodFacts
  <2> QED
    BY <2>6 DEF Se05x_API_WriteUserID, a, b, c, d, gets, ins, p1, p2, fields
<1>20. Good(Se05x_API_ReadType(o, 0))
  <2> DEFINE a == tlvSet_U32(Tag(1), o)
  <2> DEFINE gets == <<GetU8(1), GetU8(2)>>
  <2>1. a \in Lists
    <3>1. a \in Lists
      BY <1>3, <1>10, ListFacts
    <3> QED BY <3>1
  <2> HIDE DEF a
  <2>2. a \in Lists
    BY <2>1, ListFacts
  <2>3. Read + 0 \in Nat /\ Default \in Nat /\ 38 \in Nat
    BY DEF Read, Default
  <2> DEFINE ins == Read + 0
             p1 == Default
             p2 == 38
             fields == a
  <2>4. ins \in Nat /\ p1 \in Nat /\ p2 \in Nat /\ fields \in Lists
    BY <2>2, <2>3
  <2> DEFINE g == GetU8(1)
             h == GetU8(2)
  <2>5. IsGetter(g) /\ g.need = TRUE /\ IsGetter(h) /\ h.need = TRUE
    BY <1>2, <1>7, <1>9, Zenon
  <2> HIDE DEF g, h, ins, p1, p2, fields
  <2>6. Good(Api(ins, p1, p2, fields, <<g, h>>))
    BY <2>4, <2>5, GoodFacts
  <2> QED BY <2>6 DEF Se05x_API_ReadType, a, gets, ins, p1, p2, fields, g, h
<1>21. Good(Se05x_API_ReadSize(o))
  BY <1>3, <1>9, <1>10, <1>11, ListFacts, GoodFacts
     DEF Se05x_API_ReadSize, Read, Default
<1>22. Good(Se05x_API_ReadIDList(0, 255, 16))
  <2> DEFINE a == tlvSet_U16(Tag(1), 0)
             b == tlvSet_U8(Tag(2), 255)
  <2> DEFINE gets == <<GetU8(1), GetBuf(2, 16)>>
  <2>1. a \in Lists /\ b \in Lists
    <3>1. a \in Lists
      BY <1>3, <1>11, ListFacts
    <3>2. b \in Lists
      BY <1>3, <1>5, ListFacts
    <3> QED BY <3>1, <3>2
  <2> HIDE DEF a, b
  <2>2. a \o b \in Lists
    BY <2>1, ListFacts
  <2>3. Read \in Nat /\ Default \in Nat /\ List \in Nat
    BY DEF Read, Default, List
  <2> DEFINE ins == Read
             p1 == Default
             p2 == List
             fields == a \o b
  <2>4. ins \in Nat /\ p1 \in Nat /\ p2 \in Nat /\ fields \in Lists
    BY <2>2, <2>3
  <2> DEFINE g == GetU8(1)
             h == GetBuf(2, 16)
  <2>5. IsGetter(g) /\ g.need = TRUE /\ IsGetter(h) /\ h.need = TRUE
    BY <1>2, <1>7, <1>9, Zenon
  <2> HIDE DEF g, h, ins, p1, p2, fields
  <2>6. Good(Api(ins, p1, p2, fields, <<g, h>>))
    BY <2>4, <2>5, GoodFacts
  <2> QED
    BY <2>6 DEF Se05x_API_ReadIDList, a, b, gets, ins, p1, p2, fields, g, h
<1>23. Good(Se05x_API_CheckObjectExists(o))
  BY <1>3, <1>9, <1>10, <1>11, ListFacts, GoodFacts
     DEF Se05x_API_CheckObjectExists, Mgmt, Default
<1>24. Good(Se05x_API_DeleteSecureObject(o))
  BY <1>3, <1>10, <1>11, ListFacts, GoodFacts
     DEF Se05x_API_DeleteSecureObject, Mgmt, Default, DeleteObject
<1>25. Good(Se05x_API_ReadObject(o, 0, size, 300))
  <2> DEFINE a == tlvSet_U32(Tag(1), o)
             b == tlvSet_U16Optional(Tag(2), 0)
             c == tlvSet_U16Optional(Tag(3), size)
  <2> DEFINE gets == <<GetBuf(1, 300)>>
  <2>1. a \in Lists /\ b \in Lists /\ c \in Lists
    <3>1. a \in Lists
      BY <1>3, <1>10, ListFacts
    <3>2. b \in Lists
      BY <1>3, <1>11, ListFacts
    <3>3. c \in Lists
      BY <1>1, <1>3, <1>11, ListFacts
    <3> QED BY <3>1, <3>2, <3>3
  <2> HIDE DEF a, b, c
  <2>2. a \o b \o c \in Lists
    BY <2>1, ListFacts
  <2>3. Read \in Nat /\ Default \in Nat
    BY DEF Read, Default
  <2> DEFINE ins == Read
             p1 == Default
             p2 == Default
             fields == a \o b \o c
  <2>4. ins \in Nat /\ p1 \in Nat /\ p2 \in Nat /\ fields \in Lists
    BY <2>2, <2>3
  <2> DEFINE g == GetBuf(1, 300)
  <2>5. IsGetter(g) /\ g.need = TRUE
    BY <1>2, <1>7, <1>9, ZenonT(60)
  <2> HIDE DEF g, ins, p1, p2, fields
  <2>6. Good(Api(ins, p1, p2, fields, <<g>>))
    BY <2>4, <2>5, GoodFacts
  <2> QED
    BY <2>6 DEF Se05x_API_ReadObject, a, b, c, gets, ins, p1, p2, fields, g
<1>26. Good(Se05x_API_ReadObject_W_Attst(o, 0, 0, o, 33, data, 300))
  <2> DEFINE a == tlvSet_U32(Tag(1), o)
             b == tlvSet_U16Optional(Tag(2), 0)
             c == tlvSet_U16Optional(Tag(3), 0)
             d == tlvSet_U32(Tag(5), o)
             e == tlvSet_U8(Tag(6), 33)
             f == tlvSet_u8bufOptional(Tag(7), data)
  <2> DEFINE gets == <<MayGetBuf(1, 300), GetBuf(2, 300), GetTimeStamp(3), GetBuf(4, 300), GetBuf(5, 300), GetBuf(6, 300)>>
  <2>1. a \in Lists /\ b \in Lists /\ c \in Lists /\ d \in Lists /\ e \in Lists /\ f \in Lists
    <3>1. a \in Lists
      BY <1>3, <1>10, ListFacts
    <3>2. b \in Lists
      BY <1>3, <1>11, ListFacts
    <3>3. c \in Lists
      BY <1>3, <1>11, ListFacts
    <3>4. d \in Lists
      BY <1>3, <1>10, ListFacts
    <3>5. e \in Lists
      BY <1>3, <1>5, ListFacts
    <3>6. f \in Lists
      BY <1>1, <1>3, ListFacts
    <3> QED BY <3>1, <3>2, <3>3, <3>4, <3>5, <3>6
  <2> HIDE DEF a, b, c, d, e, f
  <2>2. a \o b \o c \o d \o e \o f \in Lists
    BY <2>1, ListFacts
  <2>3. Read + Attest \in Nat /\ Default \in Nat
    BY DEF Read, Attest, Default
  <2> DEFINE ins == Read + Attest
             p1 == Default
             p2 == Default
             fields == a \o b \o c \o d \o e \o f
  <2>4. ins \in Nat /\ p1 \in Nat /\ p2 \in Nat /\ fields \in Lists
    BY <2>2, <2>3
  <2>5. NeededBehindFirst(gets)
    BY Attested
  <2> HIDE DEF gets, ins, p1, p2, fields
  <2>6. Good(Api(ins, p1, p2, fields, gets))
    BY <2>4, <2>5, GoodFacts
  <2> QED
    BY <2>6 DEF Se05x_API_ReadObject_W_Attst, a, b, c, d, e, f, gets, ins, p1, p2, fields
<1>27. Good(Se05x_API_CreateECCurve(16))
  BY <1>3, <1>5, ListFacts, GoodFacts
     DEF Se05x_API_CreateECCurve, Write, Curve, CreateObject
<1>28. Good(Se05x_API_SetECCurveParam(16, 1, payload))
  <2> DEFINE a == tlvSet_ECCurve(Tag(1), 16)
             b == tlvSet_U8(Tag(2), 1)
             c == tlvSet_u8bufOptional(Tag(3), payload)
  <2> DEFINE gets == <<>>
  <2>1. a \in Lists /\ b \in Lists /\ c \in Lists
    <3>1. a \in Lists
      BY <1>3, <1>5, ListFacts
    <3>2. b \in Lists
      BY <1>3, <1>5, ListFacts
    <3>3. c \in Lists
      BY <1>2, <1>3, ListFacts
    <3> QED BY <3>1, <3>2, <3>3
  <2> HIDE DEF a, b, c
  <2>2. a \o b \o c \in Lists
    BY <2>1, ListFacts
  <2>3. Write \in Nat /\ Curve \in Nat /\ 64 \in Nat
    BY DEF Write, Curve
  <2> DEFINE ins == Write
             p1 == Curve
             p2 == 64
             fields == a \o b \o c
  <2>4. ins \in Nat /\ p1 \in Nat /\ p2 \in Nat /\ fields \in Lists
    BY <2>2, <2>3
  <2> HIDE DEF ins, p1, p2, fields
  <2>6. Good(Api(ins, p1, p2, fields, gets))
    BY <2>4, GoodFacts
  <2> QED
    BY <2>6 DEF Se05x_API_SetECCurveParam, a, b, c, gets, ins, p1, p2, fields
<1>29. Good(Se05x_API_GetECCurveId(7))
  BY <1>3, <1>9, <1>11, ListFacts, GoodFacts
     DEF Se05x_API_GetECCurveId, Read, Curve
<1>30. Good(Se05x_API_ReadECCurveList(24))
  BY <1>6, <1>7, <1>9, ListFacts, GoodFacts
     DEF Se05x_API_ReadECCurveList, Read, Curve, List
<1>31. Good(Se05x_API_DeleteECCurve(16))
  BY <1>3, <1>5, ListFacts, GoodFacts
     DEF Se05x_API_DeleteECCurve, Mgmt, Curve, DeleteObject
<1>32. Good(Se05x_API_CreateCryptoObject(5, 2, 1))
  BY <1>3, <1>5, <1>11, ListFacts, GoodFacts
     DEF Se05x_API_CreateCryptoObject, Write, Default, CryptoObj
<1>33. Good(Se05x_API_ReadCryptoObjectList(300))
  <2> DEFINE gets == <<GetBuf(1, 300)>>
  <2>2. <<>> \in Lists
    BY ListFacts
  <2>3. Read \in Nat /\ CryptoObj \in Nat /\ List \in Nat
    BY DEF Read, CryptoObj, List
  <2> DEFINE ins == Read
             p1 == CryptoObj
             p2 == List
             fields == <<>>
  <2>4. ins \in Nat /\ p1 \in Nat /\ p2 \in Nat /\ fields \in Lists
    BY <2>2, <2>3
  <2> DEFINE g == GetBuf(1, 300)
  <2>5. IsGetter(g) /\ g.need = TRUE
    BY <1>2, <1>7, <1>9, Zenon
  <2> HIDE DEF g, ins, p1, p2, fields
  <2>6. Good(Api(ins, p1, p2, fields, <<g>>))
    BY <2>4, <2>5, GoodFacts
  <2> QED
    BY <2>6 DEF Se05x_API_ReadCryptoObjectList, gets, ins, p1, p2, fields, g
<1>34. Good(Se05x_API_DeleteCryptoObject(5))
  <2> DEFINE a == tlvSet_U16(Tag(1), 5)
  <2> DEFINE gets == <<>>
  <2>1. a \in Lists
    <3>1. a \in Lists
      BY <1>3, <1>11, ListFacts
    <3> QED BY <3>1
  <2> HIDE DEF a
  <2>2. a \in Lists
    BY <2>1, ListFacts
  <2>3. Mgmt \in Nat /\ CryptoObj \in Nat /\ DeleteObject \in Nat
    BY DEF Mgmt, CryptoObj, DeleteObject
  <2> DEFINE ins == Mgmt
             p1 == CryptoObj
             p2 == DeleteObject
             fields == a
  <2>4. ins \in Nat /\ p1 \in Nat /\ p2 \in Nat /\ fields \in Lists
    BY <2>2, <2>3
  <2> HIDE DEF ins, p1, p2, fields
  <2>6. Good(Api(ins, p1, p2, fields, gets))
    BY <2>4, GoodFacts
  <2> QED
    BY <2>6 DEF Se05x_API_DeleteCryptoObject, a, gets, ins, p1, p2, fields
<1>35. Good(Se05x_API_ECDSASign(7, 33, payload))
  <2> DEFINE a == tlvSet_U32(Tag(1), 7)
             b == tlvSet_U8(Tag(2), 33)
             c == tlvSet_u8bufOptional(Tag(3), payload)
  <2> DEFINE gets == <<GetBuf(1, 74)>>
  <2>1. a \in Lists /\ b \in Lists /\ c \in Lists
    <3>1. a \in Lists
      BY <1>3, ListFacts
    <3>2. b \in Lists
      BY <1>3, <1>5, ListFacts
    <3>3. c \in Lists
      BY <1>2, <1>3, ListFacts
    <3> QED BY <3>1, <3>2, <3>3
  <2> HIDE DEF a, b, c
  <2>2. a \o b \o c \in Lists
    BY <2>1, ListFacts
  <2>3. Crypto \in Nat /\ Signature \in Nat /\ Sign \in Nat
    BY DEF Crypto, Signature, Sign
  <2> DEFINE ins == Crypto
             p1 == Signature
             p2 == Sign
             fields == a \o b \o c
  <2>4. ins \in Nat /\ p1 \in Nat /\ p2 \in Nat /\ fields \in Lists
    BY <2>2, <2>3
  <2> DEFINE g == GetBuf(1, 74)
  <2>5. IsGetter(g) /\ g.need = TRUE
    BY <1>2, <1>7, <1>9, Zenon
  <2> HIDE DEF g, ins, p1, p2, fields
  <2>6. Good(Api(ins, p1, p2, fields, <<g>>))
    BY <2>4, <2>5, GoodFacts
  <2> QED
    BY <2>6 DEF Se05x_API_ECDSASign, SignFields, a, b, c, gets, ins, p1, p2, fields, g
<1>36. Good(Se05x_API_EdDSASign(7, 163, payload, 64))
  <2> DEFINE a == tlvSet_U32(Tag(1), 7)
             b == tlvSet_U8(Tag(2), 163)
             c == tlvSet_u8bufOptional(Tag(3), payload)
  <2> DEFINE gets == <<GetBuf(1, 64)>>
  <2>1. a \in Lists /\ b \in Lists /\ c \in Lists
    <3>1. a \in Lists
      BY <1>3, ListFacts
    <3>2. b \in Lists
      BY <1>3, <1>5, ListFacts
    <3>3. c \in Lists
      BY <1>2, <1>3, ListFacts
    <3> QED BY <3>1, <3>2, <3>3
  <2> HIDE DEF a, b, c
  <2>2. a \o b \o c \in Lists
    BY <2>1, ListFacts
  <2>3. Crypto \in Nat /\ Signature \in Nat /\ Sign \in Nat
    BY DEF Crypto, Signature, Sign
  <2> DEFINE ins == Crypto
             p1 == Signature
             p2 == Sign
             fields == a \o b \o c
  <2>4. ins \in Nat /\ p1 \in Nat /\ p2 \in Nat /\ fields \in Lists
    BY <2>2, <2>3
  <2> DEFINE g == GetBuf(1, 64)
  <2>5. IsGetter(g) /\ g.need = TRUE
    BY <1>2, <1>7, <1>9, Zenon
  <2> HIDE DEF g, ins, p1, p2, fields
  <2>6. Good(Api(ins, p1, p2, fields, <<g>>))
    BY <2>4, <2>5, GoodFacts
  <2> QED
    BY <2>6 DEF Se05x_API_EdDSASign, SignFields, a, b, c, gets, ins, p1, p2, fields, g
<1>37. Good(Se05x_API_ECDSAVerify(7, 33, data, payload))
  <2> DEFINE a == tlvSet_U32(Tag(1), 7)
             b == tlvSet_U8(Tag(2), 33)
             c == tlvSet_u8bufOptional(Tag(3), data)
             d == tlvSet_u8bufOptional(Tag(5), payload)
  <2> DEFINE gets == <<GetResult(1)>>
  <2>1. a \in Lists /\ b \in Lists /\ c \in Lists /\ d \in Lists
    <3>1. a \in Lists
      BY <1>3, ListFacts
    <3>2. b \in Lists
      BY <1>3, <1>5, ListFacts
    <3>3. c \in Lists
      BY <1>1, <1>3, ListFacts
    <3>4. d \in Lists
      BY <1>2, <1>3, ListFacts
    <3> QED BY <3>1, <3>2, <3>3, <3>4
  <2> HIDE DEF a, b, c, d
  <2>2. a \o b \o c \o d \in Lists
    BY <2>1, ListFacts
  <2>3. Crypto \in Nat /\ Signature \in Nat /\ Verify \in Nat
    BY DEF Crypto, Signature, Verify
  <2> DEFINE ins == Crypto
             p1 == Signature
             p2 == Verify
             fields == a \o b \o c \o d
  <2>4. ins \in Nat /\ p1 \in Nat /\ p2 \in Nat /\ fields \in Lists
    BY <2>2, <2>3
  <2> DEFINE g == GetResult(1)
  <2>5. IsGetter(g) /\ g.need = TRUE
    BY <1>2, <1>7, <1>9, Zenon
  <2> HIDE DEF g, ins, p1, p2, fields
  <2>6. Good(Api(ins, p1, p2, fields, <<g>>))
    BY <2>4, <2>5, GoodFacts
  <2> QED
    BY <2>6 DEF Se05x_API_ECDSAVerify, SignFields, a, b, c, d, gets, ins, p1, p2, fields, g
<1>38. Good(Se05x_API_EdDSAVerify(7, 163, payload, data))
  <2> DEFINE a == tlvSet_U32(Tag(1), 7)
             b == tlvSet_U8(Tag(2), 163)
             c == tlvSet_u8bufOptional(Tag(3), payload)
             d == tlvSet_u8bufOptional(Tag(5), data)
  <2> DEFINE gets == <<GetResult(1)>>
  <2>1. a \in Lists /\ b \in Lists /\ c \in Lists /\ d \in Lists
    <3>1. a \in Lists
      BY <1>3, ListFacts
    <3>2. b \in Lists
      BY <1>3, <1>5, ListFacts
    <3>3. c \in Lists
      BY <1>2, <1>3, ListFacts
    <3>4. d \in Lists
      BY <1>1, <1>3, ListFacts
    <3> QED BY <3>1, <3>2, <3>3, <3>4
  <2> HIDE DEF a, b, c, d
  <2>2. a \o b \o c \o d \in Lists
    BY <2>1, ListFacts
  <2>3. Crypto \in Nat /\ Signature \in Nat /\ Verify \in Nat
    BY DEF Crypto, Signature, Verify
  <2> DEFINE ins == Crypto
             p1 == Signature
             p2 == Verify
             fields == a \o b \o c \o d
  <2>4. ins \in Nat /\ p1 \in Nat /\ p2 \in Nat /\ fields \in Lists
    BY <2>2, <2>3
  <2> DEFINE g == GetResult(1)
  <2>5. IsGetter(g) /\ g.need = TRUE
    BY <1>2, <1>7, <1>9, Zenon
  <2> HIDE DEF g, ins, p1, p2, fields
  <2>6. Good(Api(ins, p1, p2, fields, <<g>>))
    BY <2>4, <2>5, GoodFacts
  <2> QED
    BY <2>6 DEF Se05x_API_EdDSAVerify, SignFields, a, b, c, d, gets, ins, p1, p2, fields, g
<1>39. Good(Se05x_API_CipherInit(7, 5, Stretch(16), Encrypt, 9))
  <2> DEFINE a == tlvSet_U32(Tag(1), 7)
             b == tlvSet_U16(Tag(2), 5)
             c == tlvSet_u8bufOptional(Tag(4), Stretch(16))
  <2> DEFINE gets == <<>>
  <2>1. a \in Lists /\ b \in Lists /\ c \in Lists
    <3>1. a \in Lists
      BY <1>3, ListFacts
    <3>2. b \in Lists
      BY <1>3, <1>11, ListFacts
    <3>3. c \in Lists
      BY <1>2, <1>3, ListFacts
    <3> QED BY <3>1, <3>2, <3>3
  <2> HIDE DEF a, b, c
  <2>2. a \o b \o c \in Lists
    BY <2>1, ListFacts
  <2>3. Crypto \in Nat /\ Cipher \in Nat /\ Encrypt \in Nat
    BY DEF Encrypt, Crypto, Cipher
  <2> DEFINE ins == Crypto
             p1 == Cipher
             p2 == Encrypt
             fields == a \o b \o c
  <2>4. ins \in Nat /\ p1 \in Nat /\ p2 \in Nat /\ fields \in Lists
    BY <2>2, <2>3
  <2> HIDE DEF ins, p1, p2, fields
  <2>6. Good(Api(ins, p1, p2, fields, gets))
    BY <2>4, GoodFacts
  <2> QED
    BY <2>6 DEF Se05x_API_CipherInit, InternalIv, a, b, c, gets, ins, p1, p2, fields
<1>40. Good(Se05x_API_CipherInit(7, 9, Stretch(16), Encrypt, 9))
  <2> DEFINE a == tlvSet_U32(Tag(1), 7)
             b == tlvSet_U16(Tag(2), 9)
             c == tlvSet_U16(Tag(4), Len(Stretch(16)))
  <2> DEFINE gets == <<GetBuf(3, Len(Stretch(16)))>>
  <2>1. a \in Lists /\ b \in Lists /\ c \in Lists
    <3>1. a \in Lists
      BY <1>3, ListFacts
    <3>2. b \in Lists
      BY <1>3, <1>11, ListFacts
    <3>3. c \in Lists
      BY <1>2, <1>3, <1>11, ListFacts
    <3> QED BY <3>1, <3>2, <3>3
  <2> HIDE DEF a, b, c
  <2>2. a \o b \o c \in Lists
    BY <2>1, ListFacts
  <2>3. Crypto \in Nat /\ Cipher \in Nat /\ Encrypt \in Nat
    BY DEF Encrypt, Crypto, Cipher
  <2> DEFINE ins == Crypto
             p1 == Cipher
             p2 == Encrypt
             fields == a \o b \o c
  <2>4. ins \in Nat /\ p1 \in Nat /\ p2 \in Nat /\ fields \in Lists
    BY <2>2, <2>3
  <2> DEFINE g == GetBuf(3, Len(Stretch(16)))
  <2>5. IsGetter(g) /\ g.need = TRUE
    BY <1>2, <1>7, <1>9, Zenon
  <2> HIDE DEF g, ins, p1, p2, fields
  <2>6. Good(Api(ins, p1, p2, fields, <<g>>))
    BY <2>4, <2>5, GoodFacts
  <2> QED
    BY <2>6 DEF Se05x_API_CipherInit, InternalIv, a, b, c, gets, ins, p1, p2, fields, g
<1>41. Good(Se05x_API_CipherUpdate(5, payload, 300))
  <2> DEFINE a == tlvSet_U16(Tag(2), 5)
             b == tlvSet_u8bufOptional(Tag(3), payload)
  <2> DEFINE gets == <<GetBuf(1, 300)>>
  <2>1. a \in Lists /\ b \in Lists
    <3>1. a \in Lists
      BY <1>3, <1>11, ListFacts
    <3>2. b \in Lists
      BY <1>2, <1>3, ListFacts
    <3> QED BY <3>1, <3>2
  <2> HIDE DEF a, b
  <2>2. a \o b \in Lists
    BY <2>1, ListFacts
  <2>3. Crypto \in Nat /\ Cipher \in Nat /\ Update \in Nat
    BY DEF Crypto, Cipher, Update
  <2> DEFINE ins == Crypto
             p1 == Cipher
             p2 == Update
             fields == a \o b
  <2>4. ins \in Nat /\ p1 \in Nat /\ p2 \in Nat /\ fields \in Lists
    BY <2>2, <2>3
  <2> DEFINE g == GetBuf(1, 300)
  <2>5. IsGetter(g) /\ g.need = TRUE
    BY <1>2, <1>7, <1>9, Zenon
  <2> HIDE DEF g, ins, p1, p2, fields
  <2>6. Good(Api(ins, p1, p2, fields, <<g>>))
    BY <2>4, <2>5, GoodFacts
  <2> QED
    BY <2>6 DEF Se05x_API_CipherUpdate, a, b, gets, ins, p1, p2, fields, g
<1>42. Good(Se05x_API_CipherFinal(5, payload, 300))
  <2> DEFINE a == tlvSet_U16(Tag(2), 5)
             b == tlvSet_u8buf(Tag(3), payload)
  <2> DEFINE gets == <<GetBuf(1, 300)>>
  <2>1. a \in Lists /\ b \in Lists
    <3>1. a \in Lists
      BY <1>3, <1>11, ListFacts
    <3>2. b \in Lists
      BY <1>2, <1>3, ListFacts
    <3> QED BY <3>1, <3>2
  <2> HIDE DEF a, b
  <2>2. a \o b \in Lists
    BY <2>1, ListFacts
  <2>3. Crypto \in Nat /\ Cipher \in Nat /\ Final \in Nat
    BY DEF Crypto, Cipher, Final
  <2> DEFINE ins == Crypto
             p1 == Cipher
             p2 == Final
             fields == a \o b
  <2>4. ins \in Nat /\ p1 \in Nat /\ p2 \in Nat /\ fields \in Lists
    BY <2>2, <2>3
  <2> DEFINE g == GetBuf(1, 300)
  <2>5. IsGetter(g) /\ g.need = TRUE
    BY <1>2, <1>7, <1>9, Zenon
  <2> HIDE DEF g, ins, p1, p2, fields
  <2>6. Good(Api(ins, p1, p2, fields, <<g>>))
    BY <2>4, <2>5, GoodFacts
  <2> QED BY <2>6 DEF Se05x_API_CipherFinal, a, b, gets, ins, p1, p2, fields, g
<1>43. Good(Se05x_API_MACInit(7, 5, 3))
  BY <1>3, <1>11, ListFacts, GoodFacts
     DEF Se05x_API_MACInit, Crypto, Mac
<1>44. Good(Se05x_API_MACUpdate(payload, 5))
  BY <1>2, <1>3, <1>11, ListFacts, GoodFacts
     DEF Se05x_API_MACUpdate, Crypto, Mac, Update
<1>45. Good(Se05x_API_MACFinal(payload, 5, data, 64))
  BY <1>1, <1>2, <1>3, <1>7, <1>9, <1>11, ListFacts, GoodFacts
     DEF Se05x_API_MACFinal, Crypto, Mac, Final
<1>46. Good(Se05x_API_DigestInit(5))
  BY <1>3, <1>11, ListFacts, GoodFacts
     DEF Se05x_API_DigestInit, Crypto, Default, InitOp
<1>47. Good(Se05x_API_DigestUpdate(5, payload))
  BY <1>2, <1>3, <1>11, ListFacts, GoodFacts
     DEF Se05x_API_DigestUpdate, Crypto, Default, Update
<1>48. Good(Se05x_API_DigestFinal(5, payload, 64))
  <2> DEFINE a == tlvSet_U16(Tag(2), 5)
             b == tlvSet_u8buf(Tag(3), payload)
  <2> DEFINE gets == <<GetBuf(1, 64)>>
  <2>1. a \in Lists /\ b \in Lists
    <3>1. a \in Lists
      BY <1>3, <1>11, ListFacts
    <3>2. b \in Lists
      BY <1>2, <1>3, ListFacts
    <3> QED BY <3>1, <3>2
  <2> HIDE DEF a, b
  <2>2. a \o b \in Lists
    BY <2>1, ListFacts
  <2>3. Crypto \in Nat /\ Default \in Nat /\ Final \in Nat
    BY DEF Crypto, Default, Final
  <2> DEFINE ins == Crypto
             p1 == Default
             p2 == Final
             fields == a \o b
  <2>4. ins \in Nat /\ p1 \in Nat /\ p2 \in Nat /\ fields \in Lists
    BY <2>2, <2>3
  <2> DEFINE g == GetBuf(1, 64)
  <2>5. IsGetter(g) /\ g.need = TRUE
    BY <1>2, <1>7, <1>9, Zenon
  <2> HIDE DEF g, ins, p1, p2, fields
  <2>6. Good(Api(ins, p1, p2, fields, <<g>>))
    BY <2>4, <2>5, GoodFacts
  <2> QED BY <2>6 DEF Se05x_API_DigestFinal, a, b, gets, ins, p1, p2, fields, g
<1>49. Good(Se05x_API_GetVersion(16))
  BY <1>6, <1>7, <1>9, ListFacts, GoodFacts
     DEF Se05x_API_GetVersion, Mgmt, Default
<1>50. Good(Se05x_API_GetTimestamp)
  BY <1>6, <1>9, ListFacts, GoodFacts
     DEF Se05x_API_GetTimestamp, Mgmt, Default
<1>51. Good(Se05x_API_GetFreeMemory(1))
  BY <1>3, <1>5, <1>9, ListFacts, GoodFacts
     DEF Se05x_API_GetFreeMemory, Mgmt, Default
<1>52. Good(Se05x_API_GetRandom(size, 300))
  <2> DEFINE a == tlvSet_U16(Tag(1), size)
  <2> DEFINE gets == <<GetBuf(1, 300)>>
  <2>1. a \in Lists
    <3>1. a \in Lists
      BY <1>1, <1>3, <1>11, ListFacts
    <3> QED BY <3>1
  <2> HIDE DEF a
  <2>2. a \in Lists
    BY <2>1, ListFacts
  <2>3. Mgmt \in Nat /\ Default \in Nat /\ 73 \in Nat
    BY DEF Mgmt, Default
  <2> DEFINE ins == Mgmt
             p1 == Default
             p2 == 73
             fields == a
  <2>4. ins \in Nat /\ p1 \in Nat /\ p2 \in Nat /\ fields \in Lists
    BY <2>2, <2>3
  <2> DEFINE g == GetBuf(1, 300)
  <2>5. IsGetter(g) /\ g.need = TRUE
    BY <1>2, <1>7, <1>9, Zenon
  <2> HIDE DEF g, ins, p1, p2, fields
  <2>6. Good(Api(ins, p1, p2, fields, <<g>>))
    BY <2>4, <2>5, GoodFacts
  <2> QED BY <2>6 DEF Se05x_API_GetRandom, a, gets, ins, p1, p2, fields, g
<1>53. Good(Se05x_API_DeleteAll)
  BY <1>6, ListFacts, GoodFacts
     DEF Se05x_API_DeleteAll, Mgmt, Default
<1>54. \A api \in Calls : Good(api)
  BY <1>12, <1>13, <1>14, <1>15, <1>16, <1>17, <1>18, <1>19, <1>20, <1>21, <1>22,
     <1>23, <1>24, <1>25, <1>26
     DEF Calls, o
<1>55. \A api \in OtherCalls : Good(api)
  BY <1>27, <1>28, <1>29, <1>30, <1>31, <1>32, <1>33, <1>34, <1>35, <1>36, <1>37,
     <1>38, <1>39, <1>40, <1>41, <1>42, <1>43, <1>44, <1>45, <1>46, <1>47, <1>48,
     <1>49, <1>50, <1>51, <1>52, <1>53
     DEF OtherCalls
<1> QED BY <1>54, <1>55

-----------------------------------------------------------------------------
(* Replies.                                                                *)

(* The recursive function of Values by name. *)
Begun == [ok |-> TRUE, index |-> 0, values |-> <<>>]
StepValues(rsp, gets, i, v) ==
    LET took == TakeValue(rsp, v.index, gets[i])
    IN  IF ~v.ok THEN v
        ELSE [ok     |-> took.ok \/ ~gets[i].need,
              index  |-> took.index,
              values |-> Append(v.values, took.value)]
AfterOf(rsp, gets) ==
    CHOOSE after : after = [n \in 0 .. Len(gets) |->
        IF n = 0 THEN Begun ELSE StepValues(rsp, gets, n, after[n - 1])]

LEMMA ValuesAfter == \A rsp, gets : Values(rsp, gets) = AfterOf(rsp, gets)[Len(gets)]
  BY DEF Values, AfterOf, Begun, StepValues

LEMMA AfterFacts ==
    ASSUME NEW rsp, NEW gets, Len(gets) \in Nat
    PROVE  /\ AfterOf(rsp, gets)[0] = Begun
           /\ \A i \in 1..Len(gets) :
                 AfterOf(rsp, gets)[i] = StepValues(rsp, gets, i, AfterOf(rsp, gets)[i - 1])
<1> DEFINE n == Len(gets)
           upTo(k) == \E f : f[0] = Begun /\ \A i \in 1..k : f[i] = StepValues(rsp, gets, i, f[i - 1])
           T == {k \in 0..n : upTo(k)}
<1>1. 0 \in T
  <2> DEFINE f == [i \in {0} |-> Begun]
  <2>1. f[0] = Begun /\ \A i \in 1..0 : f[i] = StepValues(rsp, gets, i, f[i - 1])
    OBVIOUS
  <2> HIDE DEF f
  <2> QED BY <2>1
<1>2. ASSUME NEW k \in 1..n, k - 1 \in T PROVE k \in T
  <2> DEFINE m == k - 1
  <2>1. PICK f : f[0] = Begun /\ \A i \in 1..m : f[i] = StepValues(rsp, gets, i, f[i - 1])
    BY <1>2
  <2> DEFINE h == [i \in 0..k |-> IF i = k THEN StepValues(rsp, gets, k, f[m]) ELSE f[i]]
  <2>2. /\ m \in 0..k /\ m # k /\ 0 \in 0..k /\ 0 # k /\ k \in 0..k /\ k \in 0..n
        /\ \A i \in 1..k : i = k \/ i \in 1..m
        /\ \A i \in 1..m : i \in 0..k /\ i # k /\ i - 1 \in 0..k /\ i - 1 # k
    OBVIOUS
  <2>3. /\ h[0] = f[0] /\ h[m] = f[m] /\ h[k] = StepValues(rsp, gets, k, f[m])
        /\ \A i \in 1..m : h[i] = f[i] /\ h[i - 1] = f[i - 1]
    <3> HIDE DEF m
    <3> QED BY <2>2
  <2> HIDE DEF h
  <2>4. \A i \in 1..k : h[i] = StepValues(rsp, gets, i, h[i - 1])
    <3>1. TAKE i \in 1..k
    <3>2. CASE i = k
      BY <2>3, <3>2
    <3>3. CASE i \in 1..m
      BY <2>1, <2>3, <3>3
    <3> QED BY <2>2, <3>2, <3>3
  <2>5. upTo(k)
    BY <2>1, <2>3, <2>4
  <2> HIDE DEF upTo
  <2> QED BY <2>2, <2>5
<1> HIDE DEF T
<1>3. \A k \in 0..n : k \in T
  <2> HIDE DEF n
  <2>1. n \in Nat
    BY DEF n
  <2> QED BY <1>1, <1>2, <2>1, InductionTo
<1>4. upTo(n)
  <2>1. n \in 0..n
    OBVIOUS
  <2> QED BY <1>3, <2>1 DEF T
<1>5. PICK f : f[0] = Begun /\ \A i \in 1..n : f[i] = StepValues(rsp, gets, i, f[i - 1])
  BY <1>4
<1> DEFINE g == [i \in 0..n |-> f[i]]
<1>6. 0 \in 0..n /\ \A i \in 1..n : i \in 0..n /\ i - 1 \in 0..n /\ i # 0
  OBVIOUS
<1>7. \A i \in 0..n : i # 0 => i \in 1..n
  OBVIOUS
<1>8. \A i \in 0..n : g[i] = f[i]
  OBVIOUS
<1>9. g = [i \in 0..n |-> g[i]]
  OBVIOUS
<1> HIDE DEF g, n
<1>10. \A i \in 0..n : g[i] = IF i = 0 THEN Begun ELSE StepValues(rsp, gets, i, g[i - 1])
  <2>1. TAKE i \in 0..n
  <2>2. CASE i = 0
    BY <1>5, <1>8, <2>2
  <2>3. CASE i # 0
    <3>1. i \in 1..n
      BY <1>7, <2>3
    <3> QED BY <1>5, <1>6, <1>8, <2>3, <3>1
  <2> QED BY <2>2, <2>3
<1>11. g = [i \in 0..n |-> IF i = 0 THEN Begun ELSE StepValues(rsp, gets, i, g[i - 1])]
  BY <1>9, <1>10
<1> DEFINE a == AfterOf(rsp, gets)
<1>12. a = [i \in 0..n |-> IF i = 0 THEN Begun ELSE StepValues(rsp, gets, i, a[i - 1])]
  BY <1>11 DEF AfterOf, n
<1> HIDE DEF a
<1>13. a[0] = Begun /\ \A i \in 1..n : a[i] = StepValues(rsp, gets, i, a[i - 1])
  BY <1>6, <1>12
<1> QED BY <1>13 DEF a, n

-----------------------------------------------------------------------------
(* One value of a reply.                                                   *)

BufHead(rsp, index) ==
    CASE At(rsp, index + 1) <= 127 -> 2
      [] At(rsp, index + 1) = 129  -> 3
      [] At(rsp, index + 1) = 130  -> 4
      [] At(rsp, index + 1) \in 128 .. 255 \ {129, 130} -> 0
BufLen(rsp, index) ==
    CASE At(rsp, index + 1) <= 127 -> At(rsp, index + 1)
      [] At(rsp, index + 1) = 129  -> At(rsp, index + 2)
      [] At(rsp, index + 1) = 130  -> 256 * At(rsp, index + 2) + At(rsp, index + 3)
      [] At(rsp, index + 1) \in 128 .. 255 \ {129, 130} -> 0

LEMMA BufParts ==
    \A rsp, index, get :
        tlvGet_u8buf(rsp, index, get) =
            LET head == BufHead(rsp, index)
                len  == BufLen(rsp, index)
            IN  IF index > Len(rsp) \/ At(rsp, index) # get.tag \/ head = 0
                THEN [ok |-> FALSE, index |-> index, value |-> <<>>]
                ELSE IF len > get.room \/ len > Len(rsp)
                THEN [ok |-> FALSE, index |-> index + head, value |-> <<>>]
                ELSE [ok |-> TRUE, index |-> index + head + len,
                      value |-> [i \in 1 .. len |-> At(rsp, index + head + i - 1)]]
  BY DEF tlvGet_u8buf, BufHead, BufLen

LEMMA BufForms ==
    ASSUME NEW rsp, NEW index, At(rsp, index + 1) \in Byte
    PROVE  LET short == At(rsp, index + 1)
           IN  /\ short <= 127 => BufHead(rsp, index) = 2 /\ BufLen(rsp, index) = short
               /\ short = 129 => BufHead(rsp, index) = 3 /\ BufLen(rsp, index) = At(rsp, index + 2)
               /\ short = 130 =>
                     /\ BufHead(rsp, index) = 4
                     /\ BufLen(rsp, index) = 256 * At(rsp, index + 2) + At(rsp, index + 3)
               /\ ~(short <= 127) /\ short # 129 /\ short # 130 => BufHead(rsp, index) = 0
<1> DEFINE b == At(rsp, index + 1)
           Rest == 128 .. 255 \ {129, 130}
           head == BufHead(rsp, index)
           len == BufLen(rsp, index)
           l2 == At(rsp, index + 2)
           l3 == 256 * At(rsp, index + 2) + At(rsp, index + 3)
<1>1. b \in Nat
  BY Ranges
<1>2. head = CASE b <= 127 -> 2 [] b = 129 -> 3 [] b = 130 -> 4 [] b \in Rest -> 0
  BY DEF BufHead
<1>3. len = CASE b <= 127 -> b [] b = 129 -> l2 [] b = 130 -> l3 [] b \in Rest -> 0
  BY DEF BufLen
<1>4. \A x \in Nat : x <= 127 \/ x = 129 \/ x = 130 => x \notin Rest
  OBVIOUS
<1>5. \A x \in Byte : ~(x <= 127) /\ x # 129 /\ x # 130 => x \in Rest
  BY DEF Byte
<1>6. b \in Byte
  OBVIOUS
<1> HIDE DEF b, Rest, head, len, l2, l3
<1>7. ASSUME b <= 127 PROVE head = 2 /\ len = b
  <2>1. b # 129 /\ b # 130 /\ b \notin Rest
    BY <1>1, <1>4, <1>7
  <2> QED BY <1>2, <1>3, <1>7, <2>1
<1>8. ASSUME b = 129 PROVE head = 3 /\ len = l2
  <2>1. ~(b <= 127) /\ b # 130 /\ b \notin Rest
    BY <1>1, <1>4, <1>8
  <2> QED BY <1>2, <1>3, <1>8, <2>1
<1>9. ASSUME b = 130 PROVE head = 4 /\ len = l3
  <2>1. ~(b <= 127) /\ b # 129 /\ b \notin Rest
    BY <1>1, <1>4, <1>9
  <2> QED BY <1>2, <1>3, <1>9, <2>1
<1>10. ASSUME ~(b <= 127), b # 129, b # 130 PROVE head = 0
  <2>1. b \in Rest
    BY <1>5, <1>6, <1>10
  <2> QED BY <1>2, <1>10, <2>1
<1> QED BY <1>7, <1>8, <1>9, <1>10 DEF b, head, len, l2, l3

LEMMA AtByte ==
    ASSUME NEW rsp \in Seq(Byte)
    PROVE  \A i : At(rsp, i) \in Byte /\ At(rsp, i) \in Nat
<1>1. \A i : ByteAt(rsp, i) \in Byte
  BY ElementOfSeq, Ranges DEF ByteAt
<1> QED BY <1>1, Ranges DEF At

LEMMA ReplyNumber ==
    ASSUME DataInv, NEW get, IsGetter(get), get.kind = "number"
    PROVE  LET v == ValueFor(get) item == ReplyItem(get)
           IN  /\ get.room \in Nat /\ get.room # 0 /\ get.room <= 4
               /\ v \in Seq(Byte) /\ Len(v) = get.room
               /\ item \in Seq(Byte) /\ Len(item) = 2 + get.room
               /\ item[1] = get.tag /\ item[2] = get.room
               /\ \A i \in 1..get.room : item[2 + i] = v[i]
<1> DEFINE v == ValueFor(get)
           t == get.tag
           r == get.room
           h == <<t, r>>
           item == ReplyItem(get)
<1>1. t \in Nat /\ 64 < t /\ t < 128 /\ r \in Nat /\ r # 0 /\ r <= 4
  BY DEF IsGetter
<1>2. v = Octets(size, r) /\ item = h \o v
  BY DEF ValueFor, ReplyItem
<1>3. size \in Nat
  BY DEF DataInv
<1> HIDE DEF v, item, t, r
<1>4. v \in Seq(Byte) /\ Len(v) = r
  BY <1>1, <1>2, <1>3, OctetsAre
<1>5. t \in Byte /\ r \in Byte
  BY <1>1 DEF Byte
<1>6. h \in Seq(Byte) /\ Len(h) = 2 /\ h[1] = t /\ h[2] = r
  BY <1>5
<1> HIDE DEF h
<1>7. /\ h \o v \in Seq(Byte) /\ Len(h \o v) = Len(h) + Len(v)
      /\ \A i \in 1..Len(h) : (h \o v)[i] = h[i]
      /\ \A i \in 1..Len(v) : (h \o v)[Len(h) + i] = v[i]
  <2>1. h \in Seq(Byte) /\ v \in Seq(Byte)
    BY <1>4, <1>6
  <2> QED BY <2>1, Joined
<1>8. 1 \in 1..2 /\ 2 \in 1..2
  OBVIOUS
<1>9. /\ item \in Seq(Byte) /\ Len(item) = 2 + r /\ item[1] = t /\ item[2] = r
      /\ \A i \in 1..r : item[2 + i] = v[i]
  BY <1>2, <1>4, <1>6, <1>7, <1>8
<1> QED BY <1>1, <1>4, <1>9 DEF v, item, t, r

LEMMA ReplyBytes ==
    ASSUME DataInv, NEW get, IsGetter(get), get.kind = "bytes"
    PROVE  LET v == ValueFor(get) item == ReplyItem(get)
           IN  /\ v \in Seq(Byte) /\ Len(v) \in Word16 /\ Len(v) <= get.room
               /\ get.room \in Nat /\ get.tag \in Byte /\ get.tag < 128
               /\ item = ItemOf(get.tag, v)
<1> DEFINE v == ValueFor(get)
           r == get.room
           t == get.tag
<1>1. r \in Nat /\ r < 65536 /\ t \in Nat /\ t < 128
  <2>1. r \in Word16 /\ t \in Nat /\ t < 128
    BY DEF IsGetter
  <2> HIDE DEF r, t
  <2> QED BY <2>1 DEF Word16
<1>2. size \in Nat
  BY Zenon DEF DataInv
<1>3. /\ payload \in Seq(Byte) /\ Len(payload) = size
      /\ Stretch(r) \in Seq(Byte) /\ Len(Stretch(r)) = r
  <2>1. \A n \in Nat : Stretch(n) \in Seq(Byte) /\ Len(Stretch(n)) = n
    BY StretchFacts
  <2> HIDE DEF r
  <2>2. r \in Nat
    BY <1>1
  <2>3. Stretch(r) \in Seq(Byte) /\ Len(Stretch(r)) = r
    BY <2>1, <2>2, Zenon
  <2>4. Stretch(size) \in Seq(Byte) /\ Len(Stretch(size)) = size
    BY <1>2, <2>1, Zenon
  <2> QED BY <2>3, <2>4, Zenon DEF payload
<1>4. v = IF size <= r THEN payload ELSE Stretch(r)
  BY DEF ValueFor
<1>5. ReplyItem(get) = ItemOf(t, v)
  BY DEF ReplyItem, Tlv, ItemOf
<1> HIDE DEF v, r, t
<1>6. v \in Seq(Byte) /\ Len(v) <= r /\ Len(v) \in Nat
  BY <1>1, <1>2, <1>3, <1>4
<1> DEFINE n == Len(v)
<1>7. n \in Word16
  <2>1. n \in Nat /\ n <= r
    BY <1>6
  <2> HIDE DEF n
  <2> QED BY <1>1, <2>1 DEF Word16
<1>8. t \in Byte
  BY <1>1 DEF Byte
<1> QED BY <1>1, <1>5, <1>6, <1>7, <1>8 DEF v, r, t

LEMMA ReplyItemFacts ==
    ASSUME DataInv, NEW get, IsGetter(get)
    PROVE  /\ ReplyItem(get) \in Seq(Byte) /\ Len(ReplyItem(get)) \in Nat
           /\ Len(ReplyItem(get)) >= 2 /\ ReplyItem(get)[1] = get.tag
<1> DEFINE item == ReplyItem(get)
<1>1. CASE get.kind = "number"
  <2>1. /\ get.room \in Nat /\ item \in Seq(Byte) /\ Len(item) = 2 + get.room /\ item[1] = get.tag
    BY <1>1, ReplyNumber
  <2> HIDE DEF item
  <2> QED BY <2>1 DEF item
<1>2. CASE get.kind = "bytes"
  <2> DEFINE v == ValueFor(get)
             t == get.tag
             ll == UtilityGetTLV_LL_from_len(Len(v))
  <2>1. v \in Seq(Byte) /\ Len(v) \in Word16 /\ t \in Byte /\ item = ItemOf(t, v)
    BY <1>2, ReplyBytes
  <2> HIDE DEF v, t, item
  <2>2. /\ ItemOf(t, v) \in Seq(Byte) /\ Len(ItemOf(t, v)) = 1 + ll + Len(v) /\ ll \in 1..3
        /\ ItemOf(t, v)[1] = t
    BY <2>1, ItemFacts
  <2>3. Len(v) \in Nat
    BY <2>1
  <2> HIDE DEF ll
  <2>4. item \in Seq(Byte) /\ Len(item) \in Nat /\ Len(item) >= 2 /\ item[1] = t
    BY <2>1, <2>2, <2>3
  <2> QED BY <2>4 DEF item, t
<1>3. get.kind = "number" \/ get.kind = "bytes"
  BY DEF IsGetter
<1> QED BY <1>1, <1>2, <1>3

(* The bytes of a value that stands in a reply, as the getters see them.   *)
LEMMA AtItem ==
    ASSUME NEW rsp \in Seq(Byte), NEW item \in Seq(Byte), NEW o \in Nat, Holds(rsp, o, item)
    PROVE  \A k \in 1..Len(item) : At(rsp, o + k - 1) = item[k]
<1>1. \A k \in 1..Len(item) : ByteAt(rsp, o + k) = item[k]
  BY HoldsElement
<1>2. Len(item) \in Nat
  OBVIOUS
<1>3. \A k \in 1..Len(item) : (o + k - 1) + 1 = o + k
  BY <1>2
<1> QED BY <1>1, <1>3 DEF At

(* What stands at the index is taken as it was put there. *)
LEMMA TakeWhole ==
    ASSUME DataInv, NEW get, IsGetter(get), NEW rsp \in Seq(Byte), NEW o \in Nat,
           Holds(rsp, o, ReplyItem(get))
    PROVE  /\ TakeValue(rsp, o, get).ok = TRUE
           /\ TakeValue(rsp, o, get).index = o + Len(ReplyItem(get))
           /\ TakeValue(rsp, o, get).value = ValueFor(get)
<1> DEFINE item == ReplyItem(get)
           t == get.tag
           r == get.room
           v == ValueFor(get)
<1>1. item \in Seq(Byte) /\ Len(item) \in Nat /\ Len(item) >= 2 /\ item[1] = t
  BY ReplyItemFacts
<1>2. \A k \in 1..Len(item) : At(rsp, o + k - 1) = item[k]
  BY <1>1, AtItem
<1>3. 1 \in 1..Len(item) /\ 2 \in 1..Len(item)
  BY <1>1
<1>4. At(rsp, o) = t /\ At(rsp, o + 1) = item[2]
  <2>1. o + 1 - 1 = o /\ o + 2 - 1 = o + 1
    OBVIOUS
  <2> HIDE DEF item, t
  <2>2. At(rsp, o + 1 - 1) = item[1] /\ At(rsp, o + 2 - 1) = item[2]
    BY <1>2, <1>3, Zenon
  <2> QED BY <1>1, <2>1, <2>2, Zenon
<1>5. ~(o > Len(rsp)) /\ Len(rsp) \in Nat /\ o + Len(item) <= Len(rsp)
  <2>1. o + Len(item) <= Len(rsp) /\ Len(rsp) \in Nat
    BY DEF Holds
  <2> QED BY <1>1, <2>1
<1>6. CASE get.kind = "number"
  <2>1. /\ r \in Nat /\ r <= 4 /\ v \in Seq(Byte) /\ Len(v) = r
        /\ Len(item) = 2 + r /\ item[2] = r
        /\ \A i \in 1..r : item[2 + i] = v[i]
    BY <1>6, ReplyNumber
  <2> DEFINE w == [i \in 1..r |-> At(rsp, o + 1 + i)]
  <2> HIDE DEF item, v
  <2>2. \A i \in 1..r : At(rsp, o + 1 + i) = v[i]
    <3>1. TAKE i \in 1..r
    <3>2. 2 + i \in 1..Len(item) /\ o + (2 + i) - 1 = o + 1 + i
      BY <2>1
    <3>3. At(rsp, o + (2 + i) - 1) = item[2 + i]
      BY <1>2, <3>2
    <3> QED BY <2>1, <3>2, <3>3
  <2>3. w = v
    <3>1. v = [i \in 1..r |-> v[i]]
      BY <2>1
    <3> QED BY <2>2, <3>1
  <2>4. ~(At(rsp, o + 1) > r)
    BY <1>4, <2>1
  <2>5. TakeValue(rsp, o, get) = tlvGet_Number(rsp, o, get)
    BY <1>6 DEF TakeValue
  <2>6. tlvGet_Number(rsp, o, get) =
            IF o > Len(rsp) \/ At(rsp, o) # t \/ At(rsp, o + 1) > r
            THEN [ok |-> FALSE, index |-> o, value |-> <<>>]
            ELSE [ok |-> TRUE, index |-> o + 2 + At(rsp, o + 1), value |-> w]
    BY DEF tlvGet_Number
  <2> HIDE DEF w
  <2>7. TakeValue(rsp, o, get) = [ok |-> TRUE, index |-> o + 2 + At(rsp, o + 1), value |-> w]
    BY <1>4, <1>5, <2>4, <2>5, <2>6
  <2>8. o + 2 + At(rsp, o + 1) = o + Len(item)
    <3>1. At(rsp, o + 1) = r /\ Len(item) = 2 + r /\ r \in Nat
      BY <1>4, <2>1
    <3> HIDE DEF r
    <3>2. o + 2 + r = o + (2 + r)
      BY <3>1
    <3> QED BY <3>1, <3>2
  <2> QED BY <2>3, <2>7, <2>8 DEF item, v
<1>7. CASE get.kind = "bytes"
  <2> DEFINE n == Len(v)
             ll == UtilityGetTLV_LL_from_len(n)
             bytes == LengthBytes(n)
             head == BufHead(rsp, o)
             len == BufLen(rsp, o)
  <2>1. /\ v \in Seq(Byte) /\ n \in Word16 /\ n <= r /\ r \in Nat /\ t \in Byte
        /\ item = ItemOf(t, v)
    BY <1>7, ReplyBytes
  <2>2. n \in Nat
    BY <2>1
  <2> HIDE DEF v, t
  <2>3. /\ Len(item) = 1 + ll + n /\ ll \in 1..3
        /\ \A i \in 1..ll : item[1 + i] = bytes[i]
        /\ \A i \in 1..n : item[1 + ll + i] = v[i]
    <3>1. /\ Len(ItemOf(t, v)) = 1 + ll + n /\ ll \in 1..3
          /\ \A i \in 1..ll : ItemOf(t, v)[1 + i] = bytes[i]
          /\ \A i \in 1..n : ItemOf(t, v)[1 + ll + i] = v[i]
      BY <2>1, ItemFacts
    <3> QED BY <2>1, <3>1
  <2>4. /\ bytes \in Seq(Byte) /\ Len(bytes) = ll
        /\ ll = 1 => bytes[1] = n /\ n < 128
        /\ ll = 2 => bytes[1] = 129 /\ bytes[2] = n
        /\ ll = 3 => bytes[1] = 130 /\ 256 * bytes[2] + bytes[3] = n
    BY <2>1, LengthFacts
  <2> HIDE DEF item, n, ll, bytes
  <2>5. \A i \in 1..ll : At(rsp, o + i) = bytes[i]
    <3>1. TAKE i \in 1..ll
    <3>2. 1 + i \in 1..Len(item) /\ o + (1 + i) - 1 = o + i
      BY <2>2, <2>3
    <3>3. At(rsp, o + (1 + i) - 1) = item[1 + i]
      BY <1>2, <3>2
    <3> QED BY <2>3, <3>2, <3>3
  <2>6. At(rsp, o + 1) \in Byte
    BY AtByte
  <2>7. head = 1 + ll /\ len = n
    <3>1. /\ At(rsp, o + 1) <= 127 => head = 2 /\ len = At(rsp, o + 1)
          /\ At(rsp, o + 1) = 129 => head = 3 /\ len = At(rsp, o + 2)
          /\ At(rsp, o + 1) = 130 =>
                head = 4 /\ len = 256 * At(rsp, o + 2) + At(rsp, o + 3)
      <4>1. o + 1 + 1 = o + 2 /\ o + 1 + 2 = o + 3
        OBVIOUS
      <4> QED BY <2>6, <4>1, BufForms
    <3> HIDE DEF head, len
    <3>2. CASE ll = 1
      <4>1. At(rsp, o + 1) = n /\ n <= 127
        BY <2>2, <2>4, <2>5, <3>2
      <4> QED BY <3>1, <3>2, <4>1
    <3>3. CASE ll = 2
      <4>1. At(rsp, o + 1) = 129 /\ At(rsp, o + 2) = n
        BY <2>4, <2>5, <3>3
      <4> QED BY <3>1, <3>3, <4>1
    <3>4. CASE ll = 3
      <4>1. /\ At(rsp, o + 1) = 130
            /\ 256 * At(rsp, o + 2) + At(rsp, o + 3) = n
        BY <2>4, <2>5, <3>4
      <4> QED BY <3>1, <3>4, <4>1
    <3>5. ll = 1 \/ ll = 2 \/ ll = 3
      BY <2>3
    <3> QED BY <3>2, <3>3, <3>4, <3>5
  <2> DEFINE w == [i \in 1..len |-> At(rsp, o + head + i - 1)]
  <2>8. TakeValue(rsp, o, get) =
            IF o > Len(rsp) \/ At(rsp, o) # t \/ head = 0
            THEN [ok |-> FALSE, index |-> o, value |-> <<>>]
            ELSE IF len > r \/ len > Len(rsp)
            THEN [ok |-> FALSE, index |-> o + head, value |-> <<>>]
            ELSE [ok |-> TRUE, index |-> o + head + len, value |-> w]
    BY <1>7, BufParts DEF TakeValue, t
  <2> HIDE DEF head, len
  <2>9. \A i \in 1..n : At(rsp, o + head + i - 1) = v[i]
    <3>1. TAKE i \in 1..n
    <3> DEFINE k == 1 + ll + i
    <3>2. k \in 1..Len(item) /\ o + k - 1 = o + head + i - 1
      BY <2>2, <2>3, <2>7
    <3>3. item[k] = v[i]
      BY <2>3
    <3> HIDE DEF k
    <3>4. At(rsp, o + k - 1) = item[k]
      BY <1>2, <3>2
    <3> QED BY <3>2, <3>3, <3>4
  <2>10. w = v
    <3>1. v = [i \in 1..n |-> v[i]]
      BY <2>1 DEF n
    <3> QED BY <2>7, <2>9, <3>1
  <2> HIDE DEF w
  <2>11. head # 0 /\ ~(len > r) /\ ~(len > Len(rsp)) /\ o + head + len = o + Len(item)
    <3>1. Len(item) = 1 + ll + n /\ ll \in 1..3 /\ n <= r
      BY <2>1, <2>3
    <3> DEFINE l == Len(rsp)
               li == Len(item)
    <3>2. l \in Nat /\ li = 1 + ll + n /\ o + li <= l
      BY <1>5, <3>1
    <3> HIDE DEF l, li
    <3>3. head # 0 /\ ~(len > r) /\ ~(len > l) /\ o + head + len = o + li
      BY <2>1, <2>2, <2>7, <3>1, <3>2
    <3> QED BY <3>3 DEF l, li
  <2>12. TakeValue(rsp, o, get) = [ok |-> TRUE, index |-> o + head + len, value |-> w]
    BY <1>4, <1>5, <2>8, <2>11
  <2> QED BY <2>10, <2>11, <2>12 DEF item, v
<1>8. get.kind = "number" \/ get.kind = "bytes"
  BY DEF IsGetter
<1> QED BY <1>6, <1>7, <1>8

(* Another tag, or the byte 144 in place of a length, is refused where it  *)
(* stands.                                                                 *)
LEMMA TakeRefused ==
    \A get, rsp, o :
        IsGetter(get) /\ (At(rsp, o) # get.tag \/ (get.kind = "bytes" /\ At(rsp, o + 1) = 144)) =>
            TakeValue(rsp, o, get).ok = FALSE /\ TakeValue(rsp, o, get).index = o
<1> TAKE get, rsp, o
<1> HAVE IsGetter(get) /\ (At(rsp, o) # get.tag \/ (get.kind = "bytes" /\ At(rsp, o + 1) = 144))
<1> DEFINE refused == [ok |-> FALSE, index |-> o, value |-> <<>>]
<1>1. CASE get.kind = "number"
  <2>1. At(rsp, o) # get.tag
    BY <1>1
  <2>2. TakeValue(rsp, o, get) = refused
    BY <1>1, <2>1 DEF TakeValue, tlvGet_Number
  <2> QED BY <2>2
<1>2. CASE get.kind = "bytes"
  <2>1. At(rsp, o + 1) = 144 => BufHead(rsp, o) = 0
    <3>1. SUFFICES ASSUME At(rsp, o + 1) = 144 PROVE BufHead(rsp, o) = 0
      OBVIOUS
    <3>2. 144 \in Byte
      BY DEF Byte
    <3>3. At(rsp, o + 1) \in Byte /\ ~(At(rsp, o + 1) <= 127) /\ At(rsp, o + 1) # 129 /\ At(rsp, o + 1) # 130
      BY <3>1, <3>2
    <3> QED BY <3>3, BufForms
  <2>2. At(rsp, o) # get.tag \/ BufHead(rsp, o) = 0
    BY <2>1
  <2>3. TakeValue(rsp, o, get) = tlvGet_u8buf(rsp, o, get)
    BY <1>2 DEF TakeValue
  <2>4. tlvGet_u8buf(rsp, o, get) = refused
    BY <2>2, BufParts
  <2> QED BY <2>3, <2>4
<1>3. get.kind = "number" \/ get.kind = "bytes"
  BY DEF IsGetter
<1> QED BY <1>1, <1>2, <1>3

(* A value that is taken moves the index by its tag and length at least.   *)
LEMMA TakeForward ==
    ASSUME NEW get, IsGetter(get), NEW rsp \in Seq(Byte), NEW o \in Nat,
           TakeValue(rsp, o, get).ok
    PROVE  /\ TakeValue(rsp, o, get).index \in Nat
           /\ TakeValue(rsp, o, get).index >= o + 2
           /\ get.kind = "number" => TakeValue(rsp, o, get).index = o + 2 + At(rsp, o + 1)
           /\ get.kind = "bytes" =>
                 /\ TakeValue(rsp, o, get).index = o + BufHead(rsp, o) + BufLen(rsp, o)
                 /\ BufHead(rsp, o) # 0
<1>1. \A i : At(rsp, i) \in Byte /\ At(rsp, i) \in Nat
  BY AtByte
<1>2. CASE get.kind = "number"
  <2> DEFINE l == At(rsp, o + 1)
             v == [i \in 1..get.room |-> At(rsp, o + 1 + i)]
  <2>1. tlvGet_Number(rsp, o, get) =
            IF o > Len(rsp) \/ At(rsp, o) # get.tag \/ l > get.room
            THEN [ok |-> FALSE, index |-> o, value |-> <<>>]
            ELSE [ok |-> TRUE, index |-> o + 2 + l, value |-> v]
    BY DEF tlvGet_Number
  <2>2. TakeValue(rsp, o, get) = tlvGet_Number(rsp, o, get)
    BY <1>2 DEF TakeValue
  <2>3. l \in Nat
    BY <1>1
  <2> HIDE DEF l, v
  <2>4. TakeValue(rsp, o, get).index = o + 2 + l
    BY <2>1, <2>2
  <2>5. o + 2 + l \in Nat /\ o + 2 + l >= o + 2
    BY <2>3
  <2>6. get.kind # "bytes"
    BY <1>2
  <2> QED BY <2>4, <2>5, <2>6 DEF l
<1>3. CASE get.kind = "bytes"
  <2> DEFINE head == BufHead(rsp, o)
             len == BufLen(rsp, o)
             v == [i \in 1..len |-> At(rsp, o + head + i - 1)]
             b == At(rsp, o + 1)
  <2>1. TakeValue(rsp, o, get) =
            IF o > Len(rsp) \/ At(rsp, o) # get.tag \/ head = 0
            THEN [ok |-> FALSE, index |-> o, value |-> <<>>]
            ELSE IF len > get.room \/ len > Len(rsp)
            THEN [ok |-> FALSE, index |-> o + head, value |-> <<>>]
            ELSE [ok |-> TRUE, index |-> o + head + len, value |-> v]
    BY <1>3, BufParts DEF TakeValue
  <2>2. /\ b <= 127 => head = 2 /\ len = b
        /\ b = 129 => head = 3 /\ len = At(rsp, o + 2)
        /\ b = 130 => head = 4 /\ len = 256 * At(rsp, o + 2) + At(rsp, o + 3)
        /\ ~(b <= 127) /\ b # 129 /\ b # 130 => head = 0
    <3>1. o + 1 + 1 = o + 2 /\ o + 1 + 2 = o + 3
      OBVIOUS
    <3>2. b \in Byte
      BY <1>1
    <3> QED BY <3>1, <3>2, BufForms
  <2>3. b \in Nat /\ At(rsp, o + 2) \in Nat /\ 256 * At(rsp, o + 2) + At(rsp, o + 3) \in Nat
    <3> DEFINE x == At(rsp, o + 2)
               y == At(rsp, o + 3)
    <3>1. x \in Nat /\ y \in Nat /\ b \in Nat
      BY <1>1
    <3> HIDE DEF x, y, b
    <3>2. 256 * x + y \in Nat
      BY <3>1
    <3> QED BY <3>1, <3>2 DEF x, y
  <2> HIDE DEF head, len, v, b
  <2>4. /\ TakeValue(rsp, o, get).index = o + head + len /\ head # 0
    BY <2>1
  <2>5. head \in Nat /\ head >= 2 /\ len \in Nat
    <3>1. CASE b <= 127
      BY <2>2, <2>3, <3>1
    <3>2. CASE b = 129
      BY <2>2, <2>3, <3>2
    <3>3. CASE b = 130
      BY <2>2, <2>3, <3>3
    <3> QED BY <2>2, <2>4, <3>1, <3>2, <3>3
  <2>6. o + head + len \in Nat /\ o + head + len >= o + 2
    BY <2>5
  <2>7. get.kind # "number"
    BY <1>3
  <2> QED BY <2>4, <2>6, <2>7 DEF head, len
<1>4. get.kind = "number" \/ get.kind = "bytes"
  BY DEF IsGetter
<1> QED BY <1>2, <1>3, <1>4

(* The first k bytes of a body, and the status word behind them.           *)
CutAt(rsp, body, k) ==
    /\ rsp \in Seq(Byte) /\ Len(rsp) = k + 2
    /\ \A j \in 1..k : rsp[j] = body[j]
    /\ At(rsp, k) = 144

(* A value of which the reply has only a part is refused, or taken to      *)
(* reach behind that part.                                                 *)
LEMMA TakeCut ==
    ASSUME DataInv, NEW get, IsGetter(get), NEW body \in Seq(Byte), NEW o \in Nat, NEW k \in Nat,
           Holds(body, o, ReplyItem(get)), o <= k, k < o + Len(ReplyItem(get)),
           NEW rsp, CutAt(rsp, body, k), TakeValue(rsp, o, get).ok
    PROVE  TakeValue(rsp, o, get).index \in Nat /\ TakeValue(rsp, o, get).index > k
<1> DEFINE item == ReplyItem(get)
           index == TakeValue(rsp, o, get).index
<1>0. k < o + Len(item)
  OBVIOUS
<1>1. /\ rsp \in Seq(Byte) /\ Len(rsp) = k + 2 /\ At(rsp, k) = 144
      /\ \A j \in 1..k : rsp[j] = body[j]
  BY DEF CutAt
<1>2. /\ item \in Seq(Byte) /\ Len(item) \in Nat /\ Len(item) >= 2 /\ item[1] = get.tag
  BY ReplyItemFacts
<1>3. \A i : At(rsp, i) \in Byte /\ At(rsp, i) \in Nat
  BY <1>1, AtByte
<1>4. /\ index \in Nat /\ index >= o + 2
      /\ get.kind = "number" => index = o + 2 + At(rsp, o + 1)
      /\ get.kind = "bytes" => index = o + BufHead(rsp, o) + BufLen(rsp, o) /\ BufHead(rsp, o) # 0
  BY <1>1, TakeForward
<1> HIDE DEF index
<1> SUFFICES index > k
  BY <1>4 DEF index
<1>5. k < o + 2 => index > k
  BY <1>4
<1>6. ASSUME NEW m \in 1..Len(item), o + m <= k PROVE At(rsp, o + m - 1) = item[m]
  <2>1. o + m \in 1..k /\ o + m \in 1..Len(rsp) /\ (o + m - 1) + 1 = o + m
    BY <1>1, <1>2, <1>6
  <2>2. rsp[o + m] = body[o + m]
    BY <1>1, <2>1
  <2>3. body[o + m] = item[m]
    BY DEF Holds
  <2>4. At(rsp, o + m - 1) = rsp[o + m]
    <3>1. DOMAIN rsp = 1..Len(rsp)
      BY <1>1
    <3> QED BY <2>1, <3>1 DEF At, ByteAt
  <2> QED BY <2>2, <2>3, <2>4
<1>7. CASE k >= o + 2
  <2>1. 2 \in 1..Len(item) /\ o + 2 <= k /\ o + 2 - 1 = o + 1
    BY <1>2, <1>7
  <2>2. At(rsp, o + 1) = item[2]
    BY <1>6, <2>1
  <2>3. CASE get.kind = "number"
    <3>1. /\ get.room \in Nat /\ Len(item) = 2 + get.room /\ item[2] = get.room
      BY <2>3, ReplyNumber
    <3>2. index = o + Len(item)
      <4> DEFINE r == get.room
      <4>1. index = o + 2 + r /\ Len(item) = 2 + r /\ r \in Nat
        BY <1>4, <2>2, <2>3, <3>1
      <4> HIDE DEF r
      <4> QED BY <4>1
    <3> HIDE DEF item
    <3> QED BY <1>0, <3>2
  <2>4. CASE get.kind = "bytes"
    <3> DEFINE v == ValueFor(get)
               n == Len(v)
               ll == UtilityGetTLV_LL_from_len(n)
               bytes == LengthBytes(n)
               head == BufHead(rsp, o)
               len == BufLen(rsp, o)
    <3>1. v \in Seq(Byte) /\ n \in Word16 /\ n \in Nat /\ get.tag \in Byte /\ item = ItemOf(get.tag, v)
      BY <2>4, ReplyBytes
    <3> HIDE DEF v
    <3>2. /\ Len(item) = 1 + ll + n /\ ll \in 1..3
          /\ \A i \in 1..ll : item[1 + i] = bytes[i]
      <4> DEFINE t == get.tag
      <4>1. t \in Byte /\ v \in Seq(Byte) /\ Len(v) \in Word16 /\ item = ItemOf(t, v)
        BY <3>1
      <4> HIDE DEF t, item
      <4>2. /\ Len(ItemOf(t, v)) = 1 + ll + n /\ ll \in 1..3
            /\ \A i \in 1..ll : ItemOf(t, v)[1 + i] = bytes[i]
        BY <4>1, ItemFacts
      <4> QED BY <4>1, <4>2
    <3>3. /\ ll = 1 => bytes[1] = n /\ n < 128
          /\ ll = 2 => bytes[1] = 129 /\ bytes[2] = n
          /\ ll = 3 => bytes[1] = 130 /\ 256 * bytes[2] + bytes[3] = n
      BY <3>1, LengthFacts
    <3> HIDE DEF item, n, ll, bytes
    <3>4. At(rsp, o + 1) = bytes[1]
      <4>1. 1 \in 1..ll /\ 1 + 1 = 2
        BY <3>2
      <4>2. item[1 + 1] = bytes[1]
        BY <3>2, <4>1
      <4> QED BY <2>2, <4>1, <4>2
    <3>5. /\ At(rsp, o + 1) <= 127 => head = 2 /\ len = At(rsp, o + 1)
          /\ At(rsp, o + 1) = 129 => head = 3 /\ len = At(rsp, o + 2)
          /\ At(rsp, o + 1) = 130 =>
                head = 4 /\ len = 256 * At(rsp, o + 2) + At(rsp, o + 3)
      <4>1. o + 1 + 1 = o + 2 /\ o + 1 + 2 = o + 3
        OBVIOUS
      <4>2. At(rsp, o + 1) \in Byte
        BY <1>3
      <4> QED BY <4>1, <4>2, BufForms
    <3>6. index = o + head + len
      BY <1>4, <2>4
    <3> HIDE DEF head, len
    <3>7. CASE ll = 1
      <4>1. head = 2 /\ len = n
        BY <3>1, <3>3, <3>4, <3>5, <3>7
      <4>2. index = o + Len(item)
        BY <3>1, <3>2, <3>6, <3>7, <4>1
      <4> QED BY <1>0, <4>2
    <3>8. CASE ll = 2
      <4>1. head = 3 /\ len = At(rsp, o + 2)
        BY <3>3, <3>4, <3>5, <3>8
      <4>2. len \in Nat /\ index = o + 3 + len
        BY <1>3, <3>6, <4>1
      <4>3. CASE k < o + 3
        BY <4>2, <4>3
      <4>4. CASE k >= o + 3
        <5>1. 3 \in 1..Len(item) /\ o + 3 <= k /\ o + 3 - 1 = o + 2
          BY <3>1, <3>2, <3>8, <4>4
        <5>2. At(rsp, o + 2) = item[3]
          BY <1>6, <5>1
        <5>3. item[3] = bytes[2]
          <6>1. 2 \in 1..ll /\ 1 + 2 = 3
            BY <3>8
          <6>2. item[1 + 2] = bytes[2]
            BY <3>2, <6>1
          <6> QED BY <6>1, <6>2
        <5>4. len = n
          BY <3>3, <3>8, <4>1, <5>2, <5>3
        <5>5. index = o + Len(item)
          BY <3>1, <3>2, <3>8, <4>2, <5>4
        <5> QED BY <1>0, <5>5
      <4> QED BY <4>3, <4>4
    <3>9. CASE ll = 3
      <4> DEFINE x == At(rsp, o + 2)
                 y == At(rsp, o + 3)
      <4>1. head = 4 /\ len = 256 * x + y
        BY <3>3, <3>4, <3>5, <3>9
      <4>2. x \in Nat /\ y \in Nat
        BY <1>3
      <4>3. len \in Nat
        <5> HIDE DEF x, y
        <5> QED BY <4>1, <4>2
      <4>4. index = o + 4 + len
        BY <3>6, <4>1
      <4>5. CASE k < o + 4
        BY <4>3, <4>4, <4>5
      <4>6. CASE k >= o + 4
        <5>1. /\ 3 \in 1..Len(item) /\ o + 3 <= k /\ o + 3 - 1 = o + 2
              /\ 4 \in 1..Len(item) /\ o + 4 <= k /\ o + 4 - 1 = o + 3
          BY <3>1, <3>2, <3>9, <4>6
        <5>2. x = item[3] /\ y = item[4]
          BY <1>6, <5>1
        <5>3. item[3] = bytes[2] /\ item[4] = bytes[3]
          <6>1. 2 \in 1..ll /\ 1 + 2 = 3 /\ 3 \in 1..ll /\ 1 + 3 = 4
            BY <3>9
          <6>2. item[1 + 2] = bytes[2] /\ item[1 + 3] = bytes[3]
            BY <3>2, <6>1
          <6> QED BY <6>1, <6>2
        <5>4. len = n
          BY <3>3, <3>9, <4>1, <5>2, <5>3
        <5>5. index = o + Len(item)
          BY <3>1, <3>2, <3>9, <4>4, <5>4
        <5> QED BY <1>0, <5>5
      <4> QED BY <4>5, <4>6
    <3>10. ll = 1 \/ ll = 2 \/ ll = 3
      BY <3>2
    <3> QED BY <3>7, <3>8, <3>9, <3>10
  <2>5. get.kind = "number" \/ get.kind = "bytes"
    BY DEF IsGetter
  <2> QED BY <2>3, <2>4, <2>5
<1> QED BY <1>4, <1>5, <1>7

-----------------------------------------------------------------------------
(* All values of a reply.                                                  *)

ItemsFor(gets) == [i \in DOMAIN gets |-> ReplyItem(gets[i])]
BodyFor(gets) == FlattenSeq(ItemsFor(gets))
EndOf(gets, i) == Len(Leading(ItemsFor(gets), i))

Getters(gets) ==
    /\ Len(gets) \in Nat /\ DOMAIN gets = 1..Len(gets)
    /\ \A i \in 1..Len(gets) : IsGetter(gets[i])

LEMMA BodyForFacts ==
    ASSUME DataInv, NEW gets, Getters(gets)
    PROVE  /\ BodyFor(gets) \in Seq(Byte) /\ Len(BodyFor(gets)) = EndOf(gets, Len(gets))
           /\ EndOf(gets, 0) = 0 /\ \A i \in 0..Len(gets) : EndOf(gets, i) \in Nat
           /\ \A i \in 0..Len(gets) : \A j \in 0..i : EndOf(gets, j) <= EndOf(gets, i)
           /\ \A i \in 1..Len(gets) :
                 /\ Holds(BodyFor(gets), EndOf(gets, i - 1), ReplyItem(gets[i]))
                 /\ EndOf(gets, i) = EndOf(gets, i - 1) + Len(ReplyItem(gets[i]))
<1> DEFINE n == Len(gets)
           ps == ItemsFor(gets)
<1>1. n \in Nat /\ DOMAIN gets = 1..n /\ \A i \in 1..n : IsGetter(gets[i])
  BY DEF Getters
<1>2. \A i \in 1..n : ps[i] = ReplyItem(gets[i]) /\ ps[i] \in Seq(Byte)
  BY <1>1, ReplyItemFacts DEF ItemsFor
<1>3. ps = [i \in 1..n |-> ps[i]]
  BY <1>1 DEF ItemsFor
<1> HIDE DEF ps, n
<1>4. ps \in Seq(Seq(Byte)) /\ Len(ps) = n
  BY <1>1, <1>2, <1>3, Built
<1>5. /\ FlattenSeq(ps) = Leading(ps, n) /\ Leading(ps, 0) = <<>>
      /\ \A i \in 0..n : Leading(ps, i) \in Seq(Byte)
  BY <1>4, LeadingFacts
<1>6. n \in 0..n /\ 0 \in 0..n
  BY <1>1
<1>7. FlattenSeq(ps) \in Seq(Byte)
  BY <1>5, <1>6
<1>8. \A i \in 0..n : Len(Leading(ps, i)) \in Nat
  BY <1>5
<1>9. \A i \in 1..n : /\ Holds(FlattenSeq(ps), Len(Leading(ps, i - 1)), ps[i])
                      /\ Len(Leading(ps, i)) = Len(Leading(ps, i - 1)) + Len(ps[i])
  BY <1>4, PartStands
<1>10. \A i \in 0..n : \A j \in 0..i : Len(Leading(ps, j)) <= Len(Leading(ps, i))
  <2>1. TAKE i \in 0..n
  <2>2. TAKE j \in 0..i
  <2>3. Holds(Leading(ps, i), 0, Leading(ps, j))
    BY <1>4, LeadingGrows
  <2>4. j \in 0..n
    BY <1>1
  <2> DEFINE a == Len(Leading(ps, j))
             b == Len(Leading(ps, i))
  <2>5. a \in Nat /\ b \in Nat /\ 0 + a <= b
    BY <1>8, <2>3, <2>4 DEF Holds
  <2> HIDE DEF a, b
  <2>6. a <= b
    BY <2>5
  <2> QED BY <2>6 DEF a, b
<1>11. Len(Leading(ps, 0)) = 0
  BY <1>5
<1>12. /\ BodyFor(gets) = FlattenSeq(ps)
       /\ \A i : EndOf(gets, i) = Len(Leading(ps, i))
  BY DEF BodyFor, EndOf, ps
<1>13. \A i \in 1..n :
          /\ Holds(BodyFor(gets), EndOf(gets, i - 1), ReplyItem(gets[i]))
          /\ EndOf(gets, i) = EndOf(gets, i - 1) + Len(ReplyItem(gets[i]))
  BY <1>2, <1>9, <1>12
<1> QED BY <1>5, <1>7, <1>8, <1>10, <1>11, <1>12, <1>13 DEF n

LEMMA AppendedFunction ==
    ASSUME NEW m \in Nat, NEW s, NEW f, NEW x,
           s = [j \in 1..m |-> f[j]], f[m + 1] = x
    PROVE  Append(s, x) = [j \in 1..m + 1 |-> f[j]]
<1> DEFINE S == {f[j] : j \in 1..m + 1}
           t == [j \in 1..m + 1 |-> f[j]]
           u == Append(s, x)
<1>1. (\A j \in 1..m : j \in 1..m + 1) /\ m + 1 \in 1..m + 1 /\ m + 1 \in Nat
  OBVIOUS
<1>2. (\A j \in 1..m + 1 : f[j] \in S) /\ x \in S
  BY <1>1
<1>3. s = [j \in 1..m |-> s[j]] /\ \A j \in 1..m : s[j] \in S
  BY <1>1, <1>2
<1>4. t = [j \in 1..m + 1 |-> t[j]] /\ \A j \in 1..m + 1 : t[j] \in S /\ t[j] = f[j]
  BY <1>2
<1> HIDE DEF S, t
<1>5. s \in Seq(S) /\ Len(s) = m
  BY <1>3, Built
<1>6. t \in Seq(S) /\ Len(t) = m + 1
  BY <1>1, <1>4, Built
<1>7. /\ u \in Seq(S) /\ Len(u) = m + 1
      /\ \A j \in 1..m : u[j] = s[j]
      /\ u[m + 1] = x
  BY <1>2, <1>5, AppendProperties
<1> HIDE DEF u
<1>8. \A j \in 1..m : s[j] = f[j]
  OBVIOUS
<1>9. \A j \in 1..m + 1 : u[j] = t[j]
  <2>1. TAKE j \in 1..m + 1
  <2>2. j \in 1..m \/ j = m + 1
    OBVIOUS
  <2> QED BY <1>4, <1>7, <1>8, <2>2
<1>10. u = t
  BY <1>1, <1>6, <1>7, <1>9, SameSeq
<1> QED BY <1>10 DEF u, t

(* Where the body of a reply stands, all its values are taken.             *)
LEMMA WholeReply ==
    ASSUME DataInv, NEW gets, Getters(gets), NEW rsp \in Seq(Byte), Holds(rsp, 0, BodyFor(gets))
    PROVE  /\ Values(rsp, gets).ok = TRUE
           /\ Values(rsp, gets).index = Len(BodyFor(gets))
           /\ Values(rsp, gets).values = [i \in 1..Len(gets) |-> ValueFor(gets[i])]
<1> DEFINE n == Len(gets)
           a == AfterOf(rsp, gets)
           f == [i \in 1..n |-> ValueFor(gets[i])]
           T == {i \in 0..n : /\ a[i].ok = TRUE /\ a[i].index = EndOf(gets, i)
                              /\ a[i].values = [j \in 1..i |-> f[j]]}
<1>1. n \in Nat /\ \A i \in 1..n : IsGetter(gets[i])
  BY DEF Getters
<1>2. a[0] = Begun /\ \A i \in 1..n : a[i] = StepValues(rsp, gets, i, a[i - 1])
  BY <1>1, AfterFacts
<1>3. /\ BodyFor(gets) \in Seq(Byte) /\ Len(BodyFor(gets)) = EndOf(gets, n)
      /\ EndOf(gets, 0) = 0 /\ \A i \in 0..n : EndOf(gets, i) \in Nat
      /\ \A i \in 1..n : /\ Holds(BodyFor(gets), EndOf(gets, i - 1), ReplyItem(gets[i]))
                         /\ EndOf(gets, i) = EndOf(gets, i - 1) + Len(ReplyItem(gets[i]))
  BY BodyForFacts
<1> HIDE DEF a, n
<1>4. 0 \in T
  <2>1. 0 \in 0..n
    BY <1>1
  <2>2. [j \in 1..0 |-> f[j]] = <<>>
    <3>1. 1..0 = {}
      OBVIOUS
    <3> DEFINE e == [j \in 1..0 |-> f[j]]
    <3>2. e = [j \in {} |-> e[j]]
      BY <3>1
    <3> HIDE DEF e
    <3>3. e = <<>>
      BY <3>2
    <3> QED BY <3>3 DEF e
  <2>3. a[0].ok = TRUE /\ a[0].index = 0 /\ a[0].values = <<>>
    BY <1>2 DEF Begun
  <2> HIDE DEF f
  <2> QED BY <1>3, <2>1, <2>2, <2>3
<1>5. ASSUME NEW i \in 1..n, i - 1 \in T PROVE i \in T
  <2> DEFINE m == i - 1
             o == EndOf(gets, m)
             item == ReplyItem(gets[i])
             took == TakeValue(rsp, o, gets[i])
  <2>1. m \in Nat /\ m \in 0..n /\ m + 1 = i /\ i \in 0..n
    BY <1>1
  <2>2. o \in Nat
    BY <1>3, <2>1
  <2>3. /\ a[m].ok = TRUE /\ a[m].index = o /\ a[m].values = [j \in 1..m |-> f[j]]
    BY <1>5
  <2>4. Holds(rsp, o, item)
    <3>1. Holds(BodyFor(gets), o, item)
      BY <1>3
    <3>2. item \in Seq(Byte)
      BY <1>1, ReplyItemFacts
    <3> DEFINE body == BodyFor(gets)
    <3>3. body \in Seq(Byte) /\ Holds(rsp, 0, body) /\ Holds(body, o, item)
      BY <1>3, <3>1
    <3> HIDE DEF body, o, item
    <3>4. Holds(rsp, 0 + o, item)
      BY <2>2, <3>2, <3>3, HoldsWithin
    <3>5. 0 + o = o
      BY <2>2
    <3> QED BY <3>4, <3>5
  <2>5. took.ok = TRUE /\ took.index = EndOf(gets, i) /\ took.value = f[i]
    <3>1. IsGetter(gets[i])
      BY <1>1
    <3>2. EndOf(gets, i) = o + Len(item)
      BY <1>3
    <3>3. f[i] = ValueFor(gets[i])
      OBVIOUS
    <3> HIDE DEF o, f
    <3>4. took.ok = TRUE /\ took.index = o + Len(item) /\ took.value = ValueFor(gets[i])
      BY <2>2, <2>4, <3>1, TakeWhole
    <3> QED BY <3>2, <3>3, <3>4
  <2>6. a[i] = StepValues(rsp, gets, i, a[m])
    BY <1>2
  <2> HIDE DEF o, m, item
  <2>7. StepValues(rsp, gets, i, a[m]) =
            [ok |-> took.ok \/ ~gets[i].need, index |-> took.index,
             values |-> Append(a[m].values, took.value)]
    BY <2>3, Zenon DEF StepValues
  <2> DEFINE need == took.ok \/ ~gets[i].need
  <2>8. need = TRUE
    BY <2>5
  <2> HIDE DEF took, need
  <2>9. Append([j \in 1..m |-> f[j]], f[i]) = [j \in 1..i |-> f[j]]
    <3> DEFINE s == [j \in 1..m |-> f[j]]
               x == f[i]
    <3>1. f[m + 1] = x
      BY <2>1
    <3> HIDE DEF f, x
    <3>2. Append(s, x) = [j \in 1..m + 1 |-> f[j]]
      BY <2>1, <3>1, AppendedFunction
    <3> QED BY <2>1, <3>2 DEF x
  <2> HIDE DEF f
  <2>10. /\ a[i].ok = need /\ a[i].index = took.index
         /\ a[i].values = Append(a[m].values, took.value)
    BY <2>6, <2>7 DEF need
  <2>11. /\ a[i].ok = TRUE /\ a[i].index = EndOf(gets, i)
         /\ a[i].values = [j \in 1..i |-> f[j]]
    BY <2>3, <2>5, <2>8, <2>9, <2>10
  <2> QED BY <2>1, <2>11
<1> HIDE DEF T
<1>6. \A i \in 0..n : i \in T
  BY <1>1, <1>4, <1>5, InductionTo
<1>7. n \in T
  BY <1>1, <1>6
<1>8. Values(rsp, gets) = a[n]
  BY ValuesAfter DEF a, n
<1> HIDE DEF f
<1>9. /\ a[n].ok = TRUE /\ a[n].index = EndOf(gets, n)
      /\ a[n].values = [j \in 1..n |-> f[j]]
  BY <1>7 DEF T
<1>10. [j \in 1..n |-> f[j]] = [i \in 1..n |-> ValueFor(gets[i])]
  BY DEF f
<1> QED BY <1>3, <1>8, <1>9, <1>10 DEF n

(* A reply that lost its end leaves the index elsewhere than at its end,   *)
(* when a value is needed that reaches behind the cut.                     *)
LEMMA CutReply ==
    ASSUME DataInv, NEW gets, Getters(gets), NEW k \in Nat, k < Len(BodyFor(gets)),
           NEW rsp, CutAt(rsp, BodyFor(gets), k),
           \A i \in 1..Len(gets) : gets[i].need = TRUE \/ (i = 1 /\ EndOf(gets, 1) <= k)
    PROVE  ~(Values(rsp, gets).ok /\ Values(rsp, gets).index + 2 = Len(rsp))
<1> DEFINE n == Len(gets)
           a == AfterOf(rsp, gets)
           body == BodyFor(gets)
           T == {i \in 0..n : a[i].ok => /\ a[i].index \in Nat
                                         /\ a[i].index > k \/ a[i].index = EndOf(gets, i)}
<1>1. n \in Nat /\ \A i \in 1..n : IsGetter(gets[i])
  BY DEF Getters
<1>2. a[0] = Begun /\ \A i \in 1..n : a[i] = StepValues(rsp, gets, i, a[i - 1])
  BY <1>1, AfterFacts
<1>3. /\ body \in Seq(Byte) /\ Len(body) = EndOf(gets, n)
      /\ EndOf(gets, 0) = 0 /\ \A i \in 0..n : EndOf(gets, i) \in Nat
      /\ \A i \in 1..n : /\ Holds(body, EndOf(gets, i - 1), ReplyItem(gets[i]))
                         /\ EndOf(gets, i) = EndOf(gets, i - 1) + Len(ReplyItem(gets[i]))
  BY BodyForFacts
<1>4. CutAt(rsp, body, k) /\ k < Len(body)
  OBVIOUS
<1>5. /\ rsp \in Seq(Byte) /\ Len(rsp) = k + 2
      /\ \A j \in 1..k : rsp[j] = body[j]
  BY DEF CutAt
<1>6. \A i \in 1..n : gets[i].need = TRUE \/ (i = 1 /\ EndOf(gets, 1) <= k)
  OBVIOUS
<1> HIDE DEF a, n, body
<1>7. 0 \in T
  <2>1. 0 \in 0..n
    BY <1>1
  <2>2. a[0].index = 0
    BY <1>2 DEF Begun
  <2> QED BY <1>3, <2>1, <2>2
<1>8. ASSUME NEW i \in 1..n, i - 1 \in T PROVE i \in T
  <2> DEFINE m == i - 1
             o == a[m].index
             item == ReplyItem(gets[i])
             took == TakeValue(rsp, o, gets[i])
  <2>1. m \in Nat /\ m \in 0..n /\ i \in 0..n
    BY <1>1
  <2> SUFFICES ASSUME a[i].ok
               PROVE  a[i].index \in Nat /\ (a[i].index > k \/ a[i].index = EndOf(gets, i))
    BY <2>1
  <2>2. a[i] = StepValues(rsp, gets, i, a[m])
    BY <1>2
  <2>3. a[m].ok
    <3>1. ~a[m].ok => a[i] = a[m]
      BY <2>2, Zenon DEF StepValues
    <3> QED BY <3>1
  <2>4. o \in Nat /\ (o > k \/ o = EndOf(gets, m))
    BY <1>8, <2>3
  <2> HIDE DEF m
  <2>5. a[i].index = took.index /\ a[i].ok = (took.ok \/ ~gets[i].need)
    <3>1. StepValues(rsp, gets, i, a[m]) =
              [ok |-> took.ok \/ ~gets[i].need, index |-> took.index,
               values |-> Append(a[m].values, took.value)]
      BY <2>3, Zenon DEF StepValues
    <3> DEFINE ok == took.ok \/ ~gets[i].need
               index == took.index
               values == Append(a[m].values, took.value)
    <3>2. a[i] = [ok |-> ok, index |-> index, values |-> values]
      BY <2>2, <3>1
    <3> HIDE DEF ok, index, values
    <3>3. a[i].index = index /\ a[i].ok = ok
      BY <3>2
    <3> QED BY <3>3, Zenon DEF ok, index
  <2>6. IsGetter(gets[i]) /\ item \in Seq(Byte) /\ Len(item) \in Nat
    BY <1>1, ReplyItemFacts
  <2>7. /\ Holds(body, EndOf(gets, m), item)
        /\ EndOf(gets, i) = EndOf(gets, m) + Len(item)
        /\ EndOf(gets, i) \in Nat /\ EndOf(gets, m) \in Nat
    BY <1>3, <2>1 DEF m
  <2> HIDE DEF o
  (* What is left whole is taken whole. *)
  <2>8. o = EndOf(gets, m) /\ EndOf(gets, i) <= k => took.ok = TRUE /\ took.index = EndOf(gets, i)
    <3>1. SUFFICES ASSUME o = EndOf(gets, m), EndOf(gets, i) <= k
                   PROVE  took.ok = TRUE /\ took.index = EndOf(gets, i)
      OBVIOUS
    <3> HIDE DEF item
    <3>2. Holds(rsp, o, item)
      <4>1. \A j \in 1..Len(item) : o + j \in 1..k
        BY <2>4, <2>6, <2>7, <3>1
      <4>2. \A j \in 1..Len(item) : rsp[o + j] = item[j]
        <5>1. \A j \in 1..Len(item) : body[o + j] = item[j]
          BY <2>7, <3>1 DEF Holds
        <5> QED BY <1>5, <4>1, <5>1
      <4>3. o + Len(item) <= Len(rsp)
        BY <1>5, <2>4, <2>6, <2>7, <3>1
      <4> QED BY <4>2, <4>3 DEF Holds
    <3>3. took.ok = TRUE /\ took.index = o + Len(item)
      BY <1>5, <2>4, <2>6, <3>2, TakeWhole DEF item
    <3> QED BY <2>7, <3>1, <3>3
  <2>9. CASE gets[i].need = TRUE
    <3>1. took.ok
      BY <2>5, <2>9
    <3>2. CASE o > k
      <4>1. took.index \in Nat /\ took.index >= o + 2
        BY <1>5, <2>4, <2>6, <3>1, TakeForward
      <4> HIDE DEF took
      <4>2. took.index > k
        BY <2>4, <3>2, <4>1
      <4> QED BY <2>5, <4>1, <4>2
    <3>3. CASE o = EndOf(gets, m) /\ o <= k
      <4>1. CASE EndOf(gets, i) <= k
        BY <2>5, <2>7, <2>8, <3>3, <4>1
      <4>2. CASE ~(EndOf(gets, i) <= k)
        <5>1. k < o + Len(item)
          BY <2>7, <3>3, <4>2
        <5>2. Holds(body, o, item)
          BY <2>7, <3>3
        <5> DEFINE get == gets[i]
        <5>3. IsGetter(get) /\ Holds(body, o, ReplyItem(get)) /\ k < o + Len(ReplyItem(get))
          BY <2>6, <5>1, <5>2
        <5>4. TakeValue(rsp, o, get).ok
          BY <3>1
        <5> HIDE DEF get
        <5>5. TakeValue(rsp, o, get).index \in Nat /\ TakeValue(rsp, o, get).index > k
          BY <1>3, <1>4, <2>4, <3>3, <5>3, <5>4, TakeCut
        <5>6. took.index \in Nat /\ took.index > k
          BY <5>5 DEF get
        <5> HIDE DEF took
        <5> QED BY <2>5, <5>6
      <4> QED BY <4>1, <4>2
    <3> QED BY <2>4, <3>2, <3>3
  <2>10. CASE i = 1 /\ EndOf(gets, 1) <= k
    <3>1. m = 0 /\ o = 0 /\ EndOf(gets, m) = 0
      <4>1. m = 0
        BY <2>10 DEF m
      <4> QED BY <1>2, <1>3, <4>1 DEF o, Begun
    <3>2. EndOf(gets, i) <= k
      BY <2>10
    <3>3. took.ok = TRUE /\ took.index = EndOf(gets, i)
      BY <2>8, <3>1, <3>2
    <3> HIDE DEF took
    <3> QED BY <2>5, <2>7, <3>3
  <2> QED BY <1>6, <2>9, <2>10
<1> HIDE DEF T
<1>9. \A i \in 0..n : i \in T
  BY <1>1, <1>7, <1>8, InductionTo
<1>10. n \in T /\ n \in 0..n
  BY <1>1, <1>9
<1>11. a[n].ok => a[n].index \in Nat /\ (a[n].index > k \/ a[n].index = EndOf(gets, n))
  BY <1>10 DEF T
<1>12. a[n].ok => a[n].index \in Nat /\ a[n].index > k
  <2> DEFINE x == a[n].index
             e == EndOf(gets, n)
  <2>1. e \in Nat /\ k < e
    BY <1>3, <1>4, <1>10
  <2>2. a[n].ok => x \in Nat /\ (x > k \/ x = e)
    BY <1>11
  <2> HIDE DEF x, e
  <2>3. a[n].ok => x \in Nat /\ x > k
    BY <2>1, <2>2
  <2> QED BY <2>3 DEF x
<1>13. Values(rsp, gets) = a[n]
  BY ValuesAfter DEF a, n
<1> DEFINE x == a[n].index
<1>14. a[n].ok => x \in Nat /\ x > k
  BY <1>12
<1> HIDE DEF x
<1>15. a[n].ok => x + 2 # Len(rsp)
  BY <1>5, <1>14
<1> QED BY <1>13, <1>15 DEF x

(* Cut before its first value, or behind the tag of it, a reply is refused *)
(* though that value may be absent: the second is needed.                  *)
LEMMA CutEarly ==
    ASSUME DataInv, NEW gets, Getters(gets), NeededBehindFirst(gets),
           NEW k \in Nat, k = 0 \/ k = 1,
           NEW rsp, CutAt(rsp, BodyFor(gets), k)
    PROVE  ~Values(rsp, gets).ok
<1> DEFINE n == Len(gets)
           a == AfterOf(rsp, gets)
           g == gets[1]
           h == gets[2]
           T == {i \in 0..n : i >= 2 => ~a[i].ok}
<1>1. /\ n = 6 /\ h.tag # g.tag /\ h.need = TRUE /\ h.kind = "bytes" /\ g.kind = "bytes"
  <2>1. 2 \in 2..6
    OBVIOUS
  <2> QED BY <2>1 DEF NeededBehindFirst
<1>2. IsGetter(g) /\ IsGetter(h) /\ g.tag \in Nat /\ g.tag < 128 /\ h.tag \in Nat /\ h.tag < 128
  <2>1. 1 \in 1..6 /\ 2 \in 1..6
    OBVIOUS
  <2>2. IsGetter(g) /\ IsGetter(h)
    BY <2>1 DEF NeededBehindFirst
  <2> HIDE DEF g, h
  <2> QED BY <2>2 DEF IsGetter
<1>3. a[0] = Begun /\ \A i \in 1..n : a[i] = StepValues(rsp, gets, i, a[i - 1])
  <2>1. n \in Nat
    BY DEF Getters
  <2> QED BY <2>1, AfterFacts
<1>4. n \in Nat
  BY <1>1
<1> HIDE DEF a, n
<1>5. /\ At(rsp, k) = 144
      /\ k = 1 => At(rsp, 0) = g.tag
  <2>1. At(rsp, k) = 144 /\ Len(rsp) = k + 2 /\ \A j \in 1..k : rsp[j] = BodyFor(gets)[j]
    BY DEF CutAt
  <2>2. ASSUME k = 1 PROVE At(rsp, 0) = g.tag
    <3>1. rsp \in Seq(Byte) /\ Len(rsp) = 3 /\ rsp[1] = BodyFor(gets)[1]
      BY <2>1, <2>2 DEF CutAt
    <3>2. BodyFor(gets)[1] = g.tag
      <4>1. 1 \in 1..Len(gets) /\ 1 - 1 = 0
        BY <1>1 DEF n
      <4>2. Holds(BodyFor(gets), EndOf(gets, 0), ReplyItem(g)) /\ EndOf(gets, 0) = 0
        BY <4>1, BodyForFacts
      <4>3. ReplyItem(g)[1] = g.tag /\ Len(ReplyItem(g)) \in Nat /\ Len(ReplyItem(g)) >= 2
        BY <1>2, ReplyItemFacts
      <4>4. 1 \in 1..Len(ReplyItem(g)) /\ 0 + 1 = 1
        BY <4>3
      <4>5. BodyFor(gets)[0 + 1] = ReplyItem(g)[1]
        BY <4>2, <4>4 DEF Holds
      <4> QED BY <4>3, <4>4, <4>5
    <3>3. At(rsp, 0) = rsp[1]
      <4>1. 0 + 1 = 1 /\ 1 \in DOMAIN rsp
        BY <3>1
      <4> QED BY <4>1 DEF At, ByteAt
    <3> QED BY <3>1, <3>2, <3>3
  <2> QED BY <2>1, <2>2
<1> HIDE DEF g, h
<1>6. At(rsp, 0) # g.tag \/ At(rsp, 0 + 1) = 144
  BY <1>2, <1>5
<1>7. At(rsp, 0) # h.tag
  BY <1>1, <1>2, <1>5
<1>8. TakeValue(rsp, 0, g).index = 0
  <2>1. IsGetter(g) /\ (At(rsp, 0) # g.tag \/ (g.kind = "bytes" /\ At(rsp, 0 + 1) = 144))
    BY <1>1, <1>2, <1>6
  <2> QED BY <2>1, TakeRefused
<1>9. TakeValue(rsp, 0, h).ok = FALSE
  BY <1>2, <1>7, TakeRefused
<1>10. a[1].index = 0
  <2>1. 1 \in 1..n /\ 1 - 1 = 0
    BY <1>1
  <2>2. a[1] = StepValues(rsp, gets, 1, Begun)
    BY <1>3, <2>1
  <2>3. Begun.ok /\ Begun.index = 0
    BY DEF Begun
  <2>4. StepValues(rsp, gets, 1, Begun).index = TakeValue(rsp, 0, g).index
    <3> DEFINE ok == TakeValue(rsp, Begun.index, gets[1]).ok \/ ~gets[1].need
               index == TakeValue(rsp, Begun.index, gets[1]).index
               values == Append(Begun.values, TakeValue(rsp, Begun.index, gets[1]).value)
    <3>1. StepValues(rsp, gets, 1, Begun) = [ok |-> ok, index |-> index, values |-> values]
      BY <2>3, Zenon DEF StepValues
    <3>2. index = TakeValue(rsp, 0, g).index
      BY <2>3 DEF g
    <3> HIDE DEF ok, index, values
    <3>3. StepValues(rsp, gets, 1, Begun).index = index
      BY <3>1
    <3> QED BY <3>2, <3>3
  <2> QED BY <1>8, <2>2, <2>4
<1>11. ~a[2].ok
  <2>1. 2 \in 1..n /\ 2 - 1 = 1
    BY <1>1
  <2>2. a[2] = StepValues(rsp, gets, 2, a[1])
    BY <1>3, <2>1
  <2>3. CASE ~a[1].ok
    <3>1. a[2] = a[1]
      BY <2>2, <2>3, Zenon DEF StepValues
    <3> QED BY <2>3, <3>1
  <2>4. CASE a[1].ok
    <3> DEFINE ok == TakeValue(rsp, a[1].index, gets[2]).ok \/ ~gets[2].need
    <3> DEFINE index == TakeValue(rsp, a[1].index, gets[2]).index
               values == Append(a[1].values, TakeValue(rsp, a[1].index, gets[2]).value)
    <3>1. a[2] = [ok |-> ok, index |-> index, values |-> values]
      BY <2>2, <2>4, Zenon DEF StepValues
    <3>2. ~ok
      BY <1>1, <1>9, <1>10 DEF h
    <3> HIDE DEF ok, index, values
    <3>3. a[2].ok = ok
      BY <3>1
    <3> QED BY <3>2, <3>3
  <2> QED BY <2>3, <2>4
<1>12. 0 \in T
  BY <1>4
<1>13. ASSUME NEW i \in 1..n, i - 1 \in T PROVE i \in T
  <2> DEFINE m == i - 1
  <2>1. i \in 0..n /\ (i >= 2 => i = 2 \/ m >= 2)
    BY <1>4
  <2>2. CASE i = 2
    BY <1>11, <2>1, <2>2
  <2>3. CASE i >= 2 /\ m >= 2
    <3>1. ~a[m].ok
      BY <1>13, <2>3
    <3>2. a[i] = StepValues(rsp, gets, i, a[m])
      BY <1>3
    <3> HIDE DEF m
    <3>3. a[i] = a[m]
      BY <3>1, <3>2, Zenon DEF StepValues
    <3> QED BY <2>1, <3>1, <3>3
  <2> QED BY <2>1, <2>2, <2>3
<1> HIDE DEF T
<1>14. \A i \in 0..n : i \in T
  BY <1>4, <1>12, <1>13, InductionTo
<1>15. n \in T /\ n >= 2
  BY <1>1, <1>4, <1>14
<1>16. ~a[n].ok
  BY <1>15 DEF T
<1>17. Values(rsp, gets) = a[n]
  BY ValuesAfter DEF a, n
<1> QED BY <1>16, <1>17

(* The status word behind a body is what it says. *)
LEMMA StatusFacts ==
    ASSUME NEW s \in Seq(Byte)
    PROVE  /\ SM_OK \in Seq(Byte) /\ Len(SM_OK) = 2
           /\ StatusOf(s \o SM_OK) = SM_OK /\ StatusOf(s \o <<106, 128>>) # SM_OK
<1>1. \A t \in Seq(Byte) : Len(t) = 2 => StatusOf(s \o t) = t
  <2> SUFFICES ASSUME NEW t \in Seq(Byte), Len(t) = 2 PROVE StatusOf(s \o t) = t
    OBVIOUS
  <2> DEFINE u == s \o t
             n == Len(s)
  <2>1. n \in Nat /\ u \in Seq(Byte) /\ Len(u) = n + 2 /\ Holds(u, n, t)
    <3>1. \A v, w \in Seq(Byte) : /\ v \o w \in Seq(Byte) /\ Len(v \o w) = Len(v) + Len(w)
                                  /\ Holds(v \o w, Len(v), w)
      BY HoldsJoined
    <3>2. u \in Seq(Byte) /\ Len(u) = n + Len(t) /\ Holds(u, n, t)
      BY <3>1, Zenon
    <3>3. n \in Nat
      OBVIOUS
    <3> HIDE DEF u, n
    <3> QED BY <3>2, <3>3
  <2> HIDE DEF u, n
  <2>2. SubSeq(u, n + 1, n + Len(t)) = t
    BY <2>1, HoldsSlice
  <2>3. Len(u) - 1 = n + 1 /\ Len(u) = n + Len(t)
    BY <2>1
  <2>4. StatusOf(u) = t
    BY <2>2, <2>3 DEF StatusOf
  <2> QED BY <2>4 DEF u
<1>2. SM_OK \in Seq(Byte) /\ Len(SM_OK) = 2 /\ <<106, 128>> \in Seq(Byte) /\ Len(<<106, 128>>) = 2
  <2>1. 144 \in Byte /\ 0 \in Byte /\ 106 \in Byte /\ 128 \in Byte
    BY DEF Byte
  <2> QED BY <2>1 DEF SM_OK
<1>3. <<106, 128>> # SM_OK
  <2>1. <<106, 128>>[1] = 106 /\ SM_OK[1] = 144
    BY DEF SM_OK
  <2> QED BY <2>1
<1> QED BY <1>1, <1>2, <1>3

(* What a function that takes values says of a reply. *)
LEMMA AnswerFacts ==
    ASSUME NEW api, api.gets # <<>>, NEW rsp
    PROVE  /\ StatusOf(rsp) # SM_OK => ~Answer(api, rsp).ok
           /\ StatusOf(rsp) = SM_OK =>
                 /\ Answer(api, rsp).ok = (Values(rsp, api.gets).ok /\ Values(rsp, api.gets).index + 2 = Len(rsp))
                 /\ Answer(api, rsp).values = Values(rsp, api.gets).values
<1> DEFINE ok == Values(rsp, api.gets).ok /\ Values(rsp, api.gets).index + 2 = Len(rsp)
           values == Values(rsp, api.gets).values
<1>1. Answer(api, rsp) =
          CASE StatusOf(rsp) # SM_OK                     -> [ok |-> FALSE, values |-> <<>>]
            [] StatusOf(rsp) = SM_OK /\ api.gets = <<>>  -> [ok |-> TRUE, values |-> <<>>]
            [] StatusOf(rsp) = SM_OK /\ api.gets # <<>>  -> [ok |-> ok, values |-> values]
  BY DEF Answer
<1> HIDE DEF ok, values
<1>2. ASSUME StatusOf(rsp) # SM_OK PROVE ~Answer(api, rsp).ok
  <2>1. Answer(api, rsp) = [ok |-> FALSE, values |-> <<>>]
    BY <1>1, <1>2
  <2> QED BY <2>1
<1>3. ASSUME StatusOf(rsp) = SM_OK
      PROVE  Answer(api, rsp).ok = ok /\ Answer(api, rsp).values = values
  <2>1. ~(StatusOf(rsp) # SM_OK) /\ ~(StatusOf(rsp) = SM_OK /\ api.gets = <<>>)
    BY <1>3
  <2>2. Answer(api, rsp) = [ok |-> ok, values |-> values]
    BY <1>1, <1>3, <2>1
  <2> QED BY <2>2
<1> QED BY <1>2, <1>3 DEF ok, values

(* A body cut behind its first k bytes. *)
LEMMA CutFacts ==
    ASSUME NEW body \in Seq(Byte), NEW k \in Nat, k < Len(body)
    PROVE  CutAt(SubSeq(body, 1, k) \o SM_OK, body, k)
<1> DEFINE s == SubSeq(body, 1, k)
           rsp == s \o SM_OK
<1>1. s \in Seq(Byte) /\ Len(s) = k /\ \A j \in 1..k : s[j] = body[j]
  <2>1. Len(body) \in Nat /\ k <= Len(body)
    OBVIOUS
  <2> QED BY <2>1, Sliced
<1>2. SM_OK \in Seq(Byte) /\ Len(SM_OK) = 2 /\ SM_OK[1] = 144
  <2>1. SM_OK[1] = 144
    BY DEF SM_OK
  <2> QED BY <2>1, StatusFacts
<1> HIDE DEF s
<1> DEFINE end == SM_OK
<1>7. end \in Seq(Byte) /\ Len(end) = 2 /\ end[1] = 144 /\ rsp = s \o end
  BY <1>2
<1> HIDE DEF rsp, end
<1>3. /\ rsp \in Seq(Byte) /\ Len(rsp) = k + 2
      /\ \A j \in 1..k : rsp[j] = s[j]
      /\ \A j \in 1..2 : rsp[k + j] = end[j]
  <2>1. \A u, v \in Seq(Byte) : /\ u \o v \in Seq(Byte) /\ Len(u \o v) = Len(u) + Len(v)
                                /\ \A j \in 1..Len(u) : (u \o v)[j] = u[j]
                                /\ \A j \in 1..Len(v) : (u \o v)[Len(u) + j] = v[j]
    BY Joined
  <2>2. s \in Seq(Byte) /\ end \in Seq(Byte)
    BY <1>1, <1>7
  <2>3. /\ s \o end \in Seq(Byte) /\ Len(s \o end) = Len(s) + Len(end)
        /\ \A j \in 1..Len(s) : (s \o end)[j] = s[j]
        /\ \A j \in 1..Len(end) : (s \o end)[Len(s) + j] = end[j]
    BY <2>1, <2>2, Zenon
  <2>4. rsp = s \o end
    BY <1>7
  <2>5. /\ rsp \in Seq(Byte) /\ Len(rsp) = Len(s) + Len(end)
        /\ \A j \in 1..Len(s) : rsp[j] = s[j]
        /\ \A j \in 1..Len(end) : rsp[Len(s) + j] = end[j]
    BY <2>3, <2>4, Zenon
  <2> QED BY <1>1, <1>7, <2>5
<1>4. rsp[k + 1] = 144
  <2>1. 1 \in 1..2
    OBVIOUS
  <2> QED BY <1>7, <1>3, <2>1
<1>5. At(rsp, k) = 144
  <2>1. k + 1 \in DOMAIN rsp
    BY <1>3
  <2> QED BY <1>4, <2>1 DEF At, ByteAt
<1>6. CutAt(rsp, body, k)
  BY <1>1, <1>3, <1>5 DEF CutAt
<1> QED BY <1>6 DEF rsp, s

(* A body with a byte too many. *)
LEMMA LongerFacts ==
    ASSUME NEW body \in Seq(Byte)
    PROVE  /\ Append(body, 0) \in Seq(Byte)
           /\ Append(body, 0) \o SM_OK \in Seq(Byte)
           /\ Len(Append(body, 0) \o SM_OK) = Len(body) + 3
           /\ Holds(Append(body, 0) \o SM_OK, 0, body)
<1> DEFINE s == Append(body, 0)
           rsp == s \o SM_OK
<1>1. s \in Seq(Byte) /\ Len(s) = Len(body) + 1 /\ Holds(s, 0, body)
  <2>1. 0 \in Byte
    BY DEF Byte
  <2> QED BY <2>1 DEF Holds
<1>2. SM_OK \in Seq(Byte) /\ Len(SM_OK) = 2
  BY StatusFacts
<1> HIDE DEF s
<1>3. rsp \in Seq(Byte) /\ Len(rsp) = Len(s) + 2 /\ Holds(rsp, 0, s)
  <2>1. \A u, v \in Seq(Byte) : /\ u \o v \in Seq(Byte) /\ Len(u \o v) = Len(u) + Len(v)
                                /\ Holds(u \o v, 0, u)
    BY HoldsJoined
  <2>2. rsp \in Seq(Byte) /\ Len(rsp) = Len(s) + Len(SM_OK) /\ Holds(rsp, 0, s)
    BY <1>1, <1>2, <2>1, Zenon
  <2> QED BY <2>2, <1>2
<1> HIDE DEF rsp
<1>4. Holds(rsp, 0 + 0, body)
  BY <1>1, <1>3, HoldsWithin
<1>5. Holds(rsp, 0, body) /\ Len(rsp) = Len(body) + 3
  BY <1>1, <1>3, <1>4
<1> QED BY <1>1, <1>3, <1>5 DEF rsp, s

LEMMA GetsOfGood ==
    ASSUME NEW api, Good(api)
    PROVE  Getters(api.gets)
<1> DEFINE gets == api.gets
<1>1. Needed(gets) \/ NeededBehindFirst(gets)
  BY DEF Good
<1> SUFFICES Getters(gets)
  OBVIOUS
<1> HIDE DEF gets
<1>2. CASE Needed(gets)
  BY <1>2 DEF Needed, Getters
<1>3. CASE NeededBehindFirst(gets)
  BY <1>3 DEF NeededBehindFirst, Getters
<1> QED BY <1>1, <1>2, <1>3

(* A value of the same kind and room has the same length in every place of *)
(* a reply.                                                                *)
LEMMA SameLength ==
    ASSUME DataInv, NEW g, NEW h, IsGetter(g), IsGetter(h),
           g.kind = "bytes", h.kind = "bytes", g.room = h.room
    PROVE  Len(ReplyItem(g)) = Len(ReplyItem(h))
<1>1. ValueFor(g) = ValueFor(h)
  BY DEF ValueFor
<1> DEFINE v == ValueFor(g)
           a == g.tag
           b == h.tag
<1>2. /\ v \in Seq(Byte) /\ Len(v) \in Word16 /\ a \in Byte /\ b \in Byte
      /\ ReplyItem(g) = ItemOf(a, v) /\ ReplyItem(h) = ItemOf(b, v)
  <2>1. \A get : IsGetter(get) /\ get.kind = "bytes" =>
            /\ ValueFor(get) \in Seq(Byte) /\ Len(ValueFor(get)) \in Word16 /\ get.tag \in Byte
            /\ ReplyItem(get) = ItemOf(get.tag, ValueFor(get))
    BY ReplyBytes
  <2>2. /\ v \in Seq(Byte) /\ Len(v) \in Word16 /\ a \in Byte
        /\ ReplyItem(g) = ItemOf(a, v)
    BY <2>1
  <2>3. b \in Byte /\ ReplyItem(h) = ItemOf(b, ValueFor(h))
    BY <2>1
  <2> QED BY <1>1, <2>2, <2>3
<1> HIDE DEF v, a, b
<1>3. /\ Len(ItemOf(a, v)) = 1 + UtilityGetTLV_LL_from_len(Len(v)) + Len(v)
      /\ Len(ItemOf(b, v)) = 1 + UtilityGetTLV_LL_from_len(Len(v)) + Len(v)
  <2>1. \A t \in Byte, w \in Seq(Byte) : Len(w) \in Word16 =>
            Len(ItemOf(t, w)) = 1 + UtilityGetTLV_LL_from_len(Len(w)) + Len(w)
    BY ItemFacts
  <2> QED BY <1>2, <2>1
<1> QED BY <1>2, <1>3

(* The optional first value is at most a third of the body, so that a      *)
(* reply of half the body, or of all but one byte, holds it whole.         *)
LEMMA FirstWithin ==
    ASSUME DataInv, NEW gets, NeededBehindFirst(gets), Getters(gets)
    PROVE  /\ EndOf(gets, 1) \in Nat /\ EndOf(gets, 1) >= 2
           /\ 3 * EndOf(gets, 1) <= Len(BodyFor(gets))
<1> DEFINE e(i) == EndOf(gets, i)
           l(i) == Len(ReplyItem(gets[i]))
           all == Len(BodyFor(gets))
<1>1. Len(gets) = 6
  BY DEF NeededBehindFirst
<1>2. /\ all = EndOf(gets, 6) /\ e(0) = 0
      /\ e(1) \in Nat /\ e(2) \in Nat /\ e(3) \in Nat /\ e(4) \in Nat /\ e(6) \in Nat
      /\ e(2) <= e(3) /\ e(4) <= e(6)
      /\ e(1) = e(0) + l(1) /\ e(2) = e(1) + l(2) /\ e(4) = e(3) + l(4)
  <2> DEFINE n == Len(gets)
  <2>1. /\ all = EndOf(gets, n) /\ EndOf(gets, 0) = 0
        /\ \A i \in 0..n : EndOf(gets, i) \in Nat
        /\ \A i \in 0..n : \A j \in 0..i : EndOf(gets, j) <= EndOf(gets, i)
        /\ \A i \in 1..n : EndOf(gets, i) = EndOf(gets, i - 1) + Len(ReplyItem(gets[i]))
    BY BodyForFacts
  <2>2. n = 6
    BY <1>1
  <2> HIDE DEF n, all
  <2>3. /\ 1 \in 0..n /\ 2 \in 0..n /\ 3 \in 0..n /\ 4 \in 0..n /\ 6 \in 0..n
        /\ 2 \in 0..3 /\ 4 \in 0..6 /\ 1 \in 1..n /\ 2 \in 1..n /\ 4 \in 1..n
    BY <2>2
  <2>4. 1 - 1 = 0 /\ 2 - 1 = 1 /\ 4 - 1 = 3
    OBVIOUS
  <2>5. EndOf(gets, 1) = EndOf(gets, 0) + l(1)
    BY <2>1, <2>3, <2>4
  <2>6. EndOf(gets, 2) = EndOf(gets, 1) + l(2)
    BY <2>1, <2>3, <2>4
  <2>7. EndOf(gets, 4) = EndOf(gets, 3) + l(4)
    BY <2>1, <2>3, <2>4
  <2>8. EndOf(gets, 2) <= EndOf(gets, 3) /\ EndOf(gets, 4) <= EndOf(gets, 6)
    BY <2>1, <2>3
  <2> QED BY <2>1, <2>2, <2>3, <2>5, <2>6, <2>7, <2>8
<1>3. l(1) \in Nat /\ l(1) >= 2 /\ l(2) = l(1) /\ l(4) = l(1)
  <2> DEFINE g == gets[1]
             h == gets[2]
             f == gets[4]
  <2>1. /\ IsGetter(g) /\ IsGetter(h) /\ IsGetter(f)
        /\ g.kind = "bytes" /\ h.kind = "bytes" /\ f.kind = "bytes"
        /\ h.room = g.room /\ f.room = g.room
    <3>1. 1 \in 1..6 /\ 2 \in 1..6 /\ 4 \in 1..6
      OBVIOUS
    <3>2. \A i \in 1..6 : IsGetter(gets[i])
      BY <1>1 DEF NeededBehindFirst
    <3>3. IsGetter(g) /\ IsGetter(h) /\ IsGetter(f)
      BY <3>1, <3>2, Zenon
    <3>4. /\ g.kind = "bytes" /\ h.kind = "bytes" /\ f.kind = "bytes"
          /\ g.room = h.room /\ g.room = f.room
      BY Zenon DEF NeededBehindFirst
    <3> QED BY <3>3, <3>4
  <2> HIDE DEF g, h, f
  <2>2. Len(ReplyItem(g)) \in Nat /\ Len(ReplyItem(g)) >= 2
    BY <2>1, ReplyItemFacts
  <2>3. Len(ReplyItem(h)) = Len(ReplyItem(g)) /\ Len(ReplyItem(f)) = Len(ReplyItem(g))
    BY <2>1, SameLength
  <2> QED BY <2>2, <2>3 DEF g, h, f
<1> DEFINE e1 == e(1)
           e2 == e(2)
           e3 == e(3)
           e4 == e(4)
           e6 == e(6)
           m == l(1)
<1>4. /\ e1 \in Nat /\ e2 \in Nat /\ e3 \in Nat /\ e4 \in Nat /\ e6 \in Nat /\ m \in Nat
      /\ e2 <= e3 /\ e4 <= e6 /\ e1 = m /\ e2 = e1 + m /\ e4 = e3 + m /\ m >= 2
      /\ all = e6
  BY <1>2, <1>3
<1> HIDE DEF e1, e2, e3, e4, e6, m, all
<1>5. e1 \in Nat /\ e1 >= 2 /\ 3 * e1 <= all
  BY <1>4
<1> QED BY <1>5 DEF e1, all

(* A reply that lost some of its bytes is refused.                         *)
LEMMA CutRefused ==
    ASSUME DataInv, NEW api, Good(api), api.gets # <<>>,
           NEW k \in Nat, k < Len(BodyFor(api.gets)),
           k = 0 \/ k = 1 \/ k = Len(BodyFor(api.gets)) \div 2 \/ k = Len(BodyFor(api.gets)) - 1
    PROVE  ~Answer(api, SubSeq(BodyFor(api.gets), 1, k) \o SM_OK).ok
<1> DEFINE gets == api.gets
           body == BodyFor(gets)
           s == SubSeq(body, 1, k)
           rsp == s \o SM_OK
<1>1. Getters(gets)
  BY GetsOfGood
<1>2. body \in Seq(Byte) /\ Len(body) \in Nat
  <2>1. body \in Seq(Byte)
    BY <1>1, BodyForFacts
  <2> QED BY <2>1
<1>3. CutAt(rsp, body, k)
  <2> HIDE DEF body
  <2>1. k < Len(body)
    BY DEF body
  <2> QED BY <1>2, <2>1, CutFacts
<1>4. StatusOf(rsp) = SM_OK
  <2>1. s \in Seq(Byte)
    <3> HIDE DEF body
    <3>1. k <= Len(body) /\ 1 <= 1 /\ 1 <= k + 1 /\ 1 \in Int /\ k \in Int
      BY <1>2 DEF body
    <3> QED BY <1>2, <3>1, Sliced
  <2> HIDE DEF s
  <2> QED BY <2>1, StatusFacts
<1>5. ~(Values(rsp, gets).ok /\ Values(rsp, gets).index + 2 = Len(rsp)) => ~Answer(api, rsp).ok
  <2> HIDE DEF rsp
  <2>1. Answer(api, rsp).ok = (Values(rsp, api.gets).ok /\ Values(rsp, api.gets).index + 2 = Len(rsp))
    BY <1>4, AnswerFacts
  <2> QED BY <2>1
<1>6. Needed(gets) \/ NeededBehindFirst(gets)
  BY DEF Good
<1>7. /\ k < Len(body)
      /\ k = 0 \/ k = 1 \/ k = Len(body) \div 2 \/ k = Len(body) - 1
  OBVIOUS
<1> SUFFICES ~(Values(rsp, gets).ok /\ Values(rsp, gets).index + 2 = Len(rsp))
  BY <1>5
<1> HIDE DEF rsp, s, gets
<1>8. CASE Needed(gets)
  <2>1. \A i \in 1..Len(gets) : gets[i].need = TRUE \/ (i = 1 /\ EndOf(gets, 1) <= k)
    BY <1>8 DEF Needed
  <2> QED BY <1>1, <1>3, <1>7, <2>1, CutReply
<1>9. CASE NeededBehindFirst(gets)
  <2>1. CASE k = 0 \/ k = 1
    BY <1>1, <1>3, <1>9, <2>1, CutEarly
  <2>2. CASE k = Len(body) \div 2 \/ k = Len(body) - 1
    <3> DEFINE e == EndOf(gets, 1)
               n == Len(body)
    <3>1. e \in Nat /\ e >= 2 /\ 3 * e <= n
      BY <1>1, <1>9, FirstWithin
    <3>2. n \in Nat /\ (k = n \div 2 \/ k = n - 1)
      BY <1>2, <2>2
    <3> HIDE DEF e, n
    <3>3. e <= k
      BY <3>1, <3>2
    <3>4. \A i \in 1..Len(gets) : i = 1 \/ i \in 2..Len(gets)
      BY <1>1 DEF Getters
    <3>5. \A i \in 1..Len(gets) : gets[i].need = TRUE \/ (i = 1 /\ EndOf(gets, 1) <= k)
      BY <1>9, <3>3, <3>4 DEF NeededBehindFirst, e
    <3> QED BY <1>1, <1>3, <1>7, <3>5, CutReply
  <2> QED BY <1>7, <2>1, <2>2
<1> QED BY <1>6, <1>8, <1>9

RepliesWhole(api) ==
    LET body   == FlattenSeq([i \in DOMAIN api.gets |-> ReplyItem(api.gets[i])])
        answer == Answer(api, body \o SM_OK)
    IN  /\ answer.ok
        /\ answer.values = [i \in DOMAIN api.gets |-> ValueFor(api.gets[i])]
        /\ ~Answer(api, body \o <<106, 128>>).ok
        /\ ~Answer(api, Append(body, 0) \o SM_OK).ok
        /\ \A k \in {0, 1, Len(body) \div 2, Len(body) - 1} :
              k < Len(body) => ~Answer(api, SubSeq(body, 1, k) \o SM_OK).ok

(***************************************************************************)
(* Whatever values a call asks for: its whole reply is accepted and gives  *)
(* them; with another status word, a byte too many or some bytes missing   *)
(* the reply is refused (tlvGet_u8buf, se05x_APDU_impl.c).                 *)
(***************************************************************************)
THEOREM EveryReplyWhole ==
    ASSUME DataInv, NEW api, Good(api), api.gets # <<>>
    PROVE  RepliesWhole(api)
<1> DEFINE gets == api.gets
           body == BodyFor(gets)
           whole == body \o SM_OK
           longer == Append(body, 0) \o SM_OK
           n == Len(body)
<1>1. Getters(gets)
  BY GetsOfGood
<1>2. gets = <<>> \/ Len(gets) # 0
  <2>1. Needed(gets) \/ NeededBehindFirst(gets)
    BY DEF Good
  <2> HIDE DEF gets
  <2>2. CASE Needed(gets)
    BY <2>2 DEF Needed
  <2>3. CASE NeededBehindFirst(gets)
    BY <2>3 DEF NeededBehindFirst
  <2> QED BY <2>1, <2>2, <2>3
<1>3. gets # <<>>
  OBVIOUS
<1>4. RepliesWhole(api) <=>
          /\ Answer(api, whole).ok
          /\ Answer(api, whole).values = [i \in DOMAIN gets |-> ValueFor(gets[i])]
          /\ ~Answer(api, body \o <<106, 128>>).ok
          /\ ~Answer(api, longer).ok
          /\ \A k \in {0, 1, n \div 2, n - 1} :
                k < n => ~Answer(api, SubSeq(body, 1, k) \o SM_OK).ok
  BY DEF RepliesWhole, BodyFor, ItemsFor
<1>5. \A rsp : /\ StatusOf(rsp) # SM_OK => ~Answer(api, rsp).ok
               /\ StatusOf(rsp) = SM_OK =>
                    /\ Answer(api, rsp).ok = (Values(rsp, gets).ok /\ Values(rsp, gets).index + 2 = Len(rsp))
                    /\ Answer(api, rsp).values = Values(rsp, gets).values
  BY AnswerFacts
<1>6. \A k \in Nat :
          k < n /\ (k = 0 \/ k = 1 \/ k = n \div 2 \/ k = n - 1) =>
              ~Answer(api, SubSeq(body, 1, k) \o SM_OK).ok
  BY CutRefused
<1> HIDE DEF gets
<1>7. Len(gets) \in Nat /\ DOMAIN gets = 1..Len(gets)
  BY <1>1 DEF Getters
<1>8. body \in Seq(Byte) /\ n \in Nat /\ n # 0
  <2> DEFINE m == Len(gets)
             e(i) == EndOf(gets, i)
             item == ReplyItem(gets[1])
  <2>1. /\ body \in Seq(Byte) /\ n = e(m)
        /\ e(0) = 0 /\ \A i \in 0..m : e(i) \in Nat
        /\ \A i \in 0..m : \A j \in 0..i : e(j) <= e(i)
        /\ \A i \in 1..m : e(i) = e(i - 1) + Len(ReplyItem(gets[i]))
    BY <1>1, BodyForFacts
  <2>2. m \in Nat /\ m # 0
    BY <1>2, <1>3, <1>7
  <2>3. 1 \in 1..m /\ 1 \in 0..m /\ m \in 0..m /\ 1 - 1 = 0
    BY <2>2
  <2>4. Len(item) \in Nat /\ Len(item) >= 2
    BY <1>1, <2>3, ReplyItemFacts DEF Getters
  <2> HIDE DEF n, m, e, item
  <2>5. e(1) = e(0) + Len(item) /\ e(1) \in Nat /\ e(0) = 0 /\ e(m) \in Nat /\ e(1) <= e(m)
    BY <2>1, <2>3 DEF item
  <2>6. n \in Nat /\ n # 0
    BY <2>1, <2>4, <2>5
  <2> QED BY <2>1, <2>6
<1> HIDE DEF body
<1>9. Answer(api, whole).ok /\ Answer(api, whole).values = [i \in DOMAIN gets |-> ValueFor(gets[i])]
  <2>1. whole \in Seq(Byte) /\ Len(whole) = n + 2 /\ Holds(whole, 0, body)
    <3>1. SM_OK \in Seq(Byte) /\ Len(SM_OK) = 2
      BY <1>8, StatusFacts
    <3>2. \A u, v \in Seq(Byte) : /\ u \o v \in Seq(Byte) /\ Len(u \o v) = Len(u) + Len(v)
                                  /\ Holds(u \o v, 0, u)
      BY HoldsJoined
    <3>3. whole \in Seq(Byte) /\ Len(whole) = n + Len(SM_OK) /\ Holds(whole, 0, body)
      BY <1>8, <3>1, <3>2, Zenon
    <3> HIDE DEF whole, n
    <3> QED BY <3>1, <3>3
  <2>2. StatusOf(whole) = SM_OK
    BY <1>8, StatusFacts
  <2> HIDE DEF whole, n
  <2>3. /\ Values(whole, gets).ok = TRUE /\ Values(whole, gets).index = n
        /\ Values(whole, gets).values = [i \in 1..Len(gets) |-> ValueFor(gets[i])]
    BY <1>1, <2>1, WholeReply DEF body, n
  <2>4. /\ Answer(api, whole).ok = (Values(whole, gets).ok /\ Values(whole, gets).index + 2 = Len(whole))
        /\ Answer(api, whole).values = Values(whole, gets).values
    BY <1>5, <2>2
  <2>5. Answer(api, whole).ok
    BY <2>1, <2>3, <2>4
  <2>6. Answer(api, whole).values = [i \in DOMAIN gets |-> ValueFor(gets[i])]
    BY <1>7, <2>3, <2>4
  <2> QED BY <2>5, <2>6
<1>10. ~Answer(api, body \o <<106, 128>>).ok
  <2>1. StatusOf(body \o <<106, 128>>) # SM_OK
    BY <1>8, StatusFacts
  <2> QED BY <1>5, <2>1
<1>11. ~Answer(api, longer).ok
  <2>1. /\ Append(body, 0) \in Seq(Byte) /\ longer \in Seq(Byte)
        /\ Len(longer) = n + 3 /\ Holds(longer, 0, body)
    BY <1>8, LongerFacts
  <2>2. StatusOf(longer) = SM_OK
    <3> DEFINE s == Append(body, 0)
    <3>1. s \in Seq(Byte)
      BY <2>1
    <3> HIDE DEF s
    <3>2. StatusOf(s \o SM_OK) = SM_OK
      BY <3>1, StatusFacts
    <3> QED BY <3>2 DEF s
  <2> HIDE DEF longer, n
  <2>3. Values(longer, gets).index = n
    BY <1>1, <2>1, WholeReply DEF body, n
  <2>4. Answer(api, longer).ok = (Values(longer, gets).ok /\ Values(longer, gets).index + 2 = Len(longer))
    BY <1>5, <2>2
  <2>5. n \in Nat
    BY <1>8 DEF n
  <2> DEFINE last == Values(longer, gets).index
  <2>6. last = n /\ Len(longer) = n + 3
    BY <2>1, <2>3
  <2> HIDE DEF last
  <2>7. last + 2 # Len(longer)
    BY <2>5, <2>6
  <2> QED BY <2>4, <2>7 DEF last
<1>12. ASSUME NEW k \in {0, 1, n \div 2, n - 1}, k < n
       PROVE  ~Answer(api, SubSeq(body, 1, k) \o SM_OK).ok
  <2>1. k \in Nat /\ (k = 0 \/ k = 1 \/ k = n \div 2 \/ k = n - 1)
    <3>1. n \in Nat /\ n # 0
      BY <1>8
    <3> HIDE DEF n
    <3> QED BY <3>1
  <2> HIDE DEF n
  <2> QED BY <1>6, <1>12, <2>1
<1> QED BY <1>4, <1>9, <1>10, <1>11, <1>12

(***************************************************************************)
(* CommandsAndRepliesWhole for every data and size: the commands of all    *)
(* calls carry their fields whole, and the replies of those that take      *)
(* values are taken whole or not at all (se05x_tlv.c, se05x_APDU_impl.c).  *)
(***************************************************************************)
THEOREM CommandsAndRepliesAlwaysWhole == DataSpec => []CommandsAndRepliesWhole
<1>1. ASSUME DataInv PROVE CommandsAndRepliesWhole
  <2> DEFINE All == Calls \cup OtherCalls
  <2>1. \A api \in All : Good(api)
    BY <1>1, EveryCallGood
  <2> HIDE DEF All
  <2>2. \A api \in All : CarriesFields(api)
    BY <2>1, EveryCommandCarriesFields DEF Good
  <2>3. \A api \in All : api.gets # <<>> => RepliesWhole(api)
    BY <1>1, <2>1, EveryReplyWhole
  <2>4. CommandCarriesFields
    BY <2>2 DEF CommandCarriesFields, CarriesFields, All
  <2>5. RepliesTakenWhole
    BY <2>3 DEF RepliesTakenWhole, RepliesWhole, All
  <2> QED BY <2>4, <2>5 DEF CommandsAndRepliesWhole
<1>2. DataInv => CommandsAndRepliesWhole
  BY <1>1
<1> QED BY <1>2, DataAlways, PTL

-----------------------------------------------------------------------------
(* The value of bytes.                                                     *)

(* The recursive function of BytesValue by name. *)
Values256(s) ==
    CHOOSE value : value = [i \in 0 .. Len(s) |-> IF i = 0 THEN 0 ELSE 256 * value[i - 1] + s[i]]

LEMMA Values256Facts ==
    ASSUME NEW s \in Seq(Byte)
    PROVE  /\ BytesValue(s) = Values256(s)[Len(s)]
           /\ Values256(s) \in [0..Len(s) -> Nat]
           /\ Values256(s)[0] = 0
           /\ \A i \in 1..Len(s) : Values256(s)[i] = 256 * Values256(s)[i - 1] + s[i]
<1>1. BytesValue(s) = Values256(s)[Len(s)]
  BY DEF BytesValue, Values256
<1> DEFINE n == Len(s)
           step == [i \in 1..n |-> [v \in Nat |-> 256 * v + s[i]]]
<1>2. n \in Nat /\ \A i \in 1..n : s[i] \in Nat
  <2>1. n \in Nat /\ \A i \in 1..n : s[i] \in Byte
    BY ElementOfSeq
  <2> QED BY <2>1, Ranges
<1>3. step \in [1..n -> [Nat -> Nat]]
  BY <1>2
<1>4. PICK g \in [0..n -> Nat] : g[0] = 0 /\ \A i \in 1..n : g[i] = step[i][g[i - 1]]
  <2>1. 0 \in Nat
    OBVIOUS
  <2> HIDE DEF n, step
  <2>2. Iterations(Nat, 0, n, step) # {}
    BY <1>2, <1>3, <2>1, Iterates
  <2> QED BY <2>2 DEF Iterations
<1>5. \A i \in 1..n : g[i] = 256 * g[i - 1] + s[i]
  <2>1. TAKE i \in 1..n
  <2>2. i - 1 \in 0..n
    BY <1>2
  <2>3. g[i - 1] \in Nat
    <3> HIDE DEF n, step
    <3> QED BY <2>2
  <2> QED BY <1>4, <2>3
<1>6. g = [i \in 0..n |-> IF i = 0 THEN 0 ELSE 256 * g[i - 1] + s[i]]
  BY <1>2, <1>4, <1>5
<1>7. Values256(s) = [i \in 0..n |-> IF i = 0 THEN 0 ELSE 256 * Values256(s)[i - 1] + s[i]]
  BY <1>6, ZenonT(60) DEF Values256
<1>8. Values256(s)[0] = 0 /\ \A i \in 1..n : Values256(s)[i] = 256 * Values256(s)[i - 1] + s[i]
  BY <1>2, <1>7
<1>9. \A i \in 0..n : Values256(s)[i] \in Nat
  <2>1. ASSUME NEW i \in 1..n, Values256(s)[i - 1] \in Nat PROVE Values256(s)[i] \in Nat
    <3>1. s[i] \in Nat /\ Values256(s)[i] = 256 * Values256(s)[i - 1] + s[i]
      BY <1>2, <1>8
    <3> QED BY <2>1, <3>1
  <2>2. Values256(s)[0] \in Nat
    BY <1>8
  <2> HIDE DEF n
  <2> QED BY <1>2, <2>1, <2>2, StaysIn
<1>10. Values256(s) \in [0..n -> Nat]
  BY <1>7, <1>9
<1> QED BY <1>1, <1>8, <1>10

(* Two sequences of the same bytes up to the i-th have the same values. *)
LEMMA ValueOfTrimmed ==
    ASSUME NEW s \in Seq(Byte)
    PROVE  BytesValue(TrimZeros(s)) = BytesValue(s)
<1> DEFINE n == Len(s)
           v == Values256(s)
<1>1. n \in Nat /\ BytesValue(s) = v[n] /\ v[0] = 0
      /\ \A i \in 1..n : v[i] = 256 * v[i - 1] + s[i]
  BY Values256Facts
<1> HIDE DEF n, v
<1>2. ASSUME NEW k \in 0..n, \A i \in 1..k : s[i] = 0 PROVE v[k] = 0
  <2> DEFINE T == {i \in 0..k : v[i] = 0}
  <2>1. 0 \in T
    BY <1>1
  <2>2. ASSUME NEW i \in 1..k, i - 1 \in T PROVE i \in T
    <3>1. i \in 1..n /\ s[i] = 0 /\ v[i - 1] = 0
      BY <1>1, <1>2, <2>2
    <3>2. v[i] = 256 * 0 + 0
      BY <1>1, <3>1
    <3> QED BY <3>2
  <2>3. k \in Nat
    BY <1>1
  <2> HIDE DEF T
  <2>4. \A i \in 0..k : i \in T
    BY <2>1, <2>2, <2>3, InductionTo
  <2> QED BY <2>3, <2>4 DEF T
<1>3. CASE (\A i \in 1..n : s[i] = 0) /\ TrimZeros(s) = <<>>
  <2>1. v[n] = 0
    BY <1>1, <1>2, <1>3
  <2>2. BytesValue(<<>>) = 0
    <3>1. <<>> \in Seq(Byte) /\ Len(<<>>) = 0
      BY EmptySeq
    <3>2. BytesValue(<<>>) = Values256(<<>>)[0] /\ Values256(<<>>)[0] = 0
      BY <3>1, Values256Facts
    <3> QED BY <3>2
  <2> QED BY <1>1, <1>3, <2>1, <2>2
<1>4. ASSUME NEW k \in 1..n, \A i \in 1..k - 1 : s[i] = 0, TrimZeros(s) = SubSeq(s, k, n)
      PROVE  BytesValue(TrimZeros(s)) = BytesValue(s)
  <2> DEFINE t == SubSeq(s, k, n)
             w == Values256(t)
             m == n - k + 1
             T == {j \in 0..m : w[j] = v[k - 1 + j]}
  <2>1. t \in Seq(Byte) /\ Len(t) = m /\ \A i \in 1..m : t[i] = s[k + i - 1]
    BY <1>1, Sliced DEF n
  <2> HIDE DEF t, m
  <2>2. BytesValue(t) = w[m] /\ w[0] = 0 /\ \A i \in 1..m : w[i] = 256 * w[i - 1] + t[i]
    BY <2>1, Values256Facts
  <2>3. m = n - k + 1 /\ m \in Nat /\ k - 1 \in 0..n
    BY <1>1 DEF m
  <2>4. v[k - 1] = 0
    BY <1>2, <1>4, <2>3
  <2> HIDE DEF w
  <2>5. 0 \in T
    BY <2>2, <2>3, <2>4
  <2>6. ASSUME NEW j \in 1..m, j - 1 \in T PROVE j \in T
    <3>1. w[j - 1] = v[k - 1 + (j - 1)]
      BY <2>6
    <3> DEFINE at == k - 1 + j
    <3>2. at \in 1..n /\ at - 1 = k - 1 + (j - 1) /\ k + j - 1 = at /\ j \in 0..m
      BY <1>1, <2>3
    <3>3. v[at] = 256 * v[at - 1] + s[at]
      BY <1>1, <3>2
    <3>4. w[j] = 256 * w[j - 1] + t[j] /\ t[j] = s[at]
      BY <2>1, <2>2, <3>2
    <3>5. w[j] = v[at]
      BY <3>1, <3>2, <3>3, <3>4
    <3> QED BY <3>2, <3>5
  <2> HIDE DEF T
  <2>7. \A j \in 0..m : j \in T
    BY <2>3, <2>5, <2>6, InductionTo
  <2>8. w[m] = v[k - 1 + m]
    BY <2>3, <2>7 DEF T
  <2>9. k - 1 + m = n
    BY <1>1, <2>3
  <2> QED BY <1>1, <1>4, <2>2, <2>8, <2>9 DEF t
<1>5. \/ (\A i \in 1..n : s[i] = 0) /\ TrimZeros(s) = <<>>
      \/ \E k \in 1..n : (\A i \in 1..k - 1 : s[i] = 0) /\ TrimZeros(s) = SubSeq(s, k, n)
  BY TrimFacts, Ranges DEF n
<1> QED BY <1>3, <1>4, <1>5

(* The four bytes of a number of 32 bits, and their value. *)
LEMMA FourOctets ==
    ASSUME NEW n \in Nat
    PROVE  /\ Octets(n, 4)[1] = (n \div 16777216) % 256
           /\ Octets(n, 4)[2] = (n \div 65536) % 256
           /\ Octets(n, 4)[3] = (n \div 256) % 256
           /\ Octets(n, 4)[4] = n % 256
<1> DEFINE o == Octets(n, 4)
           digit(d) == (n \div d) % 256
<1>1. \A i \in 1..4 : o[i] = digit(256 ^ (4 - i))
  BY DEF Octets
<1>2. 1 \in 1..4 /\ 2 \in 1..4 /\ 3 \in 1..4 /\ 4 \in 1..4
  OBVIOUS
<1>3. 4 - 1 = 3 /\ 4 - 2 = 2 /\ 4 - 3 = 1 /\ 4 - 4 = 0
  OBVIOUS
<1>4. 256 ^ (4 - 1) = 16777216 /\ 256 ^ (4 - 2) = 65536 /\ 256 ^ (4 - 3) = 256 /\ 256 ^ (4 - 4) = 1
  BY <1>3, Powers
<1>5. digit(1) = n % 256
  OBVIOUS
<1> HIDE DEF o, digit
<1>6. o[1] = digit(16777216) /\ o[2] = digit(65536) /\ o[3] = digit(256) /\ o[4] = digit(1)
  BY <1>1, <1>2, <1>4
<1> QED BY <1>5, <1>6 DEF o, digit

TwoTo32 == 4294967296

LEMMA FromOctets ==
    ASSUME NEW n \in Nat, n < TwoTo32
    PROVE  LET a == (n \div 16777216) % 256
               b == (n \div 65536) % 256
               c == (n \div 256) % 256
               d == n % 256
           IN  256 * (256 * (256 * a + b) + c) + d = n
<1> DEFINE p == n \div 256
           q == p \div 256
           r == q \div 256
<1>1. p \in Nat /\ n = 256 * p + (n % 256)
  OBVIOUS
<1>2. q \in Nat /\ p = 256 * q + (p % 256)
  BY <1>1
<1>3. r \in Nat /\ q = 256 * r + (q % 256)
  BY <1>2
<1>4. n \div 65536 = q
  BY <1>1
<1>5. n \div 16777216 = r
  BY <1>1, <1>2
<1>6. r < 256
  BY <1>1, <1>2, <1>3 DEF TwoTo32
<1>7. r % 256 = r
  BY <1>3, <1>6
<1> QED BY <1>1, <1>2, <1>3, <1>4, <1>5, <1>7

LEMMA ValueOfOctets ==
    ASSUME NEW n \in Nat, n < TwoTo32
    PROVE  BytesValue(Octets(n, 4)) = n
<1> DEFINE o == Octets(n, 4)
           v == Values256(o)
           a == (n \div 16777216) % 256
           b == (n \div 65536) % 256
           c == (n \div 256) % 256
           d == n % 256
<1>1. o \in Seq(Byte) /\ Len(o) = 4
  BY OctetsFacts
<1>2. o[1] = a /\ o[2] = b /\ o[3] = c /\ o[4] = d
  BY FourOctets
<1>3. 256 * (256 * (256 * a + b) + c) + d = n
  BY FromOctets
<1>4. a \in Nat /\ b \in Nat /\ c \in Nat /\ d \in Nat
  OBVIOUS
<1> HIDE DEF o, a, b, c, d
<1>5. BytesValue(o) = v[4] /\ v[0] = 0 /\ \A i \in 1..4 : v[i] = 256 * v[i - 1] + o[i]
  BY <1>1, Values256Facts, ZenonT(60)
<1> HIDE DEF v
<1>6. v[1] = 256 * v[0] + o[1] /\ v[2] = 256 * v[1] + o[2] /\ v[3] = 256 * v[2] + o[3] /\ v[4] = 256 * v[3] + o[4]
  BY <1>5
<1>7. v[1] = a /\ v[2] = 256 * a + b
  BY <1>2, <1>4, <1>5, <1>6
<1>8. v[3] = 256 * (256 * a + b) + c
  BY <1>2, <1>6, <1>7
<1>9. v[4] = 256 * (256 * (256 * a + b) + c) + d
  BY <1>2, <1>6, <1>8
<1> QED BY <1>3, <1>5, <1>9 DEF o

-----------------------------------------------------------------------------
(* Numbers in big-endian order.                                            *)

(* Zeros in front of bytes are trimmed away with those that follow them.   *)
LEMMA TrimPadded ==
    ASSUME NEW z \in Seq(Byte), \A i \in 1..Len(z) : z[i] = 0, NEW s \in Seq(Byte)
    PROVE  TrimZeros(z \o s) = TrimZeros(s)
<1> DEFINE j == z \o s
           m == Len(z)
           n == Len(s)
<1>1. m \in Nat /\ n \in Nat
  OBVIOUS
<1>2. /\ j \in Seq(Byte) /\ Len(j) = m + n
      /\ \A i \in 1..m : j[i] = z[i]
      /\ \A i \in 1..n : j[m + i] = s[i]
  BY Joined
<1>3. (\A i \in 1..m : j[i] = 0) /\ Byte \subseteq Nat
  BY <1>2, Ranges
<1>4. \A i \in 1..m + n : i \in 1..m \/ (i - m \in 1..n /\ m + (i - m) = i)
  BY <1>1
<1> HIDE DEF j
<1>5. CASE (\A i \in 1..n : s[i] = 0) /\ TrimZeros(s) = <<>>
  <2>1. \A i \in 1..Len(j) : j[i] = 0
    <3>1. TAKE i \in 1..Len(j)
    <3>2. i \in 1..m \/ (i - m \in 1..n /\ m + (i - m) = i)
      BY <1>2, <1>4
    <3>3. CASE i \in 1..m
      BY <1>3, <3>3
    <3>4. CASE i - m \in 1..n /\ m + (i - m) = i
      <4>1. j[m + (i - m)] = s[i - m] /\ s[i - m] = 0
        BY <1>2, <1>5, <3>4
      <4> QED BY <3>4, <4>1
    <3> QED BY <3>2, <3>3, <3>4
  <2>2. TrimZeros(j) = <<>>
    BY <1>2, <1>3, <2>1, TrimCase
  <2> QED BY <1>5, <2>2 DEF j
<1>6. ASSUME NEW k \in 1..n, s[k] # 0, \A i \in 1..k - 1 : s[i] = 0, TrimZeros(s) = SubSeq(s, k, n)
      PROVE  TrimZeros(j) = TrimZeros(s)
  <2> DEFINE at == m + k
             l == n - k + 1
  <2>1. at \in 1..Len(j) /\ l \in Nat /\ Len(j) - at + 1 = l /\ at = m + k
    BY <1>1, <1>2
  <2>2. j[at] # 0
    BY <1>2, <1>6
  <2>3. \A i \in 1..at - 1 : j[i] = 0
    <3>1. TAKE i \in 1..at - 1
    <3>2. i \in 1..m \/ (i - m \in 1..k - 1 /\ i - m \in 1..n /\ m + (i - m) = i)
      BY <1>1
    <3>3. CASE i \in 1..m
      BY <1>3, <3>3
    <3>4. CASE i - m \in 1..k - 1 /\ i - m \in 1..n /\ m + (i - m) = i
      <4>1. j[m + (i - m)] = s[i - m] /\ s[i - m] = 0
        BY <1>2, <1>6, <3>4
      <4> QED BY <3>4, <4>1
    <3> QED BY <3>2, <3>3, <3>4
  <2>4. Len(j) = m + n
    BY <1>2
  <2> HIDE DEF at
  <2>5. TrimZeros(j) = SubSeq(j, at, Len(j))
    BY <1>2, <1>3, <2>1, <2>2, <2>3, TrimCase
  <2>6. /\ SubSeq(j, at, Len(j)) \in Seq(Byte) /\ Len(SubSeq(j, at, Len(j))) = Len(j) - at + 1
        /\ \A i \in 1..Len(j) - at + 1 : SubSeq(j, at, Len(j))[i] = j[at + i - 1]
    <3>1. at \in Int /\ Len(j) \in Int /\ 1 <= at /\ at <= Len(j) + 1
      BY <1>1, <2>1, <2>4
    <3> QED BY <1>2, <3>1, Sliced
  <2>7. /\ SubSeq(s, k, n) \in Seq(Byte) /\ Len(SubSeq(s, k, n)) = l
        /\ \A i \in 1..l : SubSeq(s, k, n)[i] = s[k + i - 1]
    BY <1>1, Sliced
  <2>8. \A i \in 1..l : SubSeq(j, at, Len(j))[i] = SubSeq(s, k, n)[i]
    <3>1. TAKE i \in 1..l
    <3>2. k + i - 1 \in 1..n /\ m + (k + i - 1) = at + i - 1
      BY <1>1, <2>1
    <3>3. j[m + (k + i - 1)] = s[k + i - 1]
      BY <1>2, <3>2
    <3> QED BY <2>1, <2>6, <2>7, <3>2, <3>3
  <2> DEFINE u == SubSeq(j, at, Len(j))
             w == SubSeq(s, k, n)
  <2>9. u \in Seq(Byte) /\ w \in Seq(Byte) /\ Len(u) = l /\ Len(w) = l /\ \A i \in 1..l : u[i] = w[i]
    BY <2>1, <2>6, <2>7, <2>8
  <2> HIDE DEF u, w, l
  <2>10. l \in Nat
    BY <2>1
  <2>11. u = w
    BY <2>9, <2>10, SameSeq
  <2> QED BY <1>6, <2>5, <2>11 DEF u, w
<1>7. \/ (\A i \in 1..n : s[i] = 0) /\ TrimZeros(s) = <<>>
      \/ \E k \in 1..n : s[k] # 0 /\ (\A i \in 1..k - 1 : s[i] = 0) /\ TrimZeros(s) = SubSeq(s, k, n)
  BY TrimFacts, Ranges
<1> QED BY <1>5, <1>6, <1>7 DEF j

(* Bytes behind those that are trimmed stay. *)
LEMMA TrimJoined ==
    ASSUME NEW s \in Seq(Byte), TrimZeros(s) # <<>>, NEW t \in Seq(Byte)
    PROVE  TrimZeros(s \o t) = TrimZeros(s) \o t
<1> DEFINE j == s \o t
           m == Len(t)
           n == Len(s)
           w == TrimZeros(s)
<1>1. m \in Nat /\ n \in Nat
  OBVIOUS
<1>2. /\ j \in Seq(Byte) /\ Len(j) = n + m
      /\ \A i \in 1..n : j[i] = s[i]
      /\ \A i \in 1..m : j[n + i] = t[i]
  BY Joined
<1>3. PICK k \in 1..n : s[k] # 0 /\ (\A i \in 1..k - 1 : s[i] = 0) /\ w = SubSeq(s, k, n)
  BY TrimFacts, Ranges
<1> DEFINE l == n - k + 1
<1>4. w \in Seq(Byte) /\ Len(w) = l /\ l \in Nat /\ \A i \in 1..l : w[i] = s[k + i - 1]
  BY <1>1, <1>3, Sliced
<1> HIDE DEF j, w
<1> DEFINE u == w \o t
           x == SubSeq(j, k, Len(j))
<1>5. /\ u \in Seq(Byte) /\ Len(u) = Len(w) + m
      /\ \A i \in 1..Len(w) : u[i] = w[i]
      /\ \A i \in 1..m : u[Len(w) + i] = t[i]
  <2> HIDE DEF l
  <2>1. w \in Seq(Byte) /\ Len(t) = m
    BY <1>4
  <2> HIDE DEF m
  <2>2. /\ w \o t \in Seq(Byte) /\ Len(w \o t) = Len(w) + Len(t)
        /\ \A i \in 1..Len(w) : (w \o t)[i] = w[i]
        /\ \A i \in 1..Len(t) : (w \o t)[Len(w) + i] = t[i]
    <3>1. \A p, q \in Seq(Byte) :
              /\ p \o q \in Seq(Byte) /\ Len(p \o q) = Len(p) + Len(q)
              /\ \A i \in 1..Len(p) : (p \o q)[i] = p[i]
              /\ \A i \in 1..Len(q) : (p \o q)[Len(p) + i] = q[i]
      BY Joined
    <3> QED BY <2>1, <3>1, Zenon
  <2> QED BY <2>1, <2>2
<1>6. x = TrimZeros(j)
  <2>1. k \in 1..Len(j) /\ j[k] # 0
    BY <1>1, <1>2, <1>3
  <2>2. \A i \in 1..k - 1 : j[i] = 0
    <3>1. TAKE i \in 1..k - 1
    <3>2. i \in 1..n
      BY <1>1
    <3> QED BY <1>2, <1>3, <3>2
  <2> QED BY <1>2, <2>1, <2>2, TrimCase, Ranges
<1>7. x \in Seq(Byte) /\ Len(x) = l + m /\ \A i \in 1..l + m : x[i] = j[k + i - 1]
  <2>1. k \in Int /\ Len(j) \in Int /\ 1 <= k /\ k <= Len(j) + 1 /\ Len(j) - k + 1 = l + m
    BY <1>1, <1>2
  <2> HIDE DEF l
  <2>2. /\ SubSeq(j, k, Len(j)) \in Seq(Byte) /\ Len(SubSeq(j, k, Len(j))) = Len(j) - k + 1
        /\ \A i \in 1..Len(j) - k + 1 : SubSeq(j, k, Len(j))[i] = j[k + i - 1]
    BY <1>2, <2>1, Sliced
  <2> QED BY <2>1, <2>2
<1> HIDE DEF u, x
<1>8. \A i \in 1..l + m : x[i] = u[i]
  <2>1. TAKE i \in 1..l + m
  <2>2. CASE i <= l
    <3>1. i \in 1..l /\ k + i - 1 \in 1..n
      BY <1>1, <1>4, <2>2
    <3> QED BY <1>2, <1>4, <1>5, <1>7, <3>1
  <2>3. CASE ~(i <= l)
    <3> DEFINE q == i - l
    <3>1. q \in 1..m /\ l + q = i /\ n + q = k + i - 1
      BY <1>1, <1>4, <2>3
    <3> HIDE DEF q
    <3>2. u[l + q] = t[q] /\ j[n + q] = t[q]
      BY <1>2, <1>4, <1>5, <3>1
    <3> QED BY <1>7, <3>1, <3>2
  <2> QED BY <2>2, <2>3
<1>9. x = u
  <2>1. l + m \in Nat /\ Len(u) = l + m
    BY <1>1, <1>4, <1>5
  <2> DEFINE len == l + m
  <2> HIDE DEF l
  <2>2. len \in Nat /\ Len(u) = len /\ Len(x) = len /\ \A i \in 1..len : x[i] = u[i]
    BY <1>7, <1>8, <2>1
  <2> HIDE DEF len
  <2> QED BY <1>5, <1>7, <2>2, SameSeq
<1> QED BY <1>6, <1>9 DEF j, w, u

LEMMA NoBytes ==
    /\ <<>> \in Seq(Byte) /\ Len(<<>>) = 0 /\ TrimZeros(<<>>) = <<>> /\ BytesValue(<<>>) = 0
    /\ BytesValue(<<0>>) = 0
<1>1. <<>> \in Seq(Byte) /\ Len(<<>>) = 0
  BY EmptySeq
<1>2. BytesValue(<<>>) = Values256(<<>>)[0] /\ Values256(<<>>)[0] = 0
  BY <1>1, Values256Facts, ZenonT(60)
<1>3. TrimZeros(<<>>) = <<>>
  <2>1. \A i \in 1..Len(<<>>) : <<>>[i] = 0
    BY <1>1
  <2>2. \A s \in Seq(Byte) : (\A i \in 1..Len(s) : s[i] = 0) => TrimZeros(s) = <<>>
    BY TrimCase, Ranges
  <2> QED BY <1>1, <2>1, <2>2, Zenon
<1>4. <<0>> \in Seq(Byte) /\ TrimZeros(<<0>>) = <<>>
  BY ZeroTexts
<1>5. BytesValue(<<0>>) = BytesValue(<<>>)
  BY <1>4, ValueOfTrimmed
<1> QED BY <1>1, <1>2, <1>3, <1>5

(* Four bytes without their leading zeros: at least one, the value is kept. *)
LEMMA BigendFacts ==
    ASSUME NEW n \in Nat, n < TwoTo32
    PROVE  LET w == UtilityUint32ToBigend(n, TRUE)
           IN  /\ w \in Seq(Byte) /\ Len(w) # 0 /\ Len(w) <= 4 /\ BytesValue(w) = n
               /\ w[1] = 0 => w = <<0>>
               /\ n # 0 => w = TrimZeros(Octets(n, 4)) /\ w # <<>>
<1> DEFINE o == Octets(n, 4)
           t == TrimZeros(o)
           w == UtilityUint32ToBigend(n, TRUE)
<1>1. o \in Seq(Byte) /\ Len(o) = 4 /\ BytesValue(o) = n
  BY OctetsFacts, ValueOfOctets
<1>2. w = IF t # <<>> THEN t ELSE <<0>>
  BY DEF UtilityUint32ToBigend, UtilityTrimBin
<1> HIDE DEF o, w
<1>3. /\ t \in Seq(Byte) /\ Len(t) <= 4 /\ BytesValue(t) = n
      /\ t # <<>> => t[1] # 0
  BY <1>1, TrimCase, ValueOfTrimmed, Ranges
<1>4. <<0>> \in Seq(Byte) /\ Len(<<0>>) = 1
  BY ZeroTexts
<1> HIDE DEF t
<1>5. CASE t = <<>>
  <2>1. n = 0
    BY <1>3, <1>5, NoBytes
  <2>2. w = <<0>>
    BY <1>2, <1>5
  <2>3. w \in Seq(Byte) /\ Len(w) # 0 /\ Len(w) <= 4 /\ BytesValue(w) = n
    BY <1>4, <2>1, <2>2, NoBytes
  <2> QED BY <2>1, <2>2, <2>3 DEF w
<1>6. CASE t # <<>>
  <2>1. w = t /\ Len(t) # 0
    BY <1>2, <1>3, <1>6, EmptySeq
  <2>2. w \in Seq(Byte) /\ Len(w) # 0 /\ Len(w) <= 4 /\ BytesValue(w) = n /\ w[1] # 0
    BY <1>3, <1>6, <2>1
  <2> QED BY <1>6, <2>1, <2>2 DEF w, t, o
<1> QED BY <1>5, <1>6

(* At most three bytes. *)
LEMMA SmallValue ==
    ASSUME NEW s \in Seq(Byte), Len(s) <= 3
    PROVE  BytesValue(s) \in Nat /\ BytesValue(s) < 16777216
<1> DEFINE n == Len(s)
           v == Values256(s)
<1>1. n \in Nat /\ n <= 3 /\ BytesValue(s) = v[n] /\ v[0] = 0
      /\ \A i \in 1..n : v[i] = 256 * v[i - 1] + s[i]
  BY Values256Facts
<1>2. \A i \in 1..n : s[i] \in Nat /\ s[i] < 256
  <2>1. \A i \in 1..n : s[i] \in Byte
    BY ElementOfSeq
  <2>2. \A b \in Byte : b \in Nat /\ b < 256
    BY DEF Byte
  <2> QED BY <2>1, <2>2
<1> HIDE DEF n, v
<1>3. n = 0 \/ n = 1 \/ n = 2 \/ n = 3
  BY <1>1
<1>4. 1 <= n => v[1] \in Nat /\ v[1] < 256
  BY <1>1, <1>2
<1>5. 2 <= n => v[2] \in Nat /\ v[2] < 65536
  <2>1. SUFFICES ASSUME 2 <= n PROVE v[2] \in Nat /\ v[2] < 65536
    OBVIOUS
  <2>2. 2 \in 1..n
    BY <1>1, <2>1
  <2>3. v[2] = 256 * v[1] + s[2] /\ s[2] \in Nat /\ s[2] < 256
    BY <1>1, <1>2, <2>2
  <2> QED BY <1>1, <1>4, <2>1, <2>3
<1>6. 3 <= n => v[3] \in Nat /\ v[3] < 16777216
  <2>1. SUFFICES ASSUME 3 <= n PROVE v[3] \in Nat /\ v[3] < 16777216
    OBVIOUS
  <2>2. 3 \in 1..n
    BY <1>1, <2>1
  <2>3. v[3] = 256 * v[2] + s[3] /\ s[3] \in Nat /\ s[3] < 256
    BY <1>1, <1>2, <2>2
  <2> QED BY <1>1, <1>5, <2>1, <2>3
<1> QED BY <1>1, <1>3, <1>4, <1>5, <1>6

(* A number of 64 bits given by its halves: as 32 bits when the high half  *)
(* is 0, and with all four bytes of the low half otherwise.                *)
LEMMA BigendHalves ==
    ASSUME NEW n \in Nat, n < TwoTo32
    PROVE  /\ UtilityUint64ToBigend(0, n, TRUE) = UtilityUint32ToBigend(n, TRUE)
           /\ n # 0 => UtilityUint64ToBigend(n, n, TRUE) = UtilityUint32ToBigend(n, TRUE) \o Octets(n, 4)
<1> DEFINE o == Octets(n, 4)
           z == Octets(0, 4)
           t == TrimZeros(o)
<1>1. o \in Seq(Byte) /\ z \in Seq(Byte) /\ Len(z) = 4
  BY OctetsFacts
<1>2. \A i \in 1..4 : z[i] = 0
  <2>1. TAKE i \in 1..4
  <2>2. z[i] = (0 \div 256 ^ (4 - i)) % 256
    BY DEF Octets
  <2>3. 4 - i \in Exponent
    BY DEF Exponent
  <2>4. 256 ^ (4 - i) \in Nat \ {0}
    BY <2>3, Powers
  <2>5. \A d \in Nat \ {0} : (0 \div d) % 256 = 0
    OBVIOUS
  <2> HIDE DEF z
  <2> QED BY <2>2, <2>4, <2>5
<1>3. /\ UtilityUint64ToBigend(0, n, TRUE) = UtilityTrimBin(z \o o, TRUE, FALSE)
      /\ UtilityUint64ToBigend(n, n, TRUE) = UtilityTrimBin(o \o o, TRUE, FALSE)
      /\ UtilityUint32ToBigend(n, TRUE) = UtilityTrimBin(o, TRUE, FALSE)
  BY DEF UtilityUint64ToBigend, UtilityUint32ToBigend
<1>4. \A s : UtilityTrimBin(s, TRUE, FALSE) = IF TrimZeros(s) # <<>> THEN TrimZeros(s) ELSE <<0>>
  BY DEF UtilityTrimBin
<1> HIDE DEF o, z
<1>5. TrimZeros(z \o o) = t
  BY <1>1, <1>2, TrimPadded
<1>6. n # 0 => t # <<>>
  BY BigendFacts DEF t, o
<1>7. ASSUME t # <<>> PROVE TrimZeros(o \o o) = t \o o /\ t \o o # <<>>
  <2>1. TrimZeros(o \o o) = t \o o
    BY <1>1, <1>7, TrimJoined
  <2>2. t \in Seq(Byte)
    BY <1>1, TrimCase, Ranges
  <2> HIDE DEF t
  <2>3. Len(t) # 0 /\ Len(t) \in Nat /\ Len(o) \in Nat
    BY <1>1, <1>7, <2>2, EmptySeq
  <2>4. Len(t \o o) = Len(t) + Len(o)
    BY <1>1, <2>2, Joined
  <2>5. Len(t \o o) # Len(<<>>)
    BY <2>3, <2>4
  <2> QED BY <2>1, <2>5
<1> HIDE DEF t
<1>8. UtilityUint64ToBigend(0, n, TRUE) = UtilityUint32ToBigend(n, TRUE)
  BY <1>3, <1>4, <1>5 DEF t
<1>9. ASSUME n # 0 PROVE UtilityUint64ToBigend(n, n, TRUE) = UtilityUint32ToBigend(n, TRUE) \o o
  <2>1. t # <<>> /\ TrimZeros(o \o o) = t \o o /\ t \o o # <<>>
    BY <1>6, <1>7, <1>9
  <2>2. UtilityUint64ToBigend(n, n, TRUE) = t \o o
    BY <1>3, <1>4, <2>1, Zenon
  <2>3. UtilityUint32ToBigend(n, TRUE) = t
    BY <1>3, <1>4, <2>1 DEF t
  <2> QED BY <2>2, <2>3
<1> QED BY <1>8, <1>9 DEF o

(* To network order and back. *)
LEMMA SwappedTwice ==
    ASSUME NEW w \in Seq(Byte), Len(w) = 4
    PROVE  UtilityNtohl(UtilityHtonl(w)) = w
<1> DEFINE h == UtilityHtonl(w)
           b == UtilityNtohl(h)
<1>1. 4 \div 2 = 2 /\ 4 + 1 = 5
  OBVIOUS
<1>2. h = [i \in 1..4 |-> IF i <= 2 \/ i > 4 - 2 THEN w[4 + 1 - i] ELSE w[i]]
  BY <1>1 DEF UtilityHtonl, UtilityChangeEndian
<1>3. \A i \in 1..4 : h[i] = w[5 - i]
  BY <1>1, <1>2
<1> HIDE DEF h
<1>4. b = [i \in 1..4 |-> h[5 - i]]
  BY DEF UtilityNtohl
<1>5. \A i \in 1..4 : b[i] = w[i]
  <2>1. TAKE i \in 1..4
  <2>2. 5 - i \in 1..4 /\ 5 - (5 - i) = i
    OBVIOUS
  <2> QED BY <1>3, <1>4, <2>2
<1>6. \A i \in 1..4 : w[i] \in Byte
  BY ElementOfSeq
<1>7. b = [i \in 1..4 |-> b[i]] /\ \A i \in 1..4 : b[i] \in Byte
  BY <1>4, <1>5, <1>6
<1> HIDE DEF b
<1>8. 4 \in Nat
  OBVIOUS
<1>9. b \in Seq(Byte) /\ Len(b) = 4
  BY <1>7, <1>8, Built
<1>10. b = w
  BY <1>5, <1>8, <1>9, SameSeq
<1> QED BY <1>10 DEF b, h

(***************************************************************************)
(* BigendKeepsValue for all data: the big-endian form of an integer has    *)
(* its value and no leading zero, given as 32 bits or as two halves of 64  *)
(* (UtilityUint32ToBigend, UtilityUint64ToBigend).                         *)
(***************************************************************************)
THEOREM BigendAlwaysKeepsValue == DataSpec => []BigendKeepsValue
<1>1. DataInv => BigendKeepsValue
  <2> SUFFICES ASSUME DataInv, NEW k \in 1..3
               PROVE  LET n     == BytesValue(Stretch(k))
                          short == UtilityUint32ToBigend(n, TRUE)
                          long(high) == UtilityUint64ToBigend(high, n, TRUE)
                      IN  /\ BytesValue(short) = n /\ (short[1] = 0 => short = <<0>>)
                          /\ long(0) = short
                          /\ n > 0 => long(n) = short \o Octets(n, 4)
                          /\ UtilityNtohl(UtilityHtonl(Octets(n, 4))) = Octets(n, 4)
    BY DEF BigendKeepsValue
  <2> DEFINE n == BytesValue(Stretch(k))
  <2>1. Stretch(k) \in Seq(Byte) /\ Len(Stretch(k)) <= 3
    BY StretchFacts
  <2>2. n \in Nat /\ n < TwoTo32
    BY <2>1, SmallValue DEF TwoTo32
  <2> HIDE DEF n
  <2>3. n > 0 => n # 0
    BY <2>2
  <2>4. BytesValue(UtilityUint32ToBigend(n, TRUE)) = n
        /\ (UtilityUint32ToBigend(n, TRUE)[1] = 0 => UtilityUint32ToBigend(n, TRUE) = <<0>>)
    BY <2>2, BigendFacts
  <2>5. /\ UtilityUint64ToBigend(0, n, TRUE) = UtilityUint32ToBigend(n, TRUE)
        /\ n # 0 => UtilityUint64ToBigend(n, n, TRUE) = UtilityUint32ToBigend(n, TRUE) \o Octets(n, 4)
    BY <2>2, BigendHalves
  <2>6. UtilityNtohl(UtilityHtonl(Octets(n, 4))) = Octets(n, 4)
    BY <2>2, OctetsFacts, SwappedTwice
  <2> QED BY <2>3, <2>4, <2>5, <2>6 DEF n
<1> QED BY <1>1, DataAlways, PTL

-----------------------------------------------------------------------------
(* RLP.                                                                    *)

(* h announces n bytes: by itself, or with the number w of them behind it. *)
Announces(h, base, n, w) ==
    /\ h \in Seq(Byte) /\ Len(h) = HeadSize(n) /\ Len(h) # 0 /\ Len(h) <= 5
    /\ n <= 55 => h = <<base + n>> /\ h[1] = base + n /\ Len(h) = 1
    /\ ~(n <= 55) => /\ h = <<base + 55 + Len(w)>> \o w
                     /\ h[1] = base + 55 + Len(w) /\ Len(h) = 1 + Len(w)

LEMMA HeadFacts ==
    ASSUME NEW base \in Nat, base <= 192, NEW n \in Nat, n < TwoTo32
    PROVE  Announces(RlpHead(base, n), base, n, UtilityUint32ToBigend(n, TRUE))
<1> DEFINE h == RlpHead(base, n)
           w == UtilityUint32ToBigend(n, TRUE)
<1>1. w \in Seq(Byte) /\ Len(w) \in Nat /\ Len(w) # 0 /\ Len(w) <= 4
  <2>1. w \in Seq(Byte) /\ Len(w) # 0 /\ Len(w) <= 4
    BY BigendFacts
  <2> HIDE DEF w
  <2> QED BY <2>1
<1>2. h = IF n <= 55 THEN <<base + n>> ELSE <<base + 55 + Len(w)>> \o w
  BY DEF RlpHead
<1>3. HeadSize(n) = IF n <= 55 THEN 1 ELSE 1 + Len(w)
  BY DEF HeadSize
<1> HIDE DEF h, w
<1>4. \A b \in Byte : <<b>> \in Seq(Byte) /\ Len(<<b>>) = 1 /\ <<b>>[1] = b
  OBVIOUS
<1>5. CASE n <= 55
  <2>1. base + n \in Byte
    BY <1>5 DEF Byte
  <2>2. h = <<base + n>> /\ HeadSize(n) = 1
    BY <1>2, <1>3, <1>5
  <2>3. h \in Seq(Byte) /\ Len(h) = 1 /\ h[1] = base + n
    BY <1>4, <2>1, <2>2
  <2>4. Len(h) = HeadSize(n) /\ Len(h) # 0 /\ Len(h) <= 5
    BY <2>2, <2>3
  <2> QED BY <1>5, <2>2, <2>3, <2>4, Zenon DEF h, w, Announces
<1>6. CASE ~(n <= 55)
  <2> DEFINE b == base + 55 + Len(w)
             one == <<b>>
  <2>1. b \in Byte
    <3>1. b <= 255 /\ b \in Nat
      BY <1>1
    <3> HIDE DEF b
    <3> QED BY <3>1 DEF Byte
  <2>2. h = one \o w /\ HeadSize(n) = 1 + Len(w)
    BY <1>2, <1>3, <1>6
  <2>3. one \in Seq(Byte) /\ Len(one) = 1 /\ one[1] = b
    BY <1>4, <2>1
  <2> HIDE DEF one, b
  <2>4. h \in Seq(Byte) /\ Len(h) = 1 + Len(w) /\ h[1] = b
    <3>1. /\ one \o w \in Seq(Byte) /\ Len(one \o w) = Len(one) + Len(w)
          /\ \A i \in 1..Len(one) : (one \o w)[i] = one[i]
      BY <1>1, <2>3, Joined
    <3>2. 1 \in 1..Len(one)
      BY <2>3
    <3> QED BY <2>2, <2>3, <3>1, <3>2
  <2>5. Len(h) # 0 /\ Len(h) <= 5
    BY <1>1, <2>4
  <2> QED BY <1>6, <2>2, <2>4, <2>5 DEF h, w, one, b, Announces
<1> QED BY <1>5, <1>6

LEMMA StringFacts ==
    ASSUME NEW s \in Seq(Byte), Len(s) < TwoTo32
    PROVE  /\ RlpString(s) \in Seq(Byte) /\ Len(RlpString(s)) = StringSize(s)
           /\ StringSize(s) \in Nat /\ StringSize(s) <= Len(s) + 5
           /\ Len(s) <= StringSize(s)
<1> DEFINE h == RlpHead(128, Len(s))
<1>1. Len(s) \in Nat
  OBVIOUS
<1>2. h \in Seq(Byte) /\ Len(h) = HeadSize(Len(s)) /\ Len(h) # 0 /\ Len(h) <= 5
  <2>1. 128 \in Nat /\ 128 <= 192
    OBVIOUS
  <2> DEFINE b == 128
  <2> HIDE DEF b
  <2>2. b \in Nat /\ b <= 192
    BY <2>1 DEF b
  <2>3. Announces(RlpHead(b, Len(s)), b, Len(s), UtilityUint32ToBigend(Len(s), TRUE))
    BY <1>1, <2>2, HeadFacts
  <2> QED BY <2>3 DEF Announces, b
<1>3. RlpString(s) = IF IsItself(s) THEN s ELSE h \o s
  BY DEF RlpString
<1>4. StringSize(s) = IF IsItself(s) THEN 1 ELSE HeadSize(Len(s)) + Len(s)
  BY DEF StringSize
<1> HIDE DEF h
<1>5. h \o s \in Seq(Byte) /\ Len(h \o s) = Len(h) + Len(s)
  BY <1>2, Joined
<1>6. Len(h) \in Nat
  BY <1>2
<1>7. CASE IsItself(s)
  <2>1. Len(s) = 1
    BY <1>7 DEF IsItself
  <2> QED BY <1>3, <1>4, <1>7, <2>1
<1>8. CASE ~IsItself(s)
  BY <1>1, <1>2, <1>3, <1>4, <1>5, <1>6, <1>8
<1> QED BY <1>7, <1>8

(* The decoder takes the string that stands at a place of the stream.      *)
LEMMA RlpItemRead ==
    ASSUME NEW item \in Seq(Byte), Len(item) < TwoTo32, NEW s \in Seq(Byte), NEW at \in Nat,
           Holds(s, at, RlpString(item))
    PROVE  RlpItemAt(s, at + 1) = [item |-> item, next |-> at + 1 + Len(RlpString(item))]
<1> DEFINE n == Len(item)
           h == RlpHead(128, n)
           w == UtilityUint32ToBigend(n, TRUE)
           i == at + 1
           longer == s[i] - 183
           from   == IF s[i] > 183 THEN i + longer + 1 ELSE i + 1
           length == IF s[i] > 183 THEN BytesValue(SubSeq(s, i + 1, i + longer)) ELSE s[i] - 128
<1>1. n \in Nat /\ n < TwoTo32
  OBVIOUS
<1>2. RlpItemAt(s, i) = IF s[i] < 128 THEN [item |-> <<s[i]>>, next |-> i + 1]
                        ELSE [item |-> SubSeq(s, from, from + length - 1), next |-> from + length]
  BY DEF RlpItemAt
<1>3. CASE IsItself(item)
  <2>1. RlpString(item) = item /\ n = 1 /\ item[1] <= 127 /\ item[1] \in Nat
    <3>1. n = 1 /\ item[1] <= 127 /\ RlpString(item) = item
      BY <1>3 DEF IsItself, RlpString
    <3>2. item[1] \in Byte
      <4>1. 1 \in 1..Len(item)
        BY <3>1
      <4> QED BY <4>1, ElementOfSeq
    <3> QED BY <3>1, <3>2, Ranges
  <2>2. s[i] = item[1]
    BY <2>1 DEF Holds
  <2>3. <<s[i]>> = item
    <3>1. item = <<item[1]>>
      BY <2>1
    <3> QED BY <2>2, <3>1
  <2>4. s[i] < 128
    BY <2>1, <2>2
  <2>5. RlpItemAt(s, i) = [item |-> <<s[i]>>, next |-> i + 1]
    BY <1>2, <2>4
  <2> QED BY <2>1, <2>3, <2>5
<1>4. CASE ~IsItself(item)
  <2>1. RlpString(item) = h \o item
    BY <1>4 DEF RlpString
  <2>2. /\ h \in Seq(Byte) /\ Len(h) # 0 /\ Len(h) <= 5
        /\ n <= 55 => h = <<128 + n>> /\ h[1] = 128 + n /\ Len(h) = 1
        /\ ~(n <= 55) => /\ h = <<128 + 55 + Len(w)>> \o w
                         /\ h[1] = 128 + 55 + Len(w) /\ Len(h) = 1 + Len(w)
    <3> DEFINE b == 128
    <3> HIDE DEF n
    <3>1. b \in Nat /\ b <= 192
      OBVIOUS
    <3> HIDE DEF b
    <3>2. Announces(RlpHead(b, n), b, n, UtilityUint32ToBigend(n, TRUE))
      BY <1>1, <3>1, HeadFacts
    <3> QED BY <3>2 DEF Announces, b
  <2>3. w \in Seq(Byte) /\ Len(w) \in Nat /\ Len(w) # 0 /\ Len(w) <= 4 /\ BytesValue(w) = n
    <3> HIDE DEF n
    <3>1. w \in Seq(Byte) /\ Len(w) # 0 /\ Len(w) <= 4 /\ BytesValue(w) = n
      BY <1>1, BigendFacts
    <3> HIDE DEF w
    <3> QED BY <3>1
  <2> HIDE DEF h, w
  <2>4. Holds(s, at, h) /\ Holds(s, at + Len(h), item) /\ Len(h \o item) = Len(h) + n
    BY <2>1, <2>2, HoldsParts, Joined
  <2>5. s[i] = h[1]
    BY <2>2, <2>4 DEF Holds
  <2>6. SubSeq(s, at + Len(h) + 1, at + Len(h) + n) = item
    <3> DEFINE o == at + Len(h)
    <3>1. o \in Nat /\ Holds(s, o, item)
      BY <2>2, <2>4
    <3> HIDE DEF o
    <3>2. SubSeq(s, o + 1, o + n) = item
      BY <3>1, HoldsSlice
    <3> QED BY <3>2 DEF o
  <2>7. from = at + Len(h) + 1 /\ length = n /\ ~(s[i] < 128)
    <3>1. CASE n <= 55
      <4>1. s[i] = 128 + n /\ Len(h) = 1
        BY <2>2, <2>5, <3>1
      <4> QED BY <1>1, <3>1, <4>1
    <3>2. CASE ~(n <= 55)
      <4>1. s[i] = 183 + Len(w) /\ Len(h) = 1 + Len(w) /\ h = <<128 + 55 + Len(w)>> \o w
        BY <2>2, <2>3, <2>5, <3>2
      <4>2. s[i] > 183 /\ longer = Len(w) /\ ~(s[i] < 128)
        BY <2>3, <4>1
      <4>3. SubSeq(s, i + 1, i + Len(w)) = w
        <5> DEFINE one == <<128 + 55 + Len(w)>>
        <5>1. one \in Seq(Byte) /\ Len(one) = 1
          <6> DEFINE b == 128 + 55 + Len(w)
          <6>1. b \in Nat /\ b <= 255
            BY <2>3
          <6> HIDE DEF b
          <6>2. b \in Byte
            BY <6>1 DEF Byte
          <6>3. <<b>> \in Seq(Byte) /\ Len(<<b>>) = 1
            BY <6>2
          <6> QED BY <6>3 DEF b
        <5> HIDE DEF one
        <5>2. Holds(s, at, one \o w)
          BY <2>4, <4>1 DEF one
        <5>3. Holds(s, at + Len(one), w)
          BY <2>3, <5>1, <5>2, HoldsParts
        <5>4. i \in Nat /\ Holds(s, i, w)
          BY <5>1, <5>3
        <5> HIDE DEF i
        <5> QED BY <2>3, <5>4, HoldsSlice
      <4>4. length = BytesValue(SubSeq(s, i + 1, i + longer))
        BY <4>2
      <4>5. length = n
        BY <2>3, <4>2, <4>3, <4>4
      <4>6. from = i + longer + 1
        BY <4>2
      <4>7. from = at + Len(h) + 1
        BY <2>3, <4>1, <4>2, <4>6
      <4> QED BY <4>2, <4>5, <4>7
    <3> QED BY <3>1, <3>2
  <2>8. RlpItemAt(s, i) = [item |-> SubSeq(s, from, from + length - 1), next |-> from + length]
    BY <1>2, <2>7
  <2> HIDE DEF from, length
  <2>9. from + length - 1 = at + Len(h) + n /\ from + length = at + 1 + Len(h \o item)
    BY <1>1, <2>2, <2>4, <2>7
  <2>10. SubSeq(s, from, from + length - 1) = item
    BY <2>6, <2>7, <2>9
  <2> QED BY <2>1, <2>8, <2>9, <2>10
<1> QED BY <1>3, <1>4

LEMMA SizeIsNumber ==
    ASSUME NEW s \in Seq(Byte)
    PROVE  StringSize(s) \in Nat /\ Len(s) <= StringSize(s)
<1> DEFINE n == Len(s)
           o == Octets(n, 4)
           w == UtilityUint32ToBigend(n, TRUE)
<1>1. n \in Nat
  OBVIOUS
<1>2. o \in Seq(Byte)
  BY <1>1, OctetsFacts
<1>3. w = IF TrimZeros(o) # <<>> THEN TrimZeros(o) ELSE <<0>>
  BY DEF UtilityUint32ToBigend, UtilityTrimBin
<1>4. StringSize(s) = IF IsItself(s) THEN 1 ELSE (IF n <= 55 THEN 1 ELSE 1 + Len(w)) + n
  BY DEF StringSize, HeadSize
<1> HIDE DEF o, w
<1>5. TrimZeros(o) \in Seq(Byte) /\ <<0>> \in Seq(Byte)
  BY <1>2, TrimCase, ZeroTexts, Ranges
<1>6. w \in Seq(Byte)
  BY <1>3, <1>5
<1>7. Len(w) \in Nat
  BY <1>6
<1>8. IsItself(s) => n = 1
  BY DEF IsItself
<1> HIDE DEF n
<1>9. StringSize(s) \in Nat /\ n <= StringSize(s)
  BY <1>1, <1>4, <1>7, <1>8
<1> QED BY <1>9 DEF n

(* The decoder's recursive function by name: there is one, and a function  *)
(* that takes its steps has its values.                                    *)
RlpBegun(stream) == [items |-> <<>>, next |-> IF stream[1] > 247 THEN stream[1] - 245 ELSE 2]
RlpStep(stream, before) ==
    LET one == RlpItemAt(stream, before.next)
    IN  [items |-> Append(before.items, one.item), next |-> one.next]
ReadsOf(stream, count) ==
    CHOOSE read : read = [k \in 0 .. count |->
        IF k = 0 THEN RlpBegun(stream) ELSE RlpStep(stream, read[k - 1])]

LEMMA ItemsRead == \A stream, count : RlpItems(stream, count) = ReadsOf(stream, count)[count]
  BY DEF RlpItems, ReadsOf, RlpBegun, RlpStep

LEMMA ReadsAre ==
    ASSUME NEW stream, NEW n \in Nat, NEW g, g = [k \in 0..n |-> g[k]],
           g[0] = RlpBegun(stream), \A k \in 1..n : g[k] = RlpStep(stream, g[k - 1])
    PROVE  ReadsOf(stream, n)[n] = g[n]
<1> DEFINE a == ReadsOf(stream, n)
           T == {k \in 0..n : a[k] = g[k]}
<1>1. \A k \in 0..n : k # 0 => k \in 1..n
  OBVIOUS
<1>2. g = [k \in 0..n |-> IF k = 0 THEN RlpBegun(stream) ELSE RlpStep(stream, g[k - 1])]
  <2>1. \A k \in 0..n : g[k] = IF k = 0 THEN RlpBegun(stream) ELSE RlpStep(stream, g[k - 1])
    BY <1>1
  <2> QED BY <2>1
<1>3. a = [k \in 0..n |-> IF k = 0 THEN RlpBegun(stream) ELSE RlpStep(stream, a[k - 1])]
  BY <1>2 DEF ReadsOf
<1> HIDE DEF a
<1>4. a[0] = RlpBegun(stream) /\ \A k \in 1..n : a[k] = RlpStep(stream, a[k - 1])
  <2>1. 0 \in 0..n /\ \A k \in 1..n : k \in 0..n /\ k # 0
    OBVIOUS
  <2> QED BY <1>3, <2>1
<1>5. 0 \in T
  BY <1>4
<1>6. ASSUME NEW k \in 1..n, k - 1 \in T PROVE k \in T
  <2>1. a[k - 1] = g[k - 1] /\ k \in 0..n
    BY <1>6
  <2> QED BY <1>4, <2>1
<1> HIDE DEF T
<1>7. \A k \in 0..n : k \in T
  BY <1>5, <1>6, InductionTo
<1>8. n \in 0..n
  OBVIOUS
<1> QED BY <1>7, <1>8 DEF T, a

(***************************************************************************)
(* Any strings that are encoded as a list in RLP are what a decoder finds, *)
(* one after the other up to the end of the stream, and the size computed  *)
(* before is the size of the stream (RlpEncode,                            *)
(* RlpRecursiveCalcEncodingSize).                                          *)
(***************************************************************************)
THEOREM RlpReadsBack ==
    ASSUME NEW items \in Seq(Seq(Byte)), ListBody(items) < TwoTo32
    PROVE  /\ RlpEncode(items) \in Seq(Byte) /\ RlpEncode(items) # <<>>
           /\ IsListOf(RlpEncode(items), items)
<1> DEFINE n == Len(items)
           parts == [i \in DOMAIN items |-> RlpString(items[i])]
           sizes == [i \in DOMAIN items |-> StringSize(items[i])]
           body == ListBody(items)
           flat == FlattenSeq(parts)
           head == RlpHead(192, body)
           stream == RlpEncode(items)
           off(k) == Len(head) + Len(Leading(parts, k))
           g == [k \in 0..n |-> [items |-> [j \in 1..k |-> items[j]], next |-> off(k) + 1]]
<1>1. n \in Nat /\ DOMAIN items = 1..n /\ \A i \in 1..n : items[i] \in Seq(Byte)
  BY ElementOfSeq
<1>2. sizes \in Seq(Nat) /\ Len(sizes) = n /\ \A i \in 1..n : sizes[i] = StringSize(items[i])
  <2>1. sizes = [i \in 1..n |-> sizes[i]] /\ \A i \in 1..n : sizes[i] = StringSize(items[i])
    BY <1>1
  <2>2. \A i \in 1..n : StringSize(items[i]) \in Nat
    BY <1>1, SizeIsNumber
  <2>3. n \in Nat /\ \A i \in 1..n : sizes[i] \in Nat
    BY <1>1, <2>1, <2>2
  <2> HIDE DEF sizes, n
  <2>4. sizes \in Seq(Nat) /\ Len(sizes) = n
    BY <2>1, <2>3, Built
  <2> QED BY <2>1, <2>4
<1>3. body = Total(sizes)
  BY DEF ListBody
<1>4. body \in Nat /\ body < TwoTo32 /\ \A i \in 1..n : Len(items[i]) < TwoTo32
  <2> HIDE DEF sizes
  <2>1. Total(sizes) \in Nat /\ \A i \in 1..n : sizes[i] <= Total(sizes)
    BY <1>2, PartOfSum
  <2>2. ASSUME NEW i \in 1..n PROVE Len(items[i]) < TwoTo32
    <3>1. Len(items[i]) <= StringSize(items[i]) /\ StringSize(items[i]) \in Nat
      BY <1>1, SizeIsNumber
    <3>2. StringSize(items[i]) <= body /\ body \in Nat
      BY <1>2, <1>3, <2>1
    <3>3. Len(items[i]) \in Nat
      BY <1>1
    <3> HIDE DEF body
    <3>4. body < TwoTo32
      BY DEF body
    <3> QED BY <3>1, <3>2, <3>3, <3>4 DEF TwoTo32
  <2> QED BY <1>3, <2>1, <2>2
<1>5. \A i \in 1..n : RlpString(items[i]) \in Seq(Byte) /\ Len(RlpString(items[i])) = StringSize(items[i])
  BY <1>1, <1>4, StringFacts
<1>6. parts \in Seq(Seq(Byte)) /\ Len(parts) = n /\ \A i \in 1..n : parts[i] = RlpString(items[i])
  <2>1. parts = [i \in 1..n |-> parts[i]] /\ \A i \in 1..n : parts[i] = RlpString(items[i])
    BY <1>1
  <2> HIDE DEF parts, n
  <2>2. \A i \in 1..n : parts[i] \in Seq(Byte)
    BY <1>5, <2>1
  <2>3. parts \in Seq(Seq(Byte)) /\ Len(parts) = n
    BY <1>1, <2>1, <2>2, Built
  <2> QED BY <2>1, <2>3
<1>7. Announces(head, 192, body, UtilityUint32ToBigend(body, TRUE))
  <2> HIDE DEF body
  <2> DEFINE b == 192
  <2>1. b \in Nat /\ b <= 192
    OBVIOUS
  <2> HIDE DEF b
  <2>2. Announces(RlpHead(b, body), b, body, UtilityUint32ToBigend(body, TRUE))
    BY <1>4, <2>1, HeadFacts
  <2> QED BY <2>2 DEF b
<1>8. stream = head \o flat
  BY DEF RlpEncode
<1>9. head \in Seq(Byte) /\ Len(head) \in Nat /\ Len(head) # 0 /\ Len(head) = HeadSize(body)
  <2>1. head \in Seq(Byte) /\ Len(head) # 0 /\ Len(head) = HeadSize(body)
    BY <1>7 DEF Announces
  <2> HIDE DEF head
  <2> QED BY <2>1
<1> HIDE DEF parts, sizes, head, body
<1>10. /\ flat = Leading(parts, n) /\ Leading(parts, 0) = <<>>
       /\ \A i \in 0..n : Leading(parts, i) \in Seq(Byte)
  BY <1>6, LeadingFacts
<1>11. \A i \in 1..n : /\ Holds(flat, Len(Leading(parts, i - 1)), parts[i])
                       /\ Len(Leading(parts, i)) = Len(Leading(parts, i - 1)) + Len(parts[i])
  BY <1>6, PartStands
<1>12. flat \in Seq(Byte) /\ Len(flat) = body
  <2>1. n \in 0..n
    BY <1>1
  <2>2. \A i \in 1..n : sizes[i] = Len(parts[i])
    BY <1>2, <1>5, <1>6
  <2>3. Len(FlattenSeq(parts)) = Total(sizes)
    BY <1>2, <1>6, <2>2, LengthOfJoined
  <2> QED BY <1>3, <1>10, <2>1, <2>3
<1> HIDE DEF flat
<1>13. /\ stream \in Seq(Byte) /\ Len(stream) = Len(head) + Len(flat)
       /\ Holds(stream, 0, head) /\ Holds(stream, Len(head), flat)
  BY <1>8, <1>9, <1>12, HoldsJoined
<1> HIDE DEF stream
<1>14. \A k \in 0..n : off(k) \in Nat
  <2>1. \A k \in 0..n : Len(Leading(parts, k)) \in Nat
    BY <1>10
  <2> QED BY <1>9, <2>1
<1>15. \A i \in 1..n : Holds(stream, off(i - 1), parts[i])
  <2>1. TAKE i \in 1..n
  <2> DEFINE m == i - 1
             o == Len(Leading(parts, m))
  <2>2. m \in 0..n
    BY <1>1
  <2>3. o \in Nat
    BY <1>10, <2>2
  <2>4. Holds(flat, o, parts[i]) /\ parts[i] \in Seq(Byte)
    BY <1>5, <1>6, <1>11
  <2> HIDE DEF o
  <2>5. Holds(stream, Len(head) + o, parts[i])
    BY <1>9, <1>12, <1>13, <2>3, <2>4, HoldsWithin
  <2> QED BY <2>5 DEF o
<1>16. g[0] = RlpBegun(stream)
  <2>1. 0 \in 0..n
    BY <1>1
  <2>2. off(0) = Len(head)
    <3>1. Len(Leading(parts, 0)) = 0
      BY <1>10
    <3> QED BY <1>9, <3>1
  <2>3. stream[1] = head[1]
    <3>1. 1 \in 1..Len(head) /\ 0 + 1 = 1
      BY <1>9
    <3> QED BY <1>13, <3>1 DEF Holds
  <2>4. (IF stream[1] > 247 THEN stream[1] - 245 ELSE 2) = Len(head) + 1
    <3> DEFINE w == UtilityUint32ToBigend(body, TRUE)
    <3>1. /\ body <= 55 => head[1] = 192 + body /\ Len(head) = 1
          /\ ~(body <= 55) => head[1] = 192 + 55 + Len(w) /\ Len(head) = 1 + Len(w)
      BY <1>7 DEF Announces
    <3>2. w \in Seq(Byte) /\ Len(w) # 0
      BY <1>4, BigendFacts
    <3> HIDE DEF w
    <3>3. Len(w) \in Nat
      BY <3>2
    <3>4. body \in Nat
      BY <1>4
    <3>5. CASE body <= 55
      <4>1. stream[1] = 192 + body /\ Len(head) = 1
        BY <2>3, <3>1, <3>5
      <4> HIDE DEF body
      <4> QED BY <3>4, <3>5, <4>1
    <3>6. CASE ~(body <= 55)
      <4>1. stream[1] = 192 + 55 + Len(w) /\ Len(head) = 1 + Len(w)
        BY <2>3, <3>1, <3>6
      <4>2. Len(w) # 0
        BY <3>2, <3>3, EmptySeq
      <4> QED BY <3>3, <4>1, <4>2
    <3> QED BY <3>5, <3>6
  <2>5. [j \in 1..0 |-> items[j]] = <<>>
    <3>1. 1..0 = {}
      OBVIOUS
    <3> DEFINE e == [j \in 1..0 |-> items[j]]
    <3>2. e = [j \in {} |-> e[j]]
      BY <3>1
    <3> HIDE DEF e
    <3>3. e = <<>>
      BY <3>2
    <3> QED BY <3>3 DEF e
  <2>6. g[0] = [items |-> [j \in 1..0 |-> items[j]], next |-> off(0) + 1]
    BY <2>1
  <2> HIDE DEF off, g
  <2> QED BY <2>2, <2>4, <2>5, <2>6 DEF RlpBegun
<1>17. ASSUME NEW i \in 1..n PROVE g[i] = RlpStep(stream, g[i - 1])
  <2> DEFINE m == i - 1
             o == off(m)
             taken == [j \in 1..m |-> items[j]]
  <2>1. m \in 0..n /\ i \in 0..n /\ m \in Nat /\ m + 1 = i
    BY <1>1
  <2>2. g[m] = [items |-> taken, next |-> o + 1]
    BY <2>1
  <2>3. g[i] = [items |-> [j \in 1..i |-> items[j]], next |-> off(i) + 1]
    BY <2>1
  <2>4. o \in Nat /\ Holds(stream, o, RlpString(items[i])) /\ items[i] \in Seq(Byte)
        /\ Len(items[i]) < TwoTo32
    BY <1>1, <1>4, <1>6, <1>14, <1>15, <2>1
  <2>5. off(i) = o + Len(RlpString(items[i]))
    <3>1. Len(Leading(parts, i)) = Len(Leading(parts, m)) + Len(RlpString(items[i]))
      BY <1>6, <1>11
    <3>2. Len(Leading(parts, m)) \in Nat /\ Len(RlpString(items[i])) \in Nat
      BY <1>5, <1>10, <2>1
    <3> HIDE DEF m
    <3> QED BY <1>9, <3>1, <3>2
  <2> HIDE DEF o, off, g
  <2>6. RlpItemAt(stream, o + 1) = [item |-> items[i], next |-> o + 1 + Len(RlpString(items[i]))]
    BY <1>13, <2>4, RlpItemRead
  <2>7. Append(taken, items[i]) = [j \in 1..i |-> items[j]]
    <3> DEFINE x == items[i]
    <3>1. items[m + 1] = x
      BY <2>1
    <3> HIDE DEF x, m
    <3>2. Append(taken, x) = [j \in 1..m + 1 |-> items[j]]
      BY <2>1, <3>1, AppendedFunction
    <3> QED BY <2>1, <3>2 DEF x
  <2>8. o + 1 + Len(RlpString(items[i])) = off(i) + 1
    <3>1. Len(RlpString(items[i])) \in Nat
      BY <1>5
    <3> QED BY <2>4, <2>5, <3>1
  <2> DEFINE x == items[i]
             e == o + 1 + Len(RlpString(items[i]))
             one == RlpItemAt(stream, o + 1)
             p == o + 1
             b == g[m]
  <2>10. one.item = x /\ one.next = e
    BY <2>6
  <2>11. b.items = taken /\ b.next = p
    <3> HIDE DEF taken, p
    <3> QED BY <2>2 DEF p
  <2> HIDE DEF taken, x, e, b
  <2>9. RlpStep(stream, b) = [items |-> Append(taken, x), next |-> e]
    <3>1. RlpStep(stream, b) = [items |-> Append(b.items, RlpItemAt(stream, b.next).item),
                                next |-> RlpItemAt(stream, b.next).next]
      BY DEF RlpStep
    <3> QED BY <2>10, <2>11, <3>1
  <2> QED BY <2>3, <2>7, <2>8, <2>9 DEF b, x, e
<1>18. RlpItems(stream, n) = g[n]
  <2>1. g = [k \in 0..n |-> g[k]]
    OBVIOUS
  <2> HIDE DEF g
  <2>2. ReadsOf(stream, n)[n] = g[n]
    BY <1>1, <1>16, <1>17, <2>1, ReadsAre
  <2> QED BY <2>2, ItemsRead
<1>19. g[n] = [items |-> items, next |-> Len(stream) + 1]
  <2>1. n \in 0..n
    BY <1>1
  <2>2. [j \in 1..n |-> items[j]] = items
    BY <1>1
  <2>3. off(n) = Len(stream)
    BY <1>10, <1>13
  <2>4. g[n] = [items |-> [j \in 1..n |-> items[j]], next |-> off(n) + 1]
    BY <2>1
  <2> HIDE DEF g, off
  <2> QED BY <2>2, <2>3, <2>4
<1>20. RlpRecursiveCalcEncodingSize(items) = Len(stream)
  BY <1>9, <1>12, <1>13 DEF RlpRecursiveCalcEncodingSize, body
<1>21. stream # <<>>
  <2>1. Len(stream) # 0
    BY <1>9, <1>12, <1>13
  <2> QED BY <2>1, EmptySeq
<1> HIDE DEF g
<1> QED BY <1>13, <1>18, <1>19, <1>20, <1>21 DEF IsListOf, stream

(* The steps of UtilityHexToBin where a number that is zero is no byte.    *)
LEMMA NullSteps ==
    ASSUME NEW room \in Nat \ {0}, NEW from, NEW leftTrim, NEW digits,
           digits = EvenDigits(Bare(from)), Wrong(digits) = {},
           NEW kept, kept = Kept(Packed(digits, Len(digits)), leftTrim), Len(kept) \in Nat
    PROVE  UtilityHexToBin(room, from, leftTrim, TRUE) =
               IF Len(kept) >= room THEN SubSeq(kept, 1, room) ELSE kept
<1> DEFINE d == EvenDigits(Bare(from))
           n == IF Wrong(d) = {} THEN Len(d) ELSE Min(Wrong(d)) - 1
           k == Kept(Packed(d, n), leftTrim)
<1>0. UtilityHexToBin(room, from, leftTrim, TRUE) =
          CASE room = 0                               -> <<>>
            [] room > 0 /\ Len(k) >= room             -> SubSeq(k, 1, room)
            [] room > 0 /\ Len(k) < room /\ Wrong(d) # {} -> <<>>
            [] room > 0 /\ Len(k) < room /\ Wrong(d) = {} ->
                  IF k = <<>> /\ ~TRUE THEN <<0>> ELSE k
  BY DEF UtilityHexToBin, Bare, Wrong, Packed, Kept
<1> HIDE DEF d, n, k
<1>1. d = digits /\ k = kept
  <2>1. d = digits
    BY DEF d
  <2>2. n = Len(digits)
    BY <2>1 DEF n
  <2> QED BY <2>1, <2>2 DEF k
<1>2. room # 0 /\ room > 0
  OBVIOUS
<1>3. CASE Len(kept) >= room
  <2>1. ~(Len(kept) < room)
    BY <1>3
  <2> QED BY <1>0, <1>1, <1>2, <1>3, <2>1
<1>4. CASE ~(Len(kept) >= room)
  <2>1. Len(kept) < room
    BY <1>4
  <2> QED BY <1>0, <1>1, <1>2, <1>4, <2>1
<1> QED BY <1>3, <1>4

(* A text behind "0x" whose digits make the bytes b. *)
LEMMA ReadsNumber ==
    ASSUME NEW b \in Seq(Byte), NEW d \in Seq(Digit), d # <<>>,
           Packed(EvenDigits(d), Len(EvenDigits(d))) = b,
           NEW room \in Nat \ {0}, NEW leftTrim \in BOOLEAN, Len(Kept(b, leftTrim)) <= room
    PROVE  UtilityHexToBin(room, Prefix \o d, leftTrim, TRUE) = Kept(b, leftTrim)
<1> DEFINE from == Prefix \o d
           digits == EvenDigits(d)
           kept == Kept(b, leftTrim)
<1>1. Bare(from) = d
  <2>1. d \in Seq(Char)
    <3>1. Digit \subseteq Char
      BY DEF Digit, Char
    <3> QED BY <3>1, SeqMonotonic
  <2>2. 0 \in Char /\ Ex \in Char
    BY DEF Ex, Char
  <2>3. ASSUME Len(d) > 1
        PROVE  d[2] # Ex
    <3>1. 2 \in 1..Len(d)
      BY <2>3
    <3>2. d[2] \in Digit
      BY <3>1, ElementOfSeq
    <3> QED BY <3>2, SMTT(30) DEF Digit, Ex
  <2> DEFINE prefix == TRUE
  <2>4. prefix \in BOOLEAN /\ prefix
    OBVIOUS
  <2> HIDE DEF prefix
  <2>5. Bare((IF prefix THEN Prefix ELSE <<>>) \o d) = d
    BY <2>1, <2>2, <2>3, <2>4, BareFacts
  <2> QED BY <2>4, <2>5
<1>2. digits \in Seq(Digit)
  BY EvenFacts, Ranges
<1>3. Wrong(digits) = {}
  BY <1>2, ElementOfSeq, SMTT(30) DEF Wrong, IsDigit, Digit
<1>4. kept \in Seq(Byte) /\ Len(kept) \in Nat
  <2>1. TrimZeros(b) \in Seq(Byte)
    BY TrimCase, Ranges
  <2>2. kept = TrimZeros(b) \/ kept = b
    BY DEF Kept
  <2> HIDE DEF kept
  <2>3. kept \in Seq(Byte)
    BY <2>1, <2>2
  <2> QED BY <2>3
<1>5. digits = EvenDigits(Bare(from))
  BY <1>1
<1>6. kept = Kept(Packed(digits, Len(digits)), leftTrim)
  OBVIOUS
<1>7. Len(kept) <= room
  OBVIOUS
<1> HIDE DEF from, digits, kept
<1>8. UtilityHexToBin(room, from, leftTrim, TRUE) =
          IF Len(kept) >= room THEN SubSeq(kept, 1, room) ELSE kept
  BY <1>3, <1>4, <1>5, <1>6, NullSteps, Zenon
<1>9. Len(kept) >= room => SubSeq(kept, 1, room) = kept
  <2>1. Len(kept) >= room => Len(kept) = room
    BY <1>4, <1>7
  <2> QED BY <1>4, <2>1, SubSeqFull
<1> QED BY <1>8, <1>9 DEF from, kept

(* What stands behind "0x" are digits. *)
LEMMA HexTextFacts ==
    ASSUME NEW d \in Seq(Digit)
    PROVE  /\ UtilityStringIsHex(Prefix \o d)
           /\ Len(Prefix \o d) = 2 + Len(d) /\ Given(Prefix \o d)
<1> DEFINE t == Prefix \o d
<1>1. Digit \subseteq Char /\ Prefix \in Seq(Char) /\ Len(Prefix) = 2 /\ Prefix[1] = 0 /\ Prefix[2] = Ex
  BY DEF Prefix, Ex, Char, Digit
<1>2. d \in Seq(Char) /\ Len(d) \in Nat
  BY <1>1, SeqMonotonic
<1>3. \A p, q \in Seq(Char) : /\ p \o q \in Seq(Char) /\ Len(p \o q) = Len(p) + Len(q)
                              /\ \A i \in 1..Len(p) : (p \o q)[i] = p[i]
                              /\ \A i \in 1..Len(q) : (p \o q)[Len(p) + i] = q[i]
  BY Joined
<1>4. /\ t \in Seq(Char) /\ Len(t) = 2 + Len(d) /\ t[1] = 0 /\ t[2] = Ex
      /\ \A i \in 1..Len(d) : t[2 + i] = d[i]
  <2>1. /\ t \in Seq(Char) /\ Len(t) = Len(Prefix) + Len(d)
        /\ \A i \in 1..Len(Prefix) : t[i] = Prefix[i]
        /\ \A i \in 1..Len(d) : t[Len(Prefix) + i] = d[i]
    BY <1>1, <1>2, <1>3, Zenon
  <2>2. 1 \in 1..2 /\ 2 \in 1..2
    OBVIOUS
  <2> HIDE DEF t
  <2> QED BY <1>1, <2>1, <2>2
<1> HIDE DEF t
<1>5. \A i \in 3..Len(t) : IsDigit(t[i])
  <2> TAKE i \in 3..Len(t)
  <2> DEFINE j == i - 2
  <2>1. j \in 1..Len(d) /\ 2 + j = i
    BY <1>2, <1>4
  <2>2. d[j] \in Digit
    BY <2>1, ElementOfSeq
  <2> QED BY <1>4, <2>1, <2>2 DEF IsDigit, Digit
<1>6. Len(t) >= 2 /\ t # <<>>
  BY <1>2, <1>4
<1> QED BY <1>4, <1>5, <1>6 DEF UtilityStringIsHex, Given, t

(* A number in the form "quantity" is a hexadecimal text, and is read as   *)
(* the number without its leading zeros.                                   *)
LEMMA QuantityRead ==
    ASSUME NEW b \in Seq(Byte), b # <<>>, Len(b) <= 32
    PROVE  /\ HexNumber(Quantity(b)) = TrimZeros(b)
           /\ UtilityStringIsHex(Quantity(b)) /\ Given(Quantity(b))
<1> DEFINE mode == "quantity"
           d == TextDigits(b, mode)
           t == TextBytes(b, mode)
<1>1. mode \in TrimModes
  BY DEF TrimModes
<1>2. t = IF TrimZeros(b) = <<>> THEN <<0>> ELSE TrimZeros(b)
  BY DEF TextBytes, Kept
<1>3. TrimZeros(b) \in Seq(Byte) /\ Len(TrimZeros(b)) <= Len(b)
      /\ (TrimZeros(b) # <<>> => TrimZeros(b)[1] # 0)
  BY TrimCase, Ranges
<1>4. Kept(t, TRUE) = TrimZeros(b)
  <2>1. CASE TrimZeros(b) = <<>>
    BY <1>2, <2>1, ZeroTexts DEF Kept
  <2>2. CASE TrimZeros(b) # <<>>
    <3> DEFINE z == TrimZeros(b)
    <3>1. z \in Seq(Byte) /\ z # <<>> /\ z[1] # 0
      BY <1>3, <2>2
    <3>2. t = z
      BY <1>2, <2>2
    <3> HIDE DEF z, t
    <3>3. TrimZeros(z) = z
      BY <3>1, TrimCase, Ranges
    <3> QED BY <3>2, <3>3 DEF Kept, z
  <2> QED BY <2>1, <2>2
<1> HIDE DEF mode
<1>5. /\ d \in Seq(Digit) /\ d # <<>> /\ t \in Seq(Byte)
      /\ Packed(EvenDigits(d), Len(EvenDigits(d))) = t
      /\ \A prefix \in BOOLEAN :
            UtilityBinToHex(b, mode, prefix, FALSE) = (IF prefix THEN Prefix ELSE <<>>) \o d
  BY <1>1, TextFacts
<1>6. Quantity(b) = Prefix \o d
  <2>1. UtilityBinToHex(b, mode, TRUE, FALSE) = (IF TRUE THEN Prefix ELSE <<>>) \o d
    BY <1>5
  <2> HIDE DEF d
  <2> QED BY <2>1 DEF Quantity, mode
<1> HIDE DEF d, t
<1> DEFINE room == 32
<1>7. room \in Nat \ {0} /\ Len(Kept(t, TRUE)) <= room
  <2>1. Len(TrimZeros(b)) \in Nat /\ Len(b) \in Nat
    BY <1>3
  <2>2. Len(TrimZeros(b)) <= 32
    BY <1>3, <2>1
  <2>3. Len(Kept(t, TRUE)) <= room
    BY <1>4, <2>2
  <2>4. room \in Nat \ {0}
    OBVIOUS
  <2> HIDE DEF room
  <2> QED BY <2>3, <2>4, Zenon
<1> HIDE DEF room
<1>8. UtilityHexToBin(room, Prefix \o d, TRUE, TRUE) = Kept(t, TRUE)
  BY <1>5, <1>7, ReadsNumber
<1>9. HexNumber(Quantity(b)) = TrimZeros(b)
  BY <1>4, <1>6, <1>8 DEF HexNumber, room
<1> QED BY <1>5, <1>6, <1>9, HexTextFacts

(* The text of bytes as they stand: what each of its readers takes out.    *)
LEMMA UnformattedRead ==
    ASSUME NEW b \in Seq(Byte), b # <<>>
    PROVE  /\ UtilityHexToBin(Len(b), Unformatted(b), FALSE, TRUE) = b
           /\ UtilityHexToBin(Len(b), Unformatted(b), FALSE, FALSE) = b
           /\ UtilityStringIsHex(Unformatted(b)) /\ Len(Unformatted(b)) = 2 + 2 * Len(b)
<1> DEFINE mode == "unfmtdata"
           d == TextDigits(b, mode)
           t == TextBytes(b, mode)
           n == Len(b)
<1>1. mode \in TrimModes
  BY DEF TrimModes
<1>2. t = b
  BY DEF TextBytes, Kept
<1>3. Digits(b) \in Seq(Digit) /\ Len(Digits(b)) = 2 * Len(b) /\ n \in Nat \ {0}
  BY DigitsFacts, EmptySeq
<1>4. d = Digits(b)
  <2>1. HexDigits(b, mode) = Digits(b)
    BY DEF HexDigits
  <2>2. Digits(b) # <<>>
    BY <1>3
  <2> QED BY <2>1, <2>2 DEF TextDigits
<1>5. /\ d \in Seq(Digit) /\ d # <<>> /\ t \in Seq(Byte)
      /\ Packed(EvenDigits(d), Len(EvenDigits(d))) = t
      /\ \A prefix \in BOOLEAN :
            UtilityBinToHex(b, mode, prefix, FALSE) = (IF prefix THEN Prefix ELSE <<>>) \o d
  <2> HIDE DEF mode
  <2> QED BY <1>1, TextFacts
<1>6. Unformatted(b) = Prefix \o d
  <2>1. UtilityBinToHex(b, mode, TRUE, FALSE) = (IF TRUE THEN Prefix ELSE <<>>) \o d
    BY <1>5
  <2> HIDE DEF d
  <2> QED BY <2>1 DEF Unformatted
<1>7. UtilityHexToBin(n, Unformatted(b), FALSE, FALSE) = b
  <2>1. \A trim \in TrimModes, prefix \in BOOLEAN :
           UtilityHexToBin(Len(b), UtilityBinToHex(b, trim, prefix, FALSE), trim # "unfmtdata", FALSE)
               = UtilityTrimBin(b, trim # "unfmtdata", FALSE)
    BY HexReadsBack
  <2>2. UtilityHexToBin(Len(b), UtilityBinToHex(b, mode, TRUE, FALSE), mode # "unfmtdata", FALSE)
            = UtilityTrimBin(b, mode # "unfmtdata", FALSE)
    BY <1>1, <2>1
  <2>3. (mode # "unfmtdata") = FALSE
    OBVIOUS
  <2>4. UtilityTrimBin(b, FALSE, FALSE) = b
    BY DEF UtilityTrimBin
  <2> HIDE DEF mode
  <2>5. UtilityHexToBin(Len(b), UtilityBinToHex(b, mode, TRUE, FALSE), FALSE, FALSE) = b
    BY <2>2, <2>3, <2>4
  <2> QED BY <2>5 DEF Unformatted, mode, n
<1> HIDE DEF d, t, n
<1>8. UtilityHexToBin(n, Prefix \o d, FALSE, TRUE) = b
  <2> DEFINE trim == FALSE
  <2>1. Kept(t, trim) = b /\ trim \in BOOLEAN
    BY <1>2 DEF Kept
  <2> HIDE DEF trim
  <2>2. Len(Kept(t, trim)) <= n
    BY <1>3, <2>1 DEF n
  <2>3. UtilityHexToBin(n, Prefix \o d, trim, TRUE) = Kept(t, trim)
    BY <1>3, <1>5, <2>1, <2>2, ReadsNumber
  <2> QED BY <2>1, <2>3 DEF trim
<1>9. UtilityStringIsHex(Prefix \o d) /\ Len(Prefix \o d) = 2 + Len(d)
  BY <1>5, HexTextFacts
<1> QED BY <1>3, <1>4, <1>6, <1>7, <1>8, <1>9 DEF n

(* The text of an address, and the text the node answers for the data of a *)
(* private transaction.                                                    *)
LEMMA AddressRead ==
    ASSUME NEW a \in Seq(Byte), Len(a) = 20
    PROVE  /\ HexRecipient(Unformatted(a)) = a /\ UtilityStringIsHex(Unformatted(a))
           /\ Len(Unformatted(a)) = 42
<1>1. a # <<>>
  <2>1. Len(a) # 0
    OBVIOUS
  <2> QED BY <2>1, EmptySeq
<1>2. /\ UtilityHexToBin(Len(a), Unformatted(a), FALSE, TRUE) = a
      /\ UtilityStringIsHex(Unformatted(a)) /\ Len(Unformatted(a)) = 2 + 2 * Len(a)
  BY <1>1, UnformattedRead
<1>3. 2 + 2 * Len(a) = 42
  OBVIOUS
<1>4. HexRecipient(Unformatted(a)) = UtilityHexToBin(Len(a), Unformatted(a), FALSE, TRUE)
  BY DEF HexRecipient
<1> HIDE DEF HexRecipient, UtilityStringIsHex
<1> QED BY <1>2, <1>3, <1>4

LEMMA PrivateRead ==
    ASSUME NEW b \in Seq(Byte), Len(b) = 64
    PROVE  PrivateData(Unformatted(b), <<>>) = b
<1> DEFINE rest == SubSeq(<<>>, 64 + 1, 64)
<1>1. b # <<>>
  <2>1. Len(b) # 0
    OBVIOUS
  <2> QED BY <2>1, EmptySeq
<1>2. UtilityHexToBin(64, Unformatted(b), FALSE, FALSE) = b
  <2>1. UtilityHexToBin(Len(b), Unformatted(b), FALSE, FALSE) = b
    BY <1>1, UnformattedRead
  <2> QED BY <2>1
<1>3. rest = <<>>
  <2> DEFINE m == 65
             n == 64
  <2>1. m \in Int /\ n \in Int /\ n < m
    OBVIOUS
  <2> HIDE DEF m, n
  <2>2. \A s \in Seq(Byte) : SubSeq(s, m, n) = <<>>
    BY <2>1
  <2>3. <<>> \in Seq(Byte)
    OBVIOUS
  <2>4. SubSeq(<<>>, m, n) = <<>>
    BY <2>2, <2>3
  <2> QED BY <2>4 DEF m, n
<1>4. b \o <<>> = b
  BY ConcatEmptySeq
<1>5. PrivateData(Unformatted(b), <<>>) = b \o SubSeq(<<>>, Len(b) + 1, 64)
  BY <1>2 DEF PrivateData
<1> QED BY <1>3, <1>4, <1>5

-----------------------------------------------------------------------------
(* Transactions.                                                           *)

(* The fields of a transaction are short, but for its data.                *)
TxBytes(s) == s \in Seq(Byte) /\ Len(s) <= 64
TxData(s) == s \in Seq(Byte) /\ Len(s) <= 2147483647

LEMMA ListIsShort ==
    ASSUME NEW items \in Seq(Seq(Byte)), Len(items) <= 9,
           \A i \in 1..Len(items) : i # 6 => TxBytes(items[i]),
           \A i \in 1..Len(items) : i = 6 => TxData(items[i])
    PROVE  ListBody(items) < TwoTo32
<1> DEFINE n == Len(items)
           sizes == [i \in DOMAIN items |-> StringSize(items[i])]
           sum == Sums(sizes)
           bound(k) == 69 * k + (IF k >= 6 THEN 2147483652 ELSE 0)
           T == {k \in 0..n : sum[k] <= bound(k)}
<1>1. n \in Nat /\ n <= 9 /\ DOMAIN items = 1..n /\ \A i \in 1..n : items[i] \in Seq(Byte)
  BY ElementOfSeq
<1>2. \A i \in 1..n : StringSize(items[i]) \in Nat
                      /\ StringSize(items[i]) <= (IF i = 6 THEN 2147483652 ELSE 69)
  <2>1. TAKE i \in 1..n
  <2> DEFINE x == items[i]
  <2>2. x \in Seq(Byte) /\ Len(x) \in Nat
    BY <1>1
  <2>3. (i # 6 => Len(x) <= 64) /\ (i = 6 => Len(x) <= 2147483647)
    BY DEF TxBytes, TxData
  <2> HIDE DEF x
  <2>4. Len(x) < TwoTo32
    BY <2>2, <2>3 DEF TwoTo32
  <2>5. StringSize(x) \in Nat /\ StringSize(x) <= Len(x) + 5
    BY <2>2, <2>4, StringFacts
  <2>6. StringSize(x) \in Nat /\ StringSize(x) <= (IF i = 6 THEN 2147483652 ELSE 69)
    BY <2>2, <2>3, <2>5
  <2> QED BY <2>6 DEF x
<1>3. sizes \in Seq(Nat) /\ Len(sizes) = n /\ \A i \in 1..n : sizes[i] = StringSize(items[i])
  <2>1. sizes = [i \in 1..n |-> sizes[i]] /\ \A i \in 1..n : sizes[i] = StringSize(items[i])
    BY <1>1
  <2>2. n \in Nat /\ \A i \in 1..n : sizes[i] \in Nat
    BY <1>1, <1>2, <2>1
  <2> HIDE DEF sizes, n
  <2>3. sizes \in Seq(Nat) /\ Len(sizes) = n
    BY <2>1, <2>2, Built
  <2> QED BY <2>1, <2>3
<1>4. ListBody(items) = Total(sizes)
  BY DEF ListBody
<1> HIDE DEF sizes
<1>5. /\ Total(sizes) = sum[n] /\ sum \in [0..n -> Nat] /\ sum[0] = 0
      /\ \A i \in 1..n : sum[i] = sum[i - 1] + sizes[i]
  BY <1>3, SumsFacts
<1> HIDE DEF sum, n
<1>6. 0 \in T
  BY <1>1, <1>5
<1>7. ASSUME NEW k \in 1..n, k - 1 \in T PROVE k \in T
  <2> DEFINE j == k - 1
             a == sum[j]
             b == sum[k]
             s == sizes[k]
  <2>1. k \in Nat /\ k >= 1 /\ k \in 0..n /\ j \in 0..n /\ j + 1 = k
    BY <1>1
  <2>2. a \in Nat /\ b = a + s /\ a <= bound(j)
    BY <1>5, <1>7, <2>1
  <2>3. s \in Nat /\ s <= (IF k = 6 THEN 2147483652 ELSE 69)
    BY <1>2, <1>3
  <2> HIDE DEF a, b, s
  <2>4. b <= bound(k)
    BY <2>1, <2>2, <2>3
  <2> QED BY <2>1, <2>4 DEF b
<1>8. \A k \in 0..n : k \in T
  <2> HIDE DEF T
  <2> QED BY <1>1, <1>6, <1>7, InductionTo
<1>9. n \in T
  BY <1>1, <1>8
<1>10. sum[n] \in Nat /\ sum[n] <= bound(n)
  BY <1>1, <1>5, <1>9
<1> QED BY <1>1, <1>4, <1>5, <1>10 DEF TwoTo32

(* Six fields, and the three values that may follow them. *)
TxFieldsAre(six) ==
    /\ six \in Seq(Seq(Byte)) /\ Len(six) = 6
    /\ \A i \in 1..5 : TxBytes(six[i])
    /\ TxData(six[6])

LEMMA NineItems ==
    ASSUME NEW six, TxFieldsAre(six), NEW u \in Seq(Byte), NEW r \in Seq(Byte), NEW s \in Seq(Byte),
           TxBytes(u), TxBytes(r), TxBytes(s)
    PROVE  LET items == six \o <<u, r, s>>
           IN  /\ items \in Seq(Seq(Byte)) /\ Len(items) = 9 /\ items[1] = six[1] /\ items[7] = u
               /\ ListBody(items) < TwoTo32
<1> DEFINE three == <<u, r, s>>
           items == six \o three
<1>1. three \in Seq(Seq(Byte)) /\ Len(three) = 3 /\ three[1] = u /\ three[2] = r /\ three[3] = s
  OBVIOUS
<1>2. six \in Seq(Seq(Byte)) /\ Len(six) = 6
  BY DEF TxFieldsAre
<1> HIDE DEF three
<1>3. \A p, q \in Seq(Seq(Byte)) : /\ p \o q \in Seq(Seq(Byte)) /\ Len(p \o q) = Len(p) + Len(q)
                                   /\ \A i \in 1..Len(p) : (p \o q)[i] = p[i]
                                   /\ \A i \in 1..Len(q) : (p \o q)[Len(p) + i] = q[i]
  BY Joined
<1>4. /\ items \in Seq(Seq(Byte)) /\ Len(items) = Len(six) + Len(three)
      /\ \A i \in 1..Len(six) : items[i] = six[i]
      /\ \A i \in 1..Len(three) : items[Len(six) + i] = three[i]
  BY <1>1, <1>2, <1>3, Zenon
<1> HIDE DEF items
<1>5. /\ items \in Seq(Seq(Byte)) /\ Len(items) = 9 /\ \A i \in 1..6 : items[i] = six[i]
      /\ items[7] = u /\ items[8] = r /\ items[9] = s
  <2>1. 1 \in 1..3 /\ 2 \in 1..3 /\ 3 \in 1..3 /\ 6 + 1 = 7 /\ 6 + 2 = 8 /\ 6 + 3 = 9
    OBVIOUS
  <2> QED BY <1>1, <1>2, <1>4, <2>1
<1>6. \A i \in 1..Len(items) : i # 6 => TxBytes(items[i])
  <2>1. TAKE i \in 1..Len(items)
  <2>2. i \in 1..5 \/ i = 6 \/ i = 7 \/ i = 8 \/ i = 9
    BY <1>5
  <2>3. i \in 1..5 => i \in 1..6
    OBVIOUS
  <2> QED BY <1>5, <2>2, <2>3 DEF TxFieldsAre
<1>7. \A i \in 1..Len(items) : i = 6 => TxData(items[i])
  <2>1. 6 \in 1..6
    OBVIOUS
  <2> QED BY <1>5, <2>1 DEF TxFieldsAre
<1>8. Len(items) <= 9
  BY <1>5
<1>9. ListBody(items) < TwoTo32
  BY <1>5, <1>6, <1>7, <1>8, ListIsShort
<1>10. 1 \in 1..6
  OBVIOUS
<1> QED BY <1>5, <1>9, <1>10 DEF items, three

LEMMA SixItems ==
    ASSUME NEW six, TxFieldsAre(six)
    PROVE  six \o <<>> = six /\ six \in Seq(Seq(Byte)) /\ ListBody(six) < TwoTo32
<1>1. six \in Seq(Seq(Byte)) /\ Len(six) = 6
  BY DEF TxFieldsAre
<1>2. \A i \in 1..Len(six) : i # 6 => TxBytes(six[i])
  <2>1. \A i \in 1..Len(six) : i # 6 => i \in 1..5
    BY <1>1
  <2> QED BY <2>1 DEF TxFieldsAre
<1>3. \A i \in 1..Len(six) : i = 6 => TxData(six[i])
  BY DEF TxFieldsAre
<1>4. Len(six) <= 9
  BY <1>1
<1>5. ListBody(six) < TwoTo32
  BY <1>1, <1>2, <1>3, <1>4, ListIsShort
<1>6. six \o <<>> = six
  BY <1>1, ConcatEmptySeq
<1> QED BY <1>1, <1>5, <1>6

-----------------------------------------------------------------------------
(* The chain a transaction is made for, and v.                             *)

LEMMA WidthOfV == 2 ^ VBits = 65536 \/ 2 ^ VBits = TwoTo32
<1>1. VBits = 16 \/ VBits = 32
  BY VBitsAssumption
<1>2. CASE VBits = 16
  <2>1. 2 ^ VBits = 2 ^ 16
    BY <1>2, Zenon
  <2>2. 2 ^ 16 = 65536
    OBVIOUS
  <2> QED BY <2>1, <2>2
<1>3. CASE VBits = 32
  <2>1. 2 ^ VBits = 2 ^ 32
    BY <1>3, Zenon
  <2>2. 2 ^ 32 = TwoTo32
    BY DEF TwoTo32
  <2> QED BY <2>1, <2>2
<1> QED BY <1>1, <1>2, <1>3

LEMMA ChainFacts ==
    ASSUME NEW network \in ChainNetworks
    PROVE  /\ network.chainId \in Nat \ {0} /\ network.eip155 \in BOOLEAN
           /\ 2 * network.chainId + 36 < 2 ^ VBits
           /\ network.chainId < TwoTo32
           /\ 2 ^ VBits \in Nat /\ 2 ^ VBits <= TwoTo32
<1> DEFINE width == 2 ^ VBits
           id == network.chainId
<1>1. width = 65536 \/ width = TwoTo32
  BY WidthOfV
<1>2. network.eip155 \in BOOLEAN /\ (id = 1 \/ id = 255 \/ id = MaxChainId)
  BY DEF ChainNetworks
<1>3. MaxChainId = (width - 1 - 36) \div 2
  BY DEF MaxChainId
<1> HIDE DEF width, id
<1>4. width \in Nat /\ width >= 65536 /\ width <= TwoTo32
  BY <1>1 DEF TwoTo32
<1>5. \A w \in Nat : w >= 65536 => /\ (w - 1 - 36) \div 2 \in Nat \ {0}
                                   /\ 2 * ((w - 1 - 36) \div 2) + 36 < w
  OBVIOUS
<1>6. MaxChainId \in Nat \ {0} /\ 2 * MaxChainId + 36 < width
  BY <1>3, <1>4, <1>5
<1>7. id \in Nat \ {0} /\ 2 * id + 36 < width
  <2> HIDE DEF MaxChainId
  <2> QED BY <1>2, <1>4, <1>6
<1>8. id < TwoTo32
  BY <1>4, <1>7 DEF TwoTo32
<1> QED BY <1>2, <1>4, <1>7, <1>8 DEF width, id

LEMMA VFacts ==
    ASSUME NEW network \in ChainNetworks, NEW parity \in {0, 1}, NEW plain \in {27, 37}
    PROVE  /\ VOf(network, parity, plain) \in Nat /\ VOf(network, parity, plain) < TwoTo32
           /\ SaysChain(VOf(network, parity, plain), network, parity, plain)
<1> DEFINE width == 2 ^ VBits
           id == network.chainId
           v == VOf(network, parity, plain)
<1>1. /\ id \in Nat /\ 2 * id + 36 < width /\ width \in Nat /\ width <= TwoTo32
      /\ network.eip155 \in BOOLEAN
  BY ChainFacts
<1>2. CASE network.eip155
  <2>1. v = (id * 2 + parity + 35) % width
    BY <1>2 DEF VOf, Word
  <2>2. SaysChain(v, network, parity, plain) <=> ((v - 35) \div 2 = id /\ (v - 35) % 2 = parity)
    BY <1>2 DEF SaysChain
  <2> HIDE DEF width, id, v
  <2>3. parity \in Nat /\ parity <= 1
    OBVIOUS
  <2>4. id * 2 + parity + 35 \in Nat /\ id * 2 + parity + 35 < width
    BY <1>1, <2>3
  <2>5. v = id * 2 + parity + 35
    <3> DEFINE m == id * 2 + parity + 35
    <3>1. m \in Nat /\ m < width /\ v = m % width
      BY <2>1, <2>4
    <3> HIDE DEF m
    <3>2. v = m
      BY <1>1, <3>1
    <3> QED BY <3>2 DEF m
  <2>6. (v - 35) \div 2 = id /\ (v - 35) % 2 = parity
    <3> DEFINE m == v - 35
    <3>1. m = id * 2 + parity
      BY <1>1, <2>3, <2>5
    <3> HIDE DEF m
    <3>2. m \div 2 = id /\ m % 2 = parity
      BY <1>1, <2>3, <3>1
    <3> QED BY <3>2 DEF m
  <2>7. v \in Nat /\ v < TwoTo32
    BY <1>1, <2>4, <2>5 DEF TwoTo32
  <2> QED BY <2>2, <2>6, <2>7 DEF v
<1>3. CASE ~network.eip155
  <2>1. v = parity + plain
    BY <1>3 DEF VOf
  <2>2. SaysChain(v, network, parity, plain) <=> v - plain = parity
    BY <1>3 DEF SaysChain
  <2> HIDE DEF v
  <2>3. v \in Nat /\ v < 50 /\ v - plain = parity
    BY <2>1
  <2>4. v < TwoTo32
    BY <2>3 DEF TwoTo32
  <2> QED BY <2>2, <2>3, <2>4 DEF v
<1> QED BY <1>2, <1>3

-----------------------------------------------------------------------------
(* What the node takes out of what is sent and hashed.                     *)

TwoNumbers(signature, r, s) ==
    /\ TxBytes(r) /\ TxBytes(s)
    /\ Trimmed(signature.r) = r /\ Trimmed(signature.s) = s

Guard(network) ==
    IF network.eip155 THEN <<TrimZeros(Octets(network.chainId, 4)), <<>>, <<>>>> ELSE <<>>

RawReads(raw, six, network, parity, plain, r, s) ==
    LET v == RlpItems(raw.sent, 9).items[7]
    IN  /\ UtilityHexToBin(Len(raw.sent), SignedText(raw), FALSE, FALSE) = raw.sent
        /\ IsListOf(raw.sent, six \o <<v, r, s>>)
        /\ SaysChain(BytesValue(v), network, parity, plain)
        /\ IsListOf(raw.hashed, six \o Guard(network))
        /\ RlpItems(raw.sent, 9).items[1] = six[1]

LEMMA RawReadsBack ==
    ASSUME NEW tx, TxFieldsAre(SixFields(tx)), NEW network \in ChainNetworks, NEW parity \in {0, 1},
           NEW plain \in {27, 37}, NEW signature, NEW r, NEW s, TwoNumbers(signature, r, s),
           NEW raw, raw.hashed = Unsigned(tx, network),
           raw.sent = Signed(tx, VOf(network, parity, plain), signature)
    PROVE  RawReads(raw, SixFields(tx), network, parity, plain, r, s)
<1> DEFINE six == SixFields(tx)
           v == VOf(network, parity, plain)
           w == UtilityUint32ToBigend(v, TRUE)
           items == six \o <<w, r, s>>
           sent == raw.sent
           hashed == raw.hashed
<1>1. v \in Nat /\ v < TwoTo32 /\ SaysChain(v, network, parity, plain)
  BY VFacts
<1> HIDE DEF v
<1>2. w \in Seq(Byte) /\ Len(w) <= 4 /\ BytesValue(w) = v
  BY <1>1, BigendFacts
<1>3. r \in Seq(Byte) /\ s \in Seq(Byte) /\ TxBytes(r) /\ TxBytes(s)
      /\ Trimmed(signature.r) = r /\ Trimmed(signature.s) = s
  BY DEF TwoNumbers, TxBytes
<1>4. sent = RlpEncode(items)
  <2>1. Signed(tx, v, signature) = RlpEncode(six \o <<w, Trimmed(signature.r), Trimmed(signature.s)>>)
    BY DEF Signed
  <2>2. sent = Signed(tx, v, signature)
    BY DEF v
  <2> HIDE DEF six, w, sent
  <2> QED BY <1>3, <2>1, <2>2
<1>5. TxFieldsAre(six)
  OBVIOUS
<1> HIDE DEF six, w
<1>6. TxBytes(w)
  <2>1. Len(w) \in Nat
    BY <1>2
  <2> QED BY <1>2, <2>1 DEF TxBytes
<1>7. /\ items \in Seq(Seq(Byte)) /\ Len(items) = 9 /\ items[1] = six[1] /\ items[7] = w
      /\ ListBody(items) < TwoTo32
  BY <1>2, <1>3, <1>5, <1>6, NineItems, SMTT(30)
<1> HIDE DEF sent, items
<1>8. sent \in Seq(Byte) /\ sent # <<>> /\ IsListOf(sent, items)
  BY <1>4, <1>7, RlpReadsBack
<1>9. RlpItems(sent, 9).items = items
  <2>1. RlpItems(sent, Len(items)) = [items |-> items, next |-> Len(sent) + 1]
    BY <1>8 DEF IsListOf
  <2>2. RlpItems(sent, 9) = [items |-> items, next |-> Len(sent) + 1]
    BY <1>7, <2>1
  <2> QED BY <2>2
<1>10. UtilityHexToBin(Len(sent), SignedText(raw), FALSE, FALSE) = sent
  <2>1. SignedText(raw) = Unformatted(sent)
    BY DEF SignedText, Unformatted, sent
  <2>2. UtilityHexToBin(Len(sent), Unformatted(sent), FALSE, FALSE) = sent
    BY <1>8, UnformattedRead
  <2> QED BY <2>1, <2>2
<1>11. IsListOf(hashed, six \o Guard(network))
  <2>1. hashed = RlpEncode(six \o ReplayGuard(network))
    BY DEF Unsigned, six
  <2> HIDE DEF hashed
  <2>2. CASE network.eip155
    <3> DEFINE id == network.chainId
               c == TrimZeros(Octets(id, 4))
               e == <<>>
    <3>1. id \in Nat /\ id < TwoTo32 /\ id # 0
      BY ChainFacts
    <3> HIDE DEF id
    <3>2. UtilityUint32ToBigend(id, TRUE) = c /\ c \in Seq(Byte) /\ Len(c) <= 4
      <4>1. /\ UtilityUint32ToBigend(id, TRUE) \in Seq(Byte) /\ Len(UtilityUint32ToBigend(id, TRUE)) <= 4
            /\ UtilityUint32ToBigend(id, TRUE) = TrimZeros(Octets(id, 4))
        BY <3>1, BigendFacts
      <4> QED BY <4>1
    <3>3. ReplayGuard(network) = <<c, e, e>> /\ Guard(network) = <<c, e, e>>
      <4>1. ReplayGuard(network) = <<UtilityUint32ToBigend(id, TRUE), e, e>>
        BY <2>2 DEF ReplayGuard, id
      <4>2. Guard(network) = <<c, e, e>>
        BY <2>2 DEF Guard, id
      <4> HIDE DEF e, c
      <4> QED BY <3>2, <4>1, <4>2
    <3>4. TxBytes(c) /\ e \in Seq(Byte) /\ TxBytes(e)
      <4>1. Len(c) \in Nat /\ c \in Seq(Byte) /\ Len(c) <= 4
        BY <3>2
      <4>2. e \in Seq(Byte) /\ Len(e) = 0
        OBVIOUS
      <4> HIDE DEF c, e
      <4> QED BY <4>1, <4>2 DEF TxBytes
    <3> HIDE DEF c, e
    <3>5. six \o <<c, e, e>> \in Seq(Seq(Byte)) /\ ListBody(six \o <<c, e, e>>) < TwoTo32
      BY <1>5, <3>2, <3>4, NineItems
    <3>6. IsListOf(RlpEncode(six \o <<c, e, e>>), six \o <<c, e, e>>)
      BY <3>5, RlpReadsBack
    <3> QED BY <2>1, <3>3, <3>6
  <2>3. CASE ~network.eip155
    <3>1. ReplayGuard(network) = <<>> /\ Guard(network) = <<>>
      BY <2>3 DEF ReplayGuard, Guard
    <3>2. six \o <<>> = six /\ six \in Seq(Seq(Byte)) /\ ListBody(six) < TwoTo32
      BY <1>5, SixItems
    <3>3. IsListOf(RlpEncode(six), six)
      BY <3>2, RlpReadsBack
    <3> QED BY <2>1, <3>1, <3>2, <3>3
  <2> QED BY <2>2, <2>3
<1>12. RlpItems(sent, 9).items[7] = w /\ RlpItems(sent, 9).items[1] = six[1]
  BY <1>7, <1>9
<1>13. SaysChain(BytesValue(w), network, parity, plain)
  BY <1>1, <1>2
<1> QED
  BY <1>8, <1>10, <1>11, <1>12, <1>13 DEF RawReads, six, sent, hashed, items

-----------------------------------------------------------------------------
(* The fields the wallet API fills.                                        *)

TxOf(n, p, l, to, v, x) ==
    [nonce |-> n, gasprice |-> p, gaslimit |-> l, recipient |-> to, value |-> v, data |-> x]

LEMMA SixOf ==
    ASSUME NEW n, NEW p, NEW l, NEW to, NEW v, NEW x,
           TxBytes(n), TxBytes(p), TxBytes(l), TxBytes(to), TxBytes(v), TxData(x)
    PROVE  /\ SixFields(TxOf(n, p, l, to, v, x)) = <<n, p, l, to, v, x>>
           /\ TxFieldsAre(<<n, p, l, to, v, x>>)
<1>1. SixFields(TxOf(n, p, l, to, v, x)) = <<n, p, l, to, v, x>>
  BY DEF SixFields, TxOf
<1> DEFINE six == <<n, p, l, to, v, x>>
<1>2. /\ six[1] = n /\ six[2] = p /\ six[3] = l /\ six[4] = to /\ six[5] = v /\ six[6] = x
      /\ Len(six) = 6
  OBVIOUS
<1>3. /\ n \in Seq(Byte) /\ p \in Seq(Byte) /\ l \in Seq(Byte) /\ to \in Seq(Byte)
      /\ v \in Seq(Byte) /\ x \in Seq(Byte)
  BY DEF TxBytes, TxData
<1>4. six \in Seq(Seq(Byte))
  BY <1>3
<1> HIDE DEF six
<1>5. \A i \in 1..5 : i = 1 \/ i = 2 \/ i = 3 \/ i = 4 \/ i = 5
  OBVIOUS
<1>6. \A i \in 1..5 : TxBytes(six[i])
  BY <1>2, <1>5
<1> QED BY <1>1, <1>2, <1>4, <1>6 DEF TxFieldsAre, six

(* The numbers a caller gives as texts. *)
Amount(b) == b \in Seq(Byte) /\ b # <<>> /\ Len(b) <= 32

LEMMA AmountRead ==
    ASSUME NEW b, Amount(b)
    PROVE  /\ HexNumber(Quantity(b)) = TrimZeros(b) /\ TxBytes(TrimZeros(b)) /\ TxBytes(b)
           /\ UtilityStringIsHex(Quantity(b)) /\ Given(Quantity(b))
<1>1. b \in Seq(Byte) /\ b # <<>> /\ Len(b) <= 32
  BY DEF Amount
<1>2. HexNumber(Quantity(b)) = TrimZeros(b) /\ UtilityStringIsHex(Quantity(b)) /\ Given(Quantity(b))
  BY <1>1, QuantityRead
<1>3. TrimZeros(b) \in Seq(Byte) /\ Len(TrimZeros(b)) <= Len(b)
  BY <1>1, TrimCase, Ranges
<1>4. Len(b) \in Nat /\ Len(TrimZeros(b)) \in Nat
  BY <1>1, <1>3
<1>5. TxBytes(TrimZeros(b)) /\ TxBytes(b)
  BY <1>1, <1>3, <1>4 DEF TxBytes
<1> QED BY <1>2, <1>5

(* What a transfer on Ethereum and one on Quorum are made of. *)
FieldsFilled(a, b, c, d, e, x) ==
    /\ [BoatEthTransfer(BoatEthTxInit(Quantity(c), Quantity(d), Unformatted(a), <<>>),
                        Quantity(b), Quantity(e)) EXCEPT !.data = x]
           = TxOf(TrimZeros(b), TrimZeros(c), TrimZeros(d), a, TrimZeros(e), x)
    /\ [BoatEthTransfer(BoatQuorumTxInit(Quantity(c), Quantity(d), Unformatted(a)),
                        Quantity(b), Quantity(e)) EXCEPT !.data = x]
           = TxOf(TrimZeros(b), <<>>, TrimZeros(d), a, TrimZeros(e), x)

LEMMA EthFields ==
    ASSUME NEW a \in Seq(Byte), Len(a) = 20,
           NEW b, NEW c, NEW d, NEW e, Amount(b), Amount(c), Amount(d), Amount(e), NEW x
    PROVE  FieldsFilled(a, b, c, d, e, x)
<1> DEFINE qb == Quantity(b)
           qc == Quantity(c)
           qd == Quantity(d)
           qe == Quantity(e)
           to == Unformatted(a)
           tb == TrimZeros(b)
           tc == TrimZeros(c)
           td == TrimZeros(d)
           te == TrimZeros(e)
           none == <<>>
<1>1. HexNumber(qb) = tb /\ HexNumber(qc) = tc /\ HexNumber(qd) = td /\ HexNumber(qe) = te
  BY AmountRead
<1>2. UtilityStringIsHex(qc) /\ UtilityStringIsHex(qd) /\ Given(qc)
  BY AmountRead
<1>3. HexRecipient(to) = a /\ UtilityStringIsHex(to) /\ Len(to) = 42
  BY AddressRead
<1> HIDE DEF qb, qc, qd, qe, to, tb, tc, td, te, none
<1>4. BoatEthTxInit(qc, qd, to, none) = TxFields(tc, qd, a)
  BY <1>1, <1>2, <1>3 DEF BoatEthTxInit, WellFormed, GasPrice
<1>5. BoatQuorumTxInit(qc, qd, to) = TxFields(none, qd, a)
  BY <1>1, <1>2, <1>3 DEF BoatQuorumTxInit, WellFormed, none
<1>6. \A price : TxFields(price, qd, a) = TxOf(none, price, td, a, none, none)
  BY <1>1 DEF TxFields, TxOf, none
<1>7. \A price : [BoatEthTransfer(TxOf(none, price, td, a, none, none), qb, qe) EXCEPT !.data = x]
                     = TxOf(tb, price, td, a, te, x)
  <2> TAKE price
  <2> DEFINE empty == TxOf(none, price, td, a, none, none)
  <2>1. BoatEthTransfer(empty, qb, qe) = [[[empty EXCEPT !.nonce = tb] EXCEPT !.value = te] EXCEPT !.data = none]
    <3> HIDE DEF empty
    <3> QED BY <1>1 DEF BoatEthTransfer, NonceAuto, none
  <2>2. [empty EXCEPT !.nonce = tb] = TxOf(tb, price, td, a, none, none)
    BY DEF TxOf
  <2>3. [TxOf(tb, price, td, a, none, none) EXCEPT !.value = te] = TxOf(tb, price, td, a, te, none)
    BY DEF TxOf
  <2>4. \A y : [TxOf(tb, price, td, a, te, none) EXCEPT !.data = y] = TxOf(tb, price, td, a, te, y)
    BY DEF TxOf
  <2> HIDE DEF empty
  <2>5. BoatEthTransfer(empty, qb, qe) = TxOf(tb, price, td, a, te, none)
    BY <2>1, <2>2, <2>3, <2>4, Zenon
  <2>6. [BoatEthTransfer(empty, qb, qe) EXCEPT !.data = x] = TxOf(tb, price, td, a, te, x)
    BY <2>4, <2>5, Zenon
  <2> QED BY <2>6 DEF empty
<1>8. [BoatEthTransfer(TxFields(tc, qd, a), qb, qe) EXCEPT !.data = x] = TxOf(tb, tc, td, a, te, x)
  BY <1>6, <1>7, Zenon
<1>9. [BoatEthTransfer(TxFields(none, qd, a), qb, qe) EXCEPT !.data = x] = TxOf(tb, none, td, a, te, x)
  BY <1>6, <1>7, Zenon
<1> QED
  BY <1>4, <1>5, <1>8, <1>9, Zenon
  DEF FieldsFilled, qb, qc, qd, qe, to, tb, tc, td, te, none

(* A nonce of two bytes, given as a number. *)
LEMMA ShortNonce ==
    ASSUME NEW s \in Seq(Byte), Len(s) = 2
    PROVE  /\ TxBytes(UtilityUint64ToBigend(0, BytesValue(s), TRUE))
           /\ TrimZeros(s) # <<>> => UtilityUint64ToBigend(0, BytesValue(s), TRUE) = TrimZeros(s)
<1> DEFINE n == BytesValue(s)
           w == UtilityUint64ToBigend(0, n, TRUE)
           o == Octets(n, 4)
           z == <<0, 0>>
<1>1. n \in Nat /\ n < TwoTo32
  <2>1. \A t \in Seq(Byte) : Len(t) <= 3 => BytesValue(t) \in Nat /\ BytesValue(t) < TwoTo32
    <3> TAKE t \in Seq(Byte)
    <3> HAVE Len(t) <= 3
    <3> QED BY SmallValue DEF TwoTo32
  <2>2. Len(s) <= 3
    OBVIOUS
  <2> QED BY <2>1, <2>2, Zenon
<1>2. /\ s[1] \in Nat /\ s[1] <= 255
      /\ s[2] \in Nat /\ s[2] <= 255
  <2>1. 1 \in 1..Len(s) /\ 2 \in 1..Len(s)
    OBVIOUS
  <2>2. s[1] \in Byte /\ s[2] \in Byte
    BY <2>1, ElementOfSeq
  <2>3. \A x \in Byte : x \in Nat /\ x <= 255
    BY DEF Byte
  <2> QED BY <2>2, <2>3, Zenon
<1>3. n = 256 * s[1] + s[2]
  <2> DEFINE f == Values256(s)
  <2>1. n = f[Len(s)] /\ f[0] = 0 /\ \A i \in 1..Len(s) : f[i] = 256 * f[i - 1] + s[i]
    BY Values256Facts
  <2>2. 1 \in 1..Len(s) /\ 2 \in 1..Len(s) /\ 1 - 1 = 0 /\ 2 - 1 = 1
    OBVIOUS
  <2> HIDE DEF f, n
  <2>3. f[1] = 256 * 0 + s[1] /\ f[2] = 256 * f[1] + s[2] /\ n = f[2]
    BY <2>1, <2>2
  <2> DEFINE a == s[1]
             b == s[2]
  <2>4. a \in Nat /\ b \in Nat
    BY <1>2
  <2>5. f[1] = 256 * 0 + a /\ f[2] = 256 * f[1] + b
    BY <2>3
  <2> HIDE DEF a, b
  <2>6. f[1] = a
    BY <2>4, <2>5
  <2>7. f[2] = 256 * a + b
    BY <2>5, <2>6
  <2> QED BY <2>3, <2>7 DEF a, b
<1> HIDE DEF n
<1>4. w = UtilityUint32ToBigend(n, TRUE)
  BY <1>1, BigendHalves
<1>5. w \in Seq(Byte) /\ Len(w) <= 4 /\ (n # 0 => w = TrimZeros(o))
  <2>1. /\ UtilityUint32ToBigend(n, TRUE) \in Seq(Byte) /\ Len(UtilityUint32ToBigend(n, TRUE)) <= 4
        /\ (n # 0 => UtilityUint32ToBigend(n, TRUE) = TrimZeros(o))
    BY <1>1, BigendFacts
  <2> QED BY <1>4, <2>1
<1>6. z \in Seq(Byte) /\ Len(z) = 2 /\ \A i \in 1..Len(z) : z[i] = 0
  BY DEF Byte
<1>7. o = z \o s
  <2>1. o \in Seq(Byte) /\ Len(o) = 4
    BY <1>1, OctetsFacts
  <2>2. o[1] = (n \div 16777216) % 256 /\ o[2] = (n \div 65536) % 256
        /\ o[3] = (n \div 256) % 256 /\ o[4] = n % 256
    BY <1>1, FourOctets
  <2> HIDE DEF o
  <2>3. o[1] = 0 /\ o[2] = 0 /\ o[3] = s[1] /\ o[4] = s[2]
    <3> DEFINE a == s[1]
               b == s[2]
    <3>1. a \in Nat /\ a <= 255 /\ b \in Nat /\ b <= 255 /\ n = 256 * a + b
      BY <1>2, <1>3
    <3> HIDE DEF a, b
    <3>2. n \div 256 = a /\ n % 256 = b
      BY <3>1
    <3>3. n \div 65536 = 0 /\ n \div 16777216 = 0
      BY <3>1
    <3>4. a % 256 = a
      BY <3>1
    <3> QED BY <2>2, <3>2, <3>3, <3>4 DEF a, b
  <2>4. \A p, q \in Seq(Byte) : /\ p \o q \in Seq(Byte) /\ Len(p \o q) = Len(p) + Len(q)
                                /\ \A i \in 1..Len(p) : (p \o q)[i] = p[i]
                                /\ \A i \in 1..Len(q) : (p \o q)[Len(p) + i] = q[i]
    BY Joined
  <2> DEFINE t == z \o s
  <2>5. /\ t \in Seq(Byte) /\ Len(t) = Len(z) + Len(s)
        /\ \A i \in 1..Len(z) : t[i] = z[i]
        /\ \A i \in 1..Len(s) : t[Len(z) + i] = s[i]
    BY <1>6, <2>4, Zenon
  <2> HIDE DEF t, z
  <2>6. Len(t) = 4 /\ t[1] = 0 /\ t[2] = 0 /\ t[3] = s[1] /\ t[4] = s[2]
    <3>1. 1 \in 1..2 /\ 2 \in 1..2 /\ 2 + 1 = 3 /\ 2 + 2 = 4
      OBVIOUS
    <3> QED BY <1>6, <2>5, <3>1
  <2>7. \A i \in 1..4 : o[i] = t[i]
    <3>1. \A i \in 1..4 : i = 1 \/ i = 2 \/ i = 3 \/ i = 4
      OBVIOUS
    <3> QED BY <2>3, <2>6, <3>1
  <2>8. o = t
    BY <2>1, <2>5, <2>6, <2>7, SameSeq
  <2> QED BY <2>8 DEF t
<1> HIDE DEF w, o
<1>8. TxBytes(w)
  <2>1. Len(w) \in Nat
    BY <1>5
  <2> QED BY <1>5, <2>1 DEF TxBytes
<1>9. ASSUME TrimZeros(s) # <<>> PROVE w = TrimZeros(s)
  <2>1. n # 0
    <3> SUFFICES ASSUME n = 0 PROVE FALSE
      OBVIOUS
    <3>1. s[1] = 0 /\ s[2] = 0
      BY <1>2, <1>3
    <3>2. \A i \in 1..Len(s) : i = 1 \/ i = 2
      OBVIOUS
    <3>3. \A i \in 1..Len(s) : s[i] = 0
      BY <3>1, <3>2
    <3>4. TrimZeros(s) = <<>>
      BY <3>3, TrimCase, Ranges
    <3> QED BY <1>9, <3>4
  <2>2. TrimZeros(z \o s) = TrimZeros(s)
    BY <1>6, TrimPadded
  <2> QED BY <1>5, <1>7, <2>1, <2>2
<1> QED BY <1>8, <1>9 DEF w, n

(* The numbers of the signature. *)
LEMMA SignatureNumbers ==
    ASSUME NEW a \in Seq(Byte), a # <<>>, Len(a) <= 32, NEW b \in Seq(Byte), b # <<>>, Len(b) <= 32,
           NEW parity
    PROVE  TwoNumbers([r |-> <<0>> \o a, s |-> b, parity |-> parity], TrimZeros(a), TrimZeros(b))
<1> DEFINE z == <<0>>
           r == z \o a
           ta == TrimZeros(a)
           tb == TrimZeros(b)
           signature == [r |-> r, s |-> b, parity |-> parity]
<1>1. TxBytes(ta) /\ TxBytes(tb)
  BY AmountRead DEF Amount
<1>2. TrimZeros(r) = ta
  <2>1. z \in Seq(Byte) /\ \A i \in 1..Len(z) : z[i] = 0
    BY ZeroTexts
  <2> HIDE DEF z
  <2> QED BY <2>1, TrimPadded
<1>3. \A t : Trimmed(t) = TrimZeros(t)
  BY DEF Trimmed, UtilityTrimBin
<1> HIDE DEF r, ta, tb
<1>4. signature.r = r /\ signature.s = b
  OBVIOUS
<1> HIDE DEF signature
<1>5. TwoNumbers(signature, ta, tb)
  BY <1>1, <1>2, <1>3, <1>4 DEF TwoNumbers, tb
<1> QED BY <1>5 DEF signature, r, ta, tb

(* Lengths stay below what the 32 bits of the code can say. *)
SizeInv == size <= 2147483647

LEMMA SizeAlways == DataSpec => []SizeInv
<1>1. DataInit => SizeInv
  BY DEF DataInit, SizeInv
<1>2. SizeInv /\ [DataNext]_dataVars => SizeInv'
  BY DataAssumption DEF SizeInv, DataNext, AppendByte, Resize, dataVars
<1> QED BY <1>1, <1>2, PTL DEF DataSpec

LEMMA StretchIsAmount ==
    ASSUME DataInv, NEW k \in Nat \ {0}, k <= 32
    PROVE  Amount(Stretch(k))
<1>1. Stretch(k) \in Seq(Byte) /\ Len(Stretch(k)) = k
  BY StretchFacts
<1>2. Stretch(k) # <<>>
  BY <1>1, SMTT(30)
<1> QED BY <1>1, <1>2 DEF Amount

LEMMA RawAlwaysDecodes ==
    ASSUME DataInv, SizeInv
    PROVE  RawTxDecodes
<1> SUFFICES ASSUME NEW network \in ChainNetworks, NEW parity \in {0, 1}
    PROVE
      LET number(k) == TrimZeros(Stretch(k))
          texts     == <<Quantity(Stretch(2)), Quantity(Stretch(3))>>
          address   == Stretch(20)
          signature == [r |-> <<0>> \o Stretch(31), s |-> Stretch(32), parity |-> parity]
          filled(tx) == [BoatEthTransfer(tx, Quantity(Stretch(1)), Quantity(Stretch(9)))
                            EXCEPT !.data = payload]
          eth    == filled(BoatEthTxInit(texts[1], texts[2], Unformatted(address), <<>>))
          free   == filled(BoatQuorumTxInit(texts[1], texts[2], Unformatted(address)))
          reads(raw, price, carried, plain) ==
              LET six == <<number(1), price, number(3), address, number(9), carried>>
                  v   == RlpItems(raw.sent, 9).items[7]
              IN  /\ UtilityHexToBin(Len(raw.sent), SignedText(raw), FALSE, FALSE) = raw.sent
                  /\ IsListOf(raw.sent, six \o <<v, number(31), number(32)>>)
                  /\ SaysChain(BytesValue(v), network, parity, plain)
                  /\ IsListOf(raw.hashed,
                        six \o IF network.eip155 THEN <<TrimZeros(Octets(network.chainId, 4)), <<>>, <<>>>>
                               ELSE <<>>)
          given  == EthSendRawtx(NonceGiven(eth, 0, BytesValue(Stretch(2))), network, signature)
      IN  /\ reads(EthSendRawtx(eth, network, signature), number(2), payload, 27)
          /\ number(2) # <<>> => RlpItems(given.sent, 9).items[1] = number(2)
          /\ reads(PlatONSendRawtx(eth, network, signature), number(2), payload, 27)
          /\ reads(QuorumSendRawtx(free, network, signature, FALSE, <<>>, <<>>), <<>>, payload, 27)
          /\ reads(QuorumSendRawtx(free, network, signature, TRUE, Unformatted(Stretch(64)), <<>>),
                   <<>>, Stretch(64), 37)
  BY DEF RawTxDecodes
<1> DEFINE number(k) == TrimZeros(Stretch(k))
           address == Stretch(20)
           signature == [r |-> <<0>> \o Stretch(31), s |-> Stretch(32), parity |-> parity]
           filled(tx) == [BoatEthTransfer(tx, Quantity(Stretch(1)), Quantity(Stretch(9)))
                             EXCEPT !.data = payload]
           texts == <<Quantity(Stretch(2)), Quantity(Stretch(3))>>
           eth == filled(BoatEthTxInit(texts[1], texts[2], Unformatted(address), <<>>))
           free == filled(BoatQuorumTxInit(texts[1], texts[2], Unformatted(address)))
           r == number(31)
           s == number(32)
           n1 == number(1)
           n2 == number(2)
           n3 == number(3)
           n9 == number(9)
           private == Stretch(64)
           answer == Unformatted(private)
           none == <<>>
           six(price, carried) == <<n1, price, n3, address, n9, carried>>
           nonce == UtilityUint64ToBigend(0, BytesValue(Stretch(2)), TRUE)
           given == NonceGiven(eth, 0, BytesValue(Stretch(2)))
<1>1. /\ Amount(Stretch(1)) /\ Amount(Stretch(2)) /\ Amount(Stretch(3)) /\ Amount(Stretch(9))
      /\ Amount(address) /\ Amount(Stretch(31)) /\ Amount(Stretch(32))
  BY StretchIsAmount
<1>2. TxBytes(n1) /\ TxBytes(n2) /\ TxBytes(n3) /\ TxBytes(n9) /\ TxBytes(address)
  BY <1>1, AmountRead, Zenon
<1>3. address \in Seq(Byte) /\ Len(address) = 20
  BY StretchFacts
<1>4. TxData(payload) /\ TxData(private) /\ TxBytes(none)
  <2>1. payload \in Seq(Byte) /\ Len(payload) = size
    BY StretchFacts DEF payload, DataInv
  <2>2. private \in Seq(Byte) /\ Len(private) = 64
    BY StretchFacts
  <2>3. none \in Seq(Byte) /\ Len(none) = 0
    OBVIOUS
  <2> HIDE DEF private, none
  <2> QED BY <2>1, <2>2, <2>3 DEF TxData, TxBytes, SizeInv
<1>5. TwoNumbers(signature, r, s) /\ signature.parity = parity
  <2> DEFINE a == Stretch(31)
             b == Stretch(32)
  <2>1. a \in Seq(Byte) /\ a # <<>> /\ Len(a) <= 32 /\ b \in Seq(Byte) /\ b # <<>> /\ Len(b) <= 32
    BY <1>1 DEF Amount
  <2> HIDE DEF a, b
  <2>2. TwoNumbers([r |-> <<0>> \o a, s |-> b, parity |-> parity], TrimZeros(a), TrimZeros(b))
    BY <2>1, SignatureNumbers
  <2>3. signature.parity = parity
    OBVIOUS
  <2> QED BY <2>2, <2>3 DEF a, b
<1>6. eth = TxOf(n1, n2, n3, address, n9, payload) /\ free = TxOf(n1, none, n3, address, n9, payload)
  <2> DEFINE b == Stretch(1)
             c == Stretch(2)
             d == Stretch(3)
             e == Stretch(9)
  <2>1. texts[1] = Quantity(c) /\ texts[2] = Quantity(d)
    OBVIOUS
  <2>2. Amount(b) /\ Amount(c) /\ Amount(d) /\ Amount(e)
    BY <1>1
  <2> HIDE DEF address, b, c, d, e, texts
  <2>3. FieldsFilled(address, b, c, d, e, payload)
    BY <1>3, <2>2, EthFields
  <2> QED BY <2>1, <2>3, Zenon DEF FieldsFilled, b, c, d, e
<1>7. given = TxOf(nonce, n2, n3, address, n9, payload) /\ TxBytes(nonce)
      /\ (n2 # <<>> => nonce = n2)
  <2> DEFINE z == Stretch(2)
  <2>1. z \in Seq(Byte) /\ Len(z) = 2
    BY StretchFacts
  <2> HIDE DEF z
  <2>2. /\ TxBytes(UtilityUint64ToBigend(0, BytesValue(z), TRUE))
        /\ TrimZeros(z) # <<>> => UtilityUint64ToBigend(0, BytesValue(z), TRUE) = TrimZeros(z)
    BY <2>1, ShortNonce
  <2>3. given = [eth EXCEPT !.nonce = nonce]
    <3> HIDE DEF eth
    <3> QED BY DEF NonceGiven
  <2> HIDE DEF given, eth, n1, n2, n3, n9, address, nonce
  <2>4. [TxOf(n1, n2, n3, address, n9, payload) EXCEPT !.nonce = nonce]
            = TxOf(nonce, n2, n3, address, n9, payload)
    BY DEF TxOf
  <2>5. given = TxOf(nonce, n2, n3, address, n9, payload)
    BY <1>6, <2>3, <2>4, Zenon
  <2> QED BY <2>2, <2>5 DEF z, nonce, n2
<1>8. PrivateData(answer, none) = private
  <2>1. private \in Seq(Byte) /\ Len(private) = 64
    BY StretchFacts
  <2> HIDE DEF private
  <2> QED BY <2>1, PrivateRead
<1>9. private \in Seq(Byte)
  BY StretchFacts
<1> HIDE DEF number, address, signature, eth, free, r, s, n1, n2, n3, n9, private, answer, none, nonce, given
<1>10. ASSUME NEW price, TxBytes(price), NEW carried, TxData(carried)
       PROVE  /\ SixFields(TxOf(n1, price, n3, address, n9, carried)) = six(price, carried)
              /\ TxFieldsAre(six(price, carried))
  BY <1>2, <1>10, SixOf
<1>11. RawReads(EthSendRawtx(eth, network, signature), six(n2, payload), network, parity, 27, r, s)
  <2> DEFINE raw == EthSendRawtx(eth, network, signature)
             f == six(n2, payload)
  <2>1. SixFields(eth) = f /\ TxFieldsAre(f)
    BY <1>2, <1>4, <1>6, <1>10
  <2>2. raw.hashed = Unsigned(eth, network) /\ raw.sent = Signed(eth, VOf(network, parity, 27), signature)
    BY <1>5 DEF EthSendRawtx
  <2> HIDE DEF raw, f
  <2>3. RawReads(raw, SixFields(eth), network, parity, 27, r, s)
    BY <1>5, <2>1, <2>2, RawReadsBack
  <2> QED BY <2>1, <2>3 DEF raw, f
<1>12. RawReads(PlatONSendRawtx(eth, network, signature), six(n2, payload), network, parity, 27, r, s)
  <2> DEFINE raw == PlatONSendRawtx(eth, network, signature)
             f == six(n2, payload)
  <2>1. SixFields(eth) = f /\ TxFieldsAre(f)
    BY <1>2, <1>4, <1>6, <1>10
  <2>2. raw.hashed = Unsigned(eth, network) /\ raw.sent = Signed(eth, VOf(network, parity, 27), signature)
    BY <1>5 DEF PlatONSendRawtx, PlatONHashed, PlatONSent
  <2> HIDE DEF raw, f
  <2>3. RawReads(raw, SixFields(eth), network, parity, 27, r, s)
    BY <1>5, <2>1, <2>2, RawReadsBack
  <2> QED BY <2>1, <2>3 DEF raw, f
<1>13. RawReads(QuorumSendRawtx(free, network, signature, FALSE, none, none), six(none, payload),
                network, parity, 27, r, s)
  <2> DEFINE raw == QuorumSendRawtx(free, network, signature, FALSE, none, none)
             f == six(none, payload)
  <2>1. SixFields(free) = f /\ TxFieldsAre(f)
    BY <1>4, <1>6, <1>10
  <2>2. raw.hashed = Unsigned(free, network) /\ raw.sent = Signed(free, VOf(network, parity, 27), signature)
    BY <1>5 DEF QuorumSendRawtx, QuorumCarried, QuorumHashed, QuorumSent, QuorumV
  <2> HIDE DEF raw, f
  <2>3. RawReads(raw, SixFields(free), network, parity, 27, r, s)
    BY <1>5, <2>1, <2>2, RawReadsBack
  <2> QED BY <2>1, <2>3 DEF raw, f
<1>14. RawReads(QuorumSendRawtx(free, network, signature, TRUE, answer, none), six(none, private),
                network, parity, 37, r, s)
  <2> DEFINE raw == QuorumSendRawtx(free, network, signature, TRUE, answer, none)
             tx == TxOf(n1, none, n3, address, n9, private)
             f == six(none, private)
  <2>1. SixFields(tx) = f /\ TxFieldsAre(f)
    BY <1>4, <1>10
  <2>2. QuorumCarried(free, TRUE, answer, none) = tx
    <3>1. [TxOf(n1, none, n3, address, n9, payload) EXCEPT !.data = private] = tx
      BY DEF TxOf
    <3>2. QuorumCarried(free, TRUE, answer, none) = [free EXCEPT !.data = PrivateData(answer, none)]
      BY DEF QuorumCarried
    <3> HIDE DEF tx
    <3> QED BY <1>6, <1>8, <3>1, <3>2, Zenon
  <2> HIDE DEF tx
  <2>3. raw.hashed = Unsigned(tx, network) /\ raw.sent = Signed(tx, VOf(network, parity, 37), signature)
    <3>1. raw = [hashed |-> QuorumHashed(QuorumCarried(free, TRUE, answer, none), network),
                 sent |-> QuorumSent(QuorumCarried(free, TRUE, answer, none), network, signature, TRUE)]
      BY DEF QuorumSendRawtx
    <3>2. QuorumV(network, signature.parity, TRUE) = VOf(network, parity, 37)
      BY <1>5 DEF QuorumV
    <3>3. /\ QuorumHashed(tx, network) = Unsigned(tx, network)
          /\ QuorumSent(tx, network, signature, TRUE) = Signed(tx, VOf(network, parity, 37), signature)
      BY <3>2 DEF QuorumHashed, QuorumSent
    <3> HIDE DEF raw
    <3> QED BY <2>2, <3>1, <3>3
  <2> HIDE DEF raw, f
  <2>4. RawReads(raw, SixFields(tx), network, parity, 37, r, s)
    BY <1>5, <2>1, <2>3, RawReadsBack
  <2> QED BY <2>1, <2>4 DEF raw, f
<1>15. n2 # none => RlpItems(EthSendRawtx(given, network, signature).sent, 9).items[1] = n2
  <2> DEFINE raw == EthSendRawtx(given, network, signature)
             f == <<nonce, n2, n3, address, n9, payload>>
  <2>1. SixFields(given) = f /\ TxFieldsAre(f)
    BY <1>2, <1>4, <1>7, SixOf
  <2>2. raw.hashed = Unsigned(given, network) /\ raw.sent = Signed(given, VOf(network, parity, 27), signature)
    BY <1>5 DEF EthSendRawtx
  <2>3. f[1] = nonce
    OBVIOUS
  <2> HIDE DEF raw, f
  <2>4. RawReads(raw, SixFields(given), network, parity, 27, r, s)
    BY <1>5, <2>1, <2>2, RawReadsBack
  <2>5. RlpItems(raw.sent, 9).items[1] = nonce
    BY <2>1, <2>3, <2>4 DEF RawReads
  <2> QED BY <1>7, <2>5 DEF raw, none
<1> QED
  BY <1>11, <1>12, <1>13, <1>14, <1>15
  DEF RawReads, Guard, number, address, signature, eth, free, r, s, n1, n2, n3, n9, private, answer, none, given

(***************************************************************************)
(* TransactionsDecode for all data and every payload: whatever the wallet  *)
(* APIs are given as texts and numbers, the bytes that are sent hold the   *)
(* same fields in the same order, v says the chain and the parity, and the *)
(* bytes that were hashed are the fields with the chain's guard; up to the *)
(* largest chain id the code claims to support, with v of 16 or 32 bits    *)
(* (EthSendRawtx, PlatONSendRawtx, QuorumSendRawtx, RlpEncode).            *)
(***************************************************************************)
THEOREM TransactionsAlwaysDecode == DataSpec => []TransactionsDecode
<1>1. DataInv /\ SizeInv => RawTxDecodes
  BY RawAlwaysDecodes
<1>2. DataSpec => []RawTxDecodes
  BY <1>1, DataAlways, SizeAlways, PTL
<1>3. RawTxDecodes /\ BigendKeepsValue => TransactionsDecode
  BY DEF TransactionsDecode
<1> QED BY <1>2, <1>3, BigendAlwaysKeepsValue, PTL

=============================================================================
