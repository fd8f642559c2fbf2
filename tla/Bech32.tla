--------------------------------- MODULE Bech32 ---------------------------------
(***************************************************************************)
(* The text form of PlatON addresses (boatplatonbech32.c): a prefix, the   *)
(* separator '1', the address in groups of five bits and six characters of *)
(* checksum.  A text is a sequence of ASCII codes.  The checksum register  *)
(* of 30 bits is the set of its bits that are 1, so that the exclusive or  *)
(* is the symmetric difference.                                            *)
(***************************************************************************)
EXTENDS Integers, Sequences, SequencesExt, FiniteSets

Separator == 49         \* '1'

BECH32ALPHABET ==
    << 113, 112, 122, 114, 121, 57, 120, 56, 103, 102, 50, 116, 118, 100, 119, 48,
       115, 51, 106, 110, 53, 52, 107, 104, 99, 101, 54, 109, 117, 97, 55, 108 >>

(* The value of a character, 255 (-1 in a byte) for one outside the        *)
(* alphabet.  Capital letters count as small ones.                         *)
CHARSET_REV(c) ==
    LET small == IF c \in 65 .. 90 THEN c + 32 ELSE c
        found == {k \in DOMAIN BECH32ALPHABET : BECH32ALPHABET[k] = small}
    IN  IF found = {} THEN 255 ELSE Min(found) - 1

(* The bits of the bytes regrouped; the last group is filled with zeros.   *)
(* A byte is ORed whole to the bits not yet output: the high bits of one   *)
(* that has more than fromBits (255 for a foreign character) fall on those *)
(* of its predecessors that the group still waits for.                     *)
BoatConvertBits(in, fromBits, toBits) ==
    LET read(k) == Min({Len(in), (toBits * (k \div toBits + 1) + fromBits - 1) \div fromBits})
        bit(k) == \E j \in k \div fromBits + 1 .. read(k) :
                     LET b == fromBits * j - 1 - k
                     IN  b <= 7 /\ (in[j] \div 2 ^ b) % 2 = 1
        groups == (fromBits * Len(in) + toBits - 1) \div toBits
    IN  [g \in 1 .. groups |->
            FoldLeft(LAMBDA v, k : 2 * v + (IF bit(toBits * (g - 1) + k) THEN 1 ELSE 0), 0,
                     [k \in 1 .. toBits |-> k - 1])]

BoatExpandHrp(hrp) ==
    [i \in 1 .. Len(hrp) |-> (hrp[i] % 128) \div 32] \o <<0>> \o [i \in 1 .. Len(hrp) |-> hrp[i] % 32]

-----------------------------------------------------------------------------
(* The checksum.                                                           *)

Xor(a, b) == (a \ b) \cup (b \ a)
BitsOf(n) == {b \in 0 .. 29 : (n \div 2 ^ b) % 2 = 1}

Generator == << 996825010, 642813549, 513874426, 1027748829, 705979059 >>
GeneratorBits == [k \in DOMAIN Generator |-> BitsOf(Generator[k])]

PolymodStep(chk, value) ==
    LET shifted  == {c + 5 : c \in chk \cap (0 .. 24)}
        added(b) == {k \in DOMAIN Generator : 24 + k \in chk /\ b \in GeneratorBits[k]}
    IN  Xor(Xor(shifted, BitsOf(value)), {b \in 0 .. 29 : Cardinality(added(b)) % 2 = 1})

BoatBech32Polymod(hrp, data) ==
    LET values == hrp \o data \o [i \in 1 .. 6 |-> 0]
        after[n \in 0 .. Len(values), chk \in SUBSET (0 .. 29)] ==
            IF n = Len(values) THEN chk ELSE after[n + 1, PolymodStep(chk, values[n + 1])]
        checksum == Xor(after[0, {0}], {0})
    IN  [i \in 1 .. 6 |-> FoldLeft(LAMBDA v, b : 2 * v + (IF b \in checksum THEN 1 ELSE 0), 0,
                                   [k \in 1 .. 5 |-> 5 * (6 - i) + 5 - k])]

-----------------------------------------------------------------------------

Letters(values) == [i \in DOMAIN values |-> BECH32ALPHABET[values[i] + 1]]

NoText == <<>>

BoatPlatONBech32Encode(in, hrp) ==
    LET data == BoatConvertBits(in, 8, 5)
    IN  IF Len(hrp) \notin 1 .. 83 THEN NoText
        ELSE hrp \o <<Separator>> \o Letters(data)
                 \o Letters(BoatBech32Polymod(BoatExpandHrp(hrp), data))

(* The prefix ends at the first separator.  What is decoded may have any   *)
(* length: only the checksum is checked.                                   *)
BoatPlatONBech32Decode(in) ==
    LET ends == {i \in DOMAIN in : in[i] = Separator}
        hrp  == SubSeq(in, 1, Min(ends) - 1)
        rest == SubSeq(in, Min(ends) + 1, Len(in))
        chars == SubSeq(rest, 1, Len(rest) - 6)
        data == [i \in DOMAIN chars |-> CHARSET_REV(chars[i])]
        checksum == Letters(BoatBech32Polymod(BoatExpandHrp(hrp), data))
    IN  IF ends = {} THEN NoText
        ELSE IF Len(hrp) \notin 1 .. 83 \/ Len(rest) <= 6 THEN NoText
        ELSE IF SubSeq(rest, Len(rest) - 5, Len(rest)) # checksum THEN NoText
        ELSE BoatConvertBits(data, 5, 8)

================================================================================
