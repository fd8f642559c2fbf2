------------------------------- MODULE Encodings -------------------------------
(***************************************************************************)
(* The conversions of boatutility.c and base64.c through which every       *)
(* amount, nonce, address, hash, key and stored record of the SDK passes.  *)
(*                                                                         *)
(* Data are sequences of bytes, most significant first.  A text is a       *)
(* sequence of characters: a hexadecimal digit is its value 0..15, and the *)
(* only other characters the code tells apart are Ex ('x' or 'X') and      *)
(* anything else.  A base64 character is its index 0..63 in the alphabet.  *)
(* A conversion the code refuses by returning 0 is the empty sequence.     *)
(***************************************************************************)
EXTENDS Integers, Sequences, SequencesExt

CONSTANTS WordBits,     \* bits of a word of the external number (32)
          LimbBits,     \* bits of a limb of the internal number (30)
          Words         \* words of a number (8)

ASSUME WidthsAssumption ==
    /\ WordBits \in Nat \ {0} /\ LimbBits \in Nat \ {0} /\ Words \in Nat \ {0}
    /\ LimbBits <= WordBits
    /\ (2 * Words - 1) * (WordBits - LimbBits) <= LimbBits

Ex == 16                \* the 'x' of the prefix "0x"
Prefix == <<0, Ex>>

(* The sum of a sequence of numbers.                                       *)
Total(ns) ==
    LET sum[i \in 0 .. Len(ns)] == IF i = 0 THEN 0 ELSE sum[i - 1] + ns[i]
    IN  sum[Len(ns)]

-----------------------------------------------------------------------------
(* Leading zeros.                                                          *)

TrimZeros(s) ==
    LET kept == {i \in DOMAIN s : s[i] # 0}
    IN  IF kept = {} THEN <<>> ELSE SubSeq(s, Min(kept), Len(s))

UtilityTrimBin(from, leftTrim, zeroAsNull) ==
    CASE ~leftTrim                                   -> from
      [] leftTrim /\ TrimZeros(from) # <<>>          -> TrimZeros(from)
      [] leftTrim /\ TrimZeros(from) = <<>>          -> IF zeroAsNull THEN <<>> ELSE <<0>>

-----------------------------------------------------------------------------
(* Hexadecimal texts.                                                      *)

TrimModes == {"unfmtdata", "fmtdata", "quantity"}

Digits(bytes) ==
    [i \in 1 .. 2 * Len(bytes) |->
        IF i % 2 = 1 THEN bytes[(i + 1) \div 2] \div 16 ELSE bytes[i \div 2] % 16]

(* "unfmtdata" keeps every digit, "fmtdata" drops leading zero bytes and   *)
(* "quantity" leading zero digits; a number that is zero leaves no digit.  *)
HexDigits(from, mode) ==
    CASE mode = "unfmtdata" -> Digits(from)
      [] mode = "fmtdata"   -> Digits(TrimZeros(from))
      [] mode = "quantity"  -> TrimZeros(Digits(from))

UtilityBinToHex(from, mode, prefix, zeroAsNull) ==
    LET head   == IF prefix THEN Prefix ELSE <<>>
        digits == HexDigits(from, mode)
        zero   == IF mode = "quantity" THEN <<0>> ELSE <<0, 0>>
    IN  CASE from = <<>>                   -> <<>>
          [] from # <<>> /\ digits # <<>>  -> head \o digits
          [] from # <<>> /\ digits = <<>>  -> IF zeroAsNull THEN <<>> ELSE head \o zero

IsDigit(c) == c \in 0 .. 15

(* An odd text is read as if a '0' stood before it. *)
EvenDigits_ZeroBehind(text) == IF Len(text) % 2 = 1 THEN Append(text, 0) ELSE text
EvenDigits(text) == IF Len(text) % 2 = 1 THEN <<0>> \o text ELSE text

(* The loop ends when the buffer of "size" bytes is full: a wrong          *)
(* character behind that point is never seen, one before it makes the      *)
(* whole conversion fail.                                                  *)
UtilityHexToBin(size, from, leftTrim, zeroAsNull) ==
    LET bare   == IF Len(from) > 2 /\ from[1] = 0 /\ from[2] = Ex
                  THEN SubSeq(from, 3, Len(from)) ELSE from
        digits == EvenDigits(bare)
        wrong  == {i \in DOMAIN digits : ~IsDigit(digits[i])}
        read   == IF wrong = {} THEN Len(digits) ELSE Min(wrong) - 1
        bytes  == [i \in 1 .. read \div 2 |-> 16 * digits[2 * i - 1] + digits[2 * i]]
        kept   == IF leftTrim THEN TrimZeros(bytes) ELSE bytes
    IN  CASE size = 0                                         -> <<>>
          [] size > 0 /\ Len(kept) >= size                    -> SubSeq(kept, 1, size)
          [] size > 0 /\ Len(kept) < size /\ wrong # {}       -> <<>>
          [] size > 0 /\ Len(kept) < size /\ wrong = {}       ->
                IF kept = <<>> /\ ~zeroAsNull THEN <<0>> ELSE kept

UtilityStringIsHex(text) ==
    /\ Len(text) >= 2 /\ text[1] = 0 /\ text[2] = Ex
    /\ \A i \in 3 .. Len(text) : IsDigit(text[i])

(* Only the eight leading bytes of an amount of wei are kept; the number   *)
(* of bytes behind them is the power of 256 they are multiplied with.      *)
UtilityWeiStrToEthDouble(wei) ==
    LET bytes == UtilityHexToBin((Len(wei) + 1) \div 2, wei, TRUE, FALSE)
        kept  == IF Len(bytes) > 8 THEN 8 ELSE Len(bytes)
    IN  [bytes |-> SubSeq(bytes, 1, kept), shift |-> Len(bytes) - kept]

-----------------------------------------------------------------------------
(* Byte order.  A 64-bit number is given by its two 32-bit halves.         *)

Octets(n, count) == [i \in 1 .. count |-> (n \div 256 ^ (count - i)) % 256]

BytesValue(s) ==
    LET value[i \in 0 .. Len(s)] == IF i = 0 THEN 0 ELSE 256 * value[i - 1] + s[i]
    IN  value[Len(s)]

UtilityUint32ToBigend(n, leftTrim) == UtilityTrimBin(Octets(n, 4), leftTrim, FALSE)

UtilityUint64ToBigend(high, low, leftTrim) ==
    UtilityTrimBin(Octets(high, 4) \o Octets(low, 4), leftTrim, FALSE)

(* The loop counter is one signed byte, so at most 128 pairs are swapped.  *)
UtilityChangeEndian(value) ==
    LET n     == Len(value)
        pairs == IF n \div 2 <= 128 THEN n \div 2 ELSE 128
    IN  [i \in 1 .. n |-> IF i <= pairs \/ i > n - pairs THEN value[n + 1 - i] ELSE value[i]]

(* On a little-endian host both directions reverse the bytes of the word.  *)
UtilityHtonl(word) == UtilityChangeEndian(word)
UtilityNtohl(word) == [i \in 1 .. 4 |-> word[5 - i]]

(* The top bit of the first byte is dropped. *)
UtilityBuint8Buf2Uint64(from) == [from EXCEPT ![1] = @ % 128]

-----------------------------------------------------------------------------
(* Numbers of Words words of WordBits bits, and the same numbers in limbs  *)
(* of LimbBits bits; "carry" is the variable temp of both loops.           *)

Excess == WordBits - LimbBits
Cut(n, bits) == n % 2 ^ bits

UtilityReadBigendToBignum(words) ==
    LET word(i)  == words[Words - i]
        carry(i) == IF i = 0 THEN 0 ELSE word(i - 1) \div 2 ^ (LimbBits - Excess * (i - 1))
    IN  [i \in 0 .. Words |->
            IF i = Words THEN carry(i)
            ELSE Cut(carry(i) + word(i) * 2 ^ (Excess * i), LimbBits)]

UtilityWriteBignumToBigend(limbs) ==
    LET left(i) == Excess * (Words + i)
    IN  [w \in 1 .. Words |->
            LET i == w - 1
            IN  Cut(limbs[Words - i] * 2 ^ left(i)
                        + (limbs[Words - 1 - i] \div 2 ^ (LimbBits - left(i))), WordBits)]

-----------------------------------------------------------------------------
(* Tag, length and value, and length and value.                            *)

BitString == 3
OctetString == 4
Oid == 6
Sequence == 48          \* constructed | sequence
Context(i) == 160 + i   \* constructed | context specific

UtilityGetTLV_LL_from_len(n) ==
    IF n < 128 THEN 1 ELSE IF n \div 128 = 1 THEN 2 ELSE 3

LengthBytes(n) ==
    CASE UtilityGetTLV_LL_from_len(n) = 1 -> <<n>>
      [] UtilityGetTLV_LL_from_len(n) = 2 -> <<129, n>>
      [] UtilityGetTLV_LL_from_len(n) = 3 -> <<130, (n \div 256) % 256, n % 256>>

(* Nothing at all is put in place for an empty value, not even its length. *)
add_L_withOffset(value) ==
    IF value = <<>> THEN <<>> ELSE LengthBytes(Len(value)) \o value

(* A bit string gets the byte that counts its unused bits. *)
add_TL_withOffset(tag, value) ==
    LET whole == IF tag = BitString THEN <<0>> \o value ELSE value
    IN  IF whole = <<>> THEN <<>> ELSE <<tag>> \o LengthBytes(Len(whole)) \o whole

ByteAt(s, i) == IF i \in DOMAIN s THEN s[i] ELSE 0

(* The value of the length bytes at position i of s, or -1.                *)
UtilityGetLVData_L(s, i) ==
    CASE ByteAt(s, i) < 128          -> ByteAt(s, i)
      [] ByteAt(s, i) = 129          -> ByteAt(s, i + 1)
      [] ByteAt(s, i) = 130          -> 256 * ByteAt(s, i + 1) + ByteAt(s, i + 2)
      [] ByteAt(s, i) \in 128 .. 255 \ {129, 130} -> -1

UtilityGetTLV_L(s) == UtilityGetLVData_L(s, 2)

UtilityGetTLV_LL(s) ==
    CASE ByteAt(s, 2) < 128  -> 1
      [] ByteAt(s, 2) = 129  -> 2
      [] ByteAt(s, 2) = 130  -> 3
      [] ByteAt(s, 2) \in 128 .. 255 \ {129, 130} -> -1

NoTLV == [ok |-> FALSE]

(* The first tag, length and value of s; refused when s ends before it.    *)
UtilityGetTLV(s) ==
    LET ll    == UtilityGetTLV_LL(s)
        len   == UtilityGetTLV_L(s)
    IN  IF ll < 0 \/ len + ll + 1 > Len(s) THEN NoTLV
        ELSE [ok |-> TRUE, tag |-> s[1], whole |-> 1 + ll + len,
              data |-> SubSeq(s, 2 + ll, 1 + ll + len)]

-----------------------------------------------------------------------------
(* The four bytes 0xAA 0x55 n crc that guard every count of records: the   *)
(* crc, the exclusive or of the three, is the complement of n.             *)

utility_get_NumBytes(n) == <<170, 85, n, 255 - n>>

NoCount == -1

utility_check_NumBytes(four) ==
    IF four[1] = 170 /\ four[2] = 85 /\ four[4] = 255 - four[3] THEN four[3] ELSE NoCount

-----------------------------------------------------------------------------
(* A signature r, s of 32 bytes each, in ASN.1.                            *)

utility_signature_to_asn1_NoSign(signature) ==
    <<48, 68, 2, 32>> \o SubSeq(signature, 1, 32) \o <<2, 32>> \o SubSeq(signature, 33, 64)

utility_signature_to_asn1(signature) ==
    LET r == SubSeq(signature, 1, 32)
        s == SubSeq(signature, 33, 64)
    IN  (IF r[1] >= 128 THEN <<48, 69, 2, 33, 0>> ELSE <<48, 68, 2, 32>>)
            \o r \o <<2, 32>> \o s

-----------------------------------------------------------------------------
(* Base64.  Pad is '=', Blank a space or line end, Alien any character     *)
(* outside the alphabet.                                                   *)

Pad == 64
Blank == 65
Alien == 66

Sextets(n) == (8 * n + 5) \div 6

BoAT_base64_encode(in) ==
    LET n       == Len(in)
        b(i)    == ByteAt(in, i)
        sextet(k) == LET g == 3 * (k \div 4)
                     IN  CASE k % 4 = 0 -> b(g + 1) \div 4
                           [] k % 4 = 1 -> 16 * (b(g + 1) % 4) + (b(g + 2) \div 16)
                           [] k % 4 = 2 -> 4 * (b(g + 2) % 16) + (b(g + 3) \div 64)
                           [] k % 4 = 3 -> b(g + 3) % 64
    IN  [k \in 1 .. 4 * ((n + 2) \div 3) |->
            IF k <= Sextets(n) THEN sextet(k - 1) ELSE Pad]

BoAT_base64_decode(in) ==
    LET ends  == {i \in DOMAIN in : in[i] = Pad}
        upTo  == IF ends = {} THEN Len(in) ELSE Min(ends) - 1
        c(k)  == in[k + 1]
        byte(j) == LET g == 4 * (j \div 3)
                   IN  CASE j % 3 = 0 -> 4 * c(g) + ((c(g + 1) \div 16) % 4)
                         [] j % 3 = 1 -> 16 * (c(g + 1) % 16) + ((c(g + 2) \div 4) % 16)
                         [] j % 3 = 2 -> 64 * (c(g + 2) % 4) + c(g + 3)
    IN  IF Len(in) % 4 # 0 \/ \E i \in 1 .. upTo : in[i] \notin 0 .. 63 THEN <<>>
        ELSE [j \in 1 .. (6 * upTo) \div 8 |-> byte(j - 1)]

================================================================================
