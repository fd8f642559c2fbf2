------------------------------ MODULE KeyDocument ------------------------------
(***************************************************************************)
(* Private keys handed in from outside: a PEM document of either format is *)
(* read into a native key (UtilityPKCS2Native), a native key is written as *)
(* a document (UtilityNative2PKCS), and a keypair is made from a document, *)
(* from native bytes or by the key generator (boat_keystore_intf.c).       *)
(*                                                                         *)
(* A document is its format and the base64 text between its two lines.     *)
(***************************************************************************)
EXTENDS Encodings

CONSTANTS PubKeyOf(_, _)    \* type and private key: the public key (ecdsa_get_public_key65)

Formats == {"sec1", "pkcs8", "none"}
Algs == {"secp256k1", "secp256r1", "sm2"}
UnknownAlg == "unknown"

NoKey == [alg |-> UnknownAlg, prikey |-> <<>>, pubkey |-> <<>>]

-----------------------------------------------------------------------------
(* The list of tag, length and value items of s, with Malformed in place   *)
(* of the first that does not fit.                                         *)

Malformed == [ok |-> FALSE]

Items(s) ==
    LET from[o \in 0 .. Len(s)] ==
            IF o = Len(s) THEN <<>>
            ELSE LET item == UtilityGetTLV(SubSeq(s, o + 1, Len(s)))
                 IN  IF item.ok THEN <<item>> \o from[o + item.whole] ELSE <<Malformed>>
    IN  from[0]

EndsWith(s, tail) ==
    Len(s) >= Len(tail) /\ SubSeq(s, Len(s) + 1 - Len(tail), Len(s)) = tail

(* secp256k1 is told by its last two bytes, secp256r1 by its last three    *)
(* and SM2 by its first six; an identifier of fewer than three is unknown. *)
AlgOf(id) ==
    CASE Len(id) < 3                                          -> UnknownAlg
      [] Len(id) >= 3 /\ EndsWith(id, <<0, 10>>)              -> "secp256k1"
      [] Len(id) >= 3 /\ EndsWith(id, <<3, 1, 7>>)            -> "secp256r1"
      [] /\ Len(id) >= 3 /\ ~EndsWith(id, <<0, 10>>) /\ ~EndsWith(id, <<3, 1, 7>>)
                                                              ->
            IF Len(id) >= 8 /\ SubSeq(id, 1, 6) = <<42, 129, 28, 207, 85, 1>>
            THEN "sm2" ELSE UnknownAlg

(* Progress of the reader: "go" on, "failed", or "done" once the public    *)
(* key is found.                                                           *)
Start == [st |-> "go", key |-> NoKey]
Fail(r) == [r EXCEPT !.st = "failed"]

PubKeyLen == 66         \* unused bits, 4, and 64 bytes

TakePubKey_NoUnusedBits(r, bits) ==
    IF Len(bits) # PubKeyLen THEN Fail(r)
    ELSE [r EXCEPT !.st = "done", !.key.pubkey = SubSeq(bits, 2, PubKeyLen - 1)]

TakePubKey(r, bits) ==
    IF Len(bits) # PubKeyLen THEN Fail(r)
    ELSE [r EXCEPT !.st = "done", !.key.pubkey = SubSeq(bits, 3, PubKeyLen)]

Over(items, r, Take(_, _)) ==
    FoldLeft(LAMBDA q, item : IF q.st # "go" THEN q
                              ELSE IF ~item.ok THEN Fail(q) ELSE Take(q, item), r, items)

-----------------------------------------------------------------------------
(* "EC PRIVATE KEY": a sequence with the private key in an octet string    *)
(* and, in context fields, the curve and the public key.  A context field  *)
(* is read up to its first identifier or bit string; "skip" is the offset  *)
(* in it, which the code never sets back.                                  *)

ReadContext(r, data) ==
    LET items == IF r.skip > Len(data) THEN <<>>
                 ELSE Items(SubSeq(data, r.skip + 1, Len(data)))
        take(q, item) ==
            CASE item.tag = Oid       -> [q EXCEPT !.st = "left", !.key.alg = AlgOf(item.data)]
              [] item.tag = BitString -> TakePubKey(q, item.data)
              [] item.tag \notin {Oid, BitString} -> [q EXCEPT !.skip = @ + item.whole]
        read == Over(items, r, take)
    IN  IF read.st = "left" THEN [read EXCEPT !.st = "go"] ELSE read

TakeSec1(r, item) ==
    CASE item.tag = OctetString    -> [r EXCEPT !.key.prikey = item.data]
      [] item.tag \div 16 = 10     -> ReadContext(r, item.data)
      [] item.tag # OctetString /\ item.tag \div 16 # 10 -> r

ReadSec1(data) == Over(Items(data), [st |-> "go", key |-> NoKey, skip |-> 0], TakeSec1)

-----------------------------------------------------------------------------
(* "PRIVATE KEY": the curve is the last identifier of a sequence that the  *)
(* reader knows; the key is a "EC PRIVATE KEY" sequence in an octet string.*)

TakeIdentifier(r, item) ==
    IF item.tag # Oid THEN r
    ELSE [r EXCEPT !.key.alg = AlgOf(item.data),
                   !.st = IF AlgOf(item.data) = UnknownAlg THEN "go" ELSE "left"]

TakeBits(r, item) == IF item.tag = BitString THEN TakePubKey(r, item.data) ELSE r

TakeKeyField(r, item) ==
    CASE item.tag = OctetString -> [r EXCEPT !.key.prikey = item.data]
      [] item.tag = Context(1)  -> Over(Items(item.data), r, TakeBits)
      [] item.tag \notin {OctetString, Context(1)} -> r

TakeInner(r, item) ==
    IF item.tag = Sequence THEN Over(Items(item.data), r, TakeKeyField) ELSE r

TakePkcs8(r, item) ==
    CASE item.tag = OctetString -> Over(Items(item.data), r, TakeInner)
      [] item.tag \div 16 = 3   ->
            LET read == Over(Items(item.data), r, TakeIdentifier)
            IN  IF read.st = "left" THEN [read EXCEPT !.st = "go"] ELSE read
      [] item.tag # OctetString /\ item.tag \div 16 # 3 -> r

ReadPkcs8(data) == Over(Items(data), Start, TakePkcs8)

-----------------------------------------------------------------------------
(* The reader as a whole: blanks are dropped from the text, the bytes it   *)
(* stands for are one sequence, and the rest depends on the format.  A     *)
(* document that ends before its public key is read without an error.      *)

UtilityPKCS2Native(doc) ==
    LET bytes == BoAT_base64_decode(SelectSeq(doc.text, LAMBDA c : c # Blank))
        whole == UtilityGetTLV(bytes)
        read  == IF doc.format = "sec1" THEN ReadSec1(whole.data) ELSE ReadPkcs8(whole.data)
    IN  IF doc.format = "none" \/ bytes = <<>> THEN [ok |-> FALSE, key |-> NoKey]
        ELSE IF ~whole.ok THEN [ok |-> FALSE, key |-> NoKey]
        ELSE IF whole.tag # Sequence THEN [ok |-> FALSE, key |-> NoKey]
        ELSE [ok |-> read.st # "failed", key |-> read.key]

(* The identifiers the writer puts in a document. *)
OidOf(alg) ==
    CASE alg = "secp256k1" -> <<43, 129, 4, 0, 10>>
      [] alg = "secp256r1" -> <<43, 129, 4, 3, 1, 7>>
      [] alg = "sm2"       -> <<42, 129, 28, 207, 85, 1, 130, 45>>

(* The writer's fields are those of an "EC PRIVATE KEY", but the lines it  *)
(* puts around them are those of a "PRIVATE KEY".                          *)
KeyFields(key) ==
    <<2, 1, 1>> \o add_TL_withOffset(OctetString, key.prikey)
        \o add_TL_withOffset(Context(0), add_TL_withOffset(Oid, OidOf(key.alg)))
        \o add_TL_withOffset(Context(1), add_TL_withOffset(BitString, <<4>> \o key.pubkey))

UtilityNative2PKCS(key) ==
    [format |-> "pkcs8", text |-> BoAT_base64_encode(add_TL_withOffset(Sequence, KeyFields(key)))]

-----------------------------------------------------------------------------
(* Making a keypair.  The public key of a document is taken as it stands;  *)
(* where there is none the record keeps its zeros.  The type is always the *)
(* one the caller asks for.                                                *)

NoPubKey == [i \in 1 .. 64 |-> 0]
KeypairOf(type, prikey, pubkey) == [ok |-> TRUE, type |-> type, prikey |-> prikey, pubkey |-> pubkey]
NoKeypair == [ok |-> FALSE]

KeyCreateInternal(type, random) == KeypairOf(type, random, PubKeyOf(type, random))

KeyCreateNative(type, bytes, size) ==
    IF Len(bytes) > size THEN NoKeypair ELSE KeypairOf(type, bytes, PubKeyOf(type, bytes))

KeyCreatePkcs(type, doc, size) ==
    LET read == UtilityPKCS2Native(doc)
    IN  IF Len(doc.text) > size \/ ~read.ok THEN NoKeypair
        ELSE KeypairOf(type, read.key.prikey,
                       IF read.key.pubkey = <<>> THEN NoPubKey ELSE read.key.pubkey)

================================================================================
