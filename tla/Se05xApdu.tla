------------------------------ MODULE Se05xApdu ------------------------------
(***************************************************************************)
(* Commands to the secure element and their replies (se05x_APDU_impl.c     *)
(* over se05x_tlv.c).  Every function of the interface puts a header and   *)
(* some fields into a command, sends it, and takes the values of its reply *)
(* one after another: here it is the record of both.                       *)
(*                                                                         *)
(* A number of 16 or 32 bits is given as it is, a buffer as its bytes, and *)
(* "room" is the size of the caller's buffer for a value of the reply.     *)
(***************************************************************************)
EXTENDS Encodings

MaxCmd == 892               \* SE05X_TLV_BUF_SIZE_CMD

Write == 1                  \* instructions
Read == 2
Crypto == 3
Mgmt == 4
Attest == 32

Default == 0                \* first parameter
Ec == 1
Binary == 6
UserId == 7
Curve == 11
Signature == 12
Mac == 13
Cipher == 14
CryptoObj == 16

CreateObject == 4           \* second parameter
Sign == 9
Verify == 10
InitOp == 11
Update == 12
Final == 13
List == 37
DeleteObject == 40
Encrypt == 66

Tag(i) == 64 + i            \* kSE05x_TAG_i
PolicyTag == 17
AttemptsTag == 18

-----------------------------------------------------------------------------
(* Fields of a command.  Setting one gives the list that holds it, or the  *)
(* empty list when an optional value is absent.                            *)

tlvSet_U8(tag, v) == << [tag |-> tag, value |-> <<v>>] >>
tlvSet_U16(tag, v) == << [tag |-> tag, value |-> Octets(v, 2)] >>
tlvSet_U32(tag, v) == << [tag |-> tag, value |-> Octets(v, 4)] >>
tlvSet_u8buf(tag, bytes) == << [tag |-> tag, value |-> bytes] >>

tlvSet_U16Optional(tag, v) == IF v = 0 THEN <<>> ELSE tlvSet_U16(tag, v)
tlvSet_u8bufOptional(tag, bytes) == IF bytes = <<>> THEN <<>> ELSE tlvSet_u8buf(tag, bytes)
tlvSet_ECCurve(tag, curve) == IF curve = 0 THEN <<>> ELSE tlvSet_U8(tag, curve)
tlvSet_KeyID(tag, key) == IF key = 0 THEN <<>> ELSE tlvSet_U32(tag, key)
tlvSet_MaxAttemps(tag, n) == IF n = 0 THEN <<>> ELSE tlvSet_U16(tag, n)

(* A policy is the list that holds its bytes, empty when there is none.    *)
NoPolicy == <<>>
tlvSet_Se05xPolicy(tag, policy) ==
    IF policy = NoPolicy THEN <<>> ELSE tlvSet_u8buf(tag, policy[1])

SizeOfLength(n) == IF n <= 127 THEN 1 ELSE IF n <= 255 THEN 2 ELSE 3
SizeOfTlv(field) == 1 + SizeOfLength(Len(field.value)) + Len(field.value)

FieldLength(n) ==
    CASE SizeOfLength(n) = 1 -> <<n>>
      [] SizeOfLength(n) = 2 -> <<129, n>>
      [] SizeOfLength(n) = 3 -> <<130, n \div 256, n % 256>>

FieldBytes(field) == <<field.tag>> \o FieldLength(Len(field.value)) \o field.value

TooLong == <<>>             \* no command is sent

(* The body of a command, which is given up at the first field that would  *)
(* not fit behind those before it.                                         *)
Fits(fields) == Total([i \in DOMAIN fields |-> SizeOfTlv(fields[i])]) <= MaxCmd

Body(fields) == FlattenSeq([i \in DOMAIN fields |-> FieldBytes(fields[i])])

(* No command asks for a reply length, so the body's length is one byte,   *)
(* or three when it is 255 or more, and one zero when there is no body.    *)
sss_se05x_channel_txnRaw(api) ==
    LET n  == Len(Body(api.fields))
        lc == IF n < 255 THEN <<n>> ELSE <<0, n \div 256, n % 256>>
    IN  IF ~Fits(api.fields) THEN TooLong
        ELSE <<128, api.ins, api.p1, api.p2>> \o lc \o Body(api.fields)

-----------------------------------------------------------------------------
(* Values of a reply.  A getter moves the index of the bytes it has taken; *)
(* behind the reply the buffer holds zeros.                                *)

Get(tag, kind, room) == [tag |-> Tag(tag), kind |-> kind, room |-> room, need |-> TRUE]
GetU8(tag) == Get(tag, "number", 1)
GetU16(tag) == Get(tag, "number", 2)
GetBuf(tag, room) == Get(tag, "bytes", room)
GetResult(tag) == GetBuf(tag, 1)
GetTimeStamp(tag) == GetBuf(tag, 12)
MayGetBuf(tag, room) == [GetBuf(tag, room) EXCEPT !.need = FALSE]

At(rsp, i) == ByteAt(rsp, i + 1)

(* A number must not be longer than its type; a shorter one is taken from  *)
(* as many bytes of the reply as the type has.                             *)
tlvGet_Number(rsp, index, get) ==
    LET len == At(rsp, index + 1)
    IN  IF index > Len(rsp) \/ At(rsp, index) # get.tag \/ len > get.room
        THEN [ok |-> FALSE, index |-> index, value |-> <<>>]
        ELSE [ok |-> TRUE, index |-> index + 2 + len,
              value |-> [i \in 1 .. get.room |-> At(rsp, index + 1 + i)]]

(* Bytes must fit the caller's buffer, and be no more than the reply has.  *)
tlvGet_u8buf(rsp, index, get) ==
    LET short == At(rsp, index + 1)
        head  == CASE short <= 127 -> 2
                   [] short = 129  -> 3
                   [] short = 130  -> 4
                   [] short \in 128 .. 255 \ {129, 130} -> 0
        len   == CASE short <= 127 -> short
                   [] short = 129  -> At(rsp, index + 2)
                   [] short = 130  -> 256 * At(rsp, index + 2) + At(rsp, index + 3)
                   [] short \in 128 .. 255 \ {129, 130} -> 0
    IN  IF index > Len(rsp) \/ At(rsp, index) # get.tag \/ head = 0
        THEN [ok |-> FALSE, index |-> index, value |-> <<>>]
        ELSE IF len > get.room \/ len > Len(rsp)
        THEN [ok |-> FALSE, index |-> index + head, value |-> <<>>]
        ELSE [ok |-> TRUE, index |-> index + head + len,
              value |-> [i \in 1 .. len |-> At(rsp, index + head + i - 1)]]

TakeValue(rsp, index, get) ==
    IF get.kind = "number" THEN tlvGet_Number(rsp, index, get) ELSE tlvGet_u8buf(rsp, index, get)

(* The values of the first n getters; one that is not needed may fail.     *)
Values(rsp, gets) ==
    LET after[n \in 0 .. Len(gets)] ==
            IF n = 0 THEN [ok |-> TRUE, index |-> 0, values |-> <<>>]
            ELSE LET took == TakeValue(rsp, after[n - 1].index, gets[n])
                 IN  IF ~after[n - 1].ok THEN after[n - 1]
                     ELSE [ok     |-> took.ok \/ ~gets[n].need,
                           index  |-> took.index,
                           values |-> Append(after[n - 1].values, took.value)]
    IN  after[Len(gets)]

SM_OK == <<144, 0>>
StatusOf(rsp) == SubSeq(rsp, Len(rsp) - 1, Len(rsp))

(* What a function returns.  One without values goes by the status word    *)
(* alone; one with values wants that word right behind the last of them.   *)
Answer_AnyRest(api, rsp) ==
    LET got == Values(rsp, api.gets)
    IN  CASE StatusOf(rsp) # SM_OK                     -> [ok |-> FALSE, values |-> <<>>]
          [] StatusOf(rsp) = SM_OK /\ api.gets = <<>>  -> [ok |-> TRUE, values |-> <<>>]
          [] StatusOf(rsp) = SM_OK /\ api.gets # <<>>  -> [ok |-> got.ok, values |-> got.values]

Answer(api, rsp) ==
    LET got == Values(rsp, api.gets)
    IN  CASE StatusOf(rsp) # SM_OK                     -> [ok |-> FALSE, values |-> <<>>]
          [] StatusOf(rsp) = SM_OK /\ api.gets = <<>>  -> [ok |-> TRUE, values |-> <<>>]
          [] StatusOf(rsp) = SM_OK /\ api.gets # <<>>  ->
                [ok |-> got.ok /\ got.index + 2 = Len(rsp), values |-> got.values]

Api(ins, p1, p2, fields, gets) ==
    [ins |-> ins, p1 |-> p1, p2 |-> p2, fields |-> fields, gets |-> gets]

-----------------------------------------------------------------------------
(* Sessions.                                                               *)

Se05x_API_CreateSession(auth, room) ==
    Api(Mgmt, Default, 27, tlvSet_U32(Tag(1), auth), <<GetBuf(1, room)>>)

Se05x_API_ExchangeSessionData(policy) ==
    Api(Mgmt, Default, 31, tlvSet_Se05xPolicy(Tag(1), policy), <<>>)

Se05x_API_RefreshSession(policy) ==
    Api(Mgmt, Default, 30, tlvSet_Se05xPolicy(PolicyTag, policy), <<>>)

-----------------------------------------------------------------------------
(* Objects.  "insType" and "part" are flags added to the first two bytes.  *)

Se05x_API_WriteECKey(policy, attempts, object, curve, privKey, pubKey, insType, part) ==
    Api(Write + insType, Ec + part, Default,
        tlvSet_Se05xPolicy(PolicyTag, policy) \o tlvSet_MaxAttemps(AttemptsTag, attempts)
            \o tlvSet_U32(Tag(1), object) \o tlvSet_ECCurve(Tag(2), curve)
            \o tlvSet_u8bufOptional(Tag(3), privKey) \o tlvSet_u8bufOptional(Tag(4), pubKey),
        <<>>)

Se05x_API_WriteSymmKey(policy, attempts, object, kek, key, insType, type) ==
    Api(Write + insType, type, Default,
        tlvSet_Se05xPolicy(PolicyTag, policy) \o tlvSet_MaxAttemps(AttemptsTag, attempts)
            \o tlvSet_U32(Tag(1), object) \o tlvSet_KeyID(Tag(2), kek)
            \o tlvSet_u8bufOptional(Tag(3), key),
        <<>>)

Se05x_API_WriteBinary(policy, object, offset, length, data) ==
    Api(Write, Binary, Default,
        tlvSet_Se05xPolicy(PolicyTag, policy) \o tlvSet_U32(Tag(1), object)
            \o tlvSet_U16Optional(Tag(2), offset) \o tlvSet_U16Optional(Tag(3), length)
            \o tlvSet_u8bufOptional(Tag(4), data),
        <<>>)

Se05x_API_WriteUserID(policy, attempts, object, user, insType) ==
    Api(Write + insType, UserId, Default,
        tlvSet_Se05xPolicy(PolicyTag, policy) \o tlvSet_MaxAttemps(AttemptsTag, attempts)
            \o tlvSet_U32(Tag(1), object) \o tlvSet_u8bufOptional(Tag(2), user),
        <<>>)

Se05x_API_ReadType(object, insType) ==
    Api(Read + insType, Default, 38, tlvSet_U32(Tag(1), object), <<GetU8(1), GetU8(2)>>)

Se05x_API_ReadSize(object) ==
    Api(Read, Default, 7, tlvSet_U32(Tag(1), object), <<GetU16(1)>>)

Se05x_API_ReadIDList(offset, filter, room) ==
    Api(Read, Default, List, tlvSet_U16(Tag(1), offset) \o tlvSet_U8(Tag(2), filter),
        <<GetU8(1), GetBuf(2, room)>>)

Se05x_API_CheckObjectExists(object) ==
    Api(Mgmt, Default, 39, tlvSet_U32(Tag(1), object), <<GetResult(1)>>)

Se05x_API_DeleteSecureObject(object) ==
    Api(Mgmt, Default, DeleteObject, tlvSet_U32(Tag(1), object), <<>>)

Se05x_API_ReadObject(object, offset, length, room) ==
    Api(Read, Default, Default,
        tlvSet_U32(Tag(1), object) \o tlvSet_U16Optional(Tag(2), offset)
            \o tlvSet_U16Optional(Tag(3), length),
        <<GetBuf(1, room)>>)

(* A key that may not be read is left out of the reply. *)
Se05x_API_ReadObject_W_Attst(object, offset, length, attestId, algo, random, room) ==
    Api(Read + Attest, Default, Default,
        tlvSet_U32(Tag(1), object) \o tlvSet_U16Optional(Tag(2), offset)
            \o tlvSet_U16Optional(Tag(3), length) \o tlvSet_U32(Tag(5), attestId)
            \o tlvSet_U8(Tag(6), algo) \o tlvSet_u8bufOptional(Tag(7), random),
        <<MayGetBuf(1, room), GetBuf(2, room), GetTimeStamp(3), GetBuf(4, room),
          GetBuf(5, room), GetBuf(6, room)>>)

-----------------------------------------------------------------------------
(* Curves and crypto objects.                                              *)

Se05x_API_CreateECCurve(curve) ==
    Api(Write, Curve, CreateObject, tlvSet_ECCurve(Tag(1), curve), <<>>)

Se05x_API_SetECCurveParam(curve, param, data) ==
    Api(Write, Curve, 64,
        tlvSet_ECCurve(Tag(1), curve) \o tlvSet_U8(Tag(2), param)
            \o tlvSet_u8bufOptional(Tag(3), data),
        <<>>)

Se05x_API_GetECCurveId(object) ==
    Api(Read, Curve, 54, tlvSet_U32(Tag(1), object), <<GetU8(1)>>)

Se05x_API_ReadECCurveList(room) == Api(Read, Curve, List, <<>>, <<GetBuf(1, room)>>)

Se05x_API_DeleteECCurve(curve) ==
    Api(Mgmt, Curve, DeleteObject, tlvSet_ECCurve(Tag(1), curve), <<>>)

Se05x_API_CreateCryptoObject(crypto, context, subtype) ==
    Api(Write, CryptoObj, Default,
        tlvSet_U16(Tag(1), crypto) \o tlvSet_U8(Tag(2), context) \o tlvSet_U8(Tag(3), subtype),
        <<>>)

Se05x_API_ReadCryptoObjectList(room) == Api(Read, CryptoObj, List, <<>>, <<GetBuf(1, room)>>)

Se05x_API_DeleteCryptoObject(crypto) ==
    Api(Mgmt, CryptoObj, DeleteObject, tlvSet_U16(Tag(1), crypto), <<>>)

-----------------------------------------------------------------------------
(* Signatures.                                                             *)

SignFields(object, algo, input) ==
    tlvSet_U32(Tag(1), object) \o tlvSet_U8(Tag(2), algo) \o tlvSet_u8bufOptional(Tag(3), input)

Se05x_API_ECDSASign(object, algo, input) ==
    Api(Crypto, Signature, Sign, SignFields(object, algo, input), <<GetBuf(1, 74)>>)

(* What ECDSASign gives its caller of the ASN.1 signature: of each number  *)
(* 32 bytes, behind a leading zero when its length is 33.                  *)
SignatureTaken(asn1) ==
    LET number(i) == LET from == IF At(asn1, i) = 33 THEN i + 2 ELSE i + 1
                     IN  [next |-> from + 32, bytes |-> [k \in 1 .. 32 |-> At(asn1, from + k - 1)]]
        r == number(3)
    IN  r.bytes \o number(r.next + 1).bytes

Se05x_API_EdDSASign(object, algo, input, room) ==
    Api(Crypto, Signature, Sign, SignFields(object, algo, input), <<GetBuf(1, room)>>)

Se05x_API_ECDSAVerify(object, algo, input, signature) ==
    Api(Crypto, Signature, Verify,
        SignFields(object, algo, input) \o tlvSet_u8bufOptional(Tag(5), signature),
        <<GetResult(1)>>)

Se05x_API_EdDSAVerify(object, algo, input, signature) ==
    Api(Crypto, Signature, Verify,
        SignFields(object, algo, input) \o tlvSet_u8bufOptional(Tag(5), signature),
        <<GetResult(1)>>)

-----------------------------------------------------------------------------
(* Ciphers, authentication codes and digests.                              *)

InternalIv(crypto, operation, internal) == crypto = internal /\ operation = Encrypt

(* The element chooses the initialization vector itself for one kind of    *)
(* crypto object and returns it, always of 16 bytes.                       *)
Se05x_API_CipherInit(object, crypto, iv, operation, internal) ==
    Api(Crypto, Cipher, operation,
        tlvSet_U32(Tag(1), object) \o tlvSet_U16(Tag(2), crypto)
            \o IF InternalIv(crypto, operation, internal)
               THEN tlvSet_U16(Tag(4), Len(iv)) ELSE tlvSet_u8bufOptional(Tag(4), iv),
        IF InternalIv(crypto, operation, internal) THEN <<GetBuf(3, Len(iv))>> ELSE <<>>)

CipherInitAnswer(api, rsp) ==
    LET answer == Answer(api, rsp)
    IN  [answer EXCEPT !.ok = @ /\ (api.gets # <<>> => Len(answer.values[1]) = 16)]

Se05x_API_CipherUpdate(crypto, input, room) ==
    Api(Crypto, Cipher, Update,
        tlvSet_U16(Tag(2), crypto) \o tlvSet_u8bufOptional(Tag(3), input), <<GetBuf(1, room)>>)

Se05x_API_CipherFinal(crypto, input, room) ==
    Api(Crypto, Cipher, Final,
        tlvSet_U16(Tag(2), crypto) \o tlvSet_u8buf(Tag(3), input), <<GetBuf(1, room)>>)

Se05x_API_MACInit(object, crypto, operation) ==
    Api(Crypto, Mac, operation, tlvSet_U32(Tag(1), object) \o tlvSet_U16(Tag(2), crypto), <<>>)

Se05x_API_MACUpdate(input, crypto) ==
    Api(Crypto, Mac, Update,
        tlvSet_u8bufOptional(Tag(1), input) \o tlvSet_U16(Tag(2), crypto), <<>>)

Se05x_API_MACFinal(input, crypto, validate, room) ==
    Api(Crypto, Mac, Final,
        tlvSet_u8buf(Tag(1), input) \o tlvSet_U16(Tag(2), crypto)
            \o tlvSet_u8bufOptional(Tag(3), validate),
        <<GetBuf(1, room)>>)

Se05x_API_DigestInit(crypto) == Api(Crypto, Default, InitOp, tlvSet_U16(Tag(2), crypto), <<>>)

Se05x_API_DigestUpdate(crypto, input) ==
    Api(Crypto, Default, Update, tlvSet_U16(Tag(2), crypto) \o tlvSet_u8buf(Tag(3), input), <<>>)

Se05x_API_DigestFinal(crypto, input, room) ==
    Api(Crypto, Default, Final, tlvSet_U16(Tag(2), crypto) \o tlvSet_u8buf(Tag(3), input),
        <<GetBuf(1, room)>>)

-----------------------------------------------------------------------------
(* The element itself.                                                     *)

Se05x_API_GetVersion(room) == Api(Mgmt, Default, 32, <<>>, <<GetBuf(1, room)>>)
Se05x_API_GetTimestamp == Api(Mgmt, Default, 61, <<>>, <<GetTimeStamp(1)>>)
Se05x_API_GetFreeMemory(type) == Api(Mgmt, Default, 34, tlvSet_U8(Tag(1), type), <<GetU16(1)>>)
Se05x_API_GetRandom(size, room) ==
    Api(Mgmt, Default, 73, tlvSet_U16(Tag(1), size), <<GetBuf(1, room)>>)
Se05x_API_DeleteAll == Api(Mgmt, Default, 42, <<>>, <<>>)

================================================================================
