------------------------------ MODULE EncodedData ------------------------------
(***************************************************************************)
(* The encodings of the SDK applied to data that grow byte by byte, and    *)
(* what each of them promises: what is written is read back, what is cut   *)
(* or damaged is refused.  "data" is a pattern of bytes and "size" the     *)
(* number of bytes of the payload that repeats it; it is far enough below  *)
(* 2^32 for the 32 bits of the lengths in the code.                        *)
(***************************************************************************)
EXTENDS StoredRecords, KeyDocument, RawTransaction, Se05xApdu

CONSTANTS Bytes,        \* the bytes that occur in data
          MaxData,      \* the longest pattern
          Sizes         \* the lengths of payloads

ASSUME DataAssumption ==
    /\ Bytes \subseteq 0 .. 255 /\ MaxData \in Nat
    /\ Sizes \subseteq Nat /\ 0 \in Sizes
    /\ \A n \in Sizes : n <= 2147483647

VARIABLES data, size
dataVars == <<data, size>>

Stretch(n) == [i \in 1 .. n |-> IF data = <<>> THEN 90 ELSE data[1 + ((i - 1) % Len(data))]]
payload == Stretch(size)

DataInit == data = <<>> /\ size = 0

AppendByte(b) ==
    /\ Len(data) < MaxData
    /\ data' = Append(data, b)
    /\ UNCHANGED size

Resize(n) == n # size /\ size' = n /\ UNCHANGED data

DataNext == (\E b \in Bytes : AppendByte(b)) \/ (\E n \in Sizes : Resize(n))

DataSpec == DataInit /\ [][DataNext]_dataVars

-----------------------------------------------------------------------------
(* A text of an amount, nonce or hash is read back as the bytes it was     *)
(* made of (without their leading zeros where the form drops them), and a  *)
(* text with a character that is no digit is refused, wherever it stands   *)
(* (UtilityBinToHex, UtilityHexToBin).                                     *)
HexRoundTrip ==
    \A bytes \in {payload, Append(payload, 7)} \ {<<>>}, mode \in TrimModes, prefix \in BOOLEAN :
        LET text == UtilityBinToHex(bytes, mode, prefix, FALSE)
            read(t) == UtilityHexToBin(Len(bytes), t, mode # "unfmtdata", FALSE)
        IN  /\ read(text) = UtilityTrimBin(bytes, mode # "unfmtdata", FALSE)
            /\ mode = "quantity" /\ ~prefix => text[1] # 0 \/ text = <<0>>
            /\ read([text EXCEPT ![Len(text)] = Alien]) = <<>>

(* The big-endian form of an integer has its value and no leading zero,    *)
(* whether it is given as 32 bits or as the halves of 64 (nonce, gas price *)
(* and value of a transaction, UtilityUint32ToBigend, ...Uint64ToBigend).  *)
BigendKeepsValue ==
    \A k \in 1 .. 3 :
        LET n     == BytesValue(Stretch(k))
            short == UtilityUint32ToBigend(n, TRUE)
            long(high) == UtilityUint64ToBigend(high, n, TRUE)
        IN  /\ BytesValue(short) = n /\ (short[1] = 0 => short = <<0>>)
            /\ long(0) = short
            /\ n > 0 => long(n) = short \o Octets(n, 4)
            /\ UtilityNtohl(UtilityHtonl(Octets(n, 4))) = Octets(n, 4)

(* A number read into limbs and written back is the same number, and no    *)
(* limb is wider than a limb (UtilityReadBigendToBignum,                   *)
(* UtilityWriteBignumToBigend).                                            *)
BignumRoundTrip ==
    size = 0 =>
    LET limbs == UtilityReadBigendToBignum(Stretch(Words))
    IN  /\ UtilityWriteBignumToBigend(limbs) = Stretch(Words)
        /\ \A i \in 0 .. Words : limbs[i] \in 0 .. 2 ^ LimbBits - 1

(* Base64 gives back what it was made of, and a text with a character      *)
(* outside the alphabet is refused (BoAT_base64_encode, ..._decode).       *)
Base64RoundTrip ==
    LET bytes == Append(payload, 7)
        text  == BoAT_base64_encode(bytes)
    IN  /\ BoAT_base64_decode(text) = bytes
        /\ BoAT_base64_decode([text EXCEPT ![1] = Alien]) = <<>>

-----------------------------------------------------------------------------
(* Tags, lengths and values; signatures.                                   *)

(* A value of any length is read back from its tag, length and value,      *)
(* whatever follows it, and is refused when its last byte is missing       *)
(* (add_TL_withOffset, UtilityGetTLV).  The longest length has two bytes.  *)
TlvRoundTrip ==
    LET value == Append(payload, 7)
        item == add_TL_withOffset(OctetString, value)
        read == UtilityGetTLV(item \o data)
    IN  Len(value) < 256 * 256 =>
        /\ read = [ok |-> TRUE, tag |-> OctetString, whole |-> Len(item), data |-> value]
        /\ ~UtilityGetTLV(Front(item)).ok

(* The two numbers of a signature become positive ASN.1 integers, and the  *)
(* reader of the secure element's signatures takes the same numbers out of *)
(* them again (utility_signature_to_asn1, Se05x_API_ECDSASign).  s is      *)
(* below 2^255, as the software keystore makes it.                         *)
SignatureRoundTrip ==
    size = 0 =>
    LET r    == Stretch(32)
        s    == <<Stretch(32)[1] % 128>> \o Tail(Stretch(32))
        asn1 == utility_signature_to_asn1(r \o s)
        inner == UtilityGetTLV(asn1).data
        first == UtilityGetTLV(inner)
        second == UtilityGetTLV(SubSeq(inner, first.whole + 1, Len(inner)))
    IN  /\ TrimZeros(first.data) = TrimZeros(r) /\ first.data[1] < 128
        /\ second.data = s /\ first.whole + second.whole = Len(inner)
        /\ SignatureTaken(asn1) = r \o s

(* Every text and every item is read back as what it was made of, or is    *)
(* refused: the conversions that all the others rest on (boatutility.c,    *)
(* base64.c).                                                              *)
ConversionsReadBack == HexRoundTrip /\ Base64RoundTrip /\ TlvRoundTrip /\ SignatureRoundTrip

-----------------------------------------------------------------------------
(* Records and documents.                                                  *)

(* A name or a URL is not empty and has at most the 127 characters the     *)
(* create functions accept.                                                *)
KeypairAt(i) ==
    [index |-> i, name |-> payload, format |-> i, type |-> 1, pubkey |-> Stretch(64)]
NetworkAt(i) == [index |-> i, chainId |-> 7 * i, eip155 |-> 1, url |-> payload]

ReadsBack(Data(_), Fields(_), ReadAt(_, _), At2(_)) ==
    LET first  == Data(At2(1))
        area   == first \o Data(At2(2))
        read(start) == ReadAt(area, start)
    IN  /\ read(0) = [ok |-> TRUE, fields |-> Fields(At2(1)), outlen |-> Len(first)]
        /\ read(Len(first)).ok
        /\ read(Len(first)).fields = Fields(At2(2))

(* Two records stored one behind the other are both read back, and the     *)
(* space computed for a record is the space it takes (boatkeypair.c and    *)
(* the three network files).                                               *)
RecordsReadBack ==
    size \in 1 .. 127 =>
        /\ BoATKeypair_Get_DataCtx_Len(KeypairAt(1)) = Len(BoATKeypair_Get_DataCtx_Data(KeypairAt(1)))
        /\ BoATEth_Get_NetworkData_Len(NetworkAt(1)) = Len(BoATEth_Get_Network_Data(NetworkAt(1)))
        /\ ReadsBack(BoATKeypair_Get_DataCtx_Data, KeypairFields, BoATKeypair_GetKeypairFromNvram, KeypairAt)
        /\ ReadsBack(BoATEth_Get_Network_Data, NetworkFields, BoATEth_GetNetworkFromNvram, NetworkAt)
        /\ ReadsBack(BoATPlatON_Get_Network_Data, NetworkFields, BoATPlatON_GetNetworkFromNvram, NetworkAt)
        /\ ReadsBack(BoATQuorum_Get_Network_Data, NetworkFields, BoATQuorum_GetNetworkFromNvram, NetworkAt)

(* Each private key is found under its index and read back, and a key is   *)
(* refused when any byte of its encrypted form is damaged                  *)
(* (BoAT_GetPrikeyByIndex_soft over BoATSoftRotNvramDec).                  *)
PrikeysReadBack ==
    size = 0 =>
    LET salt    == Stretch(16)
        key(i)  == <<i>> \o Stretch(31)
        area    == utility_get_NumBytes(2) \o PrikeyRecord(1, key(1), salt) \o PrikeyRecord(5, key(5), salt)
        damaged(i) == [area EXCEPT ![i] = (@ + 1) % 256]
    IN  /\ \A i \in {1, 5} :
              BoAT_GetPrikeyByIndex_soft(area, i) = [ok |-> TRUE, data |-> key(i)]
        /\ BoAT_GetPrikeyByIndex_soft(area, 3) = Refused
        /\ \A i \in {1, 2, 3, 4} \cup {Len(area) - d : d \in {0, 15, 31, 47, 63, 79, 95}} :
              BoAT_GetPrikeyByIndex_soft(damaged(i), 5) = Refused

(* A document as RFC 5915 and RFC 5958 lay it out gives its key, public    *)
(* key and curve, with or without line breaks, and a document that was cut *)
(* short is refused (UtilityPKCS2Native).                                  *)
Tlv(tag, value) == <<tag>> \o LengthBytes(Len(value)) \o value
Curves == [secp256k1 |-> <<43, 129, 4, 0, 10>>, secp256r1 |-> <<42, 134, 72, 206, 61, 3, 1, 7>>,
           sm2 |-> <<42, 129, 28, 207, 85, 1, 130, 45>>]
EcPublicKey == <<42, 134, 72, 206, 61, 2, 1>>

Document(format, alg, prikey, pubkey) ==
    LET public == Tlv(Context(1), Tlv(BitString, <<0, 4>> \o pubkey))
        key(between) == Tlv(Sequence, <<2, 1, 1>> \o Tlv(OctetString, prikey) \o between \o public)
        curve == Tlv(Oid, Curves[alg])
    IN  [format |-> format,
         text |-> BoAT_base64_encode(
                      IF format = "sec1" THEN key(Tlv(Context(0), curve))
                      ELSE Tlv(Sequence, <<2, 1, 0>> \o Tlv(Sequence, Tlv(Oid, EcPublicKey) \o curve)
                                             \o Tlv(OctetString, key(<<>>))))]

KeyDocumentsRead ==
    size = 0 =>
    \A format \in {"sec1", "pkcs8"}, alg \in Algs :
        LET key  == [alg |-> alg, prikey |-> Stretch(32), pubkey |-> Stretch(64)]
            doc  == Document(format, alg, key.prikey, key.pubkey)
            broken == [doc EXCEPT !.text = SubSeq(@, 1, 64) \o <<Blank>> \o SubSeq(@, 65, Len(@))]
            cut(n) == [doc EXCEPT !.text = SubSeq(@, 1, Len(@) - n)]
        IN  /\ UtilityPKCS2Native(broken) = [ok |-> TRUE, key |-> key]
            /\ \A n \in {1, 4, 40} : ~UtilityPKCS2Native(cut(n)).ok

-----------------------------------------------------------------------------
(* Raw transactions.                                                       *)

Quantity(bytes) == UtilityBinToHex(bytes, "quantity", TRUE, FALSE)
Unformatted(bytes) == UtilityBinToHex(bytes, "unfmtdata", TRUE, FALSE)

RlpItemAt(s, i) ==
    LET longer == s[i] - 183
        from   == IF s[i] > 183 THEN i + longer + 1 ELSE i + 1
        length == IF s[i] > 183 THEN BytesValue(SubSeq(s, i + 1, i + longer)) ELSE s[i] - 128
    IN  IF s[i] < 128 THEN [item |-> <<s[i]>>, next |-> i + 1]
        ELSE [item |-> SubSeq(s, from, from + length - 1), next |-> from + length]

RlpItems(stream, count) ==
    LET read[k \in 0 .. count] ==
            IF k = 0 THEN [items |-> <<>>, next |-> IF stream[1] > 247 THEN stream[1] - 245 ELSE 2]
            ELSE LET one == RlpItemAt(stream, read[k - 1].next)
                 IN  [items |-> Append(read[k - 1].items, one.item), next |-> one.next]
    IN  read[count]

IsListOf(stream, items) ==
    /\ RlpItems(stream, Len(items)) = [items |-> items, next |-> Len(stream) + 1]
    /\ RlpRecursiveCalcEncodingSize(items) = Len(stream)

MaxChainId == (2 ^ VBits - 1 - 36) \div 2
ChainNetworks == [chainId : {1, 255, MaxChainId}, eip155 : BOOLEAN]

(* What the node takes out of a transaction is what the caller put in: the *)
(* fields, without leading zeros where they are numbers, and from v the    *)
(* chain and the parity; the bytes that were hashed are the same fields    *)
(* (EthSendRawtx, PlatONSendRawtx, QuorumSendRawtx).  Up to the largest    *)
(* chain id the code claims to support, and for a nonce given by the       *)
(* caller that is not 0, which is encoded as the byte 0.                   *)
SaysChain(v, network, parity, plain) ==
    IF network.eip155
    THEN (v - 35) \div 2 = network.chainId /\ (v - 35) % 2 = parity
    ELSE v - plain = parity

RawTxDecodes ==
    \A network \in ChainNetworks, parity \in {0, 1} :
        LET number(k) == TrimZeros(Stretch(k))
            texts     == <<Quantity(Stretch(2)), Quantity(Stretch(3))>>
            address   == Stretch(20)
            signature == [r |-> <<0>> \o Stretch(31), s |-> Stretch(32), parity |-> parity]
            filled(tx) == [BoatEthTransfer(tx, Quantity(Stretch(1)), Quantity(Stretch(9)))
                              EXCEPT !.data = payload]
            eth    == filled(BoatEthTxInit(texts[1], texts[2], Unformatted(address), <<>>))
            free   == filled(BoatQuorumTxInit(texts[1], texts[2], Unformatted(address)))
            reads(raw, price, carried, plain) ==
                LET six == <<number(1), price, number(3), address, number(9), carried>>
                    v   == RlpItems(raw.sent, 9).items[7]
                IN  /\ UtilityHexToBin(Len(raw.sent), SignedText(raw), FALSE, FALSE) = raw.sent
                    /\ IsListOf(raw.sent, six \o <<v, number(31), number(32)>>)
                    /\ SaysChain(BytesValue(v), network, parity, plain)
                    /\ IsListOf(raw.hashed,
                          six \o IF network.eip155 THEN <<TrimZeros(Octets(network.chainId, 4)), <<>>, <<>>>>
                                 ELSE <<>>)
            given  == EthSendRawtx(NonceGiven(eth, 0, BytesValue(Stretch(2))), network, signature)
        IN  /\ reads(EthSendRawtx(eth, network, signature), number(2), payload, 27)
            /\ number(2) # <<>> => RlpItems(given.sent, 9).items[1] = number(2)
            /\ reads(PlatONSendRawtx(eth, network, signature), number(2), payload, 27)
            /\ reads(QuorumSendRawtx(free, network, signature, FALSE, <<>>, <<>>), <<>>, payload, 27)
            /\ reads(QuorumSendRawtx(free, network, signature, TRUE, Unformatted(Stretch(64)), <<>>),
                     <<>>, Stretch(64), 37)

(* A PlatON address is read back from its text, in a transaction too, and  *)
(* a text with one wrong character is refused wherever it stands           *)
(* (BoatPlatONBech32Encode, ...Decode, BoatPlatONTxInit).                  *)
AddressReadsBack ==
    size = 0 =>
    LET address == Stretch(20)
        text    == BoatPlatONBech32Encode(address, <<108, 97, 116>>)
        put(i, c) == [k \in DOMAIN text |-> IF k = i THEN c ELSE text[k]]
        tx(recipient) == BoatPlatONTxInit(<<>>, <<>>, recipient, <<>>)
    IN  /\ Len(text) = 42
        /\ tx(text).recipient = address
        /\ \A i \in {1, 3, 4, 5, 24, 36, 37, 42} :
              tx(put(i, IF text[i] = 113 THEN 112 ELSE 113)) = NoFields

(* The chain sees the transaction that the caller made, and its integers   *)
(* have their value in every form the SDK gives them (boatethereum.c,      *)
(* boatplaton.c, boatquorum.c, boatutility.c).                             *)
TransactionsDecode == RawTxDecodes /\ BigendKeepsValue

(* A private key is found again in its file and read from its document, an *)
(* address from its text and a number from its limbs; what was cut or      *)
(* damaged is refused (boat_keystore_soft.c, persiststore.c, boatutility.c,*)
(* boatplatonbech32.c).                                                    *)
KeysAndAddressesRead ==
    PrikeysReadBack /\ KeyDocumentsRead /\ AddressReadsBack /\ BignumRoundTrip

-----------------------------------------------------------------------------
(* Commands with payloads of every size, and replies to them.              *)

Calls ==
    LET o == 2147483647
    IN  { Se05x_API_CreateSession(o, 16), Se05x_API_ExchangeSessionData(<<payload>>),
          Se05x_API_RefreshSession(NoPolicy),
          Se05x_API_WriteECKey(NoPolicy, 0, o, 16, <<>>, <<>>, 0, 96),
          Se05x_API_WriteECKey(<<data>>, 5, o, 16, Stretch(32), Stretch(65), 64, 32),
          Se05x_API_WriteSymmKey(NoPolicy, 1, o, o, payload, 0, 3),
          Se05x_API_WriteBinary(NoPolicy, o, size, 300, payload),
          Se05x_API_WriteUserID(<<payload>>, 0, o, data, 64),
          Se05x_API_ReadType(o, 0), Se05x_API_ReadSize(o), Se05x_API_ReadIDList(0, 255, 16),
          Se05x_API_CheckObjectExists(o), Se05x_API_DeleteSecureObject(o),
          Se05x_API_ReadObject(o, 0, size, 300),
          Se05x_API_ReadObject_W_Attst(o, 0, 0, o, 33, data, 300) }

OtherCalls ==
    { Se05x_API_CreateECCurve(16), Se05x_API_SetECCurveParam(16, 1, payload),
      Se05x_API_GetECCurveId(7), Se05x_API_ReadECCurveList(24), Se05x_API_DeleteECCurve(16),
      Se05x_API_CreateCryptoObject(5, 2, 1), Se05x_API_ReadCryptoObjectList(300),
      Se05x_API_DeleteCryptoObject(5), Se05x_API_ECDSASign(7, 33, payload),
      Se05x_API_EdDSASign(7, 163, payload, 64), Se05x_API_ECDSAVerify(7, 33, data, payload),
      Se05x_API_EdDSAVerify(7, 163, payload, data),
      Se05x_API_CipherInit(7, 5, Stretch(16), Encrypt, 9),
      Se05x_API_CipherInit(7, 9, Stretch(16), Encrypt, 9),
      Se05x_API_CipherUpdate(5, payload, 300), Se05x_API_CipherFinal(5, payload, 300),
      Se05x_API_MACInit(7, 5, 3), Se05x_API_MACUpdate(payload, 5),
      Se05x_API_MACFinal(payload, 5, data, 64), Se05x_API_DigestInit(5),
      Se05x_API_DigestUpdate(5, payload), Se05x_API_DigestFinal(5, payload, 64),
      Se05x_API_GetVersion(16), Se05x_API_GetTimestamp, Se05x_API_GetFreeMemory(1),
      Se05x_API_GetRandom(size, 300), Se05x_API_DeleteAll }

(* The body of a command announced by its length holds the fields of the   *)
(* call, whole and in order, as a reader of tags and lengths finds them;   *)
(* a command that would not fit its buffer is not sent                     *)
(* (tlvSet_u8buf, sss_se05x_channel_txnRaw).                               *)
BodyOf(command) ==
    IF command[5] = 0 /\ Len(command) > 5
    THEN SubSeq(command, 8, 7 + 256 * command[6] + command[7])
    ELSE SubSeq(command, 6, 5 + command[5])

CommandCarriesFields ==
    \A api \in Calls \cup OtherCalls :
        LET command == sss_se05x_channel_txnRaw(api)
            items   == Items(BodyOf(command))
        IN  IF Fits(api.fields)
            THEN /\ Len(items) = Len(api.fields)
                 /\ \A i \in DOMAIN items :
                       items[i].ok /\ items[i].tag = api.fields[i].tag /\ items[i].data = api.fields[i].value
                 /\ Len(command) = Len(BodyOf(command)) + (IF Len(BodyOf(command)) < 255 THEN 5 ELSE 7)
            ELSE command = TooLong

(* A complete reply is accepted with the values it holds; a reply that     *)
(* lost its last bytes, has one too many or carries another status word is *)
(* refused by every function that takes values out of it (tlvGet_u8buf).   *)
ValueFor(get) ==
    IF get.kind = "number" THEN Octets(size, get.room)
    ELSE IF size <= get.room THEN payload ELSE Stretch(get.room)
ReplyItem(get) ==
    IF get.kind = "number" THEN <<get.tag, get.room>> \o ValueFor(get)
    ELSE Tlv(get.tag, ValueFor(get))

RepliesTakenWhole ==
    \A api \in {c \in Calls \cup OtherCalls : c.gets # <<>>} :
        LET body   == FlattenSeq([i \in DOMAIN api.gets |-> ReplyItem(api.gets[i])])
            answer == Answer(api, body \o SM_OK)
        IN  /\ answer.ok
            /\ answer.values = [i \in DOMAIN api.gets |-> ValueFor(api.gets[i])]
            /\ ~Answer(api, body \o <<106, 128>>).ok
            /\ ~Answer(api, Append(body, 0) \o SM_OK).ok
            /\ \A k \in {0, 1, Len(body) \div 2, Len(body) - 1} :
                  k < Len(body) => ~Answer(api, SubSeq(body, 1, k) \o SM_OK).ok

(* What a host and the secure element say to each other arrives as it was  *)
(* meant (se05x_tlv.c, se05x_APDU_impl.c).                                 *)
CommandsAndRepliesWhole == CommandCarriesFields /\ RepliesTakenWhole

================================================================================
