----------------------------- MODULE StoredRecords -----------------------------
(***************************************************************************)
(* The records of the wallet file: keypairs (boatkeypair.c), networks      *)
(* (network_ethereum.c, network_platon.c, network_quorum.c) and encrypted  *)
(* private keys (boat_keystore_soft.c over persiststore.c).  A record is   *)
(* a length and, behind it, the length and value of each field; an area is *)
(* the bytes of the file from its offset on.                               *)
(*                                                                         *)
(* AES and Keccak are outside src/: Aes stands for a cipher that is undone *)
(* by the same key and salt, Keccak for a digest that tells damaged data   *)
(* from the original.                                                      *)
(***************************************************************************)
EXTENDS Encodings

Enum(n) == <<n, 0, 0, 0>>                   \* an enum of four bytes, low byte first
Text(s) == s \o <<0>>                       \* a text with its terminator

-----------------------------------------------------------------------------
(* Writing.                                                                *)

FieldsLen_OneByte(fields) == Total([i \in DOMAIN fields |-> 1 + Len(fields[i])])
FieldsLen(fields) ==
    Total([i \in DOMAIN fields |-> UtilityGetTLV_LL_from_len(Len(fields[i])) + Len(fields[i])])

RecordLen(fields) ==
    FieldsLen(fields) + UtilityGetTLV_LL_from_len(FieldsLen(fields))

RecordData(fields) ==
    add_L_withOffset(FlattenSeq([i \in DOMAIN fields |-> add_L_withOffset(fields[i])]))

KeypairFields(kp) ==
    << <<kp.index>>, kp.name, Enum(kp.format), Enum(kp.type), kp.pubkey >>

BoATKeypair_Get_DataCtx_Len(kp) == RecordLen(KeypairFields(kp))
BoATKeypair_Get_DataCtx_Data(kp) == RecordData(KeypairFields(kp))

NetworkFields(net) ==
    << <<net.index>>, Octets(net.chainId, 4), <<net.eip155>>, Text(net.url) >>

BoATEth_Get_NetworkData_Len(net) == RecordLen(NetworkFields(net))
BoATEth_Get_Network_Data(net) == RecordData(NetworkFields(net))
BoATPlatON_Get_NetworkData_Len(net) == RecordLen(NetworkFields(net))
BoATPlatON_Get_Network_Data(net) == RecordData(NetworkFields(net))
BoATQuorum_Get_NetworkData_Len(net) == RecordLen(NetworkFields(net))
BoATQuorum_Get_Network_Data(net) == RecordData(NetworkFields(net))

-----------------------------------------------------------------------------
(* Reading.  The fields are taken one after another: the length at the     *)
(* offset reached, the length the field must have (AnyLen: none is asked), *)
(* the end of the record and the read itself, which refuses no bytes.      *)

AnyLen == 0
Refused == [ok |-> FALSE]

ReadRecord(area, start, lens) ==
    LET whole   == UtilityGetLVData_L(area, start + 1)
        objects == start + UtilityGetTLV_LL_from_len(whole)
        take[i \in 0 .. Len(lens)] ==
            IF i = 0 THEN [ok |-> whole >= 0, offset |-> objects, fields |-> <<>>]
            ELSE LET before == take[i - 1]
                     len    == UtilityGetLVData_L(area, before.offset + 1)
                     from   == before.offset + UtilityGetTLV_LL_from_len(len)
                 IN  IF /\ before.ok
                        /\ len > 0
                        /\ lens[i] \in {AnyLen, len}
                        /\ from - objects + len <= whole
                        /\ from + len <= Len(area)
                     THEN [ok |-> TRUE, offset |-> from + len,
                           fields |-> Append(before.fields, SubSeq(area, from + 1, from + len))]
                     ELSE [before EXCEPT !.ok = FALSE]
    IN  IF take[Len(lens)].ok
        THEN [ok |-> TRUE, fields |-> take[Len(lens)].fields,
              outlen |-> whole + UtilityGetTLV_LL_from_len(whole)]
        ELSE Refused

BoATKeypair_GetKeypairFromNvram(area, start) ==
    ReadRecord(area, start, <<1, AnyLen, AnyLen, AnyLen, 64>>)
BoATEth_GetNetworkFromNvram(area, start) ==
    ReadRecord(area, start, <<1, AnyLen, AnyLen, AnyLen>>)
BoATPlatON_GetNetworkFromNvram(area, start) ==
    ReadRecord(area, start, <<1, AnyLen, AnyLen, AnyLen>>)
BoATQuorum_GetNetworkFromNvram(area, start) ==
    ReadRecord(area, start, <<1, AnyLen, AnyLen, AnyLen>>)

-----------------------------------------------------------------------------
(* Private keys: salt of 16 bytes, digest of 32, and the padded key under  *)
(* AES.  A key that fills its last block gets a whole block of padding.    *)

Aes(salt, s) == [i \in DOMAIN s |-> (s[i] + 101 + salt[1 + (i % 16)]) % 256]
AesBack(salt, s) == [i \in DOMAIN s |-> (s[i] + 512 - 101 - salt[1 + (i % 16)]) % 256]
Keccak(s) ==
    LET hash[n \in 0 .. Len(s)] == IF n = 0 THEN Len(s) ELSE (17 * hash[n - 1] + s[n]) % 7919
    IN  [i \in 1 .. 32 |-> (hash[Len(s)] * i) % 251]

Padding(n) == 16 - (n % 16)

BoATSoftRotNvramEnc(data, salt) ==
    LET padded == data \o [i \in 1 .. Padding(Len(data)) |-> Padding(Len(data))]
    IN  IF data = <<>> THEN <<>> ELSE salt \o Keccak(data) \o Aes(salt, padded)

BoATSoftRotNvramDec(cipher) ==
    LET salt   == SubSeq(cipher, 1, 16)
        digest == SubSeq(cipher, 17, 48)
        plain  == AesBack(salt, SubSeq(cipher, 49, Len(cipher)))
        pad    == plain[Len(plain)]
        data   == SubSeq(plain, 1, Len(plain) - pad)
    IN  IF /\ pad <= 16
           /\ \A i \in 0 .. pad - 1 : plain[Len(plain) - i] = pad
           /\ Keccak(data) = digest
        THEN [ok |-> TRUE, data |-> data] ELSE Refused

PrikeyMaxLen == 97          \* BOAT_KEYSTORE_PRIKEY_LEN

PrikeyRecord(index, prikey, salt) ==
    LET cipher == BoATSoftRotNvramEnc(prikey, salt)
    IN  IF cipher = <<>> \/ Len(cipher) > PrikeyMaxLen THEN <<>>
        ELSE add_L_withOffset(<<index>>) \o add_L_withOffset(cipher)

(* The walk over the records of an area that begins with the count.        *)
BoAT_GetPrikeyByIndex_soft(area, index) ==
    LET count == utility_check_NumBytes(SubSeq(area, 1, 4))
        cipherAt(o) == o + 2
        len(o) == UtilityGetLVData_L(area, cipherAt(o) + 1)
        data(o) == cipherAt(o) + UtilityGetTLV_LL_from_len(len(o))
        find[i \in 0 .. 255] ==
            LET o == find[i - 1]
            IN  IF i = 0 THEN 4
                ELSE IF o < 0 \/ UtilityGetLVData_L(area, o + 1) # 1 \/ len(o) = 0 THEN -1
                ELSE IF ByteAt(area, o + 2) = index THEN o
                ELSE IF len(o) < 0 THEN cipherAt(o) + 2         \* -1 unsigned
                ELSE data(o) + len(o)
        at == find[count]
        found == count \notin {NoCount, 0} /\ at >= 0 /\ find[count - 1] = at
    IN  IF ~found THEN Refused
        ELSE IF len(at) \notin 1 .. PrikeyMaxLen \/ data(at) + len(at) > Len(area) THEN Refused
        ELSE BoATSoftRotNvramDec(SubSeq(area, data(at) + 1, data(at) + len(at)))

================================================================================
