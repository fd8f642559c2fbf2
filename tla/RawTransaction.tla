----------------------------- MODULE RawTransaction -----------------------------
(***************************************************************************)
(* A raw transaction of the three protocols, from the caller's texts and   *)
(* numbers to the bytes that are hashed, signed and sent: the wallet APIs  *)
(* fill the fields, EthSendRawtx, PlatONSendRawtx and QuorumSendRawtx      *)
(* encode them in RLP, have the hash signed and encode them once more with *)
(* the signature.  The signature (r and s of 32 bytes and a parity) comes  *)
(* from the keystore and stands for itself here.                           *)
(***************************************************************************)
EXTENDS Encodings, Bech32

CONSTANT VBits          \* bits of the variable v (32; 16 where TLC computes)

ASSUME VBitsAssumption == VBits \in {16, 32}

-----------------------------------------------------------------------------
(* RLP: a string, and a list of strings.                                   *)

RlpHead_To56(base, n) ==
    IF n <= 56 THEN <<base + n>>
    ELSE LET length == UtilityUint32ToBigend(n, TRUE) IN <<base + 55 + Len(length)>> \o length
RlpHead(base, n) ==
    IF n <= 55 THEN <<base + n>>
    ELSE LET length == UtilityUint32ToBigend(n, TRUE) IN <<base + 55 + Len(length)>> \o length

IsItself(s) == Len(s) = 1 /\ s[1] <= 127

RlpString(s) == IF IsItself(s) THEN s ELSE RlpHead(128, Len(s)) \o s

(* The length of the encoding, computed before it is made.                 *)
HeadSize(n) == IF n <= 55 THEN 1 ELSE 1 + Len(UtilityUint32ToBigend(n, TRUE))
StringSize(s) == IF IsItself(s) THEN 1 ELSE HeadSize(Len(s)) + Len(s)
ListBody(items) == Total([i \in DOMAIN items |-> StringSize(items[i])])
RlpRecursiveCalcEncodingSize(items) == HeadSize(ListBody(items)) + ListBody(items)

RlpEncode(items) ==
    RlpHead(192, ListBody(items)) \o FlattenSeq([i \in DOMAIN items |-> RlpString(items[i])])

-----------------------------------------------------------------------------
(* The fields of a transaction.  NULL is the empty text.                   *)

Given(text) == text # <<>>
HexNumber(text) == UtilityHexToBin(32, text, TRUE, TRUE)

TxFields(gasprice, gaslimit, recipient) ==
    [nonce |-> <<>>, gasprice |-> gasprice, gaslimit |-> HexNumber(gaslimit),
     recipient |-> recipient, value |-> <<>>, data |-> <<>>]

NoFields == [nonce |-> <<>>]

WellFormed(gasprice, gaslimit) ==
    /\ Given(gasprice) => UtilityStringIsHex(gasprice)
    /\ Given(gaslimit) => UtilityStringIsHex(gaslimit)

(* The gas price is the caller's or, when he gives none, the node's.       *)
GasPrice(gasprice, nodePrice) == HexNumber(IF Given(gasprice) THEN gasprice ELSE nodePrice)

HexRecipient(text) == UtilityHexToBin(20, text, FALSE, TRUE)

BoatEthTxInit(gasprice, gaslimit, recipient, nodePrice) ==
    IF /\ WellFormed(gasprice, gaslimit) /\ UtilityStringIsHex(recipient)
       /\ Len(recipient) = 42
    THEN TxFields(GasPrice(gasprice, nodePrice), gaslimit, HexRecipient(recipient))
    ELSE NoFields

(* Gas costs nothing on Quorum: the three characters "0x0" are copied into *)
(* the gas price, but its length stays 0.                                  *)
BoatQuorumTxInit(gasprice, gaslimit, recipient) ==
    IF /\ WellFormed(gasprice, gaslimit) /\ UtilityStringIsHex(recipient)
       /\ Len(recipient) = 42
    THEN TxFields(<<>>, gaslimit, HexRecipient(recipient))
    ELSE NoFields

BoatPlatONTxInit(gasprice, gaslimit, recipient, nodePrice) ==
    IF /\ WellFormed(gasprice, gaslimit)
       /\ BoatPlatONBech32Decode(recipient) # NoText
    THEN TxFields(GasPrice(gasprice, nodePrice), gaslimit, BoatPlatONBech32Decode(recipient))
    ELSE NoFields

(* The nonce: the node's count, or the number the caller gives as two      *)
(* halves.                                                                 *)
NonceAuto(tx, count) == [tx EXCEPT !.nonce = HexNumber(count)]
NonceGiven(tx, high, low) == [tx EXCEPT !.nonce = UtilityUint64ToBigend(high, low, TRUE)]

(* A transfer has a value and no data.                                     *)
BoatEthTransfer(tx, count, value) ==
    [NonceAuto(tx, count) EXCEPT !.value = HexNumber(value), !.data = <<>>]

-----------------------------------------------------------------------------
(* What is hashed, and what is sent.  A network is its chain id and        *)
(* whether it is compatible with EIP-155.                                  *)

SixFields(tx) == <<tx.nonce, tx.gasprice, tx.gaslimit, tx.recipient, tx.value, tx.data>>

ReplayGuard(network) ==
    IF network.eip155 THEN <<UtilityUint32ToBigend(network.chainId, TRUE), <<>>, <<>>>> ELSE <<>>

Unsigned(tx, network) == RlpEncode(SixFields(tx) \o ReplayGuard(network))

Word(n) == n % 2 ^ VBits

(* v of a public transaction; "plain" is what parity is added to where     *)
(* EIP-155 is not in force.                                                *)
VOf(network, parity, plain) ==
    IF network.eip155 THEN Word(network.chainId * 2 + parity + 35) ELSE parity + plain

Trimmed(number) == UtilityTrimBin(number, TRUE, TRUE)

Signed(tx, v, signature) ==
    RlpEncode(SixFields(tx) \o
              <<UtilityUint32ToBigend(v, TRUE), Trimmed(signature.r), Trimmed(signature.s)>>)

EthSendRawtx(tx, network, signature) ==
    [hashed |-> Unsigned(tx, network),
     sent   |-> Signed(tx, VOf(network, signature.parity, 27), signature)]

(* PlatON repeats the code of Ethereum.                                    *)
PlatONHashed(tx, network) == Unsigned(tx, network)
PlatONSent(tx, network, signature) == Signed(tx, VOf(network, signature.parity, 27), signature)

PlatONSendRawtx(tx, network, signature) ==
    [hashed |-> PlatONHashed(tx, network), sent |-> PlatONSent(tx, network, signature)]

(* A private transaction on Quorum carries, in place of its data, the 64   *)
(* bytes of the text the node answered for them; "heap" is what the buffer *)
(* held before, which shows where the text is shorter.  With EIP-155 in    *)
(* force its v is that of a public transaction.                            *)
PrivateData(answer, heap) ==
    LET read == UtilityHexToBin(64, answer, FALSE, FALSE)
    IN  read \o SubSeq(heap, Len(read) + 1, 64)

QuorumCarried(tx, private, answer, heap) ==
    IF private THEN [tx EXCEPT !.data = PrivateData(answer, heap)] ELSE tx

QuorumV(network, parity, private) == VOf(network, parity, IF private THEN 37 ELSE 27)

QuorumHashed(carried, network) == Unsigned(carried, network)
QuorumSent(carried, network, signature, private) ==
    Signed(carried, QuorumV(network, signature.parity, private), signature)

QuorumSendRawtx(tx, network, signature, private, answer, heap) ==
    LET carried == QuorumCarried(tx, private, answer, heap)
    IN  [hashed |-> QuorumHashed(carried, network),
         sent   |-> QuorumSent(carried, network, signature, private)]

(* The text of the request, and the hash the node answers.                 *)
SignedText(raw) == UtilityBinToHex(raw.sent, "unfmtdata", TRUE, FALSE)
TxHash(answer) == UtilityHexToBin(32, answer, FALSE, FALSE)

================================================================================
