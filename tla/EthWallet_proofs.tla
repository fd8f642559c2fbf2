-------------------------- MODULE EthWallet_proofs --------------------------
(***************************************************************************)
(* Proofs about EthWallet for any number of transfers, every waiting time  *)
(* and a node that may fail at any call: nonces leave no gap, successes    *)
(* are mined in order, and the wallet implements the transfer service.     *)
(***************************************************************************)
EXTENDS EthWallet, TLAPS

(***************************************************************************)
(* Transfers are made one after another: those before the current one have *)
(* been answered, those after it have not been sent.                       *)
(***************************************************************************)
TurnInv ==
    /\ pc # "idle" => tx \in Txs /\ result[tx] = "none"
    /\ \A t \in Txs : t < tx \/ (t = tx /\ pc = "idle") => result[t] # "none"
    /\ \A t \in Txs : t > tx => result[t] = "none" /\ status[t] = "unsent"
    /\ pc = "receipt" => timeout > 0

(***************************************************************************)
(* What the place of the call says about its transaction; the nonce it has *)
(* read may be behind the chain, never ahead of it.                        *)
(***************************************************************************)
SentInv ==
    /\ pc \in {"initialised", "send"} => status[tx] = "unsent"
    /\ pc \in {"answer", "receipt"} => Pending(tx) \/ Mined(tx)
    /\ pc = "send" => nonce[tx] <= nextNonce

(***************************************************************************)
(* All pending transactions would have the next nonce, so a new one takes  *)
(* the place of an earlier one: there is never more than one.              *)
(***************************************************************************)
OnePending == \A t, u \in Txs : Pending(t) /\ Pending(u) => t = u

SuccessIsMined == \A t \in Txs : Succeeded(t) => Mined(t)

(***************************************************************************)
(* As long as every earlier transfer has succeeded, the chain's count of   *)
(* transactions is the number of transfers mined.                          *)
(***************************************************************************)
AllBefore(t) == \A u \in 1 .. t - 1 : Succeeded(u)

InTurn ==
    /\ tx = 0 => nextNonce = 0
    /\ tx \in Txs /\ AllBefore(tx) =>
          /\ nextNonce = IF Mined(tx) THEN tx ELSE tx - 1
          /\ pc = "send" \/ status[tx] # "unsent" => nonce[tx] = tx - 1

WalletInv ==
    /\ WalletTypeOK /\ TurnInv /\ SentInv
    /\ OnePending /\ NoNonceGap
    /\ SuccessIsMined /\ InTurn /\ SuccessesInOrder

-----------------------------------------------------------------------------

LEMMA TxsFacts ==
    /\ \A t \in Txs : t \in Nat /\ t >= 1 /\ 1 .. t \subseteq Txs
    /\ Txs \subseteq Int
  BY WalletAssumption

LEMMA WalletInitInv == WalletInit => WalletInv
  <1> SUFFICES ASSUME WalletInit PROVE WalletInv
    OBVIOUS
  <1> USE WalletAssumption, TxsFacts DEF WalletInit
  <1>1. WalletTypeOK
    <2>1. timeout \in 1 - MineInterval .. WaitTimeout /\ nextNonce \in Nat
      OBVIOUS
    <2>2. nonce \in [Txs -> Nat \union {NoNonce}]
      BY Zenon
    <2>3. isSync \in [Txs -> BOOLEAN]
      BY Zenon
    <2> QED
      BY <2>1, <2>2, <2>3, Zenon DEF WalletTypeOK
  <1>2. \A t \in Txs : status[t] = "unsent" /\ result[t] = "none"
    OBVIOUS
  <1>3. TurnInv
    BY <1>2 DEF TurnInv
  <1>4. SentInv
    BY DEF SentInv
  <1>5. OnePending /\ NoNonceGap /\ SuccessIsMined
    BY <1>2 DEF OnePending, NoNonceGap, SuccessIsMined, Succeeded, Pending
  <1>6. InTurn
    BY DEF InTurn
  <1>7. SuccessesInOrder
    <2> SUFFICES ASSUME NEW t \in Txs PROVE ~Succeeded(t)
      BY DEF SuccessesInOrder
    <2> QED
      BY <1>2 DEF Succeeded
  <1> QED
    BY <1>1, <1>3, <1>4, <1>5, <1>6, <1>7 DEF WalletInv

(***************************************************************************)
(* A call that returns, with an error or with a success it may report.     *)
(***************************************************************************)
LEMMA ReturnInv ==
    ASSUME WalletInv, pc # "idle", NEW r \in {"SUCCESS", "TX_PENDING", "ERROR"},
           Return(r), r = "SUCCESS" => ~isSync[tx] \/ (Mined(tx)),
           UNCHANGED <<tx, isSync, nonce, nextNonce, status>>,
           timeout' \in 1 - MineInterval .. WaitTimeout
    PROVE  WalletInv'
  <1> USE TxsFacts DEF WalletInv
  <1>1. /\ tx \in Txs /\ result[tx] = "none" /\ pc' = "idle"
        /\ result \in [Txs -> {"none", "SUCCESS", "TX_PENDING", "ERROR"}]
    BY DEF TurnInv, WalletTypeOK, Return
  <1>2. /\ result'[tx] = r /\ result'[tx] # "none"
        /\ \A t \in Txs : t # tx => result'[t] = result[t]
    BY <1>1 DEF Return
  <1>3. WalletTypeOK'
    <2>1. result' \in [Txs -> {"none", "SUCCESS", "TX_PENDING", "ERROR"}]
      BY <1>1 DEF Return
    <2> QED
      BY <1>1, <2>1, Zenon DEF WalletTypeOK
  <1>4. TurnInv'
    BY <1>1, <1>2 DEF TurnInv
  <1>5. SentInv'
    BY <1>1 DEF SentInv
  <1>6. OnePending' /\ NoNonceGap'
    BY DEF OnePending, NoNonceGap, Pending
  <1>7. \A t \in Txs : Succeeded(t)' => Mined(t)
    BY <1>1, <1>2 DEF SuccessIsMined, Succeeded, Mined
  <1>8. \A t \in Txs : t < tx /\ Succeeded(t)' => Succeeded(t)
    BY <1>2 DEF Succeeded
  <1>9. AllBefore(tx)' => AllBefore(tx)
    <2> SUFFICES ASSUME AllBefore(tx)', NEW u \in 1 .. tx - 1 PROVE Succeeded(u)
      BY DEF AllBefore
    <2>1. u \in Txs /\ u < tx
      BY <1>1
    <2>2. Succeeded(u)'
      BY DEF AllBefore
    <2> QED
      BY <2>1, <2>2, <1>8
  <1>10. InTurn'
    BY <1>1, <1>9 DEF InTurn, Mined
  <1>11. SuccessesInOrder'
    <2> SUFFICES ASSUME NEW t \in Txs, \A u \in 1..t : Succeeded(u)'
                 PROVE  Mined(t) /\ nonce[t] = t - 1
      BY DEF SuccessesInOrder, Mined
    <2>1. Mined(t)
      BY <1>7
    <2>2. t <= tx
      BY <1>1, <1>2 DEF Succeeded, TurnInv
    <2>3. CASE t < tx
      <3>1. \A u \in 1..t : Succeeded(u)
        <4> TAKE u \in 1..t
        <4>1. u \in Txs /\ u < tx
          BY <2>3, <1>1
        <4> QED
          BY <4>1, <1>8
      <3> QED
        BY <3>1 DEF SuccessesInOrder
    <2>4. CASE t = tx
      <3>1. AllBefore(tx)'
        BY <2>4 DEF AllBefore
      <3>2. status[tx] # "unsent"
        BY <2>1, <2>4 DEF Mined
      <3> QED
        BY <1>1, <1>9, <2>1, <2>4, <3>1, <3>2 DEF InTurn
    <2> QED
      BY <2>2, <2>3, <2>4, <1>1
  <1>12. SuccessIsMined'
    BY <1>7 DEF SuccessIsMined, Mined
  <1> QED
    BY <1>3, <1>4, <1>5, <1>6, <1>10, <1>11, <1>12

(***************************************************************************)
(* The steps that change neither a result nor what is on the chain leave   *)
(* everything but the current call's place as it is.                       *)
(***************************************************************************)
LEMMA QuietInv ==
    ASSUME WalletInv, UNCHANGED <<isSync, nonce, result, nextNonce, status, tx>>
    PROVE  /\ OnePending' /\ NoNonceGap' /\ SuccessIsMined' /\ SuccessesInOrder'
           /\ AllBefore(tx)' = AllBefore(tx)
  BY DEF WalletInv, OnePending, NoNonceGap, SuccessIsMined, SuccessesInOrder,
         Pending, Mined, Succeeded, AllBefore

LEMMA TxInitInv == WalletInv /\ BoatEthTxInit => WalletInv'
  <1> SUFFICES ASSUME WalletInv, BoatEthTxInit PROVE WalletInv'
    OBVIOUS
  <1> USE TxsFacts DEF WalletInv, BoatEthTxInit
  <1>1. /\ tx \in Nat /\ tx' = tx + 1 /\ tx' \in Txs /\ pc' = "initialised"
        /\ UNCHANGED <<nonce, result, nextNonce, status>>
    BY DEF WalletTypeOK
  <1>2. PICK m \in SyncModes : isSync' = [isSync EXCEPT ![tx'] = m]
    BY Zenon
  <1>3. \A t \in Txs : t # tx' => isSync'[t] = isSync[t]
    BY <1>2 DEF WalletTypeOK
  <1>4. result[tx'] = "none" /\ status[tx'] = "unsent"
    BY <1>1 DEF TurnInv
  <1>5. WalletTypeOK'
    <2>1. isSync' \in [Txs -> BOOLEAN]
      <3>1. m \in BOOLEAN
        BY WalletAssumption
      <3> QED
        BY <1>2, <3>1, Zenon DEF WalletTypeOK
    <2> QED
      BY <1>1, <2>1, Zenon DEF WalletTypeOK
  <1>6. TurnInv'
    BY <1>1, <1>4 DEF TurnInv
  <1>7. SentInv'
    BY <1>1, <1>4 DEF SentInv
  <1>8. OnePending' /\ NoNonceGap'
    BY <1>1 DEF OnePending, NoNonceGap, Pending
  <1>9. \A t \in Txs : Succeeded(t)' <=> Succeeded(t)
    BY <1>1, <1>3, <1>4 DEF Succeeded
  <1>10. SuccessIsMined' /\ SuccessesInOrder'
    <2>1. SuccessIsMined'
      BY <1>1, <1>9 DEF SuccessIsMined, Mined
    <2>2. ASSUME NEW t \in Txs, \A u \in 1..t : Succeeded(u)'
          PROVE  Mined(t) /\ nonce[t] = t - 1
      BY <2>2, <1>9 DEF SuccessesInOrder
    <2> QED
      BY <1>1, <2>1, <2>2 DEF SuccessesInOrder, Mined
  <1>11. ASSUME AllBefore(tx') \/ AllBefore(tx)' PROVE nextNonce = tx
    <2>1. CASE tx = 0
      BY <2>1 DEF InTurn
    <2>2. CASE tx \in Txs
      <3>1. \A u \in 1..tx : Succeeded(u)
        BY <1>1, <1>9, <1>11 DEF AllBefore
      <3>2. Mined(tx)
        BY <3>1, <2>2 DEF SuccessIsMined
      <3>3. AllBefore(tx)
        BY <3>1, <1>1 DEF AllBefore
      <3> QED
        BY <3>2, <3>3, <2>2 DEF InTurn
    <2> QED
      BY <1>1, <2>1, <2>2
  <1>12. InTurn'
    BY <1>1, <1>4, <1>11 DEF InTurn, Mined
  <1> QED
    BY <1>5, <1>6, <1>7, <1>8, <1>10, <1>12

LEMMA SetNonceInv == WalletInv /\ BoatEthTxSetNonce => WalletInv'
  <1> SUFFICES ASSUME WalletInv, BoatEthTxSetNonce PROVE WalletInv'
    OBVIOUS
  <1> USE TxsFacts DEF WalletInv, BoatEthTxSetNonce, LatestCount
  <1>1. /\ tx \in Txs /\ status[tx] = "unsent" /\ result[tx] = "none"
        /\ nonce \in [Txs -> Nat \union {NoNonce}] /\ nextNonce \in Nat
    BY DEF TurnInv, SentInv, WalletTypeOK
  <1>2. /\ nonce' = [nonce EXCEPT ![tx] = nextNonce] /\ pc' = "send"
        /\ UNCHANGED <<tx, isSync, timeout, result, nextNonce, status>>
    OBVIOUS
  <1>3. nonce'[tx] = nextNonce /\ \A t \in Txs : t # tx => nonce'[t] = nonce[t]
    BY <1>1, <1>2
  <1>4. WalletTypeOK'
    <2>1. nonce' \in [Txs -> Nat \union {NoNonce}]
      BY <1>1, <1>2
    <2> QED
      BY <1>2, <2>1, Zenon DEF WalletTypeOK
  <1>5. TurnInv'
    BY <1>1, <1>2 DEF TurnInv
  <1>6. SentInv'
    BY <1>1, <1>2, <1>3 DEF SentInv
  <1>7. OnePending' /\ NoNonceGap'
    BY <1>1, <1>2, <1>3 DEF OnePending, NoNonceGap, Pending
  <1>8. \A t \in Txs : Succeeded(t) => t # tx
    BY <1>1 DEF Succeeded
  <1>9. \A t : Succeeded(t)' <=> Succeeded(t)
    BY <1>2 DEF Succeeded
  <1>10. SuccessIsMined'
    BY <1>2, <1>9 DEF SuccessIsMined, Mined
  <1>11. SuccessesInOrder'
    <2> SUFFICES ASSUME NEW t \in Txs, \A u \in 1..t : Succeeded(u)'
                 PROVE  Mined(t) /\ nonce'[t] = t - 1
      BY <1>2 DEF SuccessesInOrder, Mined
    <2>1. \A u \in 1..t : Succeeded(u)
      BY <1>9
    <2>2. t \in 1..t
      OBVIOUS
    <2> QED
      BY <2>1, <2>2, <1>3, <1>8 DEF SuccessesInOrder
  <1>12. AllBefore(tx)' <=> AllBefore(tx)
    BY <1>2, <1>9 DEF AllBefore
  <1>13. InTurn'
    BY <1>1, <1>2, <1>3, <1>12 DEF InTurn, Mined
  <1> QED
    BY <1>4, <1>5, <1>6, <1>7, <1>10, <1>11, <1>13

(***************************************************************************)
(* The node takes the transaction only with the nonce it counts next, and  *)
(* that is the nonce of every transaction still pending.                   *)
(***************************************************************************)
LEMMA AcceptedTakesPlace ==
    ASSUME WalletInv, SendAccepted
    PROVE  /\ tx \in Txs /\ nonce[tx] = nextNonce /\ status[tx] = "unsent"
           /\ status' = [t \in Txs |-> IF t = tx THEN "pending"
                                       ELSE IF Pending(t) THEN "dropped"
                                       ELSE status[t]]
  <1>1. /\ tx \in Txs /\ nonce[tx] = nextNonce /\ status[tx] = "unsent"
    BY DEF WalletInv, TurnInv, SentInv, WalletTypeOK, SendAccepted, NodeAccepts,
           NoNonce
  <1>2. \A t \in Txs : SameNonce(t) <=> Pending(t)
    BY <1>1 DEF SameNonce, WalletInv, NoNonceGap
  <1> QED
    BY <1>1, <1>2, Zenon DEF SendAccepted, NodeAccepts

LEMMA SendAcceptedInv == WalletInv /\ SendAccepted => WalletInv'
  <1> SUFFICES ASSUME WalletInv, SendAccepted PROVE WalletInv'
    OBVIOUS
  <1> USE TxsFacts DEF WalletInv
  <1>1. /\ tx \in Txs /\ nonce[tx] = nextNonce /\ status[tx] = "unsent"
        /\ status' = [t \in Txs |-> IF t = tx THEN "pending"
                                    ELSE IF Pending(t) THEN "dropped"
                                    ELSE status[t]]
    BY AcceptedTakesPlace
  <1>2. /\ pc = "send" /\ pc' = "answer"
        /\ UNCHANGED <<tx, isSync, nonce, timeout, result, nextNonce>>
    BY DEF SendAccepted
  <1>3. /\ status'[tx] = "pending"
        /\ \A t \in Txs : t # tx => status'[t] = IF Pending(t) THEN "dropped"
                                                 ELSE status[t]
    BY <1>1
  <1>4. \A t \in Txs : Pending(t)' <=> t = tx
    BY <1>3 DEF Pending
  <1>5. \A t \in Txs : Mined(t)' <=> Mined(t)
    BY <1>1, <1>3 DEF Mined, Pending
  <1>6. WalletTypeOK'
    <2>1. status' \in [Txs -> {"unsent", "pending", "ok", "reverted", "dropped"}]
      BY <1>1 DEF WalletTypeOK
    <2> QED
      BY <1>2, <2>1, Zenon DEF WalletTypeOK
  <1>7. TurnInv'
    BY <1>1, <1>2, <1>3 DEF TurnInv, Pending
  <1>8. SentInv'
    BY <1>1, <1>2, <1>4 DEF SentInv
  <1>9. OnePending' /\ NoNonceGap'
    BY <1>1, <1>2, <1>4 DEF OnePending, NoNonceGap
  <1>10. \A t : Succeeded(t)' <=> Succeeded(t)
    BY <1>2 DEF Succeeded
  <1>11. SuccessIsMined'
    BY <1>5, <1>10 DEF SuccessIsMined
  <1>12. SuccessesInOrder'
    BY <1>2, <1>5, <1>10 DEF SuccessesInOrder
  <1>13. AllBefore(tx)' <=> AllBefore(tx)
    BY <1>2, <1>10 DEF AllBefore
  <1>14. InTurn'
    BY <1>1, <1>2, <1>5, <1>13 DEF InTurn
  <1> QED
    BY <1>6, <1>7, <1>8, <1>9, <1>11, <1>12, <1>14

LEMMA TxSendInv == WalletInv /\ BoatEthTxSend => WalletInv'
  <1> SUFFICES ASSUME WalletInv, BoatEthTxSend PROVE WalletInv'
    OBVIOUS
  <1> USE TxsFacts, WalletAssumption
  <1>1. /\ tx \in Txs /\ pc = "answer"
        /\ UNCHANGED <<tx, isSync, nonce, nextNonce, status>>
    BY DEF WalletInv, TurnInv, BoatEthTxSend
  <1>2. CASE ~isSync[tx]
    BY <1>1, <1>2, ReturnInv DEF BoatEthTxSend, WalletInv, WalletTypeOK
  <1>3. CASE isSync[tx]
    <2>1. pc' = "receipt" /\ timeout' = WaitTimeout /\ UNCHANGED result
      BY <1>3 DEF BoatEthTxSend
    <2>2. WalletTypeOK'
      <3>1. timeout' \in 1 - MineInterval .. WaitTimeout
        BY <2>1
      <3> QED
        BY <1>1, <2>1, <3>1, Zenon DEF WalletInv, WalletTypeOK
    <2>3. TurnInv'
      BY <1>1, <2>1 DEF WalletInv, TurnInv
    <2>4. SentInv'
      BY <1>1, <2>1 DEF WalletInv, SentInv, Pending, Mined
    <2>5. InTurn'
      BY <1>1, <2>1, QuietInv DEF WalletInv, InTurn, Mined
    <2> QED
      BY <1>1, <2>1, <2>2, <2>3, <2>4, <2>5, QuietInv DEF WalletInv
  <1> QED
    BY <1>2, <1>3

LEMMA ReceiptNullInv == WalletInv /\ ReceiptNull => WalletInv'
  <1> SUFFICES ASSUME WalletInv, ReceiptNull PROVE WalletInv'
    OBVIOUS
  <1> USE TxsFacts, WalletAssumption
  <1>1. /\ tx \in Txs /\ pc = "receipt" /\ timeout > 0
        /\ timeout \in 1 - MineInterval .. WaitTimeout
        /\ timeout' = timeout - MineInterval
        /\ UNCHANGED <<tx, isSync, nonce, nextNonce, status>>
    BY DEF WalletInv, TurnInv, WalletTypeOK, ReceiptNull
  <1>2. timeout' \in 1 - MineInterval .. WaitTimeout
    BY <1>1
  <1>3. CASE ~(timeout' > 0)
    BY <1>1, <1>2, <1>3, ReturnInv DEF ReceiptNull
  <1>4. CASE timeout' > 0
    <2>1. UNCHANGED <<pc, result>>
      BY <1>4 DEF ReceiptNull
    <2>2. WalletTypeOK'
      BY <1>1, <1>2, <2>1, Zenon DEF WalletInv, WalletTypeOK
    <2>3. TurnInv'
      BY <1>1, <1>4, <2>1 DEF WalletInv, TurnInv
    <2>4. SentInv'
      BY <1>1, <2>1 DEF WalletInv, SentInv, Pending, Mined
    <2>5. InTurn'
      BY <1>1, <2>1, QuietInv DEF WalletInv, InTurn, Mined
    <2> QED
      BY <1>1, <2>1, <2>2, <2>3, <2>4, <2>5, QuietInv DEF WalletInv
  <1> QED
    BY <1>3, <1>4

LEMMA MineInv == ASSUME NEW t \in Txs, WalletInv, Mine(t) PROVE WalletInv'
  <1> USE TxsFacts DEF WalletInv
  <1>1. /\ Pending(t) /\ nonce[t] = nextNonce /\ nextNonce' = nextNonce + 1
        /\ UNCHANGED <<pc, tx, isSync, nonce, timeout, result>>
        /\ nextNonce \in Nat /\ tx \in Nat
    BY DEF Mine, WalletTypeOK
  <1>2. PICK s \in {"ok", "reverted"} : status' = [status EXCEPT ![t] = s]
    BY DEF Mine
  <1>3. /\ status'[t] = s /\ \A u \in Txs : u # t => status'[u] = status[u]
        /\ status' \in [Txs -> {"unsent", "pending", "ok", "reverted", "dropped"}]
    BY <1>2 DEF WalletTypeOK
  <1>4. \A u \in Txs : ~Pending(u)'
    BY <1>1, <1>3 DEF OnePending, Pending
  <1>5. \A u \in Txs : Mined(u)' <=> u = t \/ Mined(u)
    BY <1>1, <1>3 DEF Mined, Pending
  <1>6. ~Mined(t) /\ t <= tx
    BY <1>1 DEF Mined, Pending, TurnInv
  <1>7. WalletTypeOK'
    <2>1. nextNonce' \in Nat
      BY <1>1
    <2> QED
      BY <1>1, <1>3, <2>1, Zenon DEF WalletTypeOK
  <1>8. TurnInv'
    BY <1>1, <1>3, <1>6 DEF TurnInv
  <1>9. SentInv'
    <2>1. pc \in {"initialised", "send"} => tx \in Txs /\ t # tx
      BY <1>1 DEF SentInv, TurnInv, Pending
    <2>2. pc \in {"answer", "receipt"} => tx \in Txs
      BY DEF TurnInv
    <2>3. pc = "send" => nonce[tx] <= nextNonce /\ nonce[tx] \in Int
      BY <2>1 DEF SentInv, WalletTypeOK, NoNonce
    <2>4. pc \in {"answer", "receipt"} => Pending(tx)' \/ Mined(tx)'
      BY <1>1, <1>3, <1>5, <2>2 DEF SentInv, Pending
    <2>5. pc \in {"initialised", "send"} => status'[tx] = "unsent"
      BY <1>3, <2>1 DEF SentInv
    <2>6. pc = "send" => nonce[tx] <= nextNonce + 1
      BY <1>1, <2>3
    <2> QED
      BY <1>1, <2>4, <2>5, <2>6 DEF SentInv
  <1>10. OnePending' /\ NoNonceGap'
    BY <1>4, Zenon DEF OnePending, NoNonceGap
  <1>11. \A u : Succeeded(u)' <=> Succeeded(u)
    BY <1>1 DEF Succeeded
  <1>12. SuccessIsMined'
    BY <1>5, <1>11, Zenon DEF SuccessIsMined
  <1>13. SuccessesInOrder'
    <2>1. ASSUME NEW v \in Txs, \A u \in 1..v : Succeeded(u)'
          PROVE  Mined(v) /\ nonce[v] = v - 1
      BY <1>11, <2>1 DEF SuccessesInOrder
    <2> QED
      BY <1>1, <1>5, <2>1 DEF SuccessesInOrder
  <1>14. AllBefore(tx)' <=> AllBefore(tx)
    BY <1>1, <1>11 DEF AllBefore
  <1>15. AllBefore(tx) => t = tx
    <2> SUFFICES ASSUME AllBefore(tx), t < tx PROVE FALSE
      BY <1>1, <1>6
    <2>1. Succeeded(t)
      BY <1>1 DEF AllBefore
    <2> QED
      BY <2>1, <1>6 DEF SuccessIsMined
  <1>16. InTurn'
    <2>1. tx # 0
      BY <1>1, <1>6
    <2>2. ASSUME tx \in Txs, AllBefore(tx)
          PROVE  /\ nextNonce' = IF Mined(tx)' THEN tx ELSE tx - 1
                 /\ nonce[tx] = tx - 1
      <3>1. t = tx /\ nextNonce = tx - 1
        BY <2>2, <1>6, <1>15 DEF InTurn
      <3> QED
        BY <1>1, <1>5, <3>1, <2>2
    <2> QED
      BY <1>1, <1>14, <2>1, <2>2 DEF InTurn
  <1> QED
    BY <1>7, <1>8, <1>9, <1>10, <1>12, <1>13, <1>16

(***************************************************************************)
(* The steps at which a call gives up with an error, or ends with a        *)
(* receipt.                                                                *)
(***************************************************************************)
LEMMA EndStepsInv ==
    ASSUME WalletInv,
           GasPriceFails \/ SendRefused \/ AnswerLost \/ ReceiptFails \/ ReceiptMined
    PROVE  WalletInv'
  <1>1. timeout \in 1 - MineInterval .. WaitTimeout
    BY DEF WalletInv, WalletTypeOK
  <1>2. CASE GasPriceFails
    BY <1>1, <1>2, ReturnInv DEF GasPriceFails
  <1>3. CASE SendRefused
    BY <1>1, <1>3, ReturnInv DEF SendRefused
  <1>4. CASE AnswerLost
    BY <1>1, <1>4, ReturnInv DEF AnswerLost
  <1>5. CASE ReceiptFails
    BY <1>1, <1>5, ReturnInv DEF ReceiptFails
  <1>6. CASE ReceiptMined
    BY <1>1, <1>6, ReturnInv DEF ReceiptMined
  <1> QED
    BY <1>2, <1>3, <1>4, <1>5, <1>6

LEMMA WalletStepInv == WalletInv /\ [WalletNext]_walletVars => WalletInv'
  <1> SUFFICES ASSUME WalletInv, [WalletNext]_walletVars PROVE WalletInv'
    OBVIOUS
  <1>1. CASE UNCHANGED walletVars
    <2>1. UNCHANGED <<isSync, nonce, result, nextNonce, status, tx, pc, timeout>>
      BY <1>1 DEF walletVars
    <2>2. WalletTypeOK' /\ TurnInv' /\ SentInv'
      BY <2>1, Zenon DEF WalletInv, WalletTypeOK, TurnInv, SentInv, Pending, Mined
    <2>3. InTurn'
      BY <2>1, QuietInv DEF WalletInv, InTurn, Mined
    <2> QED
      BY <2>1, <2>2, <2>3, QuietInv DEF WalletInv
  <1> QED
    BY <1>1, TxInitInv, SetNonceInv, SendAcceptedInv, TxSendInv, ReceiptNullInv,
       EndStepsInv, MineInv, Zenon DEF WalletNext, WalletStep

LEMMA WalletInvariant == WalletSpec => []WalletInv
  BY WalletInitInv, WalletStepInv, PTL DEF WalletSpec

(***************************************************************************)
(* Every variable of the wallet keeps its type.                            *)
(***************************************************************************)
THEOREM WalletTypeCorrect == WalletSpec => []WalletTypeOK
  BY WalletInvariant, PTL DEF WalletInv

(***************************************************************************)
(* However the chain moves between reading a nonce and using it, no        *)
(* transaction of the wallet waits behind a nonce that nobody uses.        *)
(***************************************************************************)
THEOREM WalletNoNonceGap == WalletSpec => []NoNonceGap
  BY WalletInvariant, PTL DEF WalletInv

(***************************************************************************)
(* As long as synchronous transfers succeed, each is mined in its turn.    *)
(***************************************************************************)
THEOREM WalletSuccessesInOrder == WalletSpec => []SuccessesInOrder
  BY WalletInvariant, PTL DEF WalletInv

-----------------------------------------------------------------------------
\* Refinement

LEMMA ServiceTakesInit == WalletInit => Service!ServiceInit
  BY DEF WalletInit, Service!ServiceInit, outcomeOf, toldOf, Mined

(***************************************************************************)
(* It is the current transfer's turn in the service, too.                  *)
(***************************************************************************)
LEMMA CurrentCall ==
    ASSUME WalletInv, pc # "idle"
    PROVE  tx \in Txs /\ Service!Current(tx)
  <1>1. tx \in Txs /\ result[tx] = "none"
    BY DEF WalletInv, TurnInv
  <1>2. toldOf[tx] = "nothing"
    BY <1>1 DEF toldOf
  <1>3. ASSUME NEW u \in Txs, u < tx PROVE toldOf[u] # "nothing"
    <2>1. result[u] # "none"
      BY <1>3 DEF WalletInv, TurnInv
    <2> QED
      BY <2>1 DEF toldOf
  <1> QED
    BY <1>1, <1>2, <1>3 DEF Service!Current

(***************************************************************************)
(* A call that returns tells its caller what the service may tell.         *)
(***************************************************************************)
LEMMA ReturnTells ==
    ASSUME WalletInv, pc # "idle", NEW r \in {"SUCCESS", "TX_PENDING", "ERROR"},
           Return(r), UNCHANGED <<isSync, status>>,
           r = "SUCCESS" => Mined(tx) \/ (~isSync[tx] /\ Pending(tx))
    PROVE  Service!ServiceNext
  <1> DEFINE word == IF r # "SUCCESS" THEN "error"
                     ELSE IF isSync[tx] THEN "done" ELSE "accepted"
  <1>1. tx \in Txs /\ Service!Current(tx)
    BY CurrentCall
  <1>2. result' = [result EXCEPT ![tx] = r]
    BY DEF Return
  <1>3. outcomeOf' = outcomeOf
    BY DEF outcomeOf, Mined
  <1>4. toldOf' = [toldOf EXCEPT ![tx] = word]
    <2>1. ASSUME NEW t \in Txs, t # tx PROVE result'[t] = result[t]
      BY <1>2, <2>1 DEF WalletInv, WalletTypeOK
    <2>2. result'[tx] = r
      BY <1>1, <1>2 DEF WalletInv, WalletTypeOK
    <2> QED
      BY <2>1, <2>2 DEF toldOf
  <1>. /\ Mined(tx) => outcomeOf[tx] = "mined"
       /\ Pending(tx) => outcomeOf[tx] = "pending"
    BY <1>1 DEF outcomeOf, Pending, Mined
  <1>5. word = "done" => outcomeOf[tx] = "mined"
    <2>1. word = "done" => r = "SUCCESS" /\ isSync[tx]
      OBVIOUS
    <2> QED
      BY <2>1
  <1>6. word = "accepted" => outcomeOf[tx] \in {"pending", "mined"}
    <2>1. word = "accepted" => r = "SUCCESS"
      OBVIOUS
    <2> QED
      BY <2>1
  <1>7. Service!Tell(tx, word)
    BY <1>1, <1>3, <1>4, <1>5, <1>6, Zenon DEF Service!Tell
  <1>8. word \in {"done", "accepted", "error"}
    OBVIOUS
  <1> QED
    BY <1>1, <1>7, <1>8, Zenon DEF Service!ServiceNext

LEMMA AcceptedSubmits ==
    ASSUME WalletInv, SendAccepted PROVE Service!Submit(tx)
  <1>1. tx \in Txs /\ Service!Current(tx)
    BY CurrentCall DEF SendAccepted
  <1>2. /\ status[tx] = "unsent"
        /\ status' = [t \in Txs |-> IF t = tx THEN "pending"
                                    ELSE IF Pending(t) THEN "dropped"
                                    ELSE status[t]]
    BY AcceptedTakesPlace
  <1>3. toldOf' = toldOf
    BY DEF toldOf, SendAccepted
  <1>4. outcomeOf[tx] = "unsent"
    BY <1>1, <1>2 DEF outcomeOf, Mined
  <1>5. ASSUME NEW t \in Txs
        PROVE  outcomeOf'[t] = IF t = tx THEN "pending"
                               ELSE IF outcomeOf[t] = "pending" THEN "lost"
                               ELSE outcomeOf[t]
    <2>1. status'[t] = IF t = tx THEN "pending"
                       ELSE IF Pending(t) THEN "dropped" ELSE status[t]
      BY <1>2
    <2>2. outcomeOf'[t] = (CASE Mined(t)' -> "mined"
                             [] status'[t] = "dropped" -> "lost"
                             [] OTHER -> status'[t])
      BY DEF outcomeOf
    <2>3. outcomeOf[t] = (CASE Mined(t) -> "mined"
                            [] status[t] = "dropped" -> "lost"
                            [] OTHER -> status[t])
      BY DEF outcomeOf
    <2> QED
      BY <2>1, <2>2, <2>3 DEF Mined, Pending
  <1>6. outcomeOf' = [t \in Txs |-> IF t = tx THEN "pending"
                                   ELSE IF outcomeOf[t] = "pending" THEN "lost"
                                   ELSE outcomeOf[t]]
    BY <1>5 DEF outcomeOf
  <1> QED
    BY <1>1, <1>3, <1>4, <1>6 DEF Service!Submit

LEMMA MineIncludes ==
    ASSUME NEW t \in Txs, WalletInv, Mine(t) PROVE Service!Include(t)
  <1>1. PICK s \in {"ok", "reverted"} : status' = [status EXCEPT ![t] = s]
    BY DEF Mine
  <1>2. status'[t] = s /\ \A u \in Txs : u # t => status'[u] = status[u]
    BY <1>1 DEF WalletInv, WalletTypeOK
  <1>3. toldOf' = toldOf
    BY DEF toldOf, Mine
  <1>4. outcomeOf[t] = "pending"
    BY DEF outcomeOf, Mine, Pending, Mined
  <1>5. outcomeOf'[t] = "mined" /\ \A u \in Txs : u # t => outcomeOf'[u] = outcomeOf[u]
    BY <1>2 DEF outcomeOf, Mined
  <1>6. outcomeOf' = [outcomeOf EXCEPT ![t] = "mined"]
    BY <1>5 DEF outcomeOf
  <1> QED
    BY <1>3, <1>4, <1>6 DEF Service!Include

LEMMA WalletStepSimulates ==
    ASSUME WalletInv, [WalletNext]_walletVars
    PROVE  [Service!ServiceNext]_(Service!serviceVars)
  <1> USE DEF Service!serviceVars
  <1>1. CASE UNCHANGED walletVars
    BY <1>1 DEF walletVars, outcomeOf, toldOf, Mined
  <1>2. CASE BoatEthTxInit
    <2>1. outcomeOf' = outcomeOf
      BY <1>2 DEF BoatEthTxInit, outcomeOf, Mined
    <2>2. ASSUME NEW t \in Txs PROVE toldOf'[t] = toldOf[t]
      <3>1. t # tx + 1 => isSync'[t] = isSync[t]
        BY <1>2 DEF BoatEthTxInit, WalletInv, WalletTypeOK
      <3>2. t = tx + 1 => result[t] = "none"
        BY TxsFacts DEF WalletInv, WalletTypeOK, TurnInv
      <3>3. result' = result
        BY <1>2 DEF BoatEthTxInit
      <3> QED
        BY <3>1, <3>2, <3>3 DEF toldOf
    <2>3. toldOf' = toldOf
      BY <2>2 DEF toldOf
    <2> QED
      BY <2>1, <2>3
  <1>3. CASE BoatEthTxSetNonce
    BY <1>3 DEF BoatEthTxSetNonce, outcomeOf, toldOf, Mined
  <1>4. CASE SendAccepted
    BY <1>4, AcceptedSubmits, CurrentCall DEF Service!ServiceNext, SendAccepted
  <1>5. CASE GasPriceFails
    BY <1>5, ReturnTells DEF GasPriceFails
  <1>6. CASE SendRefused
    BY <1>6, ReturnTells DEF SendRefused
  <1>7. CASE AnswerLost
    BY <1>7, ReturnTells DEF AnswerLost
  <1>8. CASE ReceiptFails
    BY <1>8, ReturnTells DEF ReceiptFails
  <1>9. CASE ReceiptMined
    BY <1>9, ReturnTells DEF ReceiptMined
  <1>10. CASE BoatEthTxSend
    <2>1. CASE isSync[tx]
      BY <1>10, <2>1 DEF BoatEthTxSend, outcomeOf, toldOf, Mined
    <2>2. CASE ~isSync[tx]
      <3>1. Pending(tx) \/ Mined(tx)
        BY <1>10 DEF BoatEthTxSend, WalletInv, SentInv
      <3> QED
        BY <1>10, <2>2, <3>1, ReturnTells DEF BoatEthTxSend
    <2> QED
      BY <2>1, <2>2
  <1>11. CASE ReceiptNull
    <2>1. CASE timeout' > 0
      BY <1>11, <2>1 DEF ReceiptNull, outcomeOf, toldOf, Mined
    <2>2. CASE ~(timeout' > 0)
      BY <1>11, <2>2, ReturnTells DEF ReceiptNull
    <2> QED
      BY <2>1, <2>2
  <1>12. ASSUME NEW t \in Txs, Mine(t) PROVE Service!ServiceNext
    BY <1>12, MineIncludes DEF Service!ServiceNext
  <1> QED
    BY <1>1, <1>2, <1>3, <1>4, <1>5, <1>6, <1>7, <1>8, <1>9, <1>10, <1>11, <1>12,
       Zenon DEF WalletNext, WalletStep

(***************************************************************************)
(* The wallet implements the transfer service: a transfer is mined at most *)
(* once, only one is under way, and a caller told "done" finds it mined.   *)
(***************************************************************************)
THEOREM WalletImplementsService == WalletSpec => ImplementsService
  <1>1. WalletInv /\ [WalletNext]_walletVars =>
          [Service!ServiceNext]_(Service!serviceVars)
    BY WalletStepSimulates
  <1> QED
    BY <1>1, ServiceTakesInit, WalletInvariant, PTL
       DEF WalletSpec, ImplementsService, Service!ServiceSpec

=============================================================================
