----------------------------- MODULE EthWallet -----------------------------
(***************************************************************************)
(* A wallet of the BoAT engine (api_ethereum.c, boatethereum.c) that makes *)
(* one transfer after another: BoatEthTxInit, BoatEthTxSetNonce(AUTO),     *)
(* EthSendRawtx and, for a synchronous transaction, the receipt loop of    *)
(* BoatEthGetTransactionReceipt.  The node and the chain are outside the   *)
(* code: a call may fail before or after it took effect, and a transaction *)
(* is mined at any time, or later than the wallet waits for it.            *)
(***************************************************************************)
EXTENDS Integers

CONSTANTS
    Txs,            \* the transfers made one after another: 1..n
    WaitTimeout,    \* BOAT_ETH_WAIT_PENDING_TX_TIMEOUT, 30 seconds
    MineInterval,   \* BOAT_ETH_MINE_INTERVAL, 3 seconds
    SyncModes,      \* values of is_sync_tx; the robots only use TRUE
    RpcFails,       \* TRUE: RPC calls may fail
    ChainSlow       \* TRUE: mining may take longer than WaitTimeout

ASSUME WalletAssumption ==
    /\ Txs \subseteq Nat \ {0} /\ \A t \in Txs : 1..t \subseteq Txs
    /\ WaitTimeout \in Nat \ {0} /\ MineInterval \in Nat \ {0}
    /\ SyncModes \subseteq BOOLEAN
    /\ RpcFails \in BOOLEAN /\ ChainSlow \in BOOLEAN

VARIABLES
    pc,         \* where the current call is
    tx,         \* the current transfer
    isSync,     \* tx_ptr->is_sync_tx of each transfer
    nonce,      \* rawtx_fields.nonce of each transfer
    timeout,    \* tx_mined_timeout
    result,     \* what each call returned
    nextNonce,  \* chain: transactions mined from the account
    status      \* chain: what became of each transfer

walletVars == <<pc, tx, isSync, nonce, timeout, result, nextNonce, status>>

-----------------------------------------------------------------------------

NoNonce == -1
Mined(t) == status[t] \in {"ok", "reverted"}
Pending(t) == status[t] = "pending"

\* Mutant: the wallet counts its own calls.
LatestCount_Local == tx - 1

(***************************************************************************)
(* eth_getTransactionCount(address, "latest") does not count pending       *)
(* transactions.                                                           *)
(***************************************************************************)
LatestCount == nextNonce

-----------------------------------------------------------------------------

WalletInit ==
    /\ pc = "idle" /\ tx = 0 /\ timeout = 0
    /\ isSync = [t \in Txs |-> TRUE]
    /\ nonce = [t \in Txs |-> NoNonce]
    /\ result = [t \in Txs |-> "none"]
    /\ nextNonce = 0 /\ status = [t \in Txs |-> "unsent"]

Return(r) ==
    /\ result' = [result EXCEPT ![tx] = r]
    /\ pc' = "idle"

(***************************************************************************)
(* BoatEthTxInit with gasprice NULL asks the node for the gas price.       *)
(***************************************************************************)
BoatEthTxInit ==
    /\ pc = "idle" /\ tx + 1 \in Txs
    /\ tx' = tx + 1
    /\ \E m \in SyncModes : isSync' = [isSync EXCEPT ![tx'] = m]
    /\ pc' = "initialised"
    /\ UNCHANGED <<nonce, timeout, result, nextNonce, status>>

GasPriceFails ==
    /\ pc = "initialised" /\ RpcFails
    /\ Return("ERROR")
    /\ UNCHANGED <<tx, isSync, nonce, timeout, nextNonce, status>>

BoatEthTxSetNonce ==
    /\ pc = "initialised"
    /\ nonce' = [nonce EXCEPT ![tx] = LatestCount]
    /\ pc' = "send"
    /\ UNCHANGED <<tx, isSync, timeout, result, nextNonce, status>>

(***************************************************************************)
(* eth_sendRawTransaction at the node: a nonce that is used up is refused; *)
(* a transaction with the nonce of a pending one is refused or replaces it.*)
(***************************************************************************)
SameNonce(t) == Pending(t) /\ nonce[t] = nonce[tx]

NodeRefuses == nonce[tx] < nextNonce \/ (\E t \in Txs : SameNonce(t))

NodeAccepts ==
    /\ nonce[tx] >= nextNonce
    /\ status' = [t \in Txs |-> IF t = tx THEN "pending"
                                ELSE IF SameNonce(t) THEN "dropped"
                                ELSE status[t]]

SendRefused ==
    /\ pc = "send" /\ (RpcFails \/ NodeRefuses)
    /\ Return("ERROR")
    /\ UNCHANGED <<tx, isSync, nonce, timeout, nextNonce, status>>

SendAccepted ==
    /\ pc = "send" /\ NodeAccepts
    /\ pc' = "answer"
    /\ UNCHANGED <<tx, isSync, nonce, timeout, result, nextNonce>>

(***************************************************************************)
(* The answer to eth_sendRawTransaction: lost, and then the call fails     *)
(* although the node has the transaction, or its hash is received.         *)
(***************************************************************************)
AnswerLost ==
    /\ pc = "answer" /\ RpcFails
    /\ Return("ERROR")
    /\ UNCHANGED <<tx, isSync, nonce, timeout, nextNonce, status>>

\* Mutant: a synchronous transaction does not wait for its receipt.
BoatEthTxSend_NoWait ==
    /\ pc = "answer"
    /\ Return("SUCCESS")
    /\ UNCHANGED <<tx, isSync, nonce, timeout, nextNonce, status>>

BoatEthTxSend ==
    /\ pc = "answer"
    /\ IF isSync[tx]
       THEN pc' = "receipt" /\ timeout' = WaitTimeout /\ UNCHANGED result
       ELSE Return("SUCCESS") /\ UNCHANGED timeout
    /\ UNCHANGED <<tx, isSync, nonce, nextNonce, status>>

(***************************************************************************)
(* One turn of the receipt loop.  Both "0x1" and "0x0" end it with         *)
(* BOAT_SUCCESS; a null receipt is asked for again until the time is up.   *)
(***************************************************************************)
ReceiptFails ==
    /\ pc = "receipt" /\ RpcFails
    /\ Return("ERROR")
    /\ UNCHANGED <<tx, isSync, nonce, timeout, nextNonce, status>>

ReceiptMined ==
    /\ pc = "receipt" /\ Mined(tx)
    /\ Return("SUCCESS")
    /\ UNCHANGED <<tx, isSync, nonce, timeout, nextNonce, status>>

\* Mutants: the loop starts again when the time is up; running out of time
\* is not reported.
ReceiptNull_Restarts ==
    /\ pc = "receipt" /\ ~Mined(tx)
    /\ timeout' = IF timeout > MineInterval THEN timeout - MineInterval
                  ELSE WaitTimeout
    /\ UNCHANGED <<pc, tx, isSync, nonce, result, nextNonce, status>>

ReceiptNull_TimeoutIsSuccess ==
    /\ pc = "receipt" /\ ~Mined(tx)
    /\ timeout' = timeout - MineInterval
    /\ IF timeout' > 0 THEN UNCHANGED <<pc, result>> ELSE Return("SUCCESS")
    /\ UNCHANGED <<tx, isSync, nonce, nextNonce, status>>

ReceiptNull ==
    /\ pc = "receipt" /\ ~Mined(tx)
    /\ ChainSlow \/ timeout > MineInterval
    /\ timeout' = timeout - MineInterval
    /\ IF timeout' > 0 THEN UNCHANGED <<pc, result>> ELSE Return("TX_PENDING")
    /\ UNCHANGED <<tx, isSync, nonce, nextNonce, status>>

WalletStep ==
    \/ BoatEthTxInit \/ GasPriceFails \/ BoatEthTxSetNonce
    \/ SendRefused \/ SendAccepted \/ AnswerLost \/ BoatEthTxSend
    \/ ReceiptFails \/ ReceiptMined \/ ReceiptNull

(***************************************************************************)
(* Environment: the pending transaction with the next nonce is mined; the  *)
(* contract may revert it.                                                 *)
(***************************************************************************)
Mine(t) ==
    /\ Pending(t) /\ nonce[t] = nextNonce
    /\ \E s \in {"ok", "reverted"} : status' = [status EXCEPT ![t] = s]
    /\ nextNonce' = nextNonce + 1
    /\ UNCHANGED <<pc, tx, isSync, nonce, timeout, result>>

WalletNext == WalletStep \/ \E t \in Txs : Mine(t)

(***************************************************************************)
(* The caller's thread keeps running, every RPC call returns (curl gives   *)
(* up after 30 seconds), and a chain that is not slow mines.               *)
(***************************************************************************)
WalletSpec ==
    /\ WalletInit /\ [][WalletNext]_walletVars
    /\ WF_walletVars(WalletStep)
    /\ WF_walletVars(~ChainSlow /\ \E t \in Txs : Mine(t))

-----------------------------------------------------------------------------

WalletTypeOK ==
    /\ pc \in {"idle", "initialised", "send", "answer", "receipt"}
    /\ tx \in Txs \union {0} /\ isSync \in [Txs -> BOOLEAN]
    /\ nonce \in [Txs -> Nat \union {NoNonce}]
    /\ timeout \in 1 - MineInterval .. WaitTimeout
    /\ result \in [Txs -> {"none", "SUCCESS", "TX_PENDING", "ERROR"}]
    /\ nextNonce \in Nat
    /\ status \in [Txs -> {"unsent", "pending", "ok", "reverted", "dropped"}]

(***************************************************************************)
(* The nonce is read before the transaction is sent and the chain moves in *)
(* between, yet the wallet never leaves a gap behind the nonces that are   *)
(* used up, so no transaction of its own can block the account.            *)
(***************************************************************************)
NoNonceGap == \A t \in Txs : Pending(t) => nonce[t] = nextNonce

(***************************************************************************)
(* As long as synchronous transfers succeed, each one is mined, with the   *)
(* nonce of its turn and after the one before it.                          *)
(***************************************************************************)
Succeeded(t) == isSync[t] /\ result[t] = "SUCCESS"

SuccessesInOrder ==
    \A t \in Txs : (\A u \in 1..t : Succeeded(u)) => Mined(t) /\ nonce[t] = t - 1

(***************************************************************************)
(* Every call returns: the receipt loop gives up in the end.               *)
(***************************************************************************)
CallsReturn == (pc # "idle") ~> (pc = "idle")

-----------------------------------------------------------------------------

(***************************************************************************)
(* The wallet implements the transfer service: both ways of being mined    *)
(* are "mined", a replaced transaction is lost, and TX_PENDING tells the   *)
(* caller no more than an error.                                           *)
(***************************************************************************)
outcomeOf == [t \in Txs |-> CASE Mined(t) -> "mined"
                              [] status[t] = "dropped" -> "lost"
                              [] OTHER -> status[t]]

toldOf == [t \in Txs |-> CASE result[t] = "none" -> "nothing"
                           [] result[t] = "SUCCESS" ->
                                IF isSync[t] THEN "done" ELSE "accepted"
                           [] OTHER -> "error"]

Service == INSTANCE TransferService WITH outcome <- outcomeOf, told <- toldOf

ImplementsService == Service!ServiceSpec

=============================================================================
