-------------------------- MODULE TransferService --------------------------
(***************************************************************************)
(* What a robot may rely on when it makes one transfer after another with  *)
(* the BoAT wallet (erc20Transfer_transfer, BoatEthTransfer): a transfer   *)
(* is on the chain at most once, at most one transfer is under way, one    *)
(* that is under way can be lost to a later one, and a caller told that a  *)
(* transfer is done finds it on the chain.  EthWallet implements this.     *)
(***************************************************************************)
EXTENDS Integers

CONSTANT Txs        \* the transfers, in the order they are made: 1..n

VARIABLES
    outcome,    \* what becomes of each transfer
    told        \* what its caller has been told

serviceVars == <<outcome, told>>

-----------------------------------------------------------------------------

ServiceInit ==
    /\ outcome = [t \in Txs |-> "unsent"]
    /\ told = [t \in Txs |-> "nothing"]

(***************************************************************************)
(* It is t's turn: every earlier call has returned, t's has not.           *)
(***************************************************************************)
Current(t) ==
    /\ told[t] = "nothing"
    /\ \A u \in Txs : u < t => told[u] # "nothing"

Submit(t) ==
    /\ Current(t) /\ outcome[t] = "unsent"
    /\ outcome' = [u \in Txs |-> IF u = t THEN "pending"
                                 ELSE IF outcome[u] = "pending" THEN "lost"
                                 ELSE outcome[u]]
    /\ UNCHANGED told

Include(t) ==
    /\ outcome[t] = "pending"
    /\ outcome' = [outcome EXCEPT ![t] = "mined"]
    /\ UNCHANGED told

(***************************************************************************)
(* A synchronous call reports "done" only for a mined transfer, an         *)
(* asynchronous one "accepted" once a node has taken it; an error says     *)
(* nothing about the transfer.                                             *)
(***************************************************************************)
Tell(t, r) ==
    /\ Current(t)
    /\ r = "done" => outcome[t] = "mined"
    /\ r = "accepted" => outcome[t] \in {"pending", "mined"}
    /\ told' = [told EXCEPT ![t] = r]
    /\ UNCHANGED outcome

ServiceNext ==
    \E t \in Txs : \/ Submit(t) \/ Include(t)
                   \/ \E r \in {"done", "accepted", "error"} : Tell(t, r)

ServiceSpec == ServiceInit /\ [][ServiceNext]_serviceVars

=============================================================================
