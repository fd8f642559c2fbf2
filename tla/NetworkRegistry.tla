-------------------------- MODULE NetworkRegistry --------------------------
(***************************************************************************)
(* What the network API promises: every protocol has a book of its         *)
(* persistent networks, and an index that one protocol uses is free for    *)
(* no other.  A call changes the entry it was made for or nothing; only a  *)
(* delete that two mishaps meet may strike out one other entry instead.    *)
(* Once the flash could not be read (`blind`) nothing is promised.         *)
(***************************************************************************)
EXTENDS Integers

CONSTANTS Protocols, Indexes, Networks, NoNetwork

VARIABLES
    book,       \* per protocol and index: the network, or NoNetwork
    asked,      \* the call: [op, protocol, index]; op is "none" between calls
    mishaps,    \* its failed writes; a power loss counts twice
    blind       \* a read or an allocation has failed

registryVars == <<book, asked, mishaps, blind>>

Entries == Protocols \X Indexes

RegistryInit ==
    /\ book = [e \in Entries |-> NoNetwork]
    /\ asked = [op |-> "none", protocol |-> "none", index |-> 0]
    /\ mishaps = 0
    /\ blind = FALSE

Entry == <<asked.protocol, asked.index>>

Continues ==
    /\ asked' \in {asked, [asked EXCEPT !.op = "none"]}
    /\ UNCHANGED blind

Ask ==
    /\ asked.op = "none"
    /\ asked' \in [op : {"create", "delete"}, protocol : Protocols,
                   index : Indexes]
    /\ mishaps' = 0
    /\ UNCHANGED <<book, blind>>

Enter ==
    /\ asked.op = "create"
    /\ \A p \in Protocols : book[<<p, asked.index>>] = NoNetwork
    /\ \E n \in Networks : book' = [book EXCEPT ![Entry] = n]
    /\ Continues /\ UNCHANGED mishaps

StrikeOut ==
    /\ asked.op = "delete"
    /\ book' = [book EXCEPT ![Entry] = NoNetwork]
    /\ mishaps' >= mishaps
    /\ Continues

Fail ==
    /\ mishaps' >= mishaps
    /\ Continues /\ UNCHANGED book

LoseAnother ==
    /\ asked.op = "delete"
    /\ mishaps' >= 2
    /\ \E e \in Entries : book' = [book EXCEPT ![e] = NoNetwork]
    /\ Continues

Blindness ==
    /\ blind'
    /\ book' \in [Entries -> Networks \union {NoNetwork}]

RegistryNext == Ask \/ Enter \/ StrikeOut \/ Fail \/ LoseAnother \/ Blindness

RegistrySpec == RegistryInit /\ [][RegistryNext]_registryVars
=============================================================================
