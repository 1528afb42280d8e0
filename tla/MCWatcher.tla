------------------------------ MODULE MCWatcher ------------------------------
(***************************************************************************)
(* An instance of Watcher for TLC: two owners with one address each.       *)
(***************************************************************************)
EXTENDS Watcher, TLC

CONSTANTS alice, bob, aliceAddr, bobAddr

MCOwnerOf == (aliceAddr :> alice) @@ (bobAddr :> bob)

\* Every transfer is a payment between the two owners: both of its legs are
\* tracked, each in a database of its own.
MCFrom == [t \in Tx |-> aliceAddr]
MCTo == [t \in Tx |-> bobAddr]

=============================================================================
