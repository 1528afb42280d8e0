---------------------------- MODULE MCWatcherLive ----------------------------
(***************************************************************************)
(* An instance of WatcherLive for TLC: one owner and payments to it from   *)
(* outside.                                                                *)
(***************************************************************************)
EXTENDS WatcherLive, WatcherLedger, TLC

CONSTANTS alice, aliceAddr

MCOwnerOf == (aliceAddr :> alice)
MCFrom == [t \in Tx |-> Outside]
MCTo == [t \in Tx |-> aliceAddr]

=============================================================================
