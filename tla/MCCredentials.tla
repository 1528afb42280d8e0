---------------------------- MODULE MCCredentials ----------------------------
(***************************************************************************)
(* What a user gets in with: a small instance of Accounts, one settled     *)
(* user and one who registers, and one of ApiKeys, one application.        *)
(***************************************************************************)
EXTENDS Accounts, ApiKeys, TLC

CONSTANTS u1, u2, l1, l2, a1, a2

MCNameOf == u1 :> l1
MCHomeOf == u1 :> a1
MCRowOf == u1 :> 1

Registry == {"register", "add", "remove", "confirm", "signin"}
Doors == {"signin", "ask", "reset", "change", "temporary", "block", "unblock"}
KeysOnly == {}

MCMixes == {Registry, Doors, KeysOnly}

MCSymmetry == Permutations(Call) \cup Permutations(Secret)

\* Keys are interchangeable too: they are numbered in the order they come.
InOrder == \A k \in used' \ used : \A j \in Key \ used' : k < j

\* Bound: four keys with one failure, or three with two.
InBudget == Cardinality(used') + keyFaults' <= 5

MCInit == Init /\ KeysInit

\* The accounts and the keys share no state, so a behaviour moves one of them.
MCNext ==
    \/ mix # KeysOnly /\ Next /\ UNCHANGED keysVars
    \/ mix = KeysOnly /\ KeysNext /\ InOrder /\ InBudget /\ UNCHANGED vars

MCSpec == MCInit /\ [][MCNext]_<<vars, keysVars>>

=============================================================================
