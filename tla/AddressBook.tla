----------------------------- MODULE AddressBook ------------------------------
(***************************************************************************)
(* What issuing payment addresses promises, with no word about how it is   *)
(* done: every payer gets at most one address in a network, the address    *)
(* never changes, and no address, in whatever network, has two payers.     *)
(***************************************************************************)
CONSTANTS
    Payer,      \* users of the applications
    Network,    \* networks addresses are issued in
    Address,    \* addresses that can be derived
    NoAddress   \* not an address

VARIABLE book   \* the address of each payer in each network

vars == book

Init == book = [p \in Payer |-> [n \in Network |-> NoAddress]]

\* The payers an address was given to, in any network.
PayersOf(a) == {p \in Payer : \E n \in Network : book[p][n] = a}

Issue(p, n, a) ==
    /\ book[p][n] = NoAddress
    /\ PayersOf(a) \subseteq {p}
    /\ book' = [book EXCEPT ![p][n] = a]

Next == \E p \in Payer, n \in Network, a \in Address : Issue(p, n, a)

Spec == Init /\ [][Next]_vars

=============================================================================
