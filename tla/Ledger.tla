------------------------------- MODULE Ledger --------------------------------
(***************************************************************************)
(* What the gateway promises a merchant about the transfers of one         *)
(* network, with no word about how it finds out.  A transfer is undecided  *)
(* until the network makes it final; a consumer sees each of its legs as   *)
(* absent, pending, failed or confirmed; the balance counts a leg once or  *)
(* not at all.  "Confirmed" is said only of what succeeded for good and is *)
(* never taken back; everything else may still change.                     *)
(***************************************************************************)
EXTENDS Integers

CONSTANTS
    Tx,     \* transfers
    Leg,    \* their legs
    TxOf    \* the transfer of each leg

VARIABLES
    verdict,    \* what the network decided about each transfer
    view,       \* the status each leg is shown with
    credit      \* how many times each leg is counted in the balance

ledgerVars == <<verdict, view, credit>>

Verdict == {"open", "success", "failure"}
Status == {"absent", "pending", "failed", "confirmed"}

Init ==
    /\ verdict = [t \in Tx |-> "open"]
    /\ view = [l \in Leg |-> "absent"]
    /\ credit = [l \in Leg |-> 0]

\* The network decides some transfers; a decision is final.
Decide ==
    /\ verdict' \in [Tx -> Verdict]
    /\ \A t \in Tx : verdict[t] # "open" => verdict'[t] = verdict[t]
    /\ UNCHANGED <<view, credit>>

\* Legs appear, change their status or disappear, but not confirmed ones.
Observe ==
    /\ view' \in [Leg -> Status]
    /\ \A l \in Leg : view'[l] # view[l] => "confirmed" \notin {view[l], view'[l]}
    /\ UNCHANGED <<verdict, credit>>

\* Some pending legs are confirmed, and counted in the balance in the same step.
Confirm ==
    /\ \E S \in SUBSET Leg :
          /\ \A l \in S : view[l] = "pending" /\ verdict[TxOf[l]] = "success"
          /\ view' = [l \in Leg |-> IF l \in S THEN "confirmed" ELSE view[l]]
          /\ credit' = [l \in Leg |-> IF l \in S THEN credit[l] + 1 ELSE credit[l]]
    /\ UNCHANGED verdict

Next == Decide \/ Observe \/ Confirm

Spec == Init /\ [][Next]_ledgerVars

=============================================================================
