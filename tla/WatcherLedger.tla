---------------------------- MODULE WatcherLedger ----------------------------
(***************************************************************************)
(* The watcher implements the Ledger: the refinement mapping.              *)
(***************************************************************************)
EXTENDS Watcher

\* classify_transaction: the status the API shows a row with.
Classify(r) ==
    CASE r.blk = 0 -> "absent"
      [] r.blk # 0 /\ ~r.ok -> "failed"
      [] r.blk # 0 /\ r.ok /\ r.applied -> "confirmed"
      [] r.blk # 0 /\ r.ok /\ ~r.applied -> "pending"

Judged(t) == IF ~IsFinal(t) THEN "open" ELSE IF chain[t].ok THEN "success" ELSE "failure"

Promise == INSTANCE Ledger WITH
    TxOf <- [l \in Leg |-> l[1]],
    verdict <- [t \in Tx |-> Judged(t)],
    view <- [l \in Leg |-> Classify(rows[l])],
    credit <- credit

\* Every behaviour of the watcher is one the Ledger allows: a leg is shown as
\* confirmed only once it is final and successful, counted in the same step,
\* and never taken back or counted again.
ImplementsLedger == Promise!Spec

=============================================================================
