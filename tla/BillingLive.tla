------------------------------ MODULE BillingLive ------------------------------
(***************************************************************************)
(* What the billing loop reaches in the end (run_forever): passes follow   *)
(* one another whatever became of the last, so that what a failure or a    *)
(* race spoiled is put right.                                              *)
(***************************************************************************)
EXTENDS Billing

\* The loop starts a pass after every pass, and a step of a pass is taken or
\* fails; a call runs to its answer; time goes by; the provider indexes.
Fairness ==
    /\ WF_vars(Issue \/ Reconcile(Loop) \/ Check)
    /\ \A c \in Call : WF_vars(Answers(c))
    /\ WF_vars(Tick) /\ WF_vars(Indexes)

LiveSpec == Spec /\ Fairness

\* Access follows the debt: once the clock stands still a user is suspended
\* exactly while an overdue invoice is uncovered, whatever a stale reconciliation,
\* a failure or a crash left behind ("reconciliation heals on the next pass",
\* ADR-0027).
AccessFollowsTheDebt == <>[](\A u \in User : access[u] = "suspended" <=> IsLate(u, now))

\* A debtor's payment is not missed: in the end whatever was sent to an address
\* of a user who is still in debt is recorded, with all its transfers.
MoneyReachesItsDebtor == <>[](\A t \in Tx :
    Sent(t) /\ sent[t].user \in InDebt
        => payments[t] # NoPayment /\ payments[t].amount = Parts[t])

=============================================================================
