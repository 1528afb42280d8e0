------------------------------- MODULE Payments -------------------------------
(***************************************************************************)
(* The invoice addresses and the money that arrives on them: what payers   *)
(* send, what the provider shows of it (external), and the rows of         *)
(* billing.db that check_payments keeps (orchestrator/billing.py,          *)
(* storage/billing.py).                                                    *)
(*                                                                         *)
(* A transaction carries Parts[t] transfers of one unit of one token, all  *)
(* to one invoice address.  The provider indexes them one by one, the last *)
(* at most Overlap after the block.                                        *)
(***************************************************************************)
EXTENDS Integers, FiniteSetsExt

CONSTANTS
    User, Network,
    Tx, Parts,      \* transactions; bound: all that are ever sent
    Overlap,        \* CHECK_OVERLAP, in ticks
    MaxTime,        \* bound: the clock stops here
    NoPayment,      \* not sent; not recorded
    NoAddress,      \* the user has no invoice address in this network
    Never           \* checked_at IS NULL

ASSUME PaymentsAssumption ==
    /\ Parts \in [Tx -> Nat \ {0}] /\ Overlap \in Nat /\ MaxTime \in Nat
    /\ NoAddress \notin Nat /\ Never \notin Nat /\ NoAddress # Never
    /\ IsFiniteSet(Tx)
    /\ NoPayment \notin [amount : Nat, value : Nat] \cup [user : User, net : Network, at : Nat]

VARIABLES
    now,
    sent, shown,    \* external: who pays where and when; transfers indexed
    accepted,       \* registry: the token is accepted as payment
    address,        \* invoice_addresses: checked_at by user and network
    payments,       \* invoice_payments, by transaction
    manual          \* manual_credits: the sum, by user

chain == <<sent, shown>>
store == <<address, payments, manual>>

PaymentsTypeOK ==
    /\ now \in 0 .. MaxTime
    /\ \A t \in Tx : \/ sent[t] = NoPayment /\ shown[t] = 0
                     \/ /\ sent[t] \in [user : User, net : Network, at : 0 .. MaxTime]
                        /\ shown[t] \in 0 .. Parts[t]
    /\ accepted \in BOOLEAN
    /\ address \in [User -> [Network -> {NoAddress, Never} \cup (0 .. MaxTime)]]
    /\ \A t \in Tx : payments[t] \in {NoPayment} \cup [amount : 1 .. Parts[t], value : 0 .. Parts[t]]
    /\ manual \in [User -> Nat]

PaymentsInit ==
    /\ now = 0
    /\ sent = [t \in Tx |-> NoPayment] /\ shown = [t \in Tx |-> 0]
    /\ accepted = TRUE
    /\ address = [u \in User |-> [n \in Network |-> NoAddress]]
    /\ payments = [t \in Tx |-> NoPayment]
    /\ manual = [u \in User |-> 0]

(***************************************************************************)
(* The payers and the provider.                                            *)
(***************************************************************************)
Sent(t) == sent[t] # NoPayment
SentTo(t, u, n) == Sent(t) /\ sent[t].user = u /\ sent[t].net = n

Pay(t, u, n) ==
    /\ ~Sent(t) /\ address[u][n] # NoAddress
    /\ sent' = [sent EXCEPT ![t] = [user |-> u, net |-> n, at |-> now]]
    /\ UNCHANGED <<now, shown, accepted, store>>

Index(t) ==
    /\ Sent(t) /\ shown[t] < Parts[t]
    /\ shown' = [shown EXCEPT ![t] = @ + 1]
    /\ UNCHANGED <<now, sent, accepted, store>>

\* The index lags by Overlap at most.
IndexInTime == \A t \in Tx : Sent(t) /\ shown[t] < Parts[t] => now < sent[t].at + Overlap

(***************************************************************************)
(* The poll of one address.                                                *)
(***************************************************************************)
\* check_payments asks from a little before the cursor on, or for everything.
BadSince(checked) == IF checked = Never THEN 0 ELSE checked
Since(checked) == IF checked = Never THEN 0 ELSE checked - Overlap

\* source.transfers and _merged_by_transaction: one transfer per transaction,
\* with the sum of those that are shown; 0 where there is none.
Answer(u, n, since) ==
    [t \in Tx |-> IF SentTo(t, u, n) /\ sent[t].at >= since THEN shown[t] ELSE 0]

\* record_payment: insert; raise a known row to a larger amount; or nothing.
BadTwice(t, amount, value) ==
    [payments EXCEPT ![t] =
        IF @ = NoPayment THEN [amount |-> amount, value |-> value]
        ELSE [amount |-> @.amount + amount, value |-> @.value + value]]
Recorded(t, amount, value) ==
    IF payments[t] = NoPayment \/ payments[t].amount < amount
    THEN [payments EXCEPT ![t] = [amount |-> amount, value |-> value]]
    ELSE payments

\* _record_transfer: an asset that is not accepted is kept, at no value.
RecordTransfer(t, amount, isPayment) ==
    payments' = Recorded(t, amount, IF isPayment THEN amount ELSE 0)

\* user_credits: observed payments and credits by hand.
PaidBy(u) == {t \in Tx : payments[t] # NoPayment /\ sent[t].user = u}
Paid(u) == SumFunction([t \in PaidBy(u) |-> payments[t].value])
Credits(u) == Paid(u) + manual[u]

(***************************************************************************)
(* Properties.                                                             *)
(***************************************************************************)
\* What arrived on an address before its cursor less the overlap is recorded,
\* with every transfer of the transaction, however late the provider showed it
\* (CHECK_OVERLAP, "an answer that held only part of a transaction is topped up
\* by a later poll", ADR-0027).
PaymentsAreRecorded ==
    \A t \in Tx : LET checked == address[sent[t].user][sent[t].net] IN
        Sent(t) /\ checked # Never /\ sent[t].at < checked - Overlap
            => payments[t] # NoPayment /\ payments[t].amount = Parts[t]

\* However often a transaction is polled, and in whatever pieces, its user is
\* never credited more than the transfers that arrived (the idempotency key of
\* a payment).
NoMoneyFromRepeats ==
    \A t \in Tx : payments[t] # NoPayment =>
        payments[t].amount <= shown[t] /\ payments[t].value <= shown[t]

=============================================================================
