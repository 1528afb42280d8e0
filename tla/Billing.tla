-------------------------------- MODULE Billing --------------------------------
(***************************************************************************)
(* The fee of the gateway (orchestrator/billing.py, storage/billing.py):   *)
(* the loop that issues invoices, reconciles access with the debt and      *)
(* polls for payments, and the calls of the panel and the cabinet that run *)
(* beside it.  One action per statement on billing.db or request to the    *)
(* provider, since a connection that only reads opens no transaction; the  *)
(* loop's reads of what only the loop writes are joined.                   *)
(***************************************************************************)
EXTENDS Payments

CONSTANTS
    Call,           \* API calls, one each; bound: all that are ever made
    Loop,           \* the billing task
    DefaultNetwork,
    Fee,            \* what fee_amount may make of a turnover, if anything
    ByHand,         \* amounts the operator may type instead of the invoice's
    PeriodLength,   \* the calendar month, in ticks
    DueIn,          \* the term of payment
    RemindIn,       \* reminders from this long before the due date; 0: never
    PassTime,       \* a pass or a call takes no longer than this
    Modes,          \* bound: what is done from outside in one behaviour
    MaxFaults,      \* bound: failures and crashes
    NoUser, NoNetwork, NoInvoice

\* The calls that are made; whether the accepted assets change while every payment
\* is known in full, or while one is known in part; whether master wallets go.
Mode == [calls : SUBSET {"confirm", "choose"}, assets : SUBSET {"full", "part"},
         walletsGo : BOOLEAN]

ASSUME BillingAssumption ==
    /\ DefaultNetwork \in Network /\ Loop \notin Call
    /\ Fee \cup ByHand \subseteq Nat \ {0} /\ PeriodLength \in Nat \ {0}
    /\ DueIn \in Nat /\ RemindIn \in Nat /\ PassTime \in 1 .. DueIn
    /\ Modes \subseteq Mode /\ MaxFaults \in Nat
    /\ NoUser \notin User /\ NoNetwork \notin Network
    /\ NoInvoice \notin [amount : Nat, due : Nat, net : Network]

Proc == Call \cup {Loop}
Period == 0 .. (MaxTime \div PeriodLength) - 1

VARIABLES
    mode,
    invoices,       \* by user and period
    access,         \* user_billing.state
    network,        \* user_billing.network
    wallets,        \* networks with a master wallet
    notices,        \* reminders marked as sent
    task,           \* the coroutines: where each is, and its locals
    letters,        \* history: reminders sent, by user and period
    faults

env == <<mode, now, chain, accepted>>
books == <<invoices, access, network, wallets, notices>>
vars == <<env, store, books, task, letters, faults>>

\* A task at rest has no locals.
Rest(step) ==
    [pc |-> step, moment |-> 0, todo |-> {}, owing |-> {}, user |-> NoUser,
     rows |-> {}, net |-> NoNetwork, num |-> 0, sums |-> [u \in User |-> 0], answer |-> [t \in Tx |-> 0],
     isPayment |-> FALSE, checking |-> FALSE,
     late |-> {}]   \* history: who was overdue when the reconciliation began

At(p, step) == task[p].pc = step
Fault == faults < MaxFaults /\ faults' = faults + 1

(***************************************************************************)
(* The balance and what follows from it.                                   *)
(***************************************************************************)
Billed(u) == {q \in Period : invoices[u][q] # NoInvoice}
Owed(u, periods) == SumFunction([q \in periods |-> invoices[u][q].amount])
Balance(u) == Credits(u) - Owed(u, Billed(u))

\* classify_invoices: credits cover the invoices oldest first; what is left
\* uncovered is overdue after its due date.
Uncovered(u, periods, credits) ==
    {q \in periods : credits < Owed(u, {r \in periods : r <= q})}
BadOverdue(u, periods, credits, m) ==
    {q \in Uncovered(u, periods, credits) : invoices[u][q].due - RemindIn <= m}
Overdue(u, periods, credits, m) ==
    {q \in Uncovered(u, periods, credits) : invoices[u][q].due < m}

\* What these reads are to find out: some invoice is past its due date, and the
\* credits do not reach it.
IsLate(u, m) == \E q \in Billed(u) :
    invoices[u][q].due < m /\ Credits(u) < Owed(u, {r \in Billed(u) : r <= q})

\* previous_period: the last period that has ended; there is none at first.
DuePeriod(m) == m \div PeriodLength - 1

(***************************************************************************)
(* run_pass: the invoices of the last period.                              *)
(***************************************************************************)
StartPass ==
    /\ At(Loop, "idle")
    /\ task' = [task EXCEPT ![Loop].pc = "terms", ![Loop].moment = now]
    /\ UNCHANGED <<env, store, books, letters, faults>>

\* read_terms: the fee is on or off.
ReadTerms ==
    /\ At(Loop, "terms")
    /\ \/ task' = [task EXCEPT ![Loop].pc = "issue", ![Loop].todo = User]
       \/ task' = [task EXCEPT ![Loop].pc = "balances"]
    /\ UNCHANGED <<env, store, books, letters, faults>>

\* The loop is done with a user's invoice.
NextUser(u) ==
    task' = [task EXCEPT ![Loop].pc = "issue", ![Loop].todo = @ \ {u},
                ![Loop].user = NoUser, ![Loop].net = NoNetwork, ![Loop].num = 0]

\* The period is billed, the turnover too small, or the owner's database failed.
SkipUser(u) ==
    /\ At(Loop, "issue") /\ u \in task[Loop].todo
    /\ NextUser(u)
    /\ UNCHANGED <<env, store, books, letters, faults>>

BillUser(u, fee) ==
    /\ At(Loop, "issue") /\ u \in task[Loop].todo
    /\ DuePeriod(task[Loop].moment) \in Period \ Billed(u)
    /\ task' = [task EXCEPT ![Loop].pc = "network", ![Loop].user = u, ![Loop].num = fee]
    /\ UNCHANGED <<env, store, books, letters, faults>>

ReadNetwork ==
    /\ At(Loop, "network")
    /\ task' = [task EXCEPT ![Loop].pc = "address", ![Loop].net = network[task[Loop].user]]
    /\ UNCHANGED <<env, store, books, letters, faults>>

\* ensure_invoice_address, up to its lock, which only this loop takes.  Without
\* a master wallet there is no invoice (the letter to the owner is left out).
BadFound(u, n) == "insert"
Found(u, n) == IF address[u][n] # NoAddress THEN "insert"
               ELSE IF n \in wallets THEN "allocate" ELSE "nowhere"

FindAddress ==
    /\ At(Loop, "address")
    /\ LET u == task[Loop].user  step == Found(u, task[Loop].net) IN
         IF step = "nowhere" THEN NextUser(u) ELSE task' = [task EXCEPT ![Loop].pc = step]
    /\ UNCHANGED <<env, store, books, letters, faults>>

AllocateAddress ==
    /\ At(Loop, "allocate")
    /\ address' = [address EXCEPT ![task[Loop].user][task[Loop].net] = Never]
    /\ task' = [task EXCEPT ![Loop].pc = "insert"]
    /\ UNCHANGED <<env, payments, manual, books, letters, faults>>

InsertInvoice ==
    /\ At(Loop, "insert")
    /\ LET l == task[Loop] IN
         /\ invoices' = [invoices EXCEPT ![l.user][DuePeriod(l.moment)] =
                [amount |-> l.num, due |-> l.moment + DueIn, net |-> l.net]]
         /\ NextUser(l.user)
    /\ UNCHANGED <<env, store, access, network, wallets, notices, letters, faults>>

(***************************************************************************)
(* _reconcile_access, of the loop (twice) and of a credit by hand.         *)
(***************************************************************************)
InDebt == {u \in User : Balance(u) < 0}

\* user_balances: the payments, the credits by hand and the invoices of every
\* user, read one after the other.
SumPayments(p) ==
    /\ \/ At(p, "balances")
       \/ task[p].pc \in {"issue", "poll"} /\ task[p].todo = {}
    /\ task' = [task EXCEPT ![p].pc = "manual", ![p].sums = [u \in User |-> Paid(u)],
                    ![p].owing = {}, ![p].checking = At(p, "poll"),
                    ![p].late = {u \in User : IsLate(u, now)}]
    /\ UNCHANGED <<env, store, books, letters, faults>>

SumManual(p) ==
    /\ At(p, "manual")
    /\ task' = [task EXCEPT ![p].pc = "owed", ![p].sums = [u \in User |-> @[u] + manual[u]]]
    /\ UNCHANGED <<env, store, books, letters, faults>>

SumInvoices(p) ==
    /\ At(p, "owed")
    /\ task' = [task EXCEPT ![p].pc = "debtors", ![p].sums = [u \in User |-> 0],
                    ![p].todo = {u \in User : task[p].sums[u] < Owed(u, Billed(u))}]
    /\ UNCHANGED <<env, store, books, letters, faults>>

ListInvoices(p, u) ==
    /\ At(p, "debtors") /\ u \in task[p].todo
    /\ task' = [task EXCEPT ![p].pc = "paid", ![p].todo = @ \ {u},
                    ![p].user = u, ![p].rows = Billed(u)]
    /\ UNCHANGED <<env, store, books, letters, faults>>

\* user_credits: the payments of one user, then the credits by hand.
ReadPaid(p, next) ==
    /\ task' = [task EXCEPT ![p].pc = next, ![p].num = Paid(task[p].user)]
    /\ UNCHANGED <<env, store, books, letters, faults>>

\* Where a debtor's turn goes after the reminders.
AfterReminders(p, owing) == IF task[p].user \in owing THEN "suspend" ELSE "debtors"

\* classify_invoices; owing.add comes before the suspension.
BadOwing(p, overdue) == task[p].owing
Owing(p, overdue) == task[p].owing \cup IF overdue # {} THEN {task[p].user} ELSE {}

Classify(p) ==
    /\ At(p, "credits")
    /\ LET l == task[p]
           credits == l.num + manual[l.user]
           open == Uncovered(l.user, l.rows, credits)
           overdue == Overdue(l.user, l.rows, credits, l.moment)
           remind == {q \in open \ overdue : /\ RemindIn > 0
                                             /\ invoices[l.user][q].due - l.moment <= RemindIn}
           owing == Owing(p, overdue)
       IN task' = [task EXCEPT
              ![p].pc = IF remind # {} THEN "remind"
                        ELSE IF overdue # {} THEN "suspend" ELSE "debtors",
              ![p].rows = remind, ![p].owing = owing, ![p].num = 0]
    /\ UNCHANGED <<env, store, books, letters, faults>>

\* mark_notified claims the reminder before it is sent.
BadClaimed(u, q) == TRUE
Claimed(u, q) == <<u, q>> \notin notices

Remind(p, q) ==
    /\ At(p, "remind") /\ q \in task[p].rows
    /\ LET u == task[p].user  rest == task[p].rows \ {q} IN
         /\ notices' = notices \cup {<<u, q>>}
         /\ letters' = [letters EXCEPT ![u][q] = IF Claimed(u, q) THEN @ + 1 ELSE @]
         /\ task' = [task EXCEPT ![p].rows = rest,
                ![p].pc = IF rest # {} THEN @ ELSE AfterReminders(p, task[p].owing)]
    /\ UNCHANGED <<env, store, invoices, access, network, wallets, faults>>

\* _suspend: the state is read and then written; writing it twice changes nothing.
Suspend(p) ==
    /\ At(p, "suspend")
    /\ access' = [access EXCEPT ![task[p].user] = "suspended"]
    /\ task' = [task EXCEPT ![p].pc = "debtors"]
    /\ UNCHANGED <<env, store, invoices, network, wallets, notices, letters, faults>>

\* users_in_access_state: those the debtors' turn did not find overdue come back.
ListSuspended(p) ==
    /\ At(p, "debtors") /\ task[p].todo = {}
    /\ task' = [task EXCEPT ![p].pc = "restore", ![p].user = NoUser, ![p].rows = {},
            ![p].todo = {u \in User : access[u] = "suspended"} \ task[p].owing]
    /\ UNCHANGED <<env, store, books, letters, faults>>

Restore(p, u) ==
    /\ At(p, "restore") /\ u \in task[p].todo
    /\ access' = [access EXCEPT ![u] = "ok"]
    /\ task' = [task EXCEPT ![p].todo = @ \ {u}]
    /\ UNCHANGED <<env, store, invoices, network, wallets, notices, letters, faults>>

\* A failure of one user's suspension or restoration spares the others.
AccessFails(p) ==
    /\ Fault
    /\ \/ At(p, "suspend") /\ task' = [task EXCEPT ![p].pc = "debtors"]
       \/ /\ At(p, "restore")
          /\ \E u \in task[p].todo : task' = [task EXCEPT ![p].todo = @ \ {u}]
    /\ UNCHANGED <<env, store, books, letters>>

\* The pass goes on to the payments, at a moment of its own; the check is the
\* end of the pass; a call answers.
EndReconcile(p) ==
    /\ At(p, "restore") /\ task[p].todo = {}
    /\ task' = [task EXCEPT ![p] =
            IF p # Loop THEN Rest("done")
            ELSE IF @.checking THEN Rest("idle")
            ELSE [Rest("targets") EXCEPT !.moment = now]]
    /\ UNCHANGED <<env, store, books, letters, faults>>

(***************************************************************************)
(* check_payments: the poll of the debtors' addresses.                     *)
(***************************************************************************)
Targets == {x \in User \X Network : x[1] \in InDebt /\ address[x[1]][x[2]] # NoAddress}

\* user_balances and poll_addresses; without an address the check is over.
ReadTargets ==
    /\ At(Loop, "targets")
    /\ task' = [task EXCEPT ![Loop] =
            IF Targets = {} THEN Rest("idle") ELSE [@ EXCEPT !.pc = "poll", !.todo = Targets]]
    /\ UNCHANGED <<env, store, books, letters, faults>>

\* _payment_assets, then the provider.
ReadAssets(u, n) ==
    /\ At(Loop, "poll") /\ <<u, n>> \in task[Loop].todo
    /\ task' = [task EXCEPT ![Loop].pc = "ask", ![Loop].user = u, ![Loop].net = n,
            ![Loop].isPayment = accepted]
    /\ UNCHANGED <<env, store, books, letters, faults>>

Ask ==
    /\ At(Loop, "ask")
    /\ LET u == task[Loop].user  n == task[Loop].net IN
         task' = [task EXCEPT ![Loop].pc = "record",
            ![Loop].answer = Answer(u, n, Since(address[u][n]))]
    /\ UNCHANGED <<env, store, books, letters, faults>>

\* The loop is done with an address.
NextAddress ==
    task' = [task EXCEPT ![Loop].pc = "poll", ![Loop].todo = @ \ {<<task[Loop].user, task[Loop].net>>},
        ![Loop].user = NoUser, ![Loop].net = NoNetwork, ![Loop].isPayment = FALSE]

\* The provider fails: the cursor of this address stays.
AskFails ==
    /\ At(Loop, "ask") /\ Fault
    /\ NextAddress
    /\ UNCHANGED <<env, store, books, letters>>

Record(t) ==
    /\ At(Loop, "record") /\ task[Loop].answer[t] > 0
    /\ RecordTransfer(t, task[Loop].answer[t], task[Loop].isPayment)
    /\ task' = [task EXCEPT ![Loop].answer[t] = 0]
    /\ UNCHANGED <<env, address, manual, books, letters, faults>>

\* set_address_checked: the cursor moves to the moment the check began.
BadChecked(l) == now
Checked(l) == l.moment

SetChecked ==
    /\ At(Loop, "record") /\ \A t \in Tx : task[Loop].answer[t] = 0
    /\ LET l == task[Loop] IN
         address' = [address EXCEPT ![l.user][l.net] = Checked(l)]
    /\ NextAddress
    /\ UNCHANGED <<env, payments, manual, books, letters, faults>>

(***************************************************************************)
(* The calls: a credit by hand and the choice of a payment network.        *)
(***************************************************************************)
\* confirm_manually: the invoice's amount, or what the operator says.
ConfirmManually(c, u, q, value) ==
    /\ At(c, "idle") /\ "confirm" \in mode.calls /\ invoices[u][q] # NoInvoice
    /\ value \in ByHand \cup {invoices[u][q].amount}
    /\ manual' = [manual EXCEPT ![u] = @ + value]
    /\ task' = [task EXCEPT ![c].pc = "balances", ![c].moment = now]
    /\ UNCHANGED <<env, address, payments, books, letters, faults>>

\* choose_payment_network reads the wallet, the credits and the invoices, and
\* moves the network of a user who is not in debt.
ChooseNetwork(c, u, n) ==
    /\ At(c, "idle") /\ "choose" \in mode.calls /\ n \in wallets
    /\ task' = [task EXCEPT ![c].pc = "choose", ![c].user = u, ![c].net = n, ![c].moment = now]
    /\ UNCHANGED <<env, store, books, letters, faults>>

ReadManual(c) ==
    /\ At(c, "chooseManual")
    /\ task' = [task EXCEPT ![c].pc = "debt", ![c].num = @ + manual[task[c].user]]
    /\ UNCHANGED <<env, store, books, letters, faults>>

ReadDebt(c) ==
    /\ At(c, "debt")
    /\ task' = [task EXCEPT ![c] =
            IF @.num < Owed(@.user, Billed(@.user)) THEN Rest("done") ELSE [@ EXCEPT !.pc = "move"]]
    /\ UNCHANGED <<env, store, books, letters, faults>>

SetNetwork(c) ==
    /\ At(c, "move")
    /\ network' = [network EXCEPT ![task[c].user] = task[c].net]
    /\ task' = [task EXCEPT ![c] = Rest("done")]
    /\ UNCHANGED <<env, store, invoices, access, wallets, notices, letters, faults>>

(***************************************************************************)
(* Failures, the operator and the world.                                   *)
(***************************************************************************)
\* An exception ends the pass or the call; a crash ends all of them.
Abort(ps) ==
    /\ Fault /\ \E p \in ps : task[p].pc \notin {"idle", "done"}
    /\ task' = [p \in Proc |-> IF p \in ps /\ ~At(p, "idle")
                                THEN Rest(IF p = Loop THEN "idle" ELSE "done") ELSE task[p]]
    /\ UNCHANGED <<env, store, books, letters>>

\* The owner enters a master wallet or deletes it.
ChangeWallet(n) ==
    /\ wallets' = IF n \in wallets THEN wallets \ {n} ELSE wallets \cup {n}
    /\ n \in wallets => mode.walletsGo
    /\ UNCHANGED <<env, store, invoices, access, network, notices, task, letters, faults>>

\* The owner edits the accepted assets.
KnownInPart(t) == Sent(t) /\ \/ payments[t] # NoPayment /\ payments[t].amount < Parts[t]
                             \/ payments[t] = NoPayment /\ task[Loop].answer[t] > 0

ChangeAssets ==
    /\ (IF At(Loop, "ask") \/ \E t \in Tx : KnownInPart(t) THEN "part" ELSE "full") \in mode.assets
    /\ accepted' = ~accepted
    /\ UNCHANGED <<mode, now, chain, store, books, task, letters, faults>>

\* A task that runs ends before PassTime is over.
Running(p) == task[p].pc \notin {"idle", "done"}

Tick ==
    /\ now < MaxTime /\ now' = now + 1
    /\ IndexInTime
    /\ \A p \in Proc : Running(p) => now - task[p].moment < PassTime
    /\ UNCHANGED <<mode, chain, accepted, store, books, task, letters, faults>>

Pays == \E t \in Tx, u \in User, n \in Network :
    Pay(t, u, n) /\ UNCHANGED <<mode, books, task, letters, faults>>
Indexes == \E t \in Tx : Index(t) /\ UNCHANGED <<mode, books, task, letters, faults>>

(***************************************************************************)
(* Specification.                                                          *)
(***************************************************************************)
Init ==
    /\ PaymentsInit /\ mode \in Modes
    /\ invoices = [u \in User |-> [q \in Period |-> NoInvoice]]
    /\ access = [u \in User |-> "ok"]
    /\ network = [u \in User |-> DefaultNetwork]
    /\ wallets = {} /\ notices = {}
    /\ task = [p \in Proc |-> Rest("idle")]
    /\ letters = [u \in User |-> [q \in Period |-> 0]]
    /\ faults = 0

Reconcile(p) ==
    \/ SumPayments(p) \/ SumManual(p) \/ SumInvoices(p)
    \/ At(p, "paid") /\ ReadPaid(p, "credits")
    \/ Classify(p) \/ Suspend(p) \/ ListSuspended(p) \/ EndReconcile(p)
    \/ \E u \in User : ListInvoices(p, u) \/ Restore(p, u)
    \/ \E q \in Period : Remind(p, q)

Issue ==
    \/ StartPass \/ ReadTerms \/ ReadNetwork \/ FindAddress \/ AllocateAddress \/ InsertInvoice
    \/ \E u \in User : SkipUser(u) \/ \E fee \in Fee : BillUser(u, fee)

Check ==
    \/ ReadTargets \/ Ask \/ SetChecked
    \/ \E u \in User, n \in Network : ReadAssets(u, n)
    \/ \E t \in Tx : Record(t)

Calls(c) ==
    \/ \E u \in User, q \in Period, value \in ByHand \cup Fee : ConfirmManually(c, u, q, value)
    \/ \E u \in User, n \in Network : ChooseNetwork(c, u, n)

Answers(c) ==
    \/ Reconcile(c)
    \/ At(c, "choose") /\ ReadPaid(c, "chooseManual")
    \/ ReadManual(c) \/ ReadDebt(c) \/ SetNetwork(c)

Fails ==
    \/ \E p \in Proc : AccessFails(p) \/ Abort({p})
    \/ Abort(Proc)
    \/ AskFails

World == Tick \/ Pays \/ Indexes \/ ChangeAssets \/ \E n \in Network : ChangeWallet(n)

Next ==
    \/ Issue \/ Reconcile(Loop) \/ Check
    \/ \E c \in Call : Calls(c) \/ Answers(c)
    \/ Fails \/ World

Spec == Init /\ [][Next]_vars

(***************************************************************************)
(* Properties.                                                             *)
(***************************************************************************)
Steps == {"idle", "done", "terms", "issue", "network", "address", "allocate", "insert",
          "balances", "manual", "owed", "debtors", "paid", "credits", "remind", "suspend",
          "restore", "targets", "poll", "ask", "record", "choose", "chooseManual", "debt", "move"}

\* The types of the databases and of the tasks' locals.
TypeOK ==
    /\ PaymentsTypeOK /\ mode \in Modes
    /\ \A u \in User, q \in Period : invoices[u][q] \in {NoInvoice} \cup
           [amount : Fee, due : DueIn .. MaxTime + DueIn, net : Network]
    /\ access \in [User -> {"ok", "suspended"}]
    /\ network \in [User -> Network] /\ wallets \subseteq Network
    /\ notices \subseteq User \X Period
    /\ letters \in [User -> [Period -> Nat]]
    /\ \A p \in Proc : LET l == task[p] IN
        /\ l.pc \in Steps /\ l.moment \in 0 .. now
        /\ l.todo \subseteq User \/ l.todo \subseteq User \X Network
        /\ l.owing \subseteq User /\ l.late \subseteq User /\ l.rows \subseteq Period
        /\ l.user \in User \cup {NoUser} /\ l.net \in Network \cup {NoNetwork}
        /\ l.num \in Nat /\ l.sums \in [User -> Nat] /\ l.answer \in [Tx -> Nat]
        /\ l.isPayment \in BOOLEAN /\ l.checking \in BOOLEAN
        /\ Running(p) => now - l.moment <= PassTime
    /\ faults \in 0 .. MaxFaults

Closes(u) == access[u] = "ok" /\ access'[u] = "suspended"
Reopens(u) == access[u] = "suspended" /\ access'[u] = "ok"

\* Nobody is shut out who was not already overdue when the reconciliation that
\* does it began, whatever invoices, payments and credits arrived in between
\* ("a false overdue shows up to the user as lost access", ADR-0027).
SuspensionIsEarned == [][\A u \in User : Closes(u) =>
    \E p \in Proc : At(p, "suspend") /\ task[p].user = u /\ u \in task[p].late]_vars

\* Nobody is let in who, at that instant, has an invoice that was overdue at the
\* moment of the reconciliation that does it, even one whose suspension failed
\* or was done by another task in between ("a debtor past the due date is out,
\* everyone else is in", ADR-0027).
ReopeningIsEarned == [][\A u \in User : Reopens(u) =>
    \E p \in Proc : At(p, "restore") /\ u \in task[p].todo /\ ~IsLate(u, task[p].moment)]_vars

\* Every invoice names a network where its user has an address to pay to,
\* though the wallet and the choice of network may change under the pass.
InvoicesCanBePaid == \A u \in User : \A q \in Billed(u) :
    address[u][invoices[u][q].net] # NoAddress

\* However the loop and the calls interleave, fail and start again, an invoice
\* is reminded of once (mark_notified: written before the letter goes).
RemindedOnce == \A u \in User, q \in Period : letters[u][q] <= 1

\* A credit is never taken back: what a user has been credited only grows
\* ("upwards only, so a short answer can never devalue money already
\* credited", ADR-0027).  The code does not keep this: record_payment rewrites the
\* value with the amount, and the value of an asset no longer accepted is nothing.
\* It fails in the run billing_topped_up.
CreditsNeverShrink == [][\A u \in User : Credits(u)' >= Credits(u)]_vars

=============================================================================
