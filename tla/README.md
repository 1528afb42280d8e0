# SeedRays: a verification project

SeedRays (`src/backend/seedrays`, Python) is a watch-only payment gateway: it
derives payment addresses from its users' extended public keys, watches the
blockchain for transfers that touch them, keeps balances, and charges a fee.
It never holds a private key, so its one job is to be right about money that
moved elsewhere: to miss no payment, to count none twice, to call none final
that is not, and never to give two payers one address.

This directory holds TLA+ modules of that job, TLC configurations that check
them on small instances, and theorems TLAPS proves about them for every
instance. `PROJECT.json` lists the components, the runs, the mutants, the map
from definitions to source lines, the findings, the hazards and the theorems.

Source paths below are relative to `src/backend/seedrays`.

## 1. Inventory

One operating-system process runs everything (`orchestrator/supervisor.py`,
ADR-0003): an HTTP server, the watcher loop and the billing loop, three asyncio
tasks of one event loop. They share no memory but a few locks and counters;
they meet in SQLite databases: `registry.db` (users, keys, settings, cursors),
`billing.db` and one `user.db` per gateway user. Every `await` is a place where
the other tasks run, where a database or provider may fail, and where the
process may die.

| Component | State it keeps | Operations | What is hard | What makes it correct |
|---|---|---|---|---|
| Watcher pass (`watcher/single_pass.py`) | cursor per network (registry), rows and balances (user.db) | `run_pass`, `_scan_network`, `_record_transfers` | reorganizations, lagging nodes, short answers, catch-up, failing owners, death at any await | nothing owed below the cursor is missing; final means final; one owner's failure costs the others nothing |
| Watcher loop (`watcher/loop.py`) | none | `run_forever` | retries after every failure | what failed is made good in the end |
| Chain data source (`chains/`) | throttle, HTTP session | boundary, head, token events, native blocks | partial answers, rate limits | an incomplete answer is never taken for an empty one |
| Observations and balances (`storage/user_store.py`) | transactions, balances | record, promote, delete, apply | idempotency, order of observations | a leg is counted once, only when final |
| Bindings (`orchestrator/operations.py`) | app_users, bindings | `ensure_bindings` | concurrent calls, lock, index reuse across networks, mapping changed meanwhile | one address, one payer; one payer, one address per network |
| Applications and keys (`orchestrator/apps.py`) | applications (user.db), api_keys (registry) | create, reissue, revoke, resolve | two databases without a common transaction, compensation, concurrent calls | a key works from its issue to its replacement and never after |
| Wallets (`orchestrator/wallets.py`, `attach_master_wallet`) | wallets, wallet_xpubs, master_wallets | attach, reserve, release | check and reservation in two databases | one xpub, one wallet |
| Billing (`orchestrator/billing.py`, `storage/billing.py`) | invoices, payments, credits, access state, notices | `run_pass`, `check_payments`, `confirm_manually`, `choose_payment_network` | stale balances, concurrent reconciliations, repeated polls, partial answers, mail | invoice per period once; money counted once; access follows the debt |
| Accounts (`orchestrator/auth.py`) | users, emails, sessions, resets | register, sign in and out, reset, change | password hashing off the loop while sessions change | who was signed in before a password was replaced is signed out; a registration is whole or gone |
| Operator panel (`orchestrator/operator.py`) | operators, settings, archive | block, delete, restore, settings | deletion across registry, files and billing | a user is whole in the registry or in an archive |
| Captcha and rate limiter (`captcha.py`, `ratelimit.py`) | bounded in-memory tables | verify, allow, evict | eviction at the cap | a solution is accepted once; a key that used up its limit waits |
| Supervisor (`supervisor.py`) | tasks, stop event | run, restart, stop | crash and stop racing | every component runs until the stop, then ends |
| HTTP layers (`api/`) | none | routes, errors | thin adapters | - |
| Migrations, engine (`storage/migrations`, `engine.py`) | schema | upgrade | Alembic, generated DDL | - |
| Derivation, key generation (`derivation/`, `keygen/`) | none | BIP-32/39 through libraries | pure cryptography | injective, taken as given |
| Mail, security log, overview, config, CLI | log files | send, rotate, read views | I/O and formatting | - |
| Frontend (`src/frontend`) | none | static pages | - | - |

## 2. Plan

The order is that of what the gateway may not get wrong: payments seen, payments
addressed, access to the API, then its own invoices, then accounts.

| Step | Modules | Composes / implements | Status |
|---|---|---|---|
| 1 | `Chain`, `Watcher`, `WatcherLive` | the network, one pass, the endless loop | written, checked |
| 2 | `Ledger`, `WatcherLedger` | what is promised about a payment; `Watcher` implements it (native and token) | written, checked |
| 3 | `Watcher_proofs` | types, only-final-is-credited, final rows, both cursors complete, owners apart; the refinement of `Ledger` | proved |
| 4 | `Bindings`, `AddressBook` | issuing addresses; it implements the address book | written, checked |
| 5 | `Bindings_proofs` | types, locks, one address one payer, the refinement | proved |
| 6 | `ApiKeys` | keys over two databases | written, checked |
| 7 | `Payments`, `Billing`, `BillingLive` | the money on the invoice addresses; the loop with the calls beside it; the endless loop | written, checked |
| 8 | `Accounts` | registration, addresses, sessions, resets, blocking | written, checked |
| 9 | `Archive` | deletion, restoring and the xpub rule over four places | written, checked |
| 10 | `Doors`, `Supervisor` | limiter and proof of work; the process they live in | written, checked |
| 11 | `Archive_proofs`, `ArchiveKeys_proofs`, `Accounts_proofs` | types; no user is lost; one key, one user; what the two facing checks come to; sessions, accounts and links | proved |
| 12 | `ApiKeys_proofs`, `Billing_proofs`, `Supervisor_proofs` | every safety property the passing runs check of keys, billing, the doors and the process; that credits fall in one way only | proved |
| 13 | an abstract `Account` (charged once per period, credited once per payment, open unless overdue) | `Billing` implements `Account` | later |

Every invariant and every action property of the passing runs is a theorem, and so is
the refinement `ImplementsLedger` (three of them, named in section 6, under a further
hypothesis); what TLC alone checks is liveness. Four runs end in a violation of what the
repository says of itself: section 7.

## 3. How the modules correspond to the code

Every database transaction and every request to the provider is one action; the
program counter (`pc`) names the await the coroutine is suspended at. Whatever
happens between two awaits of one coroutine is one step, because the three tasks
share one event loop. The databases keep what they committed when a coroutine
dies; its local variables are gone. `map` in `PROJECT.json` gives the lines.

**`Chain`** (external). The network as the data source shows it: a head, a
finality boundary `fin`, and for each transfer the block that carries it and
whether it succeeded. Blocks above `fin` may be reorganized: `Reorg` moves,
fails or drops a transfer. Time is measured in blocks: the block at height `h`
has timestamp `h`.

**`Watcher`** (`watcher/single_pass.py`, `storage/user_store.py`, the cursor in
`storage/registry.py`).

| Code | Model |
|---|---|
| `run_pass` builds `match_index`, one entry per binding of every readable owner | `StartPass`; `index`, `started` (`pass_started`) |
| `finality_boundary`, `latest_block` | `ReadBoundary`, `ReadTip`; each may be answered by a node `Stale` blocks behind |
| `_confirmed_token_transfers` | `ScanTokens`, `NarrowWindow`; `window`, `CaughtUp`, `TokenUntil` |
| `native_transfers`, `covered_through` | `ScanNative`; `Coverage` is where the answer may break off |
| `_record_transfers` with a marker / `record_transaction` | `RecordFinal` (`Promoted`), one observation a step, any order; `RecordFails` drops the owner |
| `delete_unfinalized`, `apply_finalized` per owner | `DeleteUnfinalized`, `ApplyFinalized`, `SettleFails` |
| `set_watcher_state` | `SaveCursor`, guarded by `MaySave` |
| the preview | `PreviewTokens`, `PreviewNative`, `RecordPreview` (`Previewed`) |
| an exception of the provider, the registry or the process | `Abandon` at any await |

The key of a row is the leg (transfer and direction) because the address and the
asset of a transfer never change. The balance is the number of times each leg was
added to it: what can go wrong is how often, not how much.

**`WatcherLive`** is `Watcher` under `run_forever`; **`Ledger`** is the promise,
and **`WatcherLedger`** the refinement mapping, whose `Classify` is the status
rule the API shows.

**`Bindings`** (`ensure_bindings` and `_ensure_one_binding` in
`orchestrator/operations.py`, the queries of `storage/user_apps.py` and
`storage/user_wallets.py`, the keys in `storage/schema_user.py`). One action per
await: the mapping, the member, the first look, the lock, the second look, the
index (own or next), the insertion. `Fail` is an exception or a cancellation at
any of them; `async with` releases the lock in each case. `Process` is there
because the code says what should happen if a second process existed.
**`AddressBook`** is the promise.

**`ApiKeys`** (`orchestrator/apps.py`). A key is a fingerprint in a row of the
owner's database and in the registry's index; `Works` is `resolve_application`.
A call whose index write raises goes to its compensation (`IndexFails`,
`Restore`, `Rollback`); because a cancelled call may have committed, the write
may have happened. A failure the code does not compensate is `Abort`. Its parts are
named apart from those of `Accounts` (`KeysInit`, `KeysNext`, `KeysTypeOK`), beside which
`MCCredentials` runs it.

**`Payments`** and **`Billing`** (`orchestrator/billing.py`, `storage/billing.py`).
`Payments` holds the invoice addresses, what payers send to them, what the
provider shows of it (external) and the rows `record_payment` keeps; `Billing` the
tasks that work on them. `task[p]` is one coroutine, the loop or a call, with the
statement it waits for (`pc`) and its locals. A connection that only reads opens
no transaction in this driver, so each `SELECT` is a step; the loop's reads of
what only the loop writes are joined with the read beside them.

| Code | Model |
|---|---|
| `run_pass`, `read_terms` | `StartPass`, `ReadTerms` (the fee is on or off) |
| `_issue_invoices` | `SkipUser`, `BillUser` with a fee from `Fee`, `ReadNetwork`, `FindAddress`, `AllocateAddress`, `InsertInvoice` |
| `_reconcile_access` with `user_balances`, `list_invoices`, `user_credits`, `classify_invoices` | `SumPayments`, `SumManual`, `SumInvoices`, `ListInvoices`, `ReadPaid`, `Classify` |
| `_remind`, `_suspend`, `users_in_access_state`, `_restore` | `Remind`, `Suspend`, `ListSuspended`, `Restore` |
| `check_payments` | `ReadTargets`, `ReadAssets`, `Ask`, `Record`, `SetChecked` |
| `confirm_manually`, `choose_payment_network` | `ConfirmManually` and its reconciliation; `ChooseNetwork`, `ReadPaid`, `ReadManual`, `ReadDebt`, `SetNetwork` |
| `except SQLAlchemyError`, `ChainDataSourceError`, any other exception, death | `AccessFails`, `AskFails`, `Abort` of one task or all |
| settings, master wallets | `ChangeAssets`, `ChangeWallet` |

The turnover of a period and `fee_amount` are a choice (`Fee`, or `SkipUser`): the
properties ask what becomes of an invoice, not how much it is over. An invoice
address is its cursor: it is one per user and network for ever, and who asks for
it, the loop, asks alone. Letters other than reminders are left out, since they
follow a write that happens once.

**`BillingLive`** is `Billing` under `run_forever`.

**`Accounts`** (`orchestrator/auth.py`, `set_user_status` and
`reset_user_password` of `orchestrator/operator.py`, the statements of
`storage/registry.py`). `job[c]` is one call with its operation, the statement it
waits for and its locals. Each statement is a step, since a `SELECT` opens no
transaction in this driver, even inside one `async with registry.begin()`.
Passwords are not modelled: a session remembers how often its user's password had
been replaced or the user been blocked when it was stored (`opened`, `cut`).

| Code | Model |
|---|---|
| `register`, `create_user` and their compensations | `Register`, `CheckAddress`, `CreateUser`, `LoginTaken`, `MakeDatabase`, `FindUser`; `Uncreate`, `Undo` |
| `_attach_email`, `add_email` | `AddEmail`, `CheckAddress`, `Attach`, `CannotAttach`, `Reselect`, `SendLink` |
| `confirm_email`, `remove_email` | `OpenLink`, `SelectLink`, `MarkConfirmed`; `RemoveEmail`, `CheckRemovable`, `DeleteEmail` |
| `sign_in`, `sign_out` | `SignIn`, `ReadUser`, `CheckEmails`, `OpenSession`; `DropSession` |
| `request_password_reset`, `reset_password` | `AskReset`, `FindAddress`, `StoreReset`; `UseReset`, `FindReset`, `ConsumeReset` |
| `change_password`, the operator's two calls | `ChangePassword`, `CheckPassword`; `Operate`, `CheckExists`; then `Write`, `DropSessions` |
| an exception, a cancelled request, death | `Fail`: to the handler (`Raise`) or to the end |

**`Archive`** (`delete_user`, `restore_user` of `orchestrator/operator.py`;
`attach_wallet`; `attach_master_wallet`; the bundles of `storage/registry.py`).
Four places without a common transaction: the registry (`users`, `emails`,
`index`), the billing database (`master`), the users' databases (`wallets`, in
the directory that is at `place`) and the archives. An address stands for
whatever must be unique of a user, login included. `Outrun` is an attachment which a
deletion of the same user has overtaken between its reservation and its wallet. `raced`
holds the keys that a user and the owner each found free before the other took them:
the code has two facing checks and no lock (section 7).

| Code | Model |
|---|---|
| `attach_wallet` | `Attach`, `FindMaster`, `Reserve`, `AddWallet`, `AddFails`, `Release` |
| `attach_master_wallet`, its removal | `AttachMaster`, `FindTaken`, `FindOther`, `SetMaster`; `RemoveMaster` |
| `delete_user` | `Delete`, `FindBlocked`, `ReadRows`, `ReadKeys`, `WriteSnapshot`, `DeleteRows`, `MoveAway` |
| `restore_user` | `Restore`, `InsertRows` (refused on a `Conflict` or when `Renumbered`), `MoveBack` |
| registration and blocking, seen from here | `NewUser`, `SetStatus` |

`restore_user_bundle` inserts the saved rows under their old numbers, and the tables of
addresses, keys and API keys give a number anew once its row is gone. A restoration may
therefore be refused although nothing of the user is taken, or because the hash of an
API key is. Neither numbers nor API keys are kept in this module, so `Renumbered` makes
it a choice wherever another user exists. `NothingIsLost` says that a snapshot names all
of a user, not that it can be put back.

**`Doors`** (`orchestrator/ratelimit.py`, `orchestrator/captcha.py` and the order
the anonymous routes of `api/user_api.py` call them in). A table entry is kept as
an age, so that time may run on for ever in finitely many states. `Arrive` is
`allow` with its eviction (`Evicted`, `Victims`); `Verify` the check in a thread;
`Accept` and `RefuseReplay` what follows in the event loop.

**`Supervisor`** (`orchestrator/supervisor.py`) `EXTENDS Doors`: `state[c]` is the
loop of `_supervised` around a component, `main` is `run`. The application object
is made once, so the tables of `Doors` outlive a server that is started anew. One
background component stands for the watcher and billing loops, which are
supervised alike.

## 4. Runs

Bounds are in the `.cfg` files. `MaxBlock` bounds the chain, `Lag` how far
finality trails, `MaxScan` and `MaxWindow` the catch-up range and window,
`MaxFaults` failures, `MaxIndex` derivation indexes, `MaxRemap` remappings, `Key`
how many keys are ever generated, `Tx`, `Parts` and `Call` what payers, operator
and users ever do, `MaxTime` the clock of billing.

| Run | Instance | Shows |
|---|---|---|
| `watcher_owners` | 2 owners, one native transfer between them, 2 blocks, nodes lag by 1 | `TypeOK`, `FinalRowIsTrue`, `CreditIsFinal`, `NativeComplete`, `OthersAreServed` |
| `watcher_token` | 1 owner, a token transfer, 3 blocks, overlap 1, window 2, the endless loop with 1 failure | `TokenComplete`, `FinalPaymentNeverVanishes`, `FinalIsForever`, `ImplementsLedger`, `FinalPaymentIsCredited`, `DiscardedRowGoes` |
| `watcher_unreadable_owner` | as `watcher_owners`, owners may be unreadable at the start | `NativeComplete` fails (finding) |
| `bindings` | 2 calls in one process or in two, 2 payers, networks, wallets, 1 remapping in the one process | `TypeOK`, `AnswersAgree`, `OneAddressOnePayer`, `SameAddressEverywhere` |
| `credentials` | 2 calls on accounts: a settled user and one who registers, 2 addresses, 3 secrets, 2 replacements or blocks a user, 1 failure; or 2 calls on 1 application: 4 keys and 1 failure, or 3 and 2 | `TypeOK`, `OldSessionsAreGone`, `AccountsAreWhole`, `OnlyShownLinksConfirm`; `KeysTypeOK`, `DeadKeyNeverWorks`, `HandedKeyWorks`, `ShownKeyWorks` |
| `api_keys_failed_reissue` | 1 call, 1 failure | `RestoredKeyWorks` fails (finding) |
| `billing` | 1 user, 2 networks, a transaction of 2 transfers, 1 call, 2 periods of 2 ticks, reminders, no failure; a credit by hand and edits of the assets, or a choice of network and wallets that come and go | `TypeOK`, `PaymentsAreRecorded`, `NoMoneyFromRepeats`, `InvoicesCanBePaid`, `RemindedOnce`, `SuspensionIsEarned`, `ReopeningIsEarned` |
| `billing_topped_up` | as `billing` with 1 network and no call; the assets are edited while a payment is known in part | `CreditsNeverShrink` fails (finding) |
| `billing_live` | 1 user, 1 network, a transaction of 1 transfer, 1 call that credits by hand, credits larger than the invoice, 1 failure | `AccessFollowsTheDebt`, `MoneyReachesItsDebtor` |
| `archive` | 2 calls, 2 addresses, 1 key, 1 failure; 2 users, 2 networks and 1 archive, or 1 user, 1 network and 2 archives | `TypeOK`, `NothingIsLost`, `OneUserPerKey`, `ChecksHold` |
| `archive_two_sides` | 2 calls, 1 user, 1 key, 1 network, no failure | `SidesAreApart` fails (finding) |
| `process` | the server and a loop, 2 requests, 3 limiter keys for a table of 2, 2 solutions for a table of 1, 1 crash | `TypeOK`, `SolutionOnce`, `ExhaustedStaysShut`, `StopEndsEverything` |

Why these bounds are enough. Two blocks give a pass that covers the range in one answer,
one whose answer breaks off so that the next one goes on from there, and one that has
nothing new; a third lets the cursor, the boundary and the overlap lie apart. A pass scans
at most `MaxScan + 1` blocks beyond the cursor: with 3 blocks, in `watcher_token`, that cuts
a catch-up short, with 2, in `watcher_owners`, it cannot; the theorems hold either way.
The window is narrowed in both. `FinalPaymentIsCredited` is run with a
token payment; of native ones it says that the block cursor, below which
`NativeComplete` leaves nothing out, reaches the boundary in the end. Transfers are independent of one another
except through the cursor and `failed`, which two legs in two databases already
exercise. Two calls, two payers and two networks are what a shared index, a
shared address or a second answer needs; a third call only waits. Four keys let
two reissues run into each other after the key they replace and before one more; with
two failures (`InBudget`), three keys still hold the old one and both replacements. The
accounts and the keys share no state, so a behaviour of `credentials` moves one of them. In billing
users meet nowhere but in the loops over them, so one user suffices; with 2
periods of 2 ticks and a term of 1, an invoice becomes overdue, another one is
issued beside it and the clock still runs. The transaction of two transfers may
be shown in two polls, and one call reconciles or chooses against the loop at
each of its statements. Deleting, restoring and attaching compete for one key, and
registration and restoring for one address, so one key and two addresses suffice,
with two users to hold them; of two archives of one user one may be out of date. A
table of one or two entries with one more key or solution than it holds evicts at
every turn.

Four bounds select behaviours rather than sizes. `Scopes` says which users, networks
and archives one behaviour of `archive` has. `Mixes` names the operations called
together in one behaviour of `credentials`: registration and the ones that touch
addresses, the ones that end sessions, or none, and then the keys move. `Loads` does the same for `process`: either many keys or many solutions,
since the limiter and the proof of work share no state. `Modes`
does it for `billing`, as its row says.

Every run that may stop forever says so: `credentials`, `api_keys_failed_reissue`
and the `archive` runs, where keys, secrets or archive names run out, and `process`, which ends
with the process.

**Assumed of the environment.** `PromptStart`: no block mined after a pass
started is final when that pass reads its boundary, which a finality depth of
about a minute gives. `watcher.md` documents that bindings are collected before
a pass, which loses nothing only if that holds. `Stale` is 0 where tokens are scanned:
`FinalPaymentNeverVanishes` does not hold for tokens when the node that answers
events lags the one that answered the boundary. The overlap covers the lag of
finality: `TokenComplete` is proved for `Lag + Stale <= Overlap + 1`, and with one
block less of overlap it does not hold, since the cursor is the start of the pass
and not the boundary. The panel accepts an overlap of 0. A reorganization that moves
a pending transfer above the scanned zone removes its row for a while (its block
is not refreshed by the preview); ADR-0021 says a pending row goes exactly when
the transaction is discarded, and `FinalPaymentNeverVanishes` is what holds
instead.

The first pass of a network has no cursor: it stores its boundary as one without
scanning a native block, so `NativeComplete` counts from the first cursor on.
`watcher.md:86` says the first pass scans from the gateway's first launch, which
the code gives to tokens only.

In billing, a pass or call takes no longer than the term of payment
(`PassTime <= DueIn`, an hour's pass against days), and the provider shows a
transfer at most `CHECK_OVERLAP` after its block (`IndexInTime`). In the run
`billing` the operator edits the accepted assets between payments only (`Modes`:
`assets` is `{"full"}`), because what `SuspensionIsEarned` and `ReopeningIsEarned` say
fails with credits that fall. `billing_topped_up` has the other edits: there a second
partial answer rewrites the value of the whole row to zero. A
user who chooses a payment network while the loop issues an invoice may move the
network of a debt just made: the code reads credits, then invoices, then writes. The
invoice keeps its own network and address, so `InvoicesCanBePaid` holds, and no
property says that `user_billing.network` stays put.

In `archive`, one user is deleted or restored by one call at a time (`Begin`), though
`operator.py:393` and `:487` take no lock, so two operators, or the panel and the CLI in a
process of its own, could do both at once; two users may be. Attachments run beside
everything, the deletion of their own user included: a request that was let in
before the user was blocked goes on.

In `Accounts`, a user's id is never given twice. The number of an address row is,
as SQLite does it without `AUTOINCREMENT`, and a call that found a row and writes by
its number may then hit another one: `recycled` marks such behaviours, and
`AccountsAreWhole` and `OnlyShownLinksConfirm` leave them out.

## 5. Fairness

`WatcherLive`, `BillingLive` and `Supervisor` state any. In `WatcherLive`, `WF(Sound)`: a pass that can go on does, because
`run_forever` starts a pass after every pass, whatever became of it, and each
request of the provider times out (httpx's default) into a failure. `SF(Grows)`, `SF(Settles)`: the network goes on mining and
settling, whatever the gateway does; strong because both are disabled for moments
(the boundary waits for `PromptStart`, the head for `Lag`). Failures are not fair:
they are bounded by `MaxFaults`, and what is claimed is that whatever they spoiled
is made good after the last of them. Binding is not required to happen.

In `BillingLive`, the loop's own steps are weakly fair (`run_forever` starts a pass
after every pass and a step that fails ends in one), and so are the steps of a
call that has begun, since its request is awaited; time passes; the provider's index
catches up. Users are not obliged to pay or to call, nor the operator to enter a
wallet. The clock stops at `MaxTime`, and what is claimed of the end is what the
passes that follow make of it.

In `Supervisor`, the event loop gets to every supervised task, to `run` and to every
request that can go on. That a request comes to its answer is needed: after
`should_exit` the server waits for its open connections, and no limit of that wait
is configured. Signals and crashes are not fair, and crashes are bounded.

## 6. Proofs

TLAPS checks, for every value of the constants that satisfies the named
assumptions (`ChainAssumption`, `WatcherAssumption`, `BindingsAssumption`,
`ApiKeysAssumption`, `PaymentsAssumption`, `BillingAssumption`, `ArchiveAssumption`,
`AccountsAssumption`, `DoorsAssumption`, `SupervisorAssumption`), which say that bounds
are natural numbers, that absent values are none of the present ones, and what the
constants of an instance are related by. Further hypotheses are in the statement of
the theorem (`ASSUME ... PROVE`) and named below. TLC found each invariant to hold on the
instance of a run before it was proved.

**`Watcher_proofs`.** `TypeCorrect`, `OnlyFinalIsCredited`, `FinalRowsAreTrue`,
`FinalRowsStay`. That a credited leg is final and a final row true is not
inductive: a pass records an answer it fetched earlier, while the chain moves.
`FinalInv` adds that the boundary in hand is at most `fin`, that every answer
waiting to be recorded with a marker tells what the chain says for good
(`AnswersAreFinal`), that applied rows are final, and that credit follows the
marker. `ChainIsStable` is the one fact about the network it needs. It holds for
stale nodes, unreadable owners and any overlap: these cost completeness, never
truth. On the same invariant rests `WatcherImplementsLedger`, without hypotheses: each
action is shown to be a step of `Ledger` or to leave what is promised alone.

Completeness is `NobodyPaysForOthers` (no hypothesis), `NativeCursorIsComplete`
(owners readable at the start, `PromptStart`), `TokenCursorIsComplete` (owners readable,
`Lag + Stale <= Overlap + 1`) and `PaymentsDoNotVanish` (all of these, `Stale = 0`). That
nothing owed lies below the cursor is kept by `SaveCursor` only because of what the
pass has done before it. `BoundsInv` orders boundary, coverage, cursor and head.
`NativeHeld` and `TokenHeld` say that a leg of the scanned range to an address of the
index is stored as final, waits in the answer in hand, or is of a failed owner, who
withholds the cursor; `IndexInv` that an address bound and not in the index was bound
after the start; `PromptInv` bounds the boundary by `started`. `EdgeHeld` is `TokenHeld`
up to the boundary, as far as the clean-up (`DeleteUnfinalized`) reaches: what it
deletes is no transfer that was owed a row.

**`Bindings_proofs`.** `TypeCorrect` and `LocksAreReleased` for any number of
processes. `OneAnswer`, `OnePayer`, `SameAddress`, `NoConflict` and
`BindingsImplementAddressBook` under `OneProcess`, all calls in one process
(ADR-0003). The invariant is that a call in the critical section holds the lock
(`LockInv`), that what it found on its way is still so (`CallInv`), that past the
second look the payer has no binding and the index in hand is its own in the
wallet or unused (`ChosenInv`), and the three address properties together
(`AddressInv`): each needs the others, since reuse of an index is safe only if it
was one payer's. A remapping between the two looks is harmless because the wallet
comes from the mapping read at the start and the owner from the network alone.
Without `OneProcess`, two calls may read one maximum and store one index in two
networks, which the table allows.

**`Archive_proofs`.** `TypeCorrect` and `NoUserIsLost`. "Whole in the registry or in
a snapshot" is not inductive: a deletion drops the rows because of a snapshot it
wrote steps before, a restoration moves a directory because of rows it inserted.
`UserInv` says where a user is whole by where the directory is: in place, in the
registry, or in an archive once the rows are gone; in an archive, in that very
archive. `Moving` says what a deletion and a restoration have found and done so
far, `Exclusive` that no two of them are about one user. Attachments beside them are
why `Moving` speaks of `torn`: a wallet stored after the keys were listed is in no
snapshot.

**`ArchiveKeys_proofs`.** `KeysOfUsersAreApart` and `ChecksHoldOtherwise`, on top of that
invariant: a wallet in its place has its reservation unless torn, so that two users never
hold one key, whatever the owner does. `Sides` keeps the index of the users and the
owner's table apart outside `raced`, `torn` and `returned`, whose steps are the only ones that bring
a key to both sides. `Seen` says that what an attachment saw of the other side still holds
when it acts on it: the other side could change it only by writing between the look and
the act, which is a race, or by restoring a user. The second theorem does not say that the
two sides are apart: they are not (section 7).

**`Accounts_proofs`.** `TypeCorrect`, `SessionsAreSwept`, `AccountsWhole`,
`LinksConfirm`. `SessionInv` is about one session: if it is older than the last
replacement or block of its user, a call still owes the sweep, or one failed owing it
(`unswept`). `RegisterInv` and `OneRegistration` give each registration its user to
itself and say at which of its steps the primary address is there; `RowInv` says that
the link a call found belongs to the row it will mark. The last two hold until a row
number is reused under a call (`recycled`).

**`ApiKeys_proofs`.** `TypeCorrect`, `OldKeysDie`, `ShownOnceWorks`, `RestingKeyWorks`, for
any number of calls and failures. That a dead key does not work is not inductive: it may
be in the row and on its way to the index. Outside the behaviours the property leaves out
(`spoiled`), `DeadStaysDead` says that a dead key still in the index is in no row and can
be written back only by a call that ran beside another; `CurrentIsStored` says that the
key handed out last is in both databases, `ShownOrComing` that the key in a row is in
the index or a call is about to put it there.

**`Billing_proofs`.** `TypeCorrect`, `MoneyIsRecorded`, `RepeatsEarnNothing`,
`InvoicesHaveAddresses`, `OneReminder`, without hypotheses beyond the
assumptions on the environment in section 4. `CreditsFallByTopUpsOnly`, without
hypotheses either: a user's credits fall in no step but a recording that tops up a
transaction known in part whose asset is not accepted any more (`FallsAreTopUps`). It rests
on `Valued`: a row is worth what has arrived, or nothing. `NobodyIsShutOutOnTime` and
`NoDebtorIsLetIn` hold under `KnownInFull`, which leaves those recordings out by the
condition on `Modes` of section 4; nothing in the code enforces it. The first five rest on `IInv`: the types, an
address before every invoice and every payment, one letter per notice, and what rows and
answers know of what the provider has shown (`Shown`, `Answered`). The last two add
`VInv`, whose `Verdicts` say, for each task at each of its reads, what it has found out:
that the sums read so far are at most what they are now (`ReadSums`, `ReadCredits`,
`CreditsCover`), that the rows listed were those of an earlier moment (`ReadRows`),
that a user about to be suspended was overdue at the start (`Convicted`), and that one
about to be let in owes nothing that is overdue at that moment (`Acquitted`). They hold across
other tasks' steps because credits only grow then and an invoice issued since is not due
yet. Credits are sums over sets of payments, computed by a fold; that a fold over a
finite set adds one element, or grows with its terms, is proved by a smallest
counterexample (`FS_StrictSubsetOrderingWellFounded`, `WFMin`), which takes no induction rule with an
operator as parameter.

**`Supervisor_proofs`.** `TypeCorrect`, `SolutionsOpenOnce`, `ExhaustedKeysStayShut`, for any
limits and any number of requests, keys, solutions and failures. `Forgotten` says that a
solution that was accepted, and not forgotten over the ceiling, is in the table, or has
expired and no request is left with it; `Issued` that nothing brings a solution that
was not issued. `Waits` says that a key still shut has used up its limit and that its
oldest attempt is inside the window for at least as long as it must wait, so that
`InWindow` drops none of its attempts. Eviction spares it (`WaitingIsNotEvicted`): a
table over its ceiling has just been given a key that was not there, whose single
attempt is below the limit, and the order of eviction prefers that one. Here `Limit >= 2`
is used, which every limiter of the code meets.

**Model-checked only.** Liveness: `FinalPaymentIsCredited`, `DiscardedRowGoes`,
`AccessFollowsTheDebt`, `MoneyReachesItsDebtor`, `StopEndsEverything`. It needs fairness
and `ENABLED`, which are out of reach of the prover as installed. No module uses a
recursive operator. The properties of the four runs that end in a violation are refuted,
of course, and have no theorem.

Not every proof stands for a run of the same events: `InvoicesCanBePaid` and `RemindedOnce` are
run without failures, since the run has the other tasks beside the loop, and what is said
of a failure at any step are the theorems `InvoicesHaveAddresses` and `OneReminder`.

## 7. Findings

1. `watcher_unreadable_owner`: an owner unreadable when the index is built is
   skipped without being counted as failed, so the cursor passes its transfers.
2. `api_keys_failed_reissue`: a reissue that fails after the old key has left
   the index restores a fingerprint nothing resolves.
3. `billing_topped_up`: a payment of two transfers is recorded in part and credited,
   the owner takes its asset off the accepted ones, and the next poll, which shows both
   transfers, rewrites the row with the larger amount and the value zero: the credit is
   gone. The comment at `storage/billing.py:435` and ADR-0027 (line 121) say "upwards
   only, so a short answer can never devalue money already credited".
   `CreditsFallByTopUpsOnly` proves that there is no other way.
4. `archive_two_sides`: a user and the owner enter one key at the same time, each side
   finds it free on the other, both attachments succeed, and one address has two
   recipients. ADR-0027 (lines 266-268) says that this "is serialized by an in-process
   lock, the way derivation indexes already are (ADR-0003)". Neither `attach_wallet` nor
   `attach_master_wallet` nor the routes that call them take one; the code's two kinds of
   lock are those of invoice addresses (`orchestrator/billing.py:390`) and of bindings
   (`orchestrator/operations.py:192`). `ChecksHoldOtherwise` proves what the checks give
   without it.

Beside these, with two calls on one application and one failure,
the compensation of a reissue writes back the fingerprint it read, over a
revocation that succeeded meanwhile and whose index row it never touched: a dead
key works again. `DeadKeyNeverWorks` claims nothing once a call has failed beside
another (`spoiled`).

What else was met while modelling, none of it claimed by a property:

- A reset token is read and deleted by two statements, and the deletion does not ask
  whether it deleted anything: two simultaneous uses both succeed, although
  `storage/registry.py:510` speaks of one transaction after which "the same token
  finds nothing".
- `sign_in` lets a user in while the row of the primary address does not exist yet;
  the comment at `orchestrator/auth.py:156` says the sign-in is closed. A session
  opened then makes the compensation of a failing registration fail on the foreign
  key, and the user stays (`unfinished`).
- A failure of the last read in `create_user` (`storage/registry.py:91`) is not
  compensated.
- `add_user_email` raises `ValueError`, not a database error, when another call takes
  the address between the check and the write.
- A session is stored for a password verified before a reset or a block, if the write
  of the session comes after the sweep. `change_password` may overwrite a reset made
  since it verified the old password.
- A wallet whose storing was cancelled loses its reservation though it may be stored
  (`torn`); the reservation is released by the key alone, whoever holds it.
- A wallet attached while its user is deleted, stored after the deletion has listed the
  keys, is in no snapshot and comes back without a reservation (`Outrun`, `torn`).
- Restoring does not look at the owner's wallets (`returned`).
- A restoration is refused when the number of a saved address, key or API key row has
  been given to another row since (`storage/registry.py:252-282`), with nothing of the
  user's own taken (`Renumbered`).
- A crash after the rows are deleted and before the directory is moved leaves an
  archive which `restore_user` refuses until the directory is moved by hand.
- At its cap the table of used solutions forgets live ones, and a solution verified
  just before it expires may be accepted twice (`overrun`). A limiter key that has
  not used up its limit loses its count by eviction; one that has is evicted only
  when all keys have, which the ceiling of one above the table and a limit of at
  least 2 exclude.

## 8. Not modelled

Of the HTTP layers only the order of the anonymous routes' checks is modelled; the
rest parses, authenticates, calls one operation and translates its error.
Migrations and engine options, derivation and key generation (taken as
one-to-one), mail, the security log, views, configuration, CLI and frontend:
adapters, I/O or pure computation without state of their own. Of billing: reading
the turnover and the asset catalog, the letters, deletion of users; a crash between the
mark of a reminder and its letter, which are one step (`Remind`): the letter would be
lost, and `RemindedOnce` asks for no more than one. Of accounts:
passwords and their verification, expiry of links and sessions (a link or session
may be found expired at any use), profile settings. Of the operator panel: the
operators' own accounts and sessions, and the settings, which are plain values. Of
the archive: application keys of a deleted user (they leave and return with the
other rows), the billing snapshot.
