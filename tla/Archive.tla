-------------------------------- MODULE Archive --------------------------------
(***************************************************************************)
(* Where a gateway user lives: rows in the registry, a directory with a    *)
(* database of wallets, or both in an archive.  Deleting and restoring     *)
(* (delete_user, restore_user of orchestrator/operator.py) move them in    *)
(* several steps; the rule "one xpub - one wallet" (attach_wallet,         *)
(* attach_master_wallet) spans the registry, the users' databases and the  *)
(* billing database.  No transaction covers two of these places.           *)
(***************************************************************************)
EXTENDS Integers, FiniteSets

CONSTANTS
    Call,       \* concurrent calls
    User,       \* ids of users, never given twice
    Address,    \* what must be unique of a user: stands for login and addresses
    Xpub,       \* extended public keys, by their fingerprints
    Net,        \* payment networks
    Folder,     \* names of archive directories
    NoUser, NoXpub, NoFolder, NoNet, NoRow,
    Scopes,     \* bound: the users, networks and archives that are tried together
    MaxFaults   \* bound: failed or cancelled writes and crashes

Status == {"active", "blocked"}
Snapshot == [user : User, status : Status, emails : SUBSET Address, xpubs : SUBSET Xpub]

ASSUME ArchiveAssumption ==
    /\ NoUser \notin User /\ NoXpub \notin Xpub /\ NoFolder \notin Folder /\ NoNet \notin Net
    /\ NoRow \notin Status \cup Snapshot
    /\ Folder \cap {"users", "none"} = {}
    /\ Scopes \subseteq [users : SUBSET User, nets : SUBSET Net, folders : SUBSET Folder]
    /\ MaxFaults \in Nat

VARIABLES
    \* registry.db
    users,      \* users: the status of each
    emails,     \* user_emails
    index,      \* wallet_xpubs
    \* billing.db
    master,     \* master_wallets
    \* the data directory
    place,      \* where each user's directory is
    wallets,    \* the wallets in the database it holds
    archives,   \* the snapshots of archive directories
    \* the calls
    job,
    scope,      \* those of this behaviour
    \* history
    born,       \* users ever registered
    raced,      \* keys each of the two sides found free before the other took them
    torn,       \* keys whose wallet was stored and the reservation dropped
    returned,   \* keys a restored user brought back when the owner had them
    faults

registry == <<users, emails, index>>
files == <<place, wallets, archives>>
excuses == <<raced, torn, returned>>
history == <<born, excuses, scope>>
vars == <<registry, master, files, job, history, faults>>

NoSnapshot == [user |-> NoUser]

Op == {"none", "attach", "master", "delete", "restore"}
Step == {"idle", "master", "reserve", "add", "release", "taken", "other", "set",
         "find", "read", "keys", "write", "rows", "away", "insert", "back"}
Idle == [op |-> "none", at |-> "idle", user |-> NoUser, xpub |-> NoXpub, net |-> NoNet,
         folder |-> NoFolder, bundle |-> NoSnapshot]
Job == [op : Op, at : Step, user : User \cup {NoUser}, xpub : Xpub \cup {NoXpub},
        net : Net \cup {NoNet}, folder : Folder \cup {NoFolder},
        bundle : Snapshot \cup {NoSnapshot}]

TypeOK ==
    /\ users \in [User -> Status \cup {NoRow}]
    /\ emails \in [Address -> User \cup {NoUser}]
    /\ index \in [Xpub -> User \cup {NoUser}]
    /\ master \in [Net -> Xpub \cup {NoXpub}]
    /\ place \in [User -> Folder \cup {"users", "none"}]
    /\ wallets \in [User -> SUBSET Xpub]
    /\ archives \in [Folder -> Snapshot \cup {NoRow}]
    /\ job \in [Call -> Job]
    /\ scope \in Scopes /\ born \subseteq User
    /\ raced \subseteq Xpub /\ torn \subseteq Xpub /\ returned \subseteq Xpub
    /\ faults \in 0 .. MaxFaults
    /\ \A x \in Xpub : index[x] # NoUser => users[index[x]] # NoRow
    /\ \A a \in Address : emails[a] # NoUser => users[emails[a]] # NoRow
    /\ \A m, n \in Net : master[m] = master[n] /\ master[m] # NoXpub => m = n

(***************************************************************************)
(* The parts of a call.                                                    *)
(***************************************************************************)
At(c, step) == job[c].at = step

Move(c, step) ==
    job' = [job EXCEPT ![c] = IF step = "idle" THEN Idle ELSE [job[c] EXCEPT !.at = step]]

End(c) == Move(c, "idle")

Exists(u) == users[u] # NoRow
Reserved(u) == {x \in Xpub : index[x] = u}
AddressesOf(u) == {a \in Address : emails[a] = u}
Owners(x) == {n \in Net : master[n] = x}

Reads(c) == UNCHANGED <<registry, master, files, history, faults>>

\* A call begins.  One user is deleted or restored by one call at a time (bound: the
\* code takes no lock, but there is one operator).
Moves(j) == j.op \in {"delete", "restore"}

Begin(c, j) ==
    /\ At(c, "idle")
    /\ \A d \in Call : job[d].user = j.user => ~(Moves(j) /\ Moves(job[d]))
    /\ job' = [job EXCEPT ![c] = j]
    /\ Reads(c)

\* Calls of either side that found the key free on the other and have not taken it.
UsersBeside(x) == {d \in Call : job[d].xpub = x /\ At(d, "reserve")}
OwnersBeside(x) == {d \in Call : job[d].xpub = x /\ (At(d, "other") \/ At(d, "set"))}

Race(x, others) == raced' = IF others = {} THEN raced ELSE raced \cup {x}

(***************************************************************************)
(* attach_wallet                                                           *)
(***************************************************************************)
\* From the cabinet: the session of an active user.
Attach(c, u, x) ==
    /\ users[u] = "active"
    /\ Begin(c, [Idle EXCEPT !.op = "attach", !.at = "master", !.user = u, !.xpub = x])

BadServesOwner(x) == FALSE
ServesOwner(x) == Owners(x) # {}

FindMaster(c) ==
    /\ At(c, "master") /\ Move(c, IF ServesOwner(job[c].xpub) THEN "idle" ELSE "reserve")
    /\ Reads(c)

\* The index refuses a duplicate, and a user who is not there.
Reserve(c) ==
    LET x == job[c].xpub IN
    /\ At(c, "reserve")
    /\ IF index[x] = NoUser /\ Exists(job[c].user)
       THEN /\ index' = [index EXCEPT ![x] = job[c].user] /\ Move(c, "add")
            /\ Race(x, OwnersBeside(x))
       ELSE UNCHANGED <<index, raced>> /\ End(c)
    /\ UNCHANGED <<users, emails, master, files, born, torn, returned, scope, faults>>

Stored(c) == [wallets EXCEPT ![job[c].user] = @ \cup {job[c].xpub}]

InPlace(u) == place[u] = "users"

\* Since it was reserved the key went with the rows of the user, or a deletion has
\* listed the keys without it.
Outrun(u, x) ==
    \/ index[x] # u
    \/ \E d \in Call : /\ job[d].op = "delete" /\ job[d].user = u
                      /\ job[d].at \in {"write", "rows"} /\ x \notin job[d].bundle.xpubs

AddWallet(c) ==
    LET u == job[c].user  x == job[c].xpub IN
    /\ At(c, "add") /\ End(c)
    /\ InPlace(u)
    /\ wallets' = Stored(c)
    /\ torn' = IF Outrun(u, x) THEN torn \cup {x} ELSE torn
    /\ UNCHANGED <<registry, master, place, archives, born, raced, returned, scope, faults>>

\* There is no database, the write is refused, or the call is cancelled while it is
\* done: either way the reservation is taken back.
AddFails(c) ==
    /\ At(c, "add") /\ Move(c, "release")
    /\ \/ ~InPlace(job[c].user) /\ UNCHANGED <<wallets, torn, faults>>
       \/ /\ InPlace(job[c].user) /\ faults < MaxFaults
          /\ faults' = faults + 1
          /\ \/ UNCHANGED <<wallets, torn>>
             \/ wallets' = Stored(c) /\ torn' = torn \cup {job[c].xpub}
    /\ UNCHANGED <<registry, master, place, archives, born, raced, returned, scope>>

\* By the key alone: whoever holds it now, with a wallet or without.
Release(c) ==
    LET x == job[c].xpub IN
    /\ At(c, "release") /\ End(c)
    /\ index' = [index EXCEPT ![x] = NoUser]
    /\ torn' = IF \E u \in User : x \in wallets[u] THEN torn \cup {x} ELSE torn
    /\ UNCHANGED <<users, emails, master, files, born, raced, returned, scope, faults>>

(***************************************************************************)
(* attach_master_wallet and its removal.                                   *)
(***************************************************************************)
AttachMaster(c, n, x) ==
    /\ n \in scope.nets
    /\ Begin(c, [Idle EXCEPT !.op = "master", !.at = "taken", !.net = n, !.xpub = x])

FindTaken(c) ==
    /\ At(c, "taken") /\ Move(c, IF index[job[c].xpub] # NoUser THEN "idle" ELSE "other")
    /\ Reads(c)

BadOnlyHere(x, n) == TRUE
OnlyHere(x, n) == Owners(x) \subseteq {n}

FindOther(c) ==
    /\ At(c, "other") /\ Move(c, IF OnlyHere(job[c].xpub, job[c].net) THEN "set" ELSE "idle")
    /\ Reads(c)

\* The key of the table has the last word on two networks.
SetMaster(c) ==
    LET x == job[c].xpub  n == job[c].net IN
    /\ At(c, "set") /\ End(c)
    /\ IF OnlyHere(x, n) THEN master' = [master EXCEPT ![n] = x] /\ Race(x, UsersBeside(x))
                        ELSE UNCHANGED <<master, raced>>
    /\ UNCHANGED <<registry, files, born, torn, returned, scope, faults>>

RemoveMaster(n) ==
    /\ master[n] # NoXpub
    /\ master' = [master EXCEPT ![n] = NoXpub]
    /\ UNCHANGED <<registry, files, job, history, faults>>

(***************************************************************************)
(* delete_user                                                             *)
(***************************************************************************)
Delete(c, u) ==
    Begin(c, [Idle EXCEPT !.op = "delete", !.at = "find", !.user = u])

FindBlocked(c) ==
    /\ At(c, "find") /\ Move(c, IF users[job[c].user] = "blocked" THEN "read" ELSE "idle")
    /\ Reads(c)

\* read_user_bundle: statements of their own, in no transaction.
ReadRows(c) ==
    LET u == job[c].user IN
    /\ At(c, "read")
    /\ IF Exists(u)
       THEN job' = [job EXCEPT ![c].at = "keys", ![c].bundle =
                [user |-> u, status |-> users[u], emails |-> AddressesOf(u), xpubs |-> {}]]
       ELSE End(c)
    /\ Reads(c)

BadKeysOf(u) == {}
KeysOf(u) == Reserved(u)

ReadKeys(c) ==
    /\ At(c, "keys")
    /\ job' = [job EXCEPT ![c].at = "write", ![c].bundle.xpubs = KeysOf(job[c].user)]
    /\ Reads(c)

\* A name no directory has yet.
WriteSnapshot(c, f) ==
    /\ At(c, "write") /\ archives[f] = NoRow /\ f \in scope.folders
    /\ archives' = [archives EXCEPT ![f] = job[c].bundle]
    /\ job' = [job EXCEPT ![c].at = "rows", ![c].folder = f]
    /\ UNCHANGED <<registry, master, place, wallets, history, faults>>

\* delete_user_bundle: one transaction.
DeleteRows(c) ==
    LET u == job[c].user IN
    /\ At(c, "rows") /\ Move(c, "away")
    /\ users' = [users EXCEPT ![u] = NoRow]
    /\ emails' = [a \in Address |-> IF emails[a] = u THEN NoUser ELSE emails[a]]
    /\ index' = [x \in Xpub |-> IF index[x] = u THEN NoUser ELSE index[x]]
    /\ UNCHANGED <<master, files, history, faults>>

MoveAway(c) ==
    LET u == job[c].user IN
    /\ At(c, "away") /\ End(c)
    /\ place' = IF InPlace(u) THEN [place EXCEPT ![u] = job[c].folder] ELSE place
    /\ UNCHANGED <<registry, master, wallets, archives, history, faults>>

(***************************************************************************)
(* restore_user                                                            *)
(***************************************************************************)
\* The snapshot stays in the archive: it may be used again.
Restore(c, f) ==
    /\ archives[f] # NoRow /\ ~InPlace(archives[f].user)
    /\ Begin(c, [Idle EXCEPT !.op = "restore", !.at = "insert", !.user = archives[f].user,
                             !.folder = f, !.bundle = archives[f]])

\* Whatever the deletion gave free may be somebody else's by now: what is unique of
\* a user, or (Renumbered) the number of a saved row, or the hash of an API key.
BadConflict(b) == Exists(b.user) \/ \E a \in b.emails : emails[a] # NoUser
Conflict(b) ==
    \/ Exists(b.user)
    \/ \E a \in b.emails : emails[a] # NoUser
    \/ \E x \in b.xpubs : index[x] # NoUser

Renumbered == \E u \in User : Exists(u)

\* restore_user_bundle: all or nothing.
InsertRows(c) ==
    LET b == job[c].bundle IN
    /\ At(c, "insert")
    /\ \/ /\ Conflict(b) \/ Renumbered
          /\ End(c) /\ UNCHANGED <<registry, returned>>
       \/ /\ ~Conflict(b) /\ Move(c, "back")
          /\ users' = [users EXCEPT ![b.user] = b.status]
          /\ emails' = [a \in Address |-> IF a \in b.emails THEN b.user ELSE emails[a]]
          /\ index' = [x \in Xpub |-> IF x \in b.xpubs THEN b.user ELSE index[x]]
          /\ returned' = returned \cup {x \in b.xpubs : ServesOwner(x) \/ OwnersBeside(x) # {}}
    /\ UNCHANGED <<master, files, born, raced, torn, scope, faults>>

MoveBack(c) ==
    LET u == job[c].user IN
    /\ At(c, "back") /\ End(c)
    /\ place' = IF place[u] = job[c].folder THEN [place EXCEPT ![u] = "users"] ELSE place
    /\ UNCHANGED <<registry, master, wallets, archives, history, faults>>

(***************************************************************************)
(* What others do to the same rows.                                        *)
(***************************************************************************)
\* register, as a whole.
NewUser(u, a) ==
    /\ u \in scope.users \ born /\ emails[a] = NoUser
    /\ users' = [users EXCEPT ![u] = "active"]
    /\ emails' = [emails EXCEPT ![a] = u]
    /\ place' = [place EXCEPT ![u] = "users"]
    /\ born' = born \cup {u}
    /\ UNCHANGED <<index, master, wallets, archives, job, excuses, scope, faults>>

\* set_user_status
SetStatus(u, s) ==
    /\ Exists(u) /\ users[u] # s
    /\ users' = [users EXCEPT ![u] = s]
    /\ UNCHANGED <<emails, index, master, files, job, history, faults>>

\* The process dies between two steps, or a write is refused there.  Before its
\* first write a call that fails has done nothing.
Fail(c) ==
    /\ \E step \in {"add", "release", "rows", "away", "back"} : At(c, step)
    /\ faults < MaxFaults
    /\ faults' = faults + 1
    /\ End(c)
    /\ UNCHANGED <<registry, master, files, history>>

(***************************************************************************)
(* Specification.                                                          *)
(***************************************************************************)
Init ==
    /\ users = [u \in User |-> NoRow]
    /\ emails = [a \in Address |-> NoUser] /\ index = [x \in Xpub |-> NoUser]
    /\ master = [n \in Net |-> NoXpub]
    /\ place = [u \in User |-> "none"] /\ wallets = [u \in User |-> {}]
    /\ archives = [f \in Folder |-> NoRow]
    /\ job = [c \in Call |-> Idle]
    /\ scope \in Scopes /\ born = {} /\ raced = {} /\ torn = {} /\ returned = {}
    /\ faults = 0

Begins(c) ==
    \/ \E u \in User : Delete(c, u) \/ \E x \in Xpub : Attach(c, u, x)
    \/ \E n \in Net, x \in Xpub : AttachMaster(c, n, x)
    \/ \E f \in Folder : Restore(c, f)

Advance(c) ==
    \/ FindMaster(c) \/ Reserve(c) \/ AddWallet(c) \/ AddFails(c) \/ Release(c)
    \/ FindTaken(c) \/ FindOther(c) \/ SetMaster(c)
    \/ FindBlocked(c) \/ ReadRows(c) \/ ReadKeys(c) \/ DeleteRows(c) \/ MoveAway(c)
    \/ \E f \in Folder : WriteSnapshot(c, f)
    \/ InsertRows(c) \/ MoveBack(c)

Next ==
    \/ \E c \in Call : Begins(c) \/ Advance(c) \/ Fail(c)
    \/ \E n \in Net : RemoveMaster(n)
    \/ \E u \in User : \/ \E a \in Address : NewUser(u, a)
                       \/ \E s \in Status : SetStatus(u, s)

Spec == Init /\ [][Next]_vars

(***************************************************************************)
(* Properties.                                                             *)
(***************************************************************************)
\* In the registry, with a reservation for every wallet.
Whole(u) ==
    Exists(u) /\ AddressesOf(u) # {} /\ wallets[u] \ torn \subseteq Reserved(u)

\* In a snapshot that names all of it.
Complete(f, u) ==
    /\ archives[f] # NoRow /\ archives[f].user = u
    /\ wallets[u] \ torn \subseteq archives[f].xpubs
    /\ archives[f].emails # {}

\* A user is never lost, whatever fails or dies in between: the rows are in the
\* registry, with a reservation for every wallet, or in a snapshot that names every
\* wallet (delete_user: "the snapshot is written BEFORE the rows are deleted").  That
\* they can be put back is not claimed: InsertRows may be refused.
NothingIsLost == \A u \in born : Whole(u) \/ \E f \in Folder : Complete(f, u)

\* The users whose database is in its place, with a wallet of that key.
Holders(x) == {u \in User : Exists(u) /\ InPlace(u) /\ x \in wallets[u]}

\* Among the users one key is one wallet, however attachments race, fail and are
\* repeated and users are deleted and restored: the index decides (reserve_wallet_xpub).
\* Left out are the keys whose reservation the code drops though the wallet is stored.
OneUserPerKey == \A x \in Xpub \ torn : Cardinality(Holders(x)) <= 1

\* Between the users and the owner of the gateway: a key of one side is no key of the
\* other, "or one address would have two recipients" (attach_wallet).  ADR-0027 has it
\* by two facing checks and an in-process lock; the code has the checks and no lock,
\* and this fails in the run archive_two_sides.
SidesAreApart == \A x \in Xpub : Holders(x) = {} \/ Owners(x) = {}

\* What the two facing checks come to without that lock: where a user and the owner
\* have one key, each had found it free before the other took it, or it came back with
\* a restored user, or its reservation had been dropped.  A call that looks after the
\* other side has written is refused, at whatever moment the two began.
ChecksHold ==
    \A x \in Xpub \ (raced \cup torn \cup returned) : Holders(x) = {} \/ Owners(x) = {}

=============================================================================
