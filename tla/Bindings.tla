------------------------------- MODULE Bindings -------------------------------
(***************************************************************************)
(* Issuing payment addresses in one user's database: ensure_bindings       *)
(* (orchestrator/operations.py), called concurrently by the Application    *)
(* API and by the cabinet, over the storage operations of user_apps.py,    *)
(* user_wallets.py and user_store.py.  Every await is a step of its own.   *)
(*                                                                         *)
(* The per-user lock lives in the memory of a process.  The gateway is one *)
(* process; the module allows several, because the code says the schema    *)
(* covers that case too.                                                   *)
(***************************************************************************)
EXTENDS Integers, FiniteSets

CONSTANTS
    Req,        \* concurrent calls of ensure_bindings
    Process,    \* operating-system processes
    Payer,      \* application users: application, instance and external id
    App,        \* applications
    AppOf,      \* the application of each payer
    Network,    \* supported networks, all of one family
    Wallet,     \* wallets of the user
    NoWallet,   \* the network is not configured
    NoNetwork, NoReq, NoPayer,
    MaxIndex,   \* bound: the last derivation index ever issued
    MaxRemap,   \* bound: changes of the "network -> wallet" mapping, ...
    MaxRemapApart   \* ... and while the calls are served by several processes

ASSUME BindingsAssumption ==
    /\ AppOf \in [Payer -> App]
    /\ MaxIndex \in Nat /\ MaxRemap \in Nat /\ MaxRemapApart \in 0 .. MaxRemap
    /\ NoWallet \notin Wallet /\ NoNetwork \notin Network
    /\ NoReq \notin Req /\ NoPayer \notin Payer

VARIABLES
    \* user.db
    mapping,    \* app_networks: application -> network -> wallet
    members,    \* app_users
    bindings,   \* bindings
    \* the processes
    processOf,  \* the process that serves each call, for good
    holder,     \* the call that holds the user's lock in each process
    \* the calls
    pc, payer, todo, plan, net, index,
    \* history
    told,       \* addresses ever returned to a payer for a network
    remaps      \* how many times the mapping has changed

dbVars == <<mapping, members, bindings>>
callVars == <<pc, payer, todo, plan, net, index>>
vars == <<dbVars, processOf, holder, callVars, told, remaps>>

Index == 0 .. MaxIndex
Binding == [wallet : Wallet, network : Network, payer : Payer, index : Index]
Step == {"idle", "mapping", "member", "register", "peek", "lock", "reread", "reuse",
         "next", "insert"}

\* derive_address: distinct wallets have distinct xpubs, and one xpub gives a
\* different address for every index, the same in every network of the family.
Derived(w, i) == <<w, i>>
Address == Wallet \X Index
AddressOf(b) == Derived(b.wallet, b.index)

\* The gateway as it runs: one process serves every call (ADR-0003).
OneProcess == \A r, s \in Req : processOf[r] = processOf[s]

TypeOK ==
    /\ mapping \in [App -> [Network -> Wallet \cup {NoWallet}]]
    /\ members \subseteq Payer
    /\ bindings \subseteq Binding
    /\ processOf \in [Req -> Process]
    /\ holder \in [Process -> Req \cup {NoReq}]
    /\ pc \in [Req -> Step]
    /\ payer \in [Req -> Payer \cup {NoPayer}]
    /\ todo \in [Req -> SUBSET Network]
    /\ plan \in [Req -> [Network -> Wallet \cup {NoWallet}]]
    /\ net \in [Req -> Network \cup {NoNetwork}]
    /\ index \in [Req -> Index]
    /\ told \in [Payer -> [Network -> SUBSET Address]]
    /\ remaps \in 0 .. MaxRemap

(***************************************************************************)
(* What a call reads.                                                      *)
(***************************************************************************)
NoPlan == [n \in Network |-> NoWallet]
BadConfigured(m) == Network
Configured(m) == {n \in Network : m[n] # NoWallet}

\* get_binding: by network, application and user, whatever the wallet.
Owned(p, n) == {b \in bindings : b.payer = p /\ b.network = n}

\* reused_derivation_index and next_derivation_index.
BadReusable(w, p) == {}
Reusable(w, p) == {b.index : b \in {c \in bindings : c.wallet = w /\ c.payer = p}}

Used(w) == {b.index : b \in {c \in bindings : c.wallet = w}}
BadIsNextIndex(w, i) == IF Used(w) = {} THEN i = 0 ELSE i \in Used(w) /\ \A j \in Used(w) : j <= i
IsNextIndex(w, i) == (\A j \in Used(w) : j < i) /\ (i = 0 \/ i - 1 \in Used(w))

\* The uniqueness keys of the table: owner, and address (or, which is the same,
\* wallet and index).
BadConflicts(b) ==
    \E c \in bindings : c.network = b.network /\ AddressOf(c) = AddressOf(b)
Conflicts(b) ==
    \E c \in bindings :
        /\ c.network = b.network
        /\ \/ c.wallet = b.wallet /\ c.payer = b.payer
           \/ AddressOf(c) = AddressOf(b)

(***************************************************************************)
(* The end of one network and of the call.                                 *)
(***************************************************************************)
Release(r) ==
    holder' = [q \in Process |-> IF holder[q] = r THEN NoReq ELSE holder[q]]

\* The call returns, or raises: nothing of it is left but what it stored.
Leave(r) ==
    /\ pc' = [pc EXCEPT ![r] = "idle"]
    /\ payer' = [payer EXCEPT ![r] = NoPayer]
    /\ todo' = [todo EXCEPT ![r] = {}]
    /\ plan' = [plan EXCEPT ![r] = NoPlan]
    /\ net' = [net EXCEPT ![r] = NoNetwork]
    /\ index' = [index EXCEPT ![r] = 0]
    /\ Release(r)

\* The loop goes on to the next network.
GoOn(r, n) ==
    /\ pc' = [pc EXCEPT ![r] = "peek"]
    /\ todo' = [todo EXCEPT ![r] = @ \ {n}]
    /\ net' = [net EXCEPT ![r] = NoNetwork]
    /\ index' = [index EXCEPT ![r] = 0]
    /\ Release(r)
    /\ UNCHANGED <<payer, plan>>

\* One network has its address; after the last one the call returns.
Answer(r, n, a) ==
    /\ told' = [told EXCEPT ![payer[r]][n] = @ \cup {a}]
    /\ \/ todo[r] = {n} /\ Leave(r)
       \/ todo[r] # {n} /\ GoOn(r, n)

(***************************************************************************)
(* The steps of ensure_bindings.                                           *)
(***************************************************************************)
\* The networks are answered in the order of the request; any order is allowed
\* here.  An empty set of networks stands for "all".
Call(r, p, ns) ==
    /\ pc[r] = "idle"
    /\ pc' = [pc EXCEPT ![r] = "mapping"]
    /\ payer' = [payer EXCEPT ![r] = p]
    /\ todo' = [todo EXCEPT ![r] = ns]
    /\ UNCHANGED <<dbVars, processOf, holder, plan, net, index, told, remaps>>

ReadMapping(r) ==
    /\ pc[r] = "mapping"
    /\ LET m == mapping[AppOf[payer[r]]]
           targets == IF todo[r] = {} THEN Configured(m) ELSE todo[r]
       IN IF targets = {} \/ ~(targets \subseteq Configured(m))
          THEN Leave(r)
          ELSE /\ pc' = [pc EXCEPT ![r] = "member"]
               /\ todo' = [todo EXCEPT ![r] = targets]
               /\ plan' = [plan EXCEPT ![r] = m]
               /\ UNCHANGED <<payer, net, index, holder>>
    /\ UNCHANGED <<dbVars, processOf, told, remaps>>

FindMember(r) ==
    /\ pc[r] = "member"
    /\ pc' = [pc EXCEPT ![r] = IF payer[r] \in members THEN "peek" ELSE "register"]
    /\ UNCHANGED <<dbVars, processOf, holder, payer, todo, plan, net, index, told, remaps>>

\* A concurrent registration of the same identity is read back and reused.
Register(r) ==
    /\ pc[r] = "register"
    /\ members' = members \cup {payer[r]}
    /\ pc' = [pc EXCEPT ![r] = "peek"]
    /\ UNCHANGED <<processOf, mapping, bindings, holder, payer, todo, plan, net, index, told, remaps>>

Peek(r, n) ==
    /\ pc[r] = "peek" /\ n \in todo[r]
    /\ \/ \E b \in Owned(payer[r], n) : Answer(r, n, AddressOf(b))
       \/ /\ Owned(payer[r], n) = {}
          /\ pc' = [pc EXCEPT ![r] = "lock"]
          /\ net' = [net EXCEPT ![r] = n]
          /\ UNCHANGED <<holder, payer, todo, plan, index, told>>
    /\ UNCHANGED <<dbVars, processOf, remaps>>

BadFree(q) == TRUE
Free(q) == holder[q] = NoReq

Acquire(r) ==
    /\ pc[r] = "lock" /\ Free(processOf[r])
    /\ holder' = [holder EXCEPT ![processOf[r]] = r]
    /\ pc' = [pc EXCEPT ![r] = "reread"]
    /\ UNCHANGED <<dbVars, processOf, payer, todo, plan, net, index, told, remaps>>

\* The binding may have appeared while the call waited for the lock.
Reread(r) ==
    /\ pc[r] = "reread"
    /\ \/ \E b \in Owned(payer[r], net[r]) : Answer(r, net[r], AddressOf(b))
       \/ /\ Owned(payer[r], net[r]) = {}
          /\ pc' = [pc EXCEPT ![r] = "reuse"]
          /\ UNCHANGED <<holder, payer, todo, plan, net, index, told>>
    /\ UNCHANGED <<dbVars, processOf, remaps>>

ReuseIndex(r) ==
    /\ pc[r] = "reuse"
    /\ LET own == Reusable(plan[r][net[r]], payer[r]) IN
          \/ \E i \in own : /\ index' = [index EXCEPT ![r] = i]
                            /\ pc' = [pc EXCEPT ![r] = "insert"]
          \/ /\ own = {}
             /\ pc' = [pc EXCEPT ![r] = "next"]
             /\ UNCHANGED index
    /\ UNCHANGED <<dbVars, processOf, holder, payer, todo, plan, net, told, remaps>>

TakeNextIndex(r) ==
    /\ pc[r] = "next"
    /\ \E i \in Index : /\ IsNextIndex(plan[r][net[r]], i)
                         /\ index' = [index EXCEPT ![r] = i]
    /\ pc' = [pc EXCEPT ![r] = "insert"]
    /\ UNCHANGED <<dbVars, processOf, holder, payer, todo, plan, net, told, remaps>>

New(r) == [wallet |-> plan[r][net[r]], network |-> net[r], payer |-> payer[r],
           index |-> index[r]]

\* The row may be stored and the client be gone before the answer.
Insert(r) ==
    /\ pc[r] = "insert" /\ ~Conflicts(New(r))
    /\ bindings' = bindings \cup {New(r)}
    /\ \/ Answer(r, net[r], AddressOf(New(r)))
       \/ Leave(r) /\ UNCHANGED told
    /\ UNCHANGED <<processOf, mapping, members, remaps>>

\* IntegrityError: the binding another process stored meanwhile is returned; if
\* there is none the call fails.
LoseInsert(r) ==
    /\ pc[r] = "insert" /\ Conflicts(New(r))
    /\ \/ \E b \in Owned(payer[r], net[r]) : Answer(r, net[r], AddressOf(b))
       \/ Owned(payer[r], net[r]) = {} /\ Leave(r) /\ UNCHANGED told
    /\ UNCHANGED <<dbVars, processOf, remaps>>

\* The database fails, or the client goes away and the call is cancelled.
Fail(r) ==
    /\ pc[r] # "idle"
    /\ Leave(r)
    /\ UNCHANGED <<dbVars, processOf, told, remaps>>

\* set_network_mapping and remove_network_mapping, from the cabinet.
SetMapping(a, n, w) ==
    /\ mapping[a][n] # w
    /\ remaps < (IF OneProcess THEN MaxRemap ELSE MaxRemapApart)
    /\ mapping' = [mapping EXCEPT ![a][n] = w]
    /\ remaps' = remaps + 1
    /\ UNCHANGED <<processOf, members, bindings, holder, callVars, told>>

(***************************************************************************)
(* Specification.                                                          *)
(***************************************************************************)
Init ==
    /\ mapping \in [App -> [Network -> Wallet \cup {NoWallet}]]
    /\ members = {} /\ bindings = {}
    /\ processOf \in [Req -> Process]
    /\ holder = [q \in Process |-> NoReq]
    /\ pc = [r \in Req |-> "idle"]
    /\ payer = [r \in Req |-> NoPayer]
    /\ todo = [r \in Req |-> {}]
    /\ plan = [r \in Req |-> NoPlan]
    /\ net = [r \in Req |-> NoNetwork]
    /\ index = [r \in Req |-> 0]
    /\ told = [p \in Payer |-> [n \in Network |-> {}]]
    /\ remaps = 0

Advance(r) ==
    \/ ReadMapping(r) \/ FindMember(r) \/ Register(r)
    \/ \E n \in Network : Peek(r, n)
    \/ Reread(r) \/ ReuseIndex(r) \/ TakeNextIndex(r) \/ Insert(r) \/ LoseInsert(r)

Next ==
    \/ \E r \in Req :
          \/ \E p \in Payer, ns \in SUBSET Network : Call(r, p, ns)
          \/ Advance(r)
          \/ Acquire(r)
          \/ Fail(r)
    \/ \E a \in App, n \in Network, w \in Wallet \cup {NoWallet} : SetMapping(a, n, w)

Spec == Init /\ [][Next]_vars

(***************************************************************************)
(* Properties.                                                             *)
(***************************************************************************)
Agreed ==
    \A p \in Payer, n \in Network :
        /\ \A b, c \in Owned(p, n) : b = c
        /\ told[p][n] \subseteq {AddressOf(b) : b \in Owned(p, n)}

Unshared == \A b, c \in bindings : AddressOf(b) = AddressOf(c) => b.payer = c.payer

SameIndex ==
    \A b, c \in bindings : b.payer = c.payer /\ b.wallet = c.wallet => b.index = c.index

\* Every address ever answered to a payer is the one the table still holds for
\* it in that network, and there is only one: a payer never has two addresses to
\* pay to, whatever was remapped or raced meanwhile.  Across processes the keys of
\* the table ensure it as long as nothing is remapped (_ensure_one_binding).
AnswersAgree == OneProcess \/ remaps = 0 => Agreed

\* In one process no address is given to two payers, not even in two different
\* networks (operations.py:187-191, "one address for two payers").
OneAddressOnePayer == OneProcess => Unshared

\* In one process a payer has the same address in every network a wallet serves
\* (the index is reused, reused_derivation_index).
SameAddressEverywhere == OneProcess => SameIndex

\* In one process an insertion under the lock never meets a uniqueness key ("a
\* conflict is only possible from a writer outside the process", _ensure_one_binding).
NoConflictUnderLock ==
    OneProcess => \A r \in Req : pc[r] = "insert" => ~Conflicts(New(r))

\* A lock that is held is held by a call of that process inside the critical
\* section: no call returns, fails or is cancelled with the lock in hand, which
\* would stop every later payer of the owner ("async with", _ensure_one_binding).
LockHasAWorker ==
    \A q \in Process : holder[q] # NoReq =>
        /\ processOf[holder[q]] = q
        /\ pc[holder[q]] \in {"reread", "reuse", "next", "insert"}

\* The promise: bindings implement an address book.
NoAddress == <<>>
Known(p, n) == IF Owned(p, n) = {} THEN NoAddress
               ELSE AddressOf(CHOOSE b \in Owned(p, n) : TRUE)
Book == INSTANCE AddressBook WITH
            book <- [p \in Payer |-> [n \in Network |-> Known(p, n)]]
ImplementsAddressBook == Book!Spec

=============================================================================
