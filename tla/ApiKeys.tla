-------------------------------- MODULE ApiKeys --------------------------------
(***************************************************************************)
(* The keys of applications: create_application, reissue_key and           *)
(* revoke_key (orchestrator/apps.py).  A key is stored twice: its          *)
(* fingerprint in the application's row, in the owner's database, and in   *)
(* the index of the registry, another database.  No transaction spans the  *)
(* two, so a call writes them one after the other and compensates when the *)
(* second write fails.  It is checked beside Accounts, hence the names.    *)
(***************************************************************************)
EXTENDS Integers

CONSTANTS
    Req,        \* concurrent calls from the cabinet
    App,        \* applications of the owner
    Key,        \* random keys; bound: this many are ever generated
    NoKey,      \* the application has no key
    NoApp,      \* there is no such application
    MaxKeyFaults \* bound: database failures, cancelled calls and crashes

ASSUME ApiKeysAssumption ==
    /\ NoKey \notin Key /\ NoApp \notin Key /\ NoKey # NoApp /\ NoApp \notin App
    /\ MaxKeyFaults \in Nat

VARIABLES
    row,        \* user.db: the fingerprint in each application's row
    index,      \* registry: the fingerprints of the index
    pc, op, app, old, new,
    \* history
    used,       \* keys ever generated
    handed,     \* keys returned to the owner, by application
    known,      \* what had been returned when each call began
    dead,       \* keys a successful call has replaced or revoked
    current,    \* the key last returned by a call that ran alone on its
                \* application, while no later call has touched it
    beside,     \* calls that ran beside another on their application, ...
    spoiled,    \* ... and whether such a call has ever failed
    keyFaults

callVars == <<pc, op, app, old, new>>
overlaps == <<beside, spoiled>>
keysHistory == <<used, handed, known, dead, current, overlaps>>
keysVars == <<row, index, callVars, keysHistory, keyFaults>>

\* resolve_application: the index names the owner, the owner's row the application.
BadWorks(k) == k \in index
Works(k) == k \in index /\ \E a \in App : row[a] = k

KeysTypeOK ==
    /\ row \in [App -> Key \cup {NoKey, NoApp}]
    /\ index \subseteq used /\ used \subseteq Key /\ dead \subseteq used
    /\ pc \in [Req -> {"idle", "write", "drop", "publish", "restore", "rollback"}]
    /\ op \in [Req -> {"create", "reissue", "revoke"}]
    /\ app \in [Req -> App \cup {NoApp}]
    /\ old \in [Req -> Key \cup {NoKey}] /\ new \in [Req -> Key \cup {NoKey}]
    /\ handed \in [App -> SUBSET Key] /\ known \in [Req -> SUBSET Key]
    /\ current \in [App -> Key \cup {NoKey}]
    /\ \A r \in Req : /\ pc[r] = "restore" => op[r] = "reissue" /\ new[r] # NoKey
                      /\ pc[r] = "rollback" => op[r] = "create"
                      /\ pc[r] = "drop" => old[r] # NoKey
    /\ beside \subseteq Req /\ spoiled \in BOOLEAN
    /\ keyFaults \in 0 .. MaxKeyFaults

(***************************************************************************)
(* The parts of a call.                                                    *)
(***************************************************************************)
\* set_application_key: an UPDATE, which writes nothing where there is no row.
SetKey(a, k) == row' = [row EXCEPT ![a] = IF @ = NoApp THEN NoApp ELSE k]

Return(r) ==
    /\ pc' = [pc EXCEPT ![r] = "idle"]
    /\ app' = [app EXCEPT ![r] = NoApp]
    /\ old' = [old EXCEPT ![r] = NoKey] /\ new' = [new EXCEPT ![r] = NoKey]
    /\ known' = [known EXCEPT ![r] = {}]
    /\ beside' = beside \ {r}
    /\ UNCHANGED <<op, used>>

\* _require_summary ends a call that succeeded: the key is shown, once.
Succeed(r) ==
    /\ Return(r) /\ UNCHANGED spoiled
    /\ IF row[app[r]] = NoApp THEN UNCHANGED <<handed, dead, current>>
       ELSE /\ handed' = [handed EXCEPT ![app[r]] = @ \cup ({new[r]} \cap Key)]
            /\ current' = [current EXCEPT ![app[r]] = IF r \in beside THEN NoKey ELSE new[r]]
            /\ dead' = dead \cup known[r]

\* One more failure, of the database or of the client that went away.
Fault(r) ==
    /\ keyFaults < MaxKeyFaults /\ keyFaults' = keyFaults + 1
    /\ spoiled' = (spoiled \/ r \in beside)

GoTo(r, step) == pc' = [pc EXCEPT ![r] = step] /\ UNCHANGED <<op, app, old, new>>

(***************************************************************************)
(* create_application                                                      *)
(***************************************************************************)
Create(r, a, k) ==
    /\ pc[r] = "idle" /\ row[a] = NoApp /\ k \notin used
    /\ \A s \in Req : app[s] # a
    /\ row' = [row EXCEPT ![a] = k]
    /\ used' = used \cup {k}
    /\ pc' = [pc EXCEPT ![r] = "publish"] /\ op' = [op EXCEPT ![r] = "create"]
    /\ app' = [app EXCEPT ![r] = a] /\ new' = [new EXCEPT ![r] = k]
    /\ UNCHANGED <<index, old, handed, known, dead, current, overlaps, keyFaults>>

\* Without its index row the application is deleted again.
Rollback(r) ==
    /\ pc[r] = "rollback"
    /\ row' = [row EXCEPT ![app[r]] = NoApp]
    /\ Return(r)
    /\ UNCHANGED <<index, handed, dead, current, spoiled, keyFaults>>

(***************************************************************************)
(* reissue_key and revoke_key                                              *)
(***************************************************************************)
Under(a) == {s \in Req : app[s] = a}

\* Both begin by reading the application's row.
BeginCall(r, a, o) ==
    /\ pc[r] = "idle" /\ row[a] # NoApp
    /\ pc' = [pc EXCEPT ![r] = "write"] /\ op' = [op EXCEPT ![r] = o]
    /\ app' = [app EXCEPT ![r] = a] /\ old' = [old EXCEPT ![r] = row[a]]
    /\ known' = [known EXCEPT ![r] = handed[a]]
    /\ current' = [current EXCEPT ![a] = NoKey]
    /\ beside' = IF Under(a) = {} THEN beside ELSE beside \cup Under(a) \cup {r}
    /\ spoiled' = (spoiled \/ \E s \in Under(a) : pc[s] \in {"restore", "rollback"})
    /\ UNCHANGED <<row, index, new, used, handed, dead, keyFaults>>

WriteNewKey(r, k) ==
    /\ pc[r] = "write" /\ op[r] = "reissue" /\ k \notin used
    /\ SetKey(app[r], k)
    /\ new' = [new EXCEPT ![r] = k] /\ used' = used \cup {k}
    /\ pc' = [pc EXCEPT ![r] = IF old[r] = NoKey THEN "publish" ELSE "drop"]
    /\ UNCHANGED <<index, op, app, old, handed, known, dead, current, overlaps, keyFaults>>

ClearKey(r) ==
    /\ pc[r] = "write" /\ op[r] = "revoke"
    /\ SetKey(app[r], NoKey)
    /\ IF old[r] = NoKey THEN Succeed(r)
       ELSE GoTo(r, "drop") /\ UNCHANGED keysHistory
    /\ UNCHANGED <<index, keyFaults>>

BadDropped(r) == index \ {row[app[r]]}
Dropped(r) == index \ {old[r]}

DropOld(r) ==
    /\ pc[r] = "drop"
    /\ index' = Dropped(r)
    /\ IF op[r] = "revoke" THEN Succeed(r)
       ELSE GoTo(r, "publish") /\ UNCHANGED keysHistory
    /\ UNCHANGED <<row, keyFaults>>

BadPublished(r) == index
Published(r) == index \cup {new[r]}

Publish(r) ==
    /\ pc[r] = "publish"
    /\ index' = Published(r)
    /\ Succeed(r)
    /\ UNCHANGED <<row, keyFaults>>

\* The write of the index raises; if the call was cancelled it may have happened.
BadCompensation(r) == "restore"
Compensation(r) == IF op[r] = "create" THEN "rollback" ELSE "restore"

IndexFails(r) ==
    /\ Fault(r)
    /\ \/ pc[r] = "publish" /\ index' \in {index, Published(r)}
       \/ pc[r] = "drop" /\ op[r] = "reissue" /\ index' \in {index, Dropped(r)}
    /\ GoTo(r, Compensation(r))
    /\ UNCHANGED <<row, used, handed, known, dead, current, beside>>

Restore(r) ==
    /\ pc[r] = "restore"
    /\ SetKey(app[r], old[r])
    /\ Return(r)
    /\ UNCHANGED <<index, handed, dead, current, spoiled, keyFaults>>

\* A failure nothing compensates: of another write, of a compensation, or a crash.
Abort(r) ==
    /\ pc[r] # "idle" /\ Fault(r)
    /\ Return(r)
    /\ UNCHANGED <<row, index, handed, dead, current>>

(***************************************************************************)
(* Specification.                                                          *)
(***************************************************************************)
KeysInit ==
    /\ row = [a \in App |-> NoApp] /\ index = {}
    /\ pc = [r \in Req |-> "idle"] /\ op = [r \in Req |-> "create"]
    /\ app = [r \in Req |-> NoApp]
    /\ old = [r \in Req |-> NoKey] /\ new = [r \in Req |-> NoKey]
    /\ used = {} /\ dead = {}
    /\ handed = [a \in App |-> {}] /\ known = [r \in Req |-> {}]
    /\ current = [a \in App |-> NoKey]
    /\ beside = {} /\ spoiled = FALSE
    /\ keyFaults = 0

KeysNext == \E r \in Req :
    \/ \E a \in App, k \in Key : Create(r, a, k)
    \/ \E a \in App, o \in {"reissue", "revoke"} : BeginCall(r, a, o)
    \/ \E k \in Key : WriteNewKey(r, k)
    \/ ClearKey(r) \/ DropOld(r) \/ Publish(r) \/ IndexFails(r)
    \/ Rollback(r) \/ Restore(r) \/ Abort(r)

KeysSpec == KeysInit /\ [][KeysNext]_keysVars

(***************************************************************************)
(* Properties.                                                             *)
(***************************************************************************)
\* A key the owner held before a reissue or a revocation that succeeded never
\* works again ("the old one dies", reissue_key; "the application loses API
\* access", revoke_key), however the calls were interleaved, as long as no call
\* failed beside another: its compensation could write a revoked key back.
DeadKeyNeverWorks == ~spoiled => \A k \in dead : ~Works(k)

\* The key a call returned, alone on its application, works until another call
\* touches it: no earlier failure or race, and no leftover of one, makes the key
\* just handed to the owner a dead one.
HandedKeyWorks == \A a \in App : current[a] # NoKey => Works(current[a])

\* When no call is under way an application that shows a key has a working one,
\* however the calls before were interleaved, as long as none failed.
ShownKeyWorks ==
    keyFaults = 0 => \A a \in App : Under(a) = {} /\ row[a] \in Key => Works(row[a])

\* A reissue that failed and compensated leaves the key it restored working
\* ("restoring the previous key", apps.py:96-102).
RestoredKeyWorks ==
    [][\A r \in Req : pc[r] = "restore" /\ old[r] \in Key /\ row' # row => Works(old[r])']_keysVars

=============================================================================
