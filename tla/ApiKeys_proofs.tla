---------------------------- MODULE ApiKeys_proofs ----------------------------
(***************************************************************************)
(* Theorems about ApiKeys, for any number of calls, applications, keys and *)
(* failures.                                                               *)
(***************************************************************************)
EXTENDS ApiKeys, TLAPS

USE ApiKeysAssumption

(***************************************************************************)
(* The inductive invariant, in parts.                                      *)
(***************************************************************************)
\* What a call carries at each of its awaits.
CallOK ==
    \A r \in Req :
        /\ pc[r] = "idle" <=> app[r] = NoApp
        /\ pc[r] = "idle" => old[r] = NoKey /\ new[r] = NoKey /\ known[r] = {}
        /\ pc[r] = "write" => op[r] # "create" /\ new[r] = NoKey
        /\ pc[r] = "drop" => op[r] # "create" /\ (op[r] = "reissue" => new[r] # NoKey)
        /\ pc[r] = "publish" => op[r] # "revoke" /\ new[r] # NoKey
        /\ pc[r] # "idle" /\ op[r] = "revoke" => new[r] = NoKey
        /\ \A a \in App : app[r] = a => known[r] \subseteq handed[a]

\* A key is somewhere about an application: in its row, shown to its owner, or in
\* the hands of a call.  No key is about two, and all were generated.
Has(a, k) ==
    \/ row[a] = k
    \/ k \in handed[a]
    \/ \E r \in Req : app[r] = a /\ k \in {old[r], new[r]}

Homes == \A k \in Key, a \in App, b \in App : Has(a, k) /\ Has(b, k) => a = b
AllUsed == \A k \in Key, a \in App : Has(a, k) => k \in used

\* A key is new to one call, until it is shown; what is dead was shown.
NewIsFresh ==
    \A r \in Req : new[r] \in Key =>
        /\ \A s \in Req : new[s] = new[r] => s = r
        /\ \A a \in App : new[r] \notin handed[a]
        /\ new[r] \notin dead

\* A call that has run beside no other is the only one on its application.
Alone == \A r, s \in Req :
    app[r] \in App /\ app[s] = app[r] /\ s # r => r \in beside

\* Without a failure beside another call only a call that is alone compensates.
AloneCompensates ==
    ~spoiled => \A r \in Req : pc[r] \in {"restore", "rollback"} => r \notin beside

\* Past its first write a call has replaced whatever had been shown before it.
Replaced ==
    ~spoiled => \A r \in Req, a \in App :
        pc[r] \in {"drop", "publish"} /\ app[r] = a => row[a] \notin known[r]

\* A dead key still in the index is in no row, and no call that may compensate
\* can write it back.
DeadStaysDead ==
    ~spoiled => \A k \in dead : k \in index =>
        /\ \A a \in App : row[a] # k
        /\ \A r \in Req : old[r] = k => r \in beside

\* The row holds the key a call generated, as long as the call is alone.
AloneHolds ==
    \A r \in Req, a \in App :
        (/\ pc[r] \in {"drop", "publish"} /\ app[r] = a /\ r \notin beside
         /\ op[r] # "revoke") => row[a] \in {new[r], NoApp}

CurrentIsStored ==
    \A a \in App : current[a] # NoKey =>
        Under(a) = {} /\ row[a] = current[a] /\ current[a] \in index

\* As long as nothing failed, a row's key is in the index or on its way there, and
\* is not what a call is about to drop.
ShownOrComing ==
    keyFaults = 0 =>
        /\ \A r \in Req : pc[r] \notin {"restore", "rollback"}
        /\ \A r \in Req, a \in App : pc[r] = "drop" /\ app[r] = a => row[a] # old[r]
        /\ \A a \in App : row[a] \in Key =>
              \/ row[a] \in index
              \/ \E r \in Req : app[r] = a /\ pc[r] \in {"drop", "publish"} /\ new[r] = row[a]

\* What one call may do next.
Act(r) ==
    \/ \E a \in App, k \in Key : Create(r, a, k)
    \/ \E a \in App, o \in {"reissue", "revoke"} : BeginCall(r, a, o)
    \/ \E k \in Key : WriteNewKey(r, k)
    \/ ClearKey(r) \/ DropOld(r) \/ Publish(r) \/ IndexFails(r)
    \/ Rollback(r) \/ Restore(r) \/ Abort(r)

\* A call changes what it carries itself, nothing of another's.
LEMMA OthersCarryOn ==
  ASSUME KeysTypeOK, NEW r \in Req, Act(r), NEW s \in Req, s # r
  PROVE  /\ pc'[s] = pc[s] /\ op'[s] = op[s] /\ app'[s] = app[s]
         /\ old'[s] = old[s] /\ new'[s] = new[s] /\ known'[s] = known[s]
         /\ s \in beside => s \in beside'
  BY DEF Act, KeysTypeOK, Create, BeginCall, WriteNewKey, ClearKey, DropOld, Publish, IndexFails,
         Rollback, Restore, Abort, Return, Succeed, GoTo, keysHistory, overlaps, SetKey

\* A call that ends forgets everything.
LEMMA ReturnForgets ==
  ASSUME KeysTypeOK, NEW r \in Req, Return(r)
  PROVE  /\ pc'[r] = "idle" /\ app'[r] = NoApp /\ old'[r] = NoKey /\ new'[r] = NoKey
         /\ known'[r] = {} /\ r \notin beside' /\ beside' \subseteq beside
         /\ op' = op /\ used' = used
  BY DEF KeysTypeOK, Return

\* How a call is ended: by success or not.
LEMMA InitType == KeysInit => KeysTypeOK /\ CallOK
<1> SUFFICES ASSUME KeysInit PROVE KeysTypeOK /\ CallOK
  OBVIOUS
<1>1. /\ \A r \in Req : pc[r] = "idle" /\ app[r] = NoApp
                        /\ old[r] = NoKey /\ new[r] = NoKey /\ known[r] = {}
      /\ \A a \in App : handed[a] = {}
  BY DEF KeysInit
<1>2. KeysTypeOK
  <2>1. /\ row \in [App -> Key \cup {NoKey, NoApp}] /\ app \in [Req -> App \cup {NoApp}]
        /\ old \in [Req -> Key \cup {NoKey}] /\ new \in [Req -> Key \cup {NoKey}]
        /\ handed \in [App -> SUBSET Key] /\ known \in [Req -> SUBSET Key]
        /\ current \in [App -> Key \cup {NoKey}]
    BY DEF KeysInit
  <2>2. /\ pc \in [Req -> {"idle", "write", "drop", "publish", "restore", "rollback"}]
        /\ op \in [Req -> {"create", "reissue", "revoke"}]
    BY DEF KeysInit
  <2>3. /\ index \subseteq used /\ used \subseteq Key /\ dead \subseteq used
        /\ beside \subseteq Req /\ spoiled \in BOOLEAN
    BY DEF KeysInit
  <2>5. keyFaults \in 0 .. MaxKeyFaults
    BY DEF KeysInit
  <2>4. \A r \in Req : /\ pc[r] = "restore" => op[r] = "reissue" /\ new[r] # NoKey
                       /\ pc[r] = "rollback" => op[r] = "create"
                       /\ pc[r] = "drop" => old[r] # NoKey
    BY <1>1
  <2> QED
    BY <2>1, <2>2, <2>3, <2>4, <2>5 DEF KeysTypeOK
<1>3. CallOK
  BY <1>1 DEF CallOK
<1> QED
  BY <1>2, <1>3

LEMMA ReturnType ==
  ASSUME KeysTypeOK, NEW r \in Req, Return(r)
  PROVE  /\ pc' \in [Req -> {"idle", "write", "drop", "publish", "restore", "rollback"}]
         /\ op' \in [Req -> {"create", "reissue", "revoke"}]
         /\ app' \in [Req -> App \cup {NoApp}]
         /\ old' \in [Req -> Key \cup {NoKey}] /\ new' \in [Req -> Key \cup {NoKey}]
         /\ known' \in [Req -> SUBSET Key]
         /\ \A s \in Req : /\ pc'[s] = "restore" => op'[s] = "reissue" /\ new'[s] # NoKey
                           /\ pc'[s] = "rollback" => op'[s] = "create"
                           /\ pc'[s] = "drop" => old'[s] # NoKey
         /\ beside' \subseteq Req
  BY DEF KeysTypeOK, Return

LEMMA SucceedType ==
  ASSUME KeysTypeOK, CallOK, NEW r \in Req, Succeed(r), app[r] \in App, known[r] \subseteq used
  PROVE  /\ handed' \in [App -> SUBSET Key] /\ current' \in [App -> Key \cup {NoKey}]
         /\ dead' \subseteq used' /\ used' = used /\ spoiled' = spoiled
  BY DEF KeysTypeOK, CallOK, Succeed, Return

\* What an active call carries belongs to its application and was generated.
LEMMA CallKeys ==
  ASSUME KeysTypeOK, CallOK, AllUsed, NEW r \in Req, pc[r] # "idle"
  PROVE  /\ app[r] \in App
         /\ known[r] \subseteq used
         /\ old[r] \in Key => old[r] \in used
         /\ new[r] \in Key => new[r] \in used
<1>1. app[r] \in App
  BY DEF KeysTypeOK, CallOK
<1>2. known[r] \subseteq handed[app[r]] /\ known[r] \subseteq Key
  BY <1>1 DEF KeysTypeOK, CallOK
<1> QED
  BY <1>1, <1>2 DEF AllUsed, Has

LEMMA StepType ==
  ASSUME KeysTypeOK, CallOK, AllUsed, NEW r \in Req, Act(r)
  PROVE  KeysTypeOK'
<1> USE DEF KeysTypeOK
<1>1. ASSUME NEW a \in App, NEW k \in Key, Create(r, a, k) PROVE KeysTypeOK'
  BY <1>1 DEF Create, overlaps
<1>2. ASSUME NEW a \in App, NEW o \in {"reissue", "revoke"}, BeginCall(r, a, o) PROVE KeysTypeOK'
  BY <1>2 DEF BeginCall, Under
<1>3. ASSUME NEW k \in Key, WriteNewKey(r, k) PROVE KeysTypeOK'
  BY <1>3 DEF WriteNewKey, SetKey, overlaps
<1>4. CASE ClearKey(r)
  <2>1. row' \in [App -> Key \cup {NoKey, NoApp}] /\ UNCHANGED <<index, keyFaults>>
    BY <1>4 DEF ClearKey, SetKey
  <2>2. CASE old[r] = NoKey
    <3>1. Succeed(r) /\ pc[r] = "write"
      BY <1>4, <2>2 DEF ClearKey
    <3> QED
      BY <2>1, <3>1, CallKeys, SucceedType, ReturnType DEF Succeed
  <2>3. CASE old[r] # NoKey
    BY <1>4, <2>1, <2>3 DEF ClearKey, GoTo, keysHistory, overlaps
  <2> QED
    BY <2>2, <2>3
<1>5. CASE DropOld(r)
  <2>1. index' \subseteq used /\ UNCHANGED <<row, keyFaults>> /\ pc[r] = "drop"
    BY <1>5 DEF DropOld, Dropped
  <2>2. CASE op[r] = "revoke"
    <3>1. Succeed(r)
      BY <1>5, <2>2 DEF DropOld
    <3> QED
      BY <2>1, <3>1, CallKeys, SucceedType, ReturnType DEF Succeed
  <2>3. CASE op[r] # "revoke"
    BY <1>5, <2>1, <2>3 DEF DropOld, GoTo, keysHistory, overlaps
  <2> QED
    BY <2>2, <2>3
<1>6. CASE Publish(r)
  <2>1. UNCHANGED <<row, keyFaults>> /\ pc[r] = "publish" /\ Succeed(r)
    BY <1>6 DEF Publish
  <2>2. index' \subseteq used
    BY <1>6, CallKeys DEF Publish, Published, CallOK
  <2> QED
    BY <2>1, <2>2, CallKeys, SucceedType, ReturnType DEF Succeed
<1>7. CASE IndexFails(r)
  <2>1. /\ UNCHANGED <<row, used, handed, known, dead, current, beside, op, app, old, new>>
        /\ pc' = [pc EXCEPT ![r] = Compensation(r)] /\ keyFaults' = keyFaults + 1
        /\ keyFaults < MaxKeyFaults
        /\ spoiled' \in BOOLEAN
        /\ pc[r] = "publish" \/ (pc[r] = "drop" /\ op[r] = "reissue")
    BY <1>7 DEF IndexFails, GoTo, Fault
  <2>2. index' \subseteq used
    BY <1>7, CallKeys DEF IndexFails, Published, Dropped, CallOK
  <2> QED
    BY <2>1, <2>2 DEF Compensation, CallOK
<1>8. CASE Rollback(r) \/ Restore(r)
  <2>1. /\ Return(r) /\ UNCHANGED <<index, handed, dead, current, spoiled, keyFaults>>
    BY <1>8 DEF Rollback, Restore
  <2>2. row' \in [App -> Key \cup {NoKey, NoApp}]
    BY <1>8 DEF Rollback, Restore, SetKey
  <2> QED
    BY <2>1, <2>2, ReturnType, ReturnForgets
<1>9. CASE Abort(r)
  <2>1. /\ Return(r) /\ UNCHANGED <<row, index, handed, dead, current>>
        /\ keyFaults' = keyFaults + 1 /\ keyFaults < MaxKeyFaults /\ spoiled' \in BOOLEAN
    BY <1>9 DEF Abort, Fault
  <2> QED
    BY <2>1, ReturnType, ReturnForgets
<1> QED
  BY <1>1, <1>2, <1>3, <1>4, <1>5, <1>6, <1>7, <1>8, <1>9 DEF Act

\* The calls go through the awaits in the order of the code.
LEMMA StepCall ==
  ASSUME KeysTypeOK, CallOK, NEW r \in Req, Act(r)
  PROVE  CallOK'
<1> USE DEF KeysTypeOK
<1>1. \A s \in Req : s # r =>
         /\ pc'[s] = pc[s] /\ op'[s] = op[s] /\ app'[s] = app[s]
         /\ old'[s] = old[s] /\ new'[s] = new[s] /\ known'[s] = known[s]
  BY OthersCarryOn
<1>2. \A a \in App : handed[a] \subseteq handed'[a]
  BY DEF Act, Create, BeginCall, WriteNewKey, ClearKey, DropOld, Publish, IndexFails, Rollback,
         Restore, Abort, Return, Succeed, GoTo, keysHistory
<1>3. ASSUME NEW s \in Req, s # r
      PROVE  /\ pc'[s] = "idle" <=> app'[s] = NoApp
             /\ pc'[s] = "idle" => old'[s] = NoKey /\ new'[s] = NoKey /\ known'[s] = {}
             /\ pc'[s] = "write" => op'[s] # "create" /\ new'[s] = NoKey
             /\ pc'[s] = "drop" => op'[s] # "create" /\ (op'[s] = "reissue" => new'[s] # NoKey)
             /\ pc'[s] = "publish" => op'[s] # "revoke" /\ new'[s] # NoKey
             /\ pc'[s] # "idle" /\ op'[s] = "revoke" => new'[s] = NoKey
             /\ \A a \in App : app'[s] = a => known'[s] \subseteq handed'[a]
  BY <1>1, <1>2, <1>3 DEF CallOK
<1>4. /\ pc'[r] = "idle" <=> app'[r] = NoApp
      /\ pc'[r] = "idle" => old'[r] = NoKey /\ new'[r] = NoKey /\ known'[r] = {}
      /\ pc'[r] = "write" => op'[r] # "create" /\ new'[r] = NoKey
      /\ pc'[r] = "drop" => op'[r] # "create" /\ (op'[r] = "reissue" => new'[r] # NoKey)
      /\ pc'[r] = "publish" => op'[r] # "revoke" /\ new'[r] # NoKey
      /\ pc'[r] # "idle" /\ op'[r] = "revoke" => new'[r] = NoKey
      /\ \A a \in App : app'[r] = a => known'[r] \subseteq handed'[a]
  <2> USE DEF CallOK
  <2>1. ASSUME NEW a \in App, NEW k \in Key, Create(r, a, k) PROVE <1>4!:
    BY <2>1 DEF Create
  <2>2. ASSUME NEW a \in App, NEW o \in {"reissue", "revoke"}, BeginCall(r, a, o) PROVE <1>4!:
    BY <2>2 DEF BeginCall
  <2>3. ASSUME NEW k \in Key, WriteNewKey(r, k) PROVE <1>4!:
    BY <2>3 DEF WriteNewKey
  <2>4. CASE Return(r)
    BY <2>4, ReturnForgets
  <2>5. CASE ClearKey(r) /\ ~Return(r)
    BY <1>2, <2>5 DEF ClearKey, GoTo, Succeed, keysHistory
  <2>6. CASE DropOld(r) /\ ~Return(r)
    BY <1>2, <2>6 DEF DropOld, GoTo, Succeed, keysHistory
  <2>7. CASE IndexFails(r)
    BY <1>2, <2>7 DEF IndexFails, GoTo, Compensation
  <2> QED
    BY <2>1, <2>2, <2>3, <2>4, <2>5, <2>6, <2>7
       DEF Act, Publish, Succeed, Rollback, Restore, Abort
<1> QED
  BY <1>3, <1>4 DEF CallOK

\* A key comes to an application only where it is generated.
LEMMA HasGrows ==
  ASSUME KeysTypeOK, CallOK, NEW r \in Req, Act(r), NEW a \in App, NEW k \in Key,
         Has(a, k)', ~Has(a, k)
  PROVE  Create(r, a, k) \/ (WriteNewKey(r, k) /\ app[r] = a)
<1> USE DEF KeysTypeOK, Has
<1>o. \A s \in Req : s # r => app'[s] = app[s] /\ old'[s] = old[s] /\ new'[s] = new[s]
  BY OthersCarryOn
<1>1. ASSUME NEW b \in App, NEW j \in Key, Create(r, b, j) PROVE b = a /\ j = k
  <2>1. pc[r] = "idle" /\ old[r] = NoKey
    BY <1>1 DEF Create, CallOK
  <2> QED
    BY <1>1, <1>o, <2>1 DEF Create
<1>2. ASSUME NEW b \in App, NEW o \in {"reissue", "revoke"}, BeginCall(r, b, o) PROVE FALSE
  <2>1. pc[r] = "idle" /\ new[r] = NoKey
    BY <1>2 DEF BeginCall, CallOK
  <2> QED
    BY <1>2, <1>o, <2>1 DEF BeginCall
<1>3. ASSUME NEW j \in Key, WriteNewKey(r, j) PROVE j = k /\ app[r] = a
  BY <1>3, <1>o DEF WriteNewKey, SetKey
<1>4. ASSUME Return(r), UNCHANGED handed,
             row' = row \/ SetKey(app[r], old[r]) \/ row' = [row EXCEPT ![app[r]] = NoApp],
             pc[r] # "idle"
      PROVE  FALSE
  <2>1. app'[r] = NoApp
    BY <1>4, ReturnForgets
  <2>2. row'[a] = k => row[a] = k \/ (app[r] = a /\ old[r] = k)
    BY <1>4 DEF SetKey
  <2> QED
    BY <1>4, <1>o, <2>1, <2>2
<1>5. ASSUME Succeed(r), row' = row \/ SetKey(app[r], NoKey), pc[r] # "idle"
      PROVE  FALSE
  <2>1. app'[r] = NoApp
    BY <1>5, ReturnForgets DEF Succeed
  <2>2. row'[a] = k => row[a] = k
    BY <1>5 DEF SetKey
  <2>3. k \in handed'[a] => k \in handed[a] \/ (app[r] = a /\ new[r] = k)
    BY <1>5 DEF Succeed
  <2> QED
    BY <1>o, <2>1, <2>2, <2>3
<1>6. ASSUME UNCHANGED <<handed, app, old, new>>, row' = row \/ SetKey(app[r], NoKey)
      PROVE  FALSE
  BY <1>6 DEF SetKey
<1> QED
  BY <1>1, <1>2, <1>3, <1>4, <1>5, <1>6
     DEF Act, ClearKey, DropOld, Publish, IndexFails, Rollback, Restore, Abort, GoTo, keysHistory

\* Nothing that was generated is ever forgotten to have been.
LEMMA UsedGrows ==
  ASSUME KeysTypeOK, NEW r \in Req, Act(r)
  PROVE  used \subseteq used'
  BY DEF Act, Create, BeginCall, WriteNewKey, ClearKey, DropOld, Publish, IndexFails, Rollback,
         Restore, Abort, Return, Succeed, GoTo, keysHistory

LEMMA StepHomes ==
  ASSUME KeysTypeOK, CallOK, Homes, AllUsed, NEW r \in Req, Act(r)
  PROVE  Homes' /\ AllUsed'
<1>1. AllUsed'
  <2> SUFFICES ASSUME NEW a \in App, NEW k \in Key, Has(a, k)' PROVE k \in used'
    BY DEF AllUsed
  <2>1. CASE Has(a, k)
    BY <2>1, UsedGrows DEF AllUsed
  <2>2. CASE ~Has(a, k)
    BY <2>2, HasGrows DEF Create, WriteNewKey
  <2> QED
    BY <2>1, <2>2
<1>2. Homes'
  <2> SUFFICES ASSUME NEW k \in Key, NEW a \in App, NEW b \in App, Has(a, k)', Has(b, k)'
               PROVE  a = b
    BY DEF Homes
  <2>1. CASE Has(a, k) /\ Has(b, k)
    BY <2>1 DEF Homes
  <2>2. ASSUME NEW c \in App, Has(c, k)', ~Has(c, k), NEW d \in App, Has(d, k)'
        PROVE  c = d
    <3>1. Create(r, c, k) \/ (WriteNewKey(r, k) /\ app[r] = c)
      BY <2>2, HasGrows
    <3>2. k \notin used
      BY <3>1 DEF Create, WriteNewKey
    <3>3. ~Has(d, k)
      BY <3>2 DEF AllUsed
    <3>4. Create(r, d, k) \/ (WriteNewKey(r, k) /\ app[r] = d)
      BY <2>2, <3>3, HasGrows
    <3>5. CASE pc[r] = "idle"
      <4>1. app'[r] = c /\ app'[r] = d
        BY <3>1, <3>4, <3>5 DEF Create, WriteNewKey, KeysTypeOK
      <4> QED
        BY <4>1
    <3>6. CASE pc[r] # "idle"
      BY <3>1, <3>4, <3>6 DEF Create
    <3> QED
      BY <3>5, <3>6
  <2> QED
    BY <2>1, <2>2
<1> QED
  BY <1>1, <1>2

\* Where a call gets a new key, shows one, or adds to the dead.
LEMMA NewSteps ==
  ASSUME KeysTypeOK, CallOK, NEW r \in Req, Act(r)
  PROVE  /\ new'[r] \in Key => new'[r] = new[r] \/ new'[r] \notin used
         /\ dead' \subseteq dead \cup known[r] /\ (dead' # dead => new'[r] = NoKey)
         /\ \A a \in App : handed'[a] \subseteq handed[a] \cup ({new[r]} \cap Key)
         /\ handed' # handed => new'[r] = NoKey
         /\ \A a \in App : app[r] # a => handed'[a] = handed[a]
<1> USE DEF KeysTypeOK
<1>1. ASSUME NEW a \in App, NEW k \in Key, Create(r, a, k)
      PROVE  new'[r] \notin used /\ dead' = dead /\ handed' = handed
  BY <1>1 DEF Create
<1>2. ASSUME NEW a \in App, NEW o \in {"reissue", "revoke"}, BeginCall(r, a, o)
      PROVE  new'[r] = new[r] /\ dead' = dead /\ handed' = handed
  BY <1>2 DEF BeginCall
<1>3. ASSUME NEW k \in Key, WriteNewKey(r, k)
      PROVE  new'[r] \notin used /\ dead' = dead /\ handed' = handed
  BY <1>3 DEF WriteNewKey
<1>4. ASSUME Succeed(r)
      PROVE  /\ new'[r] = NoKey /\ dead' \subseteq dead \cup known[r]
             /\ \A a \in App : handed'[a] \subseteq handed[a] \cup ({new[r]} \cap Key)
             /\ \A a \in App : app[r] # a => handed'[a] = handed[a]
  <2>1. new'[r] = NoKey
    BY <1>4, ReturnForgets DEF Succeed
  <2> QED
    BY <1>4, <2>1 DEF Succeed
<1>5. ASSUME Return(r), UNCHANGED <<handed, dead>>
      PROVE  new'[r] = NoKey
  BY <1>5, ReturnForgets
<1>6. CASE UNCHANGED <<handed, dead, new>>
  BY <1>6
<1> QED
  BY <1>1, <1>2, <1>3, <1>4, <1>5, <1>6
     DEF Act, ClearKey, DropOld, Publish, IndexFails, Rollback, Restore, Abort, GoTo, keysHistory

LEMMA StepNewIsFresh ==
  ASSUME KeysTypeOK, CallOK, Homes, AllUsed, NewIsFresh, NEW r \in Req, Act(r)
  PROVE  NewIsFresh'
<1> SUFFICES ASSUME NEW s \in Req, new'[s] \in Key
             PROVE  /\ \A t \in Req : new'[t] = new'[s] => t = s
                    /\ \A a \in App : new'[s] \notin handed'[a]
                    /\ new'[s] \notin dead'
  BY DEF NewIsFresh
<1>u. /\ \A t \in Req : new[t] \in Key => new[t] \in used
      /\ \A a \in App : handed[a] \subseteq used
      /\ dead \subseteq used
  <2>1. \A t \in Req : new[t] \in Key => pc[t] # "idle"
    BY DEF CallOK
  <2> QED
    BY <2>1, CallKeys DEF AllUsed, Has, KeysTypeOK
<1>k. NoKey \notin Key /\ (\A a \in App : app[r] = a => known[r] \subseteq handed[a])
  BY DEF CallOK
<1>o. \A t \in Req : t # r => new'[t] = new[t]
  BY OthersCarryOn
<1>d. dead' \subseteq dead \/ (new'[r] = NoKey /\ dead' \subseteq dead \cup known[r] /\ app[r] \in App)
  <2>1. known[r] # {} => app[r] \in App
    BY DEF CallOK, KeysTypeOK
  <2> QED
    BY <2>1, NewSteps
<1>1. CASE s = r
  BY <1>1, <1>u, <1>o, <1>d, NewSteps DEF NewIsFresh
<1>2. CASE s # r
  <2>1. new'[s] = new[s] /\ new[s] # new[r]
    BY <1>2, <1>o DEF NewIsFresh
  <2>2. \A t \in Req : new'[t] = new'[s] => t = s
    BY <1>2, <1>o, <1>u, <2>1, NewSteps DEF NewIsFresh
  <2>3. \A a \in App : new'[s] \notin handed'[a]
    BY <2>1, NewSteps DEF NewIsFresh
  <2>4. new'[s] \notin dead'
    BY <1>d, <1>k, <2>1 DEF NewIsFresh
  <2> QED
    BY <2>2, <2>3, <2>4
<1> QED
  BY <1>1, <1>2

\* The calls on an application after a step: another call joins by beginning only.
LEMMA UnderGrows ==
  ASSUME KeysTypeOK, CallOK, NEW r \in Req, Act(r), NEW a \in App
  PROVE  /\ app'[r] = a => \/ app[r] = a
                           \/ \E k \in Key : Create(r, a, k)
                           \/ \E o \in {"reissue", "revoke"} : BeginCall(r, a, o)
         /\ beside \ {r} \subseteq beside'
         /\ (/\ app[r] = a /\ app'[r] = a
             /\ \A o \in {"reissue", "revoke"} : ~BeginCall(r, a, o)) => beside' = beside
<1> USE DEF KeysTypeOK
<1>0. pc[r] = "idle" => app[r] = NoApp
  BY DEF CallOK
<1>1. ASSUME NEW b \in App, NEW j \in Key, Create(r, b, j)
      PROVE app'[r] = b /\ beside' = beside /\ pc[r] = "idle"
  BY <1>1 DEF Create, overlaps
<1>2. ASSUME NEW b \in App, NEW o \in {"reissue", "revoke"}, BeginCall(r, b, o)
      PROVE app'[r] = b /\ beside \subseteq beside' /\ pc[r] = "idle"
  BY <1>2 DEF BeginCall
<1>3. CASE Return(r)
  BY <1>3, ReturnForgets DEF Return
<1>4. CASE UNCHANGED <<app, beside>>
  BY <1>4
<1> QED
  BY <1>0, <1>1, <1>2, <1>3, <1>4
     DEF Act, WriteNewKey, ClearKey, DropOld, Publish, IndexFails, Rollback, Restore, Abort,
         GoTo, keysHistory, Succeed, overlaps

LEMMA StepAlone ==
  ASSUME KeysTypeOK, CallOK, Alone, NEW r \in Req, Act(r)
  PROVE  Alone'
<1> SUFFICES ASSUME NEW s \in Req, NEW t \in Req, app'[s] \in App, app'[t] = app'[s], t # s
             PROVE  s \in beside'
  BY DEF Alone
<1> DEFINE a == app'[s]
<1>o. \A u \in Req : u # r => app'[u] = app[u] /\ (u \in beside => u \in beside')
  BY OthersCarryOn
<1>1. CASE s # r /\ t # r
  BY <1>1, <1>o DEF Alone
<1>2. ASSUME NEW u \in Req, u # r, app'[u] = a, app'[r] = a
      PROVE  u \in beside' /\ r \in beside'
  <2>1. app[u] = a
    BY <1>2, <1>o
  <2>2. CASE app[r] = a
    <3>1. r \in beside /\ u \in beside
      BY <1>2, <2>1, <2>2 DEF Alone
    <3>2. \A o \in {"reissue", "revoke"} : ~BeginCall(r, a, o)
      BY <2>2 DEF BeginCall, CallOK
    <3> QED
      BY <1>2, <2>2, <3>1, <3>2, UnderGrows
  <2>3. ASSUME NEW k \in Key, Create(r, a, k) PROVE FALSE
    BY <2>1, <2>3 DEF Create
  <2>4. ASSUME NEW o \in {"reissue", "revoke"}, BeginCall(r, a, o)
        PROVE  u \in beside' /\ r \in beside'
    <3>1. u \in Under(a)
      BY <2>1 DEF Under
    <3> QED
      BY <2>4, <3>1 DEF BeginCall
  <2> QED
    BY <1>2, <2>2, <2>3, <2>4, UnderGrows
<1> QED
  BY <1>1, <1>2

LEMMA StepAloneCompensates ==
  ASSUME KeysTypeOK, CallOK, AloneCompensates, NEW r \in Req, Act(r)
  PROVE  AloneCompensates'
<1> SUFFICES ASSUME ~spoiled', NEW s \in Req, pc'[s] \in {"restore", "rollback"}
             PROVE  s \notin beside'
  BY DEF AloneCompensates
<1> USE DEF KeysTypeOK
<1>o. \A u \in Req : u # r => pc'[u] = pc[u] /\ app'[u] = app[u]
  BY OthersCarryOn
<1>1. ASSUME NEW a \in App, NEW k \in Key, Create(r, a, k) PROVE s \notin beside'
  BY <1>1, <1>o DEF Create, AloneCompensates, overlaps
<1>2. ASSUME NEW a \in App, NEW o \in {"reissue", "revoke"}, BeginCall(r, a, o)
      PROVE  s \notin beside'
  <2>1. s # r /\ pc[s] = pc'[s] /\ ~spoiled
    BY <1>2, <1>o DEF BeginCall
  <2>2. s \notin beside /\ s \notin Under(a)
    BY <1>2, <2>1 DEF BeginCall, AloneCompensates
  <2> QED
    BY <1>2, <2>1, <2>2 DEF BeginCall
<1>3. CASE Return(r) /\ (spoiled => spoiled')
  BY <1>3, <1>o, ReturnForgets DEF AloneCompensates
<1>4. CASE UNCHANGED <<beside, spoiled>> /\ pc'[r] \notin {"restore", "rollback"}
  BY <1>4, <1>o DEF AloneCompensates
<1>5. CASE IndexFails(r)
  BY <1>5, <1>o DEF IndexFails, Fault, AloneCompensates
<1>6. ASSUME NEW k \in Key, WriteNewKey(r, k)
      PROVE  UNCHANGED <<beside, spoiled>> /\ pc'[r] \notin {"restore", "rollback"}
  BY <1>6 DEF WriteNewKey, overlaps
<1>7. ASSUME ClearKey(r) \/ DropOld(r) \/ Publish(r)
      PROVE  \/ UNCHANGED <<beside, spoiled>> /\ pc'[r] \notin {"restore", "rollback"}
             \/ Return(r) /\ (spoiled => spoiled')
  BY <1>7 DEF ClearKey, DropOld, Publish, Succeed, GoTo, keysHistory, overlaps
<1>8. ASSUME Rollback(r) \/ Restore(r) \/ Abort(r)
      PROVE  Return(r) /\ (spoiled => spoiled')
  BY <1>8 DEF Rollback, Restore, Abort, Fault
<1> QED
  BY <1>1, <1>2, <1>3, <1>4, <1>5, <1>6, <1>7, <1>8 DEF Act

\* The only writes to a row, with what they write.
LEMMA RowSteps ==
  ASSUME KeysTypeOK, NEW r \in Req, Act(r), NEW a \in App, row'[a] # row[a]
  PROVE  \/ \E k \in Key : Create(r, a, k) /\ row'[a] = k
         \/ /\ app[r] = a
            /\ \/ ClearKey(r) /\ row'[a] = NoKey
               \/ Rollback(r) /\ row'[a] = NoApp
               \/ Restore(r) /\ row'[a] = old[r]
               \/ \E k \in Key : WriteNewKey(r, k) /\ row'[a] = k
  BY DEF KeysTypeOK, Act, Create, BeginCall, WriteNewKey, ClearKey, DropOld, Publish, IndexFails,
         Rollback, Restore, Abort, SetKey

\* The only keys a step adds to the index: one that is about to be shown.
LEMMA IndexSteps ==
  ASSUME KeysTypeOK, CallOK, NEW r \in Req, Act(r)
  PROVE  /\ index' \subseteq index \cup ({new[r]} \cap Key)
         /\ \A k \in index : k \notin index' => k = old[r] /\ pc[r] = "drop"
         /\ index' # index => pc[r] \in {"drop", "publish"}
<1>1. CASE DropOld(r) \/ Publish(r) \/ IndexFails(r)
  BY <1>1 DEF KeysTypeOK, CallOK, DropOld, Publish, IndexFails, Dropped, Published
<1>2. CASE UNCHANGED index
  BY <1>2
<1> QED
  BY <1>1, <1>2 DEF Act, Create, BeginCall, WriteNewKey, ClearKey, Rollback, Restore, Abort

\* Without a failure beside another call, a call that writes back what it read is
\* the only one there.
LEMMA RestoreIsAlone ==
  ASSUME KeysTypeOK, CallOK, Alone, AloneCompensates, ~spoiled, NEW r \in Req,
         pc[r] \in {"restore", "rollback"}, NEW s \in Req, app[s] = app[r]
  PROVE  s = r /\ r \notin beside
<1>1. app[r] \in App
  BY DEF KeysTypeOK, CallOK
<1> QED
  BY <1>1 DEF Alone, AloneCompensates

LEMMA SpoiledStays ==
  ASSUME NEW r \in Req, Act(r), spoiled
  PROVE  spoiled'
  BY DEF Act, Create, BeginCall, WriteNewKey, ClearKey, DropOld, Publish, IndexFails, Rollback,
         Restore, Abort, Fault, Succeed, GoTo, keysHistory, overlaps

\* A call past its first write replaced what had been shown; nobody else writes
\* that back.
LEMMA StepReplaced ==
  ASSUME KeysTypeOK, CallOK, AllUsed, Alone, AloneCompensates, Replaced, NEW r \in Req, Act(r)
  PROVE  Replaced'
<1> SUFFICES ASSUME ~spoiled', NEW s \in Req, NEW a \in App,
                    pc'[s] \in {"drop", "publish"}, app'[s] = a
             PROVE  row'[a] \notin known'[s]
  BY DEF Replaced
<1>0. ~spoiled /\ NoKey \notin Key /\ NoApp \notin Key /\ KeysTypeOK' /\ CallOK'
  BY SpoiledStays, StepType, StepCall
<1>k. known'[s] \subseteq Key
  BY <1>0 DEF KeysTypeOK
<1>o. \A u \in Req : u # r => pc'[u] = pc[u] /\ app'[u] = app[u] /\ known'[u] = known[u]
  BY OthersCarryOn
<1>1. CASE s # r
  <2>1. pc[s] \in {"drop", "publish"} /\ app[s] = a /\ known'[s] = known[s]
    BY <1>1, <1>o
  <2>2. row[a] \notin known[s] /\ known[s] \subseteq used
    BY <1>0, <2>1, CallKeys DEF Replaced
  <2>3. CASE row'[a] = row[a]
    BY <2>1, <2>2, <2>3
  <2>4. ASSUME NEW k \in Key, Create(r, a, k) PROVE FALSE
    BY <2>1, <2>4 DEF Create
  <2>5. ASSUME NEW k \in Key, WriteNewKey(r, k), row'[a] = k PROVE row'[a] \notin known'[s]
    BY <2>1, <2>2, <2>5 DEF WriteNewKey
  <2>6. ASSUME app[r] = a, Restore(r) PROVE FALSE
    BY <1>0, <1>1, <2>1, <2>6, RestoreIsAlone DEF Restore
  <2> QED
    BY <1>0, <1>k, <2>3, <2>4, <2>5, <2>6, RowSteps
<1>2. CASE s = r
  <2> USE DEF KeysTypeOK
  <2>1. ASSUME NEW b \in App, NEW k \in Key, Create(r, b, k) PROVE known'[r] = {}
    BY <2>1 DEF Create, CallOK
  <2>2. ASSUME NEW k \in Key, WriteNewKey(r, k) PROVE row'[a] \notin known'[r]
    <3>1. app[r] = a /\ known' = known /\ known[r] \subseteq used /\ k \notin used
      BY <1>2, <2>2, CallKeys DEF WriteNewKey
    <3>2. row'[a] \in {k, NoApp}
      BY <2>2, <3>1 DEF WriteNewKey, SetKey
    <3> QED
      BY <1>0, <1>2, <1>k, <3>1, <3>2
  <2>3. CASE ClearKey(r) /\ ~Return(r)
    <3>1. app[r] = a
      BY <1>2, <2>3 DEF ClearKey, GoTo, Succeed
    <3>2. row'[a] \in {NoKey, NoApp}
      BY <2>3, <3>1 DEF ClearKey, SetKey
    <3> QED
      BY <1>0, <1>2, <1>k, <3>2
  <2>4. CASE DropOld(r) /\ ~Return(r)
    BY <1>0, <1>2, <2>4 DEF DropOld, GoTo, Succeed, keysHistory, Replaced
  <2>5. CASE Return(r)
    BY <1>2, <2>5, ReturnForgets
  <2>6. CASE IndexFails(r)
    BY <1>2, <2>6 DEF IndexFails, GoTo, Compensation
  <2>7. ASSUME NEW b \in App, NEW o \in {"reissue", "revoke"}, BeginCall(r, b, o) PROVE FALSE
    BY <1>2, <2>7 DEF BeginCall
  <2> QED
    BY <1>2, <2>1, <2>2, <2>3, <2>4, <2>5, <2>6, <2>7
       DEF Act, Publish, Rollback, Restore, Abort, Succeed
<1> QED
  BY <1>1, <1>2

\* What a success declares dead: keys shown before, on the call's application, whose
\* row holds none of them any more.
LEMMA DeathSteps ==
  ASSUME KeysTypeOK, CallOK, AllUsed, Replaced, NEW r \in Req, Act(r), ~spoiled,
         NEW k \in dead', k \notin dead
  PROVE  /\ app[r] \in App /\ k \in known[r] /\ k \in handed[app[r]]
         /\ row'[app[r]] # k
<1> USE DEF KeysTypeOK
<1>1. Succeed(r) /\ pc[r] # "idle"
  BY DEF Act, Create, BeginCall, WriteNewKey, ClearKey, DropOld, Publish, IndexFails, Rollback,
         Restore, Abort, GoTo, keysHistory
<1>2. app[r] \in App /\ k \in known[r] /\ k \in handed[app[r]]
  BY <1>1 DEF Succeed, CallOK
<1>3. row[app[r]] \notin known[r] \/ row'[app[r]] = NoKey
  <2>1. CASE ClearKey(r)
    BY <1>1, <1>2, <2>1 DEF ClearKey, SetKey, Succeed
  <2>2. CASE DropOld(r) \/ Publish(r)
    BY <1>2, <2>2 DEF DropOld, Publish, Replaced
  <2> QED
    BY <1>1, <2>1, <2>2
       DEF Act, Create, BeginCall, WriteNewKey, IndexFails, Rollback, Restore, Abort, GoTo, keysHistory,
           Succeed
<1>4. row'[app[r]] = row[app[r]] \/ row'[app[r]] = NoKey
  BY <1>1, <1>2
     DEF Act, Create, BeginCall, WriteNewKey, ClearKey, DropOld, Publish, IndexFails, Rollback,
         Restore, Abort, GoTo, keysHistory, Succeed, SetKey
<1> QED
  BY <1>2, <1>3, <1>4

LEMMA StepDeadStaysDead ==
  ASSUME KeysTypeOK, CallOK, Homes, AllUsed, NewIsFresh, Alone, AloneCompensates, Replaced,
         DeadStaysDead, NEW r \in Req, Act(r)
  PROVE  DeadStaysDead'
<1> SUFFICES ASSUME ~spoiled', NEW k \in dead', k \in index'
             PROVE  /\ \A a \in App : row'[a] # k
                    /\ \A s \in Req : old'[s] = k => s \in beside'
  BY DEF DeadStaysDead
<1>0. /\ ~spoiled /\ NoKey \notin Key /\ NoApp \notin Key /\ KeysTypeOK'
      /\ k \in Key /\ k \in used'
  BY SpoiledStays, StepType DEF KeysTypeOK
<1>h. Homes'
  BY StepHomes
<1>o. \A s \in Req : s # r => old'[s] = old[s] /\ app'[s] = app[s]
                              /\ (s \in beside => s \in beside')
  BY OthersCarryOn
<1>1. CASE k \in dead
  <2>1. k \in index /\ k \in used
    BY <1>0, <1>1, IndexSteps DEF NewIsFresh, KeysTypeOK
  <2>2. /\ \A a \in App : row[a] # k
        /\ \A s \in Req : old[s] = k => s \in beside
    BY <1>0, <1>1, <2>1 DEF DeadStaysDead
  <2>3. ASSUME NEW a \in App, row'[a] = k PROVE FALSE
    <3>1. row'[a] # row[a]
      BY <2>2, <2>3
    <3>2. ~(Restore(r) /\ row'[a] = old[r])
      <4>1. ASSUME Restore(r), old[r] = k PROVE FALSE
        BY <1>0, <2>2, <4>1 DEF Restore, AloneCompensates
      <4> QED
        BY <2>3, <4>1
    <3> QED
      BY <1>0, <2>1, <2>3, <3>1, <3>2, RowSteps DEF Create, WriteNewKey
  <2>4. ASSUME old'[r] = k PROVE r \in beside'
    <3>1. ASSUME NEW a \in App, NEW o \in {"reissue", "revoke"}, BeginCall(r, a, o) PROVE FALSE
      BY <2>2, <2>4, <3>1 DEF BeginCall, KeysTypeOK
    <3>2. CASE Return(r)
      BY <1>0, <2>4, <3>2, ReturnForgets
    <3>3. CASE UNCHANGED <<old, beside>>
      BY <2>2, <2>4, <3>3
    <3> QED
      BY <3>1, <3>2, <3>3
         DEF Act, Create, WriteNewKey, ClearKey, DropOld, Publish, IndexFails, Rollback,
             Restore, Abort, GoTo, keysHistory, overlaps, Succeed
  <2>5. \A s \in Req : old'[s] = k => s \in beside'
    BY <1>o, <2>2, <2>4
  <2> QED
    BY <2>3, <2>5
<1>2. CASE k \notin dead
  <2> DEFINE a == app[r]
  <2>1. a \in App /\ k \in handed[a] /\ row'[a] # k /\ k \in known[r]
    BY <1>0, <1>2, DeathSteps
  <2>2. k \in handed'[a]
    BY <2>1
       DEF Act, Create, BeginCall, WriteNewKey, ClearKey, DropOld, Publish, IndexFails, Rollback,
           Restore, Abort, GoTo, keysHistory, Succeed, KeysTypeOK
  <2>3. \A b \in App : row'[b] # k
    BY <1>0, <1>h, <2>1, <2>2 DEF Homes, Has
  <2>4. ASSUME NEW s \in Req, old'[s] = k PROVE s \in beside'
    <3>1. CASE s # r
      <4>1. old[s] = k /\ app[s] \in App
        BY <1>0, <1>o, <2>4, <3>1 DEF CallOK, KeysTypeOK
      <4>2. app[s] = a
        BY <1>0, <2>1, <4>1 DEF Homes, Has
      <4> QED
        BY <1>o, <2>1, <3>1, <4>2 DEF Alone
    <3>2. CASE s = r
      <4>1. Return(r)
        BY <1>2, <2>1
           DEF Act, Create, BeginCall, WriteNewKey, ClearKey, DropOld, Publish, IndexFails,
               Rollback, Restore, Abort, GoTo, keysHistory, Succeed
      <4> QED
        BY <1>0, <2>4, <3>2, <4>1, ReturnForgets
    <3> QED
      BY <3>1, <3>2
  <2> QED
    BY <2>3, <2>4
<1> QED
  BY <1>1, <1>2

\* While a call is alone on its application only it writes the row.
LEMMA StepAloneHolds ==
  ASSUME KeysTypeOK, CallOK, Alone, AloneHolds, NEW r \in Req, Act(r)
  PROVE  AloneHolds'
<1> SUFFICES ASSUME NEW s \in Req, NEW a \in App, pc'[s] \in {"drop", "publish"},
                    app'[s] = a, s \notin beside', op'[s] # "revoke"
             PROVE  row'[a] \in {new'[s], NoApp}
  BY DEF AloneHolds
<1>o. \A u \in Req : u # r => /\ pc'[u] = pc[u] /\ app'[u] = app[u] /\ op'[u] = op[u]
                              /\ new'[u] = new[u] /\ (u \in beside => u \in beside')
  BY OthersCarryOn
<1>1. CASE s # r
  <2>1. row[a] \in {new[s], NoApp} /\ app[r] # a /\ app[s] = a /\ new'[s] = new[s]
    BY <1>1, <1>o DEF AloneHolds, Alone
  <2>2. \A k \in Key : ~Create(r, a, k)
    BY <2>1 DEF Create
  <2>3. row'[a] = row[a]
    BY <2>1, <2>2, RowSteps
  <2> QED
    BY <2>1, <2>3
<1>2. CASE s = r
  <2> USE DEF KeysTypeOK
  <2>1. ASSUME NEW b \in App, NEW k \in Key, Create(r, b, k) PROVE row'[a] = new'[r]
    BY <1>2, <2>1 DEF Create
  <2>2. ASSUME NEW k \in Key, WriteNewKey(r, k) PROVE row'[a] \in {new'[r], NoApp}
    BY <1>2, <2>2 DEF WriteNewKey, SetKey
  <2>3. CASE (ClearKey(r) \/ DropOld(r)) /\ ~Return(r)
    <3>1. UNCHANGED <<op, app, new, beside>>
      BY <2>3 DEF ClearKey, DropOld, GoTo, Succeed, keysHistory, overlaps
    <3>2. DropOld(r)
      BY <1>2, <2>3, <3>1 DEF ClearKey
    <3>3. UNCHANGED row /\ pc[r] = "drop"
      BY <3>2 DEF DropOld
    <3> QED
      BY <1>2, <3>1, <3>3 DEF AloneHolds
  <2>4. CASE Return(r)
    BY <1>2, <2>4, ReturnForgets
  <2>5. CASE IndexFails(r)
    BY <1>2, <2>5 DEF IndexFails, GoTo, Compensation
  <2>6. ASSUME NEW b \in App, NEW o \in {"reissue", "revoke"}, BeginCall(r, b, o) PROVE FALSE
    BY <1>2, <2>6 DEF BeginCall
  <2> QED
    BY <1>2, <2>1, <2>2, <2>3, <2>4, <2>5, <2>6
       DEF Act, Publish, Rollback, Restore, Abort, Succeed
<1> QED
  BY <1>1, <1>2

\* A success that ran alone leaves its application without calls and its key both
\* in the row and in the index.
LEMMA StepCurrent ==
  ASSUME KeysTypeOK, CallOK, Homes, AllUsed, Alone, AloneHolds, CurrentIsStored,
         NEW r \in Req, Act(r)
  PROVE  CurrentIsStored'
<1> SUFFICES ASSUME NEW a \in App, current'[a] # NoKey
             PROVE  Under(a)' = {} /\ row'[a] = current'[a] /\ current'[a] \in index'
  BY DEF CurrentIsStored
<1>0. NoKey \notin Key /\ NoApp \notin Key /\ KeysTypeOK' /\ current'[a] \in Key
  BY StepType DEF KeysTypeOK
<1>o. \A u \in Req : u # r => app'[u] = app[u]
  BY OthersCarryOn
<1>1. CASE current'[a] = current[a]
  <2>1. Under(a) = {} /\ row[a] = current[a] /\ current[a] \in index
    BY <1>0, <1>1 DEF CurrentIsStored
  <2>2. app[r] # a
    BY <2>1 DEF Under
  <2>3. \A k \in Key : ~Create(r, a, k)
    BY <1>0, <1>1, <2>1 DEF Create
  <2>4. \A o \in {"reissue", "revoke"} : ~BeginCall(r, a, o)
    BY <1>0 DEF BeginCall, KeysTypeOK
  <2>5. app'[r] # a
    BY <2>2, <2>3, <2>4, UnderGrows
  <2>6. row'[a] = row[a]
    BY <2>2, <2>3, RowSteps
  <2>7. current[a] # old[r] \/ pc[r] # "drop"
    <3>1. ASSUME current[a] = old[r], pc[r] = "drop" PROVE FALSE
      <4>1. app[r] \in App /\ Has(app[r], current[a])
        BY <3>1 DEF CallOK, KeysTypeOK, Has
      <4>2. Has(a, current[a])
        BY <2>1 DEF Has
      <4> QED
        BY <1>0, <1>1, <2>2, <4>1, <4>2 DEF Homes
    <3> QED
      BY <3>1
  <2>8. current[a] \in index'
    BY <2>1, <2>7, IndexSteps
  <2>9. Under(a)' = {}
    BY <1>o, <2>1, <2>5 DEF Under
  <2> QED
    BY <1>1, <2>1, <2>6, <2>8, <2>9
<1>2. CASE current'[a] # current[a]
  <2>1. Succeed(r) /\ app[r] = a /\ r \notin beside /\ current'[a] = new[r] /\ row[a] # NoApp
    BY <1>0, <1>2
       DEF Act, Create, BeginCall, WriteNewKey, ClearKey, DropOld, Publish, IndexFails, Rollback,
           Restore, Abort, GoTo, keysHistory, Succeed, KeysTypeOK
  <2>2. Publish(r)
    <3>1. new[r] \in Key
      BY <1>0, <2>1
    <3>2. ~ClearKey(r) /\ ~(DropOld(r) /\ op[r] = "revoke")
      BY <1>0, <3>1 DEF ClearKey, DropOld, CallOK
    <3> QED
      BY <1>0, <1>2, <3>2
         DEF Act, Create, BeginCall, WriteNewKey, DropOld, IndexFails, Rollback, Restore, Abort,
             GoTo, keysHistory, KeysTypeOK
  <2>3. row[a] = new[r]
    BY <2>1, <2>2 DEF Publish, AloneHolds, CallOK
  <2>4. row' = row /\ index' = index \cup {new[r]}
    BY <2>2 DEF Publish, Published
  <2>5. app'[r] = NoApp /\ (\A u \in Req : u # r => app[u] # a)
    BY <2>1, ReturnForgets DEF Succeed, Alone
  <2>6. Under(a)' = {}
    BY <1>o, <2>5 DEF Under
  <2> QED
    BY <2>1, <2>3, <2>4, <2>6
<1> QED
  BY <1>1, <1>2

\* As long as nothing failed no call compensates, so rows only see new keys.
LEMMA StepShown ==
  ASSUME KeysTypeOK, CallOK, Homes, AllUsed, NewIsFresh, ShownOrComing, NEW r \in Req, Act(r)
  PROVE  ShownOrComing'
<1> SUFFICES ASSUME keyFaults' = 0 PROVE ShownOrComing'
  BY DEF ShownOrComing
<1>0. /\ NoKey \notin Key /\ NoApp \notin Key /\ KeysTypeOK' /\ CallOK'
      /\ keyFaults = 0 /\ keyFaults' = keyFaults
  <2>1. keyFaults' = keyFaults \/ keyFaults' = keyFaults + 1
    BY DEF Act, Create, BeginCall, WriteNewKey, ClearKey, DropOld, Publish, IndexFails, Rollback,
           Restore, Abort, Fault
  <2>2. keyFaults \in Nat
    BY DEF KeysTypeOK
  <2> QED
    BY <2>1, <2>2, StepType, StepCall
<1>1. ~Fault(r) /\ pc[r] \notin {"restore", "rollback"}
  BY <1>0 DEF Fault, ShownOrComing, KeysTypeOK
<1>a. ~IndexFails(r) /\ ~Rollback(r) /\ ~Restore(r) /\ ~Abort(r)
  BY <1>1 DEF IndexFails, Rollback, Restore, Abort
<1>o. \A u \in Req : u # r => /\ pc'[u] = pc[u] /\ app'[u] = app[u] /\ op'[u] = op[u]
                              /\ new'[u] = new[u] /\ old'[u] = old[u]
  BY OthersCarryOn
<1>2. \A s \in Req : pc'[s] \notin {"restore", "rollback"}
  <2>1. pc'[r] \notin {"restore", "rollback"}
    BY <1>a DEF Act, Create, BeginCall, WriteNewKey, ClearKey, DropOld, Publish, Succeed, Return,
                GoTo, KeysTypeOK
  <2> QED
    BY <1>0, <1>o, <2>1 DEF ShownOrComing
<1>3. ASSUME NEW s \in Req, NEW a \in App, pc'[s] = "drop", app'[s] = a
      PROVE  row'[a] # old'[s]
  <2>1. old'[s] \in Key /\ pc'[s] # "idle"
    BY <1>0, <1>3 DEF KeysTypeOK
  <2>2. CASE pc[s] = "drop" /\ app[s] = a /\ old'[s] = old[s]
    <3>1. row[a] # old[s] /\ old[s] \in used
      BY <1>0, <2>1, <2>2, CallKeys DEF ShownOrComing
    <3>2. CASE row'[a] # row[a]
      BY <1>0, <1>a, <2>1, <2>2, <3>1, <3>2, RowSteps DEF Create, WriteNewKey
    <3> QED
      BY <2>2, <3>1, <3>2
  <2>3. CASE s = r /\ ClearKey(r)
    <3>1. ~Return(r)
      BY <1>3, <2>1, <2>3, ReturnForgets
    <3>2. app[r] = a
      BY <1>3, <2>3, <3>1 DEF ClearKey, GoTo, Succeed
    <3>3. row'[a] \in {NoKey, NoApp}
      BY <2>3, <3>2 DEF ClearKey, SetKey, KeysTypeOK
    <3> QED
      BY <1>0, <2>1, <3>3
  <2>4. ASSUME s = r, NEW k \in Key, WriteNewKey(r, k) PROVE row'[a] # old'[s]
    <3>1. app[r] = a /\ old' = old /\ k \notin used /\ pc[r] = "write"
      BY <1>3, <2>4 DEF WriteNewKey
    <3>2. old[r] \in used
      BY <2>1, <2>4, <3>1, CallKeys
    <3>3. row'[a] \in {k, NoApp}
      BY <2>4, <3>1 DEF WriteNewKey, SetKey, KeysTypeOK
    <3> QED
      BY <1>0, <2>1, <2>4, <3>1, <3>2, <3>3
  <2>5. CASE s = r /\ ~ClearKey(r) /\ (\A k \in Key : ~WriteNewKey(r, k))
    BY <1>a, <1>3, <2>5
       DEF Act, Create, BeginCall, DropOld, Publish, Succeed, Return, GoTo, KeysTypeOK
  <2> QED
    BY <1>o, <1>3, <2>2, <2>3, <2>4, <2>5
<1>4. ASSUME NEW a \in App, row'[a] \in Key
      PROVE  \/ row'[a] \in index'
             \/ \E s \in Req : /\ app'[s] = a /\ pc'[s] \in {"drop", "publish"}
                               /\ new'[s] = row'[a]
  <2>1. CASE row'[a] # row[a]
    <3>1. \/ Create(r, a, row'[a])
          \/ app[r] = a /\ WriteNewKey(r, row'[a])
      BY <1>0, <1>a, <1>4, <2>1, RowSteps
    <3>2. app'[r] = a /\ pc'[r] \in {"drop", "publish"} /\ new'[r] = row'[a]
      BY <3>1 DEF Create, WriteNewKey, KeysTypeOK
    <3> QED
      BY <3>2
  <2>2. CASE row'[a] = row[a] /\ row[a] \in index
    <3>1. ASSUME row[a] \notin index' PROVE FALSE
      <4>1. row[a] = old[r] /\ pc[r] = "drop"
        BY <2>2, <3>1, IndexSteps
      <4>2. app[r] \in App
        BY <4>1 DEF CallOK, KeysTypeOK
      <4>3. Has(app[r], row[a]) /\ Has(a, row[a])
        BY <4>1, <4>2 DEF Has
      <4>4. app[r] = a
        BY <1>4, <2>2, <4>2, <4>3 DEF Homes
      <4> QED
        BY <1>0, <4>1, <4>4 DEF ShownOrComing
    <3> QED
      BY <2>2, <3>1
  <2>3. ASSUME row'[a] = row[a], NEW s \in Req, app[s] = a, pc[s] \in {"drop", "publish"},
               new[s] = row[a]
        PROVE  \/ row'[a] \in index'
               \/ \E u \in Req : /\ app'[u] = a /\ pc'[u] \in {"drop", "publish"}
                                 /\ new'[u] = row'[a]
    <3>1. CASE s # r
      BY <1>o, <2>3, <3>1
    <3>2. CASE s = r
      <4>1. op[r] # "revoke"
        BY <1>0, <1>4, <2>3, <3>2 DEF CallOK
      <4>2. CASE DropOld(r)
        <5>1. app' = app /\ new' = new /\ pc'[r] = "publish"
          BY <4>1, <4>2 DEF DropOld, GoTo, KeysTypeOK
        <5> QED
          BY <2>3, <3>2, <5>1
      <4>3. CASE Publish(r)
        BY <2>3, <3>2, <4>3 DEF Publish, Published
      <4> QED
        BY <1>a, <2>3, <3>2, <4>2, <4>3 DEF Act, Create, BeginCall, WriteNewKey, ClearKey
    <3> QED
      BY <3>1, <3>2
  <2> QED
    BY <1>0, <1>4, <2>1, <2>2, <2>3 DEF ShownOrComing
<1> QED
  BY <1>2, <1>3, <1>4 DEF ShownOrComing

(***************************************************************************)
(* The theorems.                                                           *)
(***************************************************************************)
IInv ==
    /\ KeysTypeOK /\ CallOK /\ Homes /\ AllUsed /\ NewIsFresh
    /\ Alone /\ AloneCompensates /\ Replaced /\ DeadStaysDead
    /\ AloneHolds /\ CurrentIsStored /\ ShownOrComing

LEMMA InitIInv == KeysInit => IInv
<1> SUFFICES ASSUME KeysInit PROVE IInv
  OBVIOUS
<1>1. /\ NoKey \notin Key /\ NoApp \notin Key /\ NoApp \notin App
      /\ \A r \in Req : /\ pc[r] = "idle" /\ app[r] = NoApp
                        /\ old[r] = NoKey /\ new[r] = NoKey /\ known[r] = {}
      /\ \A a \in App : row[a] = NoApp /\ handed[a] = {} /\ current[a] = NoKey
      /\ dead = {}
  BY DEF KeysInit
<1>2. \A a \in App, k \in Key : ~Has(a, k)
  BY <1>1 DEF Has
<1>3. Homes /\ AllUsed /\ NewIsFresh
  BY <1>1, <1>2 DEF Homes, AllUsed, NewIsFresh
<1>4. Alone /\ AloneCompensates /\ Replaced /\ DeadStaysDead
  BY <1>1 DEF Alone, AloneCompensates, Replaced, DeadStaysDead
<1>5. AloneHolds /\ CurrentIsStored /\ ShownOrComing
  BY <1>1 DEF AloneHolds, CurrentIsStored, ShownOrComing
<1> QED
  BY <1>3, <1>4, <1>5, InitType DEF IInv

LEMMA StepIInv == IInv /\ [KeysNext]_keysVars => IInv'
<1> SUFFICES ASSUME IInv, [KeysNext]_keysVars PROVE IInv'
  OBVIOUS
<1>1. ASSUME NEW r \in Req, Act(r) PROVE IInv'
  BY <1>1, StepType, StepCall, StepHomes, StepNewIsFresh, StepAlone, StepAloneCompensates,
     StepReplaced, StepDeadStaysDead, StepAloneHolds, StepCurrent, StepShown DEF IInv
<1>2. CASE UNCHANGED keysVars
  BY <1>2 DEF keysVars, callVars, keysHistory, overlaps, IInv, KeysTypeOK, CallOK, Homes, AllUsed, Has,
              NewIsFresh, Alone, AloneCompensates, Replaced, DeadStaysDead, AloneHolds,
              CurrentIsStored, Under, ShownOrComing
<1> QED
  BY <1>1, <1>2 DEF KeysNext, Act

LEMMA IInvHolds == KeysSpec => []IInv
  BY InitIInv, StepIInv, PTL DEF KeysSpec

\* Every reachable state has the types the two databases and a call's variables are
\* meant to have; in particular the index only ever holds keys that were generated, and
\* a reissue compensates with a key it read.
THEOREM TypeCorrect == KeysSpec => []KeysTypeOK
<1>1. IInv => KeysTypeOK
  BY DEF IInv
<1> QED
  BY <1>1, IInvHolds, PTL

\* "The old one dies": with any number of concurrent calls, interleaved in any way, a
\* key shown before a reissue or a revocation that succeeded never authenticates again,
\* unless a call failed beside another.
THEOREM OldKeysDie == KeysSpec => []DeadKeyNeverWorks
<1>1. IInv => DeadKeyNeverWorks
  BY DEF IInv, DeadStaysDead, DeadKeyNeverWorks, Works
<1> QED
  BY <1>1, IInvHolds, PTL

\* The key a lone call has just shown to the owner works until another call touches
\* the application, whatever failed or raced before.
THEOREM ShownOnceWorks == KeysSpec => []HandedKeyWorks
<1>1. IInv => HandedKeyWorks
  BY DEF IInv, CurrentIsStored, HandedKeyWorks, Works
<1> QED
  BY <1>1, IInvHolds, PTL

\* Without a failure, however many calls raced, an application at rest that shows a key
\* has a working one.
THEOREM RestingKeyWorks == KeysSpec => []ShownKeyWorks
<1>1. IInv => ShownKeyWorks
  BY DEF IInv, ShownOrComing, ShownKeyWorks, Works, Under
<1> QED
  BY <1>1, IInvHolds, PTL

=============================================================================
