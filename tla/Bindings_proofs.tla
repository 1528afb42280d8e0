---------------------------- MODULE Bindings_proofs ----------------------------
(***************************************************************************)
(* Theorems about Bindings, for every set of calls, payers, networks and   *)
(* wallets.  Those about addresses need the one process of the gateway     *)
(* (ADR-0003): two writers outside one lock may share an index, and the    *)
(* keys of the table do not forbid it in two different networks.           *)
(***************************************************************************)
EXTENDS Bindings, TLAPS

(***************************************************************************)
(* The inductive invariant.                                                *)
(***************************************************************************)
Locked == {"reread", "reuse", "next", "insert"}

\* A call in the critical section holds the lock of its process.
LockInv == \A r \in Req : pc[r] \in Locked => holder[processOf[r]] = r

\* What a call has found out, step by step.
CallInv ==
    \A r \in Req :
        /\ pc[r] # "idle" => payer[r] \in Payer
        /\ pc[r] \notin {"idle", "mapping"} => todo[r] \subseteq Configured(plan[r])
        /\ pc[r] = "lock" \/ pc[r] \in Locked => net[r] \in todo[r]

\* Past the second look the payer has no binding yet, and the index in hand is
\* the payer's own in that wallet or one the wallet has never used.
ChosenInv ==
    \A r \in Req :
        LET w == plan[r][net[r]] IN
        /\ pc[r] \in {"reuse", "next", "insert"} => Owned(payer[r], net[r]) = {}
        /\ pc[r] = "next" => Reusable(w, payer[r]) = {}
        /\ pc[r] = "insert" => \/ index[r] \in Reusable(w, payer[r])
                               \/ Reusable(w, payer[r]) = {} /\ index[r] \notin Used(w)

AddressInv == Agreed /\ Unshared /\ SameIndex

IInv == TypeOK /\ LockInv /\ CallInv /\ ChosenInv /\ AddressInv

(***************************************************************************)
(* Types.                                                                  *)
(***************************************************************************)
LEMMA LeaveType ==
  ASSUME TypeOK, NEW r \in Req, Leave(r)
  PROVE  /\ holder' \in [Process -> Req \cup {NoReq}]
         /\ pc' \in [Req -> Step] /\ payer' \in [Req -> Payer \cup {NoPayer}]
         /\ todo' \in [Req -> SUBSET Network]
         /\ plan' \in [Req -> [Network -> Wallet \cup {NoWallet}]]
         /\ net' \in [Req -> Network \cup {NoNetwork}] /\ index' \in [Req -> Index]
<1> USE BindingsAssumption DEF TypeOK, Leave, Release, Step
<1>1. NoPlan \in [Network -> Wallet \cup {NoWallet}]
  BY DEF NoPlan
<1>2. 0 \in Index
  BY DEF Index
<1> QED
  BY <1>1, <1>2

LEMMA GoOnType ==
  ASSUME TypeOK, NEW r \in Req, NEW n \in Network, GoOn(r, n)
  PROVE  /\ holder' \in [Process -> Req \cup {NoReq}]
         /\ pc' \in [Req -> Step] /\ payer' \in [Req -> Payer \cup {NoPayer}]
         /\ todo' \in [Req -> SUBSET Network]
         /\ plan' \in [Req -> [Network -> Wallet \cup {NoWallet}]]
         /\ net' \in [Req -> Network \cup {NoNetwork}] /\ index' \in [Req -> Index]
<1> USE DEF TypeOK, GoOn
<1>1. pc' \in [Req -> Step]
  BY DEF Step
<1>2. index' \in [Req -> Index]
  BY BindingsAssumption DEF Index
<1>3. holder' \in [Process -> Req \cup {NoReq}]
  BY DEF Release
<1> QED
  BY <1>1, <1>2, <1>3

LEMMA AnswerType ==
  ASSUME TypeOK, NEW r \in Req, NEW n \in Network, NEW a \in Address,
         payer[r] \in Payer, Answer(r, n, a)
  PROVE  /\ holder' \in [Process -> Req \cup {NoReq}]
         /\ pc' \in [Req -> Step] /\ payer' \in [Req -> Payer \cup {NoPayer}]
         /\ todo' \in [Req -> SUBSET Network]
         /\ plan' \in [Req -> [Network -> Wallet \cup {NoWallet}]]
         /\ net' \in [Req -> Network \cup {NoNetwork}] /\ index' \in [Req -> Index]
         /\ told' \in [Payer -> [Network -> SUBSET Address]]
<1>1. told' \in [Payer -> [Network -> SUBSET Address]]
  BY DEF Answer, TypeOK
<1>2. CASE Leave(r)
  BY <1>1, <1>2, LeaveType
<1>3. CASE GoOn(r, n)
  BY <1>1, <1>3, GoOnType
<1> QED
  BY <1>2, <1>3 DEF Answer

LEMMA AddressType == ASSUME NEW b \in Binding PROVE AddressOf(b) \in Address
  BY DEF Binding, AddressOf, Derived, Address

LEMMA OwnedType ==
  ASSUME TypeOK, NEW p, NEW n, NEW b \in Owned(p, n)
  PROVE  b \in bindings /\ b \in Binding /\ AddressOf(b) \in Address /\ b.payer = p /\ b.network = n
  BY AddressType DEF Owned, TypeOK

LEMMA NewType ==
  ASSUME TypeOK, CallInv, NEW r \in Req, pc[r] \in Locked
  PROVE  /\ payer[r] \in Payer /\ net[r] \in Network /\ plan[r][net[r]] \in Wallet
         /\ New(r) \in Binding /\ AddressOf(New(r)) \in Address
         /\ New(r).payer = payer[r] /\ New(r).network = net[r]
         /\ New(r).wallet = plan[r][net[r]] /\ New(r).index = index[r]
<1>1. payer[r] \in Payer /\ net[r] \in todo[r] /\ todo[r] \subseteq Configured(plan[r])
  BY DEF CallInv, Locked
<1>2. net[r] \in Network /\ plan[r][net[r]] \in Wallet
  BY <1>1 DEF TypeOK, Configured
<1>3. New(r) \in Binding
  BY <1>1, <1>2 DEF New, Binding, TypeOK
<1> QED
  BY <1>1, <1>2, <1>3, AddressType DEF New

THEOREM InitIInv == Init => IInv
<1> SUFFICES ASSUME Init PROVE IInv
  OBVIOUS
<1> USE BindingsAssumption DEF Init
<1>1. TypeOK
  BY DEF TypeOK, NoPlan, Step, Index, Binding
<1>2. LockInv /\ CallInv /\ ChosenInv
  BY DEF LockInv, CallInv, ChosenInv, Locked
<1>3. AddressInv
  BY DEF AddressInv, Agreed, Unshared, SameIndex, Owned
<1> QED
  BY <1>1, <1>2, <1>3 DEF IInv

\* The calls that only move on.
Small(r) ==
    \/ (\E p \in Payer, ns \in SUBSET Network : Call(r, p, ns))
    \/ FindMember(r) \/ Register(r) \/ ReuseIndex(r) \/ TakeNextIndex(r)

LEMMA SmallType == ASSUME TypeOK, CallInv, NEW r \in Req, Small(r) PROVE TypeOK'
<1> USE BindingsAssumption DEF TypeOK, Step, dbVars
<1>1. ASSUME NEW p \in Payer, NEW ns \in SUBSET Network, Call(r, p, ns) PROVE TypeOK'
  BY <1>1 DEF Call
<1>2. CASE FindMember(r)
  BY <1>2 DEF FindMember
<1>3. CASE Register(r)
  BY <1>3 DEF Register, CallInv
<1>4. CASE ReuseIndex(r)
  <2>1. Reusable(plan[r][net[r]], payer[r]) \subseteq Index
    BY DEF Reusable, Binding
  <2>2. pc' \in [Req -> Step]
    BY <1>4 DEF ReuseIndex
  <2>3. CASE UNCHANGED index
    BY <1>4, <2>2, <2>3 DEF ReuseIndex
  <2>4. CASE \E i \in Index : index' = [index EXCEPT ![r] = i]
    BY <1>4, <2>2, <2>4 DEF ReuseIndex
  <2> QED
    BY <1>4, <2>1, <2>3, <2>4 DEF ReuseIndex
<1>5. CASE TakeNextIndex(r)
  BY <1>5 DEF TakeNextIndex
<1> QED
  BY <1>1, <1>2, <1>3, <1>4, <1>5 DEF Small

LEMMA StepType == ASSUME TypeOK, CallInv, [Next]_vars PROVE TypeOK'
<1> USE BindingsAssumption
<1>1. ASSUME NEW r \in Req, Small(r) PROVE TypeOK'
  BY <1>1, SmallType
<1>2. ASSUME NEW r \in Req, ReadMapping(r) PROVE TypeOK'
  <2> DEFINE m == mapping[AppOf[payer[r]]]
             targets == IF todo[r] = {} THEN Configured(m) ELSE todo[r]
  <2>1. UNCHANGED <<dbVars, processOf, told, remaps>>
    BY <1>2 DEF ReadMapping
  <2>2. CASE targets = {} \/ ~(targets \subseteq Configured(m))
    BY <1>2, <2>1, <2>2, LeaveType DEF ReadMapping, TypeOK, dbVars
  <2>3. CASE ~(targets = {} \/ ~(targets \subseteq Configured(m)))
    <3>1. payer[r] \in Payer /\ m \in [Network -> Wallet \cup {NoWallet}]
      BY <1>2 DEF ReadMapping, CallInv, TypeOK
    <3>2. targets \subseteq Network
      BY DEF TypeOK, Configured
    <3> QED
      <4>1. /\ pc' = [pc EXCEPT ![r] = "member"] /\ todo' = [todo EXCEPT ![r] = targets]
            /\ plan' = [plan EXCEPT ![r] = m] /\ UNCHANGED <<payer, net, index, holder>>
        BY <1>2, <2>3 DEF ReadMapping
      <4>2. pc' \in [Req -> Step]
        BY <4>1 DEF TypeOK, Step
      <4>3. todo' \in [Req -> SUBSET Network]
        BY <3>2, <4>1 DEF TypeOK
      <4>4. plan' \in [Req -> [Network -> Wallet \cup {NoWallet}]]
        BY <3>1, <4>1 DEF TypeOK
      <4> QED
        BY <2>1, <4>1, <4>2, <4>3, <4>4 DEF TypeOK, dbVars
  <2> QED
    BY <2>2, <2>3
<1>3. ASSUME NEW r \in Req, NEW n \in Network, Peek(r, n) PROVE TypeOK'
  <2>1. UNCHANGED <<dbVars, processOf, remaps>> /\ payer[r] \in Payer
    BY <1>3 DEF Peek, CallInv
  <2>2. ASSUME NEW b \in Owned(payer[r], n), Answer(r, n, AddressOf(b)) PROVE TypeOK'
    BY <2>1, <2>2, OwnedType, AnswerType DEF TypeOK, dbVars
  <2>3. CASE Owned(payer[r], n) = {}
    <3>1. CASE \E b \in Owned(payer[r], n) : Answer(r, n, AddressOf(b))
      BY <2>3, <3>1
    <3>2. CASE /\ pc' = [pc EXCEPT ![r] = "lock"] /\ net' = [net EXCEPT ![r] = n]
               /\ UNCHANGED <<holder, payer, todo, plan, index, told>>
      BY <2>1, <3>2 DEF TypeOK, dbVars, Step
    <3> QED
      BY <1>3, <3>1, <3>2 DEF Peek
  <2> QED
    BY <1>3, <2>2, <2>3 DEF Peek
<1>4. ASSUME NEW r \in Req, Acquire(r) PROVE TypeOK'
  BY <1>4 DEF Acquire, TypeOK, dbVars, Step
<1>5. ASSUME NEW r \in Req, Reread(r) PROVE TypeOK'
  <2>1. UNCHANGED <<dbVars, processOf, remaps>> /\ payer[r] \in Payer /\ net[r] \in Network
    BY <1>5, NewType DEF Reread, Locked
  <2>2. ASSUME NEW b \in Owned(payer[r], net[r]), Answer(r, net[r], AddressOf(b)) PROVE TypeOK'
    BY <2>1, <2>2, OwnedType, AnswerType DEF TypeOK, dbVars
  <2>3. CASE Owned(payer[r], net[r]) = {}
    BY <1>5, <2>1, <2>3 DEF Reread, TypeOK, dbVars, Step
  <2> QED
    BY <1>5, <2>2, <2>3 DEF Reread
<1>6. ASSUME NEW r \in Req, Insert(r) PROVE TypeOK'
  <2>1. /\ UNCHANGED <<processOf, mapping, members, remaps>> /\ payer[r] \in Payer /\ net[r] \in Network
        /\ bindings' = bindings \cup {New(r)} /\ New(r) \in Binding
        /\ AddressOf(New(r)) \in Address
    BY <1>6, NewType DEF Insert, Locked
  <2>2. CASE Answer(r, net[r], AddressOf(New(r)))
    BY <2>1, <2>2, AnswerType DEF TypeOK
  <2>3. CASE Leave(r) /\ UNCHANGED told
    BY <2>1, <2>3, LeaveType DEF TypeOK
  <2> QED
    BY <1>6, <2>2, <2>3 DEF Insert
<1>7. ASSUME NEW r \in Req, LoseInsert(r) PROVE TypeOK'
  <2>1. UNCHANGED <<dbVars, processOf, remaps>> /\ payer[r] \in Payer /\ net[r] \in Network
    BY <1>7, NewType DEF LoseInsert, Locked
  <2>2. ASSUME NEW b \in Owned(payer[r], net[r]), Answer(r, net[r], AddressOf(b)) PROVE TypeOK'
    BY <2>1, <2>2, OwnedType, AnswerType DEF TypeOK, dbVars
  <2>3. CASE Leave(r) /\ UNCHANGED told
    BY <2>1, <2>3, LeaveType DEF TypeOK, dbVars
  <2> QED
    BY <1>7, <2>2, <2>3 DEF LoseInsert
<1>8. ASSUME NEW r \in Req, Fail(r) PROVE TypeOK'
  BY <1>8, LeaveType DEF Fail, TypeOK, dbVars
<1>9. ASSUME NEW a \in App, NEW n \in Network, NEW w \in Wallet \cup {NoWallet}, SetMapping(a, n, w)
      PROVE  TypeOK'
  BY <1>9 DEF SetMapping, TypeOK, callVars
<1>10. CASE UNCHANGED vars
  BY <1>10 DEF vars, dbVars, callVars, TypeOK
<1> QED
  BY <1>1, <1>2, <1>3, <1>4, <1>5, <1>6, <1>7, <1>8, <1>9, <1>10 DEF Next, Advance, Small

(***************************************************************************)
(* A step of a call is local: it leaves the other calls where they are.    *)
(***************************************************************************)
StepOf(r) ==
    \/ (\E p \in Payer, ns \in SUBSET Network : Call(r, p, ns))
    \/ Advance(r) \/ Acquire(r) \/ Fail(r)

\* A call stays in the process that took it.
LEMMA StepProcess == ASSUME NEW r \in Req, StepOf(r) PROVE UNCHANGED processOf
  BY DEF StepOf, Advance, Call, ReadMapping, FindMember, Register, Peek, Acquire, Reread,
         ReuseIndex, TakeNextIndex, Insert, LoseInsert, Fail

LEMMA NextProcess == ASSUME [Next]_vars PROVE UNCHANGED processOf
  BY StepProcess DEF Next, StepOf, SetMapping, vars

Same(s) ==
    /\ pc'[s] = pc[s] /\ payer'[s] = payer[s] /\ todo'[s] = todo[s]
    /\ plan'[s] = plan[s] /\ net'[s] = net[s] /\ index'[s] = index[s]
    /\ holder[processOf[s]] = s => holder'[processOf[s]] = s

LEMMA LeaveOthers ==
  ASSUME TypeOK, NEW r \in Req, Leave(r), NEW s \in Req, s # r
  PROVE  Same(s)
  BY BindingsAssumption DEF TypeOK, Leave, Release, Same

LEMMA AnswerOthers ==
  ASSUME TypeOK, NEW r \in Req, NEW n, NEW a, Answer(r, n, a), NEW s \in Req, s # r
  PROVE  Same(s)
<1>1. CASE Leave(r)
  BY <1>1, LeaveOthers
<1>2. CASE GoOn(r, n)
  BY <1>2, BindingsAssumption DEF TypeOK, GoOn, Release, Same
<1> QED
  BY <1>1, <1>2 DEF Answer

LEMMA StepOthers ==
  ASSUME TypeOK, NEW r \in Req, StepOf(r), NEW s \in Req, s # r
  PROVE  Same(s)
<1> USE BindingsAssumption DEF TypeOK, Same
<1>1. ASSUME NEW p \in Payer, NEW ns \in SUBSET Network, Call(r, p, ns) PROVE Same(s)
  BY <1>1 DEF Call
<1>2. CASE FindMember(r) \/ Register(r) \/ ReuseIndex(r) \/ TakeNextIndex(r)
  BY <1>2 DEF FindMember, Register, ReuseIndex, TakeNextIndex
<1>3. CASE ReadMapping(r)
  <2>1. CASE Leave(r)
    BY <2>1, LeaveOthers
  <2>2. CASE ~Leave(r)
    BY <1>3, <2>2 DEF ReadMapping
  <2> QED
    BY <2>1, <2>2
<1>4. ASSUME NEW n \in Network, Peek(r, n) PROVE Same(s)
  <2>1. ASSUME NEW b, Answer(r, n, AddressOf(b)) PROVE Same(s)
    BY <2>1, AnswerOthers
  <2>2. CASE ~\E b \in Owned(payer[r], n) : Answer(r, n, AddressOf(b))
    BY <1>4, <2>2 DEF Peek
  <2> QED
    BY <2>1, <2>2
<1>5. CASE Acquire(r)
  BY <1>5 DEF Acquire, Free
<1>6. CASE Reread(r)
  <2>1. ASSUME NEW b, Answer(r, net[r], AddressOf(b)) PROVE Same(s)
    BY <2>1, AnswerOthers
  <2>2. CASE ~\E b \in Owned(payer[r], net[r]) : Answer(r, net[r], AddressOf(b))
    BY <1>6, <2>2 DEF Reread
  <2> QED
    BY <2>1, <2>2
<1>7. CASE Insert(r)
  <2>1. CASE Leave(r)
    BY <2>1, LeaveOthers
  <2>2. CASE Answer(r, net[r], AddressOf(New(r)))
    BY <2>2, AnswerOthers
  <2> QED
    BY <1>7, <2>1, <2>2 DEF Insert
<1>8. CASE LoseInsert(r)
  <2>1. CASE Leave(r)
    BY <2>1, LeaveOthers
  <2>2. ASSUME NEW b, Answer(r, net[r], AddressOf(b)) PROVE Same(s)
    BY <2>2, AnswerOthers
  <2> QED
    BY <1>8, <2>1, <2>2 DEF LoseInsert
<1>9. CASE Fail(r)
  BY <1>9, LeaveOthers DEF Fail
<1> QED
  BY <1>1, <1>2, <1>3, <1>4, <1>5, <1>6, <1>7, <1>8, <1>9 DEF StepOf, Advance

\* A call that has its answer, or has failed, is out of the critical section.
Out(r) == pc'[r] \in {"idle", "peek"}

LEMMA AnswerOut ==
  ASSUME TypeOK, NEW r \in Req, NEW n, NEW a, Answer(r, n, a) \/ Leave(r)
  PROVE  Out(r)
  BY DEF TypeOK, Answer, Leave, GoOn, Out

\* What the call itself does, step by step, to its program counter.
LEMMA StepOwn ==
  ASSUME TypeOK, NEW r \in Req, StepOf(r)
  PROVE  \/ pc'[r] \in {"idle", "mapping", "member", "register", "peek", "lock"}
         \/ Acquire(r)
         \/ Reread(r) /\ Owned(payer[r], net[r]) = {} /\ pc' = [pc EXCEPT ![r] = "reuse"]
            /\ UNCHANGED <<dbVars, holder, payer, todo, plan, net, index, told, remaps>>
         \/ ReuseIndex(r) \/ TakeNextIndex(r)
<1> USE DEF TypeOK
<1>1. ASSUME NEW p \in Payer, NEW ns \in SUBSET Network, Call(r, p, ns) PROVE pc'[r] = "mapping"
  BY <1>1 DEF Call
<1>2. CASE FindMember(r) \/ Register(r)
  BY <1>2 DEF FindMember, Register
<1>3. CASE ReadMapping(r)
  BY <1>3 DEF ReadMapping, Leave
<1>4. ASSUME NEW n \in Network, Peek(r, n) PROVE pc'[r] \in {"idle", "peek", "lock"}
  <2>1. ASSUME NEW b, Answer(r, n, AddressOf(b)) PROVE Out(r)
    BY <2>1, AnswerOut
  <2>2. CASE ~\E b \in Owned(payer[r], n) : Answer(r, n, AddressOf(b))
    BY <1>4, <2>2 DEF Peek
  <2> QED
    BY <2>1, <2>2 DEF Out
<1>6. CASE Reread(r)
  <2>1. ASSUME NEW b, Answer(r, net[r], AddressOf(b)) PROVE Out(r)
    BY <2>1, AnswerOut
  <2>2. CASE ~\E b \in Owned(payer[r], net[r]) : Answer(r, net[r], AddressOf(b))
    BY <1>6, <2>2 DEF Reread, dbVars
  <2> QED
    BY <2>1, <2>2 DEF Out
<1>7. CASE Insert(r)
  BY <1>7, AnswerOut DEF Insert, Out
<1>8. CASE LoseInsert(r)
  BY <1>8, AnswerOut DEF LoseInsert, Out
<1>9. CASE Fail(r)
  BY <1>9, AnswerOut DEF Fail, Out
<1> QED
  BY <1>1, <1>2, <1>3, <1>4, <1>6, <1>7, <1>8, <1>9 DEF StepOf, Advance

(***************************************************************************)
(* The lock.                                                               *)
(***************************************************************************)
LEMMA StepLock ==
  ASSUME TypeOK, LockInv, NEW r \in Req, StepOf(r)
  PROVE  LockInv'
<1> SUFFICES ASSUME NEW s \in Req, pc'[s] \in Locked PROVE holder'[processOf[s]] = s
  BY StepProcess DEF LockInv
<1>1. CASE s # r
  BY <1>1, StepOthers DEF LockInv, Same
<1>2. CASE s = r
  <2>1. CASE Acquire(r)
    BY <1>2, <2>1, BindingsAssumption DEF Acquire, TypeOK
  <2>2. CASE ReuseIndex(r) \/ TakeNextIndex(r)
    BY <1>2, <2>2 DEF ReuseIndex, TakeNextIndex, LockInv, Locked
  <2>3. CASE Reread(r) /\ UNCHANGED holder
    BY <1>2, <2>3 DEF Reread, LockInv, Locked
  <2> QED
    BY <1>2, <2>1, <2>2, <2>3, StepOwn DEF Locked
<1> QED
  BY <1>1, <1>2

\* What the call itself does to the locks.
LEMMA StepHolder ==
  ASSUME TypeOK, NEW r \in Req, StepOf(r)
  PROVE  \/ Acquire(r)
         \/ Release(r)
         \/ UNCHANGED holder /\ (pc[r] \in Locked => pc'[r] \in Locked)
<1> USE DEF TypeOK, Locked
<1>0. \A n, a : Leave(r) \/ Answer(r, n, a) => Release(r)
  BY DEF Leave, Answer, GoOn
<1>1. ASSUME NEW p \in Payer, NEW ns \in SUBSET Network, Call(r, p, ns)
      PROVE  UNCHANGED holder /\ pc[r] \notin Locked
  BY <1>1 DEF Call
<1>2. CASE FindMember(r) \/ Register(r) \/ ReuseIndex(r) \/ TakeNextIndex(r)
  BY <1>2 DEF FindMember, Register, ReuseIndex, TakeNextIndex
<1>3. CASE ReadMapping(r)
  BY <1>0, <1>3 DEF ReadMapping
<1>4. ASSUME NEW n \in Network, Peek(r, n) PROVE Release(r) \/ (UNCHANGED holder /\ pc[r] \notin Locked)
  BY <1>0, <1>4 DEF Peek
<1>5. CASE Reread(r)
  BY <1>0, <1>5 DEF Reread
<1>6. CASE Insert(r) \/ LoseInsert(r) \/ Fail(r)
  BY <1>0, <1>6 DEF Insert, LoseInsert, Fail
<1> QED
  BY <1>1, <1>2, <1>3, <1>4, <1>5, <1>6 DEF StepOf, Advance

LEMMA StepWorker ==
  ASSUME TypeOK, LockHasAWorker, NEW r \in Req, StepOf(r)
  PROVE  LockHasAWorker'
<1> SUFFICES ASSUME NEW q \in Process, holder'[q] # NoReq
             PROVE  processOf[holder'[q]] = q /\ pc'[holder'[q]] \in Locked
  BY StepProcess DEF LockHasAWorker, Locked
<1> USE DEF TypeOK
<1>1. CASE Acquire(r)
  <2>1. CASE q = processOf[r]
    BY <1>1, <2>1 DEF Acquire, Locked
  <2>2. CASE q # processOf[r]
    <3>1. holder'[q] = holder[q] /\ holder[q] \in Req /\ pc[holder[q]] \in Locked
      BY <1>1, <2>2 DEF Acquire, LockHasAWorker, Locked
    <3>2. holder[q] # r
      BY <1>1, <3>1 DEF Acquire, Locked
    <3> QED
      BY <1>1, <3>1, <3>2 DEF Acquire, LockHasAWorker
  <2> QED
    BY <2>1, <2>2
<1>2. CASE Release(r)
  <2>1. holder'[q] = holder[q] /\ holder[q] # r /\ holder[q] \in Req
    BY <1>2 DEF Release
  <2> QED
    BY <2>1, StepOthers DEF Same, LockHasAWorker, Locked
<1>3. CASE UNCHANGED holder /\ (pc[r] \in Locked => pc'[r] \in Locked)
  <2>1. holder'[q] = holder[q] /\ holder[q] \in Req /\ pc[holder[q]] \in Locked
    BY <1>3 DEF LockHasAWorker, Locked
  <2>2. CASE holder[q] = r
    BY <1>3, <2>1, <2>2 DEF LockHasAWorker
  <2>3. CASE holder[q] # r
    BY <2>1, <2>3, StepOthers DEF Same, LockHasAWorker
  <2> QED
    BY <2>2, <2>3
<1> QED
  BY <1>1, <1>2, <1>3, StepHolder

\* With one process the critical section has one occupant.
LEMMA Exclusion ==
  ASSUME OneProcess, LockInv, NEW r \in Req, NEW s \in Req, pc[r] \in Locked, pc[s] \in Locked
  PROVE  r = s
  BY DEF OneProcess, LockInv

(***************************************************************************)
(* What a call has found out.                                              *)
(***************************************************************************)
LEMMA StepCall ==
  ASSUME TypeOK, CallInv, NEW r \in Req, StepOf(r)
  PROVE  CallInv'
<1> USE DEF TypeOK, CallInv
<1> DEFINE Good(s) ==
       /\ pc[s] # "idle" => payer[s] \in Payer
       /\ pc[s] \notin {"idle", "mapping"} => todo[s] \subseteq Configured(plan[s])
       /\ pc[s] = "lock" \/ pc[s] \in Locked => net[s] \in todo[s]
<1>a. \A s \in Req : s # r => Good(s)'
  BY StepOthers DEF Same
<1>b. CASE Leave(r)
  BY <1>a, <1>b DEF Leave, Locked
<1>c. ASSUME NEW n, NEW a, Answer(r, n, a), pc[r] \notin {"idle", "mapping"} PROVE CallInv'
  <2>1. CASE GoOn(r, n)
    <3>1. Good(r)'
      BY <1>c, <2>1 DEF GoOn, Locked
    <3> QED
      BY <1>a, <3>1
  <2> QED
    BY <1>b, <1>c, <2>1 DEF Answer
<1>1. ASSUME NEW p \in Payer, NEW ns \in SUBSET Network, Call(r, p, ns) PROVE CallInv'
  <2>1. Good(r)'
    BY <1>1 DEF Call, Locked
  <2> QED
    BY <1>a, <2>1
<1>2. CASE FindMember(r) \/ Register(r) \/ ReuseIndex(r) \/ TakeNextIndex(r) \/ Acquire(r)
  <2>1. Good(r)'
    BY <1>2 DEF FindMember, Register, ReuseIndex, TakeNextIndex, Acquire, Locked
  <2> QED
    BY <1>a, <2>1
<1>3. CASE ReadMapping(r) /\ ~Leave(r)
  <2>1. Good(r)'
    BY <1>3 DEF ReadMapping, Locked
  <2> QED
    BY <1>a, <2>1
<1>4. ASSUME NEW n \in Network, Peek(r, n) PROVE CallInv'
  <2>1. CASE ~\E b \in Owned(payer[r], n) : Answer(r, n, AddressOf(b))
    <3>1. Good(r)'
      BY <1>4, <2>1 DEF Peek, Locked
    <3> QED
      BY <1>a, <3>1
  <2> QED
    BY <1>4, <1>c, <2>1 DEF Peek
<1>5. CASE Reread(r)
  <2>1. CASE ~\E b \in Owned(payer[r], net[r]) : Answer(r, net[r], AddressOf(b))
    <3>1. Good(r)'
      BY <1>5, <2>1 DEF Reread, Locked
    <3> QED
      BY <1>a, <3>1
  <2> QED
    BY <1>5, <1>c, <2>1 DEF Reread
<1>6. CASE Insert(r)
  BY <1>6, <1>b, <1>c DEF Insert
<1>7. CASE LoseInsert(r)
  BY <1>7, <1>b, <1>c DEF LoseInsert
<1>8. CASE Fail(r)
  BY <1>8, <1>b DEF Fail
<1> QED
  BY <1>b, <1>1, <1>2, <1>3, <1>4, <1>5, <1>6, <1>7, <1>8 DEF StepOf, Advance

(***************************************************************************)
(* The index in hand.                                                      *)
(***************************************************************************)
LEMMA StepBindings ==
  ASSUME NEW r \in Req, StepOf(r)
  PROVE  UNCHANGED bindings \/ Insert(r)
  BY DEF StepOf, Advance, Call, ReadMapping, FindMember, Register, Peek, Acquire, Reread,
         ReuseIndex, TakeNextIndex, LoseInsert, Fail, dbVars

LEMMA StepChosen ==
  ASSUME OneProcess, TypeOK, LockInv, ChosenInv, NEW r \in Req, StepOf(r)
  PROVE  ChosenInv'
<1> DEFINE Good(s) ==
       LET w == plan[s][net[s]] IN
       /\ pc[s] \in {"reuse", "next", "insert"} => Owned(payer[s], net[s]) = {}
       /\ pc[s] = "next" => Reusable(w, payer[s]) = {}
       /\ pc[s] = "insert" => \/ index[s] \in Reusable(w, payer[s])
                              \/ Reusable(w, payer[s]) = {} /\ index[s] \notin Used(w)
<1>1. ASSUME NEW s \in Req, s # r PROVE Good(s)'
  <2>1. CASE UNCHANGED bindings
    <3>1. /\ pc'[s] = pc[s] /\ payer'[s] = payer[s] /\ plan'[s] = plan[s]
          /\ net'[s] = net[s] /\ index'[s] = index[s]
      BY <1>1, StepOthers DEF Same
    <3>2. Good(s)
      BY <1>1 DEF ChosenInv
    <3>3. /\ Owned(payer[s], net[s])' = Owned(payer[s], net[s])
          /\ Reusable(plan[s][net[s]], payer[s])' = Reusable(plan[s][net[s]], payer[s])
          /\ Used(plan[s][net[s]])' = Used(plan[s][net[s]])
      BY <2>1, <3>1 DEF Owned, Reusable, Used
    <3> QED
      BY <3>1, <3>2, <3>3
  <2>2. CASE Insert(r)
    <3>1. pc[s] \notin Locked
      BY <1>1, <2>2, Exclusion DEF Insert, Locked
    <3>2. pc'[s] \notin Locked
      BY <1>1, <3>1, StepOthers DEF Same
    <3> QED
      BY <3>2 DEF Locked
  <2> QED
    BY <2>1, <2>2, StepBindings
<1>2. Good(r)'
  <2>1. CASE Acquire(r)
    BY <2>1 DEF Acquire, TypeOK
  <2>2. CASE /\ Owned(payer[r], net[r]) = {} /\ pc' = [pc EXCEPT ![r] = "reuse"]
             /\ UNCHANGED <<dbVars, holder, payer, todo, plan, net, index, told, remaps>>
    BY <2>2 DEF TypeOK, Owned, dbVars
  <2>3. CASE ReuseIndex(r)
    <3>1. Owned(payer[r], net[r]) = {} /\ UNCHANGED <<bindings, payer, plan, net>>
      BY <2>3 DEF ReuseIndex, ChosenInv, dbVars
    <3>2. CASE pc'[r] = "insert" /\ index'[r] \in Reusable(plan[r][net[r]], payer[r])
      BY <3>1, <3>2 DEF Owned, Reusable
    <3>3. CASE pc'[r] = "next" /\ Reusable(plan[r][net[r]], payer[r]) = {}
      BY <3>1, <3>3 DEF Owned, Reusable
    <3> QED
      BY <2>3, <3>2, <3>3 DEF ReuseIndex, TypeOK
  <2>4. CASE TakeNextIndex(r)
    <3> DEFINE w == plan[r][net[r]]
    <3>1. /\ Owned(payer[r], net[r]) = {} /\ Reusable(w, payer[r]) = {}
          /\ UNCHANGED <<bindings, payer, plan, net>> /\ pc'[r] = "insert"
      BY <2>4 DEF TakeNextIndex, ChosenInv, dbVars, TypeOK
    <3>2. PICK i \in Index : IsNextIndex(w, i) /\ index' = [index EXCEPT ![r] = i]
      BY <2>4 DEF TakeNextIndex
    <3>3. index'[r] \notin Used(w)
      BY <3>2, BindingsAssumption DEF IsNextIndex, Index, TypeOK
    <3> QED
      BY <3>1, <3>3 DEF Owned, Reusable, Used
  <2> QED
    BY <2>1, <2>2, <2>3, <2>4, StepOwn
<1> QED
  BY <1>1, <1>2 DEF ChosenInv

(***************************************************************************)
(* Addresses.                                                              *)
(***************************************************************************)
\* An address about to be stored belongs to nobody else.
LEMMA ChosenPayer ==
  ASSUME IInv, NEW r \in Req, pc[r] = "insert", NEW c \in bindings,
         AddressOf(c) = AddressOf(New(r))
  PROVE  c.payer = payer[r]
<1> DEFINE w == plan[r][net[r]]
<1>1. c.wallet = w /\ c.index = index[r]
  BY DEF AddressOf, Derived, New
<1>2. PICK d \in bindings : d.wallet = w /\ d.payer = payer[r] /\ d.index = index[r]
  BY <1>1 DEF IInv, ChosenInv, Reusable, Used
<1> QED
  BY <1>1, <1>2 DEF IInv, AddressInv, Unshared, AddressOf, Derived

\* The payer's other addresses in that wallet are this one.
LEMMA ChosenIndex ==
  ASSUME IInv, NEW r \in Req, pc[r] = "insert", NEW c \in bindings,
         c.payer = payer[r], c.wallet = plan[r][net[r]]
  PROVE  c.index = index[r]
<1> DEFINE w == plan[r][net[r]]
<1>1. c.index \in Reusable(w, payer[r])
  BY DEF Reusable
<1>2. PICK d \in bindings : d.wallet = w /\ d.payer = payer[r] /\ d.index = index[r]
  BY <1>1 DEF IInv, ChosenInv, Reusable
<1> QED
  BY <1>2 DEF IInv, AddressInv, SameIndex

LEMMA InsertOwned ==
  ASSUME TypeOK, CallInv, NEW r \in Req, Insert(r), NEW p, NEW n
  PROVE  Owned(p, n)' = IF p = payer[r] /\ n = net[r] THEN Owned(p, n) \cup {New(r)}
                        ELSE Owned(p, n)
<1>1. bindings' = bindings \cup {New(r)} /\ New(r).payer = payer[r] /\ New(r).network = net[r]
  BY NewType DEF Insert, Locked
<1> QED
  BY <1>1 DEF Owned

LEMMA InsertAddress ==
  ASSUME IInv, NEW r \in Req, Insert(r)
  PROVE  AddressInv'
<1> USE DEF IInv, AddressInv
<1>1. /\ bindings' = bindings \cup {New(r)} /\ pc[r] = "insert"
      /\ New(r).payer = payer[r] /\ New(r).wallet = plan[r][net[r]] /\ New(r).index = index[r]
      /\ payer[r] \in Payer /\ net[r] \in Network
  BY NewType DEF Insert, Locked
<1>2. Unshared'
  BY <1>1, ChosenPayer DEF Unshared, AddressOf, Derived
<1>3. SameIndex'
  BY <1>1, ChosenIndex DEF SameIndex
<1>4. Agreed'
  <2> SUFFICES ASSUME NEW p \in Payer, NEW n \in Network
               PROVE  /\ \A b, c \in Owned(p, n)' : b = c
                      /\ told'[p][n] \subseteq {AddressOf(b) : b \in Owned(p, n)'}
    BY DEF Agreed, AddressOf, Derived
  <2>1. CASE p = payer[r] /\ n = net[r]
    <3>1. Owned(p, n) = {} /\ Owned(p, n)' = {New(r)}
      BY <1>1, <2>1, InsertOwned DEF ChosenInv
    <3>2. told[p][n] = {}
      BY <3>1 DEF Agreed
    <3>3. told'[p][n] \subseteq {AddressOf(New(r))}
      BY <1>1, <2>1, <3>2 DEF Insert, Answer, TypeOK
    <3> QED
      BY <3>1, <3>3
  <2>2. CASE ~(p = payer[r] /\ n = net[r])
    <3>1. Owned(p, n)' = Owned(p, n)
      BY <2>2, InsertOwned
    <3>2. told'[p][n] = told[p][n]
      BY <1>1, <2>2 DEF Insert, Answer, TypeOK
    <3> QED
      BY <3>1, <3>2 DEF Agreed
  <2> QED
    BY <2>1, <2>2
<1> QED
  BY <1>2, <1>3, <1>4

\* An answer read from the table.
LEMMA AnswerAddress ==
  ASSUME TypeOK, AddressInv, UNCHANGED bindings, NEW r \in Req, NEW n \in Network,
         payer[r] \in Payer, NEW b \in Owned(payer[r], n), Answer(r, n, AddressOf(b))
  PROVE  AddressInv'
<1>1. \A p \in Payer, m \in Network :
         told'[p][m] = IF p = payer[r] /\ m = n THEN told[p][m] \cup {AddressOf(b)} ELSE told[p][m]
  BY DEF Answer, TypeOK
<1>2. Agreed'
  <2> SUFFICES ASSUME NEW p \in Payer, NEW m \in Network
               PROVE  /\ \A c, d \in Owned(p, m)' : c = d
                      /\ told'[p][m] \subseteq {AddressOf(c) : c \in Owned(p, m)'}
    BY DEF Agreed, AddressOf, Derived
  <2>1. Owned(p, m)' = Owned(p, m)
    BY DEF Owned
  <2>2. told[p][m] \subseteq {AddressOf(c) : c \in Owned(p, m)}
    BY DEF AddressInv, Agreed
  <2>3. CASE p = payer[r] /\ m = n
    <3>1. AddressOf(b) \in {AddressOf(c) : c \in Owned(p, m)}
      BY <2>3
    <3>2. told'[p][m] = told[p][m] \cup {AddressOf(b)}
      BY <1>1, <2>3
    <3> QED
      BY <2>1, <2>2, <3>1, <3>2 DEF AddressInv, Agreed
  <2>4. CASE ~(p = payer[r] /\ m = n)
    <3>1. told'[p][m] = told[p][m]
      BY <1>1, <2>4
    <3> QED
      BY <2>1, <2>2, <3>1 DEF AddressInv, Agreed
  <2> QED
    BY <2>3, <2>4
<1> QED
  BY <1>2 DEF AddressInv, Unshared, SameIndex, AddressOf, Derived

LEMMA StepAddress ==
  ASSUME IInv, NEW r \in Req, StepOf(r)
  PROVE  AddressInv'
<1> USE DEF IInv
<1>1. CASE UNCHANGED <<bindings, told>>
  BY <1>1 DEF AddressInv, Agreed, Unshared, SameIndex, Owned,
              AddressOf, Derived
<1>2. CASE Insert(r)
  BY <1>2, InsertAddress
<1>3. ASSUME NEW n \in Network, Peek(r, n) PROVE AddressInv'
  BY <1>1, <1>3, AnswerAddress DEF Peek, dbVars, CallInv
<1>4. CASE Reread(r)
  BY <1>1, <1>4, NewType, AnswerAddress DEF Reread, dbVars, Locked
<1>5. CASE LoseInsert(r)
  BY <1>1, <1>5, NewType, AnswerAddress DEF LoseInsert, dbVars, Locked
<1>6. CASE ~Insert(r) /\ ~Reread(r) /\ ~LoseInsert(r) /\ ~\E n \in Network : Peek(r, n)
  <2>1. UNCHANGED <<bindings, told>>
    BY <1>6 DEF StepOf, Advance, Call, ReadMapping, FindMember, Register, Acquire,
                ReuseIndex, TakeNextIndex, Fail, dbVars
  <2> QED
    BY <1>1, <2>1
<1> QED
  BY <1>2, <1>3, <1>4, <1>5, <1>6

(***************************************************************************)
(* The invariant is inductive.                                             *)
(***************************************************************************)
LEMMA NextIInv == ASSUME OneProcess, IInv, [Next]_vars PROVE IInv'
<1> USE DEF IInv
<1>1. ASSUME NEW r \in Req, StepOf(r) PROVE IInv'
  <2>1. TypeOK'
    BY <1>1, StepType
  <2>2. LockInv' /\ CallInv' /\ ChosenInv' /\ AddressInv'
    BY <1>1, StepLock, StepCall, StepChosen, StepAddress
  <2> QED
    BY <2>1, <2>2
<1>2. CASE UNCHANGED <<bindings, holder, callVars, told>>
  <2>1. TypeOK'
    BY StepType
  <2>2. LockInv' /\ CallInv'
    BY <1>2, NextProcess DEF LockInv, CallInv, Configured, callVars
  <2>3. ChosenInv'
    BY <1>2 DEF ChosenInv, Owned, Reusable, Used, callVars
  <2>4. AddressInv'
    BY <1>2 DEF AddressInv, Agreed, Unshared, SameIndex, Owned,
                AddressOf, Derived
  <2> QED
    BY <2>1, <2>2, <2>3, <2>4
<1>3. ASSUME NEW a \in App, NEW n \in Network, NEW w \in Wallet \cup {NoWallet}, SetMapping(a, n, w)
      PROVE  UNCHANGED <<bindings, holder, callVars, told>>
  BY <1>3 DEF SetMapping
<1>4. UNCHANGED vars => UNCHANGED <<bindings, holder, callVars, told>>
  BY DEF vars, dbVars
<1> QED
  BY <1>1, <1>2, <1>3, <1>4 DEF Next, StepOf

\* For every set of calls, payers, networks and wallets, and any number of
\* processes, the variables keep their types.
THEOREM TypeCorrect == Spec => []TypeOK
<1>1. Init => TypeOK /\ CallInv
  BY InitIInv DEF IInv
<1>2. TypeOK /\ CallInv /\ [Next]_vars => (TypeOK /\ CallInv)'
  <2> SUFFICES ASSUME TypeOK, CallInv, [Next]_vars PROVE CallInv'
    BY StepType
  <2>1. ASSUME NEW r \in Req, StepOf(r) PROVE CallInv'
    BY <2>1, StepCall
  <2>2. ASSUME NEW a \in App, NEW n \in Network, NEW w \in Wallet \cup {NoWallet}, SetMapping(a, n, w)
        PROVE  CallInv'
    BY <2>2 DEF SetMapping, CallInv, Configured, callVars
  <2>3. CASE UNCHANGED vars
    BY <2>3 DEF vars, CallInv, Configured, callVars
  <2> QED
    BY <2>1, <2>2, <2>3 DEF Next, StepOf
<1> QED
  BY <1>1, <1>2, PTL DEF Spec

\* In any number of processes a held lock has a call working under it, so that no
\* failure or cancellation leaves an owner locked (_ensure_one_binding).
THEOREM LocksAreReleased == Spec => []LockHasAWorker
<1>1. Init => LockHasAWorker
  BY DEF Init, LockHasAWorker
<1>2. TypeOK /\ LockHasAWorker /\ [Next]_vars => LockHasAWorker'
  <2> SUFFICES ASSUME TypeOK, LockHasAWorker, [Next]_vars PROVE LockHasAWorker'
    OBVIOUS
  <2>1. ASSUME NEW r \in Req, StepOf(r) PROVE LockHasAWorker'
    BY <2>1, StepWorker
  <2>2. CASE UNCHANGED <<holder, callVars>>
    BY <2>2, NextProcess DEF LockHasAWorker, callVars
  <2>3. ASSUME NEW a \in App, NEW n \in Network, NEW w \in Wallet \cup {NoWallet}, SetMapping(a, n, w)
        PROVE  UNCHANGED <<holder, callVars>>
    BY <2>3 DEF SetMapping
  <2>4. UNCHANGED vars => UNCHANGED <<holder, callVars>>
    BY DEF vars
  <2> QED
    BY <2>1, <2>2, <2>3, <2>4 DEF Next, StepOf
<1> QED
  BY <1>1, <1>2, TypeCorrect, PTL DEF Spec

\* The processes of the calls never change, so that one process stays one.
LEMMA Inductive == Spec => [](TypeOK /\ (OneProcess => IInv))
<1>1. Init => TypeOK /\ (OneProcess => IInv)
  BY InitIInv DEF IInv
<1>2. TypeOK /\ (OneProcess => IInv) /\ TypeOK' /\ [Next]_vars => (OneProcess => IInv)'
  <2> SUFFICES ASSUME OneProcess => IInv, [Next]_vars, OneProcess' PROVE IInv'
    OBVIOUS
  <2>1. OneProcess
    BY NextProcess DEF OneProcess
  <2> QED
    BY <2>1, NextIInv
<1> QED
  BY <1>1, <1>2, TypeCorrect, PTL DEF Spec

\* In one process a payer is told one address for a network, ever, and it is the
\* one the table holds (_ensure_one_binding).
THEOREM OneAnswer == Spec => [](OneProcess => AnswersAgree)
<1>1. (OneProcess => IInv) => (OneProcess => AnswersAgree)
  BY DEF IInv, AddressInv, AnswersAgree
<1> QED
  BY <1>1, Inductive, PTL

\* In one process no address has two payers, whatever the networks: the lock makes
\* the reading of the maximum and the insertion one step (operations.py:187-191).
THEOREM OnePayer == Spec => []OneAddressOnePayer
<1>1. (OneProcess => IInv) => OneAddressOnePayer
  BY DEF IInv, AddressInv, OneAddressOnePayer
<1> QED
  BY <1>1, Inductive, PTL

\* In one process a payer has one address in all the networks of a wallet
\* (reused_derivation_index).
THEOREM SameAddress == Spec => []SameAddressEverywhere
<1>1. (OneProcess => IInv) => SameAddressEverywhere
  BY DEF IInv, AddressInv, SameAddressEverywhere
<1> QED
  BY <1>1, Inductive, PTL

\* In one process an insertion under the lock never meets a uniqueness key: the
\* branch for IntegrityError in _ensure_one_binding is dead there.
THEOREM NoConflict == Spec => []NoConflictUnderLock
<1>1. (OneProcess => IInv) => NoConflictUnderLock
  <2> SUFFICES ASSUME IInv, NEW r \in Req, pc[r] = "insert", NEW c \in bindings,
                      c.network = net[r],
                      c.payer = payer[r] \/ AddressOf(c) = AddressOf(New(r))
               PROVE  FALSE
    BY DEF NoConflictUnderLock, Conflicts, New
  <2>1. c.payer = payer[r]
    BY ChosenPayer
  <2>2. c \in Owned(payer[r], net[r])
    BY <2>1 DEF Owned
  <2> QED
    BY <2>2 DEF IInv, ChosenInv
<1> QED
  BY <1>1, Inductive, PTL

(***************************************************************************)
(* Bindings implement the address book.                                    *)
(***************************************************************************)
LEMMA BookInit == Init => Book!Init
  BY DEF Init, Book!Init, Known, Owned, NoAddress

\* What the book knows does not change with a step that stores no binding.
LEMMA BookStutter == UNCHANGED bindings => UNCHANGED Book!vars
  BY DEF Known, Owned, Book!vars, AddressOf, Derived

LEMMA BookIssue ==
  ASSUME IInv, NEW r \in Req, Insert(r)
  PROVE  Book!Issue(payer[r], net[r], AddressOf(New(r)))
<1> DEFINE p == payer[r]  n == net[r]  a == AddressOf(New(r))
<1>1. /\ pc[r] = "insert" /\ p \in Payer /\ n \in Network
      /\ Owned(p, n) = {}
  BY NewType DEF Insert, Locked, IInv, ChosenInv
<1>2. Known(p, n) = NoAddress
  BY <1>1 DEF Known
<1>3. ASSUME NEW q \in Payer, NEW m \in Network, Known(q, m) = a PROVE q = p
  <2>1. Owned(q, m) # {}
    <3>1. a # NoAddress
      BY DEF AddressOf, Derived, NoAddress
    <3> QED
      BY <1>3, <3>1 DEF Known
  <2>2. PICK c \in Owned(q, m) : AddressOf(c) = a
    BY <1>3, <2>1 DEF Known
  <2> QED
    BY <1>1, <2>2, ChosenPayer DEF Owned
<1>4. \A q \in Payer, m \in Network :
         Known(q, m)' = IF q = p /\ m = n THEN a ELSE Known(q, m)
  <2> SUFFICES ASSUME NEW q \in Payer, NEW m \in Network
               PROVE  Known(q, m)' = IF q = p /\ m = n THEN a ELSE Known(q, m)
    OBVIOUS
  <2>1. CASE q = p /\ m = n
    <3>1. Owned(q, m)' = {New(r)}
      BY <1>1, <2>1, InsertOwned DEF IInv
    <3> QED
      BY <2>1, <3>1 DEF Known, AddressOf, Derived
  <2>2. CASE ~(q = p /\ m = n)
    <3>1. Owned(q, m)' = Owned(q, m)
      BY <2>2, InsertOwned DEF IInv
    <3> QED
      BY <2>2, <3>1 DEF Known, AddressOf, Derived
  <2> QED
    BY <2>1, <2>2
<1> DEFINE book == [q \in Payer |-> [m \in Network |-> Known(q, m)]]
<1>5. book[p][n] = NoAddress
  BY <1>1, <1>2
<1>6. Book!PayersOf(a) \subseteq {p}
  BY <1>3 DEF Book!PayersOf
<1>7. book' = [book EXCEPT ![p][n] = a]
  <2> DEFINE after == [q \in Payer |-> [m \in Network |-> Known(q, m)']]
  <2>1. book' = after
    OBVIOUS
  <2>2. after = [q \in Payer |-> [m \in Network |->
                    IF q = p /\ m = n THEN a ELSE Known(q, m)]]
    BY <1>4, Zenon
  <2> QED
    BY <1>1, <2>1, <2>2
<1> QED
  BY <1>5, <1>6, <1>7 DEF Book!Issue

\* In one process, whatever calls race, fail or are cancelled and however the
\* mapping changes, issuing addresses implements the address book: one address per
\* payer and network, never changed, never shared.
THEOREM BindingsImplementAddressBook == Spec /\ []OneProcess => ImplementsAddressBook
<1>1. Init => Book!Init
  BY BookInit
<1>2. IInv /\ [Next]_vars => [Book!Next]_(Book!vars)
  <2> SUFFICES ASSUME IInv, [Next]_vars PROVE Book!Next \/ UNCHANGED Book!vars
    OBVIOUS
  <2>1. CASE UNCHANGED bindings
    BY <2>1, BookStutter
  <2>2. ASSUME NEW r \in Req, Insert(r) PROVE Book!Next
    <3>1. payer[r] \in Payer /\ net[r] \in Network /\ AddressOf(New(r)) \in Address
      BY <2>2, NewType DEF Insert, Locked, IInv
    <3> QED
      BY <2>2, <3>1, BookIssue DEF Book!Next
  <2>3. UNCHANGED bindings \/ \E r \in Req : Insert(r)
    BY StepBindings DEF Next, StepOf, SetMapping, vars, dbVars
  <2> QED
    BY <2>1, <2>2, <2>3
<1> QED
  BY <1>1, <1>2, Inductive, PTL DEF Spec, ImplementsAddressBook, Book!Spec

=============================================================================
