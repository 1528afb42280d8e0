--------------------------- MODULE ArchiveKeys_proofs ---------------------------
(***************************************************************************)
(* Theorems about Archive: one key is one wallet among the users, and the  *)
(* checks between users and owner hold but for what they do not see, for   *)
(* every set of users, keys, networks and calls.  Archive_proofs has the   *)
(* invariant they rest on: a wallet in its place, unless torn, has its     *)
(* reservation.                                                            *)
(***************************************************************************)
EXTENDS Archive_proofs, FiniteSetTheorems

(***************************************************************************)
(* The two sides of a key: the index of the users, and the owner's table.  *)
(***************************************************************************)
\* What a call has seen of the other side still holds when it acts on it: whoever
\* could have changed it has left a trace.
Seen(c) ==
    LET x == job[c].xpub IN
    /\ job[c].at = "reserve" /\ x \notin raced => Owners(x) = {}
    /\ job[c].at \in {"other", "set"} /\ x \notin raced \cup returned => index[x] = NoUser

Apart == \A x \in Xpub \ (raced \cup returned) : index[x] = NoUser \/ Owners(x) = {}

Sides == Apart /\ \A c \in Call : Seen(c)

\* A call that goes on says what it has seen when it starts to rely on it.
Keeps(d) ==
    \/ job'[d] = Idle
    \/ /\ job'[d].op = job[d].op /\ job'[d].xpub = job[d].xpub
       /\ job'[d].at = job[d].at \/ job'[d].at \notin {"reserve", "other", "set"} \/ Seen(d)'

\* Keys may become free on either side.
LEMMA CalmStep ==
  ASSUME IInv, Sides, \A d \in Call : Keeps(d),
         \A x \in Xpub : index'[x] = index[x] \/ index'[x] = NoUser,
         \A x \in Xpub : Owners(x)' \subseteq Owners(x),
         raced \subseteq raced', returned \subseteq returned'
  PROVE  Sides'
<1>2. Apart'
  BY DEF Sides, Apart
<1>3. ASSUME NEW c \in Call PROVE Seen(c)'
  <2>1. CASE job'[c] = Idle
    BY <2>1 DEF Seen, Idle
  <2>2. CASE job'[c].xpub = job[c].xpub /\ job'[c].at = job[c].at
    <3>1. job[c].at \in {"reserve", "other", "set"} => job[c].xpub \in Xpub
      BY <1>3 DEF IInv, Inv, Shape, AttachStep, MasterStep
    <3>2. Seen(c)
      BY <1>3 DEF Sides
    <3> QED
      BY <2>2, <3>1, <3>2 DEF Seen
  <2>3. CASE job'[c].at \notin {"reserve", "other", "set"}
    BY <2>3 DEF Seen
  <2> QED
    BY <1>3, <2>1, <2>2, <2>3 DEF Keeps
<1> QED
  BY <1>2, <1>3 DEF Sides

LEMMA OwnersFrame ==
  ASSUME master' = master
  PROVE  \A x \in Xpub : Owners(x)' = Owners(x)
  BY DEF Owners

\* The call moves on to another step, and says what it has seen.
LEMMA GoesOn ==
  ASSUME IInv, NEW c \in Call, NEW step \in Step \ {"idle"}, Move(c, step)
  PROVE  /\ \A d \in Call \ {c} : job'[d] = job[d]
         /\ job'[c].at = step /\ job'[c].op = job[c].op /\ job'[c].xpub = job[c].xpub
<1>1. job[c] \in Job
  BY DEF IInv, TypeOK
<1>2. \A d \in Call \ {c} : job'[d] = job[d]
  BY Moved DEF IInv
<1>3. job'[c] = [job[c] EXCEPT !.at = step]
  BY Moved DEF IInv
<1> QED
  BY <1>1, <1>2, <1>3 DEF Job

LEMMA MovedKeeps ==
  ASSUME IInv, NEW c \in Call, NEW step \in Step, Move(c, step),
         step \in {"reserve", "other", "set"} => Seen(c)'
  PROVE  \A d \in Call : Keeps(d)
<1>1. CASE step = "idle"
  BY <1>1, Ended DEF Keeps, End, IInv
<1>2. CASE step # "idle"
  BY <1>2, GoesOn DEF Keeps
<1> QED
  BY <1>1, <1>2

(***************************************************************************)
(* Every step keeps the two sides apart.                                   *)
(***************************************************************************)
LEMMA SidesBegin ==
  ASSUME IInv, Sides, NEW c \in Call, NEW j \in Job, Begin(c, j), j.op # "none",
         j.xpub \in Xpub \/ j.op \in {"delete", "restore"},
         j.at \notin {"reserve", "other", "set"}
  PROVE  Sides'
<1>1. job'[c] = j /\ \A d \in Call \ {c} : job'[d] = job[d]
  BY Begun DEF IInv
<1>2. index' = index /\ master' = master /\ returned' = returned /\ raced' = raced
  BY DEF Begin, Reads, registry, history, excuses
<1>4. Apart'
  BY <1>2 DEF Sides, Apart, Owners
<1>5. \A d \in Call : Seen(d)'
  BY <1>1, <1>2 DEF Sides, Seen, Owners
<1> QED
  BY <1>4, <1>5 DEF Sides

LEMMA SidesBegins ==
  ASSUME IInv, Sides, NEW c \in Call, Begins(c)
  PROVE  Sides'
<1>1. ASSUME NEW u \in User, Delete(c, u) PROVE Sides'
  <2>1. [Idle EXCEPT !.op = "delete", !.at = "find", !.user = u] \in Job
    BY DEF Idle, Job, Op, Step
  <2> QED
    BY <1>1, <2>1, SidesBegin DEF Delete, Idle
<1>2. ASSUME NEW u \in User, NEW x \in Xpub, Attach(c, u, x) PROVE Sides'
  <2>1. [Idle EXCEPT !.op = "attach", !.at = "master", !.user = u, !.xpub = x] \in Job
    BY DEF Idle, Job, Op, Step
  <2> QED
    BY <1>2, <2>1, SidesBegin DEF Attach, Idle
<1>3. ASSUME NEW n \in Net, NEW x \in Xpub, AttachMaster(c, n, x) PROVE Sides'
  <2>1. [Idle EXCEPT !.op = "master", !.at = "taken", !.net = n, !.xpub = x] \in Job
    BY DEF Idle, Job, Op, Step
  <2> QED
    BY <1>3, <2>1, SidesBegin DEF AttachMaster, Idle
<1>4. ASSUME NEW f \in Folder, Restore(c, f) PROVE Sides'
  <2>1. archives[f] \in Snapshot /\ archives[f].user \in User
    BY <1>4 DEF Restore, IInv, TypeOK, Snapshot
  <2>2. [Idle EXCEPT !.op = "restore", !.at = "insert", !.user = archives[f].user,
                     !.folder = f, !.bundle = archives[f]] \in Job
    BY <2>1 DEF Idle, Job, Op, Step
  <2> QED
    BY <1>4, <2>2, SidesBegin DEF Restore, Idle
<1> QED
  BY <1>1, <1>2, <1>3, <1>4 DEF Begins

\* Steps that look, or change nothing of the two sides but to free a key.
LEMMA SidesCalm ==
  ASSUME IInv, Sides, NEW c \in Call, NEW step \in Step, Move(c, step),
         step \in {"reserve", "other", "set"} => Seen(c)',
         index' = index, master' = master, raced' = raced, returned' = returned
  PROVE  Sides'
  BY MovedKeeps, CalmStep, OwnersFrame

LEMMA SidesLooks ==
  ASSUME IInv, Sides, NEW c \in Call,
         FindMaster(c) \/ FindTaken(c) \/ FindOther(c) \/ FindBlocked(c)
  PROVE  Sides'
<1>1. index' = index /\ master' = master /\ raced' = raced /\ returned' = returned
  BY DEF FindMaster, FindTaken, FindOther, FindBlocked, Reads, registry, history, excuses
<1>3. CASE FindMaster(c)
  <2>1. CASE ServesOwner(job[c].xpub)
    BY <1>1, <1>3, <2>1, SidesCalm DEF FindMaster, Step
  <2>2. CASE ~ServesOwner(job[c].xpub)
    <3>1. Move(c, "reserve")
      BY <1>3, <2>2 DEF FindMaster
    <3>2. job'[c].at = "reserve" /\ job'[c].xpub = job[c].xpub
      BY <3>1, GoesOn DEF Step
    <3>3. Owners(job[c].xpub) = {}
      BY <2>2 DEF ServesOwner
    <3>4. Seen(c)'
      BY <1>1, <3>2, <3>3 DEF Seen, Owners
    <3> QED
      BY <1>1, <3>1, <3>4, SidesCalm DEF Step
  <2> QED
    BY <2>1, <2>2
<1>4. CASE FindTaken(c)
  <2>1. CASE index[job[c].xpub] # NoUser
    BY <1>1, <1>4, <2>1, SidesCalm DEF FindTaken, Step
  <2>2. CASE index[job[c].xpub] = NoUser
    <3>1. Move(c, "other")
      BY <1>4, <2>2 DEF FindTaken
    <3>2. job'[c].at = "other" /\ job'[c].xpub = job[c].xpub
      BY <3>1, GoesOn DEF Step
    <3>3. Seen(c)'
      BY <1>1, <2>2, <3>2 DEF Seen
    <3> QED
      BY <1>1, <3>1, <3>3, SidesCalm DEF Step
  <2> QED
    BY <2>1, <2>2
<1>5. CASE FindOther(c)
  <2>1. CASE ~OnlyHere(job[c].xpub, job[c].net)
    BY <1>1, <1>5, <2>1, SidesCalm DEF FindOther, Step
  <2>2. CASE OnlyHere(job[c].xpub, job[c].net)
    <3>1. Move(c, "set") /\ job[c].at = "other"
      BY <1>5, <2>2 DEF FindOther, At
    <3>2. job'[c].at = "set" /\ job'[c].xpub = job[c].xpub
      BY <3>1, GoesOn DEF Step
    <3>3. Seen(c)
      BY DEF Sides
    <3>4. Seen(c)'
      BY <1>1, <3>1, <3>2, <3>3 DEF Seen
    <3> QED
      BY <1>1, <3>1, <3>4, SidesCalm DEF Step
  <2> QED
    BY <2>1, <2>2
<1>6. CASE FindBlocked(c)
  BY <1>1, <1>6, SidesCalm DEF FindBlocked, Step
<1> QED
  BY <1>3, <1>4, <1>5, <1>6

LEMMA SidesReserve ==
  ASSUME IInv, Sides, NEW c \in Call, Reserve(c)
  PROVE  Sides'
<1>1. master' = master /\ returned' = returned
  BY DEF Reserve
<1>2. PICK x \in Xpub : x = job[c].xpub /\ job[c].at = "reserve"
  BY DEF Reserve, At, IInv, Inv, Shape, AttachStep
<1>3. CASE index[x] = NoUser /\ Exists(job[c].user)
  <2>1. Move(c, "add") /\ \A y \in Xpub \ {x} : index'[y] = index[y]
    BY <1>2, <1>3 DEF Reserve, IInv, TypeOK
  <2>2. raced \subseteq raced' /\ (OwnersBeside(x) # {} => x \in raced')
    BY <1>2, <1>3 DEF Reserve, Race
  <2>3. \A d \in Call \ {c} : job'[d] = job[d]
    BY <2>1, GoesOn DEF Step
  <2>4. job'[c].at = "add"
    BY <2>1, GoesOn DEF Step
  <2>5. x \notin raced => Owners(x) = {}
    BY <1>2 DEF Sides, Seen
  <2>6. Apart'
    BY <1>1, <2>1, <2>2, <2>5 DEF Sides, Apart, Owners
  <2>7. ASSUME NEW d \in Call PROVE Seen(d)'
    <3>1. CASE d = c
      BY <2>4, <3>1 DEF Seen
    <3>2. CASE d # c /\ job[d].at \in {"other", "set"}
      <4>1. job[d].xpub \in Xpub /\ Seen(d)
        BY <2>7, <3>2 DEF IInv, Inv, Shape, MasterStep, Sides
      <4>2. job[d].xpub = x => x \in raced'
        BY <2>2, <2>7, <3>2 DEF OwnersBeside, At
      <4> QED
        BY <1>1, <2>1, <2>2, <2>3, <2>7, <3>2, <4>1, <4>2 DEF Seen
    <3>3. CASE d # c /\ job[d].at \notin {"other", "set"}
      <4>1. Seen(d)
        BY <2>7 DEF Sides
      <4> QED
        BY <1>1, <2>2, <2>3, <2>7, <3>3, <4>1 DEF Seen, Owners
    <3> QED
      BY <3>1, <3>2, <3>3
  <2> QED
    BY <2>6, <2>7 DEF Sides
<1>4. CASE ~(index[x] = NoUser /\ Exists(job[c].user))
  BY <1>1, <1>2, <1>4, SidesCalm DEF Reserve, End, Step
<1> QED
  BY <1>3, <1>4

LEMMA SidesSet ==
  ASSUME IInv, Sides, NEW c \in Call, SetMaster(c)
  PROVE  Sides'
<1>1. index' = index /\ returned' = returned
  BY DEF SetMaster, registry
<1>2. PICK x \in Xpub : x = job[c].xpub /\ job[c].net \in Net /\ job[c].at = "set"
  BY DEF SetMaster, At, IInv, Inv, Shape, MasterStep
<1>3. CASE ~OnlyHere(x, job[c].net)
  BY <1>1, <1>2, <1>3, SidesCalm DEF SetMaster, End, Step
<1>4. CASE OnlyHere(x, job[c].net)
  <2>1. raced \subseteq raced' /\ (UsersBeside(x) # {} => x \in raced')
    BY <1>2, <1>4 DEF SetMaster, Race
  <2>2. \A y \in Xpub \ {x} : Owners(y)' \subseteq Owners(y)
    BY <1>2, <1>4, ArchiveAssumption DEF SetMaster, Owners, IInv, TypeOK
  <2>3. job'[c] = Idle /\ \A d \in Call \ {c} : job'[d] = job[d]
    BY Ended DEF SetMaster, IInv
  <2>4. x \notin raced \cup returned => index[x] = NoUser
    BY <1>2 DEF Sides, Seen
  <2>5. Apart'
    BY <1>1, <2>1, <2>2, <2>4 DEF Sides, Apart
  <2>6. ASSUME NEW d \in Call PROVE Seen(d)'
    <3>1. CASE d = c
      BY <2>3, <3>1 DEF Seen, Idle
    <3>2. CASE d # c /\ job[d].at = "reserve"
      <4>1. job[d].xpub \in Xpub /\ Seen(d)
        BY <2>6, <3>2 DEF IInv, Inv, Shape, AttachStep, Sides
      <4>2. job[d].xpub = x => x \in raced'
        BY <2>1, <2>6, <3>2 DEF UsersBeside, At
      <4> QED
        BY <2>1, <2>2, <2>3, <2>6, <3>2, <4>1, <4>2 DEF Seen
    <3>3. CASE d # c /\ job[d].at # "reserve"
      <4>1. Seen(d)
        BY <2>6 DEF Sides
      <4> QED
        BY <1>1, <2>1, <2>3, <2>6, <3>3, <4>1 DEF Seen
    <3> QED
      BY <3>1, <3>2, <3>3
  <2> QED
    BY <2>5, <2>6 DEF Sides
<1> QED
  BY <1>3, <1>4

LEMMA SidesInsert ==
  ASSUME IInv, Sides, NEW c \in Call, InsertRows(c)
  PROVE  Sides'
<1>1. master' = master /\ raced' = raced
  BY DEF InsertRows
<1>2. PICK b \in Snapshot : b = job[c].bundle
  BY DEF InsertRows, At, IInv, Inv, Shape, RestoreStep
<1>3. CASE End(c) /\ UNCHANGED <<registry, returned>>
  BY <1>1, <1>3, SidesCalm DEF End, Step, registry
<1>4. CASE ~(End(c) /\ UNCHANGED <<registry, returned>>)
  <2>1. /\ Move(c, "back")
        /\ \A x \in Xpub : x \notin b.xpubs => index'[x] = index[x]
        /\ returned' = returned \cup {x \in b.xpubs : ServesOwner(x) \/ OwnersBeside(x) # {}}
    BY <1>2, <1>4 DEF InsertRows
  <2>2. /\ \A d \in Call \ {c} : job'[d] = job[d]
        /\ job'[c].at = "back" /\ job'[c].op = job[c].op /\ job'[c].xpub = job[c].xpub
    BY <2>1, GoesOn DEF Step
  <2>4. Apart'
    <3> SUFFICES ASSUME NEW x \in Xpub, x \notin raced', x \notin returned'
                 PROVE  index'[x] = NoUser \/ Owners(x)' = {}
      BY DEF Apart
    <3>1. CASE x \in b.xpubs
      BY <1>1, <2>1, <3>1 DEF ServesOwner, Owners
    <3>2. CASE x \notin b.xpubs
      BY <1>1, <2>1, <3>2 DEF Sides, Apart, Owners
    <3> QED
      BY <3>1, <3>2
  <2>5. ASSUME NEW d \in Call PROVE Seen(d)'
    <3>1. CASE d = c
      BY <2>2, <3>1 DEF Seen
    <3>2. CASE d # c /\ job[d].at \in {"other", "set"}
      <4>1. job[d].xpub \in Xpub /\ Seen(d)
        BY <2>5, <3>2 DEF IInv, Inv, Shape, MasterStep, Sides
      <4>2. job[d].xpub \in b.xpubs => job[d].xpub \in returned'
        BY <2>1, <2>5, <3>2, <4>1 DEF OwnersBeside, At
      <4> QED
        BY <1>1, <2>1, <2>2, <2>5, <3>2, <4>1, <4>2 DEF Seen
    <3>3. CASE d # c /\ job[d].at \notin {"other", "set"}
      <4>1. Seen(d)
        BY <2>5 DEF Sides
      <4> QED
        BY <1>1, <2>2, <2>5, <3>3, <4>1 DEF Seen, Owners
    <3> QED
      BY <3>1, <3>2, <3>3
  <2> QED
    BY <2>4, <2>5 DEF Sides
<1> QED
  BY <1>3, <1>4

\* The steps that touch neither side, or free a key of the users.
LEMMA SidesFree ==
  ASSUME IInv, Sides, NEW c \in Call,
         \/ AddWallet(c) \/ AddFails(c) \/ Release(c) \/ DeleteRows(c) \/ MoveAway(c)
         \/ MoveBack(c) \/ Fail(c)
  PROVE  Sides'
<1>1. \E step \in Step : step \notin {"reserve", "other", "set"} /\ Move(c, step)
  BY DEF AddWallet, AddFails, Release, DeleteRows, MoveAway, MoveBack, Fail, End, Step
<1>2. \A d \in Call : Keeps(d)
  BY <1>1, MovedKeeps
<1>3. master' = master /\ raced' = raced /\ returned' = returned
  BY DEF AddWallet, AddFails, Release, DeleteRows, MoveAway, MoveBack, Fail, registry, history, excuses
<1>4. \A x \in Xpub : index'[x] = index[x] \/ index'[x] = NoUser
  BY DEF AddWallet, AddFails, Release, DeleteRows, MoveAway, MoveBack, Fail, registry, IInv, TypeOK
<1> QED
  BY <1>2, <1>3, <1>4, CalmStep, OwnersFrame

LEMMA SidesRead ==
  ASSUME IInv, Sides, NEW c \in Call,
         ReadRows(c) \/ ReadKeys(c) \/ \E f \in Folder : WriteSnapshot(c, f)
  PROVE  Sides'
<1>1. index' = index /\ master' = master /\ raced' = raced /\ returned' = returned
  BY DEF ReadRows, ReadKeys, WriteSnapshot, Reads, registry, history, excuses
<1>2. job[c] \in Job /\ job \in [Call -> Job]
  BY DEF IInv, TypeOK
<1>3. \A d \in Call : Keeps(d)
  <2>1. CASE ReadRows(c)
    <3>1. CASE Exists(job[c].user)
      BY <1>2, <2>1, <3>1 DEF ReadRows, Keeps, Job
    <3>2. CASE ~Exists(job[c].user)
      BY <2>1, <3>2, MovedKeeps DEF ReadRows, End, Step
    <3> QED
      BY <3>1, <3>2
  <2>2. CASE ReadKeys(c)
    BY <1>2, <2>2 DEF ReadKeys, Keeps, Job
  <2>3. ASSUME NEW f \in Folder, WriteSnapshot(c, f) PROVE \A d \in Call : Keeps(d)
    BY <1>2, <2>3 DEF WriteSnapshot, Keeps, Job
  <2> QED
    BY <2>1, <2>2, <2>3
<1> QED
  BY <1>1, <1>3, CalmStep, OwnersFrame

\* Steps of no call.
LEMMA SidesOthers ==
  ASSUME IInv, Sides, job' = job, index' = index, raced' = raced, returned' = returned,
         \A x \in Xpub : Owners(x)' \subseteq Owners(x)
  PROVE  Sides'
<1>1. \A d \in Call : Keeps(d)
  BY DEF Keeps
<1> QED
  BY <1>1, CalmStep

LEMMA SidesStep == IInv /\ Sides /\ [Next]_vars => Sides'
<1> SUFFICES ASSUME IInv, Sides, [Next]_vars PROVE Sides'
  OBVIOUS
<1>1. ASSUME NEW c \in Call, Begins(c) \/ Advance(c) \/ Fail(c) PROVE Sides'
  BY <1>1, SidesBegins, SidesLooks, SidesReserve, SidesSet, SidesInsert, SidesFree, SidesRead
  DEF Advance
<1>2. ASSUME NEW n \in Net, RemoveMaster(n) PROVE Sides'
  <2>1. \A x \in Xpub : Owners(x)' \subseteq Owners(x)
    BY <1>2, ArchiveAssumption DEF RemoveMaster, Owners, IInv, TypeOK
  <2> QED
    BY <1>2, <2>1, SidesOthers DEF RemoveMaster, registry, history, excuses
<1>3. ASSUME NEW u \in User, \/ \E a \in Address : NewUser(u, a)
                             \/ \E s \in Status : SetStatus(u, s)
      PROVE  Sides'
  BY <1>3, SidesOthers, OwnersFrame DEF NewUser, SetStatus, history, excuses
<1>4. CASE UNCHANGED vars
  BY <1>4, SidesOthers, OwnersFrame DEF vars, registry, history, excuses
<1> QED
  BY <1>1, <1>2, <1>3, <1>4 DEF Next

LEMMA SidesInit == Init => Sides
<1> SUFFICES ASSUME Init PROVE Sides
  OBVIOUS
<1>1. \A c \in Call : job[c].op = "none" /\ job[c].at = "idle"
  BY DEF Init, Idle
<1> QED
  BY <1>1 DEF Init, Sides, Apart, Seen

(***************************************************************************)
(* The theorem.                                                            *)
(***************************************************************************)
LEMMA AtMostOne ==
  ASSUME NEW S, \A a, b \in S : a = b
  PROVE  Cardinality(S) \in {0, 1} /\ (S = {} => Cardinality(S) = 0)
<1>1. CASE S = {}
  BY <1>1, FS_EmptySet
<1>2. CASE S # {}
  <2>1. PICK a : S = {a}
    BY <1>2
  <2> QED
    BY <2>1, FS_Singleton
<1> QED
  BY <1>1, <1>2

\* A key that was not torn is held by the user the index names, if by any.
LEMMA HeldIsReserved ==
  ASSUME IInv
  PROVE  \A x \in Xpub \ torn : \A u \in Holders(x) : index[x] = u /\ u \in User
  BY DEF Holders, IInv, Inv, UserInv, Whole, Reserved

LEMMA OneHolder ==
  ASSUME IInv
  PROVE  OneUserPerKey
<1> SUFFICES ASSUME NEW x \in Xpub \ torn
             PROVE  Cardinality(Holders(x)) <= 1
  BY DEF OneUserPerKey
<1>1. \A u, v \in Holders(x) : u = v
  BY HeldIsReserved
<1>2. Cardinality(Holders(x)) \in {0, 1}
  BY <1>1, AtMostOne
<1> QED
  BY <1>2

LEMMA OneSide ==
  ASSUME IInv, Sides
  PROVE  ChecksHold
<1> SUFFICES ASSUME NEW x \in Xpub, x \notin raced, x \notin torn, x \notin returned
             PROVE  Holders(x) = {} \/ Owners(x) = {}
  BY DEF ChecksHold
<1>1. \A u \in Holders(x) : index[x] = u /\ u \in User
  BY HeldIsReserved
<1> QED
  BY <1>1, ArchiveAssumption DEF Sides, Apart

\* Among the users one key is one wallet, whatever attaches, fails, is deleted and
\* restored, and whatever the owner does: only a reservation dropped under a stored
\* wallet (torn) lets another user in.
THEOREM KeysOfUsersAreApart == Spec => []OneUserPerKey
<1>1. IInv => OneUserPerKey
  BY OneHolder
<1> QED
  BY <1>1, InitInv, StepInv, PTL DEF Spec

\* The two facing checks of attach_wallet and attach_master_wallet, without the lock
\* ADR-0027 speaks of: a user and the owner get one key only where each had looked
\* before the other wrote, or by a restoration, or by a dropped reservation.
THEOREM ChecksHoldOtherwise == Spec => []ChecksHold
<1>1. IInv /\ Sides => ChecksHold
  BY OneSide
<1>2. Init => IInv /\ Sides
  BY InitInv, SidesInit
<1>3. IInv /\ Sides /\ [Next]_vars => (IInv /\ Sides)'
  BY StepInv, SidesStep
<1> QED
  BY <1>1, <1>2, <1>3, PTL DEF Spec

=================================================================================
