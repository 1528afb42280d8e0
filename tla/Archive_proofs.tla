----------------------------- MODULE Archive_proofs -----------------------------
(***************************************************************************)
(* Theorems about Archive, for every set of users, keys, archives and      *)
(* calls: types, and that no user is ever lost.                            *)
(***************************************************************************)
EXTENDS Archive, TLAPS

(***************************************************************************)
(* The inductive invariant.                                                *)
(***************************************************************************)
Kept(u) == \E f \in Folder : Complete(f, u)

\* Where a user's directory is decides where the user is whole: in place, in the
\* registry, or, when the rows are gone but the directory is not moved yet, in an
\* archive; in an archive, in that very archive.  Rows restored from an older
\* archive may lack wallets, but then the directory is not in place.
UserInv(u) ==
    /\ u \notin born => ~Exists(u) /\ place[u] = "none" /\ wallets[u] = {}
    /\ u \in born => place[u] # "none"
    /\ InPlace(u) => Whole(u) \/ (~Exists(u) /\ Kept(u))
    /\ \A f \in Folder : place[u] = f => Complete(f, u)

AttachStep == {"master", "reserve", "add", "release"}
MasterStep == {"taken", "other", "set"}
DeleteStep == {"find", "read", "keys", "write", "rows", "away"}
RestoreStep == {"insert", "back"}

\* What the step a call is at says about its locals.
Shape(j) ==
    /\ j.at \in AttachStep => j.op = "attach" /\ j.user \in User /\ j.xpub \in Xpub
    /\ j.at \in MasterStep => j.op = "master" /\ j.net \in Net /\ j.xpub \in Xpub
    /\ j.at \in DeleteStep => j.op = "delete" /\ j.user \in User
    /\ j.at \in RestoreStep => j.op = "restore" /\ j.user \in User
    /\ j.at \in {"keys", "write", "rows", "away"} \cup RestoreStep =>
           j.bundle \in Snapshot /\ j.bundle.user = j.user
    /\ j.at \in {"rows", "away"} \cup RestoreStep => j.folder \in Folder
    /\ Moves(j) => j.user \in User

\* What a deletion and a restoration have found and done so far.
Moving(c) ==
    LET j == job[c]  u == job[c].user  b == job[c].bundle IN
    /\ j.at \in {"keys", "write", "rows"} => Exists(u)
    /\ j.at \in {"keys", "write"} /\ InPlace(u) => b.emails # {}
    /\ j.at = "write" /\ InPlace(u) => wallets[u] \ torn \subseteq b.xpubs
    /\ j.at \in {"rows", "away"} /\ InPlace(u) => Complete(j.folder, u)
    /\ j.at \in {"rows", "away", "insert", "back"} => archives[j.folder] = b
    /\ j.at = "away" => ~Exists(u)
    /\ j.at \in RestoreStep => ~InPlace(u)
    /\ j.at = "back" => /\ Exists(u) /\ b.emails \subseteq AddressesOf(u)
                        /\ place[u] = j.folder => wallets[u] \ torn \subseteq Reserved(u)

\* A user is moved by one call at a time; calls that attach may run beside it.
Exclusive == \A c, d \in Call :
    c # d /\ job[c].user = job[d].user => ~(Moves(job[c]) /\ Moves(job[d]))

ArchivesInv == \A f \in Folder : archives[f] # NoRow => archives[f].user \in born

Inv ==
    /\ \A u \in User : UserInv(u)
    /\ \A c \in Call : Shape(job[c]) /\ Moving(c)
    /\ Exclusive /\ ArchivesInv

IInv == TypeOK /\ Inv

(***************************************************************************)
(* What spares a user, an archive, a call.                                 *)
(***************************************************************************)
Spared(u) ==
    /\ Exists(u)' <=> Exists(u)
    /\ AddressesOf(u) \subseteq AddressesOf(u)'
    /\ Reserved(u) \cap wallets[u] \subseteq Reserved(u)' \cup torn'
    /\ place'[u] = place[u]
    /\ wallets'[u] \ torn' \subseteq wallets[u] \ torn
    /\ u \in born' <=> u \in born
    /\ u \notin born => wallets'[u] = wallets[u]

Written == \A f \in Folder : archives[f] # NoRow => archives'[f] = archives[f]

LEMMA UserFrame ==
  ASSUME NEW u \in User, Spared(u), Written, UserInv(u)
  PROVE  UserInv(u)'
<1>1. \A f \in Folder : Complete(f, u) => Complete(f, u)'
  BY DEF Spared, Written, Complete
<1>2. Whole(u) => Whole(u)'
  BY DEF Spared, Whole
<1> QED
  BY <1>1, <1>2 DEF Spared, UserInv, Kept, InPlace

LEMMA JobFrame ==
  ASSUME NEW d \in Call, job'[d] = job[d], Shape(job[d]), Moving(d), Written,
         Moves(job[d]) => Spared(job[d].user), NoRow \notin Snapshot
  PROVE  Moving(d)'
<1>1. SUFFICES ASSUME job[d].at \in {"keys", "write", "rows", "away", "insert", "back"}
               PROVE  Moving(d)'
  BY DEF Moving, RestoreStep
<1>2. PICK u \in User : u = job[d].user /\ Spared(u)
  BY <1>1 DEF Shape, DeleteStep, RestoreStep, Moves
<1>3. job[d].at \in {"rows", "away", "insert", "back"} =>
          archives'[job[d].folder] = archives[job[d].folder]
  BY <1>1 DEF Shape, Moving, Written, DeleteStep, RestoreStep
<1>4. job[d].at \in {"rows", "away"} /\ Complete(job[d].folder, u) => Complete(job[d].folder, u)'
  BY <1>2, <1>3 DEF Complete, Spared
<1>5. InPlace(u)' <=> InPlace(u)
  BY <1>2 DEF Spared, InPlace
<1>6. wallets[u] \ torn \subseteq Reserved(u) => wallets'[u] \ torn' \subseteq Reserved(u)'
  BY <1>2 DEF Spared
<1> QED
  BY <1>1, <1>2, <1>3, <1>4, <1>5, <1>6 DEF Moving, Spared, RestoreStep

\* The calls beside the one that steps are left as they are.
Others(c) == \A d \in Call \ {c} : job'[d] = job[d]

\* Beside a call that moves a user, the calls about the same user attach.
LEMMA OthersFrame ==
  ASSUME IInv, NEW c \in Call, Moves(job[c]), Written, Others(c),
         \A v \in User \ {job[c].user} : Spared(v)
  PROVE  /\ \A v \in User \ {job[c].user} : UserInv(v)'
         /\ \A d \in Call \ {c} : Shape(job[d])' /\ Moving(d)'
<1>1. \A v \in User \ {job[c].user} : UserInv(v)'
  BY UserFrame DEF IInv, Inv
<1>2. ASSUME NEW d \in Call \ {c} PROVE Shape(job[d])' /\ Moving(d)'
  <2>1. job'[d] = job[d] /\ Shape(job[d]) /\ Moving(d)
    BY <1>2 DEF IInv, Inv, Others
  <2>2. Moves(job[d]) => job[d].user \in User \ {job[c].user}
    BY <1>2, <2>1 DEF IInv, Inv, Exclusive, Shape
  <2>3. Moving(d)'
    BY <2>1, <2>2, JobFrame, ArchiveAssumption
  <2> QED
    BY <2>1, <2>3 DEF Shape, Moves
<1> QED
  BY <1>1, <1>2

\* The locals of the calls: a step that goes on keeps what its call is about.
Goes(c) ==
    job'[c].op = job[c].op /\ job'[c].user = job[c].user /\ job'[c].xpub = job[c].xpub

LEMMA IdleShape ==
  ASSUME NEW c \in Call, job'[c] = Idle
  PROVE  Shape(job[c])' /\ Moving(c)'
  BY DEF Idle, Shape, Moving, Moves, AttachStep, MasterStep, DeleteStep, RestoreStep

LEMMA CallsFrame ==
  ASSUME IInv, NEW c \in Call, Others(c), job'[c] = Idle \/ Goes(c)
  PROVE  Exclusive'
<1>1. CASE job'[c] = Idle
  <2>1. ~Moves(job'[c])
    BY <1>1 DEF Idle, Moves
  <2> QED
    BY <2>1 DEF Exclusive, Others, IInv, Inv, Moves
<1>2. CASE Goes(c)
  BY <1>2 DEF Exclusive, Others, Goes, IInv, Inv, Moves
<1> QED
  BY <1>1, <1>2

LEMMA ArchivesFrame ==
  ASSUME IInv, archives' = archives, \A u \in born : u \in born'
  PROVE  ArchivesInv'
  BY DEF IInv, Inv, ArchivesInv

\* Where no user is touched and no archive written, only the call's own step counts.
LEMMA QuietStep ==
  ASSUME IInv, NEW c \in Call, archives' = archives, born' = born, \A u \in User : Spared(u),
         Others(c), job'[c] = Idle \/ Goes(c), Shape(job[c])' /\ Moving(c)'
  PROVE  Inv'
<1>1. Written
  BY DEF Written
<1>2. \A u \in User : UserInv(u)'
  BY <1>1, UserFrame DEF IInv, Inv
<1>3. ASSUME NEW d \in Call \ {c} PROVE Shape(job[d])' /\ Moving(d)'
  <2>1. job'[d] = job[d] /\ Shape(job[d]) /\ Moving(d)
    BY <1>3 DEF IInv, Inv, Others
  <2>2. Moves(job[d]) => Spared(job[d].user)
    BY <2>1 DEF Shape
  <2>3. Moving(d)'
    BY <1>1, <2>1, <2>2, JobFrame, ArchiveAssumption
  <2> QED
    BY <2>1, <2>3 DEF Shape, Moves
<1>4. Exclusive'
  BY CallsFrame
<1>5. ArchivesInv'
  BY ArchivesFrame
<1> QED
  BY <1>2, <1>3, <1>4, <1>5 DEF Inv

(***************************************************************************)
(* Types.                                                                  *)
(***************************************************************************)
LEMMA Moved ==
  ASSUME TypeOK, NEW c \in Call, NEW step \in Step, Move(c, step)
  PROVE  /\ job' \in [Call -> Job]
         /\ \A d \in Call \ {c} : job'[d] = job[d]
         /\ job'[c] = IF step = "idle" THEN Idle ELSE [job[c] EXCEPT !.at = step]
<1>1. Idle \in Job
  BY DEF Idle, Job, Op, Step
<1>2. [job[c] EXCEPT !.at = step] \in Job
  BY DEF TypeOK, Job
<1> QED
  BY <1>1, <1>2 DEF TypeOK, Move

LEMMA Ended ==
  ASSUME TypeOK, NEW c \in Call, End(c)
  PROVE  /\ job' \in [Call -> Job]
         /\ \A d \in Call \ {c} : job'[d] = job[d]
         /\ job'[c] = Idle
  BY Moved DEF End, Step

\* A call that begins is of its type, and no other call is touched.
LEMMA Begun ==
  ASSUME TypeOK, NEW c \in Call, NEW j \in Job, Begin(c, j), j.xpub \in Xpub \/ j.op \in {"delete", "restore"}
  PROVE  /\ TypeOK'
         /\ \A d \in Call \ {c} : job'[d] = job[d]
         /\ job'[c] = j
  BY DEF Begin, Reads, TypeOK, registry, files, history, excuses

LEMMA TypeBegins ==
  ASSUME IInv, NEW c \in Call, Begins(c)
  PROVE  TypeOK'
<1> USE DEF IInv, Inv
<1>1. ASSUME NEW u \in User, Delete(c, u) PROVE TypeOK'
  <2>1. [Idle EXCEPT !.op = "delete", !.at = "find", !.user = u] \in Job
    BY DEF Idle, Job, Op, Step
  <2> QED
    BY <1>1, <2>1, Begun DEF Delete, Idle
<1>2. ASSUME NEW u \in User, NEW x \in Xpub, Attach(c, u, x) PROVE TypeOK'
  <2>1. [Idle EXCEPT !.op = "attach", !.at = "master", !.user = u, !.xpub = x] \in Job
    BY DEF Idle, Job, Op, Step
  <2> QED
    BY <1>2, <2>1, Begun DEF Attach, Idle
<1>3. ASSUME NEW n \in Net, NEW x \in Xpub, AttachMaster(c, n, x) PROVE TypeOK'
  <2>1. [Idle EXCEPT !.op = "master", !.at = "taken", !.net = n, !.xpub = x] \in Job
    BY DEF Idle, Job, Op, Step
  <2> QED
    BY <1>3, <2>1, Begun DEF AttachMaster, Idle
<1>4. ASSUME NEW f \in Folder, Restore(c, f) PROVE TypeOK'
  <2>1. archives[f] \in Snapshot
    BY <1>4 DEF Restore, TypeOK
  <2>2. archives[f].user \in User
    BY <2>1 DEF Snapshot
  <2>3. [Idle EXCEPT !.op = "restore", !.at = "insert", !.user = archives[f].user,
                     !.folder = f, !.bundle = archives[f]] \in Job
    BY <2>1, <2>2 DEF Idle, Job, Op, Step
  <2> QED
    BY <1>4, <2>3, Begun DEF Restore, Idle
<1> QED
  BY <1>1, <1>2, <1>3, <1>4 DEF Begins

LEMMA TypeAttach ==
  ASSUME IInv, NEW c \in Call,
         FindMaster(c) \/ Reserve(c) \/ AddWallet(c) \/ AddFails(c) \/ Release(c)
  PROVE  TypeOK'
<1> USE DEF IInv, Inv
<1> DEFINE x == job[c].xpub
           u == job[c].user
<1>1. CASE FindMaster(c)
  BY <1>1, Moved DEF FindMaster, Reads, Step, TypeOK, registry, files, history, excuses
<1>2. CASE Reserve(c)
  <2>1. u \in User /\ x \in Xpub
    BY <1>2 DEF Reserve, At, Shape, AttachStep
  <2>2. job' \in [Call -> Job]
    BY <1>2, Moved, Ended DEF Reserve, Step
  <2>3. \A y \in Xpub : index'[y] \in User => users[index'[y]] # NoRow
    BY <1>2, <2>1, ArchiveAssumption DEF Reserve, TypeOK, Exists
  <2>4. raced' \subseteq Xpub
    BY <1>2, <2>1 DEF Reserve, Race, TypeOK
  <2> QED
    BY <1>2, <2>1, <2>2, <2>3, <2>4, ArchiveAssumption DEF Reserve, TypeOK, files
<1>3. CASE AddWallet(c)
  <2>1. u \in User /\ x \in Xpub
    BY <1>3 DEF AddWallet, At, Shape, AttachStep
  <2> QED
    BY <1>3, <2>1, Ended DEF AddWallet, Stored, TypeOK, registry, history, excuses
<1>4. CASE AddFails(c)
  <2>1. u \in User /\ x \in Xpub
    BY <1>4 DEF AddFails, At, Shape, AttachStep
  <2>2. wallets' \in [User -> SUBSET Xpub] /\ torn' \subseteq Xpub
    BY <1>4, <2>1 DEF AddFails, Stored, TypeOK
  <2>3. faults' \in 0 .. MaxFaults
    BY <1>4, ArchiveAssumption DEF AddFails, TypeOK
  <2> QED
    BY <1>4, <2>1, <2>2, <2>3, Moved DEF AddFails, TypeOK, Step, registry
<1>5. CASE Release(c)
  <2>1. x \in Xpub
    BY <1>5 DEF Release, At, Shape, AttachStep
  <2> QED
    BY <1>5, <2>1, Ended DEF Release, TypeOK, files, history, excuses
<1> QED
  BY <1>1, <1>2, <1>3, <1>4, <1>5

LEMMA TypeMaster ==
  ASSUME IInv, NEW c \in Call, FindTaken(c) \/ FindOther(c) \/ SetMaster(c)
  PROVE  TypeOK'
<1> USE DEF IInv, Inv
<1>1. CASE FindTaken(c)
  BY <1>1, Moved DEF FindTaken, Reads, Step, TypeOK, registry, files, history, excuses
<1>2. CASE FindOther(c)
  BY <1>2, Moved DEF FindOther, Reads, Step, TypeOK, registry, files, history, excuses
<1>3. CASE SetMaster(c)
  <2>1. job[c].xpub \in Xpub /\ job[c].net \in Net
    BY <1>3 DEF SetMaster, At, Shape, MasterStep
  <2>2. \A m, n \in Net : master'[m] = master'[n] /\ master'[m] # NoXpub => m = n
    BY <1>3, <2>1 DEF SetMaster, OnlyHere, Owners, TypeOK
  <2>3. raced' \subseteq Xpub
    BY <1>3, <2>1 DEF SetMaster, Race, TypeOK
  <2> QED
    BY <1>3, <2>1, <2>2, <2>3, Ended DEF SetMaster, TypeOK, registry, files
<1> QED
  BY <1>1, <1>2, <1>3

LEMMA TypeDelete ==
  ASSUME IInv, NEW c \in Call,
         \/ FindBlocked(c) \/ ReadRows(c) \/ ReadKeys(c) \/ DeleteRows(c) \/ MoveAway(c)
         \/ \E f \in Folder : WriteSnapshot(c, f)
  PROVE  TypeOK'
<1> USE DEF IInv, Inv
<1> DEFINE u == job[c].user
           b == job[c].bundle
<1>1. CASE FindBlocked(c)
  BY <1>1, Moved DEF FindBlocked, Reads, Step, TypeOK, registry, files, history, excuses
<1>2. CASE ReadRows(c)
  <2>1. u \in User
    BY <1>2 DEF ReadRows, At, Shape, DeleteStep
  <2>2. CASE Exists(u)
    <3>1. [user |-> u, status |-> users[u], emails |-> AddressesOf(u), xpubs |-> {}] \in Snapshot
      BY <2>1, <2>2, ArchiveAssumption DEF Snapshot, Exists, AddressesOf, TypeOK
    <3>2. job[c] \in Job /\ "keys" \in Step
      BY DEF TypeOK, Step
    <3>3. job' \in [Call -> Job]
      <4> DEFINE read == [user |-> u, status |-> users[u], emails |-> AddressesOf(u), xpubs |-> {}]
                 j == [job[c] EXCEPT !.at = "keys", !.bundle = read]
      <4> HIDE DEF read
      <4>1. read \in Snapshot
        BY <3>1 DEF read
      <4>2. j \in Job
        BY <3>2, <4>1 DEF Job
      <4>3. job' = [job EXCEPT ![c] = j]
        BY <1>2, <2>2 DEF ReadRows, TypeOK, read
      <4> HIDE DEF j
      <4> QED
        BY <4>2, <4>3 DEF TypeOK
    <3> QED
      BY <1>2, <3>3 DEF ReadRows, Reads, TypeOK, registry, files, history, excuses
  <2> QED
    BY <1>2, <2>2, Ended DEF ReadRows, Reads, TypeOK, registry, files, history, excuses
<1>3. CASE ReadKeys(c)
  <2>1. b \in Snapshot /\ Reserved(u) \subseteq Xpub
    BY <1>3 DEF ReadKeys, At, Shape, Reserved
  <2>2. [b EXCEPT !.xpubs = Reserved(u)] \in Snapshot
    BY <2>1 DEF Snapshot
  <2>3. job[c] \in Job /\ "write" \in Step
    BY DEF TypeOK, Step
  <2>4. job' \in [Call -> Job]
    <3> DEFINE read == [b EXCEPT !.xpubs = Reserved(u)]
               j == [job[c] EXCEPT !.at = "write", !.bundle = read]
    <3>1. job' = [job EXCEPT ![c] = j]
      BY <1>3 DEF ReadKeys, KeysOf, TypeOK
    <3>2. read \in Snapshot
      BY <2>2
    <3> HIDE DEF read
    <3>3. j \in Job
      BY <2>3, <3>2 DEF Job
    <3> HIDE DEF j
    <3> QED
      BY <3>1, <3>3 DEF TypeOK
  <2> QED
    BY <1>3, <2>4 DEF ReadKeys, Reads, TypeOK, registry, files, history, excuses
<1>4. CASE DeleteRows(c)
  <2>1. u \in User
    BY <1>4 DEF DeleteRows, At, Shape, DeleteStep
  <2>2. \A x \in Xpub : index'[x] # NoUser => users'[index'[x]] # NoRow
    BY <1>4, <2>1 DEF DeleteRows, TypeOK
  <2>3. \A a \in Address : emails'[a] # NoUser => users'[emails'[a]] # NoRow
    BY <1>4, <2>1 DEF DeleteRows, TypeOK
  <2> QED
    BY <1>4, <2>1, <2>2, <2>3, Moved DEF DeleteRows, TypeOK, Step, files, history, excuses
<1>5. CASE MoveAway(c)
  <2>1. job[c].folder \in Folder
    BY <1>5 DEF MoveAway, At, Shape
  <2> QED
    BY <1>5, <2>1, Ended DEF MoveAway, TypeOK, registry, history, excuses
<1>6. ASSUME NEW f \in Folder, WriteSnapshot(c, f) PROVE TypeOK'
  <2>1. b \in Snapshot
    BY <1>6 DEF WriteSnapshot, At, Shape
  <2>2. job[c] \in Job /\ "rows" \in Step
    BY DEF TypeOK, Step
  <2>3. job' \in [Call -> Job]
    <3> DEFINE j == [job[c] EXCEPT !.at = "rows", !.folder = f]
    <3>1. job' = [job EXCEPT ![c] = j]
      BY <1>6 DEF WriteSnapshot, TypeOK
    <3>2. j \in Job
      BY <2>2 DEF Job
    <3> HIDE DEF j
    <3> QED
      BY <3>1, <3>2 DEF TypeOK
  <2> QED
    BY <1>6, <2>1, <2>3 DEF WriteSnapshot, TypeOK, registry, history, excuses
<1> QED
  BY <1>1, <1>2, <1>3, <1>4, <1>5, <1>6

LEMMA TypeRestore ==
  ASSUME IInv, NEW c \in Call, InsertRows(c) \/ MoveBack(c) \/ Fail(c)
  PROVE  TypeOK'
<1> USE DEF IInv, Inv
<1> DEFINE b == job[c].bundle
<1>1. CASE InsertRows(c)
  <2>1. b \in Snapshot
    BY <1>1 DEF InsertRows, At, Shape, RestoreStep
  <2>2. b.user \in User /\ b.status \in Status /\ b.emails \subseteq Address /\ b.xpubs \subseteq Xpub
    BY <2>1 DEF Snapshot
  <2>3. CASE End(c) /\ UNCHANGED <<registry, returned>>
    BY <1>1, <2>3, Ended DEF InsertRows, TypeOK, registry, files
  <2>4. CASE ~(End(c) /\ UNCHANGED <<registry, returned>>)
    <3>1. users' \in [User -> Status \cup {NoRow}] /\ users'[b.user] # NoRow
      BY <1>1, <2>2, <2>4, ArchiveAssumption DEF InsertRows, TypeOK
    <3>2. \A v \in User : users[v] # NoRow => users'[v] # NoRow
      BY <1>1, <2>2, <2>4, <3>1 DEF InsertRows, TypeOK
    <3>3. /\ emails' \in [Address -> User \cup {NoUser}]
          /\ \A a \in Address : emails'[a] # NoUser => users'[emails'[a]] # NoRow
      BY <1>1, <2>2, <2>4, <3>1, <3>2 DEF InsertRows, TypeOK
    <3>4. /\ index' \in [Xpub -> User \cup {NoUser}]
          /\ \A x \in Xpub : index'[x] # NoUser => users'[index'[x]] # NoRow
      BY <1>1, <2>2, <2>4, <3>1, <3>2 DEF InsertRows, TypeOK
    <3>5. returned' \subseteq Xpub
      BY <1>1, <2>2, <2>4 DEF InsertRows, TypeOK
    <3>6. job' \in [Call -> Job]
      BY <1>1, <2>4, Moved DEF InsertRows, Step
    <3> QED
      BY <1>1, <3>1, <3>3, <3>4, <3>5, <3>6 DEF InsertRows, TypeOK, files
  <2> QED
    BY <2>3, <2>4
<1>2. CASE MoveBack(c)
  BY <1>2, Ended DEF MoveBack, TypeOK, registry, history, excuses
<1>3. CASE Fail(c)
  <2>1. faults' \in 0 .. MaxFaults
    BY <1>3, ArchiveAssumption DEF Fail, TypeOK
  <2> QED
    BY <1>3, <2>1, Ended DEF Fail, TypeOK, registry, files, history, excuses
<1> QED
  BY <1>1, <1>2, <1>3

LEMMA TypeOthers ==
  ASSUME IInv,
         \/ \E n \in Net : RemoveMaster(n)
         \/ \E u \in User, a \in Address : NewUser(u, a)
         \/ \E u \in User, s \in Status : SetStatus(u, s)
  PROVE  TypeOK'
<1> USE DEF IInv, Inv
<1>1. ASSUME NEW n \in Net, RemoveMaster(n) PROVE TypeOK'
  BY <1>1 DEF RemoveMaster, TypeOK, registry, files, history, excuses
<1>2. ASSUME NEW u \in User, NEW a \in Address, NewUser(u, a) PROVE TypeOK'
  <2>1. \A x \in Xpub : index'[x] # NoUser => users'[index'[x]] # NoRow
    BY <1>2, ArchiveAssumption DEF NewUser, TypeOK, Status
  <2>2. \A e \in Address : emails'[e] # NoUser => users'[emails'[e]] # NoRow
    BY <1>2, ArchiveAssumption DEF NewUser, TypeOK, Status
  <2> QED
    BY <1>2, <2>1, <2>2 DEF NewUser, TypeOK, Status, excuses
<1>3. ASSUME NEW u \in User, NEW s \in Status, SetStatus(u, s) PROVE TypeOK'
  BY <1>3, ArchiveAssumption DEF SetStatus, TypeOK, Exists, files, history, excuses
<1> QED
  BY <1>1, <1>2, <1>3

(***************************************************************************)
(* Every step keeps the invariant.                                         *)
(***************************************************************************)
LEMMA Sparing ==
  ASSUME users' = users, emails' = emails, index' = index, place' = place, wallets' = wallets,
         torn' = torn, born' = born
  PROVE  \A u \in User : Spared(u)
  BY DEF Spared, Exists, AddressesOf, Reserved

LEMMA BeginStep ==
  ASSUME IInv, NEW c \in Call, NEW j \in Job, Begin(c, j), j.op # "none",
         j.xpub \in Xpub \/ j.op \in {"delete", "restore"},
         Shape(j), Moving(c)'
  PROVE  Inv'
<1>1. Others(c) /\ job'[c] = j
  BY Begun DEF IInv, Others
<1>2. \A u \in User : Spared(u)
  BY Sparing DEF Begin, Reads, registry, files, history, excuses
<1>3. archives' = archives /\ born' = born /\ Written
  BY DEF Begin, Reads, files, history, excuses, Written
<1>4. \A u \in User : UserInv(u)'
  BY <1>2, <1>3, UserFrame DEF IInv, Inv
<1>5. ASSUME NEW d \in Call \ {c} PROVE Shape(job[d])' /\ Moving(d)'
  <2>1. job'[d] = job[d] /\ Shape(job[d]) /\ Moving(d)
    BY <1>1, <1>5 DEF IInv, Inv, Others
  <2>2. Moves(job[d]) => Spared(job[d].user)
    BY <1>2, <2>1 DEF Shape
  <2>3. Moving(d)'
    BY <1>3, <2>1, <2>2, JobFrame, ArchiveAssumption
  <2> QED
    BY <2>1, <2>3 DEF Shape, Moves
<1>6. Shape(job[c])'
  BY <1>1 DEF Shape, Moves
<1>7. \A d \in Call \ {c} : job[d].user = j.user => ~(Moves(j) /\ Moves(job[d]))
  BY DEF Begin
<1>8. Exclusive'
  BY <1>1, <1>7 DEF Exclusive, Others, IInv, Inv, Moves
<1>9. ArchivesInv'
  BY <1>3, ArchivesFrame
<1> QED
  BY <1>4, <1>5, <1>6, <1>8, <1>9 DEF Inv

LEMMA BeginsInv ==
  ASSUME IInv, NEW c \in Call, Begins(c)
  PROVE  Inv'
<1>1. ASSUME NEW u \in User, Delete(c, u) PROVE Inv'
  <2> DEFINE j == [Idle EXCEPT !.op = "delete", !.at = "find", !.user = u]
  <2>1. /\ j.op = "delete" /\ j.at = "find" /\ j.user = u /\ j \in Job
    BY DEF Idle, Job, Op, Step
  <2>2. Begin(c, j)
    BY <1>1 DEF Delete
  <2> HIDE DEF j
  <2>3. Shape(j)
    BY <2>1 DEF Shape, AttachStep, MasterStep, DeleteStep, RestoreStep, Moves
  <2>4. job'[c] = j
    BY <2>1, <2>2, Begun DEF IInv
  <2>5. Moving(c)'
    BY <2>1, <2>4 DEF Moving, RestoreStep
  <2> QED
    BY <2>1, <2>2, <2>3, <2>5, BeginStep
<1>2. ASSUME NEW u \in User, NEW x \in Xpub, Attach(c, u, x) PROVE Inv'
  <2> DEFINE j == [Idle EXCEPT !.op = "attach", !.at = "master", !.user = u, !.xpub = x]
  <2>1. /\ j.op = "attach" /\ j.at = "master" /\ j.user = u /\ j.xpub = x /\ j \in Job
    BY DEF Idle, Job, Op, Step
  <2>2. Begin(c, j)
    BY <1>2 DEF Attach
  <2> HIDE DEF j
  <2>3. Shape(j)
    BY <2>1 DEF Shape, AttachStep, MasterStep, DeleteStep, RestoreStep, Moves
  <2>4. job'[c] = j
    BY <2>1, <2>2, Begun DEF IInv
  <2>5. Moving(c)'
    BY <2>1, <2>4 DEF Moving, RestoreStep
  <2> QED
    BY <2>1, <2>2, <2>3, <2>5, BeginStep
<1>3. ASSUME NEW n \in Net, NEW x \in Xpub, AttachMaster(c, n, x) PROVE Inv'
  <2> DEFINE j == [Idle EXCEPT !.op = "master", !.at = "taken", !.net = n, !.xpub = x]
  <2>1. /\ j.op = "master" /\ j.at = "taken" /\ j.net = n /\ j.xpub = x /\ j \in Job
    BY DEF Idle, Job, Op, Step
  <2>2. Begin(c, j)
    BY <1>3 DEF AttachMaster
  <2> HIDE DEF j
  <2>3. Shape(j)
    BY <2>1 DEF Shape, AttachStep, MasterStep, DeleteStep, RestoreStep, Moves
  <2>4. job'[c] = j
    BY <2>1, <2>2, Begun DEF IInv
  <2>5. Moving(c)'
    BY <2>1, <2>4 DEF Moving, RestoreStep
  <2> QED
    BY <2>1, <2>2, <2>3, <2>5, BeginStep
<1>4. ASSUME NEW f \in Folder, Restore(c, f) PROVE Inv'
  <2> DEFINE j == [Idle EXCEPT !.op = "restore", !.at = "insert", !.user = archives[f].user,
                               !.folder = f, !.bundle = archives[f]]
  <2>1. archives[f] \in Snapshot /\ archives[f].user \in User
    BY <1>4 DEF Restore, IInv, TypeOK, Snapshot
  <2>2. /\ j.op = "restore" /\ j.at = "insert" /\ j.user = archives[f].user
        /\ j.folder = f /\ j.bundle = archives[f]
    BY DEF Idle
  <2>3. j \in Job
    BY <2>1 DEF Idle, Job, Op, Step
  <2>4. Begin(c, j)
    BY <1>4 DEF Restore
  <2> HIDE DEF j
  <2>5. Shape(j)
    BY <2>1, <2>2 DEF Shape, AttachStep, MasterStep, DeleteStep, RestoreStep, Moves
  <2>6. job'[c] = j
    BY <2>2, <2>3, <2>4, Begun DEF IInv
  <2>7. archives' = archives /\ place' = place /\ ~InPlace(archives[f].user)
    BY <1>4, <2>4 DEF Restore, Begin, Reads, files
  <2>8. Moving(c)'
    BY <2>2, <2>6, <2>7 DEF Moving, RestoreStep, InPlace
  <2> QED
    BY <2>2, <2>3, <2>4, <2>5, <2>8, BeginStep
<1> QED
  BY <1>1, <1>2, <1>3, <1>4 DEF Begins

\* A call that reads and then ends or goes on, with no condition at its next step.
LEMMA ReadStep ==
  ASSUME IInv, NEW c \in Call, Reads(c), NEW step \in {"idle", "reserve", "other", "set", "read"},
         Move(c, step),
         step = "reserve" => job[c].at \in AttachStep,
         step \in {"other", "set"} => job[c].at \in MasterStep,
         step = "read" => job[c].at \in DeleteStep
  PROVE  Inv'
<1>1. Others(c) /\ job'[c] = IF step = "idle" THEN Idle ELSE [job[c] EXCEPT !.at = step]
  BY Moved DEF IInv, Others, Step
<1>2. archives' = archives /\ born' = born /\ \A u \in User : Spared(u)
  BY Sparing DEF Reads, registry, files, history, excuses
<1>3. CASE step = "idle"
  BY <1>1, <1>2, <1>3, QuietStep, IdleShape
<1>4. CASE step # "idle"
  <2>1. job[c] \in Job
    BY DEF IInv, TypeOK
  <2>2. /\ job'[c].at = step /\ job'[c].op = job[c].op /\ job'[c].user = job[c].user
        /\ job'[c].xpub = job[c].xpub /\ job'[c].net = job[c].net
    BY <1>1, <1>4, <2>1 DEF Job
  <2>3. Goes(c)
    BY <1>4, <2>2 DEF Goes
  <2>4. Shape(job[c])'
    BY <1>4, <2>2 DEF IInv, Inv, Shape, AttachStep, MasterStep, DeleteStep, RestoreStep, Moves
  <2>5. Moving(c)'
    BY <1>4, <2>2 DEF Moving, RestoreStep
  <2> QED
    BY <1>1, <1>2, <2>3, <2>4, <2>5, QuietStep
<1> QED
  BY <1>3, <1>4

LEMMA ReadsInv ==
  ASSUME IInv, NEW c \in Call, FindMaster(c) \/ FindTaken(c) \/ FindOther(c) \/ FindBlocked(c)
  PROVE  Inv'
<1>1. CASE FindMaster(c)
  BY <1>1, ReadStep DEF FindMaster, At, AttachStep
<1>2. CASE FindTaken(c)
  BY <1>2, ReadStep DEF FindTaken, At, MasterStep
<1>3. CASE FindOther(c)
  BY <1>3, ReadStep DEF FindOther, At, MasterStep
<1>4. CASE FindBlocked(c)
  BY <1>4, ReadStep DEF FindBlocked, At, DeleteStep
<1> QED
  BY <1>1, <1>2, <1>3, <1>4

\* A call that ends and changes nothing a user stands on.
LEMMA EndStep ==
  ASSUME IInv, NEW c \in Call, End(c), archives' = archives, born' = born,
         \A u \in User : Spared(u)
  PROVE  Inv'
  BY Ended, QuietStep, IdleShape DEF IInv, Others

LEMMA SetMasterInv ==
  ASSUME IInv, NEW c \in Call, SetMaster(c)
  PROVE  Inv'
  BY EndStep, Sparing DEF SetMaster, registry, files, history, excuses

LEMMA FailInv ==
  ASSUME IInv, NEW c \in Call, Fail(c)
  PROVE  Inv'
  BY EndStep, Sparing DEF Fail, registry, files, history, excuses

(***************************************************************************)
(* attach_wallet                                                           *)
(***************************************************************************)
LEMMA ReserveInv ==
  ASSUME IInv, NEW c \in Call, Reserve(c)
  PROVE  Inv'
<1> DEFINE u == job[c].user
           x == job[c].xpub
<1>1. u \in User /\ x \in Xpub /\ job[c] \in Job
  BY DEF Reserve, At, IInv, Inv, TypeOK, Shape, AttachStep
<1>2. archives' = archives /\ born' = born /\ wallets' = wallets /\ place' = place /\ torn' = torn
  BY DEF Reserve, files, history, excuses
<1>3. CASE index[x] = NoUser /\ Exists(u)
  <2>1. index' = [index EXCEPT ![x] = u] /\ Move(c, "add")
    BY <1>3 DEF Reserve
  <2>2. Others(c) /\ job'[c] = [job[c] EXCEPT !.at = "add"]
    BY <2>1, Moved DEF IInv, Others, Step
  <2>3. \A v \in User : Spared(v)
    BY <1>1, <1>2, <1>3, <2>1, ArchiveAssumption
    DEF Reserve, IInv, TypeOK, Spared, Exists, AddressesOf, Reserved
  <2>4. /\ job'[c].at = "add" /\ job'[c].op = job[c].op /\ job'[c].user = u /\ job'[c].xpub = x
    BY <1>1, <2>2 DEF Job
  <2>5. Goes(c)
    BY <2>4 DEF Goes
  <2>6. Shape(job[c])'
    BY <1>1, <2>4 DEF Reserve, At, IInv, Inv, Shape, AttachStep, MasterStep, DeleteStep, RestoreStep, Moves
  <2>7. Moving(c)'
    BY <2>4 DEF Moving, RestoreStep
  <2> QED
    BY <1>2, <2>2, <2>3, <2>5, <2>6, <2>7, QuietStep
<1>4. CASE ~(index[x] = NoUser /\ Exists(u))
  BY <1>2, <1>4, EndStep, Sparing DEF Reserve
<1> QED
  BY <1>3, <1>4

\* The wallet is stored with its reservation, or remembered as torn.
LEMMA AddWalletInv ==
  ASSUME IInv, NEW c \in Call, AddWallet(c)
  PROVE  Inv'
<1>1. PICK u \in User, x \in Xpub : u = job[c].user /\ x = job[c].xpub
  BY DEF AddWallet, At, IInv, Inv, Shape, AttachStep
<1>2. /\ End(c) /\ InPlace(u) /\ wallets' = [wallets EXCEPT ![u] = @ \cup {x}]
      /\ users' = users /\ emails' = emails /\ index' = index
      /\ archives' = archives /\ place' = place /\ born' = born
      /\ torn' = IF Outrun(u, x) THEN torn \cup {x} ELSE torn
  BY <1>1 DEF AddWallet, Stored, registry
<1>3. wallets'[u] = wallets[u] \cup {x} /\ \A v \in User \ {u} : wallets'[v] = wallets[v]
  BY <1>1, <1>2 DEF IInv, TypeOK
<1>4. u \in born
  BY <1>2 DEF IInv, Inv, UserInv, InPlace
<1>5. \A v \in User \ {u} : Spared(v)
  BY <1>2, <1>3 DEF Spared, Exists, AddressesOf, Reserved
<1>6. CASE Outrun(u, x)
  <2>1. Spared(u)
    BY <1>2, <1>3, <1>4, <1>6 DEF Spared, Exists, AddressesOf, Reserved
  <2> QED
    BY <1>2, <1>5, <2>1, EndStep
<1>7. CASE ~Outrun(u, x)
  <2>1. torn' = torn /\ index[x] = u
    BY <1>2, <1>7 DEF Outrun
  <2>2. Exists(u)
    BY <1>1, <2>1, ArchiveAssumption DEF IInv, TypeOK, Exists
  <2>3. Whole(u)'
    <3>1. Whole(u)
      BY <1>2, <2>2 DEF IInv, Inv, UserInv
    <3> QED
      BY <1>1, <1>2, <1>3, <2>1, <3>1 DEF Whole, Exists, AddressesOf, Reserved
  <2>4. UserInv(u)'
    BY <1>2, <1>4, <2>3, ArchiveAssumption DEF UserInv, InPlace
  <2>5. Written /\ ArchivesInv'
    BY <1>2, ArchivesFrame DEF Written
  <2>6. \A v \in User : UserInv(v)'
    BY <1>5, <2>4, <2>5, UserFrame DEF IInv, Inv
  <2>7. Others(c) /\ job'[c] = Idle
    BY <1>2, Ended DEF IInv, Others
  <2>8. ASSUME NEW d \in Call \ {c} PROVE Shape(job[d])' /\ Moving(d)'
    <3>1. job'[d] = job[d] /\ Shape(job[d]) /\ Moving(d)
      BY <2>7, <2>8 DEF Others, IInv, Inv
    <3>2. CASE job[d].user # u
      <4>1. Moves(job[d]) => Spared(job[d].user)
        BY <1>5, <3>1, <3>2 DEF Shape
      <4>2. Moving(d)'
        BY <2>5, <3>1, <4>1, JobFrame, ArchiveAssumption
      <4> QED
        BY <3>1, <4>2 DEF Shape, Moves
    <3>3. CASE job[d].user = u
      <4>1. job[d].at \notin RestoreStep \cup {"away"}
        BY <1>2, <2>2, <3>1, <3>3 DEF Moving
      <4>2. job[d].at \in {"write", "rows"} =>
                job[d].op = "delete" /\ x \in job[d].bundle.xpubs
        BY <1>7, <3>1, <3>3 DEF Outrun, Shape, DeleteStep
      <4>3. Exists(u)' /\ (InPlace(u)' <=> InPlace(u))
        BY <1>2, <2>2 DEF Exists, InPlace
      <4>4. job[d].at = "rows" => Complete(job[d].folder, u)'
        <5>1. job[d].at = "rows" => Complete(job[d].folder, u) /\ archives[job[d].folder] = job[d].bundle
          BY <1>2, <3>1, <3>3 DEF Moving
        <5> QED
          BY <1>2, <1>3, <2>1, <3>1, <4>2, <5>1 DEF Complete
      <4>5. job[d].at = "write" => wallets'[u] \ torn' \subseteq job[d].bundle.xpubs
        BY <1>2, <1>3, <2>1, <3>1, <3>3, <4>2 DEF Moving
      <4>6. Moving(d)'
        BY <1>2, <3>1, <3>3, <4>1, <4>3, <4>4, <4>5 DEF Moving, RestoreStep
      <4> QED
        BY <3>1, <4>6 DEF Shape, Moves
    <3> QED
      BY <3>2, <3>3
  <2>9. Exclusive'
    BY <2>7, CallsFrame
  <2> QED
    BY <2>5, <2>6, <2>7, <2>8, <2>9, IdleShape DEF Inv
<1> QED
  BY <1>6, <1>7

\* Whoever has the wallet of the key that is dropped, the key is torn.
LEMMA ReleaseInv ==
  ASSUME IInv, NEW c \in Call, Release(c)
  PROVE  Inv'
<1>1. PICK x \in Xpub : x = job[c].xpub
  BY DEF Release, At, IInv, Inv, Shape, AttachStep
<1>2. /\ End(c) /\ users' = users /\ emails' = emails /\ wallets' = wallets
      /\ archives' = archives /\ place' = place /\ born' = born
      /\ torn \subseteq torn'
      /\ \A v \in User : x \in wallets[v] => x \in torn'
  BY <1>1 DEF Release, files
<1>3. \A y \in Xpub \ {x} : index'[y] = index[y]
  BY <1>1 DEF Release, IInv, TypeOK
<1>4. \A v \in User : Spared(v)
  BY <1>2, <1>3 DEF Spared, Exists, AddressesOf, Reserved
<1> QED
  BY <1>2, <1>4, EndStep

\* Nothing was stored, or what was stored is remembered as torn.
LEMMA AddFailsInv ==
  ASSUME IInv, NEW c \in Call, AddFails(c)
  PROVE  Inv'
<1> DEFINE u == job[c].user
           x == job[c].xpub
<1>1. job[c].at = "add" /\ u \in User /\ x \in Xpub /\ job[c] \in Job
  BY DEF AddFails, At, IInv, Inv, TypeOK, Shape, AttachStep
<1>2. InPlace(u) => u \in born
  BY <1>1 DEF IInv, Inv, UserInv, InPlace
<1>3. /\ users' = users /\ emails' = emails /\ index' = index
      /\ archives' = archives /\ place' = place /\ born' = born
  BY DEF AddFails, registry
<1>4. Others(c) /\ job'[c] = [job[c] EXCEPT !.at = "release"]
  BY Moved DEF AddFails, IInv, Others, Step
<1>5. \A v \in User : /\ wallets'[v] \ torn' \subseteq wallets[v] \ torn
                      /\ wallets'[v] # wallets[v] => v \in born
  BY <1>1, <1>2 DEF AddFails, Stored, IInv, TypeOK
<1>6. \A v \in User : Spared(v)
  BY <1>3, <1>5 DEF Spared, Exists, AddressesOf, Reserved
<1>7. job'[c].at = "release" /\ job'[c].op = job[c].op /\ job'[c].user = u /\ job'[c].xpub = x
  BY <1>1, <1>4 DEF Job
<1>8. Goes(c)
  BY <1>7 DEF Goes
<1>9. Shape(job[c])'
  BY <1>1, <1>7 DEF IInv, Inv, Shape, AttachStep, MasterStep, DeleteStep, RestoreStep, Moves
<1>10. Moving(c)'
  BY <1>7 DEF Moving, RestoreStep
<1> QED
  BY <1>3, <1>4, <1>6, <1>8, <1>9, <1>10, QuietStep

(***************************************************************************)
(* delete_user                                                             *)
(***************************************************************************)
\* A call that moves a user changes no other user, no other call and no archive but
\* one it writes; what is left to show is about its own user and itself.
LEMMA MoveStep ==
  ASSUME IInv, NEW c \in Call, NEW u \in User, u = job[c].user, Moves(job[c]),
         Written, Others(c), \A v \in User \ {u} : Spared(v),
         UserInv(u)',
         \/ job'[c] = Idle
         \/ Goes(c) /\ Shape(job[c])' /\ Moving(c)',
         ArchivesInv'
  PROVE  Inv'
<1>1. /\ \A v \in User \ {u} : UserInv(v)'
      /\ \A d \in Call \ {c} : Shape(job[d])' /\ Moving(d)'
  BY OthersFrame
<1>2. Shape(job[c])' /\ Moving(c)'
  BY IdleShape
<1>3. Exclusive'
  BY CallsFrame
<1> QED
  BY <1>1, <1>2, <1>3 DEF Inv

\* What a deletion at a step knows.
LEMMA Deleting ==
  ASSUME IInv, NEW c \in Call, job[c].at \in DeleteStep \ {"find"}
  PROVE  /\ job[c] \in Job /\ job[c].user \in User /\ Moves(job[c])
         /\ job[c].at # "read" => job[c].bundle \in Snapshot /\ job[c].bundle.user = job[c].user
         /\ job[c].at \in {"keys", "write", "rows"} => Exists(job[c].user) /\ job[c].user \in born
  BY DEF IInv, Inv, TypeOK, Shape, Moving, UserInv, DeleteStep, Moves

LEMMA ReadRowsInv ==
  ASSUME IInv, NEW c \in Call, ReadRows(c)
  PROVE  Inv'
<1>1. PICK u \in User : u = job[c].user /\ Moves(job[c])
  BY Deleting DEF ReadRows, At, DeleteStep
<1>2. archives' = archives /\ born' = born /\ \A v \in User : Spared(v)
  BY Sparing DEF ReadRows, Reads, registry, files, history, excuses
<1>3. CASE ~Exists(u)
  BY <1>1, <1>2, <1>3, EndStep DEF ReadRows
<1>4. CASE Exists(u)
  <2> DEFINE b == [user |-> u, status |-> users[u], emails |-> AddressesOf(u), xpubs |-> {}]
  <2>1. b.user = u /\ b.emails = AddressesOf(u) /\ b \in Snapshot
    BY <1>4, ArchiveAssumption DEF IInv, TypeOK, Snapshot, Exists, AddressesOf
  <2>2. job' = [job EXCEPT ![c].at = "keys", ![c].bundle = b]
    BY <1>1, <1>4 DEF ReadRows
  <2>3. PICK s \in Snapshot : s = b
    BY <2>1
  <2> HIDE DEF b
  <2>4. job[c] \in Job
    BY DEF IInv, TypeOK
  <2>5. /\ Others(c) /\ job'[c].at = "keys" /\ job'[c].bundle = s /\ job'[c].op = job[c].op
        /\ job'[c].user = u /\ job'[c].xpub = job[c].xpub
    BY <1>1, <2>2, <2>3, <2>4 DEF IInv, TypeOK, Job, Others
  <2>6. Goes(c)
    BY <1>1, <2>5 DEF Goes
  <2>7. Shape(job[c])'
    BY <1>1, <2>1, <2>3, <2>5
    DEF ReadRows, At, IInv, Inv, Shape, AttachStep, MasterStep, DeleteStep, RestoreStep, Moves
  <2>8. InPlace(u) => AddressesOf(u) # {}
    BY <1>4 DEF IInv, Inv, UserInv, Whole
  <2>9. Exists(u)' /\ (InPlace(u)' <=> InPlace(u))
    BY <1>2, <1>4 DEF Spared, InPlace
  <2>10. Moving(c)'
    BY <2>1, <2>3, <2>5, <2>8, <2>9 DEF Moving, RestoreStep
  <2> QED
    BY <1>2, <2>5, <2>6, <2>7, <2>10, QuietStep
<1> QED
  BY <1>3, <1>4

LEMMA ReadKeysInv ==
  ASSUME IInv, NEW c \in Call, ReadKeys(c)
  PROVE  Inv'
<1>1. PICK u \in User, b \in Snapshot :
          u = job[c].user /\ b = job[c].bundle /\ b.user = u /\ Exists(u) /\ job[c] \in Job
  BY Deleting DEF ReadKeys, At, DeleteStep
<1>2. archives' = archives /\ born' = born /\ \A v \in User : Spared(v)
  BY Sparing DEF ReadKeys, Reads, registry, files, history, excuses
<1>3. PICK s \in Snapshot : s.user = u /\ s.emails = b.emails /\ s.xpubs = Reserved(u)
                            /\ s = [b EXCEPT !.xpubs = Reserved(u)]
  <2>1. [b EXCEPT !.xpubs = Reserved(u)] \in Snapshot
    BY DEF Snapshot, Reserved
  <2> QED
    BY <1>1, <2>1 DEF Snapshot
<1>4. job' = [job EXCEPT ![c] = [job[c] EXCEPT !.at = "write", !.bundle = s]]
  BY <1>1, <1>3 DEF ReadKeys, KeysOf, IInv, TypeOK, Job
<1>5. /\ Others(c) /\ job'[c].at = "write" /\ job'[c].bundle = s /\ job'[c].op = job[c].op
      /\ job'[c].user = u /\ job'[c].xpub = job[c].xpub
  BY <1>1, <1>4 DEF IInv, TypeOK, Job, Others
<1>6. Goes(c)
  BY <1>1, <1>5 DEF Goes
<1>7. Shape(job[c])'
  BY <1>1, <1>3, <1>5
  DEF ReadKeys, At, IInv, Inv, Shape, AttachStep, MasterStep, DeleteStep, RestoreStep, Moves
<1>8. InPlace(u) => b.emails # {} /\ wallets[u] \ torn \subseteq Reserved(u)
  BY <1>1 DEF ReadKeys, At, IInv, Inv, UserInv, Whole, Moving
<1>9. Exists(u)' /\ (InPlace(u)' <=> InPlace(u)) /\ wallets' = wallets /\ torn' = torn
  BY <1>1, <1>2 DEF Spared, InPlace, ReadKeys, Reads, files, history, excuses
<1>10. Moving(c)'
  BY <1>3, <1>5, <1>8, <1>9 DEF Moving, RestoreStep
<1> QED
  BY <1>2, <1>5, <1>6, <1>7, <1>10, QuietStep

LEMMA WriteSnapshotInv ==
  ASSUME IInv, NEW c \in Call, NEW f \in Folder, WriteSnapshot(c, f)
  PROVE  Inv'
<1>1. PICK u \in User, b \in Snapshot :
          /\ u = job[c].user /\ b = job[c].bundle /\ b.user = u
          /\ Exists(u) /\ u \in born /\ job[c] \in Job /\ Moves(job[c])
  BY Deleting DEF WriteSnapshot, At, DeleteStep
<1>2. \A v \in User : Spared(v)
  BY Sparing DEF WriteSnapshot, registry, history, excuses
<1>3. /\ archives[f] = NoRow /\ archives'[f] = b
      /\ \A g \in Folder \ {f} : archives'[g] = archives[g]
  BY <1>1 DEF WriteSnapshot, IInv, TypeOK
<1>4. Written
  BY <1>3 DEF Written
<1>5. UserInv(u)'
  BY <1>2, <1>4, UserFrame DEF IInv, Inv
<1>6. /\ Others(c) /\ job'[c].at = "rows" /\ job'[c].bundle = b /\ job'[c].op = job[c].op
      /\ job'[c].user = u /\ job'[c].xpub = job[c].xpub /\ job'[c].folder = f
  BY <1>1 DEF WriteSnapshot, IInv, TypeOK, Job, Others
<1>7. Goes(c)
  BY <1>1, <1>6 DEF Goes
<1>8. Shape(job[c])'
  BY <1>1, <1>6
  DEF WriteSnapshot, At, IInv, Inv, Shape, AttachStep, MasterStep, DeleteStep, RestoreStep, Moves
<1>9. InPlace(u) => Complete(f, u)'
  <2>1. InPlace(u) => b.emails # {} /\ wallets[u] \ torn \subseteq b.xpubs
    BY <1>1 DEF WriteSnapshot, At, IInv, Inv, Moving
  <2>2. wallets' = wallets /\ torn' = torn /\ b # NoRow
    BY ArchiveAssumption DEF WriteSnapshot, history, excuses
  <2> QED
    BY <1>1, <1>3, <2>1, <2>2 DEF Complete
<1>10. Exists(u)' /\ (InPlace(u)' <=> InPlace(u))
  BY <1>1, <1>2 DEF Spared, InPlace
<1>11. Moving(c)'
  BY <1>3, <1>6, <1>9, <1>10 DEF Moving, RestoreStep
<1>12. ArchivesInv'
  BY <1>1, <1>3 DEF WriteSnapshot, history, IInv, Inv, ArchivesInv
<1> QED
  BY <1>1, <1>2, <1>4, <1>5, <1>6, <1>7, <1>8, <1>11, <1>12, MoveStep

LEMMA DeleteRowsInv ==
  ASSUME IInv, NEW c \in Call, DeleteRows(c)
  PROVE  Inv'
<1>1. PICK u \in User, b \in Snapshot, f \in Folder :
          /\ u = job[c].user /\ b = job[c].bundle /\ f = job[c].folder
          /\ Exists(u) /\ u \in born /\ job[c] \in Job /\ Moves(job[c])
          /\ b.user = u /\ archives[f] = b /\ (InPlace(u) => Complete(f, u))
  BY Deleting DEF DeleteRows, At, DeleteStep, IInv, Inv, Shape, Moving
<1>2. /\ place' = place /\ wallets' = wallets /\ archives' = archives
      /\ born' = born /\ torn' = torn
  BY DEF DeleteRows, files, history, excuses
<1>3. users'[u] = NoRow /\ \A v \in User \ {u} : users'[v] = users[v]
  BY <1>1 DEF DeleteRows, IInv, TypeOK
<1>4. \A v \in User \ {u} : Spared(v)
  BY <1>1, <1>2, <1>3 DEF DeleteRows, Spared, Exists, AddressesOf, Reserved
<1>5. Written
  BY <1>2 DEF Written
<1>6. \A g \in Folder : Complete(g, u) => Complete(g, u)'
  BY <1>2 DEF Complete
<1>7. UserInv(u)'
  BY <1>1, <1>2, <1>3, <1>6 DEF IInv, Inv, UserInv, InPlace, Exists, Kept
<1>8. Others(c) /\ job'[c] = [job[c] EXCEPT !.at = "away"]
  BY Moved DEF DeleteRows, IInv, Others, Step
<1>9. /\ job'[c].at = "away" /\ job'[c].bundle = b /\ job'[c].op = job[c].op
      /\ job'[c].user = u /\ job'[c].xpub = job[c].xpub /\ job'[c].folder = f
  BY <1>1, <1>8 DEF Job
<1>10. Goes(c)
  BY <1>1, <1>9 DEF Goes
<1>11. Shape(job[c])'
  BY <1>1, <1>9
  DEF DeleteRows, At, IInv, Inv, Shape, AttachStep, MasterStep, DeleteStep, RestoreStep, Moves
<1>12. Moving(c)'
  <2>1. ~Exists(u)'
    BY <1>3 DEF Exists
  <2> QED
    BY <1>1, <1>2, <1>6, <1>9, <2>1 DEF Moving, RestoreStep, InPlace
<1>13. ArchivesInv'
  BY <1>2, ArchivesFrame
<1> QED
  BY <1>1, <1>4, <1>5, <1>7, <1>8, <1>10, <1>11, <1>12, <1>13, MoveStep

LEMMA MoveAwayInv ==
  ASSUME IInv, NEW c \in Call, MoveAway(c)
  PROVE  Inv'
<1>1. PICK u \in User, f \in Folder :
          /\ u = job[c].user /\ f = job[c].folder /\ Moves(job[c])
          /\ InPlace(u) => Complete(f, u)
  BY Deleting DEF MoveAway, At, DeleteStep, IInv, Inv, Shape, Moving
<1>2. /\ users' = users /\ emails' = emails /\ index' = index /\ wallets' = wallets
      /\ archives' = archives /\ born' = born /\ torn' = torn /\ End(c)
  BY DEF MoveAway, registry, history, excuses
<1>3. CASE InPlace(u)
  <2>1. place'[u] = f /\ \A v \in User \ {u} : place'[v] = place[v]
    BY <1>1, <1>3 DEF MoveAway, IInv, TypeOK
  <2>2. \A v \in User \ {u} : Spared(v)
    BY <1>2, <2>1 DEF Spared, Exists, AddressesOf, Reserved
  <2>3. Complete(f, u)'
    BY <1>1, <1>2, <1>3 DEF Complete
  <2>4. u \in born
    BY <1>3 DEF IInv, Inv, UserInv, InPlace
  <2>5. UserInv(u)'
    BY <1>2, <2>1, <2>3, <2>4, ArchiveAssumption DEF UserInv, InPlace
  <2>6. Written /\ ArchivesInv'
    BY <1>2, ArchivesFrame DEF Written
  <2>7. Others(c) /\ job'[c] = Idle
    BY <1>2, Ended DEF IInv, Others
  <2> QED
    BY <1>1, <2>2, <2>5, <2>6, <2>7, MoveStep
<1>4. CASE ~InPlace(u)
  BY <1>1, <1>2, <1>4, EndStep, Sparing DEF MoveAway
<1> QED
  BY <1>3, <1>4

(***************************************************************************)
(* restore_user                                                            *)
(***************************************************************************)
\* What a restoration knows of the snapshot it puts back.
LEMMA Restoring ==
  ASSUME IInv, NEW c \in Call, job[c].at \in RestoreStep
  PROVE  \E u \in User, b \in Snapshot, f \in Folder :
             /\ u = job[c].user /\ b = job[c].bundle /\ f = job[c].folder
             /\ job[c] \in Job /\ Moves(job[c]) /\ b.user = u /\ archives[f] = b
             /\ u \in born /\ ~InPlace(u)
<1>1. /\ job[c] \in Job /\ job[c].user \in User /\ Moves(job[c])
      /\ job[c].bundle \in Snapshot /\ job[c].bundle.user = job[c].user /\ job[c].folder \in Folder
      /\ archives[job[c].folder] = job[c].bundle /\ ~InPlace(job[c].user)
  BY DEF IInv, Inv, TypeOK, Shape, Moving, RestoreStep, Moves
<1>2. job[c].user \in born
  BY <1>1, ArchiveAssumption DEF IInv, Inv, ArchivesInv
<1> QED
  BY <1>1, <1>2

LEMMA InsertRowsInv ==
  ASSUME IInv, NEW c \in Call, InsertRows(c)
  PROVE  Inv'
<1>1. PICK u \in User, b \in Snapshot, f \in Folder :
          /\ u = job[c].user /\ b = job[c].bundle /\ f = job[c].folder
          /\ job[c] \in Job /\ Moves(job[c]) /\ b.user = u /\ archives[f] = b
          /\ u \in born /\ ~InPlace(u)
  BY Restoring DEF InsertRows, At, RestoreStep
<1>2. /\ place' = place /\ wallets' = wallets /\ archives' = archives
      /\ born' = born /\ torn' = torn
  BY DEF InsertRows, files
<1>3. CASE End(c) /\ UNCHANGED <<registry, returned>>
  <2>1. End(c) /\ users' = users /\ emails' = emails /\ index' = index
    BY <1>3 DEF registry
  <2> QED
    BY <1>2, <2>1, EndStep, Sparing
<1>4. CASE ~(End(c) /\ UNCHANGED <<registry, returned>>)
  <2>1. /\ b.status \in Status /\ b.emails \subseteq Address /\ b.xpubs \subseteq Xpub
        /\ \A a \in b.emails : emails[a] = NoUser
        /\ \A x \in b.xpubs : index[x] = NoUser
    BY <1>1, <1>4 DEF InsertRows, Conflict, Snapshot
  <2>2. /\ users' = [users EXCEPT ![u] = b.status]
        /\ emails' = [a \in Address |-> IF a \in b.emails THEN u ELSE emails[a]]
        /\ index' = [x \in Xpub |-> IF x \in b.xpubs THEN u ELSE index[x]]
        /\ Move(c, "back")
    BY <1>1, <1>4 DEF InsertRows
  <2>3. /\ users'[u] # NoRow /\ \A v \in User \ {u} : users'[v] = users[v]
    BY <2>1, <2>2, ArchiveAssumption DEF IInv, TypeOK
  <2>4. \A v \in User \ {u} : AddressesOf(v)' = AddressesOf(v) /\ Reserved(v)' = Reserved(v)
    BY <2>1, <2>2, ArchiveAssumption DEF AddressesOf, Reserved
  <2>5. \A v \in User \ {u} : Spared(v)
    BY <1>2, <2>3, <2>4 DEF Spared, Exists
  <2>6. Written /\ ArchivesInv'
    BY <1>2, ArchivesFrame DEF Written
  <2>7. \A g \in Folder : Complete(g, u) => Complete(g, u)'
    BY <1>2 DEF Complete
  <2>8. UserInv(u)'
    BY <1>1, <1>2, <2>7 DEF IInv, Inv, UserInv, InPlace
  <2>9. Others(c) /\ job'[c] = [job[c] EXCEPT !.at = "back"]
    BY <2>2, Moved DEF IInv, Others, Step
  <2>10. /\ job'[c].at = "back" /\ job'[c].bundle = b /\ job'[c].op = job[c].op
         /\ job'[c].user = u /\ job'[c].xpub = job[c].xpub /\ job'[c].folder = f
    BY <1>1, <2>9 DEF Job
  <2>11. Goes(c)
    BY <1>1, <2>10 DEF Goes
  <2>12. Shape(job[c])'
    BY <1>1, <2>10
    DEF InsertRows, At, IInv, Inv, Shape, AttachStep, MasterStep, DeleteStep, RestoreStep, Moves
  <2>13. Exists(u)' /\ b.emails \subseteq AddressesOf(u)' /\ b.xpubs \subseteq Reserved(u)'
    BY <2>1, <2>2, <2>3 DEF Exists, AddressesOf, Reserved
  <2>14. place[u] = f => wallets'[u] \ torn' \subseteq Reserved(u)'
    BY <1>1, <1>2, <2>13 DEF IInv, Inv, UserInv, Complete
  <2>15. Moving(c)'
    BY <1>1, <1>2, <2>10, <2>13, <2>14 DEF Moving, RestoreStep, InPlace
  <2> QED
    BY <1>1, <2>5, <2>6, <2>8, <2>9, <2>11, <2>12, <2>15, MoveStep
<1> QED
  BY <1>3, <1>4

LEMMA MoveBackInv ==
  ASSUME IInv, NEW c \in Call, MoveBack(c)
  PROVE  Inv'
<1>1. PICK u \in User, b \in Snapshot, f \in Folder :
          /\ u = job[c].user /\ b = job[c].bundle /\ f = job[c].folder
          /\ job[c] \in Job /\ Moves(job[c]) /\ b.user = u /\ archives[f] = b
          /\ u \in born /\ ~InPlace(u)
  BY Restoring DEF MoveBack, At, RestoreStep
<1>2. /\ users' = users /\ emails' = emails /\ index' = index /\ wallets' = wallets
      /\ archives' = archives /\ born' = born /\ torn' = torn /\ End(c)
  BY DEF MoveBack, registry, history, excuses
<1>3. CASE place[u] = f
  <2>1. place'[u] = "users" /\ \A v \in User \ {u} : place'[v] = place[v]
    BY <1>1, <1>3 DEF MoveBack, IInv, TypeOK
  <2>2. \A v \in User \ {u} : Spared(v)
    BY <1>2, <2>1 DEF Spared, Exists, AddressesOf, Reserved
  <2>3. b.emails # {}
    BY <1>1, <1>3 DEF IInv, Inv, UserInv, Complete
  <2>4. Exists(u) /\ b.emails \subseteq AddressesOf(u) /\ wallets[u] \ torn \subseteq Reserved(u)
    BY <1>1, <1>3 DEF IInv, Inv, Moving, MoveBack, At
  <2>5. Whole(u)'
    BY <1>2, <2>3, <2>4 DEF Whole, Exists, AddressesOf, Reserved
  <2>6. UserInv(u)'
    BY <1>1, <1>2, <2>1, <2>5, ArchiveAssumption DEF UserInv, InPlace
  <2>7. Written /\ ArchivesInv'
    BY <1>2, ArchivesFrame DEF Written
  <2>8. Others(c) /\ job'[c] = Idle
    BY <1>2, Ended DEF IInv, Others
  <2> QED
    BY <1>1, <2>2, <2>6, <2>7, <2>8, MoveStep
<1>4. CASE place[u] # f
  BY <1>1, <1>2, <1>4, EndStep, Sparing DEF MoveBack
<1> QED
  BY <1>3, <1>4

(***************************************************************************)
(* What others do, and the theorems.                                       *)
(***************************************************************************)
\* Where no call steps.
LEMMA NoCallStep ==
  ASSUME IInv, job' = job, archives' = archives, \A u \in born : u \in born',
         \A u \in User : UserInv(u)',
         \A d \in Call : Moving(d)'
  PROVE  Inv'
<1>1. \A d \in Call : Shape(job[d])'
  BY DEF IInv, Inv, Shape, Moves
<1>2. Exclusive' /\ ArchivesInv'
  BY DEF IInv, Inv, Exclusive, ArchivesInv, Moves
<1> QED
  BY <1>1, <1>2 DEF Inv

LEMMA SpareStep ==
  ASSUME IInv, job' = job, archives' = archives, born' = born, \A u \in User : Spared(u)
  PROVE  Inv'
<1>1. \A u \in User : UserInv(u)'
  BY UserFrame DEF IInv, Inv, Written
<1>2. ASSUME NEW d \in Call PROVE Moving(d)'
  <2>1. job'[d] = job[d] /\ Shape(job[d]) /\ Moving(d)
    BY DEF IInv, Inv
  <2>2. Moves(job[d]) => Spared(job[d].user)
    BY <2>1 DEF Shape
  <2> QED
    BY <2>1, <2>2, JobFrame, ArchiveAssumption DEF Written
<1> QED
  BY <1>1, <1>2, NoCallStep

LEMMA NewUserInv ==
  ASSUME IInv, NEW u \in User, NEW a \in Address, NewUser(u, a)
  PROVE  Inv'
<1>1. /\ u \notin born /\ emails[a] = NoUser /\ born' = born \cup {u}
      /\ index' = index /\ wallets' = wallets /\ archives' = archives /\ job' = job /\ torn' = torn
  BY DEF NewUser, excuses
<1>2. /\ users'[u] = "active" /\ place'[u] = "users" /\ emails'[a] = u
      /\ \A v \in User \ {u} : users'[v] = users[v] /\ place'[v] = place[v]
      /\ \A e \in Address \ {a} : emails'[e] = emails[e]
  BY DEF NewUser, IInv, TypeOK
<1>3. \A v \in User \ {u} : Spared(v)
  BY <1>1, <1>2, ArchiveAssumption DEF Spared, Exists, AddressesOf, Reserved
<1>4. wallets[u] = {} /\ ~Exists(u)
  BY <1>1 DEF IInv, Inv, UserInv
<1>5. UserInv(u)'
  <2>1. Exists(u)' /\ a \in AddressesOf(u)'
    BY <1>2, ArchiveAssumption DEF Exists, AddressesOf, Status
  <2> QED
    BY <1>1, <1>2, <1>4, <2>1, ArchiveAssumption DEF UserInv, Whole, InPlace
<1>6. Written
  BY <1>1 DEF Written
<1>7. \A v \in User : UserInv(v)'
  BY <1>3, <1>5, <1>6, UserFrame DEF IInv, Inv
<1>8. ASSUME NEW d \in Call PROVE Moving(d)'
  <2>1. CASE job[d].user = u
    <3>1. job[d].at \notin {"keys", "write", "rows"} \cup RestoreStep
      BY <1>1, <2>1, Deleting, Restoring DEF DeleteStep
    <3>2. job[d].at # "away"
      BY <1>1, <2>1, ArchiveAssumption DEF IInv, Inv, Shape, Moving, ArchivesInv
    <3> QED
      BY <1>1, <3>1, <3>2 DEF Moving, RestoreStep
  <2>2. CASE job[d].user # u
    <3>1. job'[d] = job[d] /\ Shape(job[d]) /\ Moving(d)
      BY <1>1 DEF IInv, Inv
    <3>2. Moves(job[d]) => Spared(job[d].user)
      BY <1>3, <2>2, <3>1 DEF Shape
    <3> QED
      BY <1>6, <3>1, <3>2, JobFrame, ArchiveAssumption
  <2> QED
    BY <2>1, <2>2
<1> QED
  BY <1>1, <1>7, <1>8, NoCallStep

LEMMA SetStatusInv ==
  ASSUME IInv, NEW u \in User, NEW s \in Status, SetStatus(u, s)
  PROVE  Inv'
<1>1. \A v \in User : Exists(v)' <=> Exists(v)
  BY ArchiveAssumption DEF SetStatus, Exists, IInv, TypeOK
<1>2. \A v \in User : Spared(v)
  BY <1>1 DEF SetStatus, Spared, AddressesOf, Reserved, files, history, excuses
<1> QED
  BY <1>2, SpareStep DEF SetStatus, files, history

LEMMA RemoveMasterInv ==
  ASSUME IInv, NEW n \in Net, RemoveMaster(n)
  PROVE  Inv'
  BY SpareStep, Sparing DEF RemoveMaster, registry, files, history, excuses

LEMMA InitInv == Init => IInv
<1> SUFFICES ASSUME Init PROVE IInv
  OBVIOUS
<1>1. Idle \in Job
  BY DEF Idle, Job, Op, Step
<1>2. TypeOK
  <2>1. \A m, n \in Net : master[m] = master[n] /\ master[m] # NoXpub => m = n
    BY DEF Init
  <2> QED
    BY <1>1, <2>1, ArchiveAssumption DEF Init, TypeOK
<1>3. \A u \in User : UserInv(u)
  BY ArchiveAssumption DEF Init, UserInv, Exists, InPlace
<1>4. \A c \in Call : job[c] = Idle
  BY DEF Init
<1>5. \A c \in Call : Shape(job[c]) /\ Moving(c)
  BY <1>4
  DEF Idle, Shape, Moving, Moves, AttachStep, MasterStep, DeleteStep, RestoreStep
<1>6. Exclusive
  BY <1>4 DEF Idle, Exclusive, Moves
<1>7. ArchivesInv
  BY DEF Init, ArchivesInv
<1> QED
  BY <1>2, <1>3, <1>5, <1>6, <1>7 DEF IInv, Inv

LEMMA StepInv == IInv /\ [Next]_vars => IInv'
<1> SUFFICES ASSUME IInv, [Next]_vars PROVE IInv'
  OBVIOUS
<1>1. ASSUME NEW c \in Call, Begins(c) PROVE IInv'
  BY <1>1, TypeBegins, BeginsInv DEF IInv
<1>2. ASSUME NEW c \in Call, Advance(c) PROVE IInv'
  <2>1. TypeOK'
    BY <1>2, TypeAttach, TypeMaster, TypeDelete, TypeRestore DEF Advance
  <2>2. Inv'
    BY <1>2, ReadsInv, ReserveInv, AddWalletInv, AddFailsInv, ReleaseInv, SetMasterInv,
       ReadRowsInv, ReadKeysInv, WriteSnapshotInv, DeleteRowsInv, MoveAwayInv,
       InsertRowsInv, MoveBackInv
    DEF Advance
  <2> QED
    BY <2>1, <2>2 DEF IInv
<1>3. ASSUME NEW c \in Call, Fail(c) PROVE IInv'
  BY <1>3, TypeRestore, FailInv DEF IInv
<1>4. ASSUME NEW n \in Net, RemoveMaster(n) PROVE IInv'
  BY <1>4, TypeOthers, RemoveMasterInv DEF IInv
<1>5. ASSUME NEW u \in User, NEW a \in Address, NewUser(u, a) PROVE IInv'
  BY <1>5, TypeOthers, NewUserInv DEF IInv
<1>6. ASSUME NEW u \in User, NEW s \in Status, SetStatus(u, s) PROVE IInv'
  BY <1>6, TypeOthers, SetStatusInv DEF IInv
<1>7. CASE UNCHANGED vars
  <2>1. TypeOK'
    BY <1>7 DEF IInv, TypeOK, vars, registry, files, history, excuses
  <2>2. Inv'
    BY <1>7, SpareStep, Sparing DEF vars, registry, files, history, excuses
  <2> QED
    BY <2>1, <2>2 DEF IInv
<1> QED
  BY <1>1, <1>2, <1>3, <1>4, <1>5, <1>6, <1>7 DEF Next

LEMMA Invariance == Spec => []IInv
  BY InitInv, StepInv, PTL DEF Spec

\* Types: every call carries locals of its kind through all its steps, no
\* reservation and no address belongs to a user without rows, and no key is set for
\* two networks.
THEOREM TypeCorrect == Spec => []TypeOK
<1>1. IInv => TypeOK
  BY DEF IInv
<1> QED
  BY <1>1, Invariance, PTL

\* However many calls attach, delete and restore beside each other, and wherever
\* they fail or die, every user ever registered is whole in the registry or in a
\* snapshot: delete_user writes the snapshot before it drops the rows, and
\* restore_user brings a directory back only over the rows of its own archive.
THEOREM NoUserIsLost == Spec => []NothingIsLost
<1>1. IInv => NothingIsLost
  <2> SUFFICES ASSUME IInv, NEW u \in born PROVE Whole(u) \/ \E f \in Folder : Complete(f, u)
    BY DEF NothingIsLost
  <2>1. u \in User /\ place[u] # "none"
    BY DEF IInv, Inv, TypeOK, UserInv
  <2>2. CASE InPlace(u)
    BY <2>1, <2>2 DEF IInv, Inv, UserInv, Kept
  <2>3. CASE ~InPlace(u)
    <3>1. place[u] \in Folder
      BY <2>1, <2>3 DEF IInv, TypeOK, InPlace
    <3> QED
      BY <2>1, <3>1 DEF IInv, Inv, UserInv
  <2> QED
    BY <2>2, <2>3
<1> QED
  BY <1>1, Invariance, PTL

=================================================================================
