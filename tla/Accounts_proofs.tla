---------------------------- MODULE Accounts_proofs ----------------------------
(***************************************************************************)
(* Theorems about Accounts, for every set of users, addresses, secrets and *)
(* calls: types; old sessions are gone after a sweep; accounts are whole;  *)
(* addresses are confirmed by their own links.                             *)
(***************************************************************************)
EXTENDS Accounts, TLAPS

(***************************************************************************)
(* The inductive invariant.                                                *)
(***************************************************************************)
NewUserStep == {"address", "create", "database", "uncreate", "find", "undo"}
AttachStep == {"address", "attach", "reselect", "mail"}
CutStep == {"check", "exists", "write", "drop"}

\* What the step a call is at says about its locals.
Shape(j) ==
    /\ j.at \in {"create", "database", "uncreate", "find", "undo"} => j.op = "register"
    /\ j.at \in AttachStep => j.op \in {"register", "add"}
    /\ j.at \in {"address", "create", "database", "find", "attach"} => j.address \in Address
    /\ j.op = "register" => j.at \in NewUserStep \cup AttachStep /\ j.login \in Login
    /\ j.op = "register" => (j.user = NoUser <=> j.at \in {"address", "create"})
    /\ j.op = "add" => j.user \in User
    /\ j.at = "ask" => j.op = "ask"
    /\ j.at = "use" => j.op = "reset"
    /\ j.at \in {"remove", "delete", "select", "mark", "row", "emails", "open", "store"} =>
           j.op \notin {"register", "add"}
    /\ j.at \in {"reselect", "mail", "remove", "delete", "mark"} => j.email \in EmailId
    /\ j.at \in {"remove", "delete", "row", "emails", "open", "store", "consume"} \cup CutStep =>
           j.user \in User
    /\ j.at = "consume" \/ j.at \in CutStep =>
           j.op \in {"reset", "change", "temporary", "block", "unblock"}

\* The link a call has found belongs to the row it will mark, and has been opened;
\* the row a call will delete is not primary.
RowInv(c) ==
    LET j == job[c] IN
    /\ j.at \in {"select", "mark"} => j.secret \in shown
    /\ j.at = "mark" /\ ~recycled /\ j.email \in Rows => emails[j.email].link = j.secret
    /\ j.at = "delete" /\ ~recycled /\ j.email \in Rows => ~emails[j.email].primary

\* The user a call is registering, once there is one.
Registered(j) == IF j.op = "register" THEN j.user ELSE NoUser

\* A registration has its user for itself, and gives it one primary address.
RegisterInv(c) ==
    LET j == job[c]  u == Registered(job[c]) IN
    u # NoUser =>
        /\ Exists(u) /\ u \notin told
        /\ j.at \in {"database", "find", "attach"} /\ ~recycled => Primary(u) = {}
        /\ j.at \in {"reselect", "mail"} /\ ~recycled => Primary(u) = {j.email}

OneRegistration == \A c, d \in Call :
    Registered(job[c]) = Registered(job[d]) /\ Registered(job[c]) # NoUser => c = d

UserInv(u) ==
    /\ Exists(u) => u \in born
    /\ u \in told => Exists(u)
    /\ Exists(u) /\ ~recycled => \/ \E e \in EmailId : Primary(u) = {e}
                                 \/ u \notin told /\ u \in unfinished
                                 \/ \E c \in Call : Registered(job[c]) = u

\* A session older than the last sweep is one that a sweep still owes.
SessionInv(k) ==
    k \in Live /\ sessions[k].opened # cut[sessions[k].user] =>
        \/ sessions[k].user \in unswept
        \/ \E c \in Call : At(c, "drop") /\ job[c].user = sessions[k].user

LinksInv == \A e \in Rows : emails[e].link \in spent \cup {NoSecret}

Inv ==
    /\ \A c \in Call : Shape(job[c]) /\ RowInv(c) /\ RegisterInv(c)
    /\ OneRegistration
    /\ \A u \in User : UserInv(u)
    /\ \A k \in Secret : SessionInv(k)
    /\ OnlyShownLinksConfirm /\ LinksInv

IInv == TypeOK /\ Inv

(***************************************************************************)
(* Calls and types.                                                        *)
(***************************************************************************)
Others(c) == \A d \in Call \ {c} : job'[d] = job[d]

\* A call goes on to a step of the code, with what it is about.
Goes(c, step) ==
    /\ job'[c].at = step
    /\ job'[c].op = job[c].op /\ job'[c].user = job[c].user /\ job'[c].email = job[c].email
    /\ job'[c].address = job[c].address /\ job'[c].login = job[c].login
    /\ job'[c].secret = job[c].secret

LEMMA IdleJob == Idle \in Job
  BY DEF Idle, Job, Op, Step

LEMMA Moved ==
  ASSUME TypeOK, NEW c \in Call, NEW step \in Step, Move(c, step)
  PROVE  /\ job' \in [Call -> Job] /\ Others(c)
         /\ step = "idle" => job'[c] = Idle
         /\ step # "idle" => Goes(c, step)
<1>1. job[c] \in Job /\ [job[c] EXCEPT !.at = step] \in Job
  BY DEF TypeOK, Job
<1>2. job' \in [Call -> Job] /\ Others(c)
      /\ job'[c] = IF step = "idle" THEN Idle ELSE [job[c] EXCEPT !.at = step]
  BY <1>1, IdleJob DEF TypeOK, Move, Others
<1>3. step # "idle" => Goes(c, step)
  BY <1>1, <1>2 DEF Goes, Job
<1> QED
  BY <1>2, <1>3

LEMMA Ended ==
  ASSUME TypeOK, NEW c \in Call, End(c)
  PROVE  job' \in [Call -> Job] /\ Others(c) /\ job'[c] = Idle
  BY Moved DEF End, Step

LEMMA Begun ==
  ASSUME TypeOK, NEW c \in Call, NEW j \in Job, Begin(c, j)
  PROVE  job' \in [Call -> Job] /\ Others(c) /\ job'[c] = j /\ job[c].at = "idle"
  BY DEF TypeOK, Begin, At, Others

LEMMA Steps ==
  ASSUME NEW c \in Call
  PROVE  /\ Handler(job[c]) \in Step /\ Following(job[c]) \in Step
         /\ Handler(job[c]) \in {"uncreate", "undo", "idle"}
         /\ Following(job[c]) \in {"write", "drop", "idle"}
  BY DEF Handler, Following, Step

\* Where a call has changed nothing but its own locals, or only what is not a table.
LEMMA TypeQuiet ==
  ASSUME TypeOK, UNCHANGED <<tables, mix, history, faults>>, job' \in [Call -> Job]
  PROVE  TypeOK'
  BY DEF TypeOK, tables, history, Rows, EmailsOf, Exists, Live

LEMMA TypeCreateUser ==
  ASSUME IInv, NEW c \in Call, NEW u \in User, CreateUser(c, u)
  PROVE  /\ TypeOK' /\ Others(c)
         /\ job'[c].at = "database" /\ job'[c].user = u /\ job'[c].op = job[c].op
         /\ job'[c].login = job[c].login /\ job'[c].address = job[c].address
         /\ users'[u] # NoRow /\ \A v \in User \ {u} : users'[v] = users[v]
<1> USE DEF IInv, Inv
<1>1. job[c] \in Job /\ job[c].op = "register" /\ job[c].login \in Login
  BY DEF CreateUser, At, TypeOK, Shape
<1>2. [login |-> job[c].login, status |-> "active"] \in UserRow
  BY <1>1 DEF UserRow
<1>3. /\ users' \in [User -> UserRow \cup {NoRow}] /\ users'[u] # NoRow
      /\ \A v \in User \ {u} : users'[v] = users[v]
  BY <1>2, AccountsAssumption DEF CreateUser, TypeOK
<1>4. job' = [job EXCEPT ![c] = [job[c] EXCEPT !.at = "database", !.user = u]]
  BY DEF CreateUser, TypeOK
<1>5. [job[c] EXCEPT !.at = "database", !.user = u] \in Job
  <2>1. "database" \in Step
    BY DEF Step
  <2> QED
    BY <1>1, <2>1 DEF Job
<1>6. /\ job' \in [Call -> Job] /\ Others(c)
      /\ job'[c].at = "database" /\ job'[c].user = u /\ job'[c].op = job[c].op
      /\ job'[c].login = job[c].login /\ job'[c].address = job[c].address
  <2> DEFINE j == [job[c] EXCEPT !.at = "database", !.user = u]
  <2>1. /\ j.at = "database" /\ j.user = u /\ j.op = job[c].op
        /\ j.login = job[c].login /\ j.address = job[c].address
    BY <1>1 DEF Job
  <2>2. job' = [job EXCEPT ![c] = j] /\ j \in Job
    BY <1>4, <1>5
  <2> HIDE DEF j
  <2> QED
    BY <2>1, <2>2 DEF TypeOK, Others
<1>7. TypeOK'
  BY <1>3, <1>6 DEF CreateUser, TypeOK, Rows, EmailsOf, Exists, Live
<1> QED
  BY <1>3, <1>6, <1>7

\* A registration takes its rows back.
LEMMA TypeUncreate ==
  ASSUME IInv, NEW c \in Call, Uncreate(c)
  PROVE  TypeOK'
<1> USE DEF IInv, Inv
<1>1. PICK u \in User : u = job[c].user
  BY DEF Uncreate, At, TypeOK, Job, Shape
<1>2. job' \in [Call -> Job]
  BY Ended DEF Uncreate
<1>3. CASE Referred(u) \/ EmailsOf(u) # {}
  BY <1>1, <1>2, <1>3 DEF Uncreate, TypeOK, Rows, EmailsOf, Exists, Live
<1>4. CASE ~(Referred(u) \/ EmailsOf(u) # {})
  <2>1. /\ users' = [users EXCEPT ![u] = NoRow] /\ emails' = emails /\ sessions' = sessions
        /\ unfinished' = unfinished
    BY <1>1, <1>4 DEF Uncreate
  <2>2. \A v \in User : ~Exists(v)' => EmailsOf(v)' = {}
    BY <1>4, <2>1 DEF TypeOK, EmailsOf, Exists, Rows
  <2>3. \A k \in Live' : users'[sessions'[k].user] # NoRow
    BY <1>4, <2>1 DEF TypeOK, Referred, Exists, Live, SessionRow
  <2> QED
    BY <1>2, <2>1, <2>2, <2>3 DEF Uncreate, TypeOK, Exists, Live, Rows
<1> QED
  BY <1>3, <1>4

LEMMA TypeUndo ==
  ASSUME IInv, NEW c \in Call, Undo(c)
  PROVE  TypeOK'
<1> USE DEF IInv, Inv
<1>1. PICK u \in User : u = job[c].user
  BY DEF Undo, At, TypeOK, Job, Shape
<1>2. job' \in [Call -> Job]
  BY Ended DEF Undo
<1>3. CASE Referred(u)
  BY <1>1, <1>2, <1>3 DEF Undo, TypeOK, Rows, EmailsOf, Exists, Live
<1>4. CASE ~Referred(u)
  <2>1. /\ users' = [users EXCEPT ![u] = NoRow]
        /\ emails' = [e \in EmailId |-> IF e \in EmailsOf(u) THEN NoRow ELSE emails[e]]
        /\ sessions' = sessions /\ unfinished' = unfinished
    BY <1>1, <1>4 DEF Undo
  <2>2. Rows' = Rows \ EmailsOf(u) /\ \A e \in Rows' : emails'[e] = emails[e]
    BY <2>1 DEF Rows
  <2>3. \A v \in User : ~Exists(v)' => EmailsOf(v)' = {}
    BY <2>1, <2>2 DEF TypeOK, EmailsOf, Exists
  <2>4. \A k \in Live' : users'[sessions'[k].user] # NoRow
    BY <1>4, <2>1 DEF TypeOK, Referred, Exists, Live, SessionRow
  <2>5. users' \in [User -> UserRow \cup {NoRow}] /\ emails' \in [EmailId -> EmailRow \cup {NoRow}]
    BY <2>1 DEF TypeOK
  <2>6. \A e, f \in Rows' : emails'[e].address = emails'[f].address => e = f
    BY <2>2 DEF TypeOK
  <2> QED
    BY <1>2, <2>1, <2>3, <2>4, <2>5, <2>6 DEF Undo, TypeOK, Exists, Live
<1> QED
  BY <1>3, <1>4

LEMMA TypeAttach ==
  ASSUME IInv, NEW c \in Call, NEW e \in EmailId, NEW k \in Secret \cup {NoSecret}, Attach(c, e, k)
  PROVE  /\ TypeOK' /\ Others(c)
         /\ job'[c].at = "reselect" /\ job'[c].email = e /\ job'[c].secret = k
         /\ job'[c].op = job[c].op /\ job'[c].user = job[c].user /\ job'[c].login = job[c].login
         /\ e \notin Rows /\ Rows' = Rows \cup {e}
         /\ \A f \in EmailId \ {e} : emails'[f] = emails[f]
         /\ emails'[e].user = job[c].user /\ emails'[e].link = k
         /\ emails'[e].primary = (job[c].op = "register")
         /\ emails'[e].confirmed = (k = NoSecret)
<1> USE DEF IInv, Inv
<1>1. job[c] \in Job /\ job[c].user \in User /\ job[c].address \in Address /\ "reselect" \in Step
  BY DEF Attach, At, TypeOK, Job, Shape, Step, AttachStep
<1> DEFINE row == [user |-> job[c].user, address |-> job[c].address, primary |-> job[c].op = "register",
                   confirmed |-> k = NoSecret, link |-> k, open |-> k # NoSecret]
<1>2. /\ row.user = job[c].user /\ row.address = job[c].address /\ row.link = k
      /\ row.primary = (job[c].op = "register") /\ row.confirmed = (k = NoSecret)
  OBVIOUS
<1>3. row \in EmailRow
  BY <1>1 DEF EmailRow
<1>4. emails' = [emails EXCEPT ![e] = row]
  BY DEF Attach
<1> HIDE DEF row
<1>5. /\ emails' \in [EmailId -> EmailRow \cup {NoRow}] /\ emails'[e] = row /\ row # NoRow
      /\ \A f \in EmailId \ {e} : emails'[f] = emails[f]
  BY <1>3, <1>4, AccountsAssumption DEF TypeOK
<1>6. e \notin Rows /\ Rows' = Rows \cup {e}
  <2>1. e \notin Rows
    BY DEF Attach, NewEmailId, EmailId
  <2> QED
    BY <1>5, <2>1 DEF Rows
<1>7. /\ job' \in [Call -> Job] /\ Others(c)
      /\ job'[c].at = "reselect" /\ job'[c].email = e /\ job'[c].secret = k
      /\ job'[c].op = job[c].op /\ job'[c].user = job[c].user /\ job'[c].login = job[c].login
  <2> DEFINE j == [job[c] EXCEPT !.at = "reselect", !.email = e, !.secret = k]
  <2>1. j \in Job
    BY <1>1 DEF Job
  <2>2. /\ j.at = "reselect" /\ j.email = e /\ j.secret = k
        /\ j.op = job[c].op /\ j.user = job[c].user /\ j.login = job[c].login
    BY <1>1 DEF Job
  <2>3. job' = [job EXCEPT ![c] = j]
    BY DEF Attach, TypeOK
  <2> HIDE DEF j
  <2> QED
    BY <2>1, <2>2, <2>3 DEF TypeOK, Others
<1>8. \A f, g \in Rows' : emails'[f].address = emails'[g].address => f = g
  BY <1>2, <1>5, <1>6 DEF Attach, Taken, TypeOK, Rows
<1>9. \A v \in User : ~Exists(v)' => EmailsOf(v)' = {}
  BY <1>2, <1>5, <1>6 DEF Attach, Exists, EmailsOf, TypeOK, Rows
<1>10. spent' \subseteq Secret /\ spent \subseteq spent' /\ recycled' \in BOOLEAN
  BY DEF Attach, TypeOK
<1>11. TypeOK'
  BY <1>5, <1>7, <1>8, <1>9, <1>10 DEF Attach, TypeOK, Exists, Live
<1> QED
  BY <1>2, <1>5, <1>6, <1>7, <1>11

LEMMA TypeAnswers ==
  ASSUME IInv, NEW c \in Call, Reselect(c) \/ SendLink(c)
  PROVE  TypeOK'
<1> USE DEF IInv, Inv
<1>1. PICK u \in User : u = job[c].user
  BY DEF Reselect, SendLink, At, TypeOK, Job, Shape, AttachStep
<1>2. job[c].op = "register" => u \in born
  BY <1>1, AccountsAssumption DEF RegisterInv, Registered, UserInv
<1>3. job' \in [Call -> Job]
  BY Moved, Ended, Steps DEF Reselect, SendLink, Answer, Raise, Step
<1>4. told' \subseteq born
  BY <1>1, <1>2 DEF Reselect, SendLink, Answer, TypeOK
<1>5. UNCHANGED <<tables, born, spent, shown, cut, unswept, unfinished, recycled, mix, faults>>
  BY DEF Reselect, SendLink
<1> QED
  BY <1>3, <1>4, <1>5 DEF TypeOK, tables, Rows, EmailsOf, Exists, Live

LEMMA TypeLinks ==
  ASSUME IInv, NEW c \in Call,
         (\E k \in Secret : OpenLink(c, k)) \/ MarkConfirmed(c) \/ DeleteEmail(c)
  PROVE  TypeOK'
<1> USE DEF IInv, Inv
<1>1. ASSUME NEW k \in Secret, OpenLink(c, k) PROVE TypeOK'
  <2>1. [Idle EXCEPT !.op = "confirm", !.at = "select", !.secret = k] \in Job
    BY DEF Idle, Job, Op, Step
  <2>2. job' \in [Call -> Job]
    BY <1>1, <2>1, Begun DEF OpenLink
  <2>3. k \in spent
    <3>1. PICK e \in Rows : emails[e].link = k
      BY <1>1 DEF OpenLink
    <3> QED
      BY <3>1, AccountsAssumption DEF LinksInv
  <2>4. shown' \subseteq spent
    BY <1>1, <2>3 DEF OpenLink, TypeOK
  <2> QED
    BY <1>1, <2>2, <2>4 DEF OpenLink, TypeOK, tables, Rows, EmailsOf, Exists, Live
<1>2. CASE MarkConfirmed(c)
  <2>1. PICK e \in EmailId : e = job[c].email
    BY <1>2 DEF MarkConfirmed, At, Shape
  <2>2. job' \in [Call -> Job]
    BY <1>2, Ended DEF MarkConfirmed
  <2>3. CASE e \in Rows
    <3>1. emails' = [emails EXCEPT ![e] = [emails[e] EXCEPT !.confirmed = TRUE, !.open = FALSE]]
      BY <1>2, <2>1, <2>3 DEF MarkConfirmed, TypeOK
    <3> DEFINE row == [emails[e] EXCEPT !.confirmed = TRUE, !.open = FALSE]
    <3>2. emails[e] \in EmailRow
      BY <2>3 DEF TypeOK, Rows
    <3>3. row \in EmailRow /\ row.user = emails[e].user /\ row.address = emails[e].address
      BY <3>2 DEF EmailRow
    <3> HIDE DEF row
    <3>4. emails' = [emails EXCEPT ![e] = row]
      BY <3>1 DEF row
    <3>5. emails' \in [EmailId -> EmailRow \cup {NoRow}] /\ Rows' = Rows
      BY <2>3, <3>3, <3>4, AccountsAssumption DEF TypeOK, Rows
    <3>6. \A f \in EmailId : emails'[f].user = emails[f].user /\ emails'[f].address = emails[f].address
      BY <3>3, <3>4 DEF TypeOK
    <3>7. \A v \in User : EmailsOf(v)' = EmailsOf(v)
      BY <3>5, <3>6 DEF EmailsOf, Rows
    <3>8. \A f, g \in Rows' : emails'[f].address = emails'[g].address => f = g
      BY <3>5, <3>6 DEF TypeOK, Rows
    <3> QED
      BY <1>2, <2>2, <3>5, <3>7, <3>8 DEF MarkConfirmed, TypeOK, history, Exists, Live
  <2>4. CASE e \notin Rows
    BY <1>2, <2>1, <2>2, <2>4 DEF MarkConfirmed, TypeOK, history, Rows, EmailsOf, Exists, Live
  <2> QED
    BY <2>3, <2>4
<1>3. CASE DeleteEmail(c)
  <2>1. job[c].email \in EmailId
    BY <1>3 DEF DeleteEmail, At, Shape
  <2>2. job' \in [Call -> Job]
    BY <1>3, Ended DEF DeleteEmail
  <2> QED
    BY <1>3, <2>1, <2>2 DEF DeleteEmail, TypeOK, history, Rows, EmailsOf, Exists, Live
<1> QED
  BY <1>1, <1>2, <1>3

LEMMA TypeSessions ==
  ASSUME IInv, NEW k \in Secret,
         (\E c \in Call : OpenSession(c, k) \/ StoreReset(c, k)) \/ DropSession(k)
  PROVE  TypeOK'
<1> USE DEF IInv, Inv
<1>1. ASSUME NEW c \in Call, OpenSession(c, k) PROVE TypeOK'
  <2>1. PICK u \in User : u = job[c].user
    BY <1>1 DEF OpenSession, At, Shape
  <2>2. job' \in [Call -> Job]
    BY <1>1, Ended DEF OpenSession
  <2>3. [user |-> u, opened |-> cut[u]] \in SessionRow
    BY DEF SessionRow, TypeOK
  <2>4. CASE Exists(u)
    <3>1. /\ sessions' = [sessions EXCEPT ![k] = [user |-> u, opened |-> cut[u]]]
          /\ spent' = spent \cup {k}
      BY <1>1, <2>1, <2>4 DEF OpenSession
    <3>2. sessions' \in [Secret -> SessionRow \cup {NoRow}]
      BY <2>3, <3>1 DEF TypeOK
    <3>3. \A s \in Live' : users[sessions'[s].user] # NoRow
      BY <2>4, <3>1 DEF TypeOK, Live, Exists
    <3> QED
      BY <1>1, <2>2, <3>1, <3>2, <3>3 DEF OpenSession, TypeOK, Rows, EmailsOf, Exists, Live
  <2>5. CASE ~Exists(u)
    BY <1>1, <2>1, <2>2, <2>5 DEF OpenSession, TypeOK, Rows, EmailsOf, Exists, Live
  <2> QED
    BY <2>4, <2>5
<1>2. ASSUME NEW c \in Call, StoreReset(c, k) PROVE TypeOK'
  <2>1. PICK u \in User : u = job[c].user
    BY <1>2 DEF StoreReset, At, Shape
  <2>2. job' \in [Call -> Job]
    BY <1>2, Ended DEF StoreReset
  <2>3. resets' \in [User -> Secret \cup {NoSecret}] /\ spent' \subseteq Secret /\ spent \subseteq spent'
    BY <1>2, <2>1 DEF StoreReset, TypeOK
  <2> QED
    BY <1>2, <2>2, <2>3 DEF StoreReset, TypeOK, Rows, EmailsOf, Exists, Live
<1>3. CASE DropSession(k)
  BY <1>3 DEF DropSession, TypeOK, history, Rows, EmailsOf, Exists, Live
<1> QED
  BY <1>1, <1>2, <1>3

LEMMA TypeCuts ==
  ASSUME IInv, NEW c \in Call, ConsumeReset(c) \/ Write(c) \/ DropSessions(c)
  PROVE  TypeOK'
<1> USE DEF IInv, Inv
<1>1. PICK u \in User : u = job[c].user
  BY DEF ConsumeReset, Write, DropSessions, At, Shape, CutStep
<1>2. job' \in [Call -> Job]
  BY Moved, Steps DEF ConsumeReset, Write, DropSessions
<1>3. CASE ConsumeReset(c)
  <2>1. resets' \in [User -> Secret \cup {NoSecret}]
    BY <1>3 DEF ConsumeReset, TypeOK
  <2> QED
    BY <1>2, <1>3, <2>1 DEF ConsumeReset, TypeOK, history, Rows, EmailsOf, Exists, Live
<1>4. CASE Write(c)
  <2>1. CASE Exists(u)
    <3>1. users[u] \in UserRow
      BY <2>1 DEF TypeOK, Exists
    <3>2. StatusAfter(job[c]) \in {"active", "blocked"}
      BY <1>1, <3>1 DEF StatusAfter, UserRow
    <3> DEFINE row == [users[u] EXCEPT !.status = StatusAfter(job[c])]
    <3>3. row \in UserRow
      BY <3>1, <3>2 DEF UserRow
    <3>4. users' = [users EXCEPT ![u] = row]
      BY <1>1, <1>4, <2>1 DEF Write, TypeOK
    <3> HIDE DEF row
    <3>5. users' \in [User -> UserRow \cup {NoRow}] /\ \A v \in User : Exists(v)' <=> Exists(v)
      BY <2>1, <3>3, <3>4, AccountsAssumption DEF TypeOK, Exists
    <3>6. cut' \in [User -> 0 .. MaxCut]
      BY <1>1, <1>4, AccountsAssumption DEF Write, TypeOK
    <3>7. \A k \in Live : sessions[k].user \in User
      BY DEF TypeOK, Live, SessionRow
    <3> QED
      BY <1>2, <1>4, <3>5, <3>6, <3>7 DEF Write, TypeOK, Rows, EmailsOf, Live, Exists
  <2>2. CASE ~Exists(u)
    BY <1>1, <1>2, <1>4, <2>2 DEF Write, TypeOK, Rows, EmailsOf, Exists, Live
  <2> QED
    BY <2>1, <2>2
<1>5. CASE DropSessions(c)
  <2>1. ASSUME NEW k \in Secret
        PROVE  /\ sessions'[k] \in SessionRow \cup {NoRow}
               /\ sessions'[k] # NoRow => k \in Live /\ sessions'[k].user = sessions[k].user
    <3>1. CASE k \in Live /\ sessions[k].user = u /\ k = job[c].secret
      <4>1. sessions'[k] = [sessions[k] EXCEPT !.opened = cut[u]]
        BY <1>1, <1>5, <3>1 DEF DropSessions
      <4>2. sessions[k] \in SessionRow /\ cut[u] \in 0 .. MaxCut
        BY <3>1 DEF TypeOK, Live
      <4> QED
        BY <3>1, <4>1, <4>2 DEF SessionRow
    <3>2. CASE ~(k \in Live /\ sessions[k].user = u /\ k = job[c].secret)
      BY <1>1, <1>5, <3>2 DEF DropSessions, TypeOK, Live
    <3> QED
      BY <3>1, <3>2
  <2>2. sessions' \in [Secret -> SessionRow \cup {NoRow}]
    BY <1>5, <2>1 DEF DropSessions
  <2>3. \A k \in Live' : users[sessions'[k].user] # NoRow
    BY <2>1 DEF TypeOK, Live, Exists
  <2> QED
    BY <1>2, <1>5, <2>2, <2>3 DEF DropSessions, TypeOK, Rows, EmailsOf, Exists, Live
<1> QED
  BY <1>3, <1>4, <1>5

LEMMA TypeFail ==
  ASSUME IInv, NEW c \in Call, Fail(c)
  PROVE  TypeOK'
<1> USE DEF IInv, Inv
<1>1. job' \in [Call -> Job]
  BY Moved, Ended, Steps DEF Fail, Raise
<1>2. faults' \in 0 .. MaxFaults
  BY AccountsAssumption DEF Fail, TypeOK
<1>3. unfinished' \subseteq User
  <2>1. job[c].user \in User \cup {NoUser}
    BY DEF TypeOK, Job
  <2> QED
    BY <2>1 DEF Fail, Spoils, TypeOK
<1>4. unswept' \subseteq User
  <2>1. job[c].at = "drop" => job[c].user \in User
    BY DEF Shape, CutStep
  <2> QED
    BY <2>1 DEF Fail, Spoils, TypeOK
<1> QED
  BY <1>1, <1>2, <1>3, <1>4 DEF Fail, tables, TypeOK, Rows, EmailsOf, Exists, Live

(***************************************************************************)
(* What a step leaves alone.                                               *)
(***************************************************************************)
LEMMA SessionFrame ==
  ASSUME IInv, sessions' = sessions, cut' = cut, unswept' = unswept,
         \A d \in Call : At(d, "drop") => job'[d] = job[d]
  PROVE  \A k \in Secret : SessionInv(k)'
  BY DEF IInv, Inv, SessionInv, Live, At

\* No new address row; what stays is the same but for its confirmation.
KeptRows ==
    \A e \in Rows' : /\ e \in Rows
                     /\ emails'[e].user = emails[e].user /\ emails'[e].link = emails[e].link
                     /\ emails'[e].primary = emails[e].primary

LEMMA RowFrame ==
  ASSUME IInv, NEW d \in Call, job'[d] = job[d], KeptRows,
         shown \subseteq shown', recycled' = recycled
  PROVE  RowInv(d)'
<1>1. RowInv(d)
  BY DEF IInv, Inv
<1> QED
  BY <1>1 DEF RowInv, KeptRows

LEMMA LinksFrame ==
  ASSUME IInv, \A e \in Rows' : e \in Rows /\ emails'[e] = emails[e],
         shown \subseteq shown', spent \subseteq spent', recycled' = recycled
  PROVE  OnlyShownLinksConfirm' /\ LinksInv'
<1>1. OnlyShownLinksConfirm'
  BY DEF IInv, Inv, OnlyShownLinksConfirm
<1>2. LinksInv'
  BY DEF IInv, Inv, LinksInv
<1> QED
  BY <1>1, <1>2

\* What a registration stands on, and what it has promised.
Spared(u) ==
    /\ Exists(u)' <=> Exists(u)
    /\ u \in told' <=> u \in told
    /\ u \in born => u \in born'
    /\ u \in unfinished => u \in unfinished'
    /\ ~recycled' => ~recycled /\ Primary(u)' = Primary(u)

\* A step of a call that registers u, or nobody: the others are as they were.
LEMMA UsersFrame ==
  ASSUME IInv, NEW c \in Call, Others(c), NEW u \in User \cup {NoUser},
         \A v \in User \ {u} : Spared(v),
         Registered(job[c]) \in {u, NoUser}, Registered(job'[c]) \in {u, NoUser},
         \A d \in Call \ {c} : Registered(job[d]) = u => u = NoUser
  PROVE  /\ \A v \in User \ {u} : UserInv(v)'
         /\ \A d \in Call \ {c} : Shape(job[d])' /\ RegisterInv(d)'
         /\ OneRegistration'
<1>1. ASSUME NEW v \in User \ {u} PROVE UserInv(v)'
  <2>1. UserInv(v)
    BY <1>1 DEF IInv, Inv
  <2>2. \A d \in Call : Registered(job[d]) = v => Registered(job'[d]) = v
    BY <1>1, AccountsAssumption DEF Others
  <2>3. (\E d \in Call : Registered(job[d]) = v) => (\E d \in Call : Registered(job[d]) = v)'
    BY <2>2
  <2> QED
    BY <1>1, <2>1, <2>3 DEF UserInv, Spared
<1>2. ASSUME NEW d \in Call \ {c} PROVE Shape(job[d])' /\ RegisterInv(d)'
  <2>1. job'[d] = job[d] /\ Shape(job[d]) /\ RegisterInv(d) /\ job[d] \in Job
    BY <1>2 DEF Others, IInv, Inv, TypeOK
  <2>2. Registered(job[d]) # NoUser => Registered(job[d]) \in User \ {u}
    BY <1>2, <2>1 DEF Registered, Job
  <2> QED
    BY <2>1, <2>2 DEF Shape, RegisterInv, Spared
<1>3. OneRegistration'
  BY DEF OneRegistration, Others, IInv, Inv
<1> QED
  BY <1>1, <1>2, <1>3

\* The step does not touch what users stand on.
LEMMA SparedAll ==
  ASSUME users' = users, emails' = emails, told' = told, born' = born, unfinished' = unfinished,
         recycled' = recycled
  PROVE  (\A u \in User : Spared(u)) /\ KeptRows
  BY DEF Spared, KeptRows, Exists, Primary, EmailsOf, Rows

\* The call a step belongs to: it goes on registering the same user, or nobody.
LEMMA SameRegistration ==
  ASSUME IInv, NEW c \in Call, Others(c), \A v \in User : Spared(v),
         Registered(job'[c]) = Registered(job[c])
  PROVE  /\ \A v \in User : UserInv(v)'
         /\ \A d \in Call \ {c} : Shape(job[d])' /\ RegisterInv(d)'
         /\ OneRegistration'
<1>1. \A d \in Call : Registered(job'[d]) = Registered(job[d])
  BY DEF Others
<1>2. ASSUME NEW v \in User PROVE UserInv(v)'
  <2>1. UserInv(v)
    BY DEF IInv, Inv
  <2>2. (\E d \in Call : Registered(job[d]) = v) => (\E d \in Call : Registered(job[d]) = v)'
    BY <1>1
  <2> QED
    BY <2>1, <2>2 DEF UserInv, Spared
<1>3. ASSUME NEW d \in Call \ {c} PROVE Shape(job[d])' /\ RegisterInv(d)'
  <2>1. job'[d] = job[d] /\ Shape(job[d]) /\ RegisterInv(d) /\ job[d] \in Job
    BY <1>3 DEF Others, IInv, Inv, TypeOK
  <2>2. Registered(job[d]) # NoUser => Registered(job[d]) \in User
    BY <2>1 DEF Registered, Job
  <2> QED
    BY <2>1, <2>2 DEF Shape, RegisterInv, Spared
<1>4. OneRegistration'
  BY <1>1 DEF OneRegistration, IInv, Inv
<1> QED
  BY <1>2, <1>3, <1>4

\* A step that changes only the locals of its call.
LEMMA LocalStep ==
  ASSUME IInv, NEW c \in Call, UNCHANGED <<tables, history>>, TypeOK', Others(c),
         ~At(c, "drop"), Registered(job'[c]) = Registered(job[c]),
         Shape(job[c])', RowInv(c)', RegisterInv(c)'
  PROVE  IInv'
<1>2. (\A u \in User : Spared(u)) /\ KeptRows
  BY SparedAll DEF tables, history
<1>3. /\ \A v \in User : UserInv(v)'
      /\ \A d \in Call \ {c} : Shape(job[d])' /\ RegisterInv(d)'
      /\ OneRegistration'
  BY <1>2, SameRegistration
<1>4. \A d \in Call \ {c} : RowInv(d)'
  BY <1>2, RowFrame DEF Others, history
<1>5. \A k \in Secret : SessionInv(k)'
  BY SessionFrame DEF tables, history, Others
<1>6. OnlyShownLinksConfirm' /\ LinksInv'
  BY LinksFrame DEF tables, history, Rows
<1> QED
  BY <1>3, <1>4, <1>5, <1>6 DEF IInv, Inv

LEMMA QuietStep ==
  ASSUME IInv, NEW c \in Call, UNCHANGED <<tables, mix, history, faults>>,
         job' \in [Call -> Job], Others(c), ~At(c, "drop"),
         Registered(job'[c]) = Registered(job[c]),
         Shape(job[c])', RowInv(c)', RegisterInv(c)'
  PROVE  IInv'
  BY TypeQuiet, LocalStep DEF IInv

LEMMA IdleOK ==
  ASSUME NEW c \in Call, job'[c] = Idle
  PROVE  /\ Shape(job[c])' /\ RowInv(c)' /\ RegisterInv(c)'
         /\ Registered(job'[c]) = NoUser /\ job'[c].at = "idle"
  BY DEF Idle, Shape, RowInv, RegisterInv, Registered, NewUserStep, AttachStep, CutStep

(***************************************************************************)
(* Steps that change only the locals of a call.                            *)
(***************************************************************************)
LEMMA BeginStep ==
  ASSUME IInv, NEW c \in Call, NEW j \in Job, Begin(c, j),
         UNCHANGED <<tables, mix, history, faults>>,
         Shape(j), Registered(j) = NoUser, j.at \notin {"select", "mark", "delete"}
  PROVE  IInv'
<1>1. job' \in [Call -> Job] /\ Others(c) /\ job'[c] = j /\ job[c].at = "idle"
  BY Begun DEF IInv
<1>2. Registered(job[c]) = NoUser
  BY <1>1 DEF IInv, Inv, Shape, Registered, NewUserStep, AttachStep
<1>3. Shape(job[c])' /\ RowInv(c)' /\ RegisterInv(c)'
  BY <1>1 DEF Shape, RowInv, RegisterInv, Registered
<1> QED
  BY <1>1, <1>2, <1>3, QuietStep DEF At

LEMMA BeginsInv ==
  ASSUME IInv, NEW c \in Call,
         \/ \E l \in Login, a \in Address : Register(c, l, a)
         \/ \E u \in User : SignIn(c, u)
         \/ \E a \in Address : AskReset(c, a)
         \/ \E o \in {"temporary", "block", "unblock"}, u \in User : Operate(c, o, u)
         \/ \E k \in Secret : \/ \E a \in Address : AddEmail(c, k, a)
                              \/ \E e \in EmailId : RemoveEmail(c, k, e)
                              \/ UseReset(c, k) \/ ChangePassword(c, k)
  PROVE  IInv'
<1> USE DEF Idle, Job, Op, Step, Shape, Registered, NewUserStep, AttachStep, CutStep
<1>1. ASSUME NEW l \in Login, NEW a \in Address, Register(c, l, a) PROVE IInv'
  <2> DEFINE j == [Idle EXCEPT !.op = "register", !.at = "address", !.login = l, !.address = a]
  <2>1. j \in Job /\ Shape(j) /\ Registered(j) = NoUser /\ j.at = "address"
    OBVIOUS
  <2>2. Begin(c, j) /\ UNCHANGED <<tables, mix, history, faults>>
    BY <1>1 DEF Register
  <2> HIDE DEF j
  <2> QED
    BY <2>1, <2>2, BeginStep
<1>2. ASSUME NEW u \in User, SignIn(c, u) PROVE IInv'
  <2> DEFINE j == [Idle EXCEPT !.op = "signin", !.at = "row", !.user = u]
  <2>1. j \in Job /\ Shape(j) /\ Registered(j) = NoUser /\ j.at = "row"
    OBVIOUS
  <2>2. Begin(c, j) /\ UNCHANGED <<tables, mix, history, faults>>
    BY <1>2 DEF SignIn
  <2> HIDE DEF j
  <2> QED
    BY <2>1, <2>2, BeginStep
<1>3. ASSUME NEW a \in Address, AskReset(c, a) PROVE IInv'
  <2> DEFINE j == [Idle EXCEPT !.op = "ask", !.at = "ask", !.address = a]
  <2>1. j \in Job /\ Shape(j) /\ Registered(j) = NoUser /\ j.at = "ask"
    OBVIOUS
  <2>2. Begin(c, j) /\ UNCHANGED <<tables, mix, history, faults>>
    BY <1>3 DEF AskReset
  <2> HIDE DEF j
  <2> QED
    BY <2>1, <2>2, BeginStep
<1>4. ASSUME NEW o \in {"temporary", "block", "unblock"}, NEW u \in User, Operate(c, o, u) PROVE IInv'
  <2> DEFINE j == [Idle EXCEPT !.op = o, !.at = "exists", !.user = u]
  <2>1. j \in Job /\ Shape(j) /\ Registered(j) = NoUser /\ j.at = "exists"
    OBVIOUS
  <2>2. Begin(c, j) /\ UNCHANGED <<tables, mix, history, faults>>
    BY <1>4 DEF Operate
  <2> HIDE DEF j
  <2> QED
    BY <2>1, <2>2, BeginStep
<1>5. ASSUME NEW k \in Secret, Resolves(k) PROVE sessions[k].user \in User
  BY <1>5 DEF Resolves, Live, IInv, TypeOK, SessionRow
<1>6. ASSUME NEW k \in Secret, NEW a \in Address, AddEmail(c, k, a) PROVE IInv'
  <2>1. PICK u \in User : u = sessions[k].user
    BY <1>5, <1>6 DEF AddEmail
  <2> DEFINE j == [Idle EXCEPT !.op = "add", !.at = "address", !.user = u, !.address = a]
  <2>2. j \in Job /\ Shape(j) /\ Registered(j) = NoUser /\ j.at = "address"
    OBVIOUS
  <2>3. Begin(c, j) /\ UNCHANGED <<tables, mix, history, faults>>
    BY <1>6, <2>1 DEF AddEmail
  <2> HIDE DEF j
  <2> QED
    BY <2>2, <2>3, BeginStep
<1>7. ASSUME NEW k \in Secret, NEW e \in EmailId, RemoveEmail(c, k, e) PROVE IInv'
  <2>1. PICK u \in User : u = sessions[k].user
    BY <1>5, <1>7 DEF RemoveEmail
  <2> DEFINE j == [Idle EXCEPT !.op = "remove", !.at = "remove", !.user = u, !.email = e]
  <2>2. j \in Job /\ Shape(j) /\ Registered(j) = NoUser /\ j.at = "remove"
    OBVIOUS
  <2>3. Begin(c, j) /\ UNCHANGED <<tables, mix, history, faults>>
    BY <1>7, <2>1 DEF RemoveEmail
  <2> HIDE DEF j
  <2> QED
    BY <2>2, <2>3, BeginStep
<1>8. ASSUME NEW k \in Secret, UseReset(c, k) PROVE IInv'
  <2> DEFINE j == [Idle EXCEPT !.op = "reset", !.at = "use", !.secret = k]
  <2>1. j \in Job /\ Shape(j) /\ Registered(j) = NoUser /\ j.at = "use"
    OBVIOUS
  <2>2. Begin(c, j) /\ UNCHANGED <<tables, mix, history, faults>>
    BY <1>8 DEF UseReset
  <2> HIDE DEF j
  <2> QED
    BY <2>1, <2>2, BeginStep
<1>9. ASSUME NEW k \in Secret, ChangePassword(c, k) PROVE IInv'
  <2>1. PICK u \in User : u = sessions[k].user
    BY <1>5, <1>9 DEF ChangePassword
  <2> DEFINE j == [Idle EXCEPT !.op = "change", !.at = "check", !.user = u, !.secret = k]
  <2>2. j \in Job /\ Shape(j) /\ Registered(j) = NoUser /\ j.at = "check"
    OBVIOUS
  <2>3. Begin(c, j) /\ UNCHANGED <<tables, mix, history, faults>>
    BY <1>9, <2>1 DEF ChangePassword
  <2> HIDE DEF j
  <2> QED
    BY <2>2, <2>3, BeginStep
<1> QED
  BY <1>1, <1>2, <1>3, <1>4, <1>6, <1>7, <1>8, <1>9

LEMMA EndStep ==
  ASSUME IInv, NEW c \in Call, End(c), UNCHANGED <<tables, mix, history, faults>>,
         ~At(c, "drop"), Registered(job[c]) = NoUser
  PROVE  IInv'
  BY Ended, IdleOK, QuietStep DEF IInv

\* A call that goes on to a step with no condition of its own.
LEMMA GoStep ==
  ASSUME IInv, NEW c \in Call, NEW step \in Step \ {"idle", "select", "mark", "delete"},
         Move(c, step), UNCHANGED <<tables, mix, history, faults>>, ~At(c, "drop"),
         Goes(c, step) => Shape(job[c])' /\ RegisterInv(c)'
  PROVE  IInv'
<1>1. job' \in [Call -> Job] /\ Others(c) /\ Goes(c, step)
  BY Moved DEF IInv
<1>2. Registered(job'[c]) = Registered(job[c]) /\ RowInv(c)'
  BY <1>1 DEF Goes, Registered, RowInv
<1> QED
  BY <1>1, <1>2, QuietStep

\* Outside a registration that has its user.
LEMMA PlainStep ==
  ASSUME IInv, NEW c \in Call, NEW step \in Step \ {"select", "mark", "delete"},
         Move(c, step), UNCHANGED <<tables, mix, history, faults>>, ~At(c, "drop"),
         Registered(job[c]) = NoUser, Goes(c, step) => Shape(job[c])'
  PROVE  IInv'
<1>1. CASE step = "idle"
  BY <1>1, EndStep DEF End
<1>2. CASE step # "idle"
  <2>1. Goes(c, step) => RegisterInv(c)'
    BY DEF Goes, RegisterInv, Registered
  <2> QED
    BY <1>2, <2>1, GoStep
<1> QED
  BY <1>1, <1>2

LEMMA RegisterMoves ==
  ASSUME IInv, NEW c \in Call,
         CheckAddress(c) \/ LoginTaken(c) \/ MakeDatabase(c) \/ FindUser(c) \/ CannotAttach(c)
  PROVE  IInv'
<1> USE DEF Shape, NewUserStep, AttachStep, CutStep
<1>1. Shape(job[c]) /\ RegisterInv(c) /\ job[c] \in Job
  BY DEF IInv, Inv, TypeOK
<1>2. CASE CheckAddress(c)
  <2>1. job[c].at = "address" /\ Registered(job[c]) = NoUser /\ ~At(c, "drop")
    BY <1>1, <1>2 DEF CheckAddress, At, Registered
  <2>2. CASE Taken(job[c].address)
    BY <1>2, <2>1, <2>2, EndStep DEF CheckAddress, End
  <2>3. CASE ~Taken(job[c].address) /\ job[c].op = "register"
    <3>1. Goes(c, "create") => Shape(job[c])'
      BY <1>1, <2>1, <2>3 DEF Goes
    <3> QED
      BY <1>2, <2>1, <2>3, <3>1, PlainStep DEF CheckAddress, Step
  <2>4. CASE ~Taken(job[c].address) /\ job[c].op # "register"
    <3>1. Goes(c, "attach") => Shape(job[c])'
      BY <1>1, <2>1, <2>4 DEF Goes
    <3> QED
      BY <1>2, <2>1, <2>4, <3>1, PlainStep DEF CheckAddress, Step
  <2> QED
    BY <2>2, <2>3, <2>4
<1>3. CASE LoginTaken(c)
  <2>1. Registered(job[c]) = NoUser /\ ~At(c, "drop")
    BY <1>1, <1>3 DEF LoginTaken, At, Registered
  <2> QED
    BY <1>3, <2>1, EndStep DEF LoginTaken
<1>4. CASE MakeDatabase(c)
  <2>1. job[c].at = "database" /\ job[c].op = "register" /\ ~At(c, "drop")
        /\ UNCHANGED <<tables, mix, history, faults>>
    BY <1>1, <1>4 DEF MakeDatabase, At
  <2>2. CASE Move(c, "find")
    <3>1. Goes(c, "find") => Shape(job[c])' /\ RegisterInv(c)'
      BY <1>1, <2>1 DEF Goes, RegisterInv, Registered, Exists, Primary, EmailsOf, Rows, tables, history
    <3> QED
      BY <2>1, <2>2, <3>1, GoStep DEF Step
  <2>3. CASE Raise(c)
    <3>1. Move(c, "uncreate")
      BY <2>1, <2>3 DEF Raise, Handler
    <3>2. Goes(c, "uncreate") => Shape(job[c])' /\ RegisterInv(c)'
      BY <1>1, <2>1 DEF Goes, RegisterInv, Registered, Exists, tables, history
    <3> QED
      BY <2>1, <3>1, <3>2, GoStep DEF Step
  <2> QED
    BY <1>4, <2>2, <2>3 DEF MakeDatabase
<1>5. CASE FindUser(c)
  <2>1. job[c].at = "find" /\ job[c].op = "register" /\ ~At(c, "drop")
        /\ UNCHANGED <<tables, mix, history, faults>> /\ Move(c, "attach")
    BY <1>1, <1>5 DEF FindUser, At
  <2>2. Goes(c, "attach") => Shape(job[c])' /\ RegisterInv(c)'
    BY <1>1, <2>1 DEF Goes, RegisterInv, Registered, Exists, Primary, EmailsOf, Rows, tables, history
  <2> QED
    BY <2>1, <2>2, GoStep DEF Step
<1>6. CASE CannotAttach(c)
  <2>1. job[c].at = "attach" /\ ~At(c, "drop")
        /\ UNCHANGED <<tables, mix, history, faults>> /\ Raise(c)
    BY <1>6 DEF CannotAttach, At
  <2>2. CASE job[c].op = "register"
    <3>1. Move(c, "undo")
      BY <2>1, <2>2 DEF Raise, Handler
    <3>2. Goes(c, "undo") => Shape(job[c])' /\ RegisterInv(c)'
      BY <1>1, <2>1, <2>2 DEF Goes, RegisterInv, Registered, Exists, tables, history
    <3> QED
      BY <2>1, <3>1, <3>2, GoStep DEF Step
  <2>3. CASE job[c].op # "register"
    BY <2>1, <2>3, EndStep DEF Raise, Handler, End, Registered
  <2> QED
    BY <2>2, <2>3
<1> QED
  BY <1>2, <1>3, <1>4, <1>5, <1>6

LEMMA OtherMoves ==
  ASSUME IInv, NEW c \in Call,
         ReadUser(c) \/ CheckEmails(c) \/ CheckPassword(c) \/ CheckExists(c)
  PROVE  IInv'
<1> USE DEF Shape, NewUserStep, AttachStep, CutStep
<1>1. Shape(job[c]) /\ job[c] \in Job
  BY DEF IInv, Inv, TypeOK
<1>2. /\ job[c].at \in {"row", "emails", "check", "exists"} /\ ~At(c, "drop")
      /\ UNCHANGED <<tables, mix, history, faults>>
  BY DEF ReadUser, CheckEmails, CheckPassword, CheckExists, At
<1>3. Registered(job[c]) = NoUser
  BY <1>1, <1>2 DEF Registered
<1>4. \E step \in {"idle", "emails", "open", "write", "drop"} :
          /\ Move(c, step)
          /\ step \in {"write", "drop"} => job[c].at \in {"check", "exists"}
  BY Steps DEF ReadUser, CheckEmails, CheckPassword, CheckExists, End, At
<1>5. PICK step \in {"idle", "emails", "open", "write", "drop"} :
          /\ Move(c, step)
          /\ step \in {"write", "drop"} => job[c].at \in {"check", "exists"}
  BY <1>4
<1>6. Goes(c, step) => Shape(job[c])'
  BY <1>1, <1>2, <1>3, <1>5 DEF Goes
<1> QED
  BY <1>2, <1>3, <1>5, <1>6, PlainStep DEF Step

LEMMA CheckRemovableInv ==
  ASSUME IInv, NEW c \in Call, CheckRemovable(c)
  PROVE  IInv'
<1>1. PICK e \in EmailId : e = job[c].email /\ job[c].at = "remove" /\ Shape(job[c])
  BY DEF CheckRemovable, At, IInv, Inv, Shape
<1>2. Registered(job[c]) = NoUser /\ ~At(c, "drop") /\ UNCHANGED <<tables, mix, history, faults>>
  BY <1>1 DEF CheckRemovable, Shape, Registered, At, NewUserStep, AttachStep
<1>3. CASE e \in EmailsOf(job[c].user) /\ ~emails[e].primary
  <2>1. Move(c, "delete")
    BY <1>1, <1>3 DEF CheckRemovable
  <2>2. job' \in [Call -> Job] /\ Others(c) /\ Goes(c, "delete")
    BY <2>1, Moved DEF IInv, Step
  <2>3. Shape(job[c])' /\ RegisterInv(c)' /\ Registered(job'[c]) = NoUser
    BY <1>1, <1>2, <2>2 DEF Goes, Shape, RegisterInv, Registered, NewUserStep, AttachStep, CutStep
  <2>4. RowInv(c)'
    BY <1>1, <1>2, <1>3, <2>2 DEF Goes, RowInv, tables
  <2> QED
    BY <1>2, <2>2, <2>3, <2>4, QuietStep
<1>4. CASE ~(e \in EmailsOf(job[c].user) /\ ~emails[e].primary)
  BY <1>1, <1>2, <1>4, EndStep DEF CheckRemovable, End
<1> QED
  BY <1>3, <1>4

\* Where a call keeps what it has found: the row of a link, the user of an address or
\* of a reset.
LEMMA FindsInv ==
  ASSUME IInv, NEW c \in Call, SelectLink(c) \/ FindAddress(c) \/ FindReset(c)
  PROVE  IInv'
<1>1. Shape(job[c]) /\ RowInv(c) /\ job[c] \in Job /\ job \in [Call -> Job]
  BY DEF IInv, Inv, TypeOK
<1>2. /\ job[c].at \in {"select", "ask", "use"} /\ Registered(job[c]) = NoUser /\ ~At(c, "drop")
      /\ UNCHANGED <<tables, mix, history, faults>>
  BY <1>1 DEF SelectLink, FindAddress, FindReset, Shape, Registered, At, NewUserStep, AttachStep
<1>3. CASE End(c)
  BY <1>2, <1>3, EndStep
<1>4. ASSUME NEW e \in Rows, SelectLink(c), Matches(e, job[c].secret),
             job' = [job EXCEPT ![c].at = "mark", ![c].email = e]
      PROVE  IInv'
  <2>1. job[c].op # "register" /\ job[c].op # "add" /\ job[c].at = "select"
    BY <1>1, <1>4 DEF SelectLink, At, Shape, NewUserStep, AttachStep
  <2> DEFINE j == [job[c] EXCEPT !.at = "mark", !.email = e]
  <2>2. /\ j \in Job /\ j.at = "mark" /\ j.email = e /\ j.op = job[c].op /\ j.secret = job[c].secret
        /\ e \in EmailId
    BY <1>1 DEF Job, Step, Rows
  <2>3. job' = [job EXCEPT ![c] = j]
    BY <1>1, <1>4
  <2> HIDE DEF j
  <2>4. job' \in [Call -> Job] /\ Others(c) /\ job'[c] = j
    BY <1>1, <2>2, <2>3 DEF Others
  <2>5. Shape(job[c])' /\ RegisterInv(c)' /\ Registered(job'[c]) = NoUser
    BY <2>1, <2>2, <2>4 DEF Shape, RegisterInv, Registered, NewUserStep, AttachStep, CutStep
  <2>6. RowInv(c)'
    BY <1>1, <1>2, <1>4, <2>1, <2>2, <2>4 DEF RowInv, Matches, tables, history
  <2> QED
    BY <1>2, <2>4, <2>5, <2>6, QuietStep
<1>5. ASSUME NEW u \in User, NEW step \in {"store", "consume"}, job[c].op \in {"ask", "reset"},
             step = "consume" => job[c].op = "reset",
             job' = [job EXCEPT ![c].at = step, ![c].user = u]
      PROVE  IInv'
  <2> DEFINE j == [job[c] EXCEPT !.at = step, !.user = u]
  <2>1. /\ j \in Job /\ j.at = step /\ j.user = u /\ j.op = job[c].op
    BY <1>1 DEF Job, Step
  <2>2. job' = [job EXCEPT ![c] = j]
    BY <1>1, <1>5
  <2> HIDE DEF j
  <2>3. job' \in [Call -> Job] /\ Others(c) /\ job'[c] = j
    BY <1>1, <2>1, <2>2 DEF Others
  <2>4. Shape(job[c])' /\ RegisterInv(c)' /\ Registered(job'[c]) = NoUser /\ RowInv(c)'
    BY <1>5, <2>1, <2>3
    DEF Shape, RegisterInv, Registered, RowInv, NewUserStep, AttachStep, CutStep
  <2> QED
    BY <1>2, <2>3, <2>4, QuietStep
<1>6. CASE SelectLink(c)
  BY <1>3, <1>4, <1>6 DEF SelectLink
<1>7. CASE FindAddress(c)
  <2>1. job[c].op = "ask"
    BY <1>1, <1>7 DEF FindAddress, At, Shape
  <2>2. \A e \in Rows : emails[e].user \in User
    BY DEF IInv, TypeOK, Rows, EmailRow
  <2> QED
    BY <1>3, <1>5, <1>7, <2>1, <2>2 DEF FindAddress
<1>8. CASE FindReset(c)
  <2>1. job[c].op = "reset"
    BY <1>1, <1>8 DEF FindReset, At, Shape
  <2> QED
    BY <1>3, <1>5, <1>8, <2>1 DEF FindReset
<1> QED
  BY <1>6, <1>7, <1>8

(***************************************************************************)
(* Steps of a registration that write.                                     *)
(***************************************************************************)
LEMMA CreateUserInv ==
  ASSUME IInv, NEW c \in Call, NEW u \in User, CreateUser(c, u)
  PROVE  IInv'
<1>1. /\ TypeOK' /\ Others(c)
      /\ job'[c].at = "database" /\ job'[c].user = u /\ job'[c].op = job[c].op
      /\ job'[c].login = job[c].login /\ job'[c].address = job[c].address
      /\ users'[u] # NoRow /\ \A v \in User \ {u} : users'[v] = users[v]
  BY TypeCreateUser
<1>2. /\ UNCHANGED <<emails, sessions, resets, told, spent, shown, cut, unswept, unfinished,
                     recycled, mix, faults>>
      /\ born' = born \cup {u} /\ u \notin born /\ job[c].at = "create"
  BY DEF CreateUser, At
<1>3. job[c].op = "register" /\ job[c].user = NoUser /\ Shape(job[c])
  BY <1>2 DEF IInv, Inv, Shape
<1>4. ~Exists(u) /\ u \notin told /\ EmailsOf(u) = {}
  BY <1>2 DEF IInv, Inv, UserInv, TypeOK
<1>5. Registered(job[c]) = NoUser /\ Registered(job'[c]) = u
  BY <1>1, <1>3 DEF Registered
<1>6. \A d \in Call \ {c} : Registered(job[d]) # u
  BY <1>4, AccountsAssumption DEF IInv, Inv, RegisterInv
<1>7. \A v \in User : Primary(v)' = Primary(v)
  BY <1>2 DEF Primary, EmailsOf, Rows
<1>8. \A v \in User \ {u} : Spared(v)
  BY <1>1, <1>2, <1>7 DEF Spared, Exists
<1>9. /\ \A v \in User \ {u} : UserInv(v)'
      /\ \A d \in Call \ {c} : Shape(job[d])' /\ RegisterInv(d)'
      /\ OneRegistration'
  BY <1>1, <1>5, <1>6, <1>8, UsersFrame
<1>10. UserInv(u)'
  BY <1>1, <1>2, <1>4, <1>5 DEF UserInv, Exists
<1>11. RegisterInv(c)'
  BY <1>1, <1>2, <1>4, <1>5, <1>7 DEF RegisterInv, Exists, Primary
<1>12. Shape(job[c])'
  BY <1>1, <1>3, <1>2, AccountsAssumption DEF Shape, NewUserStep, AttachStep, CutStep
<1>13. RowInv(c)' /\ \A d \in Call \ {c} : RowInv(d)'
  BY <1>1, <1>2, RowFrame DEF Others, KeptRows, Rows, RowInv
<1>14. \A k \in Secret : SessionInv(k)'
  BY <1>1, <1>2, SessionFrame DEF Others, At
<1>15. OnlyShownLinksConfirm' /\ LinksInv'
  BY <1>2, LinksFrame DEF Rows
<1> QED
  BY <1>1, <1>9, <1>10, <1>11, <1>12, <1>13, <1>14, <1>15 DEF IInv, Inv

\* A call that registers u and ends.
LEMMA RegistrationEnds ==
  ASSUME IInv, TypeOK', NEW c \in Call, NEW u \in User, u = Registered(job[c]), End(c),
         KeptRows, \A e \in Rows' : emails'[e] = emails[e],
         UNCHANGED <<sessions, spent, shown, cut, recycled>>,
         unswept' = unswept, ~At(c, "drop"),
         \A v \in User \ {u} : Spared(v), UserInv(u)'
  PROVE  IInv'
<1>1. Others(c) /\ job'[c] = Idle
  BY Ended DEF IInv
<1>2. Shape(job[c])' /\ RowInv(c)' /\ RegisterInv(c)' /\ Registered(job'[c]) = NoUser
  BY <1>1, IdleOK
<1>3. \A d \in Call \ {c} : Registered(job[d]) # u
  BY AccountsAssumption DEF IInv, Inv, OneRegistration
<1>4. /\ \A v \in User \ {u} : UserInv(v)'
      /\ \A d \in Call \ {c} : Shape(job[d])' /\ RegisterInv(d)'
      /\ OneRegistration'
  BY <1>1, <1>2, <1>3, UsersFrame
<1>5. \A d \in Call \ {c} : RowInv(d)'
  BY <1>1, RowFrame DEF Others
<1>6. \A k \in Secret : SessionInv(k)'
  BY <1>1, SessionFrame DEF Others
<1>7. OnlyShownLinksConfirm' /\ LinksInv'
  BY LinksFrame DEF KeptRows
<1> QED
  BY <1>2, <1>4, <1>5, <1>6, <1>7 DEF IInv, Inv

\* What a registration at a step after its row knows.
LEMMA Registers ==
  ASSUME IInv, NEW c \in Call, job[c].op = "register", job[c].at \notin {"address", "create"}
  PROVE  \E u \in User : /\ u = job[c].user /\ u = Registered(job[c]) /\ Exists(u) /\ u \in born
                         /\ u \notin told /\ RegisterInv(c)
<1>1. job[c].user \in User /\ job[c].user # NoUser
  BY DEF IInv, Inv, Shape, TypeOK, Job
<1>2. Registered(job[c]) = job[c].user
  BY DEF Registered
<1>3. RegisterInv(c) /\ UserInv(job[c].user)
  BY <1>1 DEF IInv, Inv
<1> QED
  BY <1>1, <1>2, <1>3 DEF RegisterInv, UserInv

LEMMA UncreateInv ==
  ASSUME IInv, NEW c \in Call, Uncreate(c)
  PROVE  IInv'
<1>1. job[c].at = "uncreate" /\ job[c].op = "register"
  BY DEF Uncreate, At, IInv, Inv, Shape
<1>2. PICK u \in User : /\ u = job[c].user /\ u = Registered(job[c]) /\ Exists(u) /\ u \in born
                        /\ u \notin told
  BY <1>1, Registers
<1>3. /\ UNCHANGED <<emails, sessions, resets, born, told, spent, shown, cut, unswept,
                     recycled, mix, faults>>
      /\ End(c) /\ ~At(c, "drop") /\ u \notin told'
  BY <1>1, <1>2 DEF Uncreate, At
<1>4. TypeOK'
  BY TypeUncreate
<1>5. KeptRows /\ \A e \in Rows' : emails'[e] = emails[e]
  BY <1>3 DEF KeptRows, Rows
<1>6. \A v \in User : Primary(v)' = Primary(v)
  BY <1>3 DEF Primary, EmailsOf, Rows
<1>7. CASE Referred(u) \/ EmailsOf(u) # {}
  <2>1. unfinished' = unfinished \cup {u} /\ users' = users
    BY <1>2, <1>7 DEF Uncreate
  <2>2. \A v \in User \ {u} : Spared(v)
    BY <1>3, <1>6, <2>1 DEF Spared, Exists
  <2>3. UserInv(u)'
    BY <1>2, <1>3, <2>1 DEF UserInv, Exists
  <2> QED
    BY <1>2, <1>3, <1>4, <1>5, <2>2, <2>3, RegistrationEnds
<1>8. CASE ~(Referred(u) \/ EmailsOf(u) # {})
  <2>1. users' = [users EXCEPT ![u] = NoRow] /\ unfinished' = unfinished
    BY <1>2, <1>8 DEF Uncreate
  <2>2. users'[u] = NoRow /\ \A v \in User \ {u} : users'[v] = users[v]
    BY <2>1 DEF IInv, TypeOK
  <2>3. \A v \in User \ {u} : Spared(v)
    BY <1>3, <1>6, <2>1, <2>2 DEF Spared, Exists
  <2>4. UserInv(u)'
    BY <1>3, <2>2 DEF UserInv, Exists
  <2> QED
    BY <1>2, <1>3, <1>4, <1>5, <2>3, <2>4, RegistrationEnds
<1> QED
  BY <1>7, <1>8

LEMMA UndoInv ==
  ASSUME IInv, NEW c \in Call, Undo(c)
  PROVE  IInv'
<1>1. job[c].at = "undo" /\ job[c].op = "register"
  BY DEF Undo, At, IInv, Inv, Shape
<1>2. PICK u \in User : /\ u = job[c].user /\ u = Registered(job[c]) /\ Exists(u) /\ u \in born
                        /\ u \notin told
  BY <1>1, Registers
<1>3. /\ UNCHANGED <<sessions, resets, born, told, spent, shown, cut, unswept,
                     recycled, mix, faults>>
      /\ End(c) /\ ~At(c, "drop") /\ u \notin told'
  BY <1>1, <1>2 DEF Undo, At
<1>4. TypeOK'
  BY TypeUndo
<1>5. CASE Referred(u)
  <2>1. unfinished' = unfinished \cup {u} /\ users' = users /\ emails' = emails
    BY <1>2, <1>5 DEF Undo
  <2>2. \A v \in User \ {u} : Spared(v)
    BY <1>3, <2>1 DEF Spared, Exists, Primary, EmailsOf, Rows
  <2>3. UserInv(u)'
    BY <1>2, <1>3, <2>1 DEF UserInv, Exists
  <2>4. KeptRows /\ \A e \in Rows' : emails'[e] = emails[e]
    BY <2>1 DEF KeptRows, Rows
  <2> QED
    BY <1>2, <1>3, <1>4, <2>2, <2>3, <2>4, RegistrationEnds
<1>6. CASE ~Referred(u)
  <2>1. /\ users' = [users EXCEPT ![u] = NoRow] /\ unfinished' = unfinished
        /\ emails' = [e \in EmailId |-> IF e \in EmailsOf(u) THEN NoRow ELSE emails[e]]
    BY <1>2, <1>6 DEF Undo
  <2>2. users'[u] = NoRow /\ \A v \in User \ {u} : users'[v] = users[v]
    BY <2>1 DEF IInv, TypeOK
  <2>3. Rows' = Rows \ EmailsOf(u) /\ \A e \in Rows' : emails'[e] = emails[e]
    BY <2>1 DEF Rows
  <2>4. \A v \in User \ {u} : Primary(v)' = Primary(v)
    BY <2>3 DEF Primary, EmailsOf
  <2>5. \A v \in User \ {u} : Spared(v)
    BY <1>3, <2>1, <2>2, <2>4 DEF Spared, Exists
  <2>6. UserInv(u)'
    BY <1>3, <2>2 DEF UserInv, Exists
  <2>7. KeptRows
    BY <2>3 DEF KeptRows
  <2> QED
    BY <1>2, <1>3, <1>4, <2>3, <2>5, <2>6, <2>7, RegistrationEnds
<1> QED
  BY <1>5, <1>6

(***************************************************************************)
(* _attach_email                                                           *)
(***************************************************************************)
LEMMA AttachInv ==
  ASSUME IInv, NEW c \in Call, NEW e \in EmailId, NEW k \in Secret \cup {NoSecret}, Attach(c, e, k)
  PROVE  IInv'
<1>1. /\ TypeOK' /\ Others(c)
      /\ job'[c].at = "reselect" /\ job'[c].email = e /\ job'[c].secret = k
      /\ job'[c].op = job[c].op /\ job'[c].user = job[c].user /\ job'[c].login = job[c].login
      /\ e \notin Rows /\ Rows' = Rows \cup {e}
      /\ \A f \in EmailId \ {e} : emails'[f] = emails[f]
      /\ emails'[e].user = job[c].user /\ emails'[e].link = k
      /\ emails'[e].primary = (job[c].op = "register")
      /\ emails'[e].confirmed = (k = NoSecret)
  BY TypeAttach
<1>2. /\ UNCHANGED <<users, sessions, resets, born, told, shown, cut, unswept, unfinished, mix, faults>>
      /\ spent' = spent \cup ({k} \cap Secret) /\ job[c].at = "attach"
      /\ recycled' = (recycled \/ \E d \in Call : job[d].email = e /\ job[d].at \in {"delete", "mark"})
  BY DEF Attach, At
<1>3. Shape(job[c]) /\ RegisterInv(c) /\ RowInv(c) /\ recycled \in BOOLEAN /\ job[c] \in Job
  BY DEF IInv, Inv, TypeOK
<1>4. PICK u \in User : u = job[c].user
  BY <1>2, <1>3 DEF Shape, Job, AttachStep
<1>5. \A v \in User : EmailsOf(v)' = IF v = u THEN EmailsOf(v) \cup {e} ELSE EmailsOf(v)
  BY <1>1, <1>4 DEF EmailsOf, Rows
<1>6. \A v \in User : Primary(v)' = IF v = u /\ job[c].op = "register" THEN Primary(v) \cup {e}
                                    ELSE Primary(v)
  <2> TAKE v \in User
  <2>1. EmailsOf(v)' = IF v = u THEN EmailsOf(v) \cup {e} ELSE EmailsOf(v)
    BY <1>5
  <2>2. \A f \in EmailsOf(v) : emails'[f] = emails[f]
    BY <1>1 DEF EmailsOf, Rows
  <2>3. Primary(v)' = {f \in EmailsOf(v)' : emails'[f].primary}
    BY DEF Primary
  <2>4. Primary(v) = {f \in EmailsOf(v) : emails'[f].primary}
    BY <2>2 DEF Primary
  <2>5. emails'[e].primary = (job[c].op = "register")
    BY <1>1
  <2> QED
    BY <2>1, <2>3, <2>4, <2>5
<1>7. Registered(job'[c]) = Registered(job[c])
  BY <1>1 DEF Registered
<1>8. /\ \A v \in User : UserInv(v)'
      /\ \A d \in Call \ {c} : Shape(job[d])' /\ RegisterInv(d)'
      /\ OneRegistration' /\ RegisterInv(c)'
  <2>1. CASE job[c].op = "register"
    <3>1. u = Registered(job[c]) /\ Exists(u) /\ u \notin told /\ u \in born
      BY <1>2, <1>4, <2>1, Registers
    <3>2. \A v \in User \ {u} : Spared(v)
      BY <1>2, <1>3, <1>6 DEF Spared, Exists
    <3>3. \A d \in Call \ {c} : Registered(job[d]) # u
      BY <3>1, AccountsAssumption DEF IInv, Inv, OneRegistration
    <3>4. /\ \A v \in User \ {u} : UserInv(v)'
          /\ \A d \in Call \ {c} : Shape(job[d])' /\ RegisterInv(d)'
          /\ OneRegistration'
      BY <1>1, <1>7, <3>1, <3>2, <3>3, UsersFrame
    <3>5. UserInv(u)'
      BY <1>2, <1>7, <3>1 DEF UserInv, Exists
    <3>6. RegisterInv(c)'
      BY <1>1, <1>2, <1>3, <1>4, <1>6, <1>7, <2>1, <3>1, AccountsAssumption DEF RegisterInv, Exists
    <3> QED
      BY <3>4, <3>5, <3>6
  <2>2. CASE job[c].op # "register"
    <3>1. \A v \in User : Spared(v)
      BY <1>2, <1>3, <1>6, <2>2 DEF Spared, Exists
    <3>2. RegisterInv(c)'
      BY <1>7, <2>2 DEF RegisterInv, Registered
    <3> QED
      BY <1>1, <1>7, <3>1, <3>2, SameRegistration
  <2> QED
    BY <2>1, <2>2
<1>9. Shape(job[c])'
  BY <1>1, <1>2, <1>3 DEF Shape, NewUserStep, AttachStep, CutStep
<1>10. RowInv(c)'
  BY <1>1 DEF RowInv
<1>11. ASSUME NEW d \in Call \ {c} PROVE RowInv(d)'
  <2>1. job'[d] = job[d] /\ RowInv(d) /\ Shape(job[d])
    BY <1>1, <1>11 DEF Others, IInv, Inv
  <2>2. job[d].at \in {"delete", "mark"} /\ ~recycled' => job[d].email # e /\ job[d].email \in EmailId
    BY <1>2, <1>11, <2>1 DEF Shape
  <2> QED
    BY <1>1, <1>2, <1>3, <2>1, <2>2 DEF RowInv
<1>12. \A s \in Secret : SessionInv(s)'
  BY <1>1, <1>2, SessionFrame DEF Others, At
<1>13. OnlyShownLinksConfirm' /\ LinksInv'
  <2>1. \A f \in Rows : emails'[f] = emails[f]
    BY <1>1 DEF Rows
  <2>2. OnlyShownLinksConfirm'
    BY <1>1, <1>2, <1>3, <2>1 DEF OnlyShownLinksConfirm, IInv, Inv
  <2>3. LinksInv'
    BY <1>1, <1>2, <2>1 DEF LinksInv, IInv, Inv
  <2> QED
    BY <2>2, <2>3
<1> QED
  BY <1>1, <1>8, <1>9, <1>10, <1>11, <1>12, <1>13 DEF IInv, Inv

\* The answer of a registration, or of add_email.
LEMMA AnswerInv ==
  ASSUME IInv, TypeOK', NEW c \in Call, job[c].at \in {"reselect", "mail"}, Answer(c),
         UNCHANGED <<tables, born, spent, shown, cut, unswept, unfinished, recycled, mix, faults>>
  PROVE  IInv'
<1>1. ~At(c, "drop") /\ End(c)
  BY DEF At, Answer
<1>2. CASE job[c].op = "register"
  <2>1. PICK u \in User : /\ u = job[c].user /\ u = Registered(job[c]) /\ Exists(u) /\ u \in born
                          /\ RegisterInv(c)
    BY <1>2, Registers
  <2>2. told' = told \cup {u}
    BY <1>2, <2>1 DEF Answer
  <2>3. job[c].email \in EmailId /\ (~recycled => Primary(u) = {job[c].email})
    BY <2>1, AccountsAssumption DEF IInv, Inv, Shape, RegisterInv
  <2>4. \A v \in User : Primary(v)' = Primary(v)
    BY DEF tables, Primary, EmailsOf, Rows
  <2>5. \A v \in User \ {u} : Spared(v)
    BY <2>2, <2>4 DEF tables, Spared, Exists
  <2>6. UserInv(u)'
    BY <2>1, <2>2, <2>3, <2>4 DEF tables, UserInv, Exists
  <2>7. KeptRows /\ \A e \in Rows' : emails'[e] = emails[e]
    BY DEF tables, KeptRows, Rows
  <2> QED
    BY <1>1, <2>1, <2>5, <2>6, <2>7, RegistrationEnds DEF tables
<1>3. CASE job[c].op # "register"
  BY <1>1, <1>3, EndStep DEF Answer, history, Registered
<1> QED
  BY <1>2, <1>3

LEMMA AnswersInv ==
  ASSUME IInv, NEW c \in Call, Reselect(c) \/ SendLink(c)
  PROVE  IInv'
<1>1. /\ UNCHANGED <<tables, born, spent, shown, cut, unswept, unfinished, recycled, mix, faults>>
      /\ job[c].at \in {"reselect", "mail"} /\ ~At(c, "drop")
  BY DEF Reselect, SendLink, At
<1>2. Shape(job[c]) /\ RegisterInv(c)
  BY DEF IInv, Inv
<1>3. CASE Answer(c)
  BY <1>1, <1>3, TypeAnswers, AnswerInv
<1>4. CASE Raise(c) /\ UNCHANGED told
  <2>1. CASE job[c].op = "register"
    <3>1. Move(c, "undo")
      BY <1>1, <1>4, <2>1 DEF Raise, Handler
    <3>2. Goes(c, "undo") => Shape(job[c])' /\ RegisterInv(c)'
      BY <1>1, <1>2, <1>4, <2>1
      DEF Goes, Shape, RegisterInv, Registered, Exists, tables, NewUserStep, AttachStep, CutStep
    <3> QED
      BY <1>1, <1>4, <3>1, <3>2, GoStep DEF Step, history
  <2>2. CASE job[c].op # "register"
    BY <1>1, <1>4, <2>2, EndStep DEF Raise, Handler, End, Registered, history
  <2> QED
    BY <2>1, <2>2
<1>5. CASE job[c].at = "reselect" /\ Move(c, "mail") /\ UNCHANGED told
  <2>1. Goes(c, "mail") => Shape(job[c])' /\ RegisterInv(c)'
    BY <1>1, <1>2, <1>5
    DEF Goes, Shape, RegisterInv, Registered, Exists, Primary, EmailsOf, Rows, tables,
        NewUserStep, AttachStep, CutStep
  <2> QED
    BY <1>1, <1>5, <2>1, GoStep DEF Step, history
<1> QED
  BY <1>3, <1>4, <1>5 DEF Reselect, SendLink, At

(***************************************************************************)
(* confirm_email and remove_email                                          *)
(***************************************************************************)
\* A call about an address row ends, or begins.
LEMMA LinkStep ==
  ASSUME IInv, TypeOK', NEW c \in Call, Others(c), ~At(c, "drop"),
         Registered(job[c]) = NoUser, Registered(job'[c]) = NoUser,
         UNCHANGED <<users, sessions, born, told, spent, cut, unswept, unfinished, recycled>>,
         shown \subseteq shown', KeptRows, ~recycled => \A v \in User : Primary(v)' = Primary(v),
         Shape(job[c])', RowInv(c)', OnlyShownLinksConfirm'
  PROVE  IInv'
<1>1. \A v \in User : Spared(v)
  BY DEF Spared, Exists
<1>2. /\ \A v \in User : UserInv(v)'
      /\ \A d \in Call \ {c} : Shape(job[d])' /\ RegisterInv(d)'
      /\ OneRegistration'
  BY <1>1, SameRegistration
<1>3. RegisterInv(c)'
  BY DEF RegisterInv
<1>4. \A d \in Call \ {c} : RowInv(d)'
  BY RowFrame DEF Others
<1>5. \A k \in Secret : SessionInv(k)'
  BY SessionFrame DEF Others
<1>6. LinksInv'
  BY DEF IInv, Inv, LinksInv, KeptRows
<1> QED
  BY <1>2, <1>3, <1>4, <1>5, <1>6 DEF IInv, Inv

LEMMA OpenLinkInv ==
  ASSUME IInv, NEW c \in Call, NEW k \in Secret, OpenLink(c, k)
  PROVE  IInv'
<1> DEFINE j == [Idle EXCEPT !.op = "confirm", !.at = "select", !.secret = k]
<1>1. /\ j \in Job /\ Shape(j) /\ Registered(j) = NoUser /\ j.at = "select" /\ j.secret = k
  BY DEF Idle, Job, Op, Step, Shape, Registered, NewUserStep, AttachStep, CutStep
<1>2. Begin(c, j) /\ shown' = shown \cup {k}
      /\ UNCHANGED <<tables, born, told, spent, cut, unswept, unfinished, recycled, mix, faults>>
  BY DEF OpenLink
<1> HIDE DEF j
<1>3. Others(c) /\ job'[c] = j /\ job[c].at = "idle"
  BY <1>1, <1>2, Begun DEF IInv
<1>4. Registered(job[c]) = NoUser /\ ~At(c, "drop")
  BY <1>3 DEF IInv, Inv, Shape, Registered, At, NewUserStep, AttachStep
<1>5. TypeOK'
  BY TypeLinks
<1>6. Shape(job[c])' /\ RowInv(c)'
  BY <1>1, <1>2, <1>3 DEF Shape, RowInv
<1>7. KeptRows /\ \A v \in User : Primary(v)' = Primary(v)
  BY <1>2 DEF tables, KeptRows, Primary, EmailsOf, Rows
<1>8. OnlyShownLinksConfirm'
  BY <1>2, LinksFrame DEF tables, Rows
<1> QED
  BY <1>1, <1>2, <1>3, <1>4, <1>5, <1>6, <1>7, <1>8, LinkStep DEF tables

LEMMA MarkConfirmedInv ==
  ASSUME IInv, NEW c \in Call, MarkConfirmed(c)
  PROVE  IInv'
<1>1. PICK e \in EmailId : e = job[c].email /\ job[c].at = "mark" /\ RowInv(c)
                           /\ Registered(job[c]) = NoUser
  BY DEF MarkConfirmed, At, IInv, Inv, Shape, Registered
<1>2. UNCHANGED <<users, sessions, resets, history, mix, faults>> /\ End(c)
  BY DEF MarkConfirmed
<1>3. TypeOK'
  BY TypeLinks
<1>4. Others(c) /\ job'[c] = Idle /\ ~At(c, "drop")
  BY <1>1, <1>2, Ended DEF IInv, At
<1>5. Shape(job[c])' /\ RowInv(c)' /\ Registered(job'[c]) = NoUser
  BY <1>4, IdleOK
<1>6. /\ Rows' = Rows
      /\ \A f \in Rows : /\ emails'[f].user = emails[f].user /\ emails'[f].link = emails[f].link
                         /\ emails'[f].primary = emails[f].primary
                         /\ f # e => emails'[f] = emails[f]
  <2>1. CASE e \in Rows
    <3> DEFINE row == [emails[e] EXCEPT !.confirmed = TRUE, !.open = FALSE]
    <3>1. emails[e] \in EmailRow
      BY <2>1 DEF IInv, TypeOK, Rows
    <3>2. /\ row \in EmailRow /\ row.user = emails[e].user /\ row.link = emails[e].link
          /\ row.primary = emails[e].primary
      BY <3>1 DEF EmailRow
    <3>3. emails' = [emails EXCEPT ![e] = row]
      BY <1>1, <2>1, <3>1 DEF MarkConfirmed, IInv, TypeOK
    <3> HIDE DEF row
    <3> QED
      BY <2>1, <3>2, <3>3, AccountsAssumption DEF IInv, TypeOK, Rows
  <2>2. CASE e \notin Rows
    BY <1>1, <2>2 DEF MarkConfirmed, Rows
  <2> QED
    BY <2>1, <2>2
<1>7. KeptRows /\ \A v \in User : Primary(v)' = Primary(v)
  BY <1>6 DEF KeptRows, Primary, EmailsOf
<1>8. OnlyShownLinksConfirm'
  BY <1>1, <1>2, <1>6 DEF RowInv, IInv, Inv, OnlyShownLinksConfirm, history
<1> QED
  BY <1>1, <1>2, <1>3, <1>4, <1>5, <1>7, <1>8, LinkStep DEF history

LEMMA DeleteEmailInv ==
  ASSUME IInv, NEW c \in Call, DeleteEmail(c)
  PROVE  IInv'
<1>1. PICK e \in EmailId : e = job[c].email /\ job[c].at = "delete" /\ RowInv(c)
                           /\ Registered(job[c]) = NoUser
  BY DEF DeleteEmail, At, IInv, Inv, Shape, Registered
<1>2. UNCHANGED <<users, sessions, resets, history, mix, faults>> /\ End(c)
      /\ emails' = [emails EXCEPT ![e] = NoRow]
  BY <1>1 DEF DeleteEmail
<1>3. TypeOK'
  BY TypeLinks
<1>4. Others(c) /\ job'[c] = Idle /\ ~At(c, "drop")
  BY <1>1, <1>2, Ended DEF IInv, At
<1>5. Shape(job[c])' /\ RowInv(c)' /\ Registered(job'[c]) = NoUser
  BY <1>4, IdleOK
<1>6. Rows' = Rows \ {e} /\ \A f \in Rows' : emails'[f] = emails[f]
  BY <1>2 DEF IInv, TypeOK, Rows
<1>7. KeptRows
  BY <1>6 DEF KeptRows
<1>8. ~recycled => \A v \in User : Primary(v)' = Primary(v)
  BY <1>1, <1>6 DEF RowInv, Primary, EmailsOf
<1>9. OnlyShownLinksConfirm'
  BY <1>2, <1>6, LinksFrame DEF history
<1> QED
  BY <1>1, <1>2, <1>3, <1>4, <1>5, <1>7, <1>8, <1>9, LinkStep DEF history

(***************************************************************************)
(* Sessions, resets and passwords                                          *)
(***************************************************************************)
\* A step of a call that registers nobody, and leaves the addresses alone.
LEMMA TableStep ==
  ASSUME IInv, TypeOK', NEW c \in Call, Others(c),
         Registered(job[c]) = NoUser, Registered(job'[c]) = NoUser,
         UNCHANGED <<emails, born, told, shown, unfinished, recycled>>, spent \subseteq spent',
         \A u \in User : Exists(u)' <=> Exists(u),
         Shape(job[c])', RowInv(c)', \A k \in Secret : SessionInv(k)'
  PROVE  IInv'
<1>1. (\A u \in User : Primary(u)' = Primary(u)) /\ KeptRows
  BY DEF Primary, EmailsOf, Rows, KeptRows
<1>2. \A u \in User : Spared(u)
  BY <1>1 DEF Spared
<1>3. /\ \A v \in User : UserInv(v)'
      /\ \A d \in Call \ {c} : Shape(job[d])' /\ RegisterInv(d)'
      /\ OneRegistration'
  BY <1>2, SameRegistration
<1>4. RegisterInv(c)'
  BY DEF RegisterInv
<1>5. \A d \in Call \ {c} : RowInv(d)'
  BY <1>1, RowFrame DEF Others
<1>6. OnlyShownLinksConfirm' /\ LinksInv'
  BY LinksFrame DEF Rows
<1> QED
  BY <1>3, <1>4, <1>5, <1>6 DEF IInv, Inv

LEMMA OpenSessionInv ==
  ASSUME IInv, NEW c \in Call, NEW k \in Secret, OpenSession(c, k)
  PROVE  IInv'
<1>1. PICK u \in User : u = job[c].user /\ job[c].at = "open" /\ Registered(job[c]) = NoUser
  BY DEF OpenSession, At, IInv, Inv, Shape, Registered
<1>2. /\ UNCHANGED <<users, emails, resets, born, told, shown, cut, unswept, unfinished,
                     recycled, mix, faults>>
      /\ End(c) /\ spent \subseteq spent'
  BY DEF OpenSession
<1>3. TypeOK'
  BY TypeSessions
<1>4. Others(c) /\ job'[c] = Idle
  BY <1>2, Ended DEF IInv
<1>5. Shape(job[c])' /\ RowInv(c)' /\ Registered(job'[c]) = NoUser
  BY <1>4, IdleOK
<1>6. ASSUME NEW s \in Secret PROVE SessionInv(s)'
  <2>1. \/ sessions'[s] = sessions[s]
        \/ Exists(u) /\ sessions'[s] = [user |-> u, opened |-> cut[u]]
    BY <1>1 DEF OpenSession, IInv, TypeOK
  <2>2. CASE sessions'[s] = sessions[s]
    <3>1. SessionInv(s)
      BY DEF IInv, Inv
    <3>2. \A d \in Call : At(d, "drop") => job'[d] = job[d]
      BY <1>1, <1>4 DEF Others, At
    <3> QED
      BY <1>2, <2>2, <3>1, <3>2 DEF SessionInv, Live, At
  <2>3. CASE sessions'[s] = [user |-> u, opened |-> cut[u]]
    BY <1>2, <2>3 DEF SessionInv
  <2> QED
    BY <2>1, <2>2, <2>3
<1> QED
  BY <1>1, <1>2, <1>3, <1>4, <1>5, <1>6, TableStep DEF Exists

LEMMA DropSessionInv ==
  ASSUME IInv, NEW k \in Secret, DropSession(k)
  PROVE  IInv'
<1>1. /\ UNCHANGED <<users, emails, resets, job, history, mix, faults>>
      /\ \A s \in Secret : sessions'[s] \in {sessions[s], NoRow}
  BY DEF DropSession, IInv, TypeOK
<1>2. TypeOK'
  BY TypeSessions
<1>3. \A s \in Secret : SessionInv(s)'
  BY <1>1 DEF IInv, Inv, SessionInv, Live, At, history
<1>4. (\A u \in User : Spared(u)) /\ KeptRows
  BY <1>1, SparedAll DEF history
<1>5. \A u \in User : UserInv(u)'
  BY <1>1, <1>4 DEF IInv, Inv, UserInv, Spared, history
<1>6. \A c \in Call : RegisterInv(c)'
  <2> TAKE c \in Call
  <2>1. RegisterInv(c) /\ (Registered(job[c]) # NoUser => Registered(job[c]) \in User)
    BY DEF IInv, Inv, Registered, TypeOK, Job
  <2> QED
    BY <1>1, <1>4, <2>1 DEF RegisterInv, Spared
<1>7. \A c \in Call : Shape(job[c])' /\ RowInv(c)'
  <2> TAKE c \in Call
  <2>1. Shape(job[c])'
    BY <1>1 DEF IInv, Inv
  <2> QED
    BY <1>1, <1>4, <2>1, RowFrame DEF history
<1>8. OneRegistration'
  BY <1>1 DEF IInv, Inv, OneRegistration
<1>9. OnlyShownLinksConfirm' /\ LinksInv'
  BY <1>1, LinksFrame DEF Rows, history
<1> QED
  BY <1>2, <1>3, <1>5, <1>6, <1>7, <1>8, <1>9 DEF IInv, Inv

LEMMA StoreResetInv ==
  ASSUME IInv, NEW c \in Call, NEW k \in Secret, StoreReset(c, k)
  PROVE  IInv'
<1>1. job[c].at = "store" /\ Registered(job[c]) = NoUser
  BY DEF StoreReset, At, IInv, Inv, Shape, Registered
<1>2. /\ UNCHANGED <<users, emails, sessions, born, told, shown, cut, unswept, unfinished,
                     recycled, mix, faults>>
      /\ End(c) /\ spent \subseteq spent'
  BY DEF StoreReset
<1>3. TypeOK'
  BY TypeSessions
<1>4. Others(c) /\ job'[c] = Idle
  BY <1>2, Ended DEF IInv
<1>5. Shape(job[c])' /\ RowInv(c)' /\ Registered(job'[c]) = NoUser
  BY <1>4, IdleOK
<1>6. \A s \in Secret : SessionInv(s)'
  BY <1>1, <1>2, <1>4, SessionFrame DEF Others, At
<1> QED
  BY <1>1, <1>2, <1>3, <1>4, <1>5, <1>6, TableStep DEF Exists

\* A call that replaces a password or a status, at one of its steps.
Cuts(c) ==
    /\ job[c].user \in User /\ Registered(job[c]) = NoUser
    /\ job[c].op \in {"reset", "change", "temporary", "block", "unblock"}

LEMMA Cutting ==
  ASSUME IInv, NEW c \in Call, job[c].at \in {"consume"} \cup CutStep
  PROVE  Cuts(c)
  BY DEF Cuts, IInv, Inv, Shape, Registered, CutStep

LEMMA CutGoes ==
  ASSUME IInv, NEW c \in Call, Cuts(c), Move(c, Following(job[c]))
  PROVE  /\ job' \in [Call -> Job] /\ Others(c)
         /\ Shape(job[c])' /\ RowInv(c)' /\ Registered(job'[c]) = NoUser
         /\ Following(job[c]) = "drop" => job'[c].at = "drop" /\ job'[c].user = job[c].user
<1>1. PICK step \in {"write", "drop", "idle"} : step = Following(job[c]) /\ Move(c, step)
  BY Steps
<1>2. step \in Step
  BY DEF Step
<1>3. /\ job' \in [Call -> Job] /\ Others(c)
      /\ step = "idle" => job'[c] = Idle
      /\ step # "idle" => Goes(c, step)
  BY <1>1, <1>2, Moved DEF IInv
<1>4. CASE step = "idle"
  BY <1>1, <1>3, <1>4, IdleOK
<1>5. CASE step # "idle"
  BY <1>1, <1>3, <1>5
  DEF Cuts, Goes, Shape, RowInv, Registered, NewUserStep, AttachStep, CutStep
<1> QED
  BY <1>4, <1>5

LEMMA ConsumeResetInv ==
  ASSUME IInv, NEW c \in Call, ConsumeReset(c)
  PROVE  IInv'
<1>1. job[c].at = "consume" /\ Cuts(c) /\ Move(c, Following(job[c]))
      /\ UNCHANGED <<users, emails, sessions, history, mix, faults>>
  BY Cutting DEF ConsumeReset, At
<1>2. Others(c) /\ Shape(job[c])' /\ RowInv(c)' /\ Registered(job'[c]) = NoUser
  BY <1>1, CutGoes
<1>3. \A s \in Secret : SessionInv(s)'
  BY <1>1, <1>2, SessionFrame DEF Others, At, history
<1> QED
  BY <1>1, <1>2, <1>3, TypeCuts, TableStep DEF Exists, Cuts, history

LEMMA WriteInv ==
  ASSUME IInv, NEW c \in Call, Write(c)
  PROVE  IInv'
<1>1. job[c].at = "write" /\ Cuts(c) /\ Move(c, Following(job[c]))
      /\ UNCHANGED <<emails, sessions, resets, born, told, spent, shown, unswept, unfinished,
                     recycled, mix, faults>>
  BY Cutting DEF Write, At, CutStep
<1>2. /\ Others(c) /\ Shape(job[c])' /\ RowInv(c)' /\ Registered(job'[c]) = NoUser
      /\ Following(job[c]) = "drop" => job'[c].at = "drop" /\ job'[c].user = job[c].user
  BY <1>1, CutGoes
<1>3. PICK u \in User : u = job[c].user
  BY <1>1 DEF Cuts
<1>4. \A v \in User : Exists(v)' <=> Exists(v)
  <2>1. CASE Exists(u)
    <3>1. users' = [users EXCEPT ![u].status = StatusAfter(job[c])]
      BY <1>3, <2>1 DEF Write
    <3>2. users[u] \in UserRow /\ StatusAfter(job[c]) \in {"active", "blocked"}
      BY <1>3, <2>1 DEF IInv, TypeOK, Exists, StatusAfter, UserRow
    <3> DEFINE row == [users[u] EXCEPT !.status = StatusAfter(job[c])]
    <3>3. users' = [users EXCEPT ![u] = row] /\ row \in UserRow
      BY <3>1, <3>2 DEF IInv, TypeOK, UserRow
    <3> HIDE DEF row
    <3> QED
      BY <2>1, <3>3, AccountsAssumption DEF IInv, TypeOK, Exists
  <2>2. CASE ~Exists(u)
    BY <1>3, <2>2 DEF Write, Exists
  <2> QED
    BY <2>1, <2>2
<1>5. ASSUME NEW s \in Secret PROVE SessionInv(s)'
  <2>1. SessionInv(s) /\ (s \in Live => sessions[s].user \in User)
    BY DEF IInv, Inv, TypeOK, Live, SessionRow
  <2>2. \A d \in Call : At(d, "drop") => job'[d] = job[d]
    BY <1>1, <1>2 DEF Others, At
  <2>3. CASE s \in Live /\ sessions[s].user = u /\ job[c].op # "unblock"
    <3>1. Following(job[c]) = "drop"
      BY <1>1, <2>3 DEF Following
    <3> QED
      BY <1>1, <1>2, <1>3, <2>3, <3>1 DEF SessionInv, At
  <2>4. CASE ~(s \in Live /\ sessions[s].user = u /\ job[c].op # "unblock")
    <3>1. s \in Live => cut'[sessions[s].user] = cut[sessions[s].user]
      BY <1>3, <2>1, <2>4 DEF Write, IInv, TypeOK
    <3> QED
      BY <1>1, <2>1, <2>2, <3>1 DEF SessionInv, Live, At
  <2> QED
    BY <2>3, <2>4
<1> QED
  BY <1>1, <1>2, <1>4, <1>5, TypeCuts, TableStep DEF Cuts

LEMMA DropSessionsInv ==
  ASSUME IInv, NEW c \in Call, DropSessions(c)
  PROVE  IInv'
<1>1. job[c].at = "drop" /\ Cuts(c) /\ Move(c, Following(job[c]))
      /\ UNCHANGED <<users, emails, resets, born, told, spent, shown, cut, unfinished,
                     recycled, mix, faults>>
  BY Cutting DEF DropSessions, At, CutStep
<1>2. Others(c) /\ Shape(job[c])' /\ RowInv(c)' /\ Registered(job'[c]) = NoUser
  BY <1>1, CutGoes
<1>3. PICK u \in User : u = job[c].user
  BY <1>1 DEF Cuts
<1>4. unswept' = unswept \ {u}
  BY <1>3 DEF DropSessions
<1>5. ASSUME NEW s \in Secret PROVE SessionInv(s)'
  <2>1. SessionInv(s)
    BY DEF IInv, Inv
  <2>2. CASE s \in Live /\ sessions[s].user = u /\ s = job[c].secret
    <3>1. sessions'[s] = [sessions[s] EXCEPT !.opened = cut[u]]
      BY <1>3, <2>2 DEF DropSessions
    <3>2. sessions[s] \in SessionRow
      BY <2>2 DEF IInv, TypeOK, Live
    <3>3. sessions'[s].user = u /\ sessions'[s].opened = cut[u]
      BY <2>2, <3>1, <3>2 DEF SessionRow
    <3> QED
      BY <1>1, <3>3 DEF SessionInv
  <2>3. CASE s \in Live /\ sessions[s].user = u /\ s # job[c].secret
    BY <1>3, <2>3 DEF DropSessions, SessionInv, Live
  <2>4. CASE s \notin Live \/ sessions[s].user # u
    <3>1. sessions'[s] = sessions[s]
      BY <1>3, <2>4 DEF DropSessions
    <3>2. s \in Live => sessions[s].user # u
      BY <2>4
    <3>3. \A d \in Call : At(d, "drop") /\ job[d].user # u => job'[d] = job[d]
      BY <1>2, <1>3 DEF Others
    <3> QED
      BY <1>1, <1>4, <2>1, <3>1, <3>2, <3>3 DEF SessionInv, Live, At
  <2> QED
    BY <2>2, <2>3, <2>4
<1> QED
  BY <1>1, <1>2, <1>5, TypeCuts, TableStep DEF Cuts, Exists

(***************************************************************************)
(* A call that fails, or is abandoned                                      *)
(***************************************************************************)
LEMMA FailInv ==
  ASSUME IInv, NEW c \in Call, Fail(c)
  PROVE  IInv'
<1>1. UNCHANGED <<tables, born, told, spent, shown, cut, recycled, mix>> /\ TypeOK'
  BY TypeFail DEF Fail
<1>2. Shape(job[c]) /\ RegisterInv(c)
  BY DEF IInv, Inv
<1>3. CASE Handler(job[c]) # "idle" /\ Raise(c) /\ UNCHANGED <<unfinished, unswept>>
  <2>1. /\ job[c].op = "register" /\ ~At(c, "drop")
        /\ job[c].at \in {"database", "attach", "reselect", "mail"}
    BY <1>3 DEF Handler, At
  <2>2. PICK step \in {"uncreate", "undo"} : step = Handler(job[c])
    BY <1>3, Steps
  <2>3. Others(c) /\ Goes(c, step)
    <3>1. Move(c, step) /\ step \in Step /\ step # "idle"
      BY <1>3, <2>2 DEF Raise, Step
    <3> QED
      BY <3>1, Moved DEF IInv
  <2>4. Registered(job'[c]) = Registered(job[c]) /\ RowInv(c)'
    BY <2>3 DEF Goes, Registered, RowInv
  <2>5. Shape(job[c])'
    BY <1>2, <2>1, <2>3 DEF Goes, Shape, NewUserStep, AttachStep, CutStep
  <2>6. RegisterInv(c)'
    BY <1>1, <1>2, <2>3, <2>4 DEF Goes, RegisterInv, Exists, tables
  <2> QED
    BY <1>1, <1>3, <2>1, <2>3, <2>4, <2>5, <2>6, LocalStep DEF history
<1>4. CASE End(c) /\ Spoils(job[c])
  <2>1. Others(c) /\ job'[c] = Idle
    BY <1>4, Ended DEF IInv
  <2>2. CASE job[c].op = "register" /\ job[c].user # NoUser
    <3>1. job[c].at \notin {"address", "create"}
      BY <1>2, <2>2 DEF Shape
    <3>2. PICK u \in User : u = job[c].user /\ u = Registered(job[c]) /\ Exists(u) /\ u \in born
                            /\ u \notin told
      BY <2>2, <3>1, Registers
    <3>3. ~At(c, "drop") /\ unswept' = unswept /\ unfinished' = unfinished \cup {u}
      BY <1>2, <1>4, <2>2, <3>2 DEF Shape, Spoils, At, NewUserStep, AttachStep
    <3>4. /\ \A v \in User \ {u} : Spared(v)
          /\ KeptRows /\ \A e \in Rows' : emails'[e] = emails[e]
      BY <1>1, <3>3 DEF tables, Spared, KeptRows, Exists, Primary, EmailsOf, Rows
    <3>5. UserInv(u)'
      BY <1>1, <3>2, <3>3 DEF tables, UserInv, Exists
    <3> QED
      BY <1>1, <1>4, <3>2, <3>3, <3>4, <3>5, RegistrationEnds DEF tables
  <2>3. CASE ~(job[c].op = "register" /\ job[c].user # NoUser)
    <3>1. Registered(job[c]) = NoUser /\ unfinished' = unfinished
      BY <1>4, <2>3 DEF Registered, Spoils
    <3>2. Shape(job[c])' /\ RowInv(c)' /\ Registered(job'[c]) = NoUser
      BY <2>1, IdleOK
    <3>3. ASSUME NEW s \in Secret PROVE SessionInv(s)'
      <4>1. SessionInv(s)
        BY DEF IInv, Inv
      <4>2. unswept' = IF At(c, "drop") THEN unswept \cup {job[c].user} ELSE unswept
        BY <1>4 DEF Spoils, At
      <4>3. \A d \in Call : At(d, "drop") =>
                (At(d, "drop")' /\ job'[d].user = job[d].user) \/ job[d].user \in unswept'
        BY <2>1, <4>2 DEF Others, At
      <4> QED
        BY <1>1, <4>1, <4>2, <4>3 DEF tables, SessionInv, Live
    <3> QED
      BY <1>1, <2>1, <3>1, <3>2, <3>3, TableStep DEF tables, Exists
  <2> QED
    BY <2>2, <2>3
<1> QED
  BY <1>3, <1>4 DEF Fail

(***************************************************************************)
(* The invariant holds, and says what the properties say.                  *)
(***************************************************************************)
LEMMA SettledRows ==
  ASSUME Init
  PROVE  /\ TypeOK
         /\ \A u \in Settled : Exists(u) /\ Primary(u) = {RowOf[u]}
         /\ \A e \in Rows : emails[e].confirmed /\ emails[e].link = NoSecret
<1>1. /\ users \in [User -> UserRow \cup {NoRow}]
      /\ \A u \in User : Exists(u) <=> u \in Settled
  <2>1. \A u \in Settled : [login |-> NameOf[u], status |-> "active"] \in UserRow
    BY AccountsAssumption DEF UserRow
  <2> QED
    BY <2>1, AccountsAssumption DEF Init, Exists
<1>2. ASSUME NEW u \in Settled
      PROVE  /\ RowOf[u] \in EmailId /\ emails[RowOf[u]] \in EmailRow
             /\ emails[RowOf[u]].user = u /\ emails[RowOf[u]].address = HomeOf[u]
             /\ emails[RowOf[u]].primary /\ emails[RowOf[u]].confirmed
             /\ emails[RowOf[u]].link = NoSecret
  <2>1. RowOf[u] \in EmailId
    BY AccountsAssumption DEF EmailId
  <2>2. (CHOOSE v \in Settled : RowOf[v] = RowOf[u]) = u
    BY AccountsAssumption
  <2>3. emails[RowOf[u]] = [user |-> u, address |-> HomeOf[u], primary |-> TRUE,
                            confirmed |-> TRUE, link |-> NoSecret, open |-> FALSE]
    BY <2>1, <2>2 DEF Init
  <2>4. u \in User /\ HomeOf[u] \in Address
    BY AccountsAssumption
  <2> QED
    BY <2>1, <2>3, <2>4 DEF EmailRow
<1>3. ASSUME NEW e \in EmailId, ~\E u \in Settled : RowOf[u] = e PROVE emails[e] = NoRow
  BY <1>3 DEF Init
<1>4. \A e \in Rows : \E u \in Settled : e = RowOf[u]
  BY <1>3 DEF Rows
<1>5. emails \in [EmailId -> EmailRow \cup {NoRow}]
  <2>1. \A e \in EmailId : emails[e] \in EmailRow \cup {NoRow}
    BY <1>2, <1>3
  <2>2. emails = [e \in EmailId |-> emails[e]]
    BY DEF Init
  <2> QED
    BY <2>1, <2>2
<1>6. \A u \in Settled : RowOf[u] \in Rows
  BY <1>2, AccountsAssumption DEF Rows
<1>7. \A u \in User : EmailsOf(u) = IF u \in Settled THEN {RowOf[u]} ELSE {}
  <2> TAKE u \in User
  <2>1. CASE u \in Settled
    BY <1>2, <1>4, <1>6, <2>1 DEF EmailsOf
  <2>2. CASE u \notin Settled
    BY <1>2, <1>4, <2>2 DEF EmailsOf
  <2> QED
    BY <2>1, <2>2
<1>8. \A u \in Settled : Exists(u) /\ Primary(u) = {RowOf[u]}
  BY <1>1, <1>2, <1>7, AccountsAssumption DEF Primary
<1>9. \A e \in Rows : emails[e].confirmed /\ emails[e].link = NoSecret
  BY <1>2, <1>4
<1>10. \A e, f \in Rows : emails[e].address = emails[f].address => e = f
  BY <1>2, <1>4, AccountsAssumption
<1>11. Live = {}
  BY DEF Init, Live
<1>12. job \in [Call -> Job] /\ cut \in [User -> 0 .. MaxCut] /\ faults \in 0 .. MaxFaults
  BY IdleJob, AccountsAssumption DEF Init
<1>13. TypeOK
  BY <1>1, <1>5, <1>7, <1>10, <1>11, <1>12, AccountsAssumption DEF Init, TypeOK
<1> QED
  BY <1>8, <1>9, <1>13

LEMMA InitInv == Init => IInv
<1> SUFFICES ASSUME Init PROVE IInv
  OBVIOUS
<1>1. /\ TypeOK
      /\ \A u \in Settled : Exists(u) /\ Primary(u) = {RowOf[u]}
      /\ \A e \in Rows : emails[e].confirmed /\ emails[e].link = NoSecret
  BY SettledRows
<1>2. \A c \in Call : Registered(job[c]) = NoUser /\ job[c] = Idle
  BY DEF Init, Registered, Idle
<1>3. \A c \in Call : Shape(job[c]) /\ RowInv(c) /\ RegisterInv(c)
  <2> TAKE c \in Call
  <2>1. job[c] = Idle /\ Registered(job[c]) = NoUser
    BY <1>2
  <2> QED
    BY <2>1 DEF Idle, Shape, RowInv, RegisterInv, NewUserStep, AttachStep, CutStep
<1>4. OneRegistration
  BY <1>2 DEF OneRegistration
<1>5. \A u \in User : UserInv(u)
  <2> TAKE u \in User
  <2>1. Exists(u) => u \in Settled
    BY DEF Init, Exists
  <2>2. u \in Settled => RowOf[u] \in EmailId
    BY AccountsAssumption DEF EmailId
  <2> QED
    BY <1>1, <2>1, <2>2 DEF Init, UserInv
<1>6. \A k \in Secret : SessionInv(k)
  BY DEF Init, SessionInv, Live
<1>7. OnlyShownLinksConfirm /\ LinksInv
  BY <1>1 DEF OnlyShownLinksConfirm, LinksInv
<1> QED
  BY <1>1, <1>3, <1>4, <1>5, <1>6, <1>7 DEF IInv, Inv

LEMMA StutterInv == IInv /\ UNCHANGED vars => IInv'
<1> SUFFICES ASSUME IInv, UNCHANGED vars PROVE IInv'
  OBVIOUS
<1>1. UNCHANGED <<users, emails, sessions, resets, mix, job, born, told, spent, shown, cut,
                  unswept, unfinished, recycled, faults>>
  BY DEF vars, tables, history
<1>2. TypeOK'
  BY <1>1 DEF IInv, TypeOK, Rows, EmailsOf, Exists, Live
<1>3. (\A u \in User : Spared(u)) /\ KeptRows
  BY <1>1, SparedAll
<1>4. \A u \in User : UserInv(u)'
  BY <1>1, <1>3 DEF IInv, Inv, UserInv, Spared
<1>5. \A c \in Call : Shape(job[c])' /\ RowInv(c)' /\ RegisterInv(c)'
  <2> TAKE c \in Call
  <2>1. Shape(job[c]) /\ RegisterInv(c)
        /\ (Registered(job[c]) # NoUser => Registered(job[c]) \in User)
    BY DEF IInv, Inv, Registered, TypeOK, Job
  <2> QED
    BY <1>1, <1>3, <2>1, RowFrame DEF Shape, RegisterInv, Spared
<1>6. OneRegistration'
  BY <1>1 DEF IInv, Inv, OneRegistration
<1>7. \A k \in Secret : SessionInv(k)'
  BY <1>1, SessionFrame
<1>8. OnlyShownLinksConfirm' /\ LinksInv'
  BY <1>1, LinksFrame DEF Rows
<1> QED
  BY <1>2, <1>4, <1>5, <1>6, <1>7, <1>8 DEF IInv, Inv

LEMMA AdvanceInv ==
  ASSUME IInv, NEW c \in Call, Advance(c)
  PROVE  IInv'
<1>1. CASE CheckAddress(c) \/ LoginTaken(c) \/ MakeDatabase(c) \/ FindUser(c) \/ CannotAttach(c)
  BY <1>1, RegisterMoves
<1>2. CASE ReadUser(c) \/ CheckEmails(c) \/ CheckPassword(c) \/ CheckExists(c)
  BY <1>2, OtherMoves
<1>3. CASE SelectLink(c) \/ FindAddress(c) \/ FindReset(c)
  BY <1>3, FindsInv
<1>4. CASE \E u \in User : CreateUser(c, u)
  BY <1>4, CreateUserInv
<1>5. CASE Uncreate(c) \/ Undo(c) \/ Reselect(c) \/ SendLink(c)
  BY <1>5, UncreateInv, UndoInv, AnswersInv
<1>6. CASE \E e \in EmailId, k \in Secret \cup {NoSecret} : Attach(c, e, k)
  BY <1>6, AttachInv
<1>7. CASE MarkConfirmed(c) \/ CheckRemovable(c) \/ DeleteEmail(c)
  BY <1>7, MarkConfirmedInv, CheckRemovableInv, DeleteEmailInv
<1>8. CASE \E k \in Secret : OpenSession(c, k) \/ StoreReset(c, k)
  BY <1>8, OpenSessionInv, StoreResetInv
<1>9. CASE ConsumeReset(c) \/ Write(c) \/ DropSessions(c)
  BY <1>9, ConsumeResetInv, WriteInv, DropSessionsInv
<1> QED
  BY <1>1, <1>2, <1>3, <1>4, <1>5, <1>6, <1>7, <1>8, <1>9 DEF Advance

LEMMA StepInv == IInv /\ [Next]_vars => IInv'
<1> SUFFICES ASSUME IInv, [Next]_vars PROVE IInv'
  OBVIOUS
<1>1. ASSUME NEW c \in Call, Begins(c) PROVE IInv'
  <2>1. CASE \E k \in Secret : OpenLink(c, k)
    BY <2>1, OpenLinkInv
  <2>2. CASE ~\E k \in Secret : OpenLink(c, k)
    BY <1>1, <2>2, BeginsInv DEF Begins
  <2> QED
    BY <2>1, <2>2
<1>2. ASSUME NEW c \in Call, Advance(c) PROVE IInv'
  BY <1>2, AdvanceInv
<1>3. ASSUME NEW c \in Call, Fail(c) PROVE IInv'
  BY <1>3, FailInv
<1>4. ASSUME NEW k \in Secret, DropSession(k) PROVE IInv'
  BY <1>4, DropSessionInv
<1>5. CASE UNCHANGED vars
  BY <1>5, StutterInv
<1> QED
  BY <1>1, <1>2, <1>3, <1>4, <1>5 DEF Next

LEMMA SpecInv == Spec => []IInv
  BY InitInv, StepInv, PTL DEF Spec

\* Every variable keeps its type, no address is in two rows, and addresses and
\* sessions belong to users that exist.
THEOREM TypeCorrect == Spec => []TypeOK
<1>1. IInv => TypeOK
  BY DEF IInv
<1> QED
  BY <1>1, SpecInv, PTL

\* After a password is replaced or an account blocked, the sessions opened before are
\* gone when the call is over, whichever sign-ins and other calls it was raced by;
\* the exceptions are a call that failed between the two writes (change_password,
\* reset_password, set_user_status).
THEOREM SessionsAreSwept == Spec => []OldSessionsAreGone
<1>1. IInv => OldSessionsAreGone
  BY DEF IInv, Inv, SessionInv, OldSessionsAreGone, Live
<1> QED
  BY <1>1, SpecInv, PTL

\* A registration that answered leaves one primary address; one that failed leaves
\* no user, or a user known to be unfinished (register and its compensations).
THEOREM AccountsWhole == Spec => []AccountsAreWhole
<1>1. IInv => AccountsAreWhole
  <2> SUFFICES ASSUME IInv, ~recycled, NEW u \in User
               PROVE  /\ u \in told => Exists(u)
                      /\ Exists(u) => \/ \E e \in EmailId : Primary(u) = {e}
                                      \/ u \notin told /\ u \in unfinished
                                      \/ \E c \in Call : job[c].op = "register" /\ job[c].user = u
    BY DEF AccountsAreWhole
  <2>1. UserInv(u)
    BY DEF IInv, Inv
  <2>2. \A c \in Call : Registered(job[c]) = u => job[c].op = "register" /\ job[c].user = u
    BY AccountsAssumption DEF Registered
  <2> QED
    BY <2>1, <2>2 DEF UserInv
<1> QED
  BY <1>1, SpecInv, PTL

\* A confirmed address with a link had that link opened (confirm_email).
THEOREM LinksConfirm == Spec => []OnlyShownLinksConfirm
<1>1. IInv => OnlyShownLinksConfirm
  BY DEF IInv, Inv
<1> QED
  BY <1>1, SpecInv, PTL

===============================================================================
