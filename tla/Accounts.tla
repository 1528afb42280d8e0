------------------------------- MODULE Accounts -------------------------------
(***************************************************************************)
(* Gateway users in the registry: registration, addresses and their        *)
(* confirmation, sign-in, sessions, password resets and changes            *)
(* (orchestrator/auth.py), and what the operator does to an account        *)
(* (set_user_status, reset_user_password of orchestrator/operator.py),     *)
(* over the statements of storage/registry.py.                             *)
(*                                                                         *)
(* Every statement is a step of its own: a SELECT opens no transaction in  *)
(* the driver's legacy mode, so that what a call has read may be stale     *)
(* when it writes, even inside one "async with registry.begin()".          *)
(***************************************************************************)
EXTENDS Integers, FiniteSets

CONSTANTS
    Call,       \* concurrent calls
    User,       \* ids of users, never given twice
    Login, Address,
    Secret,     \* random tokens; bound: this many are ever generated
    Settled,    \* users whose registration was over before the model begins
    NameOf, HomeOf, RowOf,  \* their logins, their addresses, the numbers of the rows
    NoUser, NoAddress, NoLogin, NoSecret, NoRow,
    Mixes,      \* bound: the sets of operations that are tried together
    MaxEmail,   \* bound: the last number of an address row
    MaxCut,     \* bound: password replacements and blocks of one user
    MaxFaults   \* bound: database failures, cancelled calls and crashes

Op == {"none", "register", "add", "remove", "confirm", "signin", "ask", "reset",
       "change", "temporary", "block", "unblock"}

EmailId == 1 .. MaxEmail
UserRow == [login : Login, status : {"active", "blocked"}]
EmailRow == [user : User, address : Address, primary : BOOLEAN, confirmed : BOOLEAN,
             link : Secret \cup {NoSecret}, open : BOOLEAN]
SessionRow == [user : User, opened : 0 .. MaxCut]

ASSUME AccountsAssumption ==
    /\ Settled \subseteq User
    /\ NameOf \in [Settled -> Login] /\ HomeOf \in [Settled -> Address]
    /\ RowOf \in [Settled -> 1 .. MaxEmail]
    /\ \A u, v \in Settled : u # v => /\ NameOf[u] # NameOf[v] /\ HomeOf[u] # HomeOf[v]
                                     /\ RowOf[u] # RowOf[v]
    /\ NoUser \notin User /\ NoSecret \notin Secret
    /\ NoAddress \notin Address /\ NoLogin \notin Login
    /\ NoRow \notin UserRow \cup EmailRow \cup SessionRow
    /\ Mixes \subseteq SUBSET Op
    /\ MaxEmail \in Nat /\ MaxCut \in Nat /\ MaxFaults \in Nat

VARIABLES
    \* registry.db
    users, emails, sessions, resets,
    \* the calls
    mix,        \* the operations that are called in this behaviour
    job,
    \* history
    born,       \* users that ever had a row
    told,       \* users whose registration has answered that it succeeded
    spent,      \* secrets ever generated
    shown,      \* confirmation links somebody has opened
    cut,        \* password replacements and blocks, by user
    unswept,    \* users such a call left with their sessions, by failing
    unfinished, \* users whose registration failed where nothing undoes it
    recycled,   \* an address row got the number of one a call still holds
    faults

tables == <<users, emails, sessions, resets>>
history == <<born, told, spent, shown, cut, unswept, unfinished, recycled>>
vars == <<tables, mix, job, history, faults>>

Step == {"idle", "address", "create", "database", "uncreate", "find", "attach", "reselect",
         "mail", "undo", "remove", "delete", "select", "mark", "row", "emails", "open",
         "ask", "store", "use", "consume", "check", "exists", "write", "drop"}
Job == [op : Op, at : Step, user : User \cup {NoUser}, email : {0} \cup EmailId,
        address : Address \cup {NoAddress}, login : Login \cup {NoLogin},
        secret : Secret \cup {NoSecret}]

Idle == [op |-> "none", at |-> "idle", user |-> NoUser, email |-> 0,
         address |-> NoAddress, login |-> NoLogin, secret |-> NoSecret]

Exists(u) == users[u] # NoRow
Rows == {e \in EmailId : emails[e] # NoRow}
EmailsOf(u) == {e \in Rows : emails[e].user = u}
Taken(a) == \E e \in Rows : emails[e].address = a
Live == {k \in Secret : sessions[k] # NoRow}

\* What refers to a user's row besides the addresses: foreign keys are enforced.
BadReferred(u) == FALSE
Referred(u) == resets[u] # NoSecret \/ \E k \in Live : sessions[k].user = u

TypeOK ==
    /\ users \in [User -> UserRow \cup {NoRow}]
    /\ emails \in [EmailId -> EmailRow \cup {NoRow}]
    /\ sessions \in [Secret -> SessionRow \cup {NoRow}]
    /\ resets \in [User -> Secret \cup {NoSecret}]
    /\ mix \in Mixes /\ job \in [Call -> Job]
    /\ born \subseteq User /\ told \subseteq born
    /\ spent \subseteq Secret /\ shown \subseteq spent
    /\ cut \in [User -> 0 .. MaxCut]
    /\ unswept \subseteq User /\ unfinished \subseteq User
    /\ recycled \in BOOLEAN /\ faults \in 0 .. MaxFaults
    /\ \A e, f \in Rows : emails[e].address = emails[f].address => e = f
    /\ \A u \in User : ~Exists(u) => EmailsOf(u) = {}
    /\ \A k \in Live : Exists(sessions[k].user)

(***************************************************************************)
(* The parts of a call.                                                    *)
(***************************************************************************)
At(c, step) == job[c].at = step

Begin(c, j) ==
    /\ At(c, "idle") /\ j.op \in mix
    /\ job' = [job EXCEPT ![c] = j]

\* The call goes on to a step, or ends.
Move(c, step) ==
    job' = [job EXCEPT ![c] = IF step = "idle" THEN Idle ELSE [job[c] EXCEPT !.at = step]]

End(c) == Move(c, "idle")

\* Where an exception leads: a registration takes back its rows (register,
\* create_user), any other call just ends.
BadHandler(j) == IF j.op = "register" /\ j.at = "mail" THEN "undo" ELSE "idle"
Handler(j) ==
    CASE j.op = "register" /\ j.at = "database" -> "uncreate"
      [] j.op = "register" /\ j.at \in {"attach", "reselect", "mail"} -> "undo"
      [] OTHER -> "idle"

Raise(c) == Move(c, Handler(job[c]))

\* The session of a request (resolve_session): both reads find what they need.
Resolves(k) ==
    /\ k \in Live
    /\ Exists(sessions[k].user) /\ users[sessions[k].user].status = "active"

(***************************************************************************)
(* register                                                                *)
(***************************************************************************)
Register(c, l, a) ==
    /\ Begin(c, [Idle EXCEPT !.op = "register", !.at = "address", !.login = l, !.address = a])
    /\ UNCHANGED <<tables, mix, history, faults>>

CheckAddress(c) ==
    /\ At(c, "address")
    /\ Move(c, IF Taken(job[c].address) THEN "idle"
               ELSE IF job[c].op = "register" THEN "create" ELSE "attach")
    /\ UNCHANGED <<tables, mix, history, faults>>

CreateUser(c, u) ==
    /\ At(c, "create") /\ u \notin born
    /\ \A v \in User : Exists(v) => users[v].login # job[c].login
    /\ users' = [users EXCEPT ![u] = [login |-> job[c].login, status |-> "active"]]
    /\ born' = born \cup {u}
    /\ job' = [job EXCEPT ![c].at = "database", ![c].user = u]
    /\ UNCHANGED <<emails, sessions, resets, told, spent, shown, cut, unswept, unfinished,
                   recycled, mix, faults>>

LoginTaken(c) ==
    /\ At(c, "create")
    /\ \E v \in User : Exists(v) /\ users[v].login = job[c].login
    /\ End(c)
    /\ UNCHANGED <<tables, mix, history, faults>>

\* The directory and its database, then the row by its login.
MakeDatabase(c) ==
    /\ At(c, "database")
    /\ Move(c, "find") \/ Raise(c)
    /\ UNCHANGED <<tables, mix, history, faults>>

FindUser(c) ==
    /\ At(c, "find") /\ Move(c, "attach")
    /\ UNCHANGED <<tables, mix, history, faults>>

\* The compensations: each one transaction, refused as a whole while a session or
\* a reset refers to the user.
Uncreate(c) ==
    LET u == job[c].user IN
    /\ At(c, "uncreate") /\ End(c)
    /\ IF Referred(u) \/ EmailsOf(u) # {}
       THEN unfinished' = unfinished \cup {u} /\ UNCHANGED users
       ELSE users' = [users EXCEPT ![u] = NoRow] /\ UNCHANGED unfinished
    /\ UNCHANGED <<emails, sessions, resets, born, told, spent, shown, cut, unswept,
                   recycled, mix, faults>>

Undo(c) ==
    LET u == job[c].user IN
    /\ At(c, "undo") /\ End(c)
    /\ IF Referred(u)
       THEN unfinished' = unfinished \cup {u} /\ UNCHANGED <<users, emails>>
       ELSE /\ users' = [users EXCEPT ![u] = NoRow]
            /\ emails' = [e \in EmailId |-> IF e \in EmailsOf(u) THEN NoRow ELSE emails[e]]
            /\ UNCHANGED unfinished
    /\ UNCHANGED <<sessions, resets, born, told, spent, shown, cut, unswept, recycled, mix, faults>>

(***************************************************************************)
(* _attach_email, for a registration and for add_email.                    *)
(***************************************************************************)
AddEmail(c, k, a) ==
    /\ Resolves(k)
    /\ Begin(c, [Idle EXCEPT !.op = "add", !.at = "address", !.user = sessions[k].user,
                             !.address = a])
    /\ UNCHANGED <<tables, mix, history, faults>>

\* Without AUTOINCREMENT a new row gets the number after the last one in use.
NewEmailId(e) ==
    /\ \A f \in Rows : f < e
    /\ e = 1 \/ e - 1 \in Rows

\* Without a mail sender the address is confirmed at once (development mode).
Attach(c, e, k) ==
    LET j == job[c] IN
    /\ At(c, "attach") /\ NewEmailId(e)
    /\ Exists(j.user) /\ ~Taken(j.address)
    /\ k = NoSecret \/ k \notin spent
    /\ emails' = [emails EXCEPT ![e] =
          [user |-> j.user, address |-> j.address, primary |-> j.op = "register",
           confirmed |-> k = NoSecret, link |-> k, open |-> k # NoSecret]]
    /\ spent' = spent \cup ({k} \cap Secret)
    /\ job' = [job EXCEPT ![c].at = "reselect", ![c].email = e, ![c].secret = k]
    /\ recycled' = (recycled \/ \E d \in Call : job[d].email = e /\ job[d].at \in {"delete", "mark"})
    /\ UNCHANGED <<users, sessions, resets, born, told, shown, cut, unswept, unfinished, mix, faults>>

\* Mail is not configured, the address is taken by now, or the user is gone.
CannotAttach(c) ==
    /\ At(c, "attach") /\ Raise(c)
    /\ UNCHANGED <<tables, mix, history, faults>>

\* The registration is over, and its caller is told so.
Answer(c) ==
    /\ End(c)
    /\ told' = IF job[c].op = "register" THEN told \cup {job[c].user} ELSE told

Reselect(c) ==
    /\ At(c, "reselect")
    /\ CASE job[c].email \notin Rows -> Raise(c) /\ UNCHANGED told
         [] job[c].email \in Rows /\ job[c].secret = NoSecret -> Answer(c)
         [] OTHER -> Move(c, "mail") /\ UNCHANGED told
    /\ UNCHANGED <<tables, born, spent, shown, cut, unswept, unfinished, recycled, mix, faults>>

SendLink(c) ==
    /\ At(c, "mail")
    /\ Answer(c) \/ (Raise(c) /\ UNCHANGED told)
    /\ UNCHANGED <<tables, born, spent, shown, cut, unswept, unfinished, recycled, mix, faults>>

(***************************************************************************)
(* confirm_email and remove_email: the row is found first and written by   *)
(* its number after.                                                       *)
(***************************************************************************)
OpenLink(c, k) ==
    /\ \E e \in Rows : emails[e].link = k
    /\ Begin(c, [Idle EXCEPT !.op = "confirm", !.at = "select", !.secret = k])
    /\ shown' = shown \cup {k}
    /\ UNCHANGED <<tables, born, told, spent, cut, unswept, unfinished, recycled, mix, faults>>

BadMatches(e, k) == emails[e].open
Matches(e, k) == emails[e].open /\ emails[e].link = k

\* No row, or the link has expired: nothing is confirmed.
SelectLink(c) ==
    /\ At(c, "select")
    /\ \/ \E e \in Rows : /\ Matches(e, job[c].secret)
                          /\ job' = [job EXCEPT ![c].at = "mark", ![c].email = e]
       \/ End(c)
    /\ UNCHANGED <<tables, mix, history, faults>>

MarkConfirmed(c) ==
    LET e == job[c].email IN
    /\ At(c, "mark") /\ End(c)
    /\ emails' = IF e \in Rows THEN [emails EXCEPT ![e].confirmed = TRUE, ![e].open = FALSE]
                 ELSE emails
    /\ UNCHANGED <<users, sessions, resets, history, mix, faults>>

RemoveEmail(c, k, e) ==
    /\ Resolves(k)
    /\ Begin(c, [Idle EXCEPT !.op = "remove", !.at = "remove", !.user = sessions[k].user,
                             !.email = e])
    /\ UNCHANGED <<tables, mix, history, faults>>

CheckRemovable(c) ==
    LET e == job[c].email IN
    /\ At(c, "remove")
    /\ Move(c, IF e \in EmailsOf(job[c].user) /\ ~emails[e].primary THEN "delete" ELSE "idle")
    /\ UNCHANGED <<tables, mix, history, faults>>

DeleteEmail(c) ==
    /\ At(c, "delete") /\ End(c)
    /\ emails' = [emails EXCEPT ![job[c].email] = NoRow]
    /\ UNCHANGED <<users, sessions, resets, history, mix, faults>>

(***************************************************************************)
(* sign_in and sign_out                                                    *)
(***************************************************************************)
SignIn(c, u) ==
    /\ Exists(u)
    /\ Begin(c, [Idle EXCEPT !.op = "signin", !.at = "row", !.user = u])
    /\ UNCHANGED <<tables, mix, history, faults>>

ReadUser(c) ==
    LET u == job[c].user IN
    /\ At(c, "row")
    /\ Move(c, IF Exists(u) /\ users[u].status = "active" THEN "emails" ELSE "idle")
    /\ UNCHANGED <<tables, mix, history, faults>>

\* The password is verified against the row read before, in another thread; then
\* the primary address must be confirmed, if there is one.
CheckEmails(c) ==
    /\ At(c, "emails")
    /\ \/ End(c)
       \/ /\ \A e \in EmailsOf(job[c].user) : emails[e].primary => emails[e].confirmed
          /\ Move(c, "open")
    /\ UNCHANGED <<tables, mix, history, faults>>

OpenSession(c, k) ==
    LET u == job[c].user IN
    /\ At(c, "open") /\ k \notin spent /\ End(c)
    /\ IF Exists(u)
       THEN /\ sessions' = [sessions EXCEPT ![k] = [user |-> u, opened |-> cut[u]]]
            /\ spent' = spent \cup {k}
       ELSE UNCHANGED <<sessions, spent>>
    /\ UNCHANGED <<users, emails, resets, born, told, shown, cut, unswept, unfinished,
                   recycled, mix, faults>>

\* sign_out, or a sign-in that clears what has expired.
DropSession(k) ==
    /\ k \in Live
    /\ sessions' = [sessions EXCEPT ![k] = NoRow]
    /\ UNCHANGED <<users, emails, resets, job, history, mix, faults>>

(***************************************************************************)
(* request_password_reset and reset_password                               *)
(***************************************************************************)
AskReset(c, a) ==
    /\ Begin(c, [Idle EXCEPT !.op = "ask", !.at = "ask", !.address = a])
    /\ UNCHANGED <<tables, mix, history, faults>>

FindAddress(c) ==
    /\ At(c, "ask")
    /\ \/ \E e \in Rows :
             /\ emails[e].address = job[c].address /\ emails[e].confirmed
             /\ job' = [job EXCEPT ![c].at = "store", ![c].user = emails[e].user]
       \/ /\ ~\E e \in Rows : emails[e].address = job[c].address /\ emails[e].confirmed
          /\ End(c)
    /\ UNCHANGED <<tables, mix, history, faults>>

\* A new link displaces the one before; then it is mailed.
StoreReset(c, k) ==
    LET u == job[c].user IN
    /\ At(c, "store") /\ k \notin spent /\ End(c)
    /\ IF Exists(u) THEN resets' = [resets EXCEPT ![u] = k] /\ spent' = spent \cup {k}
                    ELSE UNCHANGED <<resets, spent>>
    /\ UNCHANGED <<users, emails, sessions, born, told, shown, cut, unswept, unfinished,
                   recycled, mix, faults>>

UseReset(c, k) ==
    /\ \E u \in User : resets[u] = k
    /\ Begin(c, [Idle EXCEPT !.op = "reset", !.at = "use", !.secret = k])
    /\ UNCHANGED <<tables, mix, history, faults>>

FindReset(c) ==
    /\ At(c, "use")
    /\ \/ \E u \in User : /\ resets[u] = job[c].secret
                          /\ job' = [job EXCEPT ![c].at = "consume", ![c].user = u]
       \/ End(c)
    /\ UNCHANGED <<tables, mix, history, faults>>

\* After the write the sessions go, and not before: a sign-in with the old
\* password would slip in between.
BadFollowing(j) ==
    CASE j.at \in {"consume", "check", "exists"} -> IF j.op = "unblock" THEN "write" ELSE "drop"
      [] j.at = "drop" -> "write"
      [] OTHER -> "idle"
Following(j) ==
    CASE j.at \in {"consume", "check", "exists"} -> "write"
      [] j.at = "write" /\ j.op # "unblock" -> "drop"
      [] OTHER -> "idle"

\* The row is deleted by the number it was read with.  If another call has
\* consumed it meanwhile the number may be another user's by now, or nobody's.
ConsumeReset(c) ==
    /\ At(c, "consume")
    /\ \E u \in User \cup {NoUser} :
          /\ resets[job[c].user] = job[c].secret => u = job[c].user
          /\ resets' = [v \in User |-> IF v = u THEN NoSecret ELSE resets[v]]
    /\ Move(c, Following(job[c]))
    /\ UNCHANGED <<users, emails, sessions, history, mix, faults>>

(***************************************************************************)
(* change_password, and the operator's reset_user_password and             *)
(* set_user_status.                                                        *)
(***************************************************************************)
ChangePassword(c, k) ==
    /\ Resolves(k)
    /\ Begin(c, [Idle EXCEPT !.op = "change", !.at = "check", !.user = sessions[k].user,
                             !.secret = k])
    /\ UNCHANGED <<tables, mix, history, faults>>

CheckPassword(c) ==
    /\ At(c, "check")
    /\ \/ Exists(job[c].user) /\ Move(c, Following(job[c]))
       \/ End(c)
    /\ UNCHANGED <<tables, mix, history, faults>>

Operate(c, o, u) ==
    /\ Begin(c, [Idle EXCEPT !.op = o, !.at = "exists", !.user = u])
    /\ UNCHANGED <<tables, mix, history, faults>>

CheckExists(c) ==
    /\ At(c, "exists")
    /\ Move(c, IF Exists(job[c].user) THEN Following(job[c]) ELSE "idle")
    /\ UNCHANGED <<tables, mix, history, faults>>

StatusAfter(j) ==
    CASE j.op = "block" -> "blocked" [] j.op = "unblock" -> "active" [] OTHER -> users[j.user].status

\* The new password, which is not modelled, or the new status.
Write(c) ==
    LET u == job[c].user IN
    /\ At(c, "write") /\ Move(c, Following(job[c]))
    /\ IF Exists(u)
       THEN /\ users' = [users EXCEPT ![u].status = StatusAfter(job[c])]
            /\ IF job[c].op = "unblock" THEN UNCHANGED cut
               ELSE cut[u] < MaxCut /\ cut' = [cut EXCEPT ![u] = @ + 1]
       ELSE UNCHANGED <<users, cut>>
    /\ UNCHANGED <<emails, sessions, resets, born, told, spent, shown, unswept, unfinished,
                   recycled, mix, faults>>

\* delete_user_sessions.  The session that changed the password is kept, and
\* counts as opened now.
DropSessions(c) ==
    LET u == job[c].user IN
    /\ At(c, "drop") /\ Move(c, Following(job[c]))
    /\ sessions' = [k \in Secret |->
          IF k \notin Live \/ sessions[k].user # u THEN sessions[k]
          ELSE IF k = job[c].secret THEN [sessions[k] EXCEPT !.opened = cut[u]]
          ELSE NoRow]
    /\ unswept' = unswept \ {u}
    /\ UNCHANGED <<users, emails, resets, born, told, spent, shown, cut, unfinished,
                   recycled, mix, faults>>

(***************************************************************************)
(* Failures: the database refuses, the client goes away, the process dies. *)
(***************************************************************************)
\* Where a call ends with its work half done and nothing takes it back.
Spoils(j) ==
    /\ unfinished' = IF j.op = "register" /\ j.user # NoUser THEN unfinished \cup {j.user}
                     ELSE unfinished
    /\ unswept' = IF j.at = "drop" THEN unswept \cup {j.user} ELSE unswept

Fail(c) ==
    /\ ~At(c, "idle") /\ faults < MaxFaults
    /\ faults' = faults + 1
    /\ \/ Handler(job[c]) # "idle" /\ Raise(c) /\ UNCHANGED <<unfinished, unswept>>
       \/ End(c) /\ Spoils(job[c])
    /\ UNCHANGED <<tables, born, told, spent, shown, cut, recycled, mix>>

(***************************************************************************)
(* Specification.                                                          *)
(***************************************************************************)
\* Some users are registered already, with a confirmed primary address each.
Init ==
    /\ users = [u \in User |-> IF u \in Settled
                               THEN [login |-> NameOf[u], status |-> "active"] ELSE NoRow]
    /\ emails = [e \in EmailId |->
          IF \E u \in Settled : RowOf[u] = e
          THEN LET u == CHOOSE v \in Settled : RowOf[v] = e IN
               [user |-> u, address |-> HomeOf[u], primary |-> TRUE, confirmed |-> TRUE,
                link |-> NoSecret, open |-> FALSE]
          ELSE NoRow]
    /\ sessions = [k \in Secret |-> NoRow]
    /\ resets = [u \in User |-> NoSecret]
    /\ mix \in Mixes /\ job = [c \in Call |-> Idle]
    /\ born = Settled /\ told = Settled /\ spent = {} /\ shown = {}
    /\ cut = [u \in User |-> 0]
    /\ unswept = {} /\ unfinished = {} /\ recycled = FALSE
    /\ faults = 0

Begins(c) ==
    \/ \E l \in Login, a \in Address : Register(c, l, a)
    \/ \E u \in User : SignIn(c, u)
    \/ \E a \in Address : AskReset(c, a)
    \/ \E o \in {"temporary", "block", "unblock"}, u \in User : Operate(c, o, u)
    \/ \E k \in Secret : \/ \E a \in Address : AddEmail(c, k, a)
                         \/ \E e \in EmailId : RemoveEmail(c, k, e)
                         \/ OpenLink(c, k) \/ UseReset(c, k) \/ ChangePassword(c, k)

Advance(c) ==
    \/ CheckAddress(c) \/ LoginTaken(c) \/ MakeDatabase(c) \/ FindUser(c)
    \/ \E u \in User : CreateUser(c, u)
    \/ Uncreate(c) \/ Undo(c) \/ CannotAttach(c) \/ Reselect(c) \/ SendLink(c)
    \/ \E e \in EmailId, k \in Secret \cup {NoSecret} : Attach(c, e, k)
    \/ SelectLink(c) \/ MarkConfirmed(c) \/ CheckRemovable(c) \/ DeleteEmail(c)
    \/ ReadUser(c) \/ CheckEmails(c) \/ FindAddress(c) \/ FindReset(c) \/ ConsumeReset(c)
    \/ \E k \in Secret : OpenSession(c, k) \/ StoreReset(c, k)
    \/ CheckPassword(c) \/ CheckExists(c) \/ Write(c) \/ DropSessions(c)

Next ==
    \/ \E c \in Call : Begins(c) \/ Advance(c) \/ Fail(c)
    \/ \E k \in Secret : DropSession(k)

Spec == Init /\ [][Next]_vars

(***************************************************************************)
(* Properties.                                                             *)
(***************************************************************************)
\* Whoever was signed in before the password was replaced, or before the account
\* was blocked, is signed out for good once the call is over, by whatever calls it
\* was raced; except the session that changed the password itself.
OldSessionsAreGone ==
    \A k \in Live : Resolves(k) /\ sessions[k].opened # cut[sessions[k].user] =>
        \/ sessions[k].user \in unswept
        \/ \E c \in Call : At(c, "drop") /\ job[c].user = sessions[k].user

Primary(u) == {e \in EmailsOf(u) : emails[e].primary}

\* A registration that answered leaves a user with one primary address, for good;
\* one that failed leaves nothing ("the login and the address would be taken for
\* ever", register).  Two exceptions: it failed where nothing takes the row back,
\* or an address row got a number that another call was about to delete.
AccountsAreWhole ==
    \/ recycled
    \/ \A u \in User :
          /\ u \in told => Exists(u)
          /\ Exists(u) => \/ \E e \in EmailId : Primary(u) = {e}
                          \/ u \notin told /\ u \in unfinished
                          \/ \E c \in Call : job[c].op = "register" /\ job[c].user = u

\* An address counts as confirmed only when its own link has been opened, unless
\* the address was confirmed without mail; with the same exception for numbers.
OnlyShownLinksConfirm ==
    \/ recycled
    \/ \A e \in Rows : emails[e].confirmed => emails[e].link \in shown \cup {NoSecret}

=============================================================================
