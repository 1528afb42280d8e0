--------------------------------- MODULE Doors ---------------------------------
(***************************************************************************)
(* What an anonymous request passes before a sign-in, a registration or a  *)
(* password reset: the limiter (RateLimiter) and the proof of work         *)
(* (CaptchaGuard).  Both keep their tables in the memory of the process,   *)
(* under a ceiling above which they forget.  Moments are kept as the time  *)
(* that has gone by since, or that is left.                                *)
(***************************************************************************)
EXTENDS Integers, FiniteSets, Sequences, SequencesExt

CONSTANTS
    Request,    \* requests at a time
    Key,        \* keys of the limiter: a client, or a client and a login
    Challenge,  \* challenges that were issued and solved
    Limit, Window, MaxKeys,     \* RateLimiter
    Ttl, MaxUsed,               \* CaptchaGuard
    NoKey, NoChallenge,
    Loads       \* bound: the keys and the solutions that requests bring in a behaviour

ASSUME DoorsAssumption ==
    /\ Limit \in Nat /\ Limit >= 2 /\ MaxKeys \in Nat \ {0} /\ MaxUsed \in Nat \ {0}
    /\ Window \in Nat /\ Ttl \in Nat \ {0}
    /\ Loads \subseteq [keys : SUBSET Key, solutions : SUBSET Challenge]
    /\ NoKey \notin Key /\ NoChallenge \notin Challenge

VARIABLES
    load,
    attempts,   \* the limiter: the age of each key's attempts, none for a forgotten key
    left,       \* how long each challenge is good for; NotIssued before it is issued
    used,       \* the nonces of used solutions, in the order they were used
    job,        \* the requests
    \* history
    shut,       \* how long a key that used up its limit must wait
    opened, twice,  \* solutions accepted, and accepted again
    overrun     \* solutions forgotten though they could come again

histories == <<shut, opened, twice, overrun>>
doors == <<load, attempts, left, used, job, histories>>

NotIssued == -1
Old == Window + 1   \* the age of an attempt that has left the window
Idle == [at |-> "idle", key |-> NoKey, challenge |-> NoChallenge]

DoorsTypeOK ==
    /\ load \in Loads
    /\ \A k \in Key : Len(attempts[k]) <= Limit /\ \A i \in DOMAIN attempts[k] :
           attempts[k][i] \in 0 .. Old /\ (i > 1 => attempts[k][i - 1] >= attempts[k][i])
    /\ Cardinality({k \in Key : attempts[k] # <<>>}) <= MaxKeys
    /\ left \in [Challenge -> NotIssued .. Ttl]
    /\ ToSet(used) \subseteq opened /\ Len(used) <= MaxUsed /\ IsInjective(used)
    /\ job \in [Request -> [at : {"idle", "thread", "verified", "operation"},
                            key : Key \cup {NoKey}, challenge : Challenge \cup {NoChallenge}]]
    /\ shut \in [Key -> 0 .. Old]
    /\ twice \subseteq opened /\ opened \subseteq Challenge /\ overrun \subseteq opened

At(r, step) == job[r].at = step

(***************************************************************************)
(* RateLimiter                                                             *)
(***************************************************************************)
\* The attempts of a key from the oldest on that is still inside the window.
InWindow(k) ==
    LET recent == {i \in DOMAIN attempts[k] : attempts[k][i] <= Window}
    IN  IF recent = {} THEN <<>> ELSE SubSeq(attempts[k], Min(recent), Len(attempts[k]))

Exhausted(table, k) == Len(table[k]) >= Limit

\* The order of eviction: keys that used up their limit last, then the stalest first.
Rank(table, k) == <<Exhausted(table, k), Last(table[k])>>

Before(a, b) == IF a[1] = b[1] THEN a[2] >= b[2] ELSE ~a[1]

BadVictims(table, keys) == {k \in keys : \A l \in keys : Head(table[k]) >= Head(table[l])}
Victims(table, keys) == {k \in keys : \A l \in keys : Before(Rank(table, k), Rank(table, l))}

\* _evict: keys with no attempt in the window; then one more, if that does not do:
\* the table is never more than one over its ceiling.
Evicted(table) ==
    LET stored == {k \in Key : table[k] # <<>>}
        fresh == {k \in stored : Last(table[k]) <= Window}
        without(gone) == [k \in Key |-> IF k \in gone THEN <<>> ELSE table[k]]
    IN  IF Cardinality(stored) <= MaxKeys THEN {table}
        ELSE IF Cardinality(fresh) <= MaxKeys THEN {without(stored \ fresh)}
        ELSE {without((stored \ fresh) \cup {v}) : v \in Victims(table, fresh)}

\* allow: a refused attempt is not counted.
BadAllowed(k) == Len(InWindow(k)) <= Limit
Allowed(k) == Len(InWindow(k)) < Limit

Attempt(k) ==
    LET kept == [attempts EXCEPT ![k] = InWindow(k)]
        counted == [kept EXCEPT ![k] = Append(@, 0)]
    IN  IF Allowed(k)
        THEN /\ attempts' \in Evicted(counted)
             /\ shut' = IF Exhausted(counted, k)
                        THEN [shut EXCEPT ![k] = Old - Head(counted[k])] ELSE shut
        ELSE attempts' = kept /\ UNCHANGED shut

\* register, login, request_password_reset: the limiter comes first.
Arrive(r, k, c) ==
    /\ At(r, "idle") /\ (c # NoChallenge => left[c] # NotIssued)
    /\ Attempt(k)
    /\ job' = IF Allowed(k) THEN [job EXCEPT ![r] = [at |-> "thread", key |-> k, challenge |-> c]]
                            ELSE job
    /\ UNCHANGED <<load, left, used, opened, twice, overrun>>

(***************************************************************************)
(* CaptchaGuard                                                            *)
(***************************************************************************)
Issue(c) ==
    /\ left[c] = NotIssued
    /\ left' = [left EXCEPT ![c] = Ttl]
    /\ UNCHANGED <<load, attempts, used, job, histories>>

\* verify_solution, in a thread: the solution may be none, or too late.
Genuine(c) == c # NoChallenge /\ left[c] > 0

Verify(r) ==
    /\ At(r, "thread")
    /\ job' = [job EXCEPT ![r] = IF Genuine(@.challenge)
                                THEN [@ EXCEPT !.at = "verified", !.key = NoKey] ELSE Idle]
    /\ UNCHANGED <<load, attempts, left, used, histories>>

\* Back in the event loop, where alone the table of used solutions is touched.
Fresh(c) == c \notin ToSet(used)

\* _evict: the expired; then, over the ceiling still, the oldest.
Newest(table) == SubSeq(table, Len(table) - MaxUsed + 1, Len(table))
Live(table) ==
    FoldLeft(LAMBDA live, c : IF left[c] > 0 THEN Append(live, c) ELSE live, <<>>, table)
BadRemembered(table) == Newest(table)
Remembered(table) ==
    IF Len(Live(table)) > MaxUsed THEN Newest(Live(table)) ELSE Live(table)

\* A solution that is forgotten may come again while it has not expired, which
\* only more live solutions than the ceiling can bring about, or if it was
\* verified in time and waits for its turn.
MayComeAgain(r, table, c) ==
    \/ Len(Live(table)) > MaxUsed /\ left[c] > 0
    \/ \E q \in Request \ {r} : At(q, "verified") /\ job[q].challenge = c

Accept(r) ==
    LET c == job[r].challenge  table == Append(used, c) IN
    /\ At(r, "verified") /\ Fresh(c)
    /\ used' = IF Len(table) > MaxUsed THEN Remembered(table) ELSE table
    /\ overrun' = overrun \cup {d \in ToSet(table) \ ToSet(used') : MayComeAgain(r, table, d)}
    /\ opened' = opened \cup {c}
    /\ twice' = IF c \in opened THEN twice \cup {c} ELSE twice
    /\ job' = [job EXCEPT ![r] = [Idle EXCEPT !.at = "operation"]]
    /\ UNCHANGED <<load, attempts, left, shut>>

RefuseReplay(r) ==
    /\ At(r, "verified") /\ ~Fresh(job[r].challenge)
    /\ job' = [job EXCEPT ![r] = Idle]
    /\ UNCHANGED <<load, attempts, left, used, histories>>

\* The operation behind the door, to its answer.
Answer(r) ==
    /\ At(r, "operation")
    /\ job' = [job EXCEPT ![r] = Idle]
    /\ UNCHANGED <<load, attempts, left, used, histories>>

Older(age) == IF age < Old THEN age + 1 ELSE Old
Less(t) == IF t > 0 THEN t - 1 ELSE t

Tick ==
    /\ attempts' = [k \in Key |-> [i \in DOMAIN attempts[k] |-> Older(attempts[k][i])]]
    /\ left' = [c \in Challenge |-> Less(left[c])]
    /\ shut' = [k \in Key |-> Less(shut[k])]
    /\ UNCHANGED <<load, used, job, opened, twice, overrun>>

Serve(r) == Verify(r) \/ Accept(r) \/ RefuseReplay(r) \/ Answer(r)

DoorsInit ==
    /\ load \in Loads
    /\ attempts = [k \in Key |-> <<>>] /\ shut = [k \in Key |-> 0]
    /\ left = [c \in Challenge |-> NotIssued] /\ used = <<>>
    /\ job = [r \in Request |-> Idle]
    /\ opened = {} /\ twice = {} /\ overrun = {}

(***************************************************************************)
(* Properties.                                                             *)
(***************************************************************************)
Enters(r) == At(r, "idle") /\ job'[r].at = "thread"

\* A key that used up its limit stays shut to the end of its window, whatever
\* other keys fill the table meanwhile ("the first to go are the keys that have
\* not used up the limit", _evict), and though the server is started anew.
ExhaustedStaysShut == [][\A r \in Request : Enters(r) => shut[job'[r].key] = 0]_doors

\* A solution opens one door once: two requests may bring it at the same time, and
\* the table may forget it, but only after it has expired ("every solution is
\* accepted at most once").  Two exceptions remain: more live solutions than the
\* ceiling, and one whose second verification was under way when it expired.
SolutionOnce == twice \subseteq overrun

=============================================================================
