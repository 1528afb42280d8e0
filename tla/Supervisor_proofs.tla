--------------------------- MODULE Supervisor_proofs ---------------------------
(***************************************************************************)
(* Theorems about Supervisor and the doors of its server, for any number   *)
(* of requests, keys, solutions, components and failures, and any limits.  *)
(***************************************************************************)
EXTENDS Supervisor, FiniteSetTheorems, SequenceTheorems, TLAPS

(***************************************************************************)
(* Sets of numbers.                                                        *)
(***************************************************************************)
\* A family of subsets of a finite set has a smallest member.
LEMMA SmallestSet ==
  ASSUME NEW S, IsFiniteSet(S), NEW C \in SUBSET (SUBSET S), C # {}
  PROVE  \E T \in C : \A U \in SUBSET T : U # T => U \notin C
<1> DEFINE R == StrictSubsetOrdering(S)
<1>1. IsWellFoundedOn(R, FiniteSubsetsOf(S))
  BY FS_StrictSubsetOrderingWellFounded
<1>2. C \subseteq FiniteSubsetsOf(S)
  BY FS_FiniteSubsetsOfFinite
<1>3. \E T \in C : \A U \in C : ~ (<<U, T>> \in R)
  <2> HIDE DEF R
  <2> QED
    BY <1>1, <1>2, WFMin
<1> QED
  BY <1>3 DEF StrictSubsetOrdering

\* A set of numbers that is not empty has a least member; a finite one, a greatest.
LEMMA MinIsLeast ==
  ASSUME NEW S \in SUBSET Nat, S # {}
  PROVE  Min(S) \in S /\ \A x \in S : Min(S) <= x
<1>1. PICK n \in S : TRUE
  OBVIOUS
<1> DEFINE C == {0 .. k : k \in S \cap (0 .. n)}
<1>2. C \in SUBSET (SUBSET (0 .. n)) /\ C # {} /\ IsFiniteSet(0 .. n)
  <2>1. n \in S \cap (0 .. n) /\ 0 \in Int /\ n \in Int
    BY <1>1
  <2>2. C \in SUBSET (SUBSET (0 .. n))
    OBVIOUS
  <2>3. IsFiniteSet(0 .. n)
    BY <2>1, FS_Interval
  <2>4. 0 .. n \in C
    BY <2>1
  <2> QED
    BY <2>2, <2>3, <2>4
<1>3. PICK T \in C : \A U \in SUBSET T : U # T => U \notin C
  <2> HIDE DEF C
  <2> QED
    BY <1>2, SmallestSet
<1>4. PICK k \in S \cap (0 .. n) : T = 0 .. k
  OBVIOUS
<1>5. \A y \in S : k <= y
  <2> SUFFICES ASSUME NEW y \in S, y < k PROVE FALSE
    BY <1>4
  <2>1. 0 .. y \in C /\ 0 .. y \in SUBSET T /\ 0 .. y # T
    BY <1>4
  <2> QED
    BY <1>3, <2>1
<1> QED
  BY <1>4, <1>5 DEF Min

LEMMA MaxIsGreatest ==
  ASSUME NEW S \in SUBSET Nat, S # {}, IsFiniteSet(S)
  PROVE  Max(S) \in S /\ \A x \in S : Max(S) >= x
<1> DEFINE Above(k) == {x \in S : x > k}
           C == {Above(k) : k \in S}
<1>1. C \in SUBSET (SUBSET S) /\ C # {}
  OBVIOUS
<1>2. PICK T \in C : \A U \in SUBSET T : U # T => U \notin C
  <2> HIDE DEF C
  <2> QED
    BY <1>1, SmallestSet
<1>3. PICK k \in S : T = Above(k)
  OBVIOUS
<1>4. \A y \in S : k >= y
  <2> SUFFICES ASSUME NEW y \in S, y > k PROVE FALSE
    BY <1>3
  <2>1. Above(y) \in C
    OBVIOUS
  <2>2. Above(y) \in SUBSET Above(k)
    <3>1. ASSUME NEW x \in S, x > y PROVE x > k
      <4>1. x \in Nat /\ y \in Nat /\ k \in Nat
        OBVIOUS
      <4> QED
        BY <3>1, <4>1
    <3> QED
      BY <3>1
  <2>3. y \in Above(k) /\ y \notin Above(y)
    <3>1. y \in Nat /\ ~(y > y)
      OBVIOUS
    <3> QED
      BY <3>1
  <2> HIDE DEF C, Above
  <2> QED
    BY <1>2, <1>3, <2>1, <2>2, <2>3
<1> QED
  BY <1>3, <1>4 DEF Max

(***************************************************************************)
(* The solutions that are still good.                                      *)
(***************************************************************************)
\* The function that computes Live on the first places of a table.
Kept(g, table, i, rest) == IF left[table[i]] > 0 THEN Append(g[rest], table[i]) ELSE g[rest]
IsLive(g, table, D) ==
    g = [s \in SUBSET D |-> IF s = {} THEN <<>> ELSE Kept(g, table, Max(s), s \ {Max(s)})]

LEMMA LiveIsChosen ==
  ASSUME NEW table
  PROVE  Live(table) = (CHOOSE g : IsLive(g, table, DOMAIN table))[DOMAIN table]
BY DEF Live, FoldLeft, MapThenFoldSet, IsLive, Kept

LEMMA LiveUnique ==
  ASSUME NEW table, NEW S \in SUBSET Nat, IsFiniteSet(S), NEW T, NEW g, NEW h,
         IsLive(g, table, S), IsLive(h, table, T)
  PROVE  \A U \in SUBSET (S \cap T) : g[U] = h[U]
<1> DEFINE C == {U \in SUBSET S : U \subseteq T /\ g[U] # h[U]}
<1> SUFFICES ASSUME C # {} PROVE FALSE
  OBVIOUS
<1>1. PICK U \in C : \A V \in SUBSET U : V # U => V \notin C
  <2>1. C \in SUBSET (SUBSET S)
    OBVIOUS
  <2> HIDE DEF C
  <2> QED
    BY <2>1, SmallestSet
<1>2. /\ g[U] = IF U = {} THEN <<>> ELSE Kept(g, table, Max(U), U \ {Max(U)})
      /\ h[U] = IF U = {} THEN <<>> ELSE Kept(h, table, Max(U), U \ {Max(U)})
  BY DEF IsLive
<1>3. U # {} => Max(U) \in U
  BY FS_Subset, MaxIsGreatest
<1>4. U # {} => g[U \ {Max(U)}] = h[U \ {Max(U)}]
  BY <1>1, <1>3
<1> QED
  BY <1>2, <1>4 DEF Kept

LEMMA LiveExists ==
  ASSUME NEW table, NEW S \in SUBSET Nat, IsFiniteSet(S)
  PROVE  \E g : IsLive(g, table, S)
<1> DEFINE C == {U \in SUBSET S : ~ \E g : IsLive(g, table, U)}
<1> SUFFICES ASSUME C # {} PROVE FALSE
  OBVIOUS
<1>1. PICK T \in C : \A U \in SUBSET T : U # T => U \notin C
  <2>1. C \in SUBSET (SUBSET S)
    OBVIOUS
  <2> HIDE DEF C
  <2> QED
    BY <2>1, SmallestSet
<1>0. \A U \in SUBSET T : U # {} => Max(U) \in U
  BY FS_Subset, MaxIsGreatest
<1> DEFINE The(U) == CHOOSE g : IsLive(g, table, U)
<1>2. \A U \in SUBSET T : U # T => IsLive(The(U), table, U)
  BY <1>1
<1> DEFINE Rest(U) == U \ {Max(U)}
           Value(U) == IF U = {} THEN <<>> ELSE Kept(The(Rest(U)), table, Max(U), Rest(U))
           g == [U \in SUBSET T |-> Value(U)]
<1> HIDE DEF The
<1>3. \A U \in SUBSET T : U # T => The(U)[U] = Value(U)
  <2> SUFFICES ASSUME NEW U \in SUBSET T, U # T, U # {}
               PROVE  The(U)[U] = Kept(The(Rest(U)), table, Max(U), Rest(U))
    BY <1>2 DEF IsLive
  <2> DEFINE V == Rest(U)
  <2>1. V \in SUBSET T /\ V # T /\ V \subseteq U
    BY <1>0
  <2>2. IsLive(The(U), table, U) /\ IsLive(The(V), table, V)
    BY <1>2, <2>1
  <2>3. The(U)[V] = The(V)[V]
    <3>1. IsFiniteSet(U)
      BY FS_Subset
    <3> HIDE DEF V
    <3> QED
      BY <2>1, <2>2, <3>1, LiveUnique
  <2> QED
    BY <2>2, <2>3 DEF IsLive, Kept
<1>4. g = [U \in SUBSET T |-> IF U = {} THEN <<>> ELSE Kept(g, table, Max(U), U \ {Max(U)})]
  <2>1. \A U \in SUBSET T : U # {} => g[Rest(U)] = The(Rest(U))[Rest(U)]
    <3> SUFFICES ASSUME NEW U \in SUBSET T, U # {}
                 PROVE  g[Rest(U)] = The(Rest(U))[Rest(U)]
      OBVIOUS
    <3>1. Rest(U) \in SUBSET T /\ Rest(U) # T
      BY <1>0
    <3> QED
      BY <1>3, <3>1
  <2> QED
    BY <2>1 DEF Kept
<1>5. IsLive(g, table, T)
  <2> HIDE DEF g
  <2> QED
    BY <1>4 DEF IsLive
<1> QED
  BY <1>5

\* The solutions of a table that are still good, each once if they are there once.
LEMMA LiveIs ==
  ASSUME NEW table \in Seq(Challenge)
  PROVE  /\ Live(table) \in Seq(Challenge)
         /\ ToSet(Live(table)) = {c \in ToSet(table) : left[c] > 0}
         /\ IsInjective(table) => IsInjective(Live(table))
<1> DEFINE D == DOMAIN table
           g == CHOOSE h : IsLive(h, table, D)
           Good(s) == /\ g[s] \in Seq(Challenge)
                      /\ ToSet(g[s]) = {table[i] : i \in {j \in s : left[table[j]] > 0}}
                      /\ IsInjective(table) => IsInjective(g[s])
<1>1. D \in SUBSET Nat /\ IsFiniteSet(D) /\ D = 1 .. Len(table)
  BY FS_Interval
<1>2. IsLive(g, table, D)
  <2> HIDE DEF D
  <2> QED
    BY <1>1, LiveExists
<1> HIDE DEF g
<1>3. Good(D)
  <2> DEFINE C == {s \in SUBSET D : ~Good(s)}
  <2> SUFFICES ASSUME C # {} PROVE FALSE
    OBVIOUS
  <2>1. PICK s \in C : \A U \in SUBSET s : U # s => U \notin C
    <3>1. C \in SUBSET (SUBSET D)
      OBVIOUS
    <3>2. IsFiniteSet(D) /\ C # {}
      BY <1>1
    <3> HIDE DEF C, D
    <3> QED
      BY <3>1, <3>2, SmallestSet
  <2>2. s \in SUBSET D /\ ~Good(s)
    OBVIOUS
  <2>3. CASE s = {}
    <3>1. g[s] = <<>>
      BY <1>2, <2>2, <2>3 DEF IsLive
    <3> QED
      BY <2>2, <2>3, <3>1 DEF ToSet, IsInjective
  <2>4. CASE s # {}
    <3> DEFINE m == Max(s)
               r == s \ {m}
               a == table[m]
    <3>1. m \in s
      BY <1>1, <2>2, <2>4, FS_Subset, MaxIsGreatest
    <3>2. g[s] = IF left[a] > 0 THEN Append(g[r], a) ELSE g[r]
      BY <1>2, <2>2, <2>4 DEF IsLive, Kept
    <3>3. Good(r)
      BY <2>1, <2>2, <3>1
    <3>4. s = r \cup {m} /\ m \notin r /\ a \in Challenge /\ m \in D /\ r \subseteq D
      BY <1>1, <2>2, <3>1
    <3> HIDE DEF m, r, a, Good
    <3>5. CASE ~(left[a] > 0)
      BY <2>2, <3>2, <3>3, <3>4, <3>5 DEF Good, a
    <3>6. CASE left[a] > 0
      <4> DEFINE t == g[r]
                 u == Append(t, a)
      <4>1. g[s] = u /\ t \in Seq(Challenge)
        BY <3>2, <3>3, <3>6 DEF Good
      <4>2. u \in Seq(Challenge) /\ Len(u) = Len(t) + 1 /\ u[Len(t) + 1] = a
            /\ \A i \in 1 .. Len(t) : u[i] = t[i]
        BY <3>4, <4>1
      <4>3. ToSet(u) = ToSet(t) \cup {a}
        BY <4>1, <4>2 DEF ToSet
      <4>4. ToSet(u) = {table[i] : i \in {j \in s : left[table[j]] > 0}}
        BY <3>3, <3>4, <3>6, <4>3 DEF Good, a
      <4>5. ASSUME IsInjective(table) PROVE IsInjective(u)
        <5>1. a \notin ToSet(t)
          BY <3>3, <3>4, <4>5 DEF Good, a, IsInjective
        <5>2. IsInjective(t)
          BY <3>3, <4>5 DEF Good
        <5>3. \A i \in 1 .. Len(t) : t[i] # a
          BY <4>1, <5>1 DEF ToSet
        <5> HIDE DEF t
        <5> QED
          BY <4>1, <4>2, <5>2, <5>3 DEF IsInjective
      <4> HIDE DEF u
      <4> QED
        BY <2>2, <4>1, <4>2, <4>4, <4>5 DEF Good
    <3> QED
      BY <3>5, <3>6
  <2> QED
    BY <2>3, <2>4
<1>4. Live(table) = g[D]
  BY LiveIsChosen DEF g
<1>5. {table[i] : i \in {j \in D : left[table[j]] > 0}} = {c \in ToSet(table) : left[c] > 0}
  BY DEF ToSet
<1> QED
  BY <1>3, <1>4, <1>5

(***************************************************************************)
(* The inductive invariant, in parts.                                      *)
(***************************************************************************)
Job == [at : {"idle", "thread", "verified", "operation"},
        key : Key \cup {NoKey}, challenge : Challenge \cup {NoChallenge}]
Full(table) == {k \in Key : table[k] # <<>>}
Stored == Full(attempts)

DoorTypes ==
    /\ load \in Loads
    /\ attempts \in [Key -> Seq(0 .. Old)] /\ shut \in [Key -> 0 .. Old]
    /\ left \in [Challenge -> NotIssued .. Ttl] /\ used \in Seq(Challenge)
    /\ job \in [Request -> Job]
    /\ opened \subseteq Challenge

\* The table of attempts: the oldest first, no more than the limit, and no more
\* keys than the ceiling.
Ordered ==
    /\ \A k \in Key : /\ Len(attempts[k]) <= Limit
                      /\ \A i \in 1 .. Len(attempts[k]), j \in 1 .. Len(attempts[k]) :
                           i <= j => attempts[k][j] <= attempts[k][i]
    /\ IsFiniteSet(Stored) /\ Cardinality(Stored) <= MaxKeys

\* The table of used solutions.
UsedOnce ==
    /\ ToSet(used) \subseteq opened /\ Len(used) <= MaxUsed /\ IsInjective(used)
    /\ twice \subseteq opened /\ overrun \subseteq opened /\ twice \subseteq overrun

\* A request brings only what was issued to it, and what was accepted is issued.
Issued ==
    /\ \A r \in Request : /\ job[r].challenge # NoChallenge => left[job[r].challenge] # NotIssued
                          /\ At(r, "verified") => job[r].challenge # NoChallenge
    /\ \A c \in opened : left[c] # NotIssued

\* What was accepted is in the table, or is over and no request is left with it.
Over(c) == left[c] = 0 /\ \A r \in Request : At(r, "verified") => job[r].challenge # c
Forgotten == \A c \in opened \ overrun : c \in ToSet(used) \/ Over(c)

\* A key that must wait has used up its limit, and its oldest attempt says for how long.
Waits == \A k \in Key : shut[k] > 0 =>
    Len(attempts[k]) >= Limit /\ shut[k] <= Old - attempts[k][1]

\* The components end for good, and the process after them.
Ends ==
    /\ stopping \in BOOLEAN /\ exiting \in BOOLEAN /\ cancelled \subseteq Background
    /\ state \in [Component -> {"loop", "running", "pause", "ended"}]
    /\ main \in {"waiting", "gathering", "stopped"}
    /\ crashes \in 0 .. MaxCrashes
    /\ main # "waiting" => stopping
    /\ main = "stopped" => \A c \in Component : state[c] = "ended"

Guarded == DoorTypes /\ Ordered /\ UsedOnce /\ Issued /\ Forgotten /\ Waits
IInv == Guarded /\ Ends

(***************************************************************************)
(* The limiter.                                                            *)
(***************************************************************************)
Falling(s) == \A i \in 1 .. Len(s), j \in 1 .. Len(s) : i <= j => s[j] <= s[i]

LEMMA Numbers ==
  /\ Limit \in Nat /\ Limit >= 2 /\ MaxKeys \in Nat /\ MaxUsed \in Nat /\ MaxUsed >= 1
  /\ Window \in Nat /\ Old = Window + 1 /\ Old \in Nat /\ Ttl \in Nat /\ 0 \in 0 .. Old
  /\ NotIssued = -1 /\ MaxCrashes \in Nat
BY DoorsAssumption, SupervisorAssumption DEF Old, NotIssued

\* What is left of a key's attempts are the last ones; all, if the first is recent.
LEMMA InWindowIs ==
  ASSUME DoorTypes, Ordered, NEW k \in Key
  PROVE  /\ InWindow(k) \in Seq(0 .. Old) /\ Len(InWindow(k)) <= Len(attempts[k])
         /\ Falling(InWindow(k))
         /\ attempts[k] # <<>> /\ attempts[k][1] <= Window => InWindow(k) = attempts[k]
<1> DEFINE s == attempts[k]
           recent == {i \in DOMAIN s : s[i] <= Window}
<1>1. s \in Seq(0 .. Old) /\ Falling(s) /\ Len(s) \in Nat /\ DOMAIN s = 1 .. Len(s)
  BY DEF DoorTypes, Ordered, Falling
<1>2. recent \in SUBSET Nat /\ recent \in SUBSET (1 .. Len(s))
  BY <1>1
<1>3. InWindow(k) = IF recent = {} THEN <<>> ELSE SubSeq(s, Min(recent), Len(s))
  BY DEF InWindow
<1>4. CASE recent = {}
  <2>1. InWindow(k) = <<>>
    BY <1>3, <1>4
  <2>2. ASSUME s # <<>>, s[1] <= Window PROVE FALSE
    <3>1. 1 \in recent
      BY <1>1, <2>2
    <3> QED
      BY <1>4, <3>1
  <2>3. <<>> \in Seq(0 .. Old) /\ Len(<<>>) = 0
    OBVIOUS
  <2> HIDE DEF recent
  <2> QED
    BY <1>1, <2>1, <2>2, <2>3 DEF Falling
<1>5. CASE recent # {}
  <2> DEFINE m == Min(recent)
             w == SubSeq(s, m, Len(s))
  <2>1. m \in recent /\ \A x \in recent : m <= x
    BY <1>2, <1>5, MinIsLeast
  <2>2. m \in 1 .. Len(s) /\ InWindow(k) = w
    BY <1>2, <1>3, <1>5, <2>1
  <2>3. s # <<>> /\ s[1] <= Window => m = 1
    <3> SUFFICES ASSUME s # <<>>, s[1] <= Window PROVE m = 1
      OBVIOUS
    <3>1. 1 \in recent
      BY <1>1
    <3>2. m <= 1 /\ m \in 1 .. Len(s)
      BY <2>1, <2>2, <3>1
    <3> HIDE DEF m
    <3> QED
      BY <1>1, <3>2
  <2> HIDE DEF m, recent
  <2>4. /\ w \in Seq(0 .. Old) /\ Len(w) = Len(s) - m + 1
        /\ \A i \in 1 .. Len(w) : w[i] = s[m + i - 1]
    <3>1. m \in Nat /\ 1 <= m /\ m <= Len(s) /\ Len(s) \in Nat /\ s \in Seq(0 .. Old)
      BY <1>1, <2>2
    <3> HIDE DEF s
    <3>2. Len(w) = Len(s) - m + 1
      BY <3>1
    <3>3. \A i \in 1 .. Len(w) : w[i] = s[m + i - 1]
      BY <3>1
    <3>4. w \in Seq(0 .. Old)
      <4>1. ASSUME NEW i \in m .. Len(s) PROVE s[i] \in 0 .. Old
        <5>1. i \in 1 .. Len(s)
          BY <3>1
        <5> QED
          BY <3>1, <5>1, ElementOfSeq
      <4> QED
        BY <3>1, <4>1, SubSeqProperties
    <3> HIDE DEF w
    <3> QED
      BY <3>2, <3>3, <3>4
  <2>5. m = 1 => w = s
    BY <1>1, <2>4
  <2> HIDE DEF w
  <2>6. Falling(w)
    <3> SUFFICES ASSUME NEW i \in 1 .. Len(w), NEW j \in 1 .. Len(w), i <= j PROVE w[j] <= w[i]
      BY DEF Falling
    <3>1. /\ m + i - 1 \in 1 .. Len(s) /\ m + j - 1 \in 1 .. Len(s) /\ m + i - 1 <= m + j - 1
      BY <1>1, <2>2, <2>4
    <3>2. s[m + j - 1] <= s[m + i - 1]
      BY <1>1, <3>1 DEF Falling
    <3> QED
      BY <2>4, <3>2
  <2>7. Len(w) <= Len(s)
    BY <1>1, <2>2, <2>4
  <2> QED
    BY <2>2, <2>3, <2>4, <2>5, <2>6, <2>7
<1> QED
  BY <1>4, <1>5

\* Eviction forgets whole keys: those whose attempts are all over, and at most one
\* more, the first in its order; and brings the table down to its ceiling.
LEMMA EvictedIs ==
  ASSUME NEW table \in [Key -> Seq(0 .. Old)], 
         IsFiniteSet(Full(table)), Cardinality(Full(table)) <= MaxKeys + 1, NEW t \in Evicted(table)
  PROVE  \E gone \in SUBSET Full(table) :
           /\ t = [k \in Key |-> IF k \in gone THEN <<>> ELSE table[k]]
           /\ Cardinality(Full(table) \ gone) <= MaxKeys
           /\ \A k \in gone : \/ Last(table[k]) > Window
                              \/ /\ Cardinality(Full(table)) > MaxKeys
                                 /\ \A l \in Full(table) : Last(table[l]) <= Window =>
                                      Before(Rank(table, k), Rank(table, l))
<1> DEFINE fresh == {k \in Full(table) : Last(table[k]) <= Window}
           without(gone) == [k \in Key |-> IF k \in gone THEN <<>> ELSE table[k]]
           Goal(gone) == /\ t = without(gone)
                         /\ Cardinality(Full(table) \ gone) <= MaxKeys
                         /\ \A k \in gone : \/ Last(table[k]) > Window
                              \/ /\ Cardinality(Full(table)) > MaxKeys
                                 /\ \A l \in Full(table) : Last(table[l]) <= Window =>
                                      Before(Rank(table, k), Rank(table, l))
<1>0. /\ IsFiniteSet(fresh) /\ Cardinality(fresh) <= Cardinality(Full(table))
      /\ Cardinality(fresh) \in Nat /\ Cardinality(Full(table)) \in Nat /\ fresh \subseteq Full(table)
  BY FS_Subset, FS_CardinalityType
<1>1. t \in (IF Cardinality(Full(table)) <= MaxKeys THEN {table}
             ELSE IF Cardinality(fresh) <= MaxKeys THEN {without(Full(table) \ fresh)}
             ELSE {without((Full(table) \ fresh) \cup {v}) : v \in Victims(table, fresh)})
  BY DEF Evicted, Full
<1>2. ASSUME NEW k \in Full(table) \ fresh PROVE Last(table[k]) > Window
  <2>0. k \in Full(table)
    BY <1>2
  <2>1. k \in Key /\ table[k] # <<>>
    BY <2>0 DEF Full
  <2>2. Last(table[k]) \in 0 .. Old
    <3> DEFINE s == table[k]
    <3>1. s \in Seq(0 .. Old) /\ s # <<>>
      BY <2>1
    <3> HIDE DEF s
    <3>2. Len(s) \in 1 .. Len(s)
      BY <3>1
    <3>3. s[Len(s)] \in 0 .. Old
      BY <3>1, <3>2, ElementOfSeq
    <3>4. Last(table[k]) = s[Len(s)]
      BY DEF Last, s
    <3> QED
      BY <3>3, <3>4
  <2>3. ~(Last(table[k]) <= Window)
    OBVIOUS
  <2> QED
    BY <2>2, <2>3, Numbers
<1>3. CASE Cardinality(Full(table)) <= MaxKeys
  <2>1. t = without({})
    BY <1>1, <1>3 DEF Full
  <2>2. Full(table) \ {} = Full(table)
    OBVIOUS
  <2>3. Goal({}) /\ {} \in SUBSET Full(table)
    BY <1>3, <2>1, <2>2
  <2> HIDE DEF Goal
  <2> QED
    BY <2>3 DEF Goal
<1>4. CASE ~(Cardinality(Full(table)) <= MaxKeys) /\ Cardinality(fresh) <= MaxKeys
  <2>1. t = without(Full(table) \ fresh)
    BY <1>1, <1>4
  <2>2. Full(table) \ (Full(table) \ fresh) = fresh
    OBVIOUS
  <2>3. Goal(Full(table) \ fresh)
    <3> HIDE DEF fresh, without
    <3> QED
      BY <1>2, <1>4, <2>1, <2>2
  <2>4. Full(table) \ fresh \in SUBSET Full(table)
    OBVIOUS
  <2> HIDE DEF fresh
  <2> QED
    BY <2>3, <2>4
<1>5. CASE ~(Cardinality(Full(table)) <= MaxKeys) /\ ~(Cardinality(fresh) <= MaxKeys)
  <2>1. PICK v \in Victims(table, fresh) : t = without((Full(table) \ fresh) \cup {v})
    BY <1>1, <1>5
  <2>2. v \in fresh /\ \A l \in fresh : Before(Rank(table, v), Rank(table, l))
    BY DEF Victims
  <2> DEFINE gone == (Full(table) \ fresh) \cup {v}
  <2>3. Full(table) \ gone = fresh \ {v} /\ gone \in SUBSET Full(table)
    BY <1>0, <2>2
  <2>4. Cardinality(fresh \ {v}) = Cardinality(fresh) - 1
    BY <1>0, <2>2, FS_RemoveElement
  <2>5. Cardinality(Full(table)) > MaxKeys
    BY <1>0, <1>5, Numbers
  <2>6. Cardinality(Full(table) \ gone) <= MaxKeys
    <3>1. Cardinality(fresh) - 1 <= MaxKeys
      BY <1>0, Numbers
    <3>2. Full(table) \ gone = fresh \ {v}
      BY <2>3
    <3>3. Cardinality(Full(table) \ gone) = Cardinality(fresh) - 1
      BY <2>4, <3>2
    <3> QED
      BY <3>1, <3>3
  <2>7. \A l \in Full(table) : Last(table[l]) <= Window => Before(Rank(table, v), Rank(table, l))
    BY <2>2
  <2>8. Goal(gone)
    <3>1. \A k \in gone : k = v \/ k \in Full(table) \ fresh
      OBVIOUS
    <3> HIDE DEF fresh, without, gone
    <3> QED
      BY <1>2, <2>1, <2>5, <2>6, <2>7, <3>1 DEF gone
  <2> HIDE DEF gone, Goal
  <2>9. Goal(gone) /\ gone \in SUBSET Full(table)
    BY <2>3, <2>8
  <2> QED
    BY <2>9 DEF Goal
<1> QED
  BY <1>3, <1>4, <1>5

\* A key that must wait is refused.
LEMMA ShutIsRefused ==
  ASSUME DoorTypes, Ordered, Waits, NEW k \in Key, shut[k] > 0
  PROVE  InWindow(k) = attempts[k] /\ ~Allowed(k)
<1> DEFINE s == attempts[k]
<1>1. s \in Seq(0 .. Old) /\ Len(s) \in Nat /\ shut[k] \in 0 .. Old
  BY DEF DoorTypes
<1>2. Len(s) >= Limit /\ shut[k] <= Old - s[1]
  BY DEF Waits
<1>3. 1 \in 1 .. Len(s) /\ s # <<>>
  BY <1>1, <1>2, Numbers
<1>4. s[1] \in 0 .. Old
  BY <1>1, <1>3, ElementOfSeq
<1> HIDE DEF s
<1>5. s[1] <= Window
  BY <1>1, <1>2, <1>4, Numbers
<1>6. InWindow(k) = s
  BY <1>3, <1>5, InWindowIs DEF s
<1>7. ~(Len(s) < Limit)
  BY <1>1, <1>2, Numbers
<1> QED
  BY <1>6, <1>7 DEF Allowed, s

Pruned(k) == [attempts EXCEPT ![k] = InWindow(k)]
Counted(k) == [attempts EXCEPT ![k] = Append(InWindow(k), 0)]

\* A table in order: what Ordered and Waits say of attempts and shut.
InOrder(table) == \A l \in Key : Len(table[l]) <= Limit /\ Falling(table[l])
Waiting(table, wait) == \A l \in Key : wait[l] > 0 =>
    Len(table[l]) >= Limit /\ wait[l] <= Old - table[l][1]

LEMMA AttemptIs ==
  ASSUME DoorTypes, NEW k \in Key, Attempt(k)
  PROVE  \/ ~Allowed(k) /\ attempts' = Pruned(k) /\ shut' = shut
         \/ /\ Allowed(k) /\ attempts' \in Evicted(Counted(k))
            /\ shut' = IF Exhausted(Counted(k), k)
                       THEN [shut EXCEPT ![k] = Old - Head(Counted(k)[k])] ELSE shut
<1> DEFINE kept == [attempts EXCEPT ![k] = InWindow(k)]
           counted == [kept EXCEPT ![k] = Append(@, 0)]
<1>1. counted = Counted(k)
  BY DEF Counted, DoorTypes
<1>2. kept = Pruned(k)
  BY DEF Pruned
<1>3. IF Allowed(k)
      THEN /\ attempts' \in Evicted(counted)
           /\ shut' = IF Exhausted(counted, k)
                      THEN [shut EXCEPT ![k] = Old - Head(counted[k])] ELSE shut
      ELSE attempts' = kept /\ UNCHANGED shut
  BY DEF Attempt
<1> HIDE DEF counted, kept
<1> QED
  BY <1>1, <1>2, <1>3

\* A refused attempt changes nothing but what has left the window.
LEMMA RefusedKeeps ==
  ASSUME DoorTypes, Ordered, Waits, NEW k \in Key
  PROVE  /\ Pruned(k) \in [Key -> Seq(0 .. Old)] /\ InOrder(Pruned(k)) /\ Waiting(Pruned(k), shut)
         /\ IsFiniteSet(Full(Pruned(k))) /\ Cardinality(Full(Pruned(k))) <= MaxKeys
<1>1. attempts \in [Key -> Seq(0 .. Old)]
  BY DEF DoorTypes
<1>2. /\ InWindow(k) \in Seq(0 .. Old) /\ Len(InWindow(k)) <= Len(attempts[k])
      /\ Falling(InWindow(k))
  BY InWindowIs
<1>3. /\ Pruned(k) \in [Key -> Seq(0 .. Old)] /\ Pruned(k)[k] = InWindow(k)
      /\ \A l \in Key : l # k => Pruned(k)[l] = attempts[l]
  BY <1>1, <1>2 DEF Pruned
<1>4. InOrder(Pruned(k))
  <2>1. \A l \in Key : Len(attempts[l]) <= Limit /\ Falling(attempts[l])
    BY DEF Ordered, Falling
  <2>2. Len(InWindow(k)) <= Limit
    BY <1>1, <1>2, <2>1, Numbers
  <2> QED
    BY <1>2, <1>3, <2>1, <2>2 DEF InOrder
<1>5. Waiting(Pruned(k), shut)
  <2> SUFFICES ASSUME NEW l \in Key, shut[l] > 0
               PROVE  Len(Pruned(k)[l]) >= Limit /\ shut[l] <= Old - Pruned(k)[l][1]
    BY DEF Waiting
  <2>1. Pruned(k)[l] = attempts[l]
    BY <1>3, ShutIsRefused
  <2> QED
    BY <2>1 DEF Waits
<1>6. Full(Pruned(k)) \subseteq Stored
  <2> SUFFICES ASSUME NEW l \in Key, Pruned(k)[l] # <<>> PROVE attempts[l] # <<>>
    BY DEF Full, Stored
  <2>1. CASE l # k
    BY <1>3, <2>1
  <2>2. CASE l = k
    <3>1. InWindow(k) # <<>>
      BY <1>3, <2>2
    <3> DEFINE w == InWindow(k)
               s == attempts[k]
    <3>2. w \in Seq(0 .. Old) /\ w # <<>> /\ Len(w) <= Len(s) /\ s \in Seq(0 .. Old)
      BY <1>1, <1>2, <3>1
    <3> HIDE DEF w, s
    <3>3. s # <<>>
      BY <3>2
    <3> QED
      BY <2>2, <3>3 DEF s
  <2> QED
    BY <2>1, <2>2
<1>7. IsFiniteSet(Full(Pruned(k))) /\ Cardinality(Full(Pruned(k))) <= MaxKeys
  <2>1. IsFiniteSet(Stored) /\ Cardinality(Stored) <= MaxKeys
    BY DEF Ordered
  <2>2. IsFiniteSet(Full(Pruned(k))) /\ Cardinality(Full(Pruned(k))) <= Cardinality(Stored)
    BY <1>6, <2>1, FS_Subset
  <2>3. Cardinality(Stored) \in Nat /\ Cardinality(Full(Pruned(k))) \in Nat
    BY <2>1, <2>2, FS_CardinalityType
  <2> QED
    BY <2>1, <2>2, <2>3, Numbers
<1> QED
  BY <1>3, <1>4, <1>5, <1>7

\* The table with an attempt counted, before anything is evicted.
LEMMA CountedIs ==
  ASSUME DoorTypes, Ordered, Waits, NEW k \in Key, Allowed(k)
  PROVE  /\ Counted(k) \in [Key -> Seq(0 .. Old)] /\ InOrder(Counted(k))
         /\ Counted(k)[k] # <<>> /\ Last(Counted(k)[k]) = 0
         /\ Len(Counted(k)[k]) = Len(InWindow(k)) + 1
         /\ \A l \in Key : l # k => Counted(k)[l] = attempts[l]
<1> DEFINE w == InWindow(k)
           a == Append(w, 0)
<1>1. attempts \in [Key -> Seq(0 .. Old)]
  BY DEF DoorTypes
<1>2. w \in Seq(0 .. Old) /\ Len(w) \in Nat /\ Falling(w)
  BY InWindowIs
<1>3. Len(w) < Limit
  BY DEF Allowed
<1>4. /\ a \in Seq(0 .. Old) /\ a # <<>> /\ Len(a) = Len(w) + 1 /\ a[Len(a)] = 0
      /\ \A i \in 1 .. Len(w) : a[i] = w[i]
  <2> HIDE DEF w
  <2> QED
    BY <1>2, Numbers
<1>5. /\ Counted(k) \in [Key -> Seq(0 .. Old)] /\ Counted(k)[k] = a
      /\ \A l \in Key : l # k => Counted(k)[l] = attempts[l]
  <2>1. Counted(k) = [attempts EXCEPT ![k] = a]
    BY DEF Counted
  <2> HIDE DEF a, w
  <2> QED
    BY <1>1, <1>4, <2>1
<1>6. Last(Counted(k)[k]) = 0
  BY <1>4, <1>5 DEF Last
<1> HIDE DEF a, w
<1>7. Falling(a)
  <2> SUFFICES ASSUME NEW i \in 1 .. Len(a), NEW j \in 1 .. Len(a), i <= j PROVE a[j] <= a[i]
    BY DEF Falling
  <2>1. a[i] \in 0 .. Old
    BY <1>4, ElementOfSeq
  <2>2. CASE j = Len(a)
    BY <1>4, <2>1, <2>2, Numbers
  <2>3. CASE j # Len(a)
    <3>1. i \in 1 .. Len(w) /\ j \in 1 .. Len(w)
      BY <1>2, <1>4, <2>3
    <3>2. w[j] <= w[i]
      BY <1>2, <3>1 DEF Falling
    <3> QED
      BY <1>4, <3>1, <3>2
  <2> QED
    BY <2>2, <2>3
<1>8. InOrder(Counted(k))
  <2>1. \A l \in Key : Len(attempts[l]) <= Limit /\ Falling(attempts[l])
    BY DEF Ordered, Falling
  <2>2. Len(a) <= Limit
    BY <1>2, <1>3, <1>4, Numbers
  <2> QED
    BY <1>5, <1>7, <2>1, <2>2 DEF InOrder
<1> QED
  BY <1>4, <1>5, <1>6, <1>8 DEF w

\* One key more than before at most; no more at all, if this one was there.
LEMMA CountedFull ==
  ASSUME DoorTypes, Ordered, Waits, NEW k \in Key, Allowed(k)
  PROVE  /\ IsFiniteSet(Full(Counted(k))) /\ Cardinality(Full(Counted(k))) <= MaxKeys + 1
         /\ k \in Full(Counted(k))
         /\ Cardinality(Full(Counted(k))) > MaxKeys => attempts[k] = <<>>
<1>1. IsFiniteSet(Stored) /\ Cardinality(Stored) <= MaxKeys /\ Cardinality(Stored) \in Nat
  BY FS_CardinalityType DEF Ordered
<1>2. k \in Full(Counted(k)) /\ Full(Counted(k)) \subseteq Stored \cup {k}
  BY CountedIs DEF Full, Stored
<1>3. CASE attempts[k] = <<>>
  <2>1. k \notin Stored
    BY <1>3 DEF Stored, Full
  <2>2. IsFiniteSet(Stored \cup {k}) /\ Cardinality(Stored \cup {k}) = Cardinality(Stored) + 1
    BY <1>1, <2>1, FS_AddElement
  <2>3. /\ IsFiniteSet(Full(Counted(k)))
        /\ Cardinality(Full(Counted(k))) <= Cardinality(Stored \cup {k})
    BY <1>2, <2>2, FS_Subset
  <2>4. Cardinality(Full(Counted(k))) \in Nat
    BY <2>3, FS_CardinalityType
  <2> QED
    BY <1>1, <1>2, <1>3, <2>2, <2>3, <2>4, Numbers
<1>4. CASE attempts[k] # <<>>
  <2>1. Full(Counted(k)) \subseteq Stored
    BY <1>2, <1>4 DEF Stored, Full
  <2>2. /\ IsFiniteSet(Full(Counted(k)))
        /\ Cardinality(Full(Counted(k))) <= Cardinality(Stored)
    BY <1>1, <2>1, FS_Subset
  <2>3. Cardinality(Full(Counted(k))) \in Nat
    BY <2>2, FS_CardinalityType
  <2> QED
    BY <1>1, <1>2, <2>2, <2>3, Numbers
<1> QED
  BY <1>3, <1>4

\* The keys that must wait when an attempt was counted: those of before, and this
\* one when it used up its limit.
LEMMA CountedWaits ==
  ASSUME DoorTypes, Ordered, Waits, NEW k \in Key, Attempt(k), Allowed(k)
  PROVE  shut' \in [Key -> 0 .. Old] /\ Waiting(Counted(k), shut')
<1> DEFINE c == Counted(k)
<1>1. shut' = IF Exhausted(c, k) THEN [shut EXCEPT ![k] = Old - Head(c[k])] ELSE shut
  BY AttemptIs
<1>2. /\ c \in [Key -> Seq(0 .. Old)] /\ c[k] # <<>>
      /\ \A l \in Key : l # k => c[l] = attempts[l]
  BY CountedIs
<1>3. shut \in [Key -> 0 .. Old]
  BY DEF DoorTypes
<1> HIDE DEF c
<1>4. Head(c[k]) = c[k][1] /\ c[k][1] \in 0 .. Old
  <2> DEFINE s == c[k]
  <2>1. s \in Seq(0 .. Old) /\ s # <<>>
    BY <1>2
  <2> HIDE DEF s
  <2>2. 1 \in 1 .. Len(s) /\ Head(s) = s[1]
    BY <2>1
  <2>3. s[1] \in 0 .. Old
    BY <2>1, <2>2, ElementOfSeq
  <2> QED
    BY <2>2, <2>3 DEF s
<1>5. Old - Head(c[k]) \in 0 .. Old
  BY <1>4, Numbers
<1>6. shut' \in [Key -> 0 .. Old] /\ \A l \in Key : l # k => shut'[l] = shut[l]
  BY <1>1, <1>3, <1>5
<1>7. ASSUME NEW l \in Key, shut'[l] > 0
      PROVE  Len(c[l]) >= Limit /\ shut'[l] <= Old - c[l][1]
  <2>1. CASE l # k
    <3>1. shut'[l] = shut[l] /\ c[l] = attempts[l]
      BY <1>2, <1>6, <2>1
    <3> QED
      BY <1>7, <3>1 DEF Waits
  <2>2. CASE l = k
    <3>1. ~(shut[k] > 0)
      BY ShutIsRefused
    <3>2. Exhausted(c, k)
      BY <1>1, <1>7, <2>2, <3>1
    <3>3. shut'[k] = Old - c[k][1]
      BY <1>1, <1>3, <1>4, <3>2
    <3>4. Old - c[k][1] <= Old - c[k][1]
      BY <1>4, Numbers
    <3> QED
      BY <2>2, <3>2, <3>3, <3>4 DEF Exhausted
  <2> QED
    BY <2>1, <2>2
<1> QED
  BY <1>6, <1>7 DEF Waiting, c

\* No key that must wait is evicted.
LEMMA WaitingIsNotEvicted ==
  ASSUME DoorTypes, Ordered, Waits, NEW k \in Key, Attempt(k), Allowed(k), NEW l \in Key,
         shut'[l] > 0,
         \/ Last(Counted(k)[l]) > Window
         \/ /\ Cardinality(Full(Counted(k))) > MaxKeys
            /\ \A m \in Full(Counted(k)) : Last(Counted(k)[m]) <= Window =>
                  Before(Rank(Counted(k), l), Rank(Counted(k), m))
  PROVE  FALSE
<1> DEFINE c == Counted(k)
<1>1. /\ c \in [Key -> Seq(0 .. Old)] /\ InOrder(c) /\ Last(c[k]) = 0
      /\ Len(c[k]) = Len(InWindow(k)) + 1
  BY CountedIs
<1>2. shut'[l] \in 0 .. Old /\ Len(c[l]) >= Limit /\ shut'[l] <= Old - c[l][1]
  BY CountedWaits DEF Waiting
<1>3. CASE Last(c[l]) > Window
  <2> DEFINE s == c[l]
  <2>1. s \in Seq(0 .. Old) /\ Falling(s) /\ Len(s) >= Limit /\ Len(s) \in Nat
    BY <1>1, <1>2 DEF InOrder
  <2>2. 1 \in 1 .. Len(s) /\ Len(s) \in 1 .. Len(s) /\ 1 <= Len(s)
    BY <2>1, Numbers
  <2>3. s[Len(s)] <= s[1]
    BY <2>1, <2>2 DEF Falling
  <2>4. s[1] \in 0 .. Old /\ s[Len(s)] \in 0 .. Old
    BY <2>1, <2>2, ElementOfSeq
  <2>5. Last(s) = s[Len(s)]
    BY DEF Last
  <2>6. s[1] <= Window
    <3>1. shut'[l] <= Old - s[1] /\ shut'[l] \in Nat
      BY <1>2, Numbers
    <3> HIDE DEF s
    <3> QED
      BY <2>4, <3>1, Numbers
  <2> HIDE DEF s
  <2>7. ~(Last(s) > Window)
    BY <2>3, <2>4, <2>5, <2>6, Numbers
  <2> QED
    BY <1>3, <2>7 DEF s
<1>4. CASE /\ Cardinality(Full(c)) > MaxKeys
           /\ \A m \in Full(c) : Last(c[m]) <= Window => Before(Rank(c, l), Rank(c, m))
  <2>1. attempts[k] = <<>> /\ k \in Full(c)
    BY <1>4, CountedFull
  <2>2. Len(InWindow(k)) = 0
    <3> DEFINE w == InWindow(k)
    <3>1. w \in Seq(0 .. Old) /\ Len(w) <= Len(attempts[k])
      BY InWindowIs
    <3>2. Len(attempts[k]) = 0
      BY <2>1
    <3> HIDE DEF w
    <3>3. Len(w) = 0
      BY <3>1, <3>2
    <3> QED
      BY <3>3 DEF w
  <2> HIDE DEF c
  <2>3. ~Exhausted(c, k)
    BY <1>1, <2>2, Numbers DEF Exhausted
  <2>4. Exhausted(c, l)
    BY <1>2 DEF Exhausted
  <2>5. Before(Rank(c, l), Rank(c, k))
    BY <1>1, <1>4, <2>1, Numbers
  <2> QED
    BY <2>3, <2>4, <2>5 DEF Before, Rank
<1> QED
  BY <1>3, <1>4

\* An attempt keeps the table in order, and shuts no key out of its wait.
LEMMA AttemptKeeps ==
  ASSUME DoorTypes, Ordered, Waits, NEW k \in Key, Attempt(k)
  PROVE  /\ attempts' \in [Key -> Seq(0 .. Old)] /\ shut' \in [Key -> 0 .. Old]
         /\ Ordered' /\ Waits'
<1>0. shut \in [Key -> 0 .. Old]
  BY DEF DoorTypes
<1>1. ASSUME InOrder(attempts'), Waiting(attempts', shut'),
             IsFiniteSet(Full(attempts')), Cardinality(Full(attempts')) <= MaxKeys
      PROVE  Ordered' /\ Waits'
  BY <1>1 DEF Ordered, Waits, InOrder, Waiting, Falling, Stored, Full
<1>2. CASE ~Allowed(k)
  <2>1. attempts' = Pruned(k) /\ shut' = shut
    BY <1>2, AttemptIs
  <2> QED
    BY <1>0, <1>1, <2>1, RefusedKeeps
<1>3. CASE Allowed(k)
  <2> DEFINE c == Counted(k)
  <2>1. attempts' \in Evicted(c)
    BY <1>3, AttemptIs
  <2>2. c \in [Key -> Seq(0 .. Old)] /\ InOrder(c)
    BY <1>3, CountedIs
  <2>3. shut' \in [Key -> 0 .. Old] /\ Waiting(c, shut')
    BY <1>3, CountedWaits
  <2>4. IsFiniteSet(Full(c)) /\ Cardinality(Full(c)) <= MaxKeys + 1
    BY <1>3, CountedFull
  <2>5. PICK gone \in SUBSET Full(c) :
           /\ attempts' = [l \in Key |-> IF l \in gone THEN <<>> ELSE c[l]]
           /\ Cardinality(Full(c) \ gone) <= MaxKeys
           /\ \A l \in gone : \/ Last(c[l]) > Window
                              \/ /\ Cardinality(Full(c)) > MaxKeys
                                 /\ \A m \in Full(c) : Last(c[m]) <= Window =>
                                      Before(Rank(c, l), Rank(c, m))
    <3> HIDE DEF c
    <3> QED
      BY <2>1, <2>2, <2>4, EvictedIs
  <2>6. \A l \in Key : shut'[l] > 0 => l \notin gone
    BY <1>3, <2>5, WaitingIsNotEvicted
  <2> HIDE DEF c
  <2>7. attempts' \in [Key -> Seq(0 .. Old)]
    <3>1. \A l \in Key : c[l] \in Seq(0 .. Old) /\ <<>> \in Seq(0 .. Old)
      BY <2>2
    <3>2. attempts' = [l \in Key |-> IF l \in gone THEN <<>> ELSE c[l]]
      BY <2>5
    <3> QED
      BY <3>1, <3>2
  <2>8. InOrder(attempts')
    <3>1. Len(<<>>) <= Limit /\ Falling(<<>>)
      BY Numbers DEF Falling
    <3> QED
      BY <2>2, <2>5, <3>1 DEF InOrder
  <2>9. Waiting(attempts', shut')
    BY <2>3, <2>5, <2>6 DEF Waiting
  <2>10. Full(attempts') = Full(c) \ gone
    BY <2>5 DEF Full
  <2>11. IsFiniteSet(Full(attempts')) /\ Cardinality(Full(attempts')) <= MaxKeys
    BY <2>4, <2>5, <2>10, FS_Subset
  <2> QED
    BY <1>1, <2>3, <2>7, <2>8, <2>9, <2>11
<1> QED
  BY <1>2, <1>3

(***************************************************************************)
(* The steps of the doors.                                                 *)
(***************************************************************************)
LEMMA SameDoors ==
  ASSUME Guarded, UNCHANGED doors
  PROVE  Guarded'
<1>1. /\ load' = load /\ attempts' = attempts /\ left' = left /\ used' = used /\ job' = job
      /\ shut' = shut /\ opened' = opened /\ twice' = twice /\ overrun' = overrun
  BY DEF doors, histories
<1>2. DoorTypes' /\ Ordered' /\ Waits'
  BY <1>1 DEF Guarded, DoorTypes, Ordered, Waits, Stored, Full, Job
<1>3. UsedOnce' /\ Issued' /\ Forgotten'
  BY <1>1 DEF Guarded, UsedOnce, Issued, Forgotten, Over, At
<1> QED
  BY <1>2, <1>3 DEF Guarded

LEMMA IdleIsJob == Idle \in Job /\ Idle.at = "idle" /\ Idle.challenge = NoChallenge
BY DEF Idle, Job

\* Requests that come to their end, in any way, leave the tables as they are.
LEMMA JobsEnd ==
  ASSUME Guarded, UNCHANGED <<load, attempts, left, used, histories>>,
         job' \in [Request -> Job], \A q \in Request : job'[q] = job[q] \/ job'[q] = Idle
  PROVE  Guarded'
<1>1. /\ load' = load /\ attempts' = attempts /\ left' = left /\ used' = used
      /\ shut' = shut /\ opened' = opened /\ twice' = twice /\ overrun' = overrun
  BY DEF histories
<1>2. DoorTypes' /\ Ordered' /\ Waits'
  BY <1>1 DEF Guarded, DoorTypes, Ordered, Waits, Stored, Full, Job
<1>3. UsedOnce'
  BY <1>1 DEF Guarded, UsedOnce
<1>4. Issued'
  BY <1>1, IdleIsJob DEF Guarded, Issued, At
<1>5. Forgotten'
  BY <1>1, IdleIsJob DEF Guarded, Forgotten, Over, At
<1> QED
  BY <1>2, <1>3, <1>4, <1>5 DEF Guarded

LEMMA RefuseReplayKeeps ==
  ASSUME Guarded, NEW r \in Request, RefuseReplay(r)
  PROVE  Guarded'
<1>1. job \in [Request -> Job] /\ job' = [job EXCEPT ![r] = Idle]
  BY DEF Guarded, DoorTypes, RefuseReplay
<1>2. job' \in [Request -> Job] /\ \A q \in Request : job'[q] = job[q] \/ job'[q] = Idle
  BY <1>1, IdleIsJob
<1> QED
  BY <1>2, JobsEnd DEF RefuseReplay

LEMMA AnswerKeeps ==
  ASSUME Guarded, NEW r \in Request, Answer(r)
  PROVE  Guarded'
<1>1. job \in [Request -> Job] /\ job' = [job EXCEPT ![r] = Idle]
  BY DEF Guarded, DoorTypes, Answer
<1>2. job' \in [Request -> Job] /\ \A q \in Request : job'[q] = job[q] \/ job'[q] = Idle
  BY <1>1, IdleIsJob
<1> QED
  BY <1>2, JobsEnd DEF Answer

LEMMA VerifyKeeps ==
  ASSUME Guarded, NEW r \in Request, Verify(r)
  PROVE  Guarded'
<1> DEFINE c == job[r].challenge
           j == [job[r] EXCEPT !.at = "verified", !.key = NoKey]
<1>1. /\ job \in [Request -> Job] /\ UNCHANGED <<load, attempts, left, used, histories>>
      /\ job' = [job EXCEPT ![r] = IF Genuine(c) THEN j ELSE Idle]
  BY DEF Guarded, DoorTypes, Verify
<1>2. j \in Job /\ j.challenge = c /\ j.at = "verified"
  BY <1>1 DEF Job
<1> HIDE DEF j
<1>3. CASE ~Genuine(c)
  <2>1. job' \in [Request -> Job] /\ \A q \in Request : job'[q] = job[q] \/ job'[q] = Idle
    BY <1>1, <1>3, IdleIsJob
  <2> QED
    BY <1>1, <2>1, JobsEnd
<1>4. CASE Genuine(c)
  <2>1. /\ job' \in [Request -> Job] /\ job'[r] = j
        /\ \A q \in Request : q # r => job'[q] = job[q]
    BY <1>1, <1>2, <1>4
  <2>2. /\ load' = load /\ attempts' = attempts /\ left' = left /\ used' = used
        /\ shut' = shut /\ opened' = opened /\ twice' = twice /\ overrun' = overrun
    BY <1>1 DEF histories
  <2>3. DoorTypes' /\ Ordered' /\ Waits'
    BY <2>1, <2>2 DEF Guarded, DoorTypes, Ordered, Waits, Stored, Full, Job
  <2>4. UsedOnce'
    BY <2>2 DEF Guarded, UsedOnce
  <2>5. c # NoChallenge /\ left[c] > 0
    BY <1>4 DEF Genuine
  <2>6. Issued'
    BY <1>2, <2>1, <2>2, <2>5 DEF Guarded, Issued, At
  <2>7. Forgotten'
    <3> SUFFICES ASSUME NEW d \in opened \ overrun, d \notin ToSet(used) PROVE Over(d)'
      BY <2>2 DEF Forgotten
    <3>1. Over(d)
      BY DEF Guarded, Forgotten
    <3>2. left[d] = 0
      BY <3>1 DEF Over
    <3>3. d # c
      BY <2>5, <3>2
    <3> QED
      BY <1>2, <2>1, <2>2, <3>1, <3>3 DEF Over, At
  <2> QED
    BY <2>3, <2>4, <2>6, <2>7 DEF Guarded
<1> QED
  BY <1>3, <1>4

LEMMA IssueKeeps ==
  ASSUME Guarded, NEW c \in Challenge, Issue(c)
  PROVE  Guarded'
<1>1. /\ left[c] = NotIssued /\ left \in [Challenge -> NotIssued .. Ttl]
      /\ left' = [left EXCEPT ![c] = Ttl]
      /\ load' = load /\ attempts' = attempts /\ job' = job /\ used' = used
      /\ shut' = shut /\ opened' = opened /\ twice' = twice /\ overrun' = overrun
  BY DEF Issue, histories, Guarded, DoorTypes
<1>2. /\ left' \in [Challenge -> NotIssued .. Ttl] /\ left'[c] = Ttl /\ Ttl # NotIssued
      /\ \A d : d # c => left'[d] = left[d]
  BY <1>1, Numbers
<1>3. DoorTypes' /\ Ordered' /\ Waits'
  BY <1>1, <1>2 DEF Guarded, DoorTypes, Ordered, Waits, Stored, Full, Job
<1>4. UsedOnce'
  BY <1>1 DEF Guarded, UsedOnce
<1>5. Issued'
  BY <1>1, <1>2 DEF Guarded, Issued, At
<1>6. Forgotten'
  <2> SUFFICES ASSUME NEW d \in opened \ overrun, d \notin ToSet(used) PROVE Over(d)'
    BY <1>1 DEF Forgotten
  <2>1. Over(d)
    BY DEF Guarded, Forgotten
  <2>2. d # c
    BY <1>1, <2>1, Numbers DEF Over
  <2>3. left'[d] = left[d]
    BY <1>2, <2>2
  <2> QED
    BY <1>1, <2>1, <2>3 DEF Over, At
<1> QED
  BY <1>3, <1>4, <1>5, <1>6 DEF Guarded

LEMMA ArriveKeeps ==
  ASSUME Guarded, NEW r \in Request, NEW k \in Key, NEW c \in Challenge \cup {NoChallenge},
         Arrive(r, k, c)
  PROVE  Guarded'
<1> DEFINE j == [at |-> "thread", key |-> k, challenge |-> c]
<1>1. /\ c # NoChallenge => left[c] # NotIssued
      /\ Attempt(k) /\ job' = IF Allowed(k) THEN [job EXCEPT ![r] = j] ELSE job
      /\ load' = load /\ left' = left /\ used' = used
      /\ opened' = opened /\ twice' = twice /\ overrun' = overrun
  BY DEF Arrive
<1>2. j \in Job /\ j.at = "thread" /\ j.challenge = c
  BY DEF Job
<1> HIDE DEF j
<1>3. /\ job' \in [Request -> Job]
      /\ \A q \in Request : job'[q] = job[q] \/ job'[q] = j
  BY <1>1, <1>2 DEF Guarded, DoorTypes
<1>4. /\ attempts' \in [Key -> Seq(0 .. Old)] /\ shut' \in [Key -> 0 .. Old]
      /\ Ordered' /\ Waits'
  BY <1>1, AttemptKeeps DEF Guarded
<1>5. DoorTypes'
  BY <1>1, <1>3, <1>4 DEF Guarded, DoorTypes, Job
<1>6. UsedOnce'
  BY <1>1 DEF Guarded, UsedOnce
<1>7. Issued'
  BY <1>1, <1>2, <1>3 DEF Guarded, Issued, At
<1>8. Forgotten'
  BY <1>1, <1>2, <1>3 DEF Guarded, Forgotten, Over, At
<1> QED
  BY <1>4, <1>5, <1>6, <1>7, <1>8 DEF Guarded

\* The table of used solutions with one more, and what it is cut down to.
LEMMA UsedAndOne ==
  ASSUME DoorTypes, UsedOnce, NEW c \in Challenge, c \notin ToSet(used), NEW table, table = Append(used, c)
  PROVE  /\ table \in Seq(Challenge) /\ IsInjective(table) /\ ToSet(table) = ToSet(used) \cup {c}
<1>1. used \in Seq(Challenge) /\ Len(used) \in Nat /\ DOMAIN used = 1 .. Len(used)
  BY DEF DoorTypes
<1>2. /\ table \in Seq(Challenge) /\ Len(table) = Len(used) + 1
      /\ DOMAIN table = 1 .. Len(used) + 1
      /\ \A i \in 1 .. Len(used) : table[i] = used[i]
      /\ table[Len(used) + 1] = c
  BY <1>1
<1>3. IsInjective(table)
  <2> SUFFICES ASSUME NEW a \in 1 .. Len(used) + 1, NEW b \in 1 .. Len(used) + 1,
                      table[a] = table[b]
               PROVE  a = b
    BY <1>2 DEF IsInjective
  <2>0. ASSUME NEW i \in 1 .. Len(used) PROVE table[i] # c
    BY <1>1, <1>2 DEF ToSet
  <2>1. CASE a \in 1 .. Len(used) /\ b \in 1 .. Len(used)
    BY <1>1, <1>2, <2>1 DEF UsedOnce, IsInjective
  <2>2. CASE a \notin 1 .. Len(used)
    <3>1. a = Len(used) + 1
      BY <1>1, <2>2
    <3>2. b \notin 1 .. Len(used)
      BY <1>2, <2>0, <3>1
    <3> QED
      BY <1>1, <3>1, <3>2
  <2>3. CASE b \notin 1 .. Len(used)
    <3>1. b = Len(used) + 1
      BY <1>1, <2>3
    <3>2. a \notin 1 .. Len(used)
      BY <1>2, <2>0, <3>1
    <3> QED
      BY <1>1, <3>1, <3>2
  <2> QED
    BY <2>1, <2>2, <2>3
<1>4. ToSet(table) = ToSet(used) \cup {c}
  <2>1. ASSUME NEW x \in ToSet(table) PROVE x \in ToSet(used) \cup {c}
    <3>1. PICK i \in 1 .. Len(used) + 1 : x = table[i]
      BY <1>2, <2>1 DEF ToSet
    <3>2. i \in 1 .. Len(used) \/ i = Len(used) + 1
      BY <1>1
    <3> QED
      BY <1>1, <1>2, <3>1, <3>2 DEF ToSet
  <2>2. ASSUME NEW x \in ToSet(used) PROVE x \in ToSet(table)
    <3>1. PICK i \in 1 .. Len(used) : x = used[i]
      BY <1>1, <2>2 DEF ToSet
    <3>2. i \in 1 .. Len(used) + 1 /\ x = table[i]
      BY <1>1, <1>2, <3>1
    <3> QED
      BY <1>2, <3>2 DEF ToSet
  <2>3. c \in ToSet(table)
    <3>1. Len(used) + 1 \in 1 .. Len(used) + 1
      BY <1>1
    <3> QED
      BY <1>2, <3>1 DEF ToSet
  <2> QED
    BY <2>1, <2>2, <2>3
<1> QED
  BY <1>2, <1>3, <1>4

\* The last solutions of a table that is over the ceiling.
LEMMA NewestIs ==
  ASSUME NEW s \in Seq(Challenge), Len(s) > MaxUsed
  PROVE  /\ Newest(s) \in Seq(Challenge) /\ Len(Newest(s)) = MaxUsed
         /\ ToSet(Newest(s)) \subseteq ToSet(s)
         /\ IsInjective(s) => IsInjective(Newest(s))
<1> DEFINE m == Len(s) - MaxUsed + 1
           w == SubSeq(s, m, Len(s))
<1>0. Newest(s) = w
  BY DEF Newest
<1>1. Len(s) \in Nat /\ m \in 1 .. Len(s) /\ m \in Nat /\ m >= 1 /\ DOMAIN s = 1 .. Len(s)
  BY Numbers
<1>2. Len(s) - m + 1 = MaxUsed
  BY <1>1, Numbers
<1> HIDE DEF m
<1>3. \A i \in m .. Len(s) : s[i] \in Challenge
  <2> SUFFICES ASSUME NEW i \in m .. Len(s) PROVE s[i] \in Challenge
    OBVIOUS
  <2>1. i \in 1 .. Len(s)
    BY <1>1
  <2> QED
    BY <2>1, ElementOfSeq
<1>4. /\ w \in Seq(Challenge) /\ Len(w) = MaxUsed /\ DOMAIN w = 1 .. Len(w)
      /\ \A i \in 1 .. Len(w) : w[i] = s[m + i - 1]
  <2>1. w \in Seq(Challenge)
    BY <1>1, <1>3, SubSeqProperties
  <2>2. Len(w) = Len(s) - m + 1
    BY <1>1
  <2>3. \A i \in 1 .. Len(w) : w[i] = s[m + i - 1]
    BY <1>1
  <2> HIDE DEF w
  <2> QED
    BY <1>2, <2>1, <2>2, <2>3
<1>5. \A i \in 1 .. Len(w) : m + i - 1 \in DOMAIN s
  <2> HIDE DEF w
  <2> QED
    BY <1>1, <1>2, <1>4, Numbers
<1> HIDE DEF w
<1>6. ToSet(w) \subseteq ToSet(s)
  BY <1>4, <1>5 DEF ToSet
<1>7. ASSUME IsInjective(s) PROVE IsInjective(w)
  <2> SUFFICES ASSUME NEW a \in 1 .. Len(w), NEW b \in 1 .. Len(w), w[a] = w[b] PROVE a = b
    BY <1>4 DEF IsInjective
  <2>1. s[m + a - 1] = s[m + b - 1] /\ m + a - 1 \in DOMAIN s /\ m + b - 1 \in DOMAIN s
    BY <1>4, <1>5
  <2>2. m + a - 1 = m + b - 1
    BY <1>7, <2>1 DEF IsInjective
  <2> QED
    BY <1>1, <2>2
<1> QED
  BY <1>0, <1>4, <1>6, <1>7

\* What remains of a table, and why the rest is gone.
LEMMA RememberedIs ==
  ASSUME NEW table \in Seq(Challenge), IsInjective(table),
         NEW t, t = IF Len(table) > MaxUsed THEN Remembered(table) ELSE table
  PROVE  /\ t \in Seq(Challenge) /\ Len(t) <= MaxUsed /\ IsInjective(t)
         /\ ToSet(t) \subseteq ToSet(table)
         /\ \A d \in ToSet(table) \ ToSet(t) : left[d] > 0 => Len(Live(table)) > MaxUsed
<1> DEFINE live == Live(table)
<1>1. /\ live \in Seq(Challenge) /\ ToSet(live) = {c \in ToSet(table) : left[c] > 0}
      /\ IsInjective(live) /\ Len(live) \in Nat /\ Len(table) \in Nat
  BY LiveIs
<1> HIDE DEF live
<1>2. CASE ~(Len(table) > MaxUsed)
  BY <1>1, <1>2, Numbers
<1>3. CASE Len(table) > MaxUsed /\ ~(Len(live) > MaxUsed)
  <2>1. t = live
    BY <1>3 DEF Remembered, live
  <2>2. \A d \in ToSet(table) \ ToSet(t) : ~(left[d] > 0)
    BY <1>1, <2>1
  <2>3. Len(t) <= MaxUsed
    BY <1>1, <1>3, <2>1, Numbers
  <2> QED
    BY <1>1, <2>1, <2>2, <2>3
<1>4. CASE Len(table) > MaxUsed /\ Len(live) > MaxUsed
  <2>1. t = Newest(live)
    BY <1>4 DEF Remembered, live
  <2>2. /\ t \in Seq(Challenge) /\ Len(t) = MaxUsed /\ ToSet(t) \subseteq ToSet(live)
        /\ IsInjective(t)
    BY <1>1, <1>4, <2>1, NewestIs
  <2>3. ToSet(t) \subseteq ToSet(table) /\ Len(t) <= MaxUsed
    BY <1>1, <2>2, Numbers
  <2> QED
    BY <1>4, <2>2, <2>3 DEF live
<1> QED
  BY <1>2, <1>3, <1>4

LEMMA AcceptKeeps ==
  ASSUME Guarded, NEW r \in Request, Accept(r)
  PROVE  Guarded'
<1> DEFINE c == job[r].challenge
           table == Append(used, c)
           gone == ToSet(table) \ ToSet(used')
           j == [Idle EXCEPT !.at = "operation"]
<1>1. /\ At(r, "verified") /\ c \notin ToSet(used)
      /\ used' = IF Len(table) > MaxUsed THEN Remembered(table) ELSE table
      /\ overrun' = overrun \cup {d \in gone : MayComeAgain(r, table, d)}
      /\ opened' = opened \cup {c}
      /\ twice' = IF c \in opened THEN twice \cup {c} ELSE twice
      /\ job' = [job EXCEPT ![r] = j]
      /\ load' = load /\ attempts' = attempts /\ left' = left /\ shut' = shut
  BY DEF Accept, Fresh
<1>2. job \in [Request -> Job] /\ opened \subseteq Challenge
  BY DEF Guarded, DoorTypes
<1>3. c \in Challenge /\ left[c] # NotIssued
  BY <1>1, <1>2 DEF Guarded, Issued, Job
<1>4. table \in Seq(Challenge) /\ IsInjective(table) /\ ToSet(table) = ToSet(used) \cup {c}
  BY <1>1, <1>3, UsedAndOne DEF Guarded
<1> DEFINE cut == IF Len(table) > MaxUsed THEN Remembered(table) ELSE table
<1>5. /\ used' \in Seq(Challenge) /\ Len(used') <= MaxUsed /\ IsInjective(used')
      /\ ToSet(used') \subseteq ToSet(table)
      /\ \A d \in gone : left[d] > 0 => Len(Live(table)) > MaxUsed
  <2>1. used' = cut
    BY <1>1
  <2> HIDE DEF table
  <2>2. /\ cut \in Seq(Challenge) /\ Len(cut) <= MaxUsed /\ IsInjective(cut)
        /\ ToSet(cut) \subseteq ToSet(table)
        /\ \A d \in ToSet(table) \ ToSet(cut) : left[d] > 0 => Len(Live(table)) > MaxUsed
    BY <1>4, RememberedIs
  <2> HIDE DEF cut
  <2> QED
    BY <2>1, <2>2
<1> HIDE DEF cut, table
<1>6. j \in Job /\ j.at = "operation" /\ j.challenge = NoChallenge
  BY DEF Job, Idle
<1> HIDE DEF j
<1>7. /\ job' \in [Request -> Job] /\ job'[r] = j
      /\ \A q \in Request : q # r => job'[q] = job[q]
  BY <1>1, <1>2, <1>6
<1>8. DoorTypes'
  BY <1>1, <1>3, <1>5, <1>7 DEF Guarded, DoorTypes, Job
<1>9. Ordered' /\ Waits'
  BY <1>1 DEF Guarded, Ordered, Waits, Stored, Full
<1>10. ToSet(used) \subseteq opened /\ twice \subseteq opened /\ overrun \subseteq opened
       /\ twice \subseteq overrun
  BY DEF Guarded, UsedOnce
<1>11. c \in opened => c \in overrun
  <2> SUFFICES ASSUME c \in opened, c \notin overrun PROVE FALSE
    OBVIOUS
  <2>1. Over(c)
    BY <1>1 DEF Guarded, Forgotten
  <2> QED
    BY <1>1, <2>1 DEF Over
<1>12. UsedOnce'
  <2>1. ToSet(used') \subseteq opened'
    BY <1>1, <1>4, <1>5, <1>10
  <2>2. twice' \subseteq opened' /\ overrun' \subseteq opened'
    BY <1>1, <1>4, <1>10
  <2>3. twice' \subseteq overrun'
    BY <1>1, <1>10, <1>11
  <2> QED
    BY <1>5, <2>1, <2>2, <2>3 DEF UsedOnce
<1>13. Issued'
  <2>1. \A d \in opened' : left'[d] # NotIssued
    BY <1>1, <1>3 DEF Guarded, Issued
  <2>2. ASSUME NEW q \in Request
        PROVE  /\ job'[q].challenge # NoChallenge => left'[job'[q].challenge] # NotIssued
               /\ job'[q].at = "verified" => job'[q].challenge # NoChallenge
    <3>1. CASE q = r
      BY <1>6, <1>7, <3>1
    <3>2. CASE q # r
      <4>1. job'[q] = job[q]
        BY <1>7, <3>2
      <4> QED
        BY <1>1, <4>1 DEF Guarded, Issued, At
    <3> QED
      BY <3>1, <3>2
  <2> QED
    BY <2>1, <2>2 DEF Issued, At
<1>14. ASSUME NEW d \in opened' \ overrun', d \notin ToSet(used') PROVE Over(d)'
  <2>1. d \in opened \cup {c} /\ d \notin overrun
    BY <1>1, <1>14
  <2>2. CASE d \in ToSet(table)
    <3>1. d \in gone /\ ~MayComeAgain(r, table, d)
      BY <1>1, <1>14, <2>2
    <3>2. ~(left[d] > 0)
      BY <1>5, <3>1 DEF MayComeAgain
    <3>3. left[d] # NotIssued /\ left[d] \in NotIssued .. Ttl
      BY <1>2, <1>3, <2>1 DEF Guarded, Issued, DoorTypes
    <3>4. left[d] = 0
      BY <3>2, <3>3, Numbers
    <3>5. \A q \in Request : q # r /\ At(q, "verified") => job[q].challenge # d
      BY <3>1 DEF MayComeAgain
    <3> QED
      BY <1>1, <1>6, <1>7, <3>4, <3>5 DEF Over, At
  <2>3. CASE d \notin ToSet(table)
    <3>1. d \in opened \ overrun /\ d \notin ToSet(used)
      BY <1>4, <2>1, <2>3
    <3>2. Over(d)
      BY <3>1 DEF Guarded, Forgotten
    <3> QED
      BY <1>1, <1>6, <1>7, <3>2 DEF Over, At
  <2> QED
    BY <2>2, <2>3
<1>15. Forgotten'
  BY <1>14 DEF Forgotten
<1> QED
  BY <1>8, <1>9, <1>12, <1>13, <1>15 DEF Guarded

(***************************************************************************)
(* Time goes by.                                                           *)
(***************************************************************************)
Aged(s) == [i \in DOMAIN s |-> Older(s[i])]

LEMMA AgedIs ==
  ASSUME NEW s \in Seq(0 .. Old), Falling(s)
  PROVE  /\ Aged(s) \in Seq(0 .. Old) /\ Len(Aged(s)) = Len(s) /\ Falling(Aged(s))
         /\ \A i \in 1 .. Len(s) : Aged(s)[i] = Older(s[i])
<1>0. ASSUME NEW i \in 1 .. Len(s) PROVE s[i] \in 0 .. Old
  BY ElementOfSeq
<1>1. Len(s) \in Nat /\ DOMAIN s = 1 .. Len(s) /\ \A i \in 1 .. Len(s) : s[i] \in 0 .. Old
  BY <1>0
<1>2. \A i \in 1 .. Len(s) : Older(s[i]) \in 0 .. Old
  BY <1>1, Numbers DEF Older
<1>3. Aged(s) = [i \in 1 .. Len(s) |-> Older(s[i])]
  BY <1>1 DEF Aged
<1>4. Aged(s) \in Seq(0 .. Old) /\ Len(Aged(s)) = Len(s)
  <2> DEFINE n == Len(s)
             a == [i \in 1 .. n |-> Older(s[i])]
  <2>1. n \in Nat /\ \A i \in 1 .. n : Older(s[i]) \in 0 .. Old
    BY <1>1, <1>2
  <2> HIDE DEF n
  <2>2. a \in Seq(0 .. Old) /\ Len(a) = n
    BY <2>1
  <2> QED
    BY <1>3, <2>2 DEF n
<1>5. \A i \in 1 .. Len(s) : Aged(s)[i] = Older(s[i])
  BY <1>3
<1>6. Falling(Aged(s))
  <2> SUFFICES ASSUME NEW i \in 1 .. Len(s), NEW j \in 1 .. Len(s), i <= j
               PROVE  Aged(s)[j] <= Aged(s)[i]
    BY <1>4 DEF Falling
  <2>1. s[j] <= s[i] /\ s[i] \in 0 .. Old /\ s[j] \in 0 .. Old
    BY <1>1 DEF Falling
  <2>2. Older(s[j]) <= Older(s[i])
    BY <2>1, Numbers DEF Older
  <2> QED
    BY <1>5, <2>2
<1> QED
  BY <1>4, <1>5, <1>6

LEMMA TickKeeps ==
  ASSUME Guarded, Tick
  PROVE  Guarded'
<1>1. /\ attempts' = [k \in Key |-> Aged(attempts[k])]
      /\ left' = [c \in Challenge |-> Less(left[c])] /\ shut' = [k \in Key |-> Less(shut[k])]
      /\ load' = load /\ used' = used /\ job' = job
      /\ opened' = opened /\ twice' = twice /\ overrun' = overrun
  BY DEF Tick, Aged
<1>2. /\ attempts \in [Key -> Seq(0 .. Old)] /\ shut \in [Key -> 0 .. Old]
      /\ left \in [Challenge -> NotIssued .. Ttl] /\ opened \subseteq Challenge
      /\ job \in [Request -> Job]
  BY DEF Guarded, DoorTypes
<1>3. \A k \in Key : Falling(attempts[k]) /\ Len(attempts[k]) <= Limit
  BY DEF Guarded, Ordered, Falling
<1>4. \A k \in Key : /\ attempts'[k] \in Seq(0 .. Old) /\ Len(attempts'[k]) = Len(attempts[k])
                     /\ Falling(attempts'[k])
                     /\ \A i \in 1 .. Len(attempts[k]) : attempts'[k][i] = Older(attempts[k][i])
  BY <1>1, <1>2, <1>3, AgedIs
<1>5. attempts' \in [Key -> Seq(0 .. Old)]
  <2>1. \A k \in Key : Aged(attempts[k]) \in Seq(0 .. Old)
    BY <1>2, <1>3, AgedIs
  <2> QED
    BY <1>1, <2>1
<1>6. shut' \in [Key -> 0 .. Old] /\ left' \in [Challenge -> NotIssued .. Ttl]
  BY <1>1, <1>2, Numbers DEF Less
<1>7. \A c \in Challenge : /\ left[c] # NotIssued => left'[c] # NotIssued
                           /\ left[c] = 0 => left'[c] = 0
  BY <1>1, <1>2, Numbers DEF Less
<1>8. DoorTypes'
  BY <1>1, <1>5, <1>6 DEF Guarded, DoorTypes, Job
<1>9. Ordered'
  <2>1. Stored' = Stored
    <3>1. ASSUME NEW k \in Key PROVE attempts'[k] = <<>> <=> attempts[k] = <<>>
      <4> DEFINE a == attempts'[k]
                 s == attempts[k]
      <4>1. a \in Seq(0 .. Old) /\ s \in Seq(0 .. Old) /\ Len(a) = Len(s)
        BY <1>2, <1>4
      <4> HIDE DEF a, s
      <4>2. a = <<>> <=> s = <<>>
        BY <4>1
      <4> QED
        BY <4>2 DEF a, s
    <3> QED
      BY <3>1 DEF Stored, Full
  <2>2. \A k \in Key : Len(attempts'[k]) <= Limit /\ Falling(attempts'[k])
    BY <1>3, <1>4
  <2> QED
    BY <2>1, <2>2 DEF Guarded, Ordered, Falling
<1>10. UsedOnce'
  BY <1>1 DEF Guarded, UsedOnce
<1>11. Issued'
  BY <1>1, <1>2, <1>7 DEF Guarded, Issued, At, Job
<1>12. Forgotten'
  <2> SUFFICES ASSUME NEW d \in opened \ overrun, d \notin ToSet(used) PROVE Over(d)'
    BY <1>1 DEF Forgotten
  <2>1. Over(d)
    BY DEF Guarded, Forgotten
  <2> QED
    BY <1>1, <1>2, <1>7, <2>1 DEF Over, At
<1>13. Waits'
  <2> SUFFICES ASSUME NEW k \in Key, shut'[k] > 0
               PROVE  Len(attempts'[k]) >= Limit /\ shut'[k] <= Old - attempts'[k][1]
    BY DEF Waits
  <2> DEFINE s == attempts[k]
  <2>1. shut'[k] = Less(shut[k]) /\ shut[k] \in 0 .. Old
    BY <1>1, <1>2
  <2>2. shut[k] > 1 /\ shut'[k] = shut[k] - 1
    BY <2>1, Numbers DEF Less
  <2>3. s \in Seq(0 .. Old) /\ Len(s) >= Limit /\ shut[k] <= Old - s[1]
    BY <1>2, <2>1, <2>2 DEF Guarded, Waits
  <2>4. 1 \in 1 .. Len(s)
    BY <2>3, Numbers
  <2>5. s[1] \in 0 .. Old
    BY <2>3, <2>4, ElementOfSeq
  <2>6. Len(attempts'[k]) = Len(s) /\ attempts'[k][1] = Older(s[1])
    BY <1>4, <2>4
  <2> HIDE DEF s
  <2>7. Older(s[1]) = s[1] + 1
    BY <2>1, <2>2, <2>3, <2>5, Numbers DEF Older
  <2> QED
    BY <2>1, <2>2, <2>3, <2>5, <2>6, <2>7, Numbers
<1> QED
  BY <1>8, <1>9, <1>10, <1>11, <1>12, <1>13 DEF Guarded

(***************************************************************************)
(* The invariant.                                                          *)
(***************************************************************************)
LEMMA InitHolds == Init => IInv
<1> SUFFICES ASSUME Init PROVE IInv
  OBVIOUS
<1>1. /\ load \in Loads
      /\ attempts = [k \in Key |-> <<>>] /\ shut = [k \in Key |-> 0]
      /\ left = [c \in Challenge |-> NotIssued] /\ used = <<>>
      /\ job = [r \in Request |-> Idle]
      /\ opened = {} /\ twice = {} /\ overrun = {}
  BY DEF Init, DoorsInit
<1>2. DoorTypes
  <2>1. <<>> \in Seq(0 .. Old) /\ <<>> \in Seq(Challenge)
    OBVIOUS
  <2>2. 0 \in 0 .. Old /\ NotIssued \in NotIssued .. Ttl
    BY Numbers
  <2>3. \A r \in Request : job[r] \in Job
    BY <1>1, IdleIsJob
  <2> QED
    BY <1>1, <2>1, <2>2, <2>3, IdleIsJob DEF DoorTypes
<1>3. Ordered
  <2>1. Stored = {} /\ \A k \in Key : attempts[k] = <<>>
    BY <1>1 DEF Stored, Full
  <2>2. IsFiniteSet(Stored) /\ Cardinality(Stored) = 0
    BY <2>1, FS_EmptySet
  <2> QED
    BY <2>1, <2>2, Numbers DEF Ordered
<1>4. UsedOnce
  <2>1. ToSet(used) = {} /\ IsInjective(used) /\ Len(used) = 0
    BY <1>1 DEF ToSet, IsInjective
  <2> QED
    BY <1>1, <2>1, Numbers DEF UsedOnce
<1>5. Issued /\ Forgotten
  BY <1>1, IdleIsJob DEF Issued, Forgotten, At
<1>6. Waits
  BY <1>1 DEF Waits
<1>7. Ends
  <2>1. /\ stopping = FALSE /\ exiting = FALSE /\ cancelled = {}
        /\ state = [c \in Component |-> "loop"] /\ main = "waiting" /\ crashes = 0
    BY DEF Init
  <2>2. 0 \in 0 .. MaxCrashes
    BY Numbers
  <2> QED
    BY <2>1, <2>2 DEF Ends
<1> QED
  BY <1>2, <1>3, <1>4, <1>5, <1>6, <1>7 DEF IInv, Guarded

LEMMA ServeKeeps ==
  ASSUME Guarded, NEW r \in Request, Serve(r)
  PROVE  Guarded'
BY VerifyKeeps, AcceptKeeps, RefuseReplayKeeps, AnswerKeeps DEF Serve

LEMMA RequestsKeep ==
  ASSUME Guarded, Requests
  PROVE  Guarded'
<1>1. load.keys \subseteq Key /\ load.solutions \subseteq Challenge
  BY DoorsAssumption DEF Guarded, DoorTypes
<1>2. CASE \E r \in Request, k \in load.keys, c \in load.solutions \cup {NoChallenge} :
              Serving /\ Arrive(r, k, c)
  BY <1>1, <1>2, ArriveKeeps
<1>3. CASE \E c \in load.solutions : Serving /\ Issue(c)
  BY <1>1, <1>3, IssueKeeps
<1>4. CASE \E r \in Request : Serve(r)
  BY <1>4, ServeKeeps
<1>5. CASE Tick
  BY <1>5, TickKeeps
<1> QED
  BY <1>2, <1>3, <1>4, <1>5 DEF Requests

LEMMA CrashKeeps ==
  ASSUME Guarded, NEW c \in Component, Crash(c)
  PROVE  Guarded'
<1>1. PICK lost \in SUBSET Request : job' = [r \in Request |-> IF r \in lost THEN Idle ELSE job[r]]
  BY DEF Crash
<1>2. job' \in [Request -> Job] /\ \A q \in Request : job'[q] = job[q] \/ job'[q] = Idle
  BY <1>1, IdleIsJob DEF Guarded, DoorTypes
<1> QED
  BY <1>2, JobsEnd DEF Crash

\* The loops and the process end for good.
LEMMA EndsKeep ==
  ASSUME Ends, [Next]_vars
  PROVE  Ends'
<1> DEFINE Same == UNCHANGED process
<1>1. CASE Same
  BY <1>1 DEF Ends, process
<1>2. ASSUME NEW c \in Component, Start(c) PROVE Ends'
  BY <1>2 DEF Ends, Start, GoesOn
<1>3. ASSUME NEW c \in Component, EndLoop(c) PROVE Ends'
  BY <1>3 DEF Ends, EndLoop
<1>4. ASSUME NEW c \in Component, Cancel(c) PROVE Ends'
  BY <1>4 DEF Ends, Cancel
<1>5. ASSUME NEW c \in Component, Crash(c) PROVE Ends'
  BY <1>5, Numbers DEF Ends, Crash
<1>6. CASE Return
  BY <1>6, SupervisorAssumption DEF Ends, Return
<1>7. CASE Signal
  BY <1>7 DEF Ends, Signal
<1>8. CASE Stop
  BY <1>8, SupervisorAssumption DEF Ends, Stop
<1>9. CASE Gathered
  BY <1>9 DEF Ends, Gathered
<1>10. CASE Requests
  BY <1>1, <1>10 DEF Requests
<1>11. CASE UNCHANGED vars
  BY <1>1, <1>11 DEF vars
<1> QED
  BY <1>2, <1>3, <1>4, <1>5, <1>6, <1>7, <1>8, <1>9, <1>10, <1>11 DEF Next, Steps

LEMMA GuardedKeeps ==
  ASSUME Guarded, [Next]_vars
  PROVE  Guarded'
<1>1. ASSUME NEW c \in Component, Steps(c) PROVE Guarded'
  BY <1>1, SameDoors DEF Steps, Start, EndLoop, Cancel
<1>2. CASE Return \/ Signal \/ Stop \/ Gathered
  BY <1>2, SameDoors DEF Return, Signal, Stop, Gathered
<1>3. CASE UNCHANGED vars
  BY <1>3, SameDoors DEF vars
<1> QED
  BY <1>1, <1>2, <1>3, CrashKeeps, RequestsKeep DEF Next

\* The invariant holds in every state of every behaviour.
THEOREM Inductive == Spec => []IInv
<1>1. ASSUME IInv, [Next]_vars PROVE IInv'
  BY <1>1, GuardedKeeps, EndsKeep DEF IInv
<1> HIDE DEF Init, Next, vars, IInv, Fairness
<1> QED
  BY <1>1, InitHolds, PTL DEF Spec

(***************************************************************************)
(* The theorems.                                                           *)
(***************************************************************************)
\* The tables of the limiter and of the captcha stay under their ceilings, in the
\* order the code relies on, and the process stops only after every component has
\* (RateLimiter, CaptchaGuard, run).
THEOREM TypeCorrect == Spec => []TypeOK
<1>1. ASSUME IInv PROVE TypeOK
  <2>1. Guarded /\ Ends
    BY <1>1 DEF IInv
  <2>2. \A k \in Key : Len(attempts[k]) <= Limit
    BY <2>1 DEF Guarded, Ordered
  <2>3. ASSUME NEW k \in Key, NEW i \in DOMAIN attempts[k]
        PROVE  attempts[k][i] \in 0 .. Old /\ (i > 1 => attempts[k][i - 1] >= attempts[k][i])
    <3> DEFINE s == attempts[k]
    <3>1. s \in Seq(0 .. Old) /\ Falling(s) /\ i \in 1 .. Len(s) /\ Len(s) \in Nat
      BY <2>1, <2>3 DEF Guarded, Ordered, DoorTypes, Falling
    <3> HIDE DEF s
    <3>2. s[i] \in 0 .. Old
      BY <3>1, ElementOfSeq
    <3>3. ASSUME i > 1 PROVE s[i - 1] >= s[i]
      <4>1. i - 1 \in 1 .. Len(s) /\ i - 1 <= i
        BY <3>1, <3>3
      <4>2. s[i] <= s[i - 1]
        BY <3>1, <4>1 DEF Falling
      <4>3. s[i - 1] \in 0 .. Old
        BY <3>1, <4>1, ElementOfSeq
      <4> QED
        BY <3>2, <4>2, <4>3, Numbers
    <3> QED
      BY <3>2, <3>3 DEF s
  <2>4. Cardinality({k \in Key : attempts[k] # <<>>}) <= MaxKeys
    BY <2>1 DEF Guarded, Ordered, Stored, Full
  <2>5. DoorsTypeOK
    BY <2>1, <2>2, <2>3, <2>4 DEF Guarded, DoorTypes, UsedOnce, Job, DoorsTypeOK
  <2> QED
    BY <2>1, <2>5 DEF Ends, TypeOK
<1> HIDE DEF IInv, TypeOK
<1> QED
  BY <1>1, Inductive, PTL

\* A proof of work that was solved once opens one door, though two requests may bring
\* it at the same time and the table of used solutions forgets: it is opened again only
\* for a solution that was forgotten over the ceiling, or while its second verification
\* was under way ("every solution is accepted at most once", CaptchaGuard).
THEOREM SolutionsOpenOnce == Spec => []SolutionOnce
<1>1. IInv => SolutionOnce
  BY DEF IInv, Guarded, UsedOnce, SolutionOnce
<1> HIDE DEF IInv, SolutionOnce
<1> QED
  BY <1>1, Inductive, PTL

\* A key that used up its limit is let in by no request to the end of its window,
\* whatever other keys fill the table with and however often the server is started anew
\* (RateLimiter.allow, _evict).
THEOREM ExhaustedKeysStayShut == Spec => ExhaustedStaysShut
<1> DEFINE Entered == \A r \in Request : Enters(r) => shut[job'[r].key] = 0
<1>1. ASSUME IInv, Next PROVE Entered
  <2> SUFFICES ASSUME NEW r \in Request, job[r].at = "idle", job'[r].at = "thread"
               PROVE  shut[job'[r].key] = 0
    BY DEF Enters, At
  <2>1. /\ Guarded /\ job \in [Request -> Job] /\ shut \in [Key -> 0 .. Old]
        /\ load.keys \subseteq Key
    BY <1>1, DoorsAssumption DEF IInv, Guarded, DoorTypes
  <2>2. CASE job' = job
    BY <2>2
  <2>3. ASSUME NEW q \in Request, NEW k \in load.keys, NEW c, Arrive(q, k, c)
        PROVE  shut[job'[r].key] = 0
    <3>1. CASE Allowed(k) /\ q = r
      <4>1. job'[r].key = k
        BY <2>1, <2>3, <3>1 DEF Arrive
      <4>2. ~(shut[k] > 0)
        BY <2>1, <3>1, ShutIsRefused DEF Guarded
      <4>3. shut[k] \in 0 .. Old
        BY <2>1
      <4> QED
        BY <4>1, <4>2, <4>3, Numbers
    <3>2. CASE ~(Allowed(k) /\ q = r)
      <4>1. job'[r] = job[r]
        BY <2>1, <2>3, <3>2 DEF Arrive
      <4> QED
        BY <4>1
    <3> QED
      BY <3>1, <3>2
  <2>4. ASSUME NEW q \in Request, Serve(q) PROVE FALSE
    <3>1. \/ job' = [job EXCEPT ![q] = Idle]
          \/ job' = [job EXCEPT ![q] = [Idle EXCEPT !.at = "operation"]]
          \/ job' = [job EXCEPT ![q] = [@ EXCEPT !.at = "verified", !.key = NoKey]]
      BY <2>4 DEF Serve, Verify, Accept, RefuseReplay, Answer
    <3>2. CASE q # r
      <4>1. job'[r] = job[r]
        BY <2>1, <3>1, <3>2
      <4> QED
        BY <4>1
    <3>3. CASE q = r
      <4>1. \/ job'[r] = Idle \/ job'[r] = [Idle EXCEPT !.at = "operation"]
            \/ job'[r] = [job[r] EXCEPT !.at = "verified", !.key = NoKey]
        BY <2>1, <3>1, <3>3
      <4>2. job[r] \in Job
        BY <2>1
      <4> DEFINE verified == [job[r] EXCEPT !.at = "verified", !.key = NoKey]
                 answering == [Idle EXCEPT !.at = "operation"]
      <4>a. verified.at = "verified"
        BY <4>2 DEF Job
      <4>b. Idle.at = "idle" /\ answering.at = "operation"
        BY DEF Idle
      <4> HIDE DEF verified, answering
      <4>3. job'[r].at # "thread"
        BY <4>1, <4>a, <4>b DEF verified, answering
      <4> QED
        BY <4>3
    <3> QED
      BY <3>2, <3>3
  <2>5. ASSUME NEW c \in Component, Crash(c) PROVE FALSE
    <3>1. job'[r] = job[r] \/ job'[r] = Idle
      BY <2>5 DEF Crash
    <3> QED
      BY <3>1, IdleIsJob
  <2>6. ASSUME NEW c \in Component, Steps(c) PROVE job' = job
    BY <2>6 DEF Steps, Start, EndLoop, Cancel, doors
  <2>7. CASE Return \/ Signal \/ Stop \/ Gathered
    <3>1. job' = job
      BY <2>7 DEF Return, Signal, Stop, Gathered, doors
    <3> QED
      BY <3>1
  <2>8. CASE Requests
    <3>1. CASE \E q \in Request, k \in load.keys, c \in load.solutions \cup {NoChallenge} :
                  Serving /\ Arrive(q, k, c)
      BY <2>3, <3>1
    <3>2. CASE \E c \in load.solutions : Serving /\ Issue(c)
      <4>1. job' = job
        BY <3>2 DEF Issue
      <4> QED
        BY <4>1
    <3>3. CASE \E q \in Request : Serve(q)
      BY <2>4, <3>3
    <3>4. CASE Tick
      <4>1. job' = job
        BY <3>4 DEF Tick
      <4> QED
        BY <4>1
    <3> QED
      BY <2>8, <3>1, <3>2, <3>3, <3>4 DEF Requests
  <2> QED
    BY <1>1, <2>2, <2>5, <2>6, <2>7, <2>8 DEF Next
<1>2. IInv /\ [Next]_vars => [Entered]_doors
  <2>1. UNCHANGED vars => UNCHANGED doors
    BY DEF vars
  <2> HIDE DEF IInv, Next, vars, doors, Entered
  <2> QED
    BY <1>1, <2>1
<1> HIDE DEF Init, Next, vars, doors, IInv, Fairness, Entered
<1>3. Spec => [][Entered]_doors
  BY <1>2, Inductive, PTL DEF Spec
<1> QED
  BY <1>3 DEF Entered, ExhaustedStaysShut

================================================================================
