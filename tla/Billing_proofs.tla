---------------------------- MODULE Billing_proofs ----------------------------
(***************************************************************************)
(* Theorems about Billing, for any number of users, networks, payments,    *)
(* calls and failures, and any fees, terms and overlap.                    *)
(*                                                                         *)
(* The invariant comes in two parts.  IInv holds of every behaviour: types,*)
(* the newest invoice first, addresses before invoices and money, one      *)
(* letter per notice, and what the rows of payments know of what was shown.*)
(* VInv adds that the rows of a transaction are judged alike (OneVerdict), *)
(* so that credits grow, and what a reconciliation has found out between   *)
(* its reads (Verdict): it needs KnownInFull.                              *)
(***************************************************************************)
EXTENDS Billing, FiniteSetTheorems, TLAPS

(***************************************************************************)
(* Sums over finite sets.  FoldFunctionOnSet is defined by a recursive     *)
(* function on the subsets of its domain: that there is one, and only one, *)
(* follows from a smallest counterexample, the inclusion of finite sets    *)
(* being well-founded.                                                     *)
(***************************************************************************)

\* The element a sum takes first, and the function that computes the sum of f.
Pick(s) == CHOOSE x \in s : TRUE

IsSum(g, f, S) ==
    g = [s \in SUBSET S |-> IF s = {} THEN 0 ELSE f[Pick(s)] + g[s \ {Pick(s)}]]

LEMMA SumIsChosen ==
    ASSUME NEW f, NEW S
    PROVE  SumFunctionOnSet(f, S) = (CHOOSE g : IsSum(g, f, S))[S]
BY DEF SumFunctionOnSet, FoldFunctionOnSet, MapThenFoldSet, IsSum, Pick

LEMMA PickIsIn ==
    ASSUME NEW s, s # {}
    PROVE  Pick(s) \in s
BY DEF Pick

\* A family of subsets of a finite set has a smallest member.
LEMMA SmallestSet ==
    ASSUME NEW S, IsFiniteSet(S), NEW C \in SUBSET (SUBSET S), C # {}
    PROVE  \E T \in C : \A U \in SUBSET T : U # T => U \notin C
<1> DEFINE R == StrictSubsetOrdering(S)
<1>1. IsWellFoundedOn(R, FiniteSubsetsOf(S))
    BY FS_StrictSubsetOrderingWellFounded
<1>2. C \subseteq FiniteSubsetsOf(S)
    BY FS_FiniteSubsetsOfFinite
<1>3. \E T \in C : \A U \in C : ~ (<<U, T>> \in R)
  <2> HIDE DEF R
  <2> QED BY <1>1, <1>2, WFMin
<1> QED
    BY <1>3 DEF StrictSubsetOrdering

\* Two such functions agree where both are defined.
LEMMA SumUnique ==
    ASSUME NEW f, NEW S, IsFiniteSet(S), NEW T, NEW g, NEW h, IsSum(g, f, S), IsSum(h, f, T)
    PROVE  \A U \in SUBSET (S \cap T) : g[U] = h[U]
<1> DEFINE C == {U \in SUBSET S : U \subseteq T /\ g[U] # h[U]}
<1> SUFFICES ASSUME C # {} PROVE FALSE
    OBVIOUS
<1>1. PICK U \in C : \A V \in SUBSET U : V # U => V \notin C
  <2>1. C \in SUBSET (SUBSET S)
      OBVIOUS
  <2> HIDE DEF C
  <2> QED BY <2>1, SmallestSet
<1>2. /\ g[U] = IF U = {} THEN 0 ELSE f[Pick(U)] + g[U \ {Pick(U)}]
      /\ h[U] = IF U = {} THEN 0 ELSE f[Pick(U)] + h[U \ {Pick(U)}]
    BY DEF IsSum
<1>3. U # {} => g[U \ {Pick(U)}] = h[U \ {Pick(U)}]
    BY <1>1, PickIsIn
<1> QED
    BY <1>2, <1>3

\* There is such a function for every finite set.
LEMMA SumExists ==
    ASSUME NEW f, NEW S, IsFiniteSet(S)
    PROVE  \E g : IsSum(g, f, S)
<1> DEFINE C == {U \in SUBSET S : ~ \E g : IsSum(g, f, U)}
<1> SUFFICES ASSUME C # {} PROVE FALSE
    OBVIOUS
<1>1. PICK T \in C : \A U \in SUBSET T : U # T => U \notin C
  <2>1. C \in SUBSET (SUBSET S)
      OBVIOUS
  <2> HIDE DEF C
  <2> QED BY <2>1, SmallestSet
<1> DEFINE The(U) == CHOOSE g : IsSum(g, f, U)
<1>2. \A U \in SUBSET T : U # T => IsSum(The(U), f, U)
    BY <1>1
<1> DEFINE Value(U) == IF U = {} THEN 0 ELSE f[Pick(U)] + The(U \ {Pick(U)})[U \ {Pick(U)}]
           g == [U \in SUBSET T |-> Value(U)]
<1> HIDE DEF The
<1>3. \A U \in SUBSET T : U # T => The(U)[U] = Value(U)
  <2> SUFFICES ASSUME NEW U \in SUBSET T, U # T, U # {}
               PROVE  The(U)[U] = f[Pick(U)] + The(U \ {Pick(U)})[U \ {Pick(U)}]
      BY <1>2 DEF IsSum
  <2> DEFINE V == U \ {Pick(U)}
  <2>1. V \in SUBSET T /\ V # T /\ V \subseteq U
      BY PickIsIn
  <2>2. IsSum(The(U), f, U) /\ IsSum(The(V), f, V)
      BY <1>2, <2>1
  <2>3. The(U)[V] = The(V)[V]
    <3>1. IsFiniteSet(U)
        BY FS_Subset
    <3> HIDE DEF V
    <3> QED BY <2>1, <2>2, <3>1, SumUnique
  <2> QED
      BY <2>2, <2>3 DEF IsSum
<1>4. g = [U \in SUBSET T |-> IF U = {} THEN 0 ELSE f[Pick(U)] + g[U \ {Pick(U)}]]
  <2>1. \A U \in SUBSET T : U # {} => g[U \ {Pick(U)}] = The(U \ {Pick(U)})[U \ {Pick(U)}]
    <3> SUFFICES ASSUME NEW U \in SUBSET T, U # {}
                 PROVE  g[U \ {Pick(U)}] = The(U \ {Pick(U)})[U \ {Pick(U)}]
        OBVIOUS
    <3>1. U \ {Pick(U)} \in SUBSET T /\ U \ {Pick(U)} # T
        BY PickIsIn
    <3> QED
        BY <1>3, <3>1
  <2> QED
      BY <2>1
<1>5. IsSum(g, f, T)
  <2> HIDE DEF g
  <2> QED BY <1>4 DEF IsSum
<1> QED
    BY <1>5

\* The sum takes one element after the other.
LEMMA SumUnfolds ==
    ASSUME NEW f, NEW S, IsFiniteSet(S), S # {}
    PROVE  SumFunctionOnSet(f, S) = f[Pick(S)] + SumFunctionOnSet(f, S \ {Pick(S)})
<1> DEFINE The(U) == CHOOSE g : IsSum(g, f, U)
           V == S \ {Pick(S)}
<1>1. IsFiniteSet(V) /\ V \subseteq S
    BY FS_RemoveElement
<1>2. IsSum(The(S), f, S) /\ IsSum(The(V), f, V)
    BY <1>1, SumExists
<1>3. The(S)[V] = The(V)[V]
  <2> HIDE DEF The, V
  <2> QED BY <1>1, <1>2, SumUnique
<1>4. The(S)[S] = f[Pick(S)] + The(S)[V]
  <2> HIDE DEF The
  <2> QED BY <1>2 DEF IsSum
<1> QED
    BY <1>3, <1>4, SumIsChosen

\* The empty sum.
LEMMA EmptySum ==
    ASSUME NEW f
    PROVE  SumFunctionOnSet(f, {}) = 0
<1>1. IsFiniteSet({})
    BY FS_EmptySet
<1> DEFINE g == CHOOSE h : IsSum(h, f, {})
<1>2. IsSum(g, f, {})
    BY <1>1, SumExists
<1>3. g[{}] = 0
  <2> HIDE DEF g
  <2> QED BY <1>2 DEF IsSum
<1> QED
    BY <1>3, SumIsChosen

\* A sum of natural numbers is one.
LEMMA SumType ==
    ASSUME NEW f, NEW S, IsFiniteSet(S), \A x \in S : f[x] \in Nat
    PROVE  SumFunctionOnSet(f, S) \in Nat
<1> DEFINE C == {U \in SUBSET S : SumFunctionOnSet(f, U) \notin Nat}
<1> SUFFICES ASSUME C # {} PROVE FALSE
    OBVIOUS
<1>1. PICK T \in C : \A U \in SUBSET T : U # T => U \notin C
  <2>1. C \in SUBSET (SUBSET S)
      OBVIOUS
  <2> HIDE DEF C
  <2> QED BY <2>1, SmallestSet
<1>2. T # {}
    BY EmptySum
<1>3. Pick(T) \in T
    BY <1>2, PickIsIn
<1>4. SumFunctionOnSet(f, T \ {Pick(T)}) \in Nat
    BY <1>1, <1>3
<1>5. SumFunctionOnSet(f, T) = f[Pick(T)] + SumFunctionOnSet(f, T \ {Pick(T)})
  <2>1. IsFiniteSet(T)
      BY FS_Subset
  <2> QED BY <1>2, <2>1, SumUnfolds
<1> QED
    BY <1>3, <1>4, <1>5

\* It does not matter which is taken first.
LEMMA SumRemoves ==
    ASSUME NEW f, NEW S, IsFiniteSet(S), \A y \in S : f[y] \in Nat, NEW x \in S
    PROVE  SumFunctionOnSet(f, S) = f[x] + SumFunctionOnSet(f, S \ {x})
<1> DEFINE Sum(U) == SumFunctionOnSet(f, U)
           C == {U \in SUBSET S : \E y \in U : Sum(U) # f[y] + Sum(U \ {y})}
<1> HIDE DEF Sum
<1> SUFFICES ASSUME C # {} PROVE FALSE
    BY DEF Sum
<1>1. PICK T \in C : \A U \in SUBSET T : U # T => U \notin C
  <2>1. C \in SUBSET (SUBSET S)
      OBVIOUS
  <2> HIDE DEF C
  <2> QED BY <2>1, SmallestSet
<1>2. PICK y \in T : Sum(T) # f[y] + Sum(T \ {y})
    OBVIOUS
<1> DEFINE p == Pick(T)
<1>3. p \in T
    BY PickIsIn
<1>4. Sum(T) = f[p] + Sum(T \ {p})
  <2>1. IsFiniteSet(T)
      BY FS_Subset
  <2> QED BY <2>1, SumUnfolds DEF Sum
<1>5. p # y
    BY <1>2, <1>4
<1> HIDE DEF p
<1>6. Sum(T \ {p}) = f[y] + Sum((T \ {p}) \ {y})
    BY <1>1, <1>3, <1>5
<1>7. Sum(T \ {y}) = f[p] + Sum((T \ {y}) \ {p})
    BY <1>1, <1>3, <1>5
<1>8. (T \ {p}) \ {y} = (T \ {y}) \ {p}
    OBVIOUS
<1>9. Sum((T \ {p}) \ {y}) \in Nat /\ f[p] \in Nat /\ f[y] \in Nat
  <2>1. IsFiniteSet((T \ {p}) \ {y}) /\ (T \ {p}) \ {y} \subseteq S
      BY FS_Subset
  <2>2. Sum((T \ {p}) \ {y}) \in Nat
      BY <2>1, SumType DEF Sum
  <2> QED BY <1>3, <2>2
<1> DEFINE r == Sum((T \ {p}) \ {y})
           v == f[y]
           w == f[p]
<1>10. r \in Nat /\ v \in Nat /\ w \in Nat
    BY <1>9
<1>11. Sum(T) = w + (v + r)
    BY <1>4, <1>6
<1>12. Sum(T \ {y}) = w + r
    BY <1>7, <1>8
<1>13. Sum(T) # v + Sum(T \ {y})
    BY <1>2
<1> HIDE DEF r, v, w
<1> QED
    BY <1>10, <1>11, <1>12, <1>13

\* A sum of more and larger terms is not smaller.
LEMMA SumGrows ==
    ASSUME NEW f, NEW g, NEW S, IsFiniteSet(S), NEW T, T \subseteq S,
           \A x \in T : f[x] \in Nat, \A x \in S : g[x] \in Nat,
           \A x \in T : f[x] <= g[x]
    PROVE  SumFunctionOnSet(f, T) <= SumFunctionOnSet(g, S)
<1> DEFINE F(U) == SumFunctionOnSet(f, U)
           G(U) == SumFunctionOnSet(g, U)
           C == {U \in SUBSET S : \E V \in SUBSET U : V \subseteq T /\ ~ (F(V) <= G(U))}
<1> HIDE DEF F, G
<1> SUFFICES ASSUME C # {} PROVE FALSE
    BY DEF F, G
<1>1. PICK U \in C : \A V \in SUBSET U : V # U => V \notin C
  <2>1. C \in SUBSET (SUBSET S)
      OBVIOUS
  <2> HIDE DEF C
  <2> QED BY <2>1, SmallestSet
<1>2. PICK V \in SUBSET U : V \subseteq T /\ ~ (F(V) <= G(U))
    OBVIOUS
<1>3. \A W \in SUBSET S : IsFiniteSet(W) /\ G(W) \in Nat
    BY FS_Subset, SumType DEF G
<1>4. V # {}
  <2>1. F({}) = 0
      BY EmptySum DEF F
  <2> QED BY <1>2, <1>3, <2>1
<1>5. PICK x : x \in V
    BY <1>4
<1>6. F(V) = f[x] + F(V \ {x}) /\ F(V \ {x}) \in Nat
  <2>1. IsFiniteSet(V) /\ IsFiniteSet(V \ {x})
      BY <1>3
  <2>2. F(V) = f[x] + F(V \ {x})
      BY <1>2, <1>5, <2>1, SumRemoves DEF F
  <2>3. F(V \ {x}) \in Nat
      BY <1>2, <2>1, SumType DEF F
  <2> QED BY <2>2, <2>3
<1>7. G(U) = g[x] + G(U \ {x})
    BY <1>2, <1>3, <1>5, SumRemoves DEF G
<1>8. F(V \ {x}) <= G(U \ {x})
    BY <1>1, <1>2, <1>5
<1>9. f[x] \in Nat /\ g[x] \in Nat /\ f[x] <= g[x] /\ G(U) \in Nat /\ G(U \ {x}) \in Nat
    BY <1>2, <1>3, <1>5
<1> QED
    BY <1>2, <1>6, <1>7, <1>8, <1>9

(***************************************************************************)
(* The inductive invariant.                                                *)
(***************************************************************************)
Invoice == [amount : Fee, due : DueIn .. MaxTime + DueIn, net : Network]
Transfer == [user : User, net : Network, at : 0 .. MaxTime]
Payment == [amount : Nat, value : Nat]
Locals ==
    [pc : Steps, moment : 0 .. MaxTime, todo : (SUBSET User) \cup SUBSET (User \X Network),
     owing : SUBSET User, user : User \cup {NoUser}, rows : SUBSET Period,
     net : Network \cup {NoNetwork}, num : Nat, sums : [User -> Nat], answer : [Tx -> Nat],
     isPayment : BOOLEAN, checking : BOOLEAN, late : SUBSET User]

WorldTypes ==
    /\ now \in 0 .. MaxTime /\ accepted \in BOOLEAN /\ mode \in Modes /\ faults \in 0 .. MaxFaults
    /\ sent \in [Tx -> {NoPayment} \cup Transfer] /\ shown \in [Tx -> Nat]
BookTypes ==
    /\ address \in [User -> [Network -> {NoAddress, Never} \cup (0 .. MaxTime)]]
    /\ payments \in [Tx -> {NoPayment} \cup Payment] /\ manual \in [User -> Nat]
    /\ invoices \in [User -> [Period -> {NoInvoice} \cup Invoice]]
    /\ access \in [User -> {"ok", "suspended"}] /\ network \in [User -> Network]
    /\ wallets \subseteq Network /\ notices \subseteq User \X Period
    /\ letters \in [User -> [Period -> Nat]]

\* What the step of a task says about its locals.
IssueSteps == {"network", "address", "allocate", "insert"}
PollSteps == {"poll", "ask", "record"}
UserSteps == IssueSteps \cup
    {"paid", "credits", "remind", "suspend", "ask", "record", "choose", "chooseManual", "debt", "move"}
NetworkSteps ==
    {"address", "allocate", "insert", "ask", "record", "choose", "chooseManual", "debt", "move"}

Fit(l, m) ==
    /\ l.moment <= m
    /\ l.pc \notin {"idle", "done"} => m - l.moment <= PassTime
    /\ l.pc \in PollSteps => l.todo \subseteq User \X Network
    /\ l.pc \notin PollSteps => l.todo \subseteq User
    /\ l.pc \in UserSteps => l.user \in User
    /\ l.pc \in NetworkSteps => l.net \in Network
    /\ l.pc \in IssueSteps => l.num \in Fee

TaskTypes == task \in [Proc -> Locals] /\ \A p \in Proc : Fit(task[p], now)

Issuing(p) == task[p].pc \in IssueSteps

\* The invoice that is being issued is the newest of its user.
Passing == At(Loop, "terms") \/ At(Loop, "issue") \/ Issuing(Loop)
NewestFirst ==
    /\ \A u \in User : \A q \in Billed(u) :
        /\ q <= DuePeriod(now)
        /\ Passing => q <= DuePeriod(task[Loop].moment)
    /\ \A p \in Proc : Issuing(p) => p = Loop /\ DuePeriod(task[p].moment) \in Period \ Billed(task[p].user)

\* There is an address wherever money goes or an invoice says that it may.
Addressed ==
    /\ At(Loop, "allocate") => address[task[Loop].user][task[Loop].net] = NoAddress
    /\ At(Loop, "insert") => address[task[Loop].user][task[Loop].net] # NoAddress
    /\ \A t \in Tx : Sent(t) => address[sent[t].user][sent[t].net] # NoAddress
    /\ InvoicesCanBePaid
    /\ \A u \in User, n \in Network : address[u][n] \in Nat => address[u][n] <= now

Reminded == \A u \in User, q \in Period :
    letters[u][q] = IF <<u, q>> \in notices THEN 1 ELSE 0

\* What is known of a transaction is part of what is shown of it.
Shown ==
    \A t \in Tx :
        /\ shown[t] <= Parts[t] /\ (~Sent(t) => shown[t] = 0 /\ payments[t] = NoPayment)
        /\ Sent(t) => sent[t].at <= now
        /\ Sent(t) /\ shown[t] < Parts[t] => now <= sent[t].at + Overlap
        /\ payments[t] # NoPayment =>
             0 < payments[t].amount /\ payments[t].amount <= shown[t] /\ payments[t].value <= shown[t]
        /\ At(Loop, "record") => task[Loop].answer[t] <= shown[t]
        /\ At(Loop, "record") /\ task[Loop].answer[t] > 0 =>
             SentTo(t, task[Loop].user, task[Loop].net)

\* A payment that is behind the moment of the check is recorded in full, or will be.
Fully(t) == payments[t] # NoPayment /\ payments[t].amount = Parts[t]
Answered ==
    At(Loop, "record") => \A t \in Tx :
        SentTo(t, task[Loop].user, task[Loop].net) /\ sent[t].at < task[Loop].moment - Overlap
            => Fully(t) \/ task[Loop].answer[t] = Parts[t]

\* The asset was accepted when a transaction known in part was recorded, exactly
\* if it is accepted now.
OneVerdict ==
    /\ At(Loop, "ask") => task[Loop].isPayment = accepted
    /\ \A t \in Tx : payments[t] # NoPayment /\ payments[t].amount < Parts[t]
         => payments[t].value = IF accepted THEN payments[t].amount ELSE 0
    /\ \A t \in Tx : At(Loop, "record") /\ task[Loop].answer[t] > 0 /\ ~Fully(t)
         => task[Loop].isPayment = accepted
    /\ \A t \in Tx : payments[t] # NoPayment => payments[t].value \in {0, payments[t].amount}

\* The reconciliation of a task.
Reconciling(p) == task[p].pc \in
    {"manual", "owed", "debtors", "paid", "credits", "remind", "suspend", "restore"}
NeverLate(u, p) == ~IsLate(u, task[p].moment)

\* Those who were not overdue when it began never become so.
OnTimeStays(p) == Reconciling(p) => \A u \in User \ task[p].late : NeverLate(u, p)

\* What is read is no more than there is.
ReadSums(p) == \A u \in User :
    /\ At(p, "manual") => task[p].sums[u] <= Paid(u)
    /\ At(p, "owed") => task[p].sums[u] <= Credits(u)
ReadCredits(p) == At(p, "credits") => task[p].num <= Paid(task[p].user)

\* The rows read hold every invoice that may be overdue, and all that are older.
ReadRows(p) == At(p, "paid") \/ At(p, "credits") =>
    /\ task[p].rows \subseteq Billed(task[p].user)
    /\ \A q \in Billed(task[p].user) : invoices[task[p].user][q].due < task[p].moment =>
         {r \in Billed(task[p].user) : r <= q} \subseteq task[p].rows

\* The credits read cover what an on-time user owed.
CreditsCover(p) == At(p, "credits") /\ task[p].user \notin task[p].late =>
    \A q \in task[p].rows : invoices[task[p].user][q].due < task[p].moment =>
        Owed(task[p].user, {r \in task[p].rows : r <= q}) <= task[p].num + manual[task[p].user]

\* Those found overdue were so from the start.
Convicted(p) == Reconciling(p) =>
    /\ task[p].owing \subseteq task[p].late
    /\ At(p, "suspend") => task[p].user \in task[p].owing

\* Whose turn is over is not overdue, or owes.
Judged(p) == {u \in User : /\ u \notin task[p].todo \cup task[p].owing
                           /\ (At(p, "paid") \/ At(p, "credits")) => u # task[p].user}
Acquitted(p) ==
    /\ task[p].pc \in {"debtors", "paid", "credits", "remind", "suspend"} =>
         \A u \in Judged(p) : NeverLate(u, p)
    /\ At(p, "restore") => \A u \in task[p].todo : NeverLate(u, p)

Verdict(p) ==
    /\ OnTimeStays(p) /\ ReadSums(p) /\ ReadCredits(p) /\ ReadRows(p) /\ CreditsCover(p)
    /\ Convicted(p) /\ Acquitted(p)
Verdicts == \A p \in Proc : Verdict(p)

Basis == WorldTypes /\ BookTypes /\ TaskTypes /\ NewestFirst
HistoryInv == Addressed /\ Reminded /\ Shown /\ Answered /\ PaymentsAreRecorded

(***************************************************************************)
(* Types.                                                                  *)
(***************************************************************************)
LEMMA PeriodIsFinite == IsFiniteSet(Period) /\ Period \subseteq Nat
<1>1. MaxTime \div PeriodLength \in Int
  BY PaymentsAssumption, BillingAssumption
<1> QED
  BY <1>1, FS_Interval DEF Period

\* What a user paid, and what some invoices ask for, are amounts.
LEMMA PaidIsNat ==
  ASSUME BookTypes, NEW u \in User
  PROVE  Paid(u) \in Nat
<1> DEFINE f == [t \in PaidBy(u) |-> payments[t].value]
<1>1. IsFiniteSet(PaidBy(u))
  <2>1. PaidBy(u) \in SUBSET Tx
    BY DEF PaidBy
  <2> QED
    BY <2>1, PaymentsAssumption, FS_Subset
<1>2. \A t \in PaidBy(u) : f[t] \in Nat
  BY DEF BookTypes, PaidBy, Payment
<1>3. DOMAIN f = PaidBy(u)
  OBVIOUS
<1> HIDE DEF f
<1>4. SumFunctionOnSet(f, PaidBy(u)) \in Nat
  BY <1>1, <1>2, SumType
<1> QED
  BY <1>3, <1>4 DEF Paid, SumFunction, f

LEMMA OwedIsNat ==
  ASSUME BookTypes, NEW u \in User, NEW S \in SUBSET Billed(u)
  PROVE  Owed(u, S) \in Nat
<1> DEFINE f == [q \in S |-> invoices[u][q].amount]
<1>1. IsFiniteSet(S)
  <2>1. S \in SUBSET Period
    BY DEF Billed
  <2> QED
    BY <2>1, PeriodIsFinite, FS_Subset
<1>2. \A q \in S : f[q] \in Nat
  BY BillingAssumption DEF BookTypes, Billed, Invoice
<1>3. DOMAIN f = S
  OBVIOUS
<1> HIDE DEF f
<1>4. SumFunctionOnSet(f, S) \in Nat
  BY <1>1, <1>2, SumType
<1> QED
  BY <1>3, <1>4 DEF Owed, SumFunction, f

\* A larger set of invoices asks for no less.
LEMMA OwedGrows ==
  ASSUME BookTypes, NEW u \in User, NEW S \in SUBSET Billed(u), NEW T \in SUBSET S
  PROVE  Owed(u, T) <= Owed(u, S)
<1> DEFINE f == [q \in S |-> invoices[u][q].amount]
           g == [q \in T |-> invoices[u][q].amount]
<1>1. IsFiniteSet(S)
  <2>1. S \in SUBSET Period
    BY DEF Billed
  <2> QED
    BY <2>1, PeriodIsFinite, FS_Subset
<1>2. (\A q \in S : f[q] \in Nat) /\ \A q \in T : g[q] \in Nat /\ g[q] <= f[q]
  BY BillingAssumption DEF BookTypes, Billed, Invoice
<1>3. DOMAIN f = S /\ DOMAIN g = T
  OBVIOUS
<1> HIDE DEF f, g
<1>4. SumFunctionOnSet(g, T) <= SumFunctionOnSet(f, S)
  BY <1>1, <1>2, SumGrows
<1> QED
  BY <1>3, <1>4 DEF Owed, SumFunction, f, g

\* The steps of one task; in any other step no task moves, or some are aborted.
Own(o) ==
    \/ o = Loop /\ (Issue \/ Check \/ AskFails)
    \/ Reconcile(o) \/ AccessFails(o)
    \/ o \in Call /\ (Calls(o) \/ Answers(o))
Aborts == \E ps \in SUBSET Proc : Abort(ps)

\* A step is of one task, of the world, or ends tasks.
LEMMA NextKinds == Next => Aborts \/ World \/ \E o \in Proc : Own(o)
<1>1. Loop \in Proc /\ Call \subseteq Proc /\ \A p \in Proc : {p} \in SUBSET Proc
  BY DEF Proc
<1> QED
  BY <1>1 DEF Next, Fails, Own, Aborts

\* The other tasks stand still.
Alone(o) == task' = [task EXCEPT ![o] = task'[o]]

LEMMA RestFits ==
  ASSUME NEW step \in {"idle", "done", "targets"}, now \in 0 .. MaxTime
  PROVE  /\ Rest(step) \in Locals
         /\ step \in {"idle", "done"} => Fit(Rest(step), now)
         /\ step = "targets" => Fit([Rest(step) EXCEPT !.moment = now], now)
                             /\ [Rest(step) EXCEPT !.moment = now] \in Locals
<1>1. now \in Nat /\ now - now <= PassTime /\ 0 <= now /\ PassTime \in Nat /\ 0 \in 0 .. MaxTime /\ now - now = 0
  BY PaymentsAssumption, BillingAssumption
<1>2. Rest(step) \in Locals
  BY <1>1 DEF Rest, Locals, Steps
<1>3. step \in {"idle", "done"} => Fit(Rest(step), now)
  BY <1>1 DEF Rest, Fit, PollSteps, UserSteps, NetworkSteps, IssueSteps
<1>4. [Rest("targets") EXCEPT !.moment = now] \in Locals
  BY <1>1 DEF Rest, Locals, Steps
<1>5. Fit([Rest("targets") EXCEPT !.moment = now], now)
  BY <1>1 DEF Rest, Fit, PollSteps, UserSteps, NetworkSteps, IssueSteps
<1> QED
  BY <1>2, <1>3, <1>4, <1>5

\* A task's own step leaves it with locals of their types, and the others alone.
LEMMA IssueFits ==
  ASSUME WorldTypes, BookTypes, TaskTypes, Issue
  PROVE  Alone(Loop) /\ task'[Loop] \in Locals /\ Fit(task'[Loop], now)
<1> DEFINE Goal == Alone(Loop) /\ task'[Loop] \in Locals /\ Fit(task'[Loop], now)
<1> USE DEF Alone
<1>0. /\ task \in [Proc -> Locals] /\ Loop \in Proc /\ task[Loop] \in Locals /\ Fit(task[Loop], now)
      /\ now \in 0 .. MaxTime /\ now \in Nat /\ now - now <= PassTime
      /\ NoUser \in User \cup {NoUser} /\ NoNetwork \in Network \cup {NoNetwork} /\ 0 \in Nat
      /\ Fee \subseteq Nat
  BY PaymentsAssumption, BillingAssumption DEF WorldTypes, TaskTypes, Proc
<1>1. ASSUME StartPass PROVE Goal
  <2> DEFINE l == [task[Loop] EXCEPT !.pc = "terms", !.moment = now]
  <2>1. task' = [task EXCEPT ![Loop] = l]
    BY <1>0, <1>1 DEF StartPass
  <2>2. l \in Locals
    BY <1>0, <1>1 DEF Locals, Steps
  <2>3. Fit(l, now)
    BY <1>0, <1>1 DEF Fit, PollSteps, UserSteps, NetworkSteps, IssueSteps, Locals, Steps, At, StartPass
  <2> HIDE DEF l
  <2> QED
    BY <1>0, <2>1, <2>2, <2>3
<1>2. ASSUME ReadTerms PROVE Goal
  <2> DEFINE l == [task[Loop] EXCEPT !.pc = "issue", !.todo = User]
             k == [task[Loop] EXCEPT !.pc = "balances"]
  <2>1. task' = [task EXCEPT ![Loop] = l] \/ task' = [task EXCEPT ![Loop] = k]
    BY <1>0, <1>2 DEF ReadTerms
  <2>2. l \in Locals /\ k \in Locals
    BY <1>0, <1>2 DEF Locals, Steps
  <2>3. Fit(l, now) /\ Fit(k, now)
    BY <1>0, <1>2 DEF Fit, PollSteps, UserSteps, NetworkSteps, IssueSteps, Locals, Steps, At, ReadTerms
  <2> HIDE DEF l, k
  <2> QED
    BY <1>0, <2>1, <2>2, <2>3
<1>3. ASSUME ReadNetwork PROVE Goal
  <2> DEFINE l == [task[Loop] EXCEPT !.pc = "address", !.net = network[task[Loop].user]]
  <2>1. task' = [task EXCEPT ![Loop] = l]
    BY <1>0, <1>3 DEF ReadNetwork
  <2>0. task[Loop].user \in User
    BY <1>0, <1>3 DEF ReadNetwork, At, Fit, UserSteps, IssueSteps
  <2>2. l \in Locals
    BY <1>0, <2>0 DEF Locals, Steps, BookTypes
  <2>3. Fit(l, now)
    BY <1>0, <1>3 DEF Fit, PollSteps, UserSteps, NetworkSteps, IssueSteps, Locals, Steps, At, ReadNetwork, BookTypes
  <2> HIDE DEF l
  <2> QED
    BY <1>0, <2>1, <2>2, <2>3
<1>4. ASSUME FindAddress PROVE Goal
  <2> DEFINE l == [task[Loop] EXCEPT !.pc = "issue", !.todo = @ \ {task[Loop].user}, !.user = NoUser, !.net = NoNetwork, !.num = 0]
             k(step) == [task[Loop] EXCEPT !.pc = step]
  <2>1. task' = [task EXCEPT ![Loop] = l]
        \/ task' = [task EXCEPT ![Loop] = k("insert")] \/ task' = [task EXCEPT ![Loop] = k("allocate")]
    BY <1>0, <1>4 DEF FindAddress, NextUser, Found
  <2>2a. l \in Locals
    BY <1>0, <1>4 DEF Locals, Steps, Fit, PollSteps, At, FindAddress
  <2>2b. k("insert") \in Locals
    BY <1>0 DEF Locals, Steps
  <2>2c. k("allocate") \in Locals
    BY <1>0 DEF Locals, Steps
  <2>3. Fit(l, now) /\ Fit(k("insert"), now) /\ Fit(k("allocate"), now)
    BY <1>0, <1>4 DEF Fit, PollSteps, UserSteps, NetworkSteps, IssueSteps, Locals, Steps, At, FindAddress
  <2> HIDE DEF l, k
  <2> QED
    BY <1>0, <2>1, <2>2a, <2>2b, <2>2c, <2>3
<1>5. ASSUME AllocateAddress PROVE Goal
  <2> DEFINE l == [task[Loop] EXCEPT !.pc = "insert"]
  <2>1. task' = [task EXCEPT ![Loop] = l]
    BY <1>0, <1>5 DEF AllocateAddress
  <2>2. l \in Locals
    BY <1>0, <1>5 DEF Locals, Steps
  <2>3. Fit(l, now)
    BY <1>0, <1>5 DEF Fit, PollSteps, UserSteps, NetworkSteps, IssueSteps, Locals, Steps, At, AllocateAddress
  <2> HIDE DEF l
  <2> QED
    BY <1>0, <2>1, <2>2, <2>3
<1>6. ASSUME InsertInvoice PROVE Goal
  <2> DEFINE l == [task[Loop] EXCEPT !.pc = "issue", !.todo = @ \ {task[Loop].user}, !.user = NoUser, !.net = NoNetwork, !.num = 0]
  <2>1. task' = [task EXCEPT ![Loop] = l]
    BY <1>0, <1>6 DEF InsertInvoice, NextUser
  <2>2. l \in Locals
    BY <1>0, <1>6 DEF Locals, Steps
  <2>3. Fit(l, now)
    BY <1>0, <1>6 DEF Fit, PollSteps, UserSteps, NetworkSteps, IssueSteps, Locals, Steps, At, InsertInvoice, NextUser
  <2> HIDE DEF l
  <2> QED
    BY <1>0, <2>1, <2>2, <2>3
<1>7. ASSUME NEW u \in User, SkipUser(u) PROVE Goal
  <2> DEFINE l == [task[Loop] EXCEPT !.pc = "issue", !.todo = @ \ {u}, !.user = NoUser, !.net = NoNetwork, !.num = 0]
  <2>1. task' = [task EXCEPT ![Loop] = l]
    BY <1>0, <1>7 DEF SkipUser, NextUser
  <2>2. l \in Locals
    BY <1>0, <1>7 DEF Locals, Steps
  <2>3. Fit(l, now)
    BY <1>0, <1>7 DEF Fit, PollSteps, UserSteps, NetworkSteps, IssueSteps, Locals, Steps, At, SkipUser, NextUser
  <2> HIDE DEF l
  <2> QED
    BY <1>0, <2>1, <2>2, <2>3
<1>8. ASSUME NEW u \in User, NEW fee \in Fee, BillUser(u, fee) PROVE Goal
  <2> DEFINE l == [task[Loop] EXCEPT !.pc = "network", !.user = u, !.num = fee]
  <2>1. task' = [task EXCEPT ![Loop] = l]
    BY <1>0, <1>8 DEF BillUser
  <2>2. l \in Locals
    BY <1>0, <1>8 DEF Locals, Steps
  <2>3. Fit(l, now)
    BY <1>0, <1>8 DEF Fit, PollSteps, UserSteps, NetworkSteps, IssueSteps, Locals, Steps, At, BillUser
  <2> HIDE DEF l
  <2> QED
    BY <1>0, <2>1, <2>2, <2>3
<1> QED
  BY <1>1, <1>2, <1>3, <1>4, <1>5, <1>6, <1>7, <1>8 DEF Issue

LEMMA CheckFits ==
  ASSUME WorldTypes, BookTypes, TaskTypes, Check \/ AskFails
  PROVE  Alone(Loop) /\ task'[Loop] \in Locals /\ Fit(task'[Loop], now)
<1> DEFINE Goal == Alone(Loop) /\ task'[Loop] \in Locals /\ Fit(task'[Loop], now)
<1> USE DEF Alone
<1>0. /\ task \in [Proc -> Locals] /\ Loop \in Proc /\ task[Loop] \in Locals /\ Fit(task[Loop], now)
      /\ now \in 0 .. MaxTime /\ now \in Nat /\ now - now <= PassTime
      /\ NoUser \in User \cup {NoUser} /\ NoNetwork \in Network \cup {NoNetwork} /\ 0 \in Nat
      /\ Rest("idle") \in Locals /\ Fit(Rest("idle"), now)
  BY PaymentsAssumption, BillingAssumption, RestFits DEF WorldTypes, TaskTypes, Proc
<1>1. ASSUME ReadTargets PROVE Goal
  <2>1. Targets \subseteq User \X Network
    BY DEF Targets
  <2> HIDE DEF Rest
  <2>2. CASE Targets = {}
    BY <1>0, <1>1, <2>2 DEF ReadTargets
  <2>3. CASE Targets # {}
    <3> DEFINE l == [task[Loop] EXCEPT !.pc = "poll", !.todo = Targets]
    <3>1. task' = [task EXCEPT ![Loop] = l]
      BY <1>0, <1>1, <2>3 DEF ReadTargets
    <3>0. Targets \in (SUBSET User) \cup SUBSET (User \X Network)
      BY <2>1
    <3>2. l \in Locals
      BY <1>0, <3>0 DEF Locals, Steps
    <3>3. Fit(l, now)
      BY <1>0, <1>1, <2>1 DEF Fit, PollSteps, UserSteps, NetworkSteps, IssueSteps, Locals, Steps, At, ReadTargets
    <3> HIDE DEF l
    <3> QED
      BY <1>0, <3>1, <3>2, <3>3
  <2> QED
    BY <2>2, <2>3
<1>2. ASSUME Ask PROVE Goal
  <2> DEFINE answer == Answer(task[Loop].user, task[Loop].net, Since(address[task[Loop].user][task[Loop].net]))
             l == [task[Loop] EXCEPT !.pc = "record", !.answer = answer]
  <2>0. answer \in [Tx -> Nat]
    BY DEF Answer, WorldTypes
  <2>1. task' = [task EXCEPT ![Loop] = l]
    BY <1>0, <1>2 DEF Ask
  <2> HIDE DEF answer
  <2>2. l \in Locals
    BY <1>0, <2>0 DEF Locals, Steps
  <2>3. Fit(l, now)
    BY <1>0, <1>2 DEF Fit, PollSteps, UserSteps, NetworkSteps, IssueSteps, Locals, Steps, At, Ask
  <2> HIDE DEF l
  <2> QED
    BY <1>0, <2>1, <2>2, <2>3
<1>3. ASSUME task[Loop].pc \in PollSteps, NextAddress PROVE Goal
  <2> DEFINE todo == task[Loop].todo \ {<<task[Loop].user, task[Loop].net>>}
             l == [task[Loop] EXCEPT !.pc = "poll", !.todo = todo, !.user = NoUser,
                                     !.net = NoNetwork, !.isPayment = FALSE]
  <2>0. todo \in (SUBSET User) \cup SUBSET (User \X Network) /\ todo \subseteq User \X Network
    BY <1>0, <1>3 DEF Fit
  <2>1. task' = [task EXCEPT ![Loop] = l]
    BY <1>0, <1>3 DEF NextAddress
  <2> HIDE DEF todo
  <2>2. l \in Locals
    <3>1. "poll" \in Steps /\ NoUser \in User \cup {NoUser} /\ NoNetwork \in Network \cup {NoNetwork}
      BY DEF Steps
    <3> QED
      BY <1>0, <2>0, <3>1 DEF Locals
  <2>3. Fit(l, now)
    BY <1>0, <2>0, <1>3 DEF Fit, PollSteps, UserSteps, NetworkSteps, IssueSteps, Locals
  <2> HIDE DEF l
  <2> QED
    BY <1>0, <2>1, <2>2, <2>3
<1>4. ASSUME SetChecked \/ AskFails PROVE Goal
  BY <1>3, <1>4 DEF SetChecked, AskFails, At, PollSteps
<1>5. ASSUME NEW u \in User, NEW n \in Network, ReadAssets(u, n) PROVE Goal
  <2> DEFINE l == [task[Loop] EXCEPT !.pc = "ask", !.user = u, !.net = n, !.isPayment = accepted]
  <2>1. task' = [task EXCEPT ![Loop] = l]
    BY <1>0, <1>5 DEF ReadAssets
  <2>2. l \in Locals
    BY <1>0, <1>5 DEF Locals, Steps, WorldTypes
  <2>3. Fit(l, now)
    BY <1>0, <1>5 DEF Fit, PollSteps, UserSteps, NetworkSteps, IssueSteps, Locals, Steps, At, ReadAssets, WorldTypes
  <2> HIDE DEF l
  <2> QED
    BY <1>0, <2>1, <2>2, <2>3
<1>6. ASSUME NEW t \in Tx, Record(t) PROVE Goal
  <2> DEFINE l == [task[Loop] EXCEPT !.answer[t] = 0]
  <2>1. task' = [task EXCEPT ![Loop] = l]
    BY <1>0, <1>6 DEF Record
  <2>2. l \in Locals
    BY <1>0, <1>6 DEF Locals, Steps
  <2>3. Fit(l, now)
    BY <1>0, <1>6 DEF Fit, PollSteps, UserSteps, NetworkSteps, IssueSteps, Locals, Steps, At, Record
  <2> HIDE DEF l
  <2> QED
    BY <1>0, <2>1, <2>2, <2>3
<1> QED
  BY <1>1, <1>2, <1>3, <1>4, <1>5, <1>6 DEF Check

LEMMA ReconcileFits ==
  ASSUME WorldTypes, BookTypes, TaskTypes, NEW o \in Proc, Reconcile(o) \/ AccessFails(o)
  PROVE  Alone(o) /\ task'[o] \in Locals /\ Fit(task'[o], now)
<1> DEFINE Goal == Alone(o) /\ task'[o] \in Locals /\ Fit(task'[o], now)
<1> USE DEF Alone
<1>0. /\ task \in [Proc -> Locals] /\ task[o] \in Locals /\ Fit(task[o], now)
      /\ now \in 0 .. MaxTime /\ now \in Nat /\ now - now <= PassTime
      /\ NoUser \in User \cup {NoUser} /\ NoNetwork \in Network \cup {NoNetwork} /\ 0 \in Nat
  BY PaymentsAssumption, BillingAssumption DEF WorldTypes, TaskTypes, Proc
<1>1. ASSUME EndReconcile(o) PROVE Goal
  <2>1. /\ Rest("idle") \in Locals /\ Fit(Rest("idle"), now)
        /\ Rest("done") \in Locals /\ Fit(Rest("done"), now)
        /\ [Rest("targets") EXCEPT !.moment = now] \in Locals
        /\ Fit([Rest("targets") EXCEPT !.moment = now], now)
    BY <1>0, RestFits
  <2> HIDE DEF Rest, Fit, Locals
  <2> QED
    BY <1>0, <1>1, <2>1 DEF EndReconcile
<1>2. \A u \in User : Paid(u) \in Nat /\ manual[u] \in Nat
  BY PaidIsNat DEF BookTypes
<1>3. ASSUME SumPayments(o) PROVE Goal
  <2> DEFINE sums == [u \in User |-> Paid(u)]
             late == {u \in User : IsLate(u, now)}
             checking == At(o, "poll")
             l == [task[o] EXCEPT !.pc = "manual", !.sums = sums, !.owing = {}, !.checking = checking, !.late = late]
  <2>0. sums \in [User -> Nat] /\ late \in SUBSET User /\ checking \in BOOLEAN
    BY <1>2 DEF At
  <2>1. task' = [task EXCEPT ![o] = l]
    BY <1>0, <1>3 DEF SumPayments
  <2> HIDE DEF sums, late, checking
  <2>2. l \in Locals
    BY <1>0, <2>0 DEF Locals, Steps
  <2>3. Fit(l, now)
    BY <1>0, <1>3 DEF Fit, PollSteps, UserSteps, NetworkSteps, IssueSteps, Locals, Steps, At, SumPayments
  <2> HIDE DEF l
  <2> QED
    BY <1>0, <2>1, <2>2, <2>3
<1>4. ASSUME SumManual(o) PROVE Goal
  <2> DEFINE l == [task[o] EXCEPT !.pc = "owed", !.sums = [u \in User |-> @[u] + manual[u]]]
  <2>1. task' = [task EXCEPT ![o] = l]
    BY <1>0, <1>4 DEF SumManual
  <2>0. [u \in User |-> task[o].sums[u] + manual[u]] \in [User -> Nat]
    BY <1>0, <1>2 DEF Locals
  <2>2. l \in Locals
    BY <1>0, <2>0 DEF Locals, Steps
  <2>3. Fit(l, now)
    BY <1>0, <1>4, <1>2 DEF Fit, PollSteps, UserSteps, NetworkSteps, IssueSteps, Locals, Steps, At, SumManual
  <2> HIDE DEF l
  <2> QED
    BY <1>0, <2>1, <2>2, <2>3
<1>5. ASSUME SumInvoices(o) PROVE Goal
  <2> DEFINE l == [task[o] EXCEPT !.pc = "debtors", !.sums = [u \in User |-> 0], !.todo = {u \in User : task[o].sums[u] < Owed(u, Billed(u))}]
  <2>1. task' = [task EXCEPT ![o] = l]
    BY <1>0, <1>5 DEF SumInvoices
  <2>2. l \in Locals
    BY <1>0, <1>5 DEF Locals, Steps
  <2>3. Fit(l, now)
    BY <1>0, <1>5 DEF Fit, PollSteps, UserSteps, NetworkSteps, IssueSteps, Locals, Steps, At, SumInvoices
  <2> HIDE DEF l
  <2> QED
    BY <1>0, <2>1, <2>2, <2>3
<1>6. ASSUME At(o, "paid"), ReadPaid(o, "credits") PROVE Goal
  <2> DEFINE l == [task[o] EXCEPT !.pc = "credits", !.num = Paid(task[o].user)]
  <2>1. task' = [task EXCEPT ![o] = l]
    BY <1>0, <1>6 DEF ReadPaid
  <2>0. task[o].user \in User
    BY <1>0, <1>6 DEF ReadPaid, At, Fit, UserSteps
  <2>2. l \in Locals
    BY <1>0, <2>0, <1>2 DEF Locals, Steps
  <2>3. Fit(l, now)
    BY <1>0, <1>6, <1>2 DEF Fit, PollSteps, UserSteps, NetworkSteps, IssueSteps, Locals, Steps, At, ReadPaid
  <2> HIDE DEF l
  <2> QED
    BY <1>0, <2>1, <2>2, <2>3
<1>7. ASSUME Classify(o) PROVE Goal
  <2>1. PICK remind, owing, step : /\ remind \in SUBSET Period /\ owing \in SUBSET User
             /\ step \in {"remind", "suspend", "debtors"}
             /\ task' = [task EXCEPT ![o].pc = step, ![o].rows = remind, ![o].owing = owing, ![o].num = 0]
    <3> DEFINE l == task[o]
               credits == l.num + manual[l.user]
               open == Uncovered(l.user, l.rows, credits)
               overdue == Overdue(l.user, l.rows, credits, l.moment)
               remind == {q \in open \ overdue : /\ RemindIn > 0
                                                 /\ invoices[l.user][q].due - l.moment <= RemindIn}
               owing == Owing(o, overdue)
               step == IF remind # {} THEN "remind" ELSE IF overdue # {} THEN "suspend" ELSE "debtors"
    <3>0. l.user \in User /\ l.rows \in SUBSET Period /\ l.owing \in SUBSET User
      BY <1>0, <1>7 DEF Classify, At, Fit, UserSteps, Locals
    <3>1. remind \in SUBSET Period
      BY <3>0 DEF Uncovered
    <3>2. owing \in SUBSET User
      BY <3>0 DEF Owing
    <3>3. task' = [task EXCEPT ![o].pc = step, ![o].rows = remind, ![o].owing = owing, ![o].num = 0]
      BY <1>7 DEF Classify
    <3>4. step \in {"remind", "suspend", "debtors"}
      OBVIOUS
    <3> HIDE DEF remind, owing, step
    <3> QED
      BY <3>1, <3>2, <3>3, <3>4
  <2> DEFINE l == [task[o] EXCEPT !.pc = step, !.rows = remind, !.owing = owing, !.num = 0]
  <2>2. task' = [task EXCEPT ![o] = l]
    BY <1>0, <2>1
  <2>3. l \in Locals
    BY <1>0, <2>1 DEF Locals, Steps
  <2>4. Fit(l, now)
    BY <1>0, <1>7, <2>1 DEF Fit, PollSteps, UserSteps, NetworkSteps, IssueSteps, Locals, Steps, At, Classify
  <2> HIDE DEF l
  <2> QED
    BY <1>0, <2>2, <2>3, <2>4
<1>8. ASSUME Suspend(o) PROVE Goal
  <2> DEFINE l == [task[o] EXCEPT !.pc = "debtors"]
  <2>1. task' = [task EXCEPT ![o] = l]
    BY <1>0, <1>8 DEF Suspend
  <2>2. l \in Locals
    BY <1>0, <1>8 DEF Locals, Steps
  <2>3. Fit(l, now)
    BY <1>0, <1>8 DEF Fit, PollSteps, UserSteps, NetworkSteps, IssueSteps, Locals, Steps, At, Suspend
  <2> HIDE DEF l
  <2> QED
    BY <1>0, <2>1, <2>2, <2>3
<1>9. ASSUME ListSuspended(o) PROVE Goal
  <2> DEFINE l == [task[o] EXCEPT !.pc = "restore", !.user = NoUser, !.rows = {}, !.todo = {u \in User : access[u] = "suspended"} \ task[o].owing]
  <2>1. task' = [task EXCEPT ![o] = l]
    BY <1>0, <1>9 DEF ListSuspended
  <2>2. l \in Locals
    BY <1>0, <1>9 DEF Locals, Steps
  <2>3. Fit(l, now)
    BY <1>0, <1>9 DEF Fit, PollSteps, UserSteps, NetworkSteps, IssueSteps, Locals, Steps, At, ListSuspended
  <2> HIDE DEF l
  <2> QED
    BY <1>0, <2>1, <2>2, <2>3
<1>10. ASSUME NEW u \in User, ListInvoices(o, u) PROVE Goal
  <2> DEFINE l == [task[o] EXCEPT !.pc = "paid", !.todo = @ \ {u}, !.user = u, !.rows = Billed(u)]
  <2>1. task' = [task EXCEPT ![o] = l]
    BY <1>0, <1>10 DEF ListInvoices
  <2>2. l \in Locals
    BY <1>0, <1>10 DEF Locals, Steps, Billed
  <2>3. Fit(l, now)
    BY <1>0, <1>10 DEF Fit, PollSteps, UserSteps, NetworkSteps, IssueSteps, Locals, Steps, At, ListInvoices, Billed
  <2> HIDE DEF l
  <2> QED
    BY <1>0, <2>1, <2>2, <2>3
<1>11. ASSUME NEW u \in User, Restore(o, u) PROVE Goal
  <2> DEFINE l == [task[o] EXCEPT !.todo = @ \ {u}]
  <2>1. task' = [task EXCEPT ![o] = l]
    BY <1>0, <1>11 DEF Restore
  <2>2. l \in Locals
    BY <1>0, <1>11 DEF Locals, Steps
  <2>3. Fit(l, now)
    BY <1>0, <1>11 DEF Fit, PollSteps, UserSteps, NetworkSteps, IssueSteps, Locals, Steps, At, Restore
  <2> HIDE DEF l
  <2> QED
    BY <1>0, <2>1, <2>2, <2>3
<1>12. ASSUME NEW q \in Period, Remind(o, q) PROVE Goal
  <2> DEFINE l == [task[o] EXCEPT !.rows = @ \ {q}, !.pc = IF task[o].rows \ {q} # {} THEN @ ELSE AfterReminders(o, task[o].owing)]
  <2>1. task' = [task EXCEPT ![o] = l]
    BY <1>0, <1>12 DEF Remind
  <2>0. (IF task[o].rows \ {q} # {} THEN task[o].pc ELSE AfterReminders(o, task[o].owing)) \in Steps
    BY <1>0 DEF AfterReminders, Locals, Steps
  <2>2. l \in Locals
    BY <1>0, <2>0 DEF Locals
  <2>3. Fit(l, now)
    BY <1>0, <1>12 DEF Fit, PollSteps, UserSteps, NetworkSteps, IssueSteps, Locals, Steps, At, Remind, AfterReminders
  <2> HIDE DEF l
  <2> QED
    BY <1>0, <2>1, <2>2, <2>3
<1>13. ASSUME AccessFails(o) PROVE Goal
  <2>1. PICK u \in task[o].todo \cup {NoUser} :
          \/ At(o, "suspend") /\ task' = [task EXCEPT ![o].pc = "debtors"]
          \/ At(o, "restore") /\ task' = [task EXCEPT ![o].todo = @ \ {u}]
    BY <1>13 DEF AccessFails
  <2> DEFINE l == [task[o] EXCEPT !.pc = "debtors"]
             k == [task[o] EXCEPT !.todo = @ \ {u}]
  <2>2. \/ At(o, "suspend") /\ task' = [task EXCEPT ![o] = l]
        \/ At(o, "restore") /\ task' = [task EXCEPT ![o] = k]
    BY <1>0, <2>1
  <2>3. l \in Locals
    BY <1>0 DEF Locals, Steps
  <2>4. At(o, "restore") => k \in Locals
    BY <1>0 DEF Locals, Steps, Fit, PollSteps, At
  <2>5. (At(o, "suspend") => Fit(l, now)) /\ (At(o, "restore") => Fit(k, now))
    BY <1>0 DEF Fit, PollSteps, UserSteps, NetworkSteps, IssueSteps, Locals, Steps, At
  <2> HIDE DEF l, k
  <2> QED
    BY <1>0, <2>2, <2>3, <2>4, <2>5
<1> QED
  BY <1>1, <1>3, <1>4, <1>5, <1>6, <1>7, <1>8, <1>9, <1>10, <1>11, <1>12, <1>13 DEF Reconcile

LEMMA CallsFit ==
  ASSUME WorldTypes, BookTypes, TaskTypes, NEW o \in Call, Calls(o) \/ Answers(o)
  PROVE  Alone(o) /\ task'[o] \in Locals /\ Fit(task'[o], now)
<1> DEFINE Goal == Alone(o) /\ task'[o] \in Locals /\ Fit(task'[o], now)
<1> USE DEF Alone
<1>0. /\ task \in [Proc -> Locals] /\ o \in Proc /\ task[o] \in Locals /\ Fit(task[o], now)
      /\ now \in 0 .. MaxTime /\ now \in Nat /\ now - now <= PassTime
      /\ NoUser \in User \cup {NoUser} /\ NoNetwork \in Network \cup {NoNetwork} /\ 0 \in Nat
      /\ Rest("done") \in Locals /\ Fit(Rest("done"), now)
  BY PaymentsAssumption, BillingAssumption, RestFits DEF WorldTypes, TaskTypes, Proc
<1>1. \A u \in User : Paid(u) \in Nat /\ manual[u] \in Nat
  BY PaidIsNat DEF BookTypes
<1>2. ASSUME Reconcile(o) PROVE Goal
  BY <1>0, <1>2, ReconcileFits
<1>3. ASSUME ReadDebt(o) PROVE Goal
  <2> HIDE DEF Rest
  <2>1. CASE task[o].num < Owed(task[o].user, Billed(task[o].user))
    BY <1>0, <1>3, <2>1 DEF ReadDebt
  <2>2. CASE ~(task[o].num < Owed(task[o].user, Billed(task[o].user)))
    <3> DEFINE l == [task[o] EXCEPT !.pc = "move"]
    <3>1. task' = [task EXCEPT ![o] = l]
      BY <1>0, <1>3, <2>2 DEF ReadDebt
    <3>2. l \in Locals
      BY <1>0 DEF Locals, Steps
    <3>3. Fit(l, now)
      BY <1>0, <1>3 DEF Fit, PollSteps, UserSteps, NetworkSteps, IssueSteps, Locals, Steps, At, ReadDebt
    <3> HIDE DEF l
    <3> QED
      BY <1>0, <3>1, <3>2, <3>3
  <2> QED
    BY <2>1, <2>2
<1>4. ASSUME SetNetwork(o) PROVE Goal
  <2> HIDE DEF Rest
  <2> QED BY <1>0, <1>4 DEF SetNetwork
<1>5. ASSUME At(o, "choose"), ReadPaid(o, "chooseManual") PROVE Goal
  <2> DEFINE l == [task[o] EXCEPT !.pc = "chooseManual", !.num = Paid(task[o].user)]
  <2>1. task' = [task EXCEPT ![o] = l]
    BY <1>0, <1>5 DEF ReadPaid
  <2>0. task[o].user \in User
    BY <1>0, <1>5 DEF ReadPaid, At, Fit, UserSteps
  <2>2. l \in Locals
    BY <1>0, <2>0, <1>1 DEF Locals, Steps
  <2>3. Fit(l, now)
    BY <1>0, <1>5, <1>1 DEF Fit, PollSteps, UserSteps, NetworkSteps, IssueSteps, Locals, Steps, At, ReadPaid
  <2> HIDE DEF l
  <2> QED
    BY <1>0, <2>1, <2>2, <2>3
<1>6. ASSUME ReadManual(o) PROVE Goal
  <2> DEFINE l == [task[o] EXCEPT !.pc = "debt", !.num = @ + manual[task[o].user]]
  <2>1. task' = [task EXCEPT ![o] = l]
    BY <1>0, <1>6 DEF ReadManual
  <2>0. task[o].user \in User
    BY <1>0, <1>6 DEF ReadManual, At, Fit, UserSteps
  <2>4. task[o].num + manual[task[o].user] \in Nat
    BY <1>0, <1>1, <2>0 DEF Locals
  <2>2. l \in Locals
    BY <1>0, <2>4 DEF Locals, Steps
  <2>3. Fit(l, now)
    BY <1>0, <1>6, <1>1 DEF Fit, PollSteps, UserSteps, NetworkSteps, IssueSteps, Locals, Steps, At, ReadManual
  <2> HIDE DEF l
  <2> QED
    BY <1>0, <2>1, <2>2, <2>3
<1>7. ASSUME NEW u \in User, NEW q \in Period, NEW value, ConfirmManually(o, u, q, value) PROVE Goal
  <2> DEFINE l == [task[o] EXCEPT !.pc = "balances", !.moment = now]
  <2>1. task' = [task EXCEPT ![o] = l]
    BY <1>0, <1>7 DEF ConfirmManually
  <2>2. l \in Locals
    BY <1>0, <1>7 DEF Locals, Steps
  <2>3. Fit(l, now)
    BY <1>0, <1>7 DEF Fit, PollSteps, UserSteps, NetworkSteps, IssueSteps, Locals, Steps, At, ConfirmManually
  <2> HIDE DEF l
  <2> QED
    BY <1>0, <2>1, <2>2, <2>3
<1>8. ASSUME NEW u \in User, NEW n \in Network, ChooseNetwork(o, u, n) PROVE Goal
  <2> DEFINE l == [task[o] EXCEPT !.pc = "choose", !.user = u, !.net = n, !.moment = now]
  <2>1. task' = [task EXCEPT ![o] = l]
    BY <1>0, <1>8 DEF ChooseNetwork
  <2>2. l \in Locals
    BY <1>0, <1>8 DEF Locals, Steps
  <2>3. Fit(l, now)
    BY <1>0, <1>8 DEF Fit, PollSteps, UserSteps, NetworkSteps, IssueSteps, Locals, Steps, At, ChooseNetwork
  <2> HIDE DEF l
  <2> QED
    BY <1>0, <2>1, <2>2, <2>3
<1> QED
  BY <1>2, <1>3, <1>4, <1>5, <1>6, <1>7, <1>8 DEF Calls, Answers

LEMMA OwnFits ==
  ASSUME WorldTypes, BookTypes, TaskTypes, NEW o \in Proc, Own(o)
  PROVE  Alone(o) /\ task'[o] \in Locals /\ Fit(task'[o], now)
BY IssueFits, CheckFits, ReconcileFits, CallsFit DEF Own

\* What a task's step changes outside of the task, and by which action.
Writes(o) ==
    /\ UNCHANGED <<mode, now, sent, shown, accepted, wallets>>
    /\ UNCHANGED invoices \/ (o = Loop /\ InsertInvoice)
    /\ UNCHANGED address \/ (o = Loop /\ (AllocateAddress \/ SetChecked))
    /\ UNCHANGED payments \/ (o = Loop /\ \E t \in Tx : Record(t))
    /\ \/ UNCHANGED manual
       \/ o \in Call /\ \E u \in User, q \in Period, value \in ByHand \cup Fee : ConfirmManually(o, u, q, value)
    /\ UNCHANGED access \/ Suspend(o) \/ \E u \in User : Restore(o, u)
    /\ UNCHANGED network \/ SetNetwork(o)
    /\ UNCHANGED <<notices, letters>> \/ \E q \in Period : Remind(o, q)
    /\ UNCHANGED faults \/ Fault

\* What a task's own step may write beside its locals.
LEMMA OwnWrites ==
  ASSUME NEW o \in Proc, Own(o)
  PROVE  Writes(o)
<1> USE DEF env, store, books, chain
<1>1. ASSUME o = Loop, Issue PROVE Writes(o)
  <2>1. ASSUME StartPass \/ ReadTerms \/ ReadNetwork \/ FindAddress PROVE Writes(o)
    BY <2>1 DEF Writes, StartPass, ReadTerms, ReadNetwork, FindAddress
  <2>2. ASSUME AllocateAddress PROVE Writes(o)
    BY <1>1, <2>2 DEF Writes, AllocateAddress
  <2>3. ASSUME InsertInvoice PROVE Writes(o)
    BY <1>1, <2>3 DEF Writes, InsertInvoice
  <2>4. ASSUME NEW u \in User, SkipUser(u) \/ \E fee \in Fee : BillUser(u, fee) PROVE Writes(o)
    BY <2>4 DEF Writes, SkipUser, BillUser
  <2> QED
    BY <1>1, <2>1, <2>2, <2>3, <2>4 DEF Issue
<1>2. ASSUME o = Loop, Check \/ AskFails PROVE Writes(o)
  <2>1. ASSUME ReadTargets \/ Ask \/ AskFails \/ \E u \in User, n \in Network : ReadAssets(u, n)
        PROVE  Writes(o)
    BY <2>1 DEF Writes, ReadTargets, Ask, AskFails, ReadAssets
  <2>2. ASSUME SetChecked PROVE Writes(o)
    BY <1>2, <2>2 DEF Writes, SetChecked
  <2>3. ASSUME NEW t \in Tx, Record(t) PROVE Writes(o)
    BY <1>2, <2>3 DEF Writes, Record
  <2> QED
    BY <1>2, <2>1, <2>2, <2>3 DEF Check
<1>3. ASSUME Reconcile(o) \/ AccessFails(o) PROVE Writes(o)
  <2>1. ASSUME SumPayments(o) \/ SumManual(o) \/ SumInvoices(o) PROVE Writes(o)
    BY <2>1 DEF Writes, SumPayments, SumManual, SumInvoices
  <2>2. ASSUME ReadPaid(o, "credits") PROVE Writes(o)
    BY <2>2 DEF Writes, ReadPaid
  <2>3. ASSUME Classify(o) PROVE Writes(o)
    BY <2>3 DEF Writes, Classify
  <2>4. ASSUME Suspend(o) PROVE Writes(o)
    BY <2>4 DEF Writes, Suspend
  <2>5. ASSUME ListSuspended(o) \/ EndReconcile(o) \/ AccessFails(o) PROVE Writes(o)
    BY <2>5 DEF Writes, ListSuspended, EndReconcile, AccessFails
  <2>6. ASSUME NEW u \in User, ListInvoices(o, u) PROVE Writes(o)
    BY <2>6 DEF Writes, ListInvoices
  <2>7. ASSUME NEW u \in User, Restore(o, u) PROVE Writes(o)
    BY <2>7 DEF Writes, Restore
  <2>8. ASSUME NEW q \in Period, Remind(o, q) PROVE Writes(o)
    BY <2>8 DEF Writes, Remind
  <2> QED
    BY <1>3, <2>1, <2>2, <2>3, <2>4, <2>5, <2>6, <2>7, <2>8 DEF Reconcile
<1>4. ASSUME o \in Call, Calls(o) \/ Answers(o) PROVE Writes(o)
  <2>1. ASSUME NEW u \in User, NEW q \in Period, NEW value \in ByHand \cup Fee, ConfirmManually(o, u, q, value)
        PROVE  Writes(o)
    BY <1>4, <2>1 DEF Writes, ConfirmManually
  <2>2. ASSUME ReadPaid(o, "chooseManual") \/ ReadManual(o) \/ ReadDebt(o)
               \/ \E u \in User, n \in Network : ChooseNetwork(o, u, n)
        PROVE  Writes(o)
    BY <2>2 DEF Writes, ReadPaid, ReadManual, ReadDebt, ChooseNetwork
  <2>3. ASSUME SetNetwork(o) PROVE Writes(o)
    BY <2>3 DEF Writes, SetNetwork
  <2> QED
    BY <1>3, <1>4, <2>1, <2>2, <2>3 DEF Calls, Answers
<1> QED
  BY <1>1, <1>2, <1>3, <1>4 DEF Own

\* What the steps of the world and the aborts change.
LEMMA WorldWrites ==
  ASSUME World
  PROVE  /\ UNCHANGED <<mode, invoices, access, network, notices, task, letters, faults, store>>
         /\ UNCHANGED <<now, sent, shown>> \/ Tick \/ (\E t \in Tx, u \in User, n \in Network : Pay(t, u, n))
                                           \/ \E t \in Tx : Index(t)
         /\ UNCHANGED now \/ Tick
         /\ UNCHANGED accepted \/ ChangeAssets
         /\ UNCHANGED wallets \/ \E n \in Network : ChangeWallet(n)
<1> USE DEF env, store, books, chain
<1>1. CASE Tick
  BY <1>1 DEF Tick
<1>2. CASE Pays
  BY <1>2 DEF Pays, Pay
<1>3. CASE Indexes
  BY <1>3 DEF Indexes, Index
<1>4. CASE ChangeAssets
  BY <1>4 DEF ChangeAssets
<1>5. CASE \E n \in Network : ChangeWallet(n)
  BY <1>5 DEF ChangeWallet
<1> QED
  BY <1>1, <1>2, <1>3, <1>4, <1>5 DEF World

\* What a failure or a crash leaves.
LEMMA AbortWrites ==
  ASSUME TaskTypes, Aborts
  PROVE  /\ UNCHANGED <<env, store, books, letters>> /\ Fault
         /\ task' \in [Proc -> Locals \cup {Rest("idle"), Rest("done")}]
         /\ \A p \in Proc : task'[p] = task[p] \/ task'[p] \in {Rest("idle"), Rest("done")}
<1> USE DEF Aborts, Abort
<1>1. UNCHANGED <<env, store, books, letters>> /\ Fault
  OBVIOUS
<1>2. PICK ps \in SUBSET Proc :
        task' = [p \in Proc |-> IF p \in ps /\ ~At(p, "idle")
                                 THEN Rest(IF p = Loop THEN "idle" ELSE "done") ELSE task[p]]
  OBVIOUS
<1> HIDE DEF Aborts, Abort
<1>3. \A p \in Proc : task'[p] = task[p] \/ task'[p] \in {Rest("idle"), Rest("done")}
  BY <1>2
<1> QED
  BY <1>1, <1>2, <1>3 DEF TaskTypes

\* The types are kept.
LEMMA TaskTypesStep ==
  ASSUME WorldTypes, BookTypes, TaskTypes, Next
  PROVE  TaskTypes'
<1>1. ASSUME NEW o \in Proc, Own(o) PROVE TaskTypes'
  <2>1. Alone(o) /\ task'[o] \in Locals /\ Fit(task'[o], now) /\ now' = now
    BY <1>1, OwnFits, OwnWrites DEF Writes
  <2> QED
    BY <2>1 DEF TaskTypes, Alone
<1>2. ASSUME Aborts PROVE TaskTypes'
  <2>1. /\ Rest("idle") \in Locals /\ Fit(Rest("idle"), now)
        /\ Rest("done") \in Locals /\ Fit(Rest("done"), now)
    BY RestFits DEF WorldTypes
  <2>2. now' = now
    BY <1>2, AbortWrites DEF env
  <2>3. /\ task' \in [Proc -> Locals]
        /\ \A p \in Proc : task'[p] = task[p] \/ task'[p] \in {Rest("idle"), Rest("done")}
    BY <1>2, <2>1, AbortWrites
  <2> HIDE DEF Rest
  <2> QED
    BY <2>1, <2>2, <2>3 DEF TaskTypes
<1>3. ASSUME World PROVE TaskTypes'
  <2>1. UNCHANGED task
    BY <1>3, WorldWrites
  <2>2. CASE UNCHANGED now
    BY <2>1, <2>2 DEF TaskTypes
  <2>3. CASE Tick
    <3> SUFFICES ASSUME NEW p \in Proc PROVE Fit(task[p], now + 1)
      BY <2>1, <2>3 DEF Tick, TaskTypes
    <3>1. Fit(task[p], now) /\ task[p].moment \in Nat /\ now \in Nat /\ PassTime \in Nat
      BY PaymentsAssumption, BillingAssumption DEF TaskTypes, WorldTypes, Locals
    <3>2. task[p].pc \notin {"idle", "done"} => now - task[p].moment < PassTime
      BY <2>3 DEF Tick, Running
    <3> QED
      BY <3>1, <3>2 DEF Fit
  <2> QED
    BY <1>3, <2>2, <2>3, WorldWrites
<1> QED
  BY <1>1, <1>2, <1>3, NextKinds

LEMMA WorldTypesStep ==
  ASSUME WorldTypes, BookTypes, TaskTypes, Next
  PROVE  WorldTypes'
<1>1. faults' \in 0 .. MaxFaults
  <2>1. UNCHANGED faults \/ Fault
    BY NextKinds, OwnWrites, AbortWrites, WorldWrites DEF Writes
  <2> QED
    BY <2>1, BillingAssumption DEF Fault, WorldTypes
<1>2. now' \in 0 .. MaxTime
  <2>1. UNCHANGED now \/ Tick
    BY NextKinds, OwnWrites, AbortWrites, WorldWrites DEF Writes, env
  <2> QED
    BY <2>1, PaymentsAssumption DEF Tick, WorldTypes
<1>3. accepted' \in BOOLEAN /\ mode' \in Modes
  <2>1. (UNCHANGED accepted \/ ChangeAssets) /\ UNCHANGED mode
    BY NextKinds, OwnWrites, AbortWrites, WorldWrites DEF Writes, env
  <2> QED
    BY <2>1 DEF ChangeAssets, WorldTypes
<1>4. sent' \in [Tx -> {NoPayment} \cup Transfer] /\ shown' \in [Tx -> Nat]
  <2>1. UNCHANGED <<sent, shown>> \/ Tick \/ (\E t \in Tx, u \in User, n \in Network : Pay(t, u, n))
                                           \/ \E t \in Tx : Index(t)
    BY NextKinds, OwnWrites, AbortWrites, WorldWrites DEF Writes, env, chain
  <2>2. CASE UNCHANGED <<sent, shown>> \/ Tick
    BY <2>2 DEF WorldTypes, Tick, chain
  <2>3. ASSUME NEW t \in Tx, NEW u \in User, NEW n \in Network, Pay(t, u, n)
        PROVE  sent' \in [Tx -> {NoPayment} \cup Transfer] /\ shown' \in [Tx -> Nat]
    BY <2>3 DEF Pay, WorldTypes, Transfer
  <2>4. ASSUME NEW t \in Tx, Index(t)
        PROVE  sent' \in [Tx -> {NoPayment} \cup Transfer] /\ shown' \in [Tx -> Nat]
    BY <2>4 DEF Index, WorldTypes
  <2> QED
    BY <2>1, <2>2, <2>3, <2>4
<1> QED
  BY <1>1, <1>2, <1>3, <1>4 DEF WorldTypes

\* What a step changes in the books, and by which action.
LEMMA NextWrites ==
  ASSUME TaskTypes, Next
  PROVE  /\ UNCHANGED mode
         /\ UNCHANGED now \/ Tick
         /\ UNCHANGED accepted \/ ChangeAssets
         /\ UNCHANGED sent \/ \E t \in Tx, u \in User, n \in Network : Pay(t, u, n)
         /\ UNCHANGED shown \/ \E t \in Tx : Index(t)
         /\ UNCHANGED invoices \/ InsertInvoice
         /\ UNCHANGED address \/ AllocateAddress \/ SetChecked
         /\ UNCHANGED payments \/ \E t \in Tx : Record(t)
         /\ UNCHANGED manual \/ \E c \in Call, u \in User, q \in Period, value \in ByHand \cup Fee :
                                    ConfirmManually(c, u, q, value)
         /\ UNCHANGED access \/ \E o \in Proc : Suspend(o) \/ \E u \in User : Restore(o, u)
         /\ UNCHANGED network \/ \E o \in Proc : SetNetwork(o)
         /\ UNCHANGED wallets \/ \E n \in Network : ChangeWallet(n)
         /\ UNCHANGED <<notices, letters>> \/ \E o \in Proc, q \in Period : Remind(o, q)
<1>1. ASSUME NEW o \in Proc, Own(o) PROVE Writes(o)
  BY <1>1, OwnWrites
<1>2. CASE World
  <2>1. Tick => UNCHANGED <<sent, shown>>
    BY DEF Tick, chain
  <2>2. ASSUME NEW t \in Tx, NEW u \in User, NEW n \in Network, Pay(t, u, n) PROVE UNCHANGED shown
    BY <2>2 DEF Pay
  <2>3. ASSUME NEW t \in Tx, Index(t) PROVE UNCHANGED sent
    BY <2>3 DEF Index
  <2> QED
    BY <1>2, <2>1, <2>2, <2>3, WorldWrites DEF store
<1>3. CASE Aborts
  BY <1>3, AbortWrites DEF env, chain, store, books
<1>4. CASE \E o \in Proc : Own(o)
  BY <1>1, <1>4 DEF Writes
<1> QED
  BY <1>2, <1>3, <1>4, NextKinds

LEMMA BookTypesStep ==
  ASSUME WorldTypes, BookTypes, TaskTypes, NewestFirst, Next
  PROVE  BookTypes'
<1>0. /\ task \in [Proc -> Locals] /\ Loop \in Proc /\ task[Loop] \in Locals /\ Fit(task[Loop], now)
      /\ now \in 0 .. MaxTime
  BY DEF WorldTypes, TaskTypes, Proc
<1>1. address' \in [User -> [Network -> {NoAddress, Never} \cup (0 .. MaxTime)]]
  <2>1. CASE AllocateAddress
    BY <2>1 DEF AllocateAddress, BookTypes
  <2>2. CASE SetChecked
    BY <1>0, <2>2 DEF SetChecked, Checked, BookTypes, Locals
  <2> QED
    BY <2>1, <2>2, NextWrites DEF BookTypes
<1>2. payments' \in [Tx -> {NoPayment} \cup Payment]
  <2>1. ASSUME NEW t \in Tx, Record(t) PROVE payments' \in [Tx -> {NoPayment} \cup Payment]
    <3> DEFINE a == task[Loop].answer[t]
               v == IF task[Loop].isPayment THEN a ELSE 0
    <3>1. a \in Nat /\ v \in Nat
      BY <1>0 DEF Locals
    <3>2. payments' = Recorded(t, a, v)
      BY <2>1 DEF Record, RecordTransfer
    <3> HIDE DEF a, v
    <3> QED
      BY <3>1, <3>2 DEF Recorded, BookTypes, Payment
  <2> QED
    BY <2>1, NextWrites DEF BookTypes
<1>3. manual' \in [User -> Nat]
  <2>1. ASSUME NEW c \in Call, NEW u \in User, NEW q \in Period, NEW value \in ByHand \cup Fee,
               ConfirmManually(c, u, q, value)
        PROVE  manual' \in [User -> Nat]
    <3>1. value \in Nat
      BY BillingAssumption
    <3> QED
      BY <2>1, <3>1 DEF ConfirmManually, BookTypes
  <2> QED
    BY <2>1, NextWrites DEF BookTypes
<1>4. invoices' \in [User -> [Period -> {NoInvoice} \cup Invoice]]
  <2>1. CASE InsertInvoice
    <3> DEFINE l == task[Loop]
               row == [amount |-> l.num, due |-> l.moment + DueIn, net |-> l.net]
    <3>1. At(Loop, "insert") /\ invoices' = [invoices EXCEPT ![l.user][DuePeriod(l.moment)] = row]
      BY <2>1 DEF InsertInvoice
    <3>2. l.user \in User /\ l.num \in Fee /\ l.net \in Network
      BY <1>0, <3>1 DEF At, Fit, UserSteps, IssueSteps, NetworkSteps
    <3>3. DuePeriod(l.moment) \in Period
      BY <1>0, <3>1 DEF NewestFirst, Issuing, IssueSteps, At
    <3>4. l.moment + DueIn \in DueIn .. MaxTime + DueIn
      BY <1>0, PaymentsAssumption, BillingAssumption DEF Locals
    <3>5. row \in Invoice
      BY <3>2, <3>4 DEF Invoice
    <3> HIDE DEF l, row
    <3> QED
      BY <3>1, <3>2, <3>3, <3>5 DEF BookTypes
  <2> QED
    BY <2>1, NextWrites DEF BookTypes
<1>5. access' \in [User -> {"ok", "suspended"}]
  <2>1. ASSUME NEW o \in Proc, Suspend(o) \/ \E u \in User : Restore(o, u)
        PROVE  access' \in [User -> {"ok", "suspended"}]
    BY <2>1 DEF Suspend, Restore, BookTypes
  <2> QED
    BY <2>1, NextWrites DEF BookTypes
<1>6. network' \in [User -> Network] /\ wallets' \subseteq Network
  <2>1. ASSUME NEW o \in Proc, SetNetwork(o) PROVE network' \in [User -> Network]
    <3>1. task[o].net \in Network
      BY <2>1 DEF SetNetwork, At, Fit, NetworkSteps, TaskTypes
    <3> QED
      BY <2>1, <3>1 DEF SetNetwork, BookTypes
  <2>2. ASSUME NEW n \in Network, ChangeWallet(n) PROVE wallets' \subseteq Network
    BY <2>2 DEF ChangeWallet, BookTypes
  <2> QED
    BY <2>1, <2>2, NextWrites DEF BookTypes
<1>7. notices' \subseteq User \X Period /\ letters' \in [User -> [Period -> Nat]]
  <2>1. ASSUME NEW o \in Proc, NEW q \in Period, Remind(o, q)
        PROVE  notices' \subseteq User \X Period /\ letters' \in [User -> [Period -> Nat]]
    <3>1. task[o].user \in User
      BY <2>1 DEF Remind, At, Fit, UserSteps, TaskTypes
    <3> QED
      BY <2>1, <3>1 DEF Remind, BookTypes
  <2> QED
    BY <2>1, NextWrites DEF BookTypes
<1> QED
  BY <1>1, <1>2, <1>3, <1>4, <1>5, <1>6, <1>7 DEF BookTypes

(***************************************************************************)
(* The order of the invoices.                                              *)
(***************************************************************************)
LEMMA DivGrows ==
  ASSUME NEW a \in Nat, NEW b \in Nat, a <= b
  PROVE  DuePeriod(a) <= DuePeriod(b) /\ DuePeriod(a) \in Int /\ DuePeriod(b) \in Int
<1> DEFINE P == PeriodLength
           x == a \div P
           y == b \div P
<1>1. P \in Nat /\ P > 0
  BY BillingAssumption
<1>2. x \in Int /\ y \in Int /\ P * x <= a /\ a < P * x + P /\ P * y <= b /\ b < P * y + P
  BY <1>1
<1>3. x <= y
  <2> SUFFICES ASSUME y + 1 <= x PROVE FALSE
    BY <1>2
  <2>1. P * (y + 1) <= P * x
    BY <1>1, <1>2
  <2>2. P * (y + 1) = P * y + P
    BY <1>1, <1>2
  <2> DEFINE px == P * x
             py == P * y
  <2>3. px \in Int /\ py \in Int /\ P \in Int
    BY <1>1, <1>2
  <2>4. px <= a /\ b < py + P /\ py + P <= px
    BY <1>2, <2>1, <2>2
  <2> HIDE DEF P, x, y, px, py
  <2> QED
    BY <2>3, <2>4
<1>4. DuePeriod(a) = x - 1 /\ DuePeriod(b) = y - 1
  BY DEF DuePeriod
<1> HIDE DEF P, x, y
<1> QED
  BY <1>2, <1>3, <1>4

\* Where a reconciliation goes.
LEMMA ReconcilePc ==
  ASSUME TaskTypes, NEW o \in Proc, Reconcile(o) \/ AccessFails(o)
  PROVE  task'[o].pc \in {"manual", "owed", "debtors", "paid", "credits", "remind", "suspend",
                           "restore", "targets", "idle", "done"}
<1> DEFINE Goal == task'[o].pc \in {"manual", "owed", "debtors", "paid", "credits", "remind",
                                    "suspend", "restore", "targets", "idle", "done"}
<1>0. task \in [Proc -> Locals] /\ task[o] \in Locals
  BY DEF TaskTypes
<1> USE DEF Locals
<1>1. ASSUME SumPayments(o) PROVE Goal
  BY <1>0, <1>1 DEF SumPayments
<1>9. ASSUME SumManual(o) \/ SumInvoices(o) PROVE Goal
  BY <1>0, <1>9 DEF SumManual, SumInvoices
<1>2. ASSUME ReadPaid(o, "credits") \/ Suspend(o) \/ ListSuspended(o) PROVE Goal
  BY <1>0, <1>2 DEF ReadPaid, Suspend, ListSuspended
<1>3. ASSUME Classify(o) PROVE Goal
  BY <1>0, <1>3 DEF Classify
<1>4. ASSUME EndReconcile(o) PROVE Goal
  BY <1>0, <1>4 DEF EndReconcile, Rest
<1>5. ASSUME NEW u \in User, ListInvoices(o, u) PROVE Goal
  BY <1>0, <1>5 DEF ListInvoices
<1>6. ASSUME NEW u \in User, Restore(o, u) PROVE Goal
  BY <1>0, <1>6 DEF Restore, At
<1>7. ASSUME NEW q \in Period, Remind(o, q) PROVE Goal
  BY <1>0, <1>7 DEF Remind, AfterReminders, At
<1>8. ASSUME AccessFails(o) PROVE Goal
  BY <1>0, <1>8 DEF AccessFails, At
<1> QED
  BY <1>1, <1>2, <1>3, <1>4, <1>5, <1>6, <1>7, <1>8, <1>9 DEF Reconcile

\* Where the pass of the loop stands after a step.
LEMMA PassSteps ==
  ASSUME WorldTypes, BookTypes, TaskTypes, Next
  PROVE  \/ task'[Loop] = task[Loop] /\ UNCHANGED invoices
         \/ ~Passing'
         \/ StartPass
         \/ ReadTerms \/ \E u \in User : SkipUser(u)
         \/ \E u \in User, fee \in Fee : BillUser(u, fee)
         \/ ReadNetwork \/ AllocateAddress \/ FindAddress \/ InsertInvoice
<1>0. Loop \in Proc /\ task \in [Proc -> Locals] /\ Loop \notin Call
  BY BillingAssumption DEF Proc, TaskTypes
<1>1. CASE World
  BY <1>1, WorldWrites
<1>2. CASE Aborts
  <2>1. task'[Loop] = task[Loop] \/ task'[Loop].pc \in {"idle", "done"}
    BY <1>0, <1>2, AbortWrites DEF Rest
  <2>2. UNCHANGED invoices
    BY <1>2, AbortWrites DEF books
  <2> QED
    BY <2>1, <2>2 DEF Passing, At, Issuing, IssueSteps
<1>3. ASSUME NEW o \in Proc, Own(o), o # Loop
      PROVE  task'[Loop] = task[Loop] /\ UNCHANGED invoices
  <2>1. Alone(o)
    BY <1>3, OwnFits
  <2> QED
    BY <1>0, <1>3, <2>1, OwnWrites DEF Alone, Writes
<1>4. ASSUME Own(Loop), ~Issue PROVE ~Passing'
  <2>1. CASE Check \/ AskFails
    <3>1. task'[Loop].pc \in {"idle", "poll", "ask", "record"}
      <4>1. ASSUME ReadTargets PROVE task'[Loop].pc \in {"idle", "poll", "ask", "record"}
        BY <1>0, <4>1 DEF ReadTargets, Rest, Locals
      <4>2. ASSUME Ask PROVE task'[Loop].pc \in {"idle", "poll", "ask", "record"}
        BY <1>0, <4>2 DEF Ask, Locals
      <4>3. ASSUME SetChecked \/ AskFails PROVE task'[Loop].pc \in {"idle", "poll", "ask", "record"}
        BY <1>0, <4>3 DEF SetChecked, AskFails, NextAddress, Locals
      <4>4. ASSUME NEW u \in User, NEW n \in Network, ReadAssets(u, n)
            PROVE  task'[Loop].pc \in {"idle", "poll", "ask", "record"}
        BY <1>0, <4>4 DEF ReadAssets, Locals
      <4>5. ASSUME NEW t \in Tx, Record(t) PROVE task'[Loop].pc \in {"idle", "poll", "ask", "record"}
        BY <1>0, <4>5 DEF Record, At, Locals
      <4> QED
        BY <2>1, <4>1, <4>2, <4>3, <4>4, <4>5 DEF Check
    <3> QED
      BY <3>1 DEF Passing, At, Issuing, IssueSteps
  <2>2. CASE Reconcile(Loop) \/ AccessFails(Loop)
    BY <1>0, <2>2, ReconcilePc DEF Passing, At, Issuing, IssueSteps
  <2> QED
    BY <1>0, <1>4, <2>1, <2>2 DEF Own
<1> QED
  BY <1>0, <1>1, <1>2, <1>3, <1>4, NextKinds DEF Issue

\* Where a call goes, beside its reconciliation.
LEMMA CallPc ==
  ASSUME TaskTypes, NEW o \in Call, Calls(o) \/ Answers(o), ~Reconcile(o)
  PROVE  task'[o].pc \in {"balances", "choose", "chooseManual", "debt", "move", "done"}
<1> DEFINE Goal == task'[o].pc \in {"balances", "choose", "chooseManual", "debt", "move", "done"}
<1>0. o \in Proc /\ task \in [Proc -> Locals] /\ task[o] \in Locals
  BY DEF TaskTypes, Proc
<1> USE DEF Locals
<1>1. ASSUME NEW u \in User, NEW q \in Period, NEW value, ConfirmManually(o, u, q, value) PROVE Goal
  BY <1>0, <1>1 DEF ConfirmManually
<1>2. ASSUME NEW u \in User, NEW n \in Network, ChooseNetwork(o, u, n) PROVE Goal
  BY <1>0, <1>2 DEF ChooseNetwork
<1>3. ASSUME ReadPaid(o, "chooseManual") \/ ReadManual(o) PROVE Goal
  BY <1>0, <1>3 DEF ReadPaid, ReadManual
<1>4. ASSUME ReadDebt(o) PROVE Goal
  BY <1>0, <1>4 DEF ReadDebt, Rest
<1>5. ASSUME SetNetwork(o) PROVE Goal
  BY <1>0, <1>5 DEF SetNetwork, Rest
<1> QED
  BY <1>1, <1>2, <1>3, <1>4, <1>5 DEF Calls, Answers

\* A task moves in its own steps, or when it is aborted.
LEMMA OthersStay ==
  ASSUME WorldTypes, BookTypes, TaskTypes, Next, NEW p \in Proc
  PROVE  \/ task'[p] = task[p]
         \/ Own(p)
         \/ task'[p] \in {Rest("idle"), Rest("done")} /\ UNCHANGED <<env, store, books, letters>>
<1>1. CASE World
  BY <1>1, WorldWrites
<1>2. CASE Aborts
  BY <1>2, AbortWrites
<1>3. ASSUME NEW o \in Proc, Own(o), o # p PROVE task'[p] = task[p]
  BY <1>3, OwnFits DEF Alone, TaskTypes
<1> QED
  BY <1>1, <1>2, <1>3, NextKinds

\* The insertion of an invoice adds one period, later than all that are billed.
LEMMA InsertAdds ==
  ASSUME WorldTypes, BookTypes, TaskTypes, NewestFirst, InsertInvoice
  PROVE  LET l == task[Loop]  q == DuePeriod(l.moment) IN
         /\ l.user \in User /\ q \in Period \ Billed(l.user)
         /\ invoices'[l.user][q] = [amount |-> l.num, due |-> l.moment + DueIn, net |-> l.net]
         /\ now <= l.moment + DueIn
         /\ \A u \in User : Billed(u)' = Billed(u) \cup (IF u = l.user THEN {q} ELSE {})
         /\ \A u \in User, r \in Period : u # l.user \/ r # q => invoices'[u][r] = invoices[u][r]
         /\ \A r \in Billed(l.user) : r < q
<1> DEFINE l == task[Loop]
           q == DuePeriod(l.moment)
           row == [amount |-> l.num, due |-> l.moment + DueIn, net |-> l.net]
<1>0. /\ Loop \in Proc /\ l \in Locals /\ Fit(l, now) /\ now \in Nat /\ l.moment \in Nat
      /\ At(Loop, "insert") /\ invoices' = [invoices EXCEPT ![l.user][q] = row]
  BY PaymentsAssumption DEF InsertInvoice, WorldTypes, TaskTypes, Proc, Locals
<1>1. l.user \in User /\ l.num \in Fee /\ l.net \in Network /\ now - l.moment <= PassTime
  BY <1>0 DEF At, Fit, UserSteps, IssueSteps, NetworkSteps
<1>2. q \in Period \ Billed(l.user) /\ Passing
  BY <1>0 DEF NewestFirst, Issuing, IssueSteps, At, Passing
<1>3. now <= l.moment + DueIn /\ l.moment + DueIn \in Nat
  BY <1>0, <1>1, BillingAssumption
<1>4. row # NoInvoice
  <2>1. l.num \in Nat
    BY <1>1, BillingAssumption
  <2>2. row \in [amount : Nat, due : Nat, net : Network]
    BY <1>1, <1>3, <2>1
  <2> QED
    BY <2>2, BillingAssumption
<1>5. \A u \in User, r \in Period :
        invoices'[u][r] = IF u = l.user /\ r = q THEN row ELSE invoices[u][r]
  <2> HIDE DEF l, q, row
  <2> QED
    BY <1>0, <1>1, <1>2 DEF BookTypes
<1>6. \A u \in User : Billed(u)' = Billed(u) \cup (IF u = l.user THEN {q} ELSE {})
  <2> HIDE DEF l, q, row
  <2> QED
    BY <1>1, <1>2, <1>4, <1>5 DEF Billed
<1>7. \A r \in Billed(l.user) : r < q
  <2> SUFFICES ASSUME NEW r \in Billed(l.user) PROVE r < q
    OBVIOUS
  <2>1. r <= q /\ r # q /\ r \in Nat /\ q \in Nat
    BY <1>1, <1>2, PeriodIsFinite DEF NewestFirst, Billed
  <2> HIDE DEF q
  <2> QED
    BY <2>1
<1> HIDE DEF row
<1>8. invoices'[l.user][q] = row
  BY <1>1, <1>2, <1>5
<1>9. \A u \in User, r \in Period : u # l.user \/ r # q => invoices'[u][r] = invoices[u][r]
  BY <1>5
<1> QED
  BY <1>1, <1>2, <1>3, <1>6, <1>7, <1>8, <1>9 DEF row

\* The invoice about to be issued stays the newest.
LEMMA NewestFirstStep ==
  ASSUME WorldTypes, BookTypes, TaskTypes, NewestFirst, Next
  PROVE  NewestFirst'
<1> DEFINE l == task[Loop]
<1>0. /\ Loop \in Proc /\ task \in [Proc -> Locals] /\ l \in Locals /\ Fit(l, now)
      /\ now \in Nat /\ l.moment \in Nat /\ l.moment <= now
  BY PaymentsAssumption DEF WorldTypes, TaskTypes, Proc, Locals, Fit
<1>1. now' \in Nat /\ now <= now' /\ (now' = now \/ Tick)
  <2>1. UNCHANGED now \/ Tick
    BY NextWrites
  <2> QED
    BY <1>0, <2>1 DEF Tick
<1>2. DuePeriod(now) <= DuePeriod(now') /\ DuePeriod(l.moment) <= DuePeriod(now)
      /\ DuePeriod(now) \in Int /\ DuePeriod(now') \in Int /\ DuePeriod(l.moment) \in Int
  BY <1>0, <1>1, DivGrows
<1>3. ASSUME NEW u \in User, NEW q \in Billed(u)' PROVE q <= DuePeriod(now') /\ q \in Nat
  <2>1. CASE UNCHANGED invoices
    <3>1. q \in Billed(u) /\ q \in Nat
      BY <2>1, PeriodIsFinite DEF Billed
    <3>2. q <= DuePeriod(now)
      BY <3>1 DEF NewestFirst
    <3> QED
      BY <1>2, <3>1, <3>2
  <2>2. CASE InsertInvoice
    <3>1. q \in Billed(u) \/ q = DuePeriod(l.moment)
      BY <2>2, InsertAdds
    <3>2. q <= DuePeriod(now) /\ q \in Nat
      BY <1>2, <3>1, PeriodIsFinite DEF NewestFirst, Billed
    <3> QED
      BY <1>2, <3>2
  <2> QED
    BY <2>1, <2>2, NextWrites
<1>4. ASSUME NEW u \in User, NEW q \in Billed(u)', Passing' PROVE q <= DuePeriod(task'[Loop].moment)
  <2>1. CASE task'[Loop].moment = l.moment /\ UNCHANGED invoices /\ Passing
    BY <2>1 DEF NewestFirst, Billed
  <2>2. CASE StartPass
    <3>1. task'[Loop].moment = now /\ now' = now
      BY <1>0, <2>2 DEF StartPass, env, Locals
    <3> QED
      BY <1>3, <3>1
  <2>3. CASE InsertInvoice
    <3>1. task'[Loop].moment = l.moment
      BY <1>0, <2>3 DEF InsertInvoice, NextUser, Locals
    <3>2. Passing
      BY <2>3 DEF InsertInvoice, At, Passing, Issuing, IssueSteps
    <3>3. q \in Billed(u) \/ q = DuePeriod(l.moment)
      BY <2>3, InsertAdds
    <3> QED
      BY <1>2, <3>1, <3>2, <3>3 DEF NewestFirst
  <2>4. CASE task'[Loop] = task[Loop] /\ UNCHANGED invoices
    <3>1. Passing
      BY <1>4, <2>4 DEF Passing, At, Issuing
    <3> QED
      BY <2>1, <2>4, <3>1
  <2>5. CASE ReadTerms \/ \E v \in User : SkipUser(v) \/ \E fee \in Fee : BillUser(v, fee)
    <3>1. Passing /\ UNCHANGED invoices
      BY <2>5 DEF ReadTerms, SkipUser, BillUser, Passing, At, books
    <3>2. ASSUME ReadTerms PROVE task'[Loop].moment = l.moment
      BY <1>0, <3>2 DEF ReadTerms, Locals
    <3>3. ASSUME NEW v \in User, SkipUser(v) PROVE task'[Loop].moment = l.moment
      BY <1>0, <3>3 DEF SkipUser, NextUser, Locals
    <3>4. ASSUME NEW v \in User, NEW fee \in Fee, BillUser(v, fee) PROVE task'[Loop].moment = l.moment
      BY <1>0, <3>4 DEF BillUser, Locals
    <3> QED
      BY <2>1, <2>5, <3>1, <3>2, <3>3, <3>4
  <2>6. CASE ReadNetwork \/ AllocateAddress \/ FindAddress
    <3>1. Passing /\ UNCHANGED invoices
      BY <2>6 DEF ReadNetwork, AllocateAddress, FindAddress, Passing, At, Issuing, IssueSteps, books
    <3>2. task'[Loop].moment = l.moment
      BY <1>0, <2>6 DEF ReadNetwork, AllocateAddress, FindAddress, NextUser, Locals
    <3> QED
      BY <2>1, <3>1, <3>2
  <2> QED
    BY <1>4, <2>2, <2>3, <2>4, <2>5, <2>6, PassSteps
<1>5. ASSUME NEW p \in Proc, Issuing(p)'
      PROVE  p = Loop /\ (DuePeriod(task[p].moment) \in Period \ Billed(task[p].user))'
  <2>1. p = Loop
    <3> SUFFICES ASSUME p # Loop PROVE FALSE
      OBVIOUS
    <3>1. ~Issuing(p)
      BY DEF NewestFirst
    <3>2. CASE task'[p] = task[p]
      BY <1>5, <3>1, <3>2 DEF Issuing
    <3>3. CASE task'[p] # task[p]
      <4>1. Own(p) \/ task'[p] \in {Rest("idle"), Rest("done")}
        BY <3>3, OthersStay
      <4>2. CASE task'[p] \in {Rest("idle"), Rest("done")}
        BY <1>5, <4>2 DEF Rest, Issuing, IssueSteps
      <4>3. CASE Own(p)
        BY <1>5, <4>3, CallPc, ReconcilePc DEF Issuing, IssueSteps, Own
      <4> QED
        BY <4>1, <4>2, <4>3
    <3> QED
      BY <3>2, <3>3
  <2>2. Issuing(Loop)'
    BY <1>5, <2>1
  <2>3. CASE task'[Loop] = task[Loop] /\ UNCHANGED invoices
    BY <2>1, <2>2, <2>3 DEF NewestFirst, Issuing, Billed
  <2>4. CASE \E v \in User, fee \in Fee : BillUser(v, fee)
    <3>1. PICK v \in User, fee \in Fee : BillUser(v, fee)
      BY <2>4
    <3>2. task'[Loop].moment = l.moment /\ task'[Loop].user = v /\ UNCHANGED invoices
      BY <1>0, <3>1 DEF BillUser, Locals, books
    <3> QED
      BY <2>1, <3>1, <3>2 DEF BillUser, Billed
  <2>5. CASE ReadNetwork \/ AllocateAddress
    <3>1. Issuing(Loop) /\ UNCHANGED invoices
      BY <2>5 DEF ReadNetwork, AllocateAddress, At, Issuing, IssueSteps, books
    <3>2. task'[Loop].moment = l.moment /\ task'[Loop].user = l.user
      BY <1>0, <2>5 DEF ReadNetwork, AllocateAddress, Locals
    <3> QED
      BY <1>0, <2>1, <3>1, <3>2 DEF NewestFirst, Billed
  <2>6. CASE FindAddress
    <3>1. Issuing(Loop) /\ UNCHANGED invoices
      BY <2>6 DEF FindAddress, At, Issuing, IssueSteps, books
    <3>2. task'[Loop].pc # "issue"
      BY <2>2 DEF Issuing, IssueSteps
    <3>3. task'[Loop].moment = l.moment /\ task'[Loop].user = l.user
      BY <1>0, <2>6, <3>2 DEF FindAddress, NextUser, Locals
    <3> QED
      BY <1>0, <2>1, <3>1, <3>3 DEF NewestFirst, Billed
  <2>7. CASE StartPass \/ ReadTerms \/ InsertInvoice \/ \E v \in User : SkipUser(v)
    <3>1. ASSUME StartPass \/ ReadTerms PROVE task'[Loop].pc \in {"terms", "issue", "balances"}
      BY <1>0, <3>1 DEF StartPass, ReadTerms, Locals
    <3>2. ASSUME InsertInvoice PROVE task'[Loop].pc = "issue"
      BY <1>0, <3>2 DEF InsertInvoice, NextUser, Locals
    <3>3. ASSUME NEW v \in User, SkipUser(v) PROVE task'[Loop].pc = "issue"
      BY <1>0, <3>3 DEF SkipUser, NextUser, Locals
    <3> QED
      BY <2>2, <2>7, <3>1, <3>2, <3>3 DEF Issuing, IssueSteps
  <2> QED
    BY <2>2, <2>3, <2>4, <2>5, <2>6, <2>7, PassSteps DEF Passing
<1> QED
  BY <1>3, <1>4, <1>5 DEF NewestFirst

(***************************************************************************)
(* Addresses and reminders.                                                *)
(***************************************************************************)
\* How the loop comes to where it is: the steps that lead to an address or an answer.
LEMMA LoopSteps ==
  ASSUME WorldTypes, BookTypes, TaskTypes, Next
  PROVE  \/ task'[Loop] = task[Loop] /\ UNCHANGED <<invoices, address, payments>>
         \/ task'[Loop].pc \notin {"allocate", "insert", "ask", "record"}
         \/ FindAddress \/ AllocateAddress \/ (\E u \in User, n \in Network : ReadAssets(u, n))
         \/ Ask \/ \E t \in Tx : Record(t)
<1> DEFINE Away == task'[Loop].pc \notin {"allocate", "insert", "ask", "record"}
<1>0. Loop \in Proc /\ task \in [Proc -> Locals] /\ Loop \notin Call
  BY BillingAssumption DEF Proc, TaskTypes
<1>1. CASE World
  BY <1>1, WorldWrites DEF store
<1>2. CASE Aborts
  <2>1. task'[Loop] = task[Loop] \/ task'[Loop].pc \in {"idle", "done"}
    BY <1>0, <1>2, AbortWrites DEF Rest
  <2>2. UNCHANGED <<invoices, address, payments>>
    BY <1>2, AbortWrites DEF books, store
  <2> QED
    BY <2>1, <2>2
<1>3. ASSUME NEW o \in Proc, Own(o), o # Loop
      PROVE  task'[Loop] = task[Loop] /\ UNCHANGED <<invoices, address, payments>>
  <2>1. Alone(o)
    BY <1>3, OwnFits
  <2> QED
    BY <1>0, <1>3, <2>1, OwnWrites DEF Alone, Writes
<1>4. ASSUME Reconcile(Loop) \/ AccessFails(Loop) PROVE Away
  BY <1>0, <1>4, ReconcilePc
<1>5. ASSUME StartPass \/ ReadTerms \/ ReadNetwork PROVE Away
  BY <1>0, <1>5 DEF StartPass, ReadTerms, ReadNetwork, Locals
<1>6. ASSUME InsertInvoice PROVE Away
  BY <1>0, <1>6 DEF InsertInvoice, NextUser, Locals
<1>7. ASSUME NEW u \in User, SkipUser(u) PROVE Away
  BY <1>0, <1>7 DEF SkipUser, NextUser, Locals
<1>8. ASSUME NEW u \in User, NEW fee \in Fee, BillUser(u, fee) PROVE Away
  BY <1>0, <1>8 DEF BillUser, Locals
<1>9. ASSUME ReadTargets PROVE Away
  BY <1>0, <1>9 DEF ReadTargets, Rest, Locals
<1>10. ASSUME SetChecked \/ AskFails PROVE Away
  BY <1>0, <1>10 DEF SetChecked, AskFails, NextAddress, Locals
<1> QED
  BY <1>0, <1>1, <1>2, <1>3, <1>4, <1>5, <1>6, <1>7, <1>8, <1>9, <1>10, NextKinds DEF Own, Issue, Check

\* An address is never given up.
LEMMA AddressStays ==
  ASSUME WorldTypes, BookTypes, TaskTypes, Next, NEW u \in User, NEW n \in Network,
         address[u][n] # NoAddress
  PROVE  address'[u][n] # NoAddress
<1>1. CASE AllocateAddress
  BY <1>1, PaymentsAssumption DEF AllocateAddress, BookTypes
<1>2. CASE SetChecked
  <2>1. task[Loop].moment \in Nat
    BY PaymentsAssumption DEF TaskTypes, Proc, Locals
  <2> QED
    BY <1>2, <2>1, PaymentsAssumption DEF SetChecked, Checked, BookTypes
<1> QED
  BY <1>1, <1>2, NextWrites

\* Addresses come before invoices and money, and stay.
LEMMA AddressedStep ==
  ASSUME WorldTypes, BookTypes, TaskTypes, NewestFirst, Addressed, Next
  PROVE  Addressed'
<1> DEFINE l == task[Loop]
<1>0. Loop \in Proc /\ task \in [Proc -> Locals] /\ l \in Locals /\ Fit(l, now)
  BY DEF TaskTypes, Proc
<1>1. ASSUME At(Loop, "allocate")'
      PROVE  (address[task[Loop].user][task[Loop].net] = NoAddress)'
  <2>1. CASE task'[Loop] = task[Loop] /\ UNCHANGED address
    BY <1>1, <2>1 DEF Addressed, At
  <2>2. CASE FindAddress
    <3>1. l.net \in Network /\ l.user \in User /\ UNCHANGED address
      BY <1>0, <2>2 DEF FindAddress, At, Fit, UserSteps, NetworkSteps, IssueSteps, store
    <3>2. Found(l.user, l.net) = "allocate" /\ task'[Loop].user = l.user /\ task'[Loop].net = l.net
      BY <1>0, <1>1, <2>2 DEF FindAddress, NextUser, At, Locals
    <3> QED
      BY <3>1, <3>2 DEF Found
  <2>3. CASE AllocateAddress \/ Ask
    BY <1>0, <1>1, <2>3 DEF AllocateAddress, Ask, At, Locals
  <2>4. CASE \E u \in User, n \in Network : ReadAssets(u, n)
    BY <1>0, <1>1, <2>4 DEF ReadAssets, At, Locals
  <2>5. CASE \E t \in Tx : Record(t)
    BY <1>0, <1>1, <2>5 DEF Record, At, Locals
  <2> QED
    BY <1>1, <2>1, <2>2, <2>3, <2>4, <2>5, LoopSteps DEF At
<1>2. ASSUME At(Loop, "insert")'
      PROVE  (address[task[Loop].user][task[Loop].net] # NoAddress)'
  <2>1. CASE task'[Loop] = task[Loop] /\ UNCHANGED address
    BY <1>2, <2>1 DEF Addressed, At
  <2>2. CASE FindAddress
    <3>1. l.net \in Network /\ l.user \in User /\ UNCHANGED address
      BY <1>0, <2>2 DEF FindAddress, At, Fit, UserSteps, NetworkSteps, IssueSteps, store
    <3>2. Found(l.user, l.net) = "insert" /\ task'[Loop].user = l.user /\ task'[Loop].net = l.net
      BY <1>0, <1>2, <2>2 DEF FindAddress, NextUser, At, Locals
    <3> QED
      BY <3>1, <3>2 DEF Found
  <2>3. CASE AllocateAddress
    <3>1. l.net \in Network /\ l.user \in User
      BY <1>0, <2>3 DEF AllocateAddress, At, Fit, UserSteps, NetworkSteps, IssueSteps
    <3>2. task'[Loop].user = l.user /\ task'[Loop].net = l.net
      BY <1>0, <2>3 DEF AllocateAddress, Locals
    <3> QED
      BY <2>3, <3>1, <3>2, PaymentsAssumption DEF AllocateAddress, BookTypes
  <2>4. CASE \E u \in User, n \in Network : ReadAssets(u, n)
    BY <1>0, <1>2, <2>4 DEF ReadAssets, At, Locals
  <2>5. CASE \E t \in Tx : Record(t)
    BY <1>0, <1>2, <2>5 DEF Record, At, Locals
  <2>6. CASE Ask
    BY <1>0, <1>2, <2>6 DEF Ask, At, Locals
  <2> QED
    BY <1>2, <2>1, <2>2, <2>3, <2>4, <2>5, <2>6, LoopSteps DEF At
<1>3. ASSUME NEW t \in Tx, Sent(t)'
      PROVE  (address[sent[t].user][sent[t].net] # NoAddress)'
  <2>1. CASE UNCHANGED sent
    <3>1. Sent(t) /\ sent[t].user \in User /\ sent[t].net \in Network
      BY <1>3, <2>1 DEF Sent, WorldTypes, Transfer
    <3> QED
      BY <2>1, <3>1, AddressStays DEF Addressed
  <2>2. ASSUME NEW s \in Tx, NEW u \in User, NEW n \in Network, Pay(s, u, n)
        PROVE  (address[sent[t].user][sent[t].net] # NoAddress)'
    <3>1. CASE s = t
      BY <2>2, <3>1 DEF Pay, store, WorldTypes
    <3>2. CASE s # t
      <4>1. sent'[t] = sent[t] /\ UNCHANGED address
        BY <2>2, <3>2 DEF Pay, store, WorldTypes
      <4> QED
        BY <1>3, <4>1 DEF Addressed, Sent
    <3> QED
      BY <3>1, <3>2
  <2> QED
    BY <2>1, <2>2, NextWrites
<1>4. InvoicesCanBePaid'
  <2> SUFFICES ASSUME NEW u \in User, NEW q \in Billed(u)'
               PROVE  address'[u][invoices'[u][q].net] # NoAddress
    BY DEF InvoicesCanBePaid
  <2>1. CASE UNCHANGED invoices
    <3>1. q \in Billed(u) /\ invoices[u][q].net \in Network
      BY <2>1 DEF Billed, BookTypes, Invoice
    <3> QED
      BY <2>1, <3>1, AddressStays DEF Addressed, InvoicesCanBePaid
  <2>2. CASE InsertInvoice
    <3>1. l.net \in Network /\ l.user \in User /\ address[l.user][l.net] # NoAddress /\ UNCHANGED address
      BY <1>0, <2>2 DEF InsertInvoice, At, Fit, UserSteps, NetworkSteps, IssueSteps, Addressed, store
    <3>2. CASE u = l.user /\ q = DuePeriod(l.moment)
      BY <2>2, <3>1, <3>2, InsertAdds
    <3>3. CASE ~(u = l.user /\ q = DuePeriod(l.moment))
      <4>1. q \in Billed(u) /\ q \in Period
        BY <2>2, <3>3, InsertAdds DEF Billed
      <4>2. invoices'[u][q] = invoices[u][q]
        BY <2>2, <3>3, <4>1, InsertAdds
      <4> QED
        BY <3>1, <4>1, <4>2 DEF Addressed, InvoicesCanBePaid
    <3> QED
      BY <3>2, <3>3
  <2> QED
    BY <2>1, <2>2, NextWrites
<1>5. ASSUME NEW u \in User, NEW n \in Network, address'[u][n] \in Nat
      PROVE  address'[u][n] <= now'
  <2>1. now \in Nat /\ now' \in Nat /\ now <= now'
    BY NextWrites, PaymentsAssumption DEF WorldTypes, Tick
  <2>2. CASE address'[u][n] = address[u][n]
    BY <1>5, <2>1, <2>2 DEF Addressed
  <2>3. CASE AllocateAddress
    BY <1>5, <2>1, <2>3, PaymentsAssumption DEF AllocateAddress, BookTypes, Addressed
  <2>4. CASE SetChecked
    <3>1. address'[u][n] = address[u][n] \/ address'[u][n] = l.moment
      BY <2>4 DEF SetChecked, Checked, BookTypes
    <3>2. l.moment <= now /\ l.moment \in Nat
      BY <1>0, PaymentsAssumption DEF Fit, Locals
    <3> QED
      BY <2>1, <2>2, <3>1, <3>2
  <2> QED
    BY <2>2, <2>3, <2>4, NextWrites
<1> QED
  BY <1>1, <1>2, <1>3, <1>4, <1>5 DEF Addressed

\* A letter goes exactly with the notice that claims it.
LEMMA RemindedStep ==
  ASSUME WorldTypes, BookTypes, TaskTypes, Reminded, Next
  PROVE  Reminded'
<1>1. ASSUME NEW o \in Proc, NEW q \in Period, Remind(o, q) PROVE Reminded'
  <2>1. task[o].user \in User
    BY <1>1 DEF Remind, At, Fit, UserSteps, TaskTypes
  <2>2. /\ notices' = notices \cup {<<task[o].user, q>>}
        /\ letters' = [letters EXCEPT ![task[o].user][q] =
               IF <<task[o].user, q>> \notin notices THEN @ + 1 ELSE @]
    BY <1>1 DEF Remind, Claimed
  <2> SUFFICES ASSUME NEW u \in User, NEW r \in Period
               PROVE  letters'[u][r] = IF <<u, r>> \in notices' THEN 1 ELSE 0
    BY DEF Reminded
  <2>3. letters[u][r] = IF <<u, r>> \in notices THEN 1 ELSE 0
    BY DEF Reminded
  <2>4. <<u, r>> \in notices' <=> <<u, r>> \in notices \/ (u = task[o].user /\ r = q)
    BY <2>2
  <2>5. CASE u = task[o].user /\ r = q
    <3>1. letters'[u][r] = IF <<u, r>> \notin notices THEN letters[u][r] + 1 ELSE letters[u][r]
      BY <2>1, <2>2, <2>5 DEF BookTypes
    <3> QED
      BY <2>3, <2>4, <2>5, <3>1
  <2>6. CASE ~(u = task[o].user /\ r = q)
    <3>1. letters'[u][r] = letters[u][r]
      BY <2>1, <2>2, <2>6 DEF BookTypes
    <3> QED
      BY <2>3, <2>4, <2>6, <3>1
  <2> QED
    BY <2>5, <2>6
<1>2. (notices' = notices /\ letters' = letters) \/ \E o \in Proc, q \in Period : Remind(o, q)
  BY NextWrites
<1>3. CASE notices' = notices /\ letters' = letters
  BY <1>3 DEF Reminded
<1> QED
  BY <1>1, <1>2, <1>3

(***************************************************************************)
(* Payments.                                                               *)
(***************************************************************************)
\* A payment is recorded once, at what was shown when it was read, or topped up.
LEMMA RecordSays ==
  ASSUME WorldTypes, BookTypes, TaskTypes, NEW t \in Tx, Record(t)
  PROVE  LET a == task[Loop].answer[t]
             v == IF task[Loop].isPayment THEN a ELSE 0 IN
         /\ At(Loop, "record") /\ a \in Nat /\ a > 0 /\ v \in Nat
         /\ \A s \in Tx \ {t} : payments'[s] = payments[s]
         /\ payments'[t] = (IF payments[t] = NoPayment \/ payments[t].amount < a
                            THEN [amount |-> a, value |-> v] ELSE payments[t])
         /\ [amount |-> a, value |-> v] # NoPayment
         /\ task' = [task EXCEPT ![Loop].answer[t] = 0]
         /\ UNCHANGED <<now, sent, shown, accepted, address>>
<1> DEFINE a == task[Loop].answer[t]
           v == IF task[Loop].isPayment THEN a ELSE 0
<1>1. At(Loop, "record") /\ a > 0 /\ task' = [task EXCEPT ![Loop].answer[t] = 0]
      /\ UNCHANGED <<now, sent, shown, accepted, address>> /\ payments' = Recorded(t, a, v)
  BY DEF Record, RecordTransfer, env, chain
<1>2. a \in Nat /\ v \in Nat
  BY DEF TaskTypes, Proc, Locals
<1> HIDE DEF a, v
<1>3. [amount |-> a, value |-> v] # NoPayment
  <2>1. [amount |-> a, value |-> v] \in [amount : Nat, value : Nat]
    BY <1>2
  <2> QED
    BY <2>1, PaymentsAssumption
<1>4. /\ \A s \in Tx \ {t} : payments'[s] = payments[s]
      /\ payments'[t] = (IF payments[t] = NoPayment \/ payments[t].amount < a
                         THEN [amount |-> a, value |-> v] ELSE payments[t])
  BY <1>1 DEF Recorded, BookTypes
<1> QED
  BY <1>1, <1>2, <1>3, <1>4 DEF a, v

\* Where the answer that is being recorded comes from.
LEMMA RecordingSteps ==
  ASSUME WorldTypes, BookTypes, TaskTypes, Next, At(Loop, "record")'
  PROVE  \/ task'[Loop] = task[Loop] /\ UNCHANGED <<address, payments>>
         \/ Ask
         \/ \E t \in Tx : Record(t)
<1>0. Loop \in Proc /\ task \in [Proc -> Locals]
  BY DEF TaskTypes, Proc
<1>1. ASSUME FindAddress PROVE FALSE
  BY <1>0, <1>1 DEF FindAddress, NextUser, Found, At, Locals
<1>2. ASSUME AllocateAddress PROVE FALSE
  BY <1>0, <1>2 DEF AllocateAddress, At, Locals
<1>3. ASSUME NEW u \in User, NEW n \in Network, ReadAssets(u, n) PROVE FALSE
  BY <1>0, <1>3 DEF ReadAssets, At, Locals
<1> QED
  BY <1>1, <1>2, <1>3, LoopSteps DEF At

\* What the provider answers, and what a recorded transfer leaves of the answer.
LEMMA AskSays ==
  ASSUME WorldTypes, BookTypes, TaskTypes, Ask
  PROVE  LET l == task[Loop] IN
         /\ l.user \in User /\ l.net \in Network
         /\ task'[Loop].user = l.user /\ task'[Loop].net = l.net /\ task'[Loop].moment = l.moment
         /\ task'[Loop].isPayment = l.isPayment
         /\ \A t \in Tx : task'[Loop].answer[t] =
              IF SentTo(t, l.user, l.net) /\ sent[t].at >= Since(address[l.user][l.net]) THEN shown[t] ELSE 0
         /\ UNCHANGED <<now, sent, shown, accepted, address, payments>>
<1>0. Loop \in Proc /\ task \in [Proc -> Locals] /\ Fit(task[Loop], now) /\ At(Loop, "ask")
  BY DEF TaskTypes, Proc, Ask
<1>1. task[Loop].user \in User /\ task[Loop].net \in Network
  BY <1>0 DEF At, Fit, UserSteps, NetworkSteps
<1>2. task'[Loop].answer = Answer(task[Loop].user, task[Loop].net, Since(address[task[Loop].user][task[Loop].net]))
      /\ task'[Loop].user = task[Loop].user /\ task'[Loop].net = task[Loop].net
      /\ task'[Loop].moment = task[Loop].moment /\ task'[Loop].isPayment = task[Loop].isPayment
  BY <1>0 DEF Ask, Locals
<1> QED
  BY <1>1, <1>2 DEF Ask, Answer, env, chain, store

LEMMA RecordMoves ==
  ASSUME WorldTypes, BookTypes, TaskTypes, NEW t \in Tx, Record(t)
  PROVE  /\ task'[Loop].user = task[Loop].user /\ task'[Loop].net = task[Loop].net
         /\ task'[Loop].moment = task[Loop].moment /\ task'[Loop].isPayment = task[Loop].isPayment
         /\ task'[Loop].pc = task[Loop].pc
         /\ task'[Loop].answer[t] = 0
         /\ \A s \in Tx \ {t} : task'[Loop].answer[s] = task[Loop].answer[s]
BY DEF Record, TaskTypes, Proc, Locals

\* What is known of a transaction stays part of what is shown.
LEMMA ShownStep ==
  ASSUME WorldTypes, BookTypes, TaskTypes, Shown, Next
  PROVE  Shown'
<1> DEFINE l == task[Loop]
           Chain(t) ==
             /\ shown[t] <= Parts[t] /\ (~Sent(t) => shown[t] = 0)
             /\ Sent(t) => sent[t].at <= now
             /\ Sent(t) /\ shown[t] < Parts[t] => now <= sent[t].at + Overlap
           Rows(t) == payments[t] # NoPayment => /\ Sent(t) /\ 0 < payments[t].amount
                         /\ payments[t].amount <= shown[t] /\ payments[t].value <= shown[t]
           Heard(t) == At(Loop, "record") =>
              /\ task[Loop].answer[t] <= shown[t]
              /\ task[Loop].answer[t] > 0 => SentTo(t, task[Loop].user, task[Loop].net)
<1>0. \A t \in Tx : /\ Chain(t) /\ Rows(t) /\ Heard(t)
                    /\ shown[t] \in Nat /\ Parts[t] \in Nat /\ shown'[t] \in Nat
  BY PaymentsAssumption, WorldTypesStep DEF Shown, WorldTypes
<1>1. \A t \in Tx : Sent(t) => /\ Sent(t)' /\ sent'[t] = sent[t] /\ sent[t].at \in Nat
                               /\ sent[t].user \in User /\ sent[t].net \in Network
  <2>1. ASSUME NEW t \in Tx, Sent(t), NEW s \in Tx, NEW u \in User, NEW n \in Network, Pay(s, u, n)
        PROVE  sent'[t] = sent[t]
    BY <2>1 DEF Pay, WorldTypes
  <2> QED
    BY <2>1, NextWrites, PaymentsAssumption DEF Sent, WorldTypes, Transfer
<1>2. \A t \in Tx : shown[t] <= shown'[t] /\ shown'[t] <= Parts[t]
  <2>1. ASSUME NEW t \in Tx, NEW s \in Tx, Index(s) PROVE shown[t] <= shown'[t] /\ shown'[t] <= Parts[t]
    BY <1>0, <2>1 DEF Index, WorldTypes
  <2> QED
    BY <1>0, <2>1, NextWrites
<1>3. now \in Nat /\ now' \in Nat /\ Overlap \in Nat /\ (now' = now \/ (Tick /\ now' = now + 1))
  BY NextWrites, PaymentsAssumption DEF WorldTypes, Tick
<1>4. ASSUME NEW t \in Tx PROVE Chain(t)'
  <2>1. CASE Sent(t)
    <3>1. now' = now \/ (shown[t] < Parts[t] => now < sent[t].at + Overlap)
      BY <1>3, <2>1 DEF Tick, IndexInTime
    <3>2. sent[t].at <= now'
      BY <1>0, <1>1, <1>3, <2>1
    <3>3. shown'[t] < Parts[t] => now' <= sent[t].at + Overlap
      <4>1. shown'[t] < Parts[t] => shown[t] < Parts[t]
        BY <1>0, <1>2
      <4> QED
        BY <1>0, <1>1, <1>3, <2>1, <3>1, <4>1 DEF Tick, IndexInTime
    <3> QED
      BY <1>1, <1>2, <2>1, <3>2, <3>3
  <2>2. CASE ~Sent(t)
    <3>1. shown'[t] = 0
      <4>1. ASSUME NEW s \in Tx, Index(s) PROVE shown'[t] = 0
        BY <1>0, <2>2, <4>1 DEF Index, WorldTypes
      <4> QED
        BY <1>0, <2>2, <4>1, NextWrites
    <3>2. Sent(t)' => sent'[t].at = now /\ now' = now
      <4>1. ASSUME NEW s \in Tx, NEW u \in User, NEW n \in Network, Pay(s, u, n), Sent(t)'
            PROVE  sent'[t].at = now /\ now' = now
        BY <2>2, <4>1 DEF Pay, Sent, WorldTypes
      <4>2. sent' = sent \/ \E s \in Tx, u \in User, n \in Network : Pay(s, u, n)
        BY NextWrites
      <4> QED
        BY <2>2, <4>1, <4>2 DEF Sent
    <3> QED
      BY <1>2, <1>3, <3>1, <3>2
  <2> QED
    BY <2>1, <2>2
<1>5. ASSUME NEW t \in Tx PROVE Rows(t)'
  <2>1. CASE payments'[t] = payments[t]
    <3> SUFFICES ASSUME payments[t] # NoPayment PROVE Rows(t)'
      BY <2>1
    <3>1. payments[t].amount \in Nat /\ payments[t].value \in Nat
      BY DEF BookTypes, Payment
    <3> QED
      BY <1>0, <1>1, <1>2, <2>1, <3>1
  <2>2. CASE payments'[t] # payments[t]
    <3>1. PICK s \in Tx : Record(s)
      BY <2>2, NextWrites
    <3>2. s = t
      BY <2>2, <3>1, RecordSays
    <3> DEFINE a == task[Loop].answer[t]
               v == IF task[Loop].isPayment THEN a ELSE 0
    <3>3. /\ At(Loop, "record") /\ a \in Nat /\ a > 0 /\ v \in Nat
          /\ payments'[t] = [amount |-> a, value |-> v] /\ UNCHANGED <<sent, shown>>
      BY <2>2, <3>1, <3>2, RecordSays
    <3>4. a <= shown[t] /\ Sent(t)
      BY <1>0, <3>3 DEF SentTo
    <3>5. v <= a
      BY <3>3
    <3>6. payments'[t].amount = a /\ payments'[t].value = v
      BY <3>3
    <3>7. Sent(t)' /\ shown'[t] = shown[t]
      BY <3>3, <3>4 DEF Sent
    <3> HIDE DEF a, v
    <3> QED
      BY <1>0, <3>3, <3>4, <3>5, <3>6, <3>7
  <2> QED
    BY <2>1, <2>2
<1>6. ASSUME NEW t \in Tx PROVE Heard(t)'
  <2> SUFFICES ASSUME At(Loop, "record")'
               PROVE  /\ task'[Loop].answer[t] <= shown'[t]
                      /\ task'[Loop].answer[t] > 0 => SentTo(t, task[Loop].user, task[Loop].net)'
    OBVIOUS
  <2>0. task[Loop].answer[t] \in Nat
    BY DEF TaskTypes, Proc, Locals
  <2>1. CASE task'[Loop] = task[Loop]
    <3>1. At(Loop, "record")
      BY <2>1 DEF At
    <3>2. task[Loop].answer[t] > 0 => SentTo(t, task[Loop].user, task[Loop].net)'
      BY <1>0, <1>1, <2>1, <3>1 DEF SentTo
    <3> QED
      BY <1>0, <1>2, <2>0, <2>1, <3>1, <3>2
  <2>2. CASE Ask
    <3>1. task'[Loop].answer[t] \in {0, shown[t]} /\ shown' = shown /\ sent' = sent
      BY <2>2, AskSays
    <3>2. task'[Loop].answer[t] > 0 => SentTo(t, task'[Loop].user, task'[Loop].net)
      BY <1>0, <2>2, AskSays
    <3> QED
      BY <1>0, <3>1, <3>2 DEF SentTo, Sent
  <2>3. ASSUME NEW s \in Tx, Record(s)
        PROVE  /\ task'[Loop].answer[t] <= shown'[t]
               /\ task'[Loop].answer[t] > 0 => SentTo(t, task[Loop].user, task[Loop].net)'
    <3>1. /\ task'[Loop].answer[t] \in {0, task[Loop].answer[t]} /\ At(Loop, "record")
          /\ task'[Loop].user = task[Loop].user /\ task'[Loop].net = task[Loop].net
          /\ UNCHANGED <<sent, shown>>
      BY <2>3, RecordSays, RecordMoves
    <3> QED
      BY <1>0, <2>0, <3>1 DEF SentTo, Sent
  <2> QED
    BY <2>1, <2>2, <2>3, RecordingSteps
<1> QED
  BY <1>4, <1>5, <1>6 DEF Shown

\* What is recorded in full stays so.
LEMMA FullyStays ==
  ASSUME WorldTypes, BookTypes, TaskTypes, Shown, Next, NEW t \in Tx, Fully(t)
  PROVE  Fully(t)'
<1>1. payments[t].amount = Parts[t] /\ Parts[t] \in Nat /\ payments[t] # NoPayment /\ shown[t] <= Parts[t]
  BY PaymentsAssumption DEF Fully, Shown
<1>2. ASSUME NEW s \in Tx, Record(s) PROVE payments'[t] = payments[t]
  <2>1. CASE s = t
    <3> DEFINE a == task[Loop].answer[t]
    <3>1. At(Loop, "record") /\ a \in Nat
          /\ (~(payments[t] = NoPayment \/ payments[t].amount < a) => payments'[t] = payments[t])
      BY <1>2, <2>1, RecordSays
    <3>2. a <= shown[t] /\ shown[t] \in Nat
      BY <3>1 DEF Shown, WorldTypes
    <3> HIDE DEF a
    <3> QED
      BY <1>1, <3>1, <3>2
  <2>2. CASE s # t
    BY <1>2, <2>2, RecordSays
  <2> QED
    BY <2>1, <2>2
<1> QED
  BY <1>1, <1>2, NextWrites DEF Fully

\* What the payer has sent does not change.
LEMMA SentStays ==
  ASSUME WorldTypes, BookTypes, TaskTypes, Next, NEW t \in Tx
  PROVE  \/ sent'[t] = sent[t]
         \/ /\ ~Sent(t) /\ sent'[t].at = now /\ now' = now
            /\ UNCHANGED <<shown, accepted, store, task>>
<1>1. ASSUME NEW s \in Tx, NEW u \in User, NEW n \in Network, Pay(s, u, n), s # t
      PROVE  sent'[t] = sent[t]
  BY <1>1 DEF Pay, WorldTypes
<1>2. ASSUME NEW u \in User, NEW n \in Network, Pay(t, u, n)
      PROVE  ~Sent(t) /\ sent'[t].at = now /\ now' = now /\ UNCHANGED <<shown, accepted, store>>
  BY <1>2 DEF Pay, WorldTypes
<1>3. ASSUME sent' # sent PROVE UNCHANGED task
  BY <1>3, NextKinds, OwnWrites, AbortWrites, WorldWrites DEF Writes, env, chain
<1>4. sent' = sent \/ \E s \in Tx, u \in User, n \in Network : Pay(s, u, n)
  BY NextWrites
<1> QED
  BY <1>1, <1>2, <1>3, <1>4

\* Everything that was sent more than the overlap ago is shown.
LEMMA OldIsShown ==
  ASSUME WorldTypes, Shown, NEW t \in Tx, Sent(t), NEW m \in Nat, m <= now, sent[t].at < m - Overlap
  PROVE  shown[t] = Parts[t]
<1>1. /\ shown[t] \in Nat /\ Parts[t] \in Nat /\ Overlap \in Nat /\ now \in Nat /\ sent[t].at \in Nat
      /\ shown[t] <= Parts[t] /\ (shown[t] < Parts[t] => now <= sent[t].at + Overlap)
  BY PaymentsAssumption DEF WorldTypes, Shown, Sent, Transfer
<1> QED
  BY <1>1

\* The cursor moves only over what is recorded.
LEMMA AnsweredStep ==
  ASSUME WorldTypes, BookTypes, TaskTypes, Shown, Answered, PaymentsAreRecorded, Addressed, Next
  PROVE  Answered'
<1> SUFFICES ASSUME At(Loop, "record")', NEW t \in Tx,
                    SentTo(t, task[Loop].user, task[Loop].net)',
                    sent'[t].at < task'[Loop].moment - Overlap
             PROVE  Fully(t)' \/ task'[Loop].answer[t] = Parts[t]
  BY DEF Answered
<1>0. /\ Overlap \in Nat /\ now \in Nat /\ task[Loop].moment \in Nat /\ task[Loop].moment <= now
      /\ Parts[t] \in Nat
  BY PaymentsAssumption DEF WorldTypes, TaskTypes, Proc, Locals, Fit
<1>1. task'[Loop].moment = task[Loop].moment
  <2>1. ASSUME NEW s \in Tx, Record(s) PROVE task'[Loop].moment = task[Loop].moment
    BY <2>1, RecordMoves
  <2> QED
    BY <2>1, RecordingSteps, AskSays
<1>2. sent'[t] = sent[t]
  BY <1>0, <1>1, SentStays
<1>3. Sent(t) /\ SentTo(t, task'[Loop].user, task'[Loop].net) /\ sent[t].at < task[Loop].moment - Overlap
  BY <1>1, <1>2 DEF SentTo, Sent
<1>4. CASE task'[Loop] = task[Loop]
  <2>1. Fully(t) \/ task[Loop].answer[t] = Parts[t]
    BY <1>3, <1>4 DEF Answered, At
  <2> QED
    BY <1>4, <2>1, FullyStays
<1>5. CASE Ask
  <2> DEFINE c == address[task[Loop].user][task[Loop].net]
  <2>1. /\ task'[Loop].user = task[Loop].user /\ task'[Loop].net = task[Loop].net
        /\ task[Loop].user \in User /\ task[Loop].net \in Network
        /\ task'[Loop].answer[t] =
              IF SentTo(t, task[Loop].user, task[Loop].net) /\ sent[t].at >= Since(c) THEN shown[t] ELSE 0
    BY <1>5, AskSays
  <2>2. SentTo(t, task[Loop].user, task[Loop].net)
    BY <1>3, <2>1
  <2>3. CASE sent[t].at >= Since(c)
    BY <1>0, <1>3, <2>1, <2>2, <2>3, OldIsShown
  <2>4. CASE ~(sent[t].at >= Since(c))
    <3>1. c = address[sent[t].user][sent[t].net] /\ c # NoAddress /\ c \in {Never} \cup Nat
      BY <2>1, <2>2, PaymentsAssumption DEF SentTo, Addressed, BookTypes
    <3>2. sent[t].at \in Nat
      BY <1>3, PaymentsAssumption DEF Sent, WorldTypes, Transfer
    <3>3. c # Never /\ sent[t].at < c - Overlap
      BY <1>0, <2>4, <3>1, <3>2 DEF Since
    <3>4. Fully(t)
      BY <1>3, <3>1, <3>3 DEF PaymentsAreRecorded, Fully
    <3> QED
      BY <3>4, FullyStays
  <2> QED
    BY <2>3, <2>4
<1>6. ASSUME NEW s \in Tx, Record(s) PROVE Fully(t)' \/ task'[Loop].answer[t] = Parts[t]
  <2>1. At(Loop, "record") /\ SentTo(t, task[Loop].user, task[Loop].net)
    BY <1>3, <1>6, RecordSays, RecordMoves
  <2>2. Fully(t) \/ task[Loop].answer[t] = Parts[t]
    BY <1>3, <2>1 DEF Answered
  <2>3. CASE Fully(t)
    BY <2>3, FullyStays
  <2>4. CASE ~Fully(t) /\ s = t
    <3> DEFINE a == task[Loop].answer[t]
               v == IF task[Loop].isPayment THEN a ELSE 0
    <3>1. /\ a = Parts[t] /\ [amount |-> a, value |-> v] # NoPayment
          /\ payments'[t] = (IF payments[t] = NoPayment \/ payments[t].amount < a
                            THEN [amount |-> a, value |-> v] ELSE payments[t])
      BY <1>6, <2>2, <2>4, RecordSays
    <3>2. payments[t] # NoPayment => payments[t].amount <= shown[t] /\ shown[t] <= Parts[t]
             /\ payments[t].amount \in Nat /\ shown[t] \in Nat
      BY DEF Shown, WorldTypes, BookTypes, Payment
    <3>3. payments[t] = NoPayment \/ payments[t].amount < a
      BY <1>0, <2>4, <3>1, <3>2 DEF Fully
    <3>4. payments'[t] # NoPayment /\ payments'[t].amount = a
      BY <3>1, <3>3
    <3> QED
      BY <3>1, <3>4 DEF Fully
  <2>5. CASE ~Fully(t) /\ s # t
    BY <1>6, <2>2, <2>5, RecordMoves
  <2> QED
    BY <2>3, <2>4, <2>5
<1> QED
  BY <1>4, <1>5, <1>6, RecordingSteps

LEMMA PaymentsAreRecordedStep ==
  ASSUME WorldTypes, BookTypes, TaskTypes, NewestFirst, Shown, Answered, PaymentsAreRecorded, Addressed, Next
  PROVE  PaymentsAreRecorded'
<1> SUFFICES ASSUME NEW t \in Tx, Sent(t)', address'[sent'[t].user][sent'[t].net] # Never,
                    sent'[t].at < address'[sent'[t].user][sent'[t].net] - Overlap
             PROVE  Fully(t)'
  BY DEF PaymentsAreRecorded, Fully
<1> DEFINE u == sent'[t].user
           n == sent'[t].net
<1>0. u \in User /\ n \in Network /\ sent'[t].at \in Nat /\ Overlap \in Nat /\ now \in Nat
  BY PaymentsAssumption, WorldTypesStep DEF Sent, WorldTypes, Transfer
<1>1. CASE sent'[t] = sent[t] /\ address'[u][n] = address[u][n]
  <2>1. Fully(t)
    BY <1>1 DEF PaymentsAreRecorded, Fully, Sent
  <2> QED
    BY <2>1, FullyStays
<1>2. CASE sent'[t] # sent[t]
  <2>1. sent'[t].at = now /\ UNCHANGED address
    BY <1>2, SentStays DEF store
  <2>2. address[u][n] # NoAddress
    <3>1. Addressed'
      BY AddressedStep
    <3> QED
      BY <2>1, <3>1 DEF Addressed
  <2>3. address[u][n] \in Nat /\ address[u][n] <= now
    BY <1>0, <2>1, <2>2, PaymentsAssumption DEF BookTypes, Addressed
  <2> QED
    BY <1>0, <2>1, <2>3
<1>3. CASE sent'[t] = sent[t] /\ address'[u][n] # address[u][n]
  <2>1. CASE AllocateAddress
    BY <1>0, <1>3, <2>1 DEF AllocateAddress, BookTypes
  <2>2. CASE SetChecked
    <3>1. /\ u = task[Loop].user /\ n = task[Loop].net /\ address'[u][n] = task[Loop].moment
          /\ At(Loop, "record") /\ task[Loop].answer[t] = 0
      BY <1>0, <1>3, <2>2 DEF SetChecked, Checked, BookTypes
    <3>2. SentTo(t, task[Loop].user, task[Loop].net) /\ sent[t].at < task[Loop].moment - Overlap
      BY <1>3, <3>1 DEF SentTo, Sent
    <3>3. Fully(t) \/ task[Loop].answer[t] = Parts[t]
      BY <3>1, <3>2 DEF Answered
    <3>4. Fully(t)
      BY <3>1, <3>3, PaymentsAssumption
    <3> QED
      BY <3>4, FullyStays
  <2> QED
    BY <1>3, <2>1, <2>2, NextWrites
<1> QED
  BY <1>1, <1>2, <1>3

(***************************************************************************)
(* Credits.                                                                *)
(***************************************************************************)
\* The accepted assets never change while a payment is known in part.
KnownInFull == \A m \in Modes : "part" \notin m.assets

\* No edit of the assets falls between two answers about one transaction.
LEMMA AssetsChangeInFull ==
  ASSUME KnownInFull, WorldTypes, ChangeAssets
  PROVE  ~At(Loop, "ask") /\ \A t \in Tx : ~KnownInPart(t)
BY DEF KnownInFull, WorldTypes, ChangeAssets

LEMMA OneVerdictStep ==
  ASSUME KnownInFull, WorldTypes, BookTypes, TaskTypes, Shown, OneVerdict, Next
  PROVE  OneVerdict'
<1>0. /\ Loop \in Proc /\ task \in [Proc -> Locals] /\ task[Loop] \in Locals
      /\ \A t \in Tx : Parts[t] \in Nat /\ shown[t] \in Nat /\ shown[t] <= Parts[t]
                       /\ task[Loop].answer[t] \in Nat
  BY PaymentsAssumption DEF TaskTypes, Proc, Shown, WorldTypes, Locals
<1>1. ASSUME ChangeAssets
      PROVE  /\ UNCHANGED <<task, payments>> /\ ~At(Loop, "ask") /\ \A t \in Tx : ~KnownInPart(t)
  BY <1>1, AssetsChangeInFull DEF ChangeAssets, store
<1>2. accepted' = accepted \/ ChangeAssets
  BY NextWrites
<1>3. ASSUME At(Loop, "ask")' PROVE task'[Loop].isPayment = accepted'
  <2>1. CASE task'[Loop] = task[Loop]
    <3>1. At(Loop, "ask")
      BY <1>3, <2>1 DEF At
    <3> QED
      BY <1>1, <1>2, <2>1, <3>1 DEF OneVerdict
  <2>2. ASSUME NEW u \in User, NEW n \in Network, ReadAssets(u, n) PROVE task'[Loop].isPayment = accepted'
    BY <1>0, <2>2 DEF ReadAssets, env, Locals
  <2>3. ASSUME FindAddress PROVE FALSE
    BY <1>0, <1>3, <2>3 DEF FindAddress, NextUser, Found, At, Locals
  <2>4. ASSUME AllocateAddress \/ Ask PROVE FALSE
    BY <1>0, <1>3, <2>4 DEF AllocateAddress, Ask, At, Locals
  <2>5. ASSUME NEW t \in Tx, Record(t) PROVE FALSE
    BY <1>3, <2>5, RecordSays, RecordMoves DEF At
  <2> QED
    BY <1>3, <2>1, <2>2, <2>3, <2>4, <2>5, LoopSteps DEF At
<1>4. ASSUME NEW t \in Tx, Record(t)
      PROVE  LET a == task[Loop].answer[t]
                 v == IF task[Loop].isPayment THEN a ELSE 0 IN
             /\ a \in Nat /\ a > 0 /\ v \in {0, a} /\ a <= Parts[t] /\ accepted' = accepted
             /\ ~Fully(t) => v = IF accepted THEN a ELSE 0
             /\ payments'[t] = [amount |-> a, value |-> v] \/ payments'[t] = payments[t]
  <2> DEFINE a == task[Loop].answer[t]
             v == IF task[Loop].isPayment THEN a ELSE 0
  <2>1. /\ At(Loop, "record") /\ a \in Nat /\ a > 0 /\ accepted' = accepted
        /\ payments'[t] = [amount |-> a, value |-> v] \/ payments'[t] = payments[t]
    BY <1>4, RecordSays
  <2>2. a <= shown[t]
    BY <2>1 DEF Shown
  <2>3. ~Fully(t) => task[Loop].isPayment = accepted
    BY <2>1 DEF OneVerdict
  <2>4. a <= Parts[t]
    BY <1>0, <2>1, <2>2
  <2> QED
    BY <2>1, <2>3, <2>4
<1>5. ASSUME NEW t \in Tx, payments'[t] # NoPayment, payments'[t].amount < Parts[t]
      PROVE  payments'[t].value = IF accepted' THEN payments'[t].amount ELSE 0
  <2>1. ~Fully(t)
    <3>1. ~Fully(t)'
      BY <1>0, <1>5 DEF Fully
    <3> QED
      BY <3>1, FullyStays
  <2>2. CASE payments'[t] = payments[t]
    <3>1. Sent(t)
      BY <1>5, <2>2 DEF Shown
    <3>2. accepted' = accepted
      BY <1>1, <1>2, <1>5, <2>2, <3>1 DEF KnownInPart
    <3> QED
      BY <1>5, <2>2, <3>2 DEF OneVerdict
  <2>3. CASE payments'[t] # payments[t]
    <3>1. Record(t)
      BY <2>3, RecordSays, NextWrites
    <3> DEFINE a == task[Loop].answer[t]
    <3> DEFINE v == IF task[Loop].isPayment THEN a ELSE 0
    <3>2. /\ accepted' = accepted
          /\ payments'[t] = [amount |-> a, value |-> v]
      BY <1>4, <2>3, <3>1
    <3>4. a > 0 /\ At(Loop, "record")
      BY <3>1, RecordSays
    <3>5. task[Loop].isPayment = accepted
      BY <2>1, <3>4 DEF OneVerdict
    <3>3. payments'[t].amount = a /\ payments'[t].value = v
      BY <3>2
    <3> QED
      BY <3>2, <3>3, <3>5
  <2> QED
    BY <2>2, <2>3
<1>6. ASSUME NEW t \in Tx, At(Loop, "record")', task'[Loop].answer[t] > 0, ~Fully(t)'
      PROVE  task'[Loop].isPayment = accepted'
  <2>1. ~Fully(t)
    BY <1>6, FullyStays
  <2>2. CASE task'[Loop] = task[Loop]
    <3>1. At(Loop, "record") /\ task[Loop].answer[t] > 0
      BY <1>6, <2>2 DEF At
    <3>2. Sent(t) /\ (payments[t] # NoPayment => payments[t].amount <= Parts[t] /\ payments[t].amount \in Nat)
      BY <1>0, <3>1 DEF Shown, SentTo, BookTypes, Payment
    <3>3. KnownInPart(t)
      BY <1>0, <2>1, <3>1, <3>2 DEF KnownInPart, Fully
    <3>4. accepted' = accepted
      BY <1>1, <1>2, <3>3
    <3> QED
      BY <2>1, <2>2, <3>1, <3>4 DEF OneVerdict
  <2>3. CASE Ask
    <3>1. task'[Loop].isPayment = task[Loop].isPayment /\ accepted' = accepted
      BY <2>3, AskSays
    <3> QED
      BY <2>3, <3>1 DEF OneVerdict, Ask
  <2>4. ASSUME NEW s \in Tx, Record(s) PROVE task'[Loop].isPayment = accepted'
    <3>1. s # t /\ task'[Loop].answer[t] = task[Loop].answer[t]
      BY <1>0, <1>6, <2>4, RecordMoves
    <3>2. At(Loop, "record") /\ task'[Loop].isPayment = task[Loop].isPayment /\ accepted' = accepted
      BY <2>4, RecordSays, RecordMoves
    <3> QED
      BY <1>6, <2>1, <3>1, <3>2 DEF OneVerdict
  <2> QED
    BY <1>6, <2>2, <2>3, <2>4, RecordingSteps
<1>7. ASSUME NEW t \in Tx, payments'[t] # NoPayment PROVE payments'[t].value \in {0, payments'[t].amount}
  <2>1. CASE payments'[t] = payments[t]
    BY <1>7, <2>1 DEF OneVerdict
  <2>2. CASE payments'[t] # payments[t]
    <3>1. Record(t)
      BY <2>2, RecordSays, NextWrites
    <3> DEFINE a == task[Loop].answer[t]
    <3> DEFINE v == IF task[Loop].isPayment THEN a ELSE 0
    <3>2. payments'[t] = [amount |-> a, value |-> v]
      BY <1>4, <2>2, <3>1
    <3>3. payments'[t].amount = a /\ payments'[t].value = v
      BY <3>2
    <3> QED
      BY <3>3
  <2> QED
    BY <2>1, <2>2
<1> QED
  BY <1>3, <1>5, <1>6, <1>7 DEF OneVerdict

\* No row of a payment goes, or loses value.
RowsKeepTheirValue == \A t \in Tx : payments[t] # NoPayment =>
    payments'[t] # NoPayment /\ payments[t].value <= payments'[t].value

LEMMA RowsGrow ==
  ASSUME WorldTypes, BookTypes, TaskTypes, Shown, OneVerdict, Next
  PROVE  RowsKeepTheirValue
<1> SUFFICES ASSUME NEW t \in Tx, payments[t] # NoPayment
             PROVE  payments'[t] # NoPayment /\ payments[t].value <= payments'[t].value
  BY DEF RowsKeepTheirValue
<1>0. /\ payments[t].amount \in Nat /\ payments[t].value \in Nat
      /\ Parts[t] \in Nat /\ shown[t] \in Nat /\ shown[t] <= Parts[t]
  BY PaymentsAssumption DEF Shown, WorldTypes, BookTypes, Payment
<1>1. CASE payments'[t] = payments[t]
  BY <1>0, <1>1
<1>2. CASE payments'[t] # payments[t]
  <2>1. Record(t)
    BY <1>2, RecordSays, NextWrites
  <2> DEFINE a == task[Loop].answer[t]
             v == IF task[Loop].isPayment THEN a ELSE 0
  <2>2. /\ At(Loop, "record") /\ a \in Nat /\ a > 0 /\ payments[t].amount < a
        /\ payments'[t] = [amount |-> a, value |-> v] /\ payments'[t] # NoPayment
    BY <1>2, <2>1, RecordSays
  <2>3. a <= shown[t]
    BY <2>2 DEF Shown
  <2>4. ~Fully(t)
    BY <1>0, <2>2, <2>3 DEF Fully
  <2>5. payments[t].amount < Parts[t]
    BY <1>0, <2>2, <2>3
  <2>6. task[Loop].isPayment = accepted /\ payments[t].value = IF accepted THEN payments[t].amount ELSE 0
    BY <2>2, <2>4, <2>5 DEF OneVerdict
  <2>7. payments[t].value <= v
    BY <1>0, <2>2, <2>6
  <2>8. payments'[t].value = v
    BY <2>2
  <2> QED
    BY <2>2, <2>7, <2>8
<1> QED
  BY <1>1, <1>2

\* Then what a user has paid, and is credited, only grows.
LEMMA PaidGrows ==
  ASSUME WorldTypes, BookTypes, TaskTypes, NewestFirst, Shown, RowsKeepTheirValue, Next,
         NEW u \in User
  PROVE  Paid(u) <= Paid(u)' /\ Paid(u) \in Nat /\ Paid(u)' \in Nat
<1> DEFINE S == PaidBy(u)
           T == PaidBy(u)'
           f == [t \in S |-> payments[t].value]
           g == [t \in T |-> payments'[t].value]
<1>1. S \subseteq T /\ \A t \in S : payments[t].value <= payments'[t].value
  <2> SUFFICES ASSUME NEW t \in S PROVE t \in T /\ payments[t].value <= payments'[t].value
    OBVIOUS
  <2>1. t \in Tx /\ payments[t] # NoPayment /\ sent[t].user = u
    BY DEF PaidBy
  <2>2. Sent(t)
    BY <2>1 DEF Shown
  <2>3. sent'[t] = sent[t]
    BY <2>1, <2>2, SentStays
  <2> QED
    BY <2>1, <2>3 DEF PaidBy, RowsKeepTheirValue
<1>2. S \in SUBSET Tx /\ T \in SUBSET Tx
  BY DEF PaidBy
<1>3. IsFiniteSet(T)
  BY <1>2, PaymentsAssumption, FS_Subset
<1>4. BookTypes'
  BY BookTypesStep
<1>5. (\A t \in S : f[t] \in Nat) /\ \A t \in T : g[t] \in Nat
  BY <1>4 DEF BookTypes, PaidBy, Payment
<1>6. \A t \in S : f[t] <= g[t]
  BY <1>1
<1>7. DOMAIN f = S /\ DOMAIN g = T
  OBVIOUS
<1>8. Paid(u) = SumFunction(f) /\ Paid(u)' = SumFunction(g)
  BY DEF Paid
<1> HIDE DEF f, g, S, T
<1>9. SumFunctionOnSet(f, S) <= SumFunctionOnSet(g, T)
  BY <1>1, <1>3, <1>5, <1>6, SumGrows
<1>10. Paid(u) <= Paid(u)'
  BY <1>7, <1>8, <1>9 DEF SumFunction
<1>11. SumFunctionOnSet(g, T) \in Nat
  BY <1>3, <1>5, SumType
<1>12. Paid(u)' \in Nat
  BY <1>7, <1>8, <1>11 DEF SumFunction
<1> QED
  BY <1>10, <1>12, PaidIsNat

LEMMA CreditsGrow ==
  ASSUME WorldTypes, BookTypes, TaskTypes, NewestFirst, Shown, RowsKeepTheirValue, Next,
         NEW u \in User
  PROVE  /\ manual[u] \in Nat /\ manual'[u] \in Nat /\ manual[u] <= manual'[u]
         /\ Credits(u) <= Credits(u)' /\ Credits(u) \in Nat /\ Credits(u)' \in Nat
<1>1. manual[u] \in Nat /\ manual'[u] \in Nat
  BY BookTypesStep DEF BookTypes
<1>2. manual[u] <= manual'[u]
  <2>1. ASSUME NEW c \in Call, NEW v \in User, NEW q \in Period, NEW value \in ByHand \cup Fee,
               ConfirmManually(c, v, q, value)
        PROVE  manual[u] <= manual'[u]
    <3>1. value \in Nat
      BY BillingAssumption
    <3> QED
      BY <1>1, <2>1, <3>1 DEF ConfirmManually, BookTypes
  <2>2. manual' = manual \/ \E c \in Call, v \in User, q \in Period, value \in ByHand \cup Fee :
                               ConfirmManually(c, v, q, value)
    BY NextWrites
  <2> QED
    BY <1>1, <2>1, <2>2
<1>3. Paid(u) <= Paid(u)' /\ Paid(u) \in Nat /\ Paid(u)' \in Nat
  BY PaidGrows
<1> QED
  BY <1>1, <1>2, <1>3 DEF Credits

\* The recording of a larger sum of a known transaction whose asset is not accepted.
ToppedUpAtNothing(t) ==
    /\ Record(t) /\ ~task[Loop].isPayment
    /\ payments[t] # NoPayment /\ payments[t].amount < task[Loop].answer[t]

\* No step lowers a user's credits but such a recording (record_payment).
FallsAreTopUps ==
    [][\A u \in User : Credits(u)' < Credits(u) => \E t \in Tx : ToppedUpAtNothing(t)]_vars

\* A row is worth what has arrived, or nothing.
Valued == \A t \in Tx : payments[t] # NoPayment => payments[t].value \in {0, payments[t].amount}

LEMMA ValuedStep ==
  ASSUME WorldTypes, BookTypes, TaskTypes, Shown, Valued, Next
  PROVE  Valued'
<1> SUFFICES ASSUME NEW t \in Tx, payments'[t] # NoPayment
             PROVE  payments'[t].value \in {0, payments'[t].amount}
  BY DEF Valued
<1>1. CASE payments'[t] = payments[t]
  BY <1>1 DEF Valued
<1>2. CASE payments'[t] # payments[t]
  <2>1. Record(t)
    BY <1>2, RecordSays, NextWrites
  <2> DEFINE a == task[Loop].answer[t]
             v == IF task[Loop].isPayment THEN a ELSE 0
  <2>2. payments'[t] = [amount |-> a, value |-> v]
    BY <1>2, <2>1, RecordSays
  <2>3. payments'[t].amount = a /\ payments'[t].value = v
    BY <2>2
  <2> QED
    BY <2>3
<1> QED
  BY <1>1, <1>2

LEMMA RowsKeepOtherwise ==
  ASSUME WorldTypes, BookTypes, TaskTypes, Shown, Valued, Next,
         \A t \in Tx : ~ToppedUpAtNothing(t)
  PROVE  RowsKeepTheirValue
<1> SUFFICES ASSUME NEW t \in Tx, payments[t] # NoPayment
             PROVE  payments'[t] # NoPayment /\ payments[t].value <= payments'[t].value
  BY DEF RowsKeepTheirValue
<1>0. payments[t].amount \in Nat /\ payments[t].value \in Nat
  BY DEF BookTypes, Payment
<1>1. CASE payments'[t] = payments[t]
  BY <1>0, <1>1
<1>2. CASE payments'[t] # payments[t]
  <2>1. Record(t)
    BY <1>2, RecordSays, NextWrites
  <2> DEFINE a == task[Loop].answer[t]
             v == IF task[Loop].isPayment THEN a ELSE 0
  <2>2. /\ a \in Nat /\ payments[t].amount < a
        /\ payments'[t] = [amount |-> a, value |-> v] /\ payments'[t] # NoPayment
    BY <1>2, <2>1, RecordSays
  <2>3. task[Loop].isPayment
    BY <2>1, <2>2 DEF ToppedUpAtNothing
  <2>4. payments'[t].value = a
    BY <2>2, <2>3
  <2>5. payments[t].value <= a
    BY <1>0, <2>2 DEF Valued
  <2> QED
    BY <2>2, <2>4, <2>5
<1> QED
  BY <1>1, <1>2

(***************************************************************************)
(* Debts.                                                                  *)
(***************************************************************************)
\* An invoice stays as it is, and a new one is newer than all of its user's and
\* not due yet.
LEMMA BooksGrow ==
  ASSUME WorldTypes, BookTypes, TaskTypes, NewestFirst, Next, NEW u \in User
  PROVE  /\ Billed(u) \subseteq Billed(u)' /\ Billed(u)' \subseteq Period
         /\ \A q \in Billed(u) :
              /\ invoices'[u][q] = invoices[u][q]
              /\ \A r \in Billed(u)' : r <= q => r \in Billed(u)
         /\ \A q \in Billed(u)' : q \in Billed(u) \/ now <= invoices'[u][q].due
<1>0. Billed(u)' \subseteq Period /\ Billed(u) \subseteq Period
  BY DEF Billed
<1>1. CASE invoices' = invoices
  BY <1>0, <1>1 DEF Billed
<1>2. CASE InsertInvoice
  <2> DEFINE l == task[Loop]
             q == DuePeriod(l.moment)
  <2>1. /\ l.user \in User /\ q \in Period \ Billed(l.user)
        /\ invoices'[l.user][q] = [amount |-> l.num, due |-> l.moment + DueIn, net |-> l.net]
        /\ now <= l.moment + DueIn
        /\ \A v \in User : Billed(v)' = Billed(v) \cup (IF v = l.user THEN {q} ELSE {})
        /\ \A v \in User, r \in Period : v # l.user \/ r # q => invoices'[v][r] = invoices[v][r]
        /\ \A r \in Billed(l.user) : r < q
    BY <1>2, InsertAdds
  <2>2. Billed(u)' = Billed(u) \cup (IF u = l.user THEN {q} ELSE {})
    BY <2>1
  <2>3. invoices'[l.user][q].due = l.moment + DueIn
    BY <2>1
  <2>4. Period \subseteq Nat
    BY PeriodIsFinite
  <2> HIDE DEF l, q
  <2>5. ASSUME NEW r \in Billed(u) PROVE invoices'[u][r] = invoices[u][r]
    BY <1>0, <2>1, <2>5
  <2>6. ASSUME NEW k \in Billed(u), NEW r \in Billed(u)', r <= k PROVE r \in Billed(u)
    <3>1. SUFFICES ASSUME u = l.user, r = q PROVE FALSE
      BY <2>2, <2>6
    <3>2. k < q /\ k \in Nat /\ q \in Nat
      BY <1>0, <2>1, <2>4, <3>1
    <3> QED
      BY <2>6, <3>1, <3>2
  <2>7. ASSUME NEW k \in Billed(u)', k \notin Billed(u) PROVE now <= invoices'[u][k].due
    <3>1. u = l.user /\ k = q
      BY <2>2, <2>7
    <3>2. invoices'[u][k].due = l.moment + DueIn
      BY <2>3, <3>1
    <3> QED
      BY <2>1, <3>2
  <2> QED
    BY <1>0, <2>2, <2>5, <2>6, <2>7
<1> QED
  BY <1>1, <1>2, NextWrites

\* What old invoices ask for stays.
LEMMA OwedStays ==
  ASSUME WorldTypes, BookTypes, TaskTypes, NewestFirst, Next,
         NEW u \in User, NEW S \in SUBSET Billed(u)
  PROVE  Owed(u, S)' = Owed(u, S)
<1>1. \A q \in S : invoices'[u][q] = invoices[u][q]
  BY BooksGrow
<1>2. [q \in S |-> invoices'[u][q].amount] = [q \in S |-> invoices[u][q].amount]
  BY <1>1
<1> QED
  BY <1>2 DEF Owed

\* Who is not overdue at a moment that is past never becomes so.
LEMMA NeverLateStays ==
  ASSUME WorldTypes, BookTypes, TaskTypes, NewestFirst, Shown, OneVerdict, Next,
         NEW u \in User, NEW m \in Nat, m <= now, ~IsLate(u, m)
  PROVE  ~IsLate(u, m)'
<1> SUFFICES ASSUME NEW q \in Billed(u)', invoices'[u][q].due < m
             PROVE  ~(Credits(u)' < Owed(u, {r \in Billed(u) : r <= q})')
  BY DEF IsLate
<1> DEFINE S == {r \in Billed(u) : r <= q}
<1>0. BookTypes' /\ now \in Nat
  BY BookTypesStep DEF WorldTypes
<1>1. q \in Billed(u)
  <2>1. q \in Billed(u) \/ now <= invoices'[u][q].due
    BY BooksGrow
  <2>2. invoices'[u][q].due \in Nat
    BY <1>0, PaymentsAssumption, BillingAssumption DEF BookTypes, Billed, Invoice
  <2> QED
    BY <1>0, <2>1, <2>2
<1>2. S' = S /\ S \in SUBSET Billed(u) /\ invoices'[u][q] = invoices[u][q]
  BY <1>1, BooksGrow
<1>3. Owed(u, S)' = Owed(u, S)
  <2>1. \A v \in S : invoices'[u][v] = invoices[u][v]
    BY <1>2, BooksGrow
  <2>2. [v \in S' |-> invoices'[u][v].amount] = [v \in S |-> invoices[u][v].amount]
    BY <1>2, <2>1
  <2> QED
    BY <2>2 DEF Owed
<1>4. ~(Credits(u) < Owed(u, S))
  BY <1>1, <1>2 DEF IsLate
<1>5. Owed(u, S) \in Nat
  BY <1>2, OwedIsNat
<1>6. Credits(u) <= Credits(u)' /\ Credits(u) \in Nat /\ Credits(u)' \in Nat
  BY RowsGrow, CreditsGrow
<1> QED
  BY <1>3, <1>4, <1>5, <1>6

(***************************************************************************)
(* Verdicts.                                                               *)
(***************************************************************************)
\* What was found out stands while others move.
LEMMA VerdictStands ==
  ASSUME WorldTypes, BookTypes, TaskTypes, NewestFirst, Shown, OneVerdict, Next,
         NEW p \in Proc, Verdict(p), task'[p] = task[p]
  PROVE  Verdict(p)'
<1>0. /\ task[p] \in Locals /\ Fit(task[p], now) /\ task[p].moment \in Nat /\ task[p].moment <= now
      /\ BookTypes' /\ now \in Nat
  BY PaymentsAssumption, BookTypesStep DEF TaskTypes, Locals, Fit, WorldTypes
<1>1. \A u \in User : NeverLate(u, p) => NeverLate(u, p)'
  <2> SUFFICES ASSUME NEW u \in User, NeverLate(u, p) PROVE NeverLate(u, p)'
    OBVIOUS
  <2>1. PICK m \in Nat : m = task[p].moment
    BY <1>0
  <2>2. ~IsLate(u, m) /\ m <= now
    BY <1>0, <2>1 DEF NeverLate
  <2>3. ~IsLate(u, m)'
    BY <2>2, NeverLateStays
  <2>4. task'[p].moment = m
    BY <2>1
  <2> QED
    BY <2>3, <2>4 DEF NeverLate, IsLate
<1>2. \A u \in User : Paid(u) <= Paid(u)' /\ Paid(u) \in Nat /\ Paid(u)' \in Nat
  BY RowsGrow, PaidGrows
<1>3. \A u \in User : /\ Credits(u) <= Credits(u)' /\ Credits(u) \in Nat /\ Credits(u)' \in Nat
                      /\ manual[u] <= manual'[u] /\ manual[u] \in Nat /\ manual'[u] \in Nat
  BY RowsGrow, CreditsGrow
<1>4. OnTimeStays(p)'
  BY <1>1 DEF Verdict, OnTimeStays, Reconciling
<1>5. ReadSums(p)'
  <2> SUFFICES ASSUME NEW u \in User
               PROVE  /\ At(p, "manual") => task[p].sums[u] <= Paid(u)'
                      /\ At(p, "owed") => task[p].sums[u] <= Credits(u)'
    BY DEF ReadSums, At
  <2>1. task[p].sums[u] \in Nat
    BY <1>0 DEF Locals
  <2>2. /\ At(p, "manual") => task[p].sums[u] <= Paid(u)
        /\ At(p, "owed") => task[p].sums[u] <= Credits(u)
    BY DEF Verdict, ReadSums
  <2> QED
    BY <1>2, <1>3, <2>1, <2>2
<1>6. ASSUME At(p, "paid") \/ At(p, "credits")
      PROVE  ReadCredits(p)' /\ ReadRows(p)' /\ CreditsCover(p)'
  <2>1. PICK u \in User : u = task[p].user
    BY <1>0, <1>6 DEF Fit, UserSteps, At
  <2>2. task'[p].user = u /\ At(p, "credits")' = At(p, "credits") /\ At(p, "paid")' = At(p, "paid")
        /\ task'[p].late = task[p].late /\ task'[p].rows = task[p].rows /\ task'[p].num = task[p].num
        /\ task'[p].moment = task[p].moment
    BY <2>1 DEF At
  <2>3. /\ task[p].rows \subseteq Billed(u)
        /\ \A q \in Billed(u) : invoices[u][q].due < task[p].moment =>
             {r \in Billed(u) : r <= q} \subseteq task[p].rows
    BY <1>6, <2>1 DEF Verdict, ReadRows
  <2>4. ReadCredits(p)'
    <3>1. At(p, "credits") => task[p].num <= Paid(u)
      BY <2>1 DEF Verdict, ReadCredits
    <3>2. task[p].num \in Nat /\ Paid(u) \in Nat /\ Paid(u)' \in Nat /\ Paid(u) <= Paid(u)'
      BY <1>0, <1>2 DEF Locals
    <3>3. At(p, "credits") => task[p].num <= Paid(u)'
      BY <3>1, <3>2
    <3> QED
      BY <2>2, <3>3 DEF ReadCredits, Paid, PaidBy
  <2>5. ReadRows(p)'
    <3>1. task[p].rows \subseteq Billed(u)'
      BY <2>3, BooksGrow
    <3>2. ASSUME NEW q \in Billed(u)', invoices'[u][q].due < task[p].moment,
                 NEW r \in Billed(u)', r <= q
          PROVE  r \in task[p].rows
      <4>1. invoices'[u][q].due \in Nat
        BY <1>0, PaymentsAssumption, BillingAssumption DEF BookTypes, Billed, Invoice
      <4>2. q \in Billed(u)
        BY <1>0, <3>2, <4>1, BooksGrow
      <4>3. r \in Billed(u) /\ invoices[u][q].due < task[p].moment
        BY <3>2, <4>2, BooksGrow
      <4> QED
        BY <2>3, <3>2, <4>2, <4>3
    <3> QED
      BY <2>2, <3>1, <3>2 DEF ReadRows, Billed
  <2>6. CreditsCover(p)'
    <3> SUFFICES ASSUME At(p, "credits"), u \notin task[p].late, NEW q \in task[p].rows,
                        invoices'[u][q].due < task[p].moment
                 PROVE  Owed(u, {r \in task[p].rows : r <= q})' <= task[p].num + manual'[u]
      BY <2>2 DEF CreditsCover, Owed
    <3> DEFINE S == {r \in task[p].rows : r <= q}
    <3>1. S' = S /\ S \in SUBSET Billed(u)
      BY <2>2, <2>3
    <3>2. invoices'[u][q] = invoices[u][q]
      BY <2>3, BooksGrow
    <3>3. Owed(u, S) <= task[p].num + manual[u]
      BY <2>1, <3>2 DEF Verdict, CreditsCover
    <3>4. Owed(u, S)' = Owed(u, S)
      <4>1. \A v \in S : invoices'[u][v] = invoices[u][v]
        BY <3>1, BooksGrow
      <4>2. [v \in S' |-> invoices'[u][v].amount] = [v \in S |-> invoices[u][v].amount]
        BY <3>1, <4>1
      <4> QED
        BY <4>2 DEF Owed
    <3>5. Owed(u, S) \in Nat /\ task[p].num \in Nat
      BY <1>0, <3>1, OwedIsNat DEF Locals
    <3> QED
      BY <1>3, <3>3, <3>4, <3>5
  <2> QED
    BY <2>4, <2>5, <2>6
<1>7. ASSUME ~(At(p, "paid") \/ At(p, "credits"))
      PROVE  ReadCredits(p)' /\ ReadRows(p)' /\ CreditsCover(p)'
  BY <1>7 DEF ReadCredits, ReadRows, CreditsCover, At
<1>8. Convicted(p)'
  BY DEF Verdict, Convicted, Reconciling, At
<1>9. Acquitted(p)'
  <2>1. Judged(p)' = Judged(p)
    BY DEF Judged, At
  <2>2. Judged(p) \subseteq User
    BY DEF Judged
  <2>3. At(p, "restore") => task[p].todo \subseteq User
    BY <1>0 DEF Fit, PollSteps, At
  <2> QED
    BY <1>1, <2>1, <2>2, <2>3 DEF Verdict, Acquitted, At
<1> QED
  BY <1>4, <1>5, <1>6, <1>7, <1>8, <1>9 DEF Verdict

\* A step that reconciles touches nothing that the debts depend on.
Reconciles(p) ==
    \/ SumPayments(p) \/ SumManual(p) \/ SumInvoices(p) \/ (At(p, "paid") /\ ReadPaid(p, "credits"))
    \/ Classify(p) \/ Suspend(p) \/ ListSuspended(p) \/ AccessFails(p)
    \/ \E u \in User : ListInvoices(p, u) \/ Restore(p, u)
    \/ \E q \in Period : Remind(p, q)

\* Where issuing and checking lead, which is never into a reconciliation.
LEMMA IssuePc ==
  ASSUME TaskTypes, Issue
  PROVE  task'[Loop].pc \in IssueSteps \cup {"terms", "issue", "balances"}
<1> DEFINE Goal == task'[Loop].pc \in IssueSteps \cup {"terms", "issue", "balances"}
<1>0. Loop \in Proc /\ task \in [Proc -> Locals] /\ task[Loop] \in Locals
  BY DEF TaskTypes, Proc
<1> USE DEF Locals, IssueSteps
<1>1. ASSUME StartPass \/ ReadNetwork \/ AllocateAddress PROVE Goal
  BY <1>0, <1>1 DEF StartPass, ReadNetwork, AllocateAddress
<1>2. ASSUME ReadTerms PROVE Goal
  BY <1>0, <1>2 DEF ReadTerms
<1>3. ASSUME FindAddress PROVE Goal
  BY <1>0, <1>3 DEF FindAddress, NextUser, Found
<1>4. ASSUME InsertInvoice PROVE Goal
  BY <1>0, <1>4 DEF InsertInvoice, NextUser
<1>5. ASSUME NEW u \in User, SkipUser(u) PROVE Goal
  BY <1>0, <1>5 DEF SkipUser, NextUser
<1>6. ASSUME NEW u \in User, NEW fee \in Fee, BillUser(u, fee) PROVE Goal
  BY <1>0, <1>6 DEF BillUser
<1> QED
  BY <1>1, <1>2, <1>3, <1>4, <1>5, <1>6 DEF Issue

LEMMA CheckPc ==
  ASSUME TaskTypes, Check \/ AskFails
  PROVE  task'[Loop].pc \in PollSteps \cup {"idle"}
<1> DEFINE Goal == task'[Loop].pc \in PollSteps \cup {"idle"}
<1>0. Loop \in Proc /\ task \in [Proc -> Locals] /\ task[Loop] \in Locals
  BY DEF TaskTypes, Proc
<1> USE DEF Locals, PollSteps
<1>1. ASSUME ReadTargets PROVE Goal
  BY <1>0, <1>1 DEF ReadTargets, Rest
<1>2. ASSUME Ask PROVE Goal
  BY <1>0, <1>2 DEF Ask
<1>3. ASSUME SetChecked \/ AskFails PROVE Goal
  BY <1>0, <1>3 DEF SetChecked, AskFails, NextAddress
<1>4. ASSUME NEW u \in User, NEW n \in Network, ReadAssets(u, n) PROVE Goal
  BY <1>0, <1>4 DEF ReadAssets
<1>5. ASSUME NEW t \in Tx, Record(t) PROVE Goal
  BY <1>0, <1>5 DEF Record, At
<1> QED
  BY <1>1, <1>2, <1>3, <1>4, <1>5 DEF Check

\* The steps of a task that end in a reconciliation.
LEMMA ReconcilingSteps ==
  ASSUME WorldTypes, BookTypes, TaskTypes, NEW p \in Proc, Own(p), Reconciling(p)'
  PROVE  Reconciles(p)
<1>0. task \in [Proc -> Locals] /\ task[p] \in Locals /\ Call \subseteq Proc
  BY DEF TaskTypes, Proc
<1>1. ASSUME p = Loop, Issue PROVE FALSE
  BY <1>1, IssuePc DEF Reconciling, IssueSteps
<1>2. ASSUME p = Loop, Check \/ AskFails PROVE FALSE
  BY <1>2, CheckPc DEF Reconciling, PollSteps
<1>3. ASSUME p \in Call, Calls(p) \/ Answers(p), ~Reconcile(p) PROVE FALSE
  BY <1>3, CallPc DEF Reconciling
<1>4. ASSUME EndReconcile(p) PROVE FALSE
  BY <1>0, <1>4 DEF EndReconcile, Rest, Reconciling
<1> QED
  BY <1>1, <1>2, <1>3, <1>4 DEF Own, Reconcile, Reconciles

\* None of them changes a payment, a credit, an invoice or who is overdue.
LEMMA DebtsStand ==
  ASSUME NEW p \in Proc, Reconciles(p)
  PROVE  /\ UNCHANGED <<now, sent, payments, manual, invoices>>
         /\ \A u \in User : Paid(u)' = Paid(u) /\ Credits(u)' = Credits(u) /\ Billed(u)' = Billed(u)
<1>1. UNCHANGED <<now, sent, payments, manual, invoices>>
  <2>1. ASSUME NEW u \in User, ListInvoices(p, u) \/ Restore(p, u)
        PROVE  UNCHANGED <<now, sent, payments, manual, invoices>>
    BY <2>1 DEF ListInvoices, Restore, env, chain, store, books
  <2>2. ASSUME NEW q \in Period, Remind(p, q)
        PROVE  UNCHANGED <<now, sent, payments, manual, invoices>>
    BY <2>2 DEF Remind, env, chain, store, books
  <2>3. ASSUME Suspend(p) \/ AccessFails(p)
        PROVE  UNCHANGED <<now, sent, payments, manual, invoices>>
    BY <2>3 DEF Suspend, AccessFails, env, chain, store, books
  <2>4. ASSUME SumPayments(p) \/ SumManual(p) \/ SumInvoices(p)
        PROVE  UNCHANGED <<now, sent, payments, manual, invoices>>
    BY <2>4 DEF SumPayments, SumManual, SumInvoices, env, chain, store, books
  <2>5. ASSUME ReadPaid(p, "credits") \/ Classify(p) \/ ListSuspended(p)
        PROVE  UNCHANGED <<now, sent, payments, manual, invoices>>
    BY <2>5 DEF ReadPaid, Classify, ListSuspended, env, chain, store, books
  <2> QED
    BY <2>1, <2>2, <2>3, <2>4, <2>5 DEF Reconciles
<1> QED
  BY <1>1 DEF Paid, Credits, PaidBy, Billed

LEMMA LatenessStands ==
  ASSUME NEW p \in Proc, Reconciles(p), task'[p].moment = task[p].moment, NEW u \in User
  PROVE  NeverLate(u, p)' = NeverLate(u, p)
<1>1. UNCHANGED <<now, sent, payments, manual, invoices>>
  BY DebtsStand
<1> QED
  BY <1>1 DEF NeverLate, IsLate, Billed, Credits, Paid, PaidBy, Owed

\* So who is not overdue stays so, and counts as such.
LEMMA OnTimeKept ==
  ASSUME NEW p \in Proc, Verdict(p), Reconciles(p), Reconciling(p),
         task'[p].moment = task[p].moment, task'[p].late = task[p].late
  PROVE  OnTimeStays(p)'
<1>1. \A u \in User : NeverLate(u, p)' = NeverLate(u, p)
  BY LatenessStands
<1>2. \A u \in User \ task[p].late : NeverLate(u, p)
  BY DEF Verdict, OnTimeStays
<1> QED
  BY <1>1, <1>2 DEF OnTimeStays

\* Those who are judged, and those to be let in, are not overdue.
Turns == {"debtors", "paid", "credits", "remind", "suspend"}
LEMMA AcquittedKept ==
  ASSUME NEW p \in Proc, Verdict(p), Reconciles(p), task[p].pc \in Turns, task'[p].pc \in Turns,
         task'[p].moment = task[p].moment, Judged(p)' \subseteq Judged(p)
  PROVE  Acquitted(p)'
<1>1. \A u \in User : NeverLate(u, p)' = NeverLate(u, p)
  BY LatenessStands
<1>2. \A u \in Judged(p) : NeverLate(u, p)
  BY DEF Verdict, Acquitted, Turns
<1>3. Judged(p)' \subseteq User
  BY DEF Judged
<1>4. \A u \in Judged(p)' : NeverLate(u, p)'
  BY <1>1, <1>2, <1>3
<1>5. ~At(p, "restore")'
  BY DEF At, Turns
<1> QED
  BY <1>4, <1>5 DEF Acquitted

\* The reconciliation begins with who is overdue, and with sums that only grow.
LEMMA SumPaymentsVerdict ==
  ASSUME WorldTypes, BookTypes, TaskTypes, NEW p \in Proc, SumPayments(p)
  PROVE  Verdict(p)'
<1>0. /\ task \in [Proc -> Locals] /\ task[p] \in Locals /\ task[p].moment \in Nat
      /\ task[p].moment <= now /\ now \in Nat
  BY PaymentsAssumption DEF TaskTypes, Locals, Fit, WorldTypes
<1>1. /\ task'[p].pc = "manual" /\ task'[p].moment = task[p].moment
      /\ task'[p].owing = {} /\ task'[p].late = {u \in User : IsLate(u, now)}
      /\ \A u \in User : task'[p].sums[u] = Paid(u)
  BY <1>0 DEF SumPayments, Locals
<1>2. Reconciles(p)
  BY DEF Reconciles
<1>3. OnTimeStays(p)'
  <2> SUFFICES ASSUME NEW u \in User, u \notin task'[p].late PROVE NeverLate(u, p)'
    BY DEF OnTimeStays
  <2>1. ~IsLate(u, now)
    BY <1>1
  <2>2. ~IsLate(u, task[p].moment)
    <3> SUFFICES ASSUME NEW q \in Billed(u), invoices[u][q].due < task[p].moment,
                        Credits(u) < Owed(u, {r \in Billed(u) : r <= q})
                 PROVE  FALSE
      BY DEF IsLate
    <3>1. invoices[u][q].due \in Nat
      BY PaymentsAssumption, BillingAssumption DEF BookTypes, Billed, Invoice
    <3>2. invoices[u][q].due < now
      BY <1>0, <3>1
    <3> QED
      BY <2>1, <3>2 DEF IsLate
  <2> QED
    BY <1>1, <1>2, <2>2, LatenessStands DEF NeverLate
<1>4. ReadSums(p)'
  <2>1. \A u \in User : Paid(u)' = Paid(u) /\ Paid(u) \in Nat
    BY <1>2, DebtsStand, PaidIsNat
  <2>2. \A u \in User : task'[p].sums[u] <= Paid(u)'
    BY <1>1, <2>1
  <2> QED
    BY <1>1, <2>2 DEF ReadSums, At
<1>5. ReadCredits(p)' /\ ReadRows(p)' /\ CreditsCover(p)' /\ Convicted(p)' /\ Acquitted(p)'
  BY <1>1 DEF ReadCredits, ReadRows, CreditsCover, Convicted, Acquitted, At
<1> QED
  BY <1>3, <1>4, <1>5 DEF Verdict

LEMMA SumManualVerdict ==
  ASSUME WorldTypes, BookTypes, TaskTypes, NEW p \in Proc, Verdict(p), SumManual(p)
  PROVE  Verdict(p)'
<1>0. task \in [Proc -> Locals] /\ task[p] \in Locals
  BY DEF TaskTypes
<1>1. /\ task'[p].pc = "owed" /\ task'[p].moment = task[p].moment /\ At(p, "manual")
      /\ task'[p].owing = task[p].owing /\ task'[p].late = task[p].late
      /\ \A u \in User : task'[p].sums[u] = task[p].sums[u] + manual[u]
  BY <1>0 DEF SumManual, Locals
<1>2. Reconciles(p) /\ Reconciling(p)
  BY <1>1 DEF Reconciles, Reconciling, At
<1>3. OnTimeStays(p)'
  BY <1>1, <1>2, OnTimeKept
<1>4. ReadSums(p)'
  <2> SUFFICES ASSUME NEW u \in User PROVE task'[p].sums[u] <= Credits(u)'
    BY <1>1 DEF ReadSums, At
  <2>1. task[p].sums[u] <= Paid(u)
    BY <1>1 DEF Verdict, ReadSums
  <2>2. Paid(u) \in Nat /\ manual[u] \in Nat /\ task[p].sums[u] \in Nat
    BY <1>0, PaidIsNat DEF BookTypes, Locals
  <2>3. task'[p].sums[u] <= Credits(u)
    BY <1>1, <2>1, <2>2 DEF Credits
  <2> QED
    BY <1>2, <2>3, DebtsStand
<1>5. ReadCredits(p)' /\ ReadRows(p)' /\ CreditsCover(p)' /\ Acquitted(p)'
  BY <1>1 DEF ReadCredits, ReadRows, CreditsCover, Acquitted, At
<1>6. Convicted(p)'
  BY <1>1, <1>2 DEF Verdict, Convicted, At
<1> QED
  BY <1>3, <1>4, <1>5, <1>6 DEF Verdict

\* Who is not among the debtors is not overdue.
LEMMA SumInvoicesVerdict ==
  ASSUME WorldTypes, BookTypes, TaskTypes, NEW p \in Proc, Verdict(p), SumInvoices(p)
  PROVE  Verdict(p)'
<1>0. task \in [Proc -> Locals] /\ task[p] \in Locals
  BY DEF TaskTypes
<1>1. /\ task'[p].pc = "debtors" /\ task'[p].moment = task[p].moment /\ At(p, "owed")
      /\ task'[p].owing = task[p].owing /\ task'[p].late = task[p].late
      /\ task'[p].todo = {u \in User : task[p].sums[u] < Owed(u, Billed(u))}
  BY <1>0 DEF SumInvoices, Locals
<1>2. Reconciles(p) /\ Reconciling(p)
  BY <1>1 DEF Reconciles, Reconciling, At
<1>3. OnTimeStays(p)'
  BY <1>1, <1>2, OnTimeKept
<1>4. ASSUME NEW u \in User, u \notin task'[p].todo PROVE NeverLate(u, p)'
  <2>1. NeverLate(u, p)
    <3> SUFFICES ASSUME NEW q \in Billed(u), Credits(u) < Owed(u, {r \in Billed(u) : r <= q})
                 PROVE  FALSE
      BY DEF NeverLate, IsLate
    <3> DEFINE S == {r \in Billed(u) : r <= q}
    <3>1. S \in SUBSET Billed(u)
      OBVIOUS
    <3>2. Owed(u, S) <= Owed(u, Billed(u)) /\ Owed(u, S) \in Nat /\ Owed(u, Billed(u)) \in Nat
      BY <3>1, OwedGrows, OwedIsNat
    <3>3. task[p].sums[u] <= Credits(u) /\ task[p].sums[u] \in Nat
      BY <1>0, <1>1 DEF Verdict, ReadSums, Locals
    <3>4. ~(task[p].sums[u] < Owed(u, Billed(u)))
      BY <1>1, <1>4
    <3>5. Credits(u) \in Nat
      BY PaidIsNat DEF Credits, BookTypes
    <3>6. Credits(u) < Owed(u, S)
      OBVIOUS
    <3> HIDE DEF S
    <3> QED
      BY <3>2, <3>3, <3>4, <3>5, <3>6
  <2> QED
    BY <1>1, <1>2, <2>1, LatenessStands
<1>5. Acquitted(p)'
  <2>1. \A u \in Judged(p)' : u \in User /\ u \notin task'[p].todo
    BY DEF Judged
  <2> QED
    BY <1>1, <1>4, <2>1 DEF Acquitted, At
<1>6. ReadSums(p)' /\ ReadCredits(p)' /\ ReadRows(p)' /\ CreditsCover(p)'
  BY <1>1 DEF ReadSums, ReadCredits, ReadRows, CreditsCover, At
<1>7. Convicted(p)'
  BY <1>1, <1>2 DEF Verdict, Convicted, At
<1> QED
  BY <1>3, <1>5, <1>6, <1>7 DEF Verdict

\* A debtor's turn begins with the invoices.
LEMMA ListInvoicesVerdict ==
  ASSUME WorldTypes, BookTypes, TaskTypes, NEW p \in Proc, Verdict(p),
         NEW u \in User, ListInvoices(p, u)
  PROVE  Verdict(p)'
<1>0. task \in [Proc -> Locals] /\ task[p] \in Locals
  BY DEF TaskTypes
<1>1. /\ task'[p].pc = "paid" /\ task'[p].moment = task[p].moment /\ At(p, "debtors")
      /\ task'[p].owing = task[p].owing /\ task'[p].late = task[p].late
      /\ task'[p].todo = task[p].todo \ {u} /\ task'[p].user = u /\ task'[p].rows = Billed(u)
  BY <1>0 DEF ListInvoices, Locals
<1>2. Reconciles(p) /\ Reconciling(p)
  BY <1>1 DEF Reconciles, Reconciling, At
<1>3. OnTimeStays(p)'
  BY <1>1, <1>2, OnTimeKept
<1>4. ReadRows(p)'
  <2>1. Billed(u)' = Billed(u)
    BY <1>2, DebtsStand
  <2> QED
    BY <1>1, <2>1 DEF ReadRows, Billed
<1>5. Acquitted(p)'
  <2>1. Judged(p)' \subseteq Judged(p)
    BY <1>1 DEF Judged, At
  <2> QED
    BY <1>1, <1>2, <2>1, AcquittedKept DEF Turns, At
<1>6. ReadSums(p)' /\ ReadCredits(p)' /\ CreditsCover(p)'
  BY <1>1 DEF ReadSums, ReadCredits, CreditsCover, At
<1>7. Convicted(p)'
  BY <1>1, <1>2 DEF Verdict, Convicted, At
<1> QED
  BY <1>3, <1>4, <1>5, <1>6, <1>7 DEF Verdict

\* The credits are read after the invoices, so they reach all that a user who is
\* not overdue has to pay.
LEMMA ReadPaidVerdict ==
  ASSUME WorldTypes, BookTypes, TaskTypes, NEW p \in Proc, Verdict(p),
         At(p, "paid"), ReadPaid(p, "credits")
  PROVE  Verdict(p)'
<1>0. task \in [Proc -> Locals] /\ task[p] \in Locals /\ task[p].user \in User
  BY DEF TaskTypes, Fit, At, UserSteps
<1>1. /\ task'[p].pc = "credits" /\ task'[p].moment = task[p].moment
      /\ task'[p].owing = task[p].owing /\ task'[p].late = task[p].late
      /\ task'[p].todo = task[p].todo /\ task'[p].user = task[p].user
      /\ task'[p].rows = task[p].rows /\ task'[p].num = Paid(task[p].user)
  BY <1>0 DEF ReadPaid, Locals
<1>2. Reconciles(p) /\ Reconciling(p)
  BY DEF Reconciles, Reconciling, At
<1>3. OnTimeStays(p)'
  BY <1>1, <1>2, OnTimeKept
<1> PICK u \in User : u = task[p].user
  BY <1>0
<1>4. UNCHANGED <<payments, sent, manual, invoices>> /\ Billed(u)' = Billed(u) /\ Paid(u)' = Paid(u)
  BY <1>2, DebtsStand
<1>5. /\ Billed(u) \in SUBSET Period /\ task[p].rows \subseteq Billed(u)
      /\ \A q \in Billed(u) : invoices[u][q].due < task[p].moment =>
           {r \in Billed(u) : r <= q} \subseteq task[p].rows
  BY DEF Verdict, ReadRows, Billed
<1>6. ReadRows(p)'
  BY <1>1, <1>4, <1>5 DEF ReadRows, Billed
<1>7. ReadCredits(p)'
  <2>1. task'[p].num <= Paid(u)'
    BY <1>1, <1>4, PaidIsNat
  <2> QED
    BY <1>1, <2>1 DEF ReadCredits, Paid, PaidBy
<1>8. CreditsCover(p)'
  <2> SUFFICES ASSUME u \notin task[p].late, NEW q \in task[p].rows,
                      invoices[u][q].due < task[p].moment
               PROVE  Owed(u, {r \in task[p].rows : r <= q}) <= Paid(u) + manual[u]
    BY <1>1, <1>4 DEF CreditsCover, Owed
  <2> DEFINE S == {r \in task[p].rows : r <= q}
             B == {r \in Billed(u) : r <= q}
  <2>1. S \in SUBSET B /\ B \in SUBSET Billed(u)
    BY <1>5
  <2>2. NeverLate(u, p) /\ q \in Billed(u)
    BY <1>2, <1>5 DEF Verdict, OnTimeStays
  <2>3. ~(Credits(u) < Owed(u, B))
    BY <2>2 DEF NeverLate, IsLate
  <2>4. S \in SUBSET Billed(u) /\ Owed(u, B) \in Nat
    BY <2>1, OwedIsNat
  <2> HIDE DEF S, B
  <2>5. Owed(u, S) \in Nat /\ Owed(u, S) <= Owed(u, B)
    BY <2>1, <2>4, OwedIsNat, OwedGrows
  <2>6. Credits(u) \in Nat /\ Credits(u) = Paid(u) + manual[u]
    BY PaidIsNat DEF Credits, BookTypes
  <2>7. Owed(u, S) <= Paid(u) + manual[u]
    BY <2>3, <2>4, <2>5, <2>6
  <2> QED
    BY <2>7 DEF S
<1>9. Acquitted(p)'
  <2>1. Judged(p)' \subseteq Judged(p)
    BY <1>1 DEF Judged, At
  <2> QED
    BY <1>1, <1>2, <2>1, AcquittedKept DEF Turns, At
<1>10. ReadSums(p)'
  BY <1>1 DEF ReadSums, At
<1>11. Convicted(p)'
  BY <1>1, <1>2 DEF Verdict, Convicted, At
<1> QED
  BY <1>3, <1>6, <1>7, <1>8, <1>9, <1>10, <1>11 DEF Verdict

\* A user who is found overdue was overdue from the start; one who is not is not
\* overdue now.
LEMMA ClassifyVerdict ==
  ASSUME WorldTypes, BookTypes, TaskTypes, NEW p \in Proc, Verdict(p), Classify(p)
  PROVE  Verdict(p)'
<1>0. task \in [Proc -> Locals] /\ task[p] \in Locals /\ task[p].user \in User /\ At(p, "credits")
  BY DEF TaskTypes, Fit, Classify, At, UserSteps
<1> DEFINE l == task[p]
           credits == l.num + manual[l.user]
           overdue == Overdue(l.user, l.rows, credits, l.moment)
<1>1. /\ task'[p].pc \in {"remind", "suspend", "debtors"}
      /\ task'[p].moment = l.moment /\ task'[p].late = l.late
      /\ task'[p].todo = l.todo /\ task'[p].user = l.user
      /\ task'[p].pc = "suspend" => overdue # {}
      /\ task'[p].owing = Owing(p, overdue)
  <2> DEFINE open == Uncovered(l.user, l.rows, credits)
             remind == {q \in open \ overdue : /\ RemindIn > 0
                                               /\ invoices[l.user][q].due - l.moment <= RemindIn}
             pc == IF remind # {} THEN "remind" ELSE IF overdue # {} THEN "suspend" ELSE "debtors"
  <2>1. task' = [task EXCEPT ![p].pc = pc, ![p].rows = remind,
                             ![p].owing = Owing(p, overdue), ![p].num = 0]
    BY DEF Classify
  <2>2. pc \in {"remind", "suspend", "debtors"} /\ (pc = "suspend" => overdue # {})
    OBVIOUS
  <2> HIDE DEF pc, remind, open, overdue
  <2>3. task'[p] = [task[p] EXCEPT !.pc = pc, !.rows = remind, !.owing = Owing(p, overdue), !.num = 0]
    BY <1>0, <2>1
  <2> QED
    BY <1>0, <2>2, <2>3 DEF Locals
<1>2. Reconciles(p) /\ Reconciling(p)
  BY <1>0 DEF Reconciles, Reconciling, At
<1>3. OnTimeStays(p)'
  BY <1>1, <1>2, OnTimeKept
<1> PICK u \in User : u = task[p].user
  BY <1>0
<1>4. /\ l.rows \subseteq Billed(u) /\ Billed(u) \subseteq Period
      /\ \A q \in Billed(u) : invoices[u][q].due < l.moment => {r \in Billed(u) : r <= q} \subseteq l.rows
  BY <1>0 DEF Verdict, ReadRows, Billed
<1>5. /\ l.num \in Nat /\ manual[u] \in Nat /\ Paid(u) \in Nat /\ l.num <= Paid(u)
      /\ credits = l.num + manual[u] /\ Credits(u) = Paid(u) + manual[u]
  BY <1>0, PaidIsNat DEF Locals, BookTypes, Verdict, ReadCredits, Credits
<1>6. \A q : q \in overdue <=> /\ q \in l.rows /\ invoices[u][q].due < l.moment
                               /\ credits < Owed(u, {r \in l.rows : r <= q})
  BY DEF Overdue, Uncovered
<1>7. Owing(p, overdue) = l.owing \cup IF overdue # {} THEN {u} ELSE {}
  BY DEF Owing
<1>8. overdue # {} => u \in l.late
  <2> SUFFICES ASSUME NEW q \in overdue, u \notin l.late PROVE FALSE
    OBVIOUS
  <2> DEFINE S == {r \in l.rows : r <= q}
  <2>1. q \in l.rows /\ invoices[u][q].due < l.moment /\ credits < Owed(u, S)
    BY <1>6
  <2>2. Owed(u, S) <= l.num + manual[u]
    BY <1>0, <2>1 DEF Verdict, CreditsCover
  <2>3. S \in SUBSET Billed(u)
    BY <1>4
  <2>4. Owed(u, S) \in Nat
    BY <2>3, OwedIsNat
  <2> HIDE DEF S, overdue, credits
  <2> QED
    BY <1>5, <2>1, <2>2, <2>4
<1>9. overdue = {} => NeverLate(u, p)
  <2> SUFFICES ASSUME overdue = {}, NEW q \in Billed(u), invoices[u][q].due < l.moment,
                      Credits(u) < Owed(u, {r \in Billed(u) : r <= q})
               PROVE  FALSE
    BY DEF NeverLate, IsLate
  <2> DEFINE S == {r \in l.rows : r <= q}
             B == {r \in Billed(u) : r <= q}
  <2>1. B \subseteq l.rows /\ q \in Nat
    BY <1>4, PeriodIsFinite
  <2>2. S = B /\ q \in l.rows
    BY <1>4, <2>1
  <2>3. ~(credits < Owed(u, S))
    BY <1>6, <2>2
  <2>4. B \in SUBSET Billed(u)
    OBVIOUS
  <2>5. Owed(u, B) \in Nat
    BY <2>4, OwedIsNat
  <2>6. Credits(u) < Owed(u, B)
    OBVIOUS
  <2> HIDE DEF S, B, overdue, credits
  <2> QED
    BY <1>5, <2>2, <2>3, <2>5, <2>6
<1> HIDE DEF overdue, credits
<1>10. Convicted(p)'
  <2>1. l.owing \subseteq l.late
    BY <1>2 DEF Verdict, Convicted
  <2>2. task'[p].owing \subseteq task'[p].late
    BY <1>1, <1>7, <1>8, <2>1
  <2>3. task'[p].pc = "suspend" => task'[p].user \in task'[p].owing
    BY <1>1, <1>7
  <2> QED
    BY <2>2, <2>3 DEF Convicted, At
<1>11. Acquitted(p)'
  <2> SUFFICES ASSUME NEW v \in Judged(p)' PROVE NeverLate(v, p)'
    BY <1>1 DEF Acquitted, At
  <2>1. v \in User /\ v \notin l.todo /\ v \notin Owing(p, overdue)
    BY <1>1 DEF Judged
  <2>2. NeverLate(v, p)
    <3>1. CASE v = u
      BY <1>7, <1>9, <2>1, <3>1
    <3>2. CASE v # u
      <4>1. v \in Judged(p)
        BY <1>7, <2>1, <3>2 DEF Judged
      <4> QED
        BY <1>0, <4>1 DEF Verdict, Acquitted, At
    <3> QED
      BY <3>1, <3>2
  <2> QED
    BY <1>1, <1>2, <2>1, <2>2, LatenessStands
<1>12. ReadSums(p)' /\ ReadCredits(p)' /\ ReadRows(p)' /\ CreditsCover(p)'
  BY <1>1 DEF ReadSums, ReadCredits, ReadRows, CreditsCover, At
<1> QED
  BY <1>3, <1>10, <1>11, <1>12 DEF Verdict

\* Reminders find out nothing new.
LEMMA RemindVerdict ==
  ASSUME WorldTypes, BookTypes, TaskTypes, NEW p \in Proc, Verdict(p),
         NEW q \in Period, Remind(p, q)
  PROVE  Verdict(p)'
<1>0. task \in [Proc -> Locals] /\ task[p] \in Locals /\ At(p, "remind")
  BY DEF TaskTypes, Remind
<1>1. /\ task'[p].pc \in {"remind", "suspend", "debtors"}
      /\ task'[p].moment = task[p].moment /\ task'[p].late = task[p].late
      /\ task'[p].todo = task[p].todo /\ task'[p].user = task[p].user
      /\ task'[p].owing = task[p].owing
      /\ task'[p].pc = "suspend" => task[p].user \in task[p].owing
  <2> DEFINE rest == task[p].rows \ {q}
             pc == IF rest # {} THEN task[p].pc ELSE AfterReminders(p, task[p].owing)
             k == [task[p] EXCEPT !.rows = rest, !.pc = pc]
  <2>1. task' = [task EXCEPT ![p] = k]
    BY <1>0 DEF Remind
  <2>2. pc \in {"remind", "suspend", "debtors"} /\ (pc = "suspend" => task[p].user \in task[p].owing)
    BY <1>0 DEF AfterReminders, At
  <2> HIDE DEF pc, rest
  <2> QED
    BY <1>0, <2>1, <2>2 DEF Locals
<1>2. Reconciles(p) /\ Reconciling(p)
  BY <1>0 DEF Reconciles, Reconciling, At
<1>3. OnTimeStays(p)'
  BY <1>1, <1>2, OnTimeKept
<1>4. Acquitted(p)'
  <2>1. Judged(p)' \subseteq Judged(p)
    BY <1>0, <1>1 DEF Judged, At
  <2> QED
    BY <1>0, <1>1, <1>2, <2>1, AcquittedKept DEF Turns, At
<1>5. ReadSums(p)' /\ ReadCredits(p)' /\ ReadRows(p)' /\ CreditsCover(p)'
  BY <1>1 DEF ReadSums, ReadCredits, ReadRows, CreditsCover, At
<1>6. Convicted(p)'
  BY <1>1, <1>2 DEF Verdict, Convicted, At
<1> QED
  BY <1>3, <1>4, <1>5, <1>6 DEF Verdict

\* The suspension of a user, done or failed.
LEMMA SuspendVerdict ==
  ASSUME WorldTypes, BookTypes, TaskTypes, NEW p \in Proc, Verdict(p),
         At(p, "suspend"), Suspend(p) \/ AccessFails(p)
  PROVE  Verdict(p)'
<1>0. task \in [Proc -> Locals] /\ task[p] \in Locals
  BY DEF TaskTypes
<1>1. /\ task'[p].pc = "debtors"
      /\ task'[p].moment = task[p].moment /\ task'[p].late = task[p].late
      /\ task'[p].todo = task[p].todo /\ task'[p].user = task[p].user
      /\ task'[p].owing = task[p].owing
  <2>1. task' = [task EXCEPT ![p].pc = "debtors"]
    BY DEF Suspend, AccessFails, At
  <2> QED
    BY <1>0, <2>1 DEF Locals
<1>2. Reconciles(p) /\ Reconciling(p)
  BY DEF Reconciles, Reconciling, At
<1>3. OnTimeStays(p)'
  BY <1>1, <1>2, OnTimeKept
<1>4. Acquitted(p)'
  <2>1. Judged(p)' \subseteq Judged(p)
    BY <1>1 DEF Judged, At
  <2> QED
    BY <1>1, <1>2, <2>1, AcquittedKept DEF Turns, At
<1>5. ReadSums(p)' /\ ReadCredits(p)' /\ ReadRows(p)' /\ CreditsCover(p)'
  BY <1>1 DEF ReadSums, ReadCredits, ReadRows, CreditsCover, At
<1>6. Convicted(p)'
  BY <1>1, <1>2 DEF Verdict, Convicted, At
<1> QED
  BY <1>3, <1>4, <1>5, <1>6 DEF Verdict

\* After the last debtor, everybody who does not owe has been judged.
LEMMA ListSuspendedVerdict ==
  ASSUME WorldTypes, BookTypes, TaskTypes, NEW p \in Proc, Verdict(p), ListSuspended(p)
  PROVE  Verdict(p)'
<1>0. task \in [Proc -> Locals] /\ task[p] \in Locals /\ At(p, "debtors") /\ task[p].todo = {}
  BY DEF TaskTypes, ListSuspended
<1>1. /\ task'[p].pc = "restore"
      /\ task'[p].moment = task[p].moment /\ task'[p].late = task[p].late
      /\ task'[p].todo = {u \in User : access[u] = "suspended"} \ task[p].owing
      /\ task'[p].owing = task[p].owing
  BY <1>0 DEF ListSuspended, Locals
<1>2. Reconciles(p) /\ Reconciling(p)
  BY <1>0 DEF Reconciles, Reconciling, At
<1>3. OnTimeStays(p)'
  BY <1>1, <1>2, OnTimeKept
<1>4. Acquitted(p)'
  <2> SUFFICES ASSUME NEW u \in task'[p].todo PROVE NeverLate(u, p)'
    BY <1>1 DEF Acquitted, At
  <2>1. u \in User /\ u \in Judged(p)
    BY <1>0, <1>1 DEF Judged, At
  <2>2. NeverLate(u, p)
    BY <1>0, <2>1 DEF Verdict, Acquitted, At
  <2> QED
    BY <1>1, <1>2, <2>1, <2>2, LatenessStands
<1>5. ReadSums(p)' /\ ReadCredits(p)' /\ ReadRows(p)' /\ CreditsCover(p)'
  BY <1>1 DEF ReadSums, ReadCredits, ReadRows, CreditsCover, At
<1>6. Convicted(p)'
  BY <1>1, <1>2 DEF Verdict, Convicted, At
<1> QED
  BY <1>3, <1>4, <1>5, <1>6 DEF Verdict

\* The return of a user, done or failed.
LEMMA RestoreVerdict ==
  ASSUME WorldTypes, BookTypes, TaskTypes, NEW p \in Proc, Verdict(p),
         At(p, "restore"), AccessFails(p) \/ \E u \in User : Restore(p, u)
  PROVE  Verdict(p)'
<1>0. task \in [Proc -> Locals] /\ task[p] \in Locals /\ task[p].todo \subseteq User
  BY DEF TaskTypes, Fit, At, PollSteps
<1>1. PICK u : task' = [task EXCEPT ![p].todo = @ \ {u}]
  BY DEF Restore, AccessFails, At
<1>2. /\ task'[p].pc = "restore"
      /\ task'[p].moment = task[p].moment /\ task'[p].late = task[p].late
      /\ task'[p].todo \subseteq task[p].todo /\ task'[p].owing = task[p].owing
  BY <1>0, <1>1 DEF Locals, At
<1>3. Reconciles(p) /\ Reconciling(p)
  BY DEF Reconciles, Reconciling, At
<1>4. OnTimeStays(p)'
  BY <1>2, <1>3, OnTimeKept
<1>5. Acquitted(p)'
  <2> SUFFICES ASSUME NEW v \in task'[p].todo PROVE NeverLate(v, p)'
    BY <1>2 DEF Acquitted, At
  <2>1. v \in User /\ NeverLate(v, p)
    BY <1>0, <1>2 DEF Verdict, Acquitted, At
  <2> QED
    BY <1>2, <1>3, <2>1, LatenessStands
<1>6. ReadSums(p)' /\ ReadCredits(p)' /\ ReadRows(p)' /\ CreditsCover(p)'
  BY <1>2 DEF ReadSums, ReadCredits, ReadRows, CreditsCover, At
<1>7. Convicted(p)'
  BY <1>2, <1>3 DEF Verdict, Convicted, At
<1> QED
  BY <1>4, <1>5, <1>6, <1>7 DEF Verdict

\* A task that does not reconcile has found out nothing.
LEMMA NoVerdict ==
  ASSUME NEW p \in Proc, ~Reconciling(p)
  PROVE  Verdict(p)
BY DEF Verdict, Reconciling, OnTimeStays, ReadSums, ReadCredits, ReadRows, CreditsCover, Convicted,
       Acquitted, At

\* All of them together.
LEMMA VerdictsStep ==
  ASSUME WorldTypes, BookTypes, TaskTypes, NewestFirst, Shown, OneVerdict, Verdicts, Next
  PROVE  Verdicts'
<1> SUFFICES ASSUME NEW p \in Proc PROVE Verdict(p)'
  BY DEF Verdicts, Proc
<1>0. Verdict(p)
  BY DEF Verdicts
<1>1. CASE task'[p] = task[p]
  BY <1>0, <1>1, VerdictStands
<1>2. ASSUME ~Reconciling(p)' PROVE Verdict(p)'
  BY <1>2 DEF Verdict, Reconciling, OnTimeStays, ReadSums, ReadCredits, ReadRows, CreditsCover,
              Convicted, Acquitted, At
<1>3. CASE task'[p] \in {Rest("idle"), Rest("done")}
  <2>1. ~Reconciling(p)'
    BY <1>3 DEF Reconciling, Rest
  <2> QED
    BY <1>2, <2>1
<1>4. ASSUME Own(p), Reconciling(p)' PROVE Verdict(p)'
  <2>1. Reconciles(p)
    BY <1>4, ReconcilingSteps
  <2>2. AccessFails(p) => At(p, "suspend") \/ At(p, "restore")
    BY DEF AccessFails
  <2>3. (Suspend(p) => At(p, "suspend")) /\ \A u \in User : Restore(p, u) => At(p, "restore")
    BY DEF Suspend, Restore
  <2>4. ASSUME SumPayments(p) \/ SumManual(p) \/ SumInvoices(p) PROVE Verdict(p)'
    BY <1>0, <2>4, SumPaymentsVerdict, SumManualVerdict, SumInvoicesVerdict
  <2>5. ASSUME At(p, "paid"), ReadPaid(p, "credits") PROVE Verdict(p)'
    BY <1>0, <2>5, ReadPaidVerdict
  <2>6. ASSUME Classify(p) \/ ListSuspended(p) PROVE Verdict(p)'
    BY <1>0, <2>6, ClassifyVerdict, ListSuspendedVerdict
  <2>7. ASSUME Suspend(p) \/ AccessFails(p) \/ \E u \in User : Restore(p, u) PROVE Verdict(p)'
    BY <1>0, <2>2, <2>3, <2>7, SuspendVerdict, RestoreVerdict
  <2>8. ASSUME NEW u \in User, ListInvoices(p, u) PROVE Verdict(p)'
    BY <1>0, <2>8, ListInvoicesVerdict
  <2>9. ASSUME NEW q \in Period, Remind(p, q) PROVE Verdict(p)'
    BY <1>0, <2>9, RemindVerdict
  <2> QED
    BY <2>1, <2>4, <2>5, <2>6, <2>7, <2>8, <2>9 DEF Reconciles
<1> QED
  BY <1>1, <1>2, <1>3, <1>4, OthersStay

(***************************************************************************)
(* The invariants.                                                         *)
(***************************************************************************)
\* What holds whatever the operator does with the accepted assets.
IInv == Basis /\ HistoryInv
\* What holds if they are edited only while every payment is known in full.
VInv == IInv /\ OneVerdict /\ Verdicts

\* At first nothing is billed, sent or running.
LEMMA InitBasis == Init => Basis
<1> SUFFICES ASSUME Init PROVE Basis
  OBVIOUS
<1>0. 0 \in 0 .. MaxTime /\ 0 \in 0 .. MaxFaults /\ now = 0
  BY PaymentsAssumption, BillingAssumption DEF Init, PaymentsInit
<1>1. WorldTypes
  BY <1>0 DEF Init, PaymentsInit, WorldTypes
<1>2. BookTypes
  BY BillingAssumption DEF Init, PaymentsInit, BookTypes
<1>3. TaskTypes
  <2>1. Rest("idle") \in Locals /\ Fit(Rest("idle"), now)
    BY <1>0, RestFits
  <2> QED
    BY <2>1 DEF Init, TaskTypes
<1>4. NewestFirst
  <2>1. \A p \in Proc : task[p].pc = "idle"
    BY DEF Init, Rest
  <2>2. \A u \in User : Billed(u) = {}
    BY DEF Init, Billed
  <2>3. ~Passing
    BY <2>1 DEF Passing, Issuing, IssueSteps, At, Proc
  <2> QED
    BY <2>1, <2>2, <2>3 DEF NewestFirst, Issuing, IssueSteps
<1> QED
  BY <1>1, <1>2, <1>3, <1>4 DEF Basis

LEMMA InitInvariant == Init => VInv
<1> SUFFICES ASSUME Init PROVE VInv
  OBVIOUS
<1>1. Basis
  BY InitBasis
<1>2. \A p \in Proc : task[p].pc = "idle"
  BY DEF Init, Rest
<1>3. \A u \in User : Billed(u) = {}
  BY DEF Init, Billed
<1>4. \A t \in Tx : ~Sent(t) /\ shown[t] = 0 /\ payments[t] = NoPayment
  BY DEF Init, PaymentsInit, Sent
<1>5. ~At(Loop, "allocate") /\ ~At(Loop, "insert") /\ ~At(Loop, "record") /\ ~At(Loop, "ask")
  BY <1>2 DEF At, Proc
<1>6. Addressed
  <2>1. \A u \in User, n \in Network : address[u][n] \notin Nat
    BY PaymentsAssumption DEF Init, PaymentsInit
  <2> QED
    BY <1>3, <1>4, <1>5, <2>1 DEF Addressed, InvoicesCanBePaid
<1>7. Reminded
  BY DEF Init, Reminded
<1>8. Shown
  BY <1>4, <1>5, PaymentsAssumption DEF Shown
<1>9. Answered /\ PaymentsAreRecorded
  BY <1>4, <1>5 DEF Answered, PaymentsAreRecorded
<1>10. OneVerdict
  BY <1>4, <1>5 DEF OneVerdict
<1>11. Verdicts
  BY <1>2, NoVerdict DEF Verdicts, Reconciling
<1> QED
  BY <1>1, <1>6, <1>7, <1>8, <1>9, <1>10, <1>11 DEF VInv, IInv, HistoryInv

\* A step of something else changes nothing of this.
LEMMA StutterStep ==
  ASSUME UNCHANGED vars
  PROVE  (IInv => IInv') /\ (VInv => VInv')
<1>1. UNCHANGED <<now, sent, shown, accepted, mode, faults, address, payments, manual, invoices, access,
                  network, wallets, notices, letters, task>>
  BY DEF vars, env, chain, store, books
<1>2. Basis => Basis'
  BY <1>1 DEF Basis, WorldTypes, BookTypes, TaskTypes, NewestFirst, Passing, Issuing, Billed, At
<1>3. HistoryInv => HistoryInv'
  BY <1>1 DEF HistoryInv, Addressed, Reminded, Shown, Answered, PaymentsAreRecorded, InvoicesCanBePaid,
              Sent, SentTo, Fully, Billed, At
<1>4. OneVerdict => OneVerdict'
  BY <1>1 DEF OneVerdict, Fully, At
<1>5. Verdicts => Verdicts'
  <2> SUFFICES ASSUME NEW p \in Proc, Verdict(p) PROVE Verdict(p)'
    BY DEF Verdicts, Proc
  <2>1. \A u \in User : NeverLate(u, p)' = NeverLate(u, p)
    BY <1>1 DEF NeverLate, IsLate, Billed, Credits, Paid, PaidBy, Owed
  <2>2. Judged(p)' = Judged(p) /\ Judged(p) \subseteq User
    BY <1>1 DEF Judged, At
  <2>3. OnTimeStays(p)' = OnTimeStays(p) /\ Convicted(p)' = Convicted(p)
    BY <1>1, <2>1 DEF OnTimeStays, Convicted, Reconciling, At
  <2>4. ReadSums(p)' = ReadSums(p) /\ ReadCredits(p)' = ReadCredits(p) /\ ReadRows(p)' = ReadRows(p)
    BY <1>1 DEF ReadSums, ReadCredits, ReadRows, At, Paid, PaidBy, Credits, Billed
  <2>5. CreditsCover(p)' = CreditsCover(p)
    BY <1>1 DEF CreditsCover, Owed, At
  <2>6. Acquitted(p) = Acquitted(p)'
    BY <1>1 DEF Acquitted, Judged, At, NeverLate, IsLate, Billed, Credits, Paid, PaidBy, Owed
  <2> QED
    BY <2>3, <2>4, <2>5, <2>6 DEF Verdict
<1> QED
  BY <1>2, <1>3, <1>4, <1>5 DEF IInv, VInv

\* Both parts are inductive.
LEMMA InvariantStep ==
  ASSUME IInv, Next
  PROVE  IInv'
BY TaskTypesStep, WorldTypesStep, BookTypesStep, NewestFirstStep, AddressedStep, RemindedStep,
   ShownStep, AnsweredStep, PaymentsAreRecordedStep DEF IInv, Basis, HistoryInv

LEMMA VerdictInvariantStep ==
  ASSUME KnownInFull, VInv, Next
  PROVE  VInv'
BY InvariantStep, OneVerdictStep, VerdictsStep DEF VInv, IInv, Basis, HistoryInv

\* Both parts hold.
LEMMA Invariant == Spec => []IInv
<1>1. Init => IInv
  BY InitInvariant DEF VInv
<1>2. IInv /\ [Next]_vars => IInv'
  BY InvariantStep, StutterStep
<1> HIDE DEF Init, Next, vars, IInv
<1> QED
  BY <1>1, <1>2, PTL DEF Spec

LEMMA VerdictInvariant ==
  ASSUME KnownInFull
  PROVE  Spec => []VInv
<1>1. Init => VInv
  BY InitInvariant
<1>2. VInv /\ [Next]_vars => VInv'
  BY VerdictInvariantStep, StutterStep
<1> HIDE DEF Init, Next, vars, VInv
<1> QED
  BY <1>1, <1>2, PTL DEF Spec

(***************************************************************************)
(* Theorems.                                                               *)
(***************************************************************************)
\* The rows of billing.db and the locals of the loop and of the calls have the
\* types that the code gives them, and no pass or call outlives its time.
THEOREM TypeCorrect == Spec => []TypeOK
<1>1. IInv => TypeOK
  <2> SUFFICES ASSUME IInv PROVE TypeOK
    OBVIOUS
  <2>0. WorldTypes /\ BookTypes /\ TaskTypes /\ Shown
    BY DEF IInv, Basis, HistoryInv
  <2>1. ASSUME NEW t \in Tx
        PROVE  \/ sent[t] = NoPayment /\ shown[t] = 0
               \/ /\ sent[t] \in [user : User, net : Network, at : 0 .. MaxTime]
                  /\ shown[t] \in 0 .. Parts[t]
    <3>1. sent[t] \in {NoPayment} \cup Transfer /\ shown[t] \in Nat /\ Parts[t] \in Nat
      BY <2>0, PaymentsAssumption DEF WorldTypes
    <3> QED
      BY <2>0, <3>1 DEF Shown, Sent, Transfer
  <2>2. ASSUME NEW t \in Tx
        PROVE  payments[t] \in {NoPayment} \cup [amount : 1 .. Parts[t], value : 0 .. Parts[t]]
    <3> SUFFICES ASSUME payments[t] # NoPayment
                 PROVE  payments[t] \in [amount : 1 .. Parts[t], value : 0 .. Parts[t]]
      OBVIOUS
    <3>1. /\ payments[t] = [amount |-> payments[t].amount, value |-> payments[t].value]
          /\ payments[t].amount \in Nat /\ payments[t].value \in Nat
          /\ Parts[t] \in Nat /\ shown[t] \in Nat
      BY <2>0, PaymentsAssumption DEF WorldTypes, BookTypes, Payment
    <3>2. /\ 0 < payments[t].amount /\ payments[t].amount <= shown[t]
          /\ payments[t].value <= shown[t] /\ shown[t] <= Parts[t]
      BY <2>0 DEF Shown
    <3>3. payments[t].amount \in 1 .. Parts[t] /\ payments[t].value \in 0 .. Parts[t]
      BY <3>1, <3>2
    <3> QED
      BY <3>1, <3>3
  <2>3. PaymentsTypeOK
    BY <2>0, <2>1, <2>2 DEF PaymentsTypeOK, WorldTypes, BookTypes
  <2>4. ASSUME NEW p \in Proc
        PROVE  LET l == task[p] IN
        /\ l.pc \in Steps /\ l.moment \in 0 .. now
        /\ l.todo \subseteq User \/ l.todo \subseteq User \X Network
        /\ l.owing \subseteq User /\ l.late \subseteq User /\ l.rows \subseteq Period
        /\ l.user \in User \cup {NoUser} /\ l.net \in Network \cup {NoNetwork}
        /\ l.num \in Nat /\ l.sums \in [User -> Nat] /\ l.answer \in [Tx -> Nat]
        /\ l.isPayment \in BOOLEAN /\ l.checking \in BOOLEAN
        /\ Running(p) => now - l.moment <= PassTime
    <3>1. task[p] \in Locals /\ Fit(task[p], now)
      BY <2>0 DEF TaskTypes
    <3>2. task[p].moment \in 0 .. now
      BY <2>0, <3>1, PaymentsAssumption DEF Locals, Fit, WorldTypes
    <3> QED
      BY <3>1, <3>2 DEF Locals, Fit, Running
  <2>5. \A u \in User, q \in Period : invoices[u][q] \in {NoInvoice} \cup
           [amount : Fee, due : DueIn .. MaxTime + DueIn, net : Network]
    BY <2>0 DEF BookTypes, Invoice
  <2> QED
    BY <2>0, <2>3, <2>4, <2>5 DEF TypeOK, WorldTypes, BookTypes
<1> HIDE DEF Spec, IInv, TypeOK
<1> QED
  BY <1>1, Invariant, PTL

\* check_payments: what arrived on an address before its cursor less the overlap
\* is recorded with every transfer of the transaction, for any number of users,
\* networks and payments, whatever fails and whenever the operator edits the
\* accepted assets.
THEOREM MoneyIsRecorded == Spec => []PaymentsAreRecorded
<1>1. IInv => PaymentsAreRecorded
  BY DEF IInv, HistoryInv
<1> HIDE DEF Spec, IInv, PaymentsAreRecorded
<1> QED
  BY <1>1, Invariant, PTL

\* record_payment: however often a transaction is polled and in whatever pieces
\* the provider shows it, it is worth no more than has arrived.
THEOREM RepeatsEarnNothing == Spec => []NoMoneyFromRepeats
<1>1. IInv => NoMoneyFromRepeats
  BY DEF IInv, HistoryInv, Shown, NoMoneyFromRepeats
<1> HIDE DEF Spec, IInv, NoMoneyFromRepeats
<1> QED
  BY <1>1, Invariant, PTL

\* ensure_invoice_address before insert_invoice: every invoice names a network
\* where its user has an address, though wallets and networks change meanwhile.
THEOREM InvoicesHaveAddresses == Spec => []InvoicesCanBePaid
<1>1. IInv => InvoicesCanBePaid
  BY DEF IInv, HistoryInv, Addressed
<1> HIDE DEF Spec, IInv, InvoicesCanBePaid
<1> QED
  BY <1>1, Invariant, PTL

\* mark_notified: whatever passes and calls run beside each other, fail and start
\* again, an invoice is reminded of once.
THEOREM OneReminder == Spec => []RemindedOnce
<1>1. IInv => RemindedOnce
  <2> SUFFICES ASSUME Reminded PROVE RemindedOnce
    BY DEF IInv, HistoryInv
  <2>1. \A u \in User, q \in Period : letters[u][q] \in {0, 1}
    BY DEF Reminded
  <2> QED
    BY <2>1 DEF RemindedOnce
<1> HIDE DEF Spec, IInv, RemindedOnce
<1> QED
  BY <1>1, Invariant, PTL

\* record_payment: what a user has been credited falls in one way only, when a
\* later answer tops up a transaction known in part whose asset has ceased to be
\* accepted, whatever else fails, repeats or is edited: CreditsNeverShrink but for
\* the flaw that the run billing_topped_up shows.
THEOREM CreditsFallByTopUpsOnly == Spec => FallsAreTopUps
<1> DEFINE OnlySo == \A u \in User : Credits(u)' < Credits(u) => \E t \in Tx : ToppedUpAtNothing(t)
           KInv == IInv /\ Valued
<1>1. KInv /\ [Next]_vars => [OnlySo]_vars
  <2> SUFFICES ASSUME KInv, Next, NEW u \in User, \A t \in Tx : ~ToppedUpAtNothing(t)
               PROVE  ~(Credits(u)' < Credits(u))
    OBVIOUS
  <2>1. WorldTypes /\ BookTypes /\ TaskTypes /\ NewestFirst /\ Shown
    BY DEF IInv, Basis, HistoryInv
  <2>2. RowsKeepTheirValue
    BY <2>1, RowsKeepOtherwise
  <2>3. Credits(u) <= Credits(u)' /\ Credits(u) \in Nat /\ Credits(u)' \in Nat
    BY <2>1, <2>2, CreditsGrow
  <2> QED
    BY <2>3
<1>2. Init => KInv
  <2>1. Init => Valued
    BY DEF Init, PaymentsInit, Valued
  <2> QED
    BY <2>1, InitInvariant DEF VInv
<1>3. KInv /\ [Next]_vars => KInv'
  <2>1. KInv /\ Next => KInv'
    BY InvariantStep, ValuedStep DEF IInv, Basis, HistoryInv
  <2>2. KInv /\ UNCHANGED vars => KInv'
    BY StutterStep DEF Valued, vars, store
  <2> QED
    BY <2>1, <2>2
<1>4. FallsAreTopUps <=> [][OnlySo]_vars
  BY DEF FallsAreTopUps
<1> HIDE DEF Init, Next, vars, KInv, OnlySo
<1> QED
  BY <1>1, <1>2, <1>3, <1>4, PTL DEF Spec

\* _suspend: nobody loses access who was not already overdue when the
\* reconciliation that takes it away began, for any number of users, calls and
\* passes beside each other and whatever arrives between their reads.
THEOREM NobodyIsShutOutOnTime ==
  ASSUME KnownInFull
  PROVE  Spec => SuspensionIsEarned
<1> DEFINE Earned == \A u \in User : Closes(u) =>
               \E p \in Proc : At(p, "suspend") /\ task[p].user = u /\ u \in task[p].late
<1>1. VInv /\ [Next]_vars => [Earned]_vars
  <2> SUFFICES ASSUME VInv, Next, NEW u \in User, Closes(u)
               PROVE  \E p \in Proc : At(p, "suspend") /\ task[p].user = u /\ u \in task[p].late
    OBVIOUS
  <2>0. /\ TaskTypes /\ BookTypes /\ Verdicts /\ access[u] = "ok" /\ access'[u] = "suspended"
        /\ access \in [User -> {"ok", "suspended"}]
    BY DEF VInv, IInv, Basis, Closes, BookTypes
  <2>1. ASSUME NEW p \in Proc, NEW v \in User, Restore(p, v) PROVE FALSE
    BY <2>0, <2>1 DEF Restore
  <2>2. PICK p \in Proc : Suspend(p)
    BY <2>0, <2>1, NextWrites
  <2>3. At(p, "suspend") /\ task[p].user = u
    BY <2>0, <2>2 DEF Suspend
  <2>4. u \in task[p].late
    BY <2>0, <2>3 DEF Verdicts, Verdict, Convicted, Reconciling, At
  <2> QED
    BY <2>3, <2>4
<1>2. SuspensionIsEarned <=> [][Earned]_vars
  BY DEF SuspensionIsEarned
<1> HIDE DEF Init, Next, vars, VInv, Earned
<1> QED
  BY <1>1, <1>2, VerdictInvariant, PTL DEF Spec

\* _restore: nobody is let in who, at that instant, has an invoice that was
\* overdue at the moment of the reconciliation, even one whose suspension failed
\* or was done by another task in between.
THEOREM NoDebtorIsLetIn ==
  ASSUME KnownInFull
  PROVE  Spec => ReopeningIsEarned
<1> DEFINE Earned == \A u \in User : Reopens(u) =>
               \E p \in Proc : At(p, "restore") /\ u \in task[p].todo /\ ~IsLate(u, task[p].moment)
<1>1. VInv /\ [Next]_vars => [Earned]_vars
  <2> SUFFICES ASSUME VInv, Next, NEW u \in User, Reopens(u)
               PROVE  \E p \in Proc : At(p, "restore") /\ u \in task[p].todo
                                      /\ ~IsLate(u, task[p].moment)
    OBVIOUS
  <2>0. /\ TaskTypes /\ BookTypes /\ Verdicts /\ access[u] = "suspended" /\ access'[u] = "ok"
        /\ access \in [User -> {"ok", "suspended"}]
    BY DEF VInv, IInv, Basis, Reopens, BookTypes
  <2>1. ASSUME NEW p \in Proc, Suspend(p) PROVE FALSE
    BY <2>0, <2>1 DEF Suspend
  <2>2. PICK p \in Proc, v \in User : Restore(p, v)
    BY <2>0, <2>1, NextWrites
  <2>3. At(p, "restore") /\ v = u /\ u \in task[p].todo
    BY <2>0, <2>2 DEF Restore
  <2>4. ~IsLate(u, task[p].moment)
    BY <2>0, <2>3 DEF Verdicts, Verdict, Acquitted, NeverLate
  <2> QED
    BY <2>3, <2>4
<1>2. ReopeningIsEarned <=> [][Earned]_vars
  BY DEF ReopeningIsEarned
<1> HIDE DEF Init, Next, vars, VInv, Earned
<1> QED
  BY <1>1, <1>2, VerdictInvariant, PTL DEF Spec

=============================================================================
