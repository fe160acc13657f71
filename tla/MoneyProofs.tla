---------------------------- MODULE MoneyProofs ----------------------------
(***************************************************************************)
(* Proofs about the money the system handles: the income rollup (Ledger)   *)
(* implements the income book (IncomeBook), the reprice job (Reprice)      *)
(* submits no terms outside its guardrails, and order sync (OrderWindow)   *)
(* asks for a window in which no order it knows of is missing.             *)
(*                                                                         *)
(* The first two need what a sum over a finite set is.  The library        *)
(* defines it by a recursive function over the subsets; that such a        *)
(* function exists, is unique and does not depend on the order of the      *)
(* summands is proved first, each time from a smallest counterexample.     *)
(***************************************************************************)
EXTENDS Ledger, Reprice, OrderWindow, FiniteSetTheorems, TLAPS

-----------------------------------------------------------------------------
(* Sums over finite sets *)

\* A property that some subset of a finite set has, a smallest one has.
LEMMA MinimalSubset ==
  ASSUME NEW S, IsFiniteSet(S), NEW Bad \in SUBSET (SUBSET S), Bad # {}
  PROVE  \E R \in Bad : \A U \in SUBSET R : U # R => U \notin Bad
<1>1. IsWellFoundedOn(StrictSubsetOrdering(S), FiniteSubsetsOf(S))
  BY FS_StrictSubsetOrderingWellFounded
<1>2. Bad \subseteq FiniteSubsetsOf(S)
  BY FS_Subset DEF FiniteSubsetsOf
<1>3. PICK R \in Bad : \A U \in Bad : ~(<<U, R>> \in StrictSubsetOrdering(S))
  BY <1>1, <1>2, WFMin, Zenon
<1>4. ASSUME NEW U \in SUBSET R, U # R, U \in Bad
      PROVE  <<U, R>> \in StrictSubsetOrdering(S)
  BY <1>4 DEF StrictSubsetOrdering
<1>5. \A U \in SUBSET R : U # R => U \notin Bad
  BY <1>3, <1>4
<1> QED
  BY <1>5

\* The library's choice of a next member, one unfolding of its recursion, and a
\* table that satisfies the recursion at every subset.
Pick(s) == CHOOSE x \in s : TRUE
Step(f, g, s) == IF s = {} THEN 0 ELSE f[Pick(s)] + g[s \ {Pick(s)}]
IsSum(f, g, S) == g = [s \in SUBSET S |-> Step(f, g, s)]

\* The member the fold takes first is a member.
LEMMA PickIn == ASSUME NEW S, S # {} PROVE Pick(S) \in S
BY DEF Pick

\* Two tables of sums agree wherever both are defined.
LEMMA SumUnique ==
  ASSUME NEW f, NEW g, NEW h, NEW A, NEW B, IsFiniteSet(A), IsSum(f, g, A), IsSum(f, h, B),
         NEW s \in SUBSET (A \cap B)
  PROVE  g[s] = h[s]
<1> DEFINE Bad == {u \in SUBSET (A \cap B) : g[u] # h[u]}
<1>1. SUFFICES ASSUME Bad # {} PROVE FALSE
  OBVIOUS
<1>2. IsFiniteSet(A \cap B)
  BY FS_Subset
<1>3. PICK R \in Bad : \A U \in SUBSET R : U # R => U \notin Bad
  <2> HIDE DEF Bad
  <2>1. Bad \in SUBSET (SUBSET (A \cap B))
    BY DEF Bad
  <2> QED BY <1>1, <1>2, <2>1, MinimalSubset
<1>4. g[R] = Step(f, g, R) /\ h[R] = Step(f, h, R)
  BY DEF IsSum
<1>5. CASE R = {}
  BY <1>4, <1>5, <1>3 DEF Step
<1>6. CASE R # {}
  <2>1. Pick(R) \in R
    BY <1>6, PickIn
  <2>2. R \ {Pick(R)} \notin Bad
    BY <2>1, <1>3
  <2>3. g[R \ {Pick(R)}] = h[R \ {Pick(R)}]
    BY <2>2
  <2> QED BY <2>3, <1>4, <1>6 DEF Step
<1> QED BY <1>5, <1>6

\* A finite set has a table of sums.
LEMMA SumExists ==
  ASSUME NEW f, NEW S, IsFiniteSet(S)
  PROVE  \E g : IsSum(f, g, S)
<1> DEFINE Bad == {u \in SUBSET S : ~\E g : IsSum(f, g, u)}
           G(u) == CHOOSE g : IsSum(f, g, u)
<1>1. SUFFICES ASSUME Bad # {} PROVE FALSE
  OBVIOUS
<1>3. PICK R \in Bad : \A U \in SUBSET R : U # R => U \notin Bad
  <2> HIDE DEF Bad
  <2>1. Bad \in SUBSET (SUBSET S)
    BY DEF Bad
  <2> QED BY <1>1, <2>1, MinimalSubset
<1>4. \A U \in SUBSET R : U # R => IsSum(f, G(U), U)
  BY <1>3
<1> HIDE DEF G
<1>5. CASE R = {}
  <2>1. IsSum(f, [s \in SUBSET R |-> 0], R)
    BY <1>5 DEF IsSum, Step
  <2> QED BY <2>1
<1>6. CASE R # {}
  <2> DEFINE p == Pick(R)
             h == [s \in SUBSET R |-> IF s = R THEN f[p] + G(R \ {p})[R \ {p}] ELSE G(s)[s]]
  <2>1. p \in R
    BY <1>6, PickIn
  <2>2. h[R] = Step(f, h, R)
    BY <2>1, <1>6 DEF Step
  <2>3. ASSUME NEW s \in SUBSET R, s # R PROVE h[s] = Step(f, h, s)
    <3>1. IsSum(f, G(s), s)
      BY <1>4, <2>3
    <3>2. G(s)[s] = Step(f, G(s), s)
      BY <3>1 DEF IsSum
    <3>3. CASE s = {}
      BY <3>2, <3>3, <2>3 DEF Step
    <3>4. CASE s # {}
      <4> DEFINE q == Pick(s)
      <4>1. q \in s
        BY <3>4, PickIn
      <4>2. s \ {q} # R /\ s \ {q} \in SUBSET R
        BY <2>3, <4>1
      <4>3. IsSum(f, G(s \ {q}), s \ {q})
        BY <1>4, <4>2
      <4>4. IsFiniteSet(s)
        BY FS_Subset
      <4>5. G(s)[s \ {q}] = G(s \ {q})[s \ {q}]
        <5>1. s \ {q} \in SUBSET (s \cap (s \ {q}))
          OBVIOUS
        <5> HIDE DEF q
        <5> QED BY <3>1, <4>3, <4>4, <5>1, SumUnique
      <4>6. h[s \ {q}] = G(s)[s \ {q}]
        BY <4>2, <4>5
      <4> QED BY <3>2, <3>4, <4>6, <2>3 DEF Step
    <3> QED BY <3>3, <3>4
  <2>4. IsSum(f, h, R)
    <3>1. \A s \in SUBSET R : h[s] = Step(f, h, s)
      BY <2>2, <2>3
    <3>2. h = [s \in SUBSET R |-> h[s]]
      OBVIOUS
    <3> HIDE DEF h
    <3>3. [s \in SUBSET R |-> h[s]] = [s \in SUBSET R |-> Step(f, h, s)]
      BY <3>1
    <3> QED BY <3>2, <3>3 DEF IsSum
  <2> QED BY <2>4
<1> QED BY <1>5, <1>6

\* The library's sum is the last entry of such a table.
LEMMA SumIter ==
  ASSUME NEW f, NEW S, IsFiniteSet(S)
  PROVE  \E g : IsSum(f, g, S) /\ SumFunctionOnSet(f, S) = g[S]
<1> DEFINE g == CHOOSE g : IsSum(f, g, S)
<1>1. IsSum(f, g, S)
  BY SumExists
<1>2. SumFunctionOnSet(f, S) = g[S]
  BY DEF SumFunctionOnSet, FoldFunctionOnSet, MapThenFoldSet, IsSum, Step, Pick
<1> QED BY <1>1, <1>2

\* The library's sum satisfies its own recursion.
LEMMA SumStep ==
  ASSUME NEW f, NEW S, IsFiniteSet(S)
  PROVE  /\ S = {} => SumFunctionOnSet(f, S) = 0
         /\ S # {} => SumFunctionOnSet(f, S) = f[Pick(S)] + SumFunctionOnSet(f, S \ {Pick(S)})
<1>1. PICK g : IsSum(f, g, S) /\ SumFunctionOnSet(f, S) = g[S]
  BY SumIter
<1>2. g[S] = Step(f, g, S)
  BY <1>1 DEF IsSum
<1>3. ASSUME S # {}
      PROVE  SumFunctionOnSet(f, S \ {Pick(S)}) = g[S \ {Pick(S)}]
  <2> DEFINE T == S \ {Pick(S)}
  <2>1. IsFiniteSet(T) /\ T \in SUBSET (S \cap T)
    BY FS_Subset
  <2> HIDE DEF T
  <2>2. PICK h : IsSum(f, h, T) /\ SumFunctionOnSet(f, T) = h[T]
    BY <2>1, SumIter
  <2>3. g[T] = h[T]
    BY <1>1, <2>1, <2>2, SumUnique
  <2>4. SumFunctionOnSet(f, T) = g[T]
    BY <2>2, <2>3
  <2> QED BY <2>4 DEF T
<1> QED BY <1>1, <1>2, <1>3 DEF Step

\* A sum of naturals is a natural.
LEMMA SumType ==
  ASSUME NEW f, NEW S, IsFiniteSet(S), \A i \in S : f[i] \in Nat
  PROVE  SumFunctionOnSet(f, S) \in Nat
<1> DEFINE Bad == {u \in SUBSET S : SumFunctionOnSet(f, u) \notin Nat}
<1>1. SUFFICES ASSUME Bad # {} PROVE FALSE
  OBVIOUS
<1>2. PICK R \in Bad : \A U \in SUBSET R : U # R => U \notin Bad
  <2> HIDE DEF Bad
  <2>1. Bad \in SUBSET (SUBSET S)
    BY DEF Bad
  <2> QED BY <1>1, <2>1, MinimalSubset
<1>3. IsFiniteSet(R)
  BY FS_Subset
<1>4. CASE R = {}
  <2>1. SumFunctionOnSet(f, R) = 0
    BY <1>3, <1>4, SumStep
  <2> QED BY <2>1
<1>5. CASE R # {}
  <2>1. Pick(R) \in R
    BY <1>5, PickIn
  <2>2. R \ {Pick(R)} \notin Bad
    BY <2>1, <1>2
  <2>3. SumFunctionOnSet(f, R \ {Pick(R)}) \in Nat /\ f[Pick(R)] \in Nat
    BY <2>1, <2>2
  <2>4. SumFunctionOnSet(f, R) = f[Pick(R)] + SumFunctionOnSet(f, R \ {Pick(R)})
    BY <1>3, <1>5, SumStep
  <2> QED BY <2>3, <2>4
<1> QED BY <1>4, <1>5

\* A sum depends only on its summands.
LEMMA SumAgree ==
  ASSUME NEW f, NEW h, NEW S, IsFiniteSet(S), \A i \in S : f[i] = h[i]
  PROVE  SumFunctionOnSet(f, S) = SumFunctionOnSet(h, S)
<1> DEFINE Bad == {u \in SUBSET S : SumFunctionOnSet(f, u) # SumFunctionOnSet(h, u)}
<1>1. SUFFICES ASSUME Bad # {} PROVE FALSE
  OBVIOUS
<1>2. PICK R \in Bad : \A U \in SUBSET R : U # R => U \notin Bad
  <2> HIDE DEF Bad
  <2>1. Bad \in SUBSET (SUBSET S)
    BY DEF Bad
  <2> QED BY <1>1, <2>1, MinimalSubset
<1>3. IsFiniteSet(R)
  BY FS_Subset
<1>4. CASE R = {}
  BY <1>3, <1>4, SumStep
<1>5. CASE R # {}
  <2>1. Pick(R) \in R
    BY <1>5, PickIn
  <2>2. R \ {Pick(R)} \notin Bad
    BY <2>1, <1>2
  <2>3. SumFunctionOnSet(f, R \ {Pick(R)}) = SumFunctionOnSet(h, R \ {Pick(R)}) /\ f[Pick(R)] = h[Pick(R)]
    BY <2>1, <2>2
  <2>4. /\ SumFunctionOnSet(f, R) = f[Pick(R)] + SumFunctionOnSet(f, R \ {Pick(R)})
        /\ SumFunctionOnSet(h, R) = h[Pick(R)] + SumFunctionOnSet(h, R \ {Pick(R)})
    BY <1>3, <1>5, SumStep
  <2> QED BY <2>3, <2>4
<1> QED BY <1>4, <1>5

\* Any summand, not only the one the fold takes first, can be split off.
LEMMA SumRemove ==
  ASSUME NEW f, NEW S, IsFiniteSet(S), \A i \in S : f[i] \in Nat, NEW x \in S
  PROVE  SumFunctionOnSet(f, S) = f[x] + SumFunctionOnSet(f, S \ {x})
<1> DEFINE Bad == {u \in SUBSET S : \E y \in u :
                     SumFunctionOnSet(f, u) # f[y] + SumFunctionOnSet(f, u \ {y})}
<1>1. SUFFICES ASSUME Bad # {} PROVE FALSE
  OBVIOUS
<1>2. PICK R \in Bad : \A U \in SUBSET R : U # R => U \notin Bad
  <2> HIDE DEF Bad
  <2>1. Bad \in SUBSET (SUBSET S)
    BY DEF Bad
  <2> QED BY <1>1, <2>1, MinimalSubset
<1>3. PICK y \in R : SumFunctionOnSet(f, R) # f[y] + SumFunctionOnSet(f, R \ {y})
  OBVIOUS
<1> DEFINE p == Pick(R)
<1>4. p \in R
  BY <1>3, PickIn
<1>5. IsFiniteSet(R)
  BY FS_Subset
<1>6. SumFunctionOnSet(f, R) = f[p] + SumFunctionOnSet(f, R \ {p})
  BY <1>3, <1>5, SumStep
<1> HIDE DEF p
<1>7. p # y
  BY <1>3, <1>6
<1> DEFINE T == (R \ {p}) \ {y}
<1>8. SumFunctionOnSet(f, R \ {p}) = f[y] + SumFunctionOnSet(f, T)
  <2>1. R \ {p} \notin Bad /\ R \ {p} \in SUBSET S /\ y \in R \ {p}
    BY <1>2, <1>4, <1>7
  <2> QED BY <2>1
<1>9. SumFunctionOnSet(f, R \ {y}) = f[p] + SumFunctionOnSet(f, T)
  <2>1. R \ {y} \notin Bad /\ R \ {y} \in SUBSET S /\ p \in R \ {y}
    BY <1>2, <1>4, <1>7
  <2>2. (R \ {y}) \ {p} = T
    OBVIOUS
  <2> HIDE DEF T
  <2> QED BY <2>1, <2>2
<1>10. f[p] \in Nat /\ f[y] \in Nat /\ SumFunctionOnSet(f, T) \in Nat
  <2>1. f[p] \in Nat /\ f[y] \in Nat
    BY <1>4
  <2>2. IsFiniteSet(T) /\ \A i \in T : f[i] \in Nat
    BY <1>5, FS_Subset
  <2> HIDE DEF T
  <2> QED BY <2>1, <2>2, SumType
<1> HIDE DEF T, Bad
<1> QED BY <1>3, <1>6, <1>8, <1>9, <1>10
-----------------------------------------------------------------------------
(* The income book *)

MaybeEntries == Book!Entries \cup {NotBooked}

\* The bucket an entry counts in.
BucketOf(e) == <<e.day, e.cat>>

\* The book's copies of the library's operators are the library's.
LEMMA BookCardinality == \A S : Book!Cardinality(S) = Cardinality(S)
BY Zenon DEF Book!Cardinality, Cardinality

\* The sum of the instantiated IncomeBook is the library's.
LEMMA BookSum == \A f : Book!SumFunction(f) = SumFunction(f)
BY Zenon DEF Book!SumFunction, Book!SumFunctionOnSet, Book!FoldFunctionOnSet, Book!MapThenFoldSet,
             SumFunction, SumFunctionOnSet, FoldFunctionOnSet, MapThenFoldSet

\* The amounts of the orders booked in a bucket.
AmountsIn(es, b) == [i \in Book!InBucket(es, b) |-> es[i].amount]

\* A bucket's totals, as a sum over the orders booked there.
LEMMA BucketTotals ==
  ASSUME NEW es, NEW b \in Book!Buckets
  PROVE  Book!SumsOf(es)[b] =
           [income |-> SumFunctionOnSet(AmountsIn(es, b), Book!InBucket(es, b)),
            count  |-> Cardinality(Book!InBucket(es, b))]
<1> DEFINE B == Book!InBucket(es, b)
           f == AmountsIn(es, b)
<1>1. Book!SumsOf(es)[b] = [income |-> Book!IncomeIn(es, b), count |-> Cardinality(B)]
  BY BookCardinality DEF Book!SumsOf
<1>2. DOMAIN f = B
  BY DEF AmountsIn
<1>3. SumFunction(f) = SumFunctionOnSet(f, B)
  <2> HIDE DEF f, B
  <2> QED BY <1>2 DEF SumFunction
<1>4. Book!IncomeIn(es, b) = SumFunction(f)
  BY BookSum DEF Book!IncomeIn, AmountsIn
<1> QED BY <1>1, <1>3, <1>4

\* What is booked adds up to natural numbers in every bucket.
LEMMA SumsType ==
  ASSUME NEW es \in [OrderIds -> MaybeEntries], NEW b \in Book!Buckets
  PROVE  Book!SumsOf(es)[b] \in [income : Nat, count : Nat]
<1> DEFINE B == Book!InBucket(es, b)
           f == AmountsIn(es, b)
<1>1. IsFiniteSet(B)
  BY LedgerAssumption, FS_Subset DEF Book!InBucket
<1>2. \A i \in B : f[i] \in Nat
  BY LedgerAssumption DEF Book!InBucket, MaybeEntries, Book!Entries, AmountsIn
<1>3. Book!SumsOf(es)[b] = [income |-> SumFunctionOnSet(f, B), count |-> Cardinality(B)]
  BY BucketTotals
<1> HIDE DEF B, f
<1>4. SumFunctionOnSet(f, B) \in Nat /\ Cardinality(B) \in Nat
  BY <1>1, <1>2, SumType, FS_CardinalityType
<1> QED BY <1>3, <1>4

\* Booking an order that was not booked moves its bucket by one order and its
\* amount, and no other bucket.
LEMMA BookingAddsUp ==
  ASSUME NEW es \in [OrderIds -> MaybeEntries], NEW i \in OrderIds, es[i] = NotBooked,
         NEW after \in [OrderIds -> MaybeEntries], \A j \in OrderIds \ {i} : after[j] = es[j],
         NEW e \in Book!Entries, after[i] = e, NEW b \in Book!Buckets
  PROVE  Book!SumsOf(after)[b] =
           IF b = BucketOf(e)
           THEN [income |-> Book!SumsOf(es)[b].income + e.amount,
                 count  |-> Book!SumsOf(es)[b].count + 1]
           ELSE Book!SumsOf(es)[b]
<1> DEFINE B == Book!InBucket(es, b)
           C == Book!InBucket(after, b)
           f == AmountsIn(es, b)
           g == AmountsIn(after, b)
<1>1. e # NotBooked
  BY LedgerAssumption DEF Book!Entries
<1>2. IsFiniteSet(B) /\ IsFiniteSet(C) /\ i \notin B
  BY LedgerAssumption, FS_Subset DEF Book!InBucket
<1>3. C = IF b = BucketOf(e) THEN B \cup {i} ELSE B
  BY <1>1 DEF Book!InBucket, BucketOf
<1>4. \A j \in B : j \in C /\ f[j] = g[j] /\ f[j] \in Nat
  BY <1>2, <1>3, LedgerAssumption DEF Book!InBucket, MaybeEntries, Book!Entries, AmountsIn
<1>5. i \in C => g[i] = e.amount
  BY DEF Book!InBucket, AmountsIn
<1>6. e.amount \in Nat
  BY LedgerAssumption DEF Book!Entries
<1>7. Book!SumsOf(es)[b] = [income |-> SumFunctionOnSet(f, B), count |-> Cardinality(B)]
  BY BucketTotals
<1>11. Book!SumsOf(after)[b] = [income |-> SumFunctionOnSet(g, C), count |-> Cardinality(C)]
  BY BucketTotals
<1> HIDE DEF B, C, f, g
<1>8. SumFunctionOnSet(f, B) = SumFunctionOnSet(g, B)
  BY <1>2, <1>4, SumAgree
<1>9. CASE b = BucketOf(e)
  <2>1. i \in C /\ C \ {i} = B
    BY <1>2, <1>3, <1>9
  <2>2. \A j \in C : g[j] \in Nat
    BY <1>3, <1>4, <1>5, <1>6, <1>9, <2>1
  <2>3. SumFunctionOnSet(g, C) = e.amount + SumFunctionOnSet(g, B)
    BY <1>2, <1>5, <2>1, <2>2, SumRemove
  <2>4. SumFunctionOnSet(g, B) \in Nat
    BY <1>2, <1>4, SumType
  <2>5. Cardinality(C) = Cardinality(B) + 1
    BY <1>2, <1>3, <1>9, FS_AddElement
  <2> QED BY <1>6, <1>7, <1>11, <1>8, <1>9, <2>3, <2>4, <2>5
<1>10. CASE b # BucketOf(e)
  BY <1>3, <1>7, <1>11, <1>8, <1>10
<1> QED BY <1>9, <1>10

\* projectOrderIncome's two deltas are what replacing an entry does to the sums.
LEMMA DeltasMoveSums ==
  ASSUME NEW es \in [OrderIds -> MaybeEntries], NEW i \in OrderIds, NEW new \in MaybeEntries
  PROVE  Book!SumsOf([es EXCEPT ![i] = new]) =
           ApplyIncomeDelta(ApplyIncomeDelta(Book!SumsOf(es), es[i], "minus"), new, "plus")
<1> DEFINE es0 == [es EXCEPT ![i] = NotBooked]
           B == Book!Buckets
<1>1. /\ es0 \in [OrderIds -> MaybeEntries] /\ es0[i] = NotBooked
      /\ [es0 EXCEPT ![i] = new] = [es EXCEPT ![i] = new] /\ [es0 EXCEPT ![i] = es[i]] = es
  BY DEF MaybeEntries
<1>2. \A e \in Book!Entries : e # NotBooked /\ BucketOf(e) \in B /\ e.amount \in Nat
  BY LedgerAssumption DEF Book!Entries, Book!Buckets, BucketOf
<1>3. \A u : /\ DOMAIN Book!SumsOf(u) = B
             /\ Book!SumsOf(u) = [b \in B |-> Book!SumsOf(u)[b]]
  BY DEF Book!SumsOf
<1> HIDE DEF es0, B
<1>4. ASSUME NEW e \in Book!Entries
      PROVE  /\ ApplyIncomeDelta(Book!SumsOf(es0), e, "plus") = Book!SumsOf([es0 EXCEPT ![i] = e])
             /\ ApplyIncomeDelta(Book!SumsOf([es0 EXCEPT ![i] = e]), e, "minus") = Book!SumsOf(es0)
  <2> DEFINE u == [es0 EXCEPT ![i] = e]
             b0 == BucketOf(e)
             s == Book!SumsOf(es0)
             t == Book!SumsOf(u)
  <2>1. \A b \in B : t[b] = IF b = b0 THEN [income |-> s[b].income + e.amount, count |-> s[b].count + 1]
                            ELSE s[b]
    <3>0. u \in [OrderIds -> MaybeEntries] /\ u[i] = e /\ \A j \in OrderIds \ {i} : u[j] = es0[j]
      BY <1>1 DEF MaybeEntries
    <3> HIDE DEF u
    <3>1. ASSUME NEW b \in Book!Buckets
          PROVE  t[b] = IF b = b0 THEN [income |-> s[b].income + e.amount, count |-> s[b].count + 1]
                        ELSE s[b]
      <4>1. es0 \in [OrderIds -> MaybeEntries] /\ es0[i] = NotBooked
        BY <1>1
      <4>2. Book!SumsOf(u)[b] =
              IF b = BucketOf(e)
              THEN [income |-> Book!SumsOf(es0)[b].income + e.amount,
                    count  |-> Book!SumsOf(es0)[b].count + 1]
              ELSE Book!SumsOf(es0)[b]
        BY <4>1, <3>0, BookingAddsUp
      <4> QED BY <4>2
    <3> QED BY <3>1 DEF B
  <2>2. s[b0] \in [income : Nat, count : Nat]
    BY <1>1, <1>2, SumsType DEF B
  <2>3. /\ DOMAIN s = B /\ s = [b \in B |-> s[b]]
        /\ DOMAIN t = B /\ t = [b \in B |-> t[b]] /\ b0 \in B
    BY <1>2, <1>3
  <2>4. /\ ApplyIncomeDelta(s, e, "plus") =
             [s EXCEPT ![b0] = [income |-> s[b0].income + e.amount, count |-> s[b0].count + 1]]
        /\ ApplyIncomeDelta(t, e, "minus") =
             [t EXCEPT ![b0] = [income |-> t[b0].income - e.amount, count |-> t[b0].count - 1]]
    BY <1>2 DEF ApplyIncomeDelta, BucketOf
  <2>5. e.amount \in Nat
    BY <1>2
  <2> HIDE DEF s, t, b0, u
  <2>6. [s EXCEPT ![b0] = [income |-> s[b0].income + e.amount, count |-> s[b0].count + 1]] = t
    BY <2>1, <2>3
  <2>7. [income |-> t[b0].income - e.amount, count |-> t[b0].count - 1] = s[b0]
    BY <2>1, <2>2, <2>3, <2>5
  <2>8. [t EXCEPT ![b0] = [income |-> t[b0].income - e.amount, count |-> t[b0].count - 1]] = s
    BY <2>1, <2>3, <2>7
  <2> QED BY <2>4, <2>6, <2>8 DEF s, t, u
<1>5. ApplyIncomeDelta(Book!SumsOf(es), es[i], "minus") = Book!SumsOf(es0)
  <2>1. CASE es[i] = NotBooked
    <3>1. es = es0
      BY <1>1, <2>1
    <3> QED BY <2>1, <3>1 DEF ApplyIncomeDelta
  <2>2. CASE es[i] # NotBooked
    <3>1. es[i] \in Book!Entries
      BY <2>2 DEF MaybeEntries
    <3> QED BY <1>1, <1>4, <3>1
  <2> QED BY <2>1, <2>2
<1>6. ApplyIncomeDelta(Book!SumsOf(es0), new, "plus") = Book!SumsOf([es EXCEPT ![i] = new])
  <2>1. CASE new = NotBooked
    <3>1. [es EXCEPT ![i] = new] = es0
      BY <2>1 DEF es0
    <3> QED BY <2>1, <3>1 DEF ApplyIncomeDelta
  <2>2. CASE new # NotBooked
    <3>1. new \in Book!Entries
      BY <2>2 DEF MaybeEntries
    <3> QED BY <1>1, <1>4, <3>1
  <2> QED BY <2>1, <2>2
<1> QED BY <1>5, <1>6

-----------------------------------------------------------------------------
(* The rollup implements the book *)

\* The ledger as the open transaction sees it.
Overlay == [i \in OrderIds |-> IF i \in DOMAIN staged.rows THEN staged.rows[i] ELSE ledgerRow[i]]

LedgerTypes ==
  /\ leaseRow \in [OrderIds -> Book!OrderRows] /\ tplCat \in [OrderIds -> Categories]
  /\ ledgerRow \in [OrderIds -> MaybeEntries]
  /\ recFlag \in [OrderIds -> BOOLEAN]
  /\ rollPc \in [Rollups -> {"idle", "picked", "open"}] /\ picked \in [Rollups -> SUBSET OrderIds]
  /\ incomeLock \in Rollups \cup {NoRollup} /\ corrections \in 0 .. MaxCorrections

\* The advisory lock is held exactly by the rollup whose transaction is open.
LockIsOpenTx == \A r \in Rollups : rollPc[r] = "open" <=> incomeLock = r

\* An order the transaction has projected is locked, so its entry still is what
\* the order says, under some category its template had.
StagedEntriesHold ==
  /\ DOMAIN staged.rows \subseteq OrderIds
  /\ \A i \in DOMAIN staged.rows : \E c \in Categories : staged.rows[i] = Book!EntryOf(i, c)

\* What is staged and what is committed are each the sums of their ledger, and
\* no order is projected twice.
SumsHold ==
  /\ dailyStats = Book!SumsOf(ledgerRow)
  /\ incomeLock = NoRollup => DOMAIN staged.rows = {}
  /\ incomeLock # NoRollup => /\ staged.stats = Book!SumsOf(Overlay)
                              /\ DOMAIN staged.rows \cap picked[incomeLock] = {}

LedgerInv == LedgerTypes /\ LockIsOpenTx /\ StagedEntriesHold /\ SumsHold

\* An entry of an order is an entry or none.
LEMMA EntryType ==
  ASSUME leaseRow \in [OrderIds -> Book!OrderRows], NEW i \in OrderIds, NEW c \in Categories
  PROVE  Book!EntryOf(i, c) \in MaybeEntries
BY DEF Book!EntryOf, MaybeEntries, Book!OrderRows, Book!Entries

\* What the ledger will hold after the commit is a ledger.
LEMMA OverlayType ==
  ASSUME LedgerTypes, StagedEntriesHold
  PROVE  Overlay \in [OrderIds -> MaybeEntries]
<1>1. \A i \in DOMAIN staged.rows : staged.rows[i] \in MaybeEntries
  BY EntryType DEF LedgerTypes, StagedEntriesHold
<1> QED BY <1>1 DEF Overlay, LedgerTypes

\* Nothing booked, nothing earned.
LEMMA EmptyBook ==
  Book!SumsOf([i \in OrderIds |-> NotBooked]) = [b \in Book!Buckets |-> [income |-> 0, count |-> 0]]
<1> DEFINE es == [i \in OrderIds |-> NotBooked]
<1>1. \A b : Book!InBucket(es, b) = {}
  BY DEF Book!InBucket
<1> HIDE DEF es
<1>2. ASSUME NEW b \in Book!Buckets
      PROVE  Book!SumsOf(es)[b] = [income |-> 0, count |-> 0]
  <2>1. SumFunctionOnSet(AmountsIn(es, b), {}) = 0
    BY SumStep, FS_EmptySet
  <2> QED BY <1>1, <2>1, BucketTotals, FS_EmptySet
<1>3. Book!SumsOf(es) = [b \in Book!Buckets |-> Book!SumsOf(es)[b]]
  BY DEF Book!SumsOf
<1> QED BY <1>2, <1>3 DEF es

\* The invariant holds of an empty ledger.
LEMMA LedgerInitially == LedgerInit => LedgerInv
<1> SUFFICES ASSUME LedgerInit PROVE LedgerInv
  OBVIOUS
<1>1. LedgerTypes
  <2>1. leaseRow \in [OrderIds -> Book!OrderRows]
    BY DEF LedgerInit, Book!OrderRows
  <2>2. recFlag \in [OrderIds -> BOOLEAN]
    BY Zenon DEF LedgerInit
  <2> QED BY <2>1, <2>2, LedgerAssumption DEF LedgerInit, LedgerTypes, MaybeEntries
<1>2. LockIsOpenTx
  BY LedgerAssumption DEF LedgerInit, LockIsOpenTx
<1>3. DOMAIN staged.rows = {}
  BY DEF LedgerInit, NothingStaged
<1>4. dailyStats = Book!SumsOf(ledgerRow)
  BY EmptyBook, Zenon DEF LedgerInit
<1> QED BY <1>1, <1>2, <1>3, <1>4 DEF LedgerInv, StagedEntriesHold, SumsHold, LedgerInit

\* Every step of a rollup, of order sync and of the templates keeps the invariant.
LEMMA LedgerStep == LedgerInv /\ [LedgerNext]_ledgerVars => LedgerInv'
<1> SUFFICES ASSUME LedgerInv, [LedgerNext]_ledgerVars PROVE LedgerInv'
  OBVIOUS
<1> USE DEF LedgerInv
<1>1. CASE UNCHANGED ledgerVars
  BY <1>1 DEF ledgerVars, LedgerTypes, LockIsOpenTx, StagedEntriesHold, SumsHold, Overlay, Book!EntryOf
<1>2. ASSUME NEW i \in OrderIds, NEW s \in {"open", "void", "done"}, NEW d \in Days, NEW a \in Amounts,
             UpsertLeaseOrder(i, s, d, a)
      PROVE  LedgerInv'
  <2> USE <1>2 DEF UpsertLeaseOrder
  <2>1. LedgerTypes'
    BY LedgerAssumption DEF LedgerTypes, Book!OrderRows
  <2>2. LockIsOpenTx'
    BY DEF LockIsOpenTx
  <2>3. StagedEntriesHold'
    <3>1. \A j \in DOMAIN staged.rows : leaseRow'[j] = leaseRow[j]
      BY DEF RowFree, StagedEntriesHold, LedgerTypes
    <3>2. \A j \in DOMAIN staged.rows : \A c \in Categories : Book!EntryOf(j, c)' = Book!EntryOf(j, c)
      BY <3>1 DEF Book!EntryOf
    <3>3. staged' = staged
      OBVIOUS
    <3>4. ASSUME NEW j \in DOMAIN staged.rows
          PROVE  \E c \in Categories : staged.rows[j] = Book!EntryOf(j, c)'
      BY <3>2 DEF StagedEntriesHold
    <3> QED BY <3>3, <3>4 DEF StagedEntriesHold
  <2>4. SumsHold'
    BY DEF SumsHold, Overlay
  <2> QED BY <2>1, <2>2, <2>3, <2>4
<1>3. ASSUME NEW i \in OrderIds, NEW c \in Categories, Recategorise(i, c) PROVE LedgerInv'
  <2> USE <1>3 DEF Recategorise
  <2>1. LedgerTypes'
    BY LedgerAssumption DEF LedgerTypes
  <2>2. LockIsOpenTx' /\ SumsHold'
    BY DEF LockIsOpenTx, SumsHold, Overlay
  <2>3. StagedEntriesHold'
    BY DEF StagedEntriesHold, Book!EntryOf
  <2> QED BY <2>1, <2>2, <2>3
<1>4. ASSUME NEW r \in Rollups, PickBatch(r) PROVE LedgerInv'
  <2> USE <1>4 DEF PickBatch
  <2>1. FirstOf(Unrecorded, IncomeBatch) \in SUBSET OrderIds
    BY DEF FirstOf, Unrecorded
  <2>2. LedgerTypes'
    BY <2>1 DEF LedgerTypes
  <2>3. LockIsOpenTx'
    BY DEF LockIsOpenTx, LedgerTypes
  <2>4. StagedEntriesHold'
    BY DEF StagedEntriesHold, Book!EntryOf
  <2>5. SumsHold'
    <3>1. incomeLock # r
      BY DEF LockIsOpenTx
    <3>2. incomeLock # NoRollup => picked'[incomeLock] = picked[incomeLock]
      BY <3>1 DEF LedgerTypes
    <3> QED BY <3>2 DEF SumsHold, Overlay
  <2> QED BY <2>2, <2>3, <2>4, <2>5
<1>5. ASSUME NEW r \in Rollups, BeginIncomeTx(r) PROVE LedgerInv'
  <2> USE <1>5 DEF BeginIncomeTx
  <2>1. LedgerTypes'
    BY DEF LedgerTypes
  <2>2. LockIsOpenTx'
    BY LedgerAssumption DEF LockIsOpenTx, LedgerTypes
  <2>3. staged'.stats = dailyStats /\ DOMAIN staged'.rows = {}
    BY DEF NothingStaged
  <2>4. StagedEntriesHold'
    BY <2>3 DEF StagedEntriesHold
  <2>5. Overlay' = ledgerRow'
    BY <2>3 DEF Overlay, LedgerTypes
  <2>6. SumsHold'
    BY <2>3, <2>5, LedgerAssumption DEF SumsHold
  <2> QED BY <2>1, <2>2, <2>4, <2>6
<1>6. ASSUME NEW r \in Rollups, NEW i \in OrderIds, ProjectOrderIncome(r, i) PROVE LedgerInv'
  <2> USE <1>6 DEF ProjectOrderIncome
  <2> DEFINE new == NextEntry(i)
             rows == [j \in DOMAIN staged.rows \cup {i} |-> IF j = i THEN new ELSE staged.rows[j]]
  <2>1. LedgerTypes'
    BY DEF LedgerTypes
  <2>2. LockIsOpenTx'
    BY DEF LockIsOpenTx
  <2>3. incomeLock = r /\ incomeLock # NoRollup /\ i \notin DOMAIN staged.rows
    BY LedgerAssumption DEF LockIsOpenTx, SumsHold
  <2>4. tplCat[i] \in Categories /\ new = Book!EntryOf(i, tplCat[i]) /\ new \in MaybeEntries
    BY EntryType DEF LedgerTypes, NextEntry
  <2>5. staged'.rows = rows /\ DOMAIN rows = DOMAIN staged.rows \cup {i}
    OBVIOUS
  <2>6. StagedEntriesHold'
    BY <2>4, <2>5 DEF StagedEntriesHold, Book!EntryOf
  <2>7. Overlay[i] = ledgerRow[i] /\ Overlay' = [Overlay EXCEPT ![i] = new]
    <3> HIDE DEF new
    <3>1. Overlay' = [j \in OrderIds |-> IF j \in DOMAIN staged.rows \cup {i} THEN rows[j] ELSE ledgerRow[j]]
      BY <2>5 DEF Overlay
    <3> QED BY <2>3, <3>1 DEF Overlay
  <2>8. staged'.stats = Book!SumsOf(Overlay')
    <3>1. staged.stats = Book!SumsOf(Overlay) /\ Overlay \in [OrderIds -> MaybeEntries]
      BY <2>3, OverlayType DEF SumsHold
    <3>2. CASE ledgerRow[i] = new
      <4>1. Overlay' = Overlay
        BY <2>7, <3>1, <3>2
      <4> QED BY <3>1, <3>2, <4>1
    <3>3. CASE ledgerRow[i] # new
      <4>1. staged'.stats = ApplyIncomeDelta(ApplyIncomeDelta(staged.stats, ledgerRow[i], "minus"), new, "plus")
        BY <3>3
      <4> HIDE DEF new
      <4>2. Book!SumsOf([Overlay EXCEPT ![i] = new]) =
              ApplyIncomeDelta(ApplyIncomeDelta(Book!SumsOf(Overlay), Overlay[i], "minus"), new, "plus")
        BY <2>4, <3>1, DeltasMoveSums
      <4> QED BY <2>7, <3>1, <4>1, <4>2
    <3> QED BY <3>2, <3>3
  <2>9. DOMAIN staged'.rows \cap picked'[r] = {}
    BY <2>3, <2>5 DEF SumsHold, LedgerTypes
  <2>10. SumsHold'
    BY <2>3, <2>8, <2>9 DEF SumsHold
  <2> QED BY <2>1, <2>2, <2>6, <2>10
<1>7. ASSUME NEW r \in Rollups, CommitIncome(r) PROVE LedgerInv'
  <2> USE <1>7 DEF CommitIncome
  <2>1. incomeLock = r /\ incomeLock # NoRollup
    BY LedgerAssumption DEF LockIsOpenTx
  <2>2. ledgerRow' = Overlay /\ ledgerRow' \in [OrderIds -> MaybeEntries]
    BY OverlayType DEF Overlay
  <2>3. recFlag' \in [OrderIds -> BOOLEAN]
    <3>1. recFlag \in [OrderIds -> BOOLEAN] /\ \A j \in OrderIds : Eligible(j) \in BOOLEAN
      BY Zenon DEF LedgerTypes, Eligible
    <3> QED BY <3>1, Zenon
  <2>4. LedgerTypes'
    BY <2>2, <2>3 DEF LedgerTypes
  <2>5. LockIsOpenTx'
    BY <2>1, LedgerAssumption DEF LockIsOpenTx, LedgerTypes
  <2>6. DOMAIN staged'.rows = {}
    BY DEF NothingStaged
  <2>7. SumsHold' /\ StagedEntriesHold'
    BY <2>1, <2>2, <2>6 DEF SumsHold, StagedEntriesHold
  <2> QED BY <2>4, <2>5, <2>7
<1>8. ASSUME NEW r \in Rollups, RollupFails(r) PROVE LedgerInv'
  <2> USE <1>8 DEF RollupFails
  <2>1. LedgerTypes'
    BY DEF LedgerTypes
  <2>2. LockIsOpenTx'
    BY LedgerAssumption DEF LockIsOpenTx, LedgerTypes
  <2>3. CASE incomeLock = r
    <3>1. DOMAIN staged'.rows = {} /\ incomeLock' = NoRollup
      BY <2>3 DEF NothingStaged
    <3> QED BY <2>1, <2>2, <3>1 DEF SumsHold, StagedEntriesHold
  <2>4. CASE incomeLock # r
    <3>1. StagedEntriesHold'
      BY <2>4 DEF StagedEntriesHold, Book!EntryOf
    <3>2. incomeLock # NoRollup => picked'[incomeLock] = picked[incomeLock]
      BY <2>4 DEF LedgerTypes
    <3>3. SumsHold'
      BY <2>4, <3>2 DEF SumsHold, Overlay
    <3> QED BY <2>1, <2>2, <3>1, <3>3
  <2> QED BY <2>3, <2>4
<1> QED BY <1>1, <1>2, <1>3, <1>4, <1>5, <1>6, <1>7, <1>8 DEF LedgerNext

\* A commit posts the projected orders, under the categories found for them; no
\* other step of the rollup touches the book.
LEMMA LedgerStepsBook ==
  LedgerInv /\ [LedgerNext]_ledgerVars => [Book!Next]_<<leaseRow, ledgerRow, dailyStats>>
<1> SUFFICES ASSUME LedgerInv, [LedgerNext]_ledgerVars
             PROVE  Book!Next \/ UNCHANGED <<leaseRow, ledgerRow, dailyStats>>
  OBVIOUS
<1>1. CASE UNCHANGED ledgerVars
  BY <1>1 DEF ledgerVars
<1>2. ASSUME NEW i \in OrderIds, NEW s \in {"open", "void", "done"}, NEW d \in Days, NEW a \in Amounts,
             UpsertLeaseOrder(i, s, d, a)
      PROVE  Book!Next
  <2>1. leaseRow' \in [OrderIds -> Book!OrderRows] /\ UNCHANGED <<ledgerRow, dailyStats>>
    BY <1>2 DEF UpsertLeaseOrder, LedgerInv, LedgerTypes, Book!OrderRows
  <2> QED BY <2>1 DEF Book!Next, Book!OrdersChange
<1>3. ASSUME NEW r \in Rollups, CommitIncome(r) PROVE Book!Next
  <2> DEFINE S == DOMAIN staged.rows
             cats == [i \in OrderIds |-> IF i \in S
                                         THEN CHOOSE c \in Categories : staged.rows[i] = Book!EntryOf(i, c)
                                         ELSE tplCat[i]]
  <2>1. S \in SUBSET OrderIds /\ \A i \in S : \E c \in Categories : staged.rows[i] = Book!EntryOf(i, c)
    BY DEF LedgerInv, StagedEntriesHold
  <2>2. \A i \in OrderIds : cats[i] \in Categories /\ (i \in S => staged.rows[i] = Book!EntryOf(i, cats[i]))
    BY <2>1 DEF LedgerInv, LedgerTypes
  <2>3. cats \in [OrderIds -> Categories]
    BY <2>2
  <2>4. ledgerRow' = [i \in OrderIds |-> IF i \in S THEN Book!EntryOf(i, cats[i]) ELSE ledgerRow[i]]
    <3> HIDE DEF cats
    <3> QED BY <1>3, <2>2 DEF CommitIncome
  <2>5. dailyStats' = Book!SumsOf(ledgerRow')
    <3>1. incomeLock = r /\ incomeLock # NoRollup
      BY <1>3, LedgerAssumption DEF CommitIncome, LedgerInv, LockIsOpenTx
    <3>2. ledgerRow' = Overlay
      BY <1>3 DEF CommitIncome, Overlay
    <3> QED BY <1>3, <3>1, <3>2 DEF CommitIncome, LedgerInv, SumsHold
  <2>6. leaseRow' = leaseRow
    BY <1>3 DEF CommitIncome
  <2> HIDE DEF S, cats
  <2>7. Book!Post(S, cats)
    BY <2>4, <2>5, <2>6 DEF Book!Post
  <2> QED BY <2>1, <2>3, <2>7 DEF Book!Next
<1>4. ASSUME \/ \E i \in OrderIds, c \in Categories : Recategorise(i, c)
             \/ \E r \in Rollups : \/ PickBatch(r) \/ BeginIncomeTx(r) \/ RollupFails(r)
                                   \/ \E i \in OrderIds : ProjectOrderIncome(r, i)
      PROVE  UNCHANGED <<leaseRow, ledgerRow, dailyStats>>
  BY <1>4 DEF Recategorise, PickBatch, BeginIncomeTx, RollupFails, ProjectOrderIncome
<1> QED BY <1>1, <1>2, <1>3, <1>4 DEF LedgerNext

\* The rollup implements the income book for any orders, batch size and number
\* of overlapping rollups: RecordIncomeBatch never counts income twice nor
\* loses a correction made between its query and its commit.
THEOREM RollupImplementsBook == LedgerSpec => RollupKeepsBook
<1>1. LedgerInit => Book!Init
  <2> SUFFICES ASSUME LedgerInit PROVE Book!Init
    OBVIOUS
  <2>1. LedgerInv
    BY LedgerInitially
  <2> QED BY <2>1 DEF LedgerInv, LedgerTypes, SumsHold, LedgerInit, Book!Init
<1> QED
  BY <1>1, LedgerInitially, LedgerStep, LedgerStepsBook, PTL DEF LedgerSpec, RollupKeepsBook, Book!BookSpec

\* The ledger's state keeps its shape; in particular daily_stats never goes
\* negative, whatever deltas were subtracted.
THEOREM LedgerTypeCorrect == LedgerSpec => []LedgerTypeOK
<1>1. LedgerInv => LedgerTypeOK
  <2> SUFFICES ASSUME LedgerInv PROVE LedgerTypeOK
    OBVIOUS
  <2>1. ASSUME NEW b \in Book!Buckets PROVE dailyStats[b].income \in Nat /\ dailyStats[b].count \in Nat
    <3>1. dailyStats[b] \in [income : Nat, count : Nat]
      BY SumsType DEF LedgerInv, LedgerTypes, SumsHold
    <3> QED BY <3>1
  <2>2. DOMAIN dailyStats = Book!Buckets
    BY DEF LedgerInv, SumsHold, Book!SumsOf
  <2> QED BY <2>1, <2>2, Zenon DEF LedgerInv, LedgerTypes, LedgerTypeOK, MaybeEntries
<1> QED
  BY <1>1, LedgerInitially, LedgerStep, PTL DEF LedgerSpec

-----------------------------------------------------------------------------
(* Largest, smallest and rounded *)

\* The largest member, where there is one.
LEMMA MaxIs ==
  ASSUME NEW S \in SUBSET Int, \E x \in S : \A y \in S : x >= y
  PROVE  Max(S) \in S /\ \A y \in S : Max(S) >= y
BY DEF Max

\* The smallest member, where there is one.
LEMMA MinIs ==
  ASSUME NEW S \in SUBSET Int, \E x \in S : \A y \in S : x <= y
  PROVE  Min(S) \in S /\ \A y \in S : Min(S) <= y
BY DEF Min

\* The larger of two.
LEMMA MaxOfTwo ==
  ASSUME NEW a \in Int, NEW b \in Int
  PROVE  Max({a, b}) = IF a >= b THEN a ELSE b
<1>1. \E x \in {a, b} : \A y \in {a, b} : x >= y
  OBVIOUS
<1> QED BY <1>1, MaxIs

\* The smaller of two.
LEMMA MinOfTwo ==
  ASSUME NEW a \in Int, NEW b \in Int
  PROVE  Min({a, b}) = IF a <= b THEN a ELSE b
<1>1. \E x \in {a, b} : \A y \in {a, b} : x <= y
  OBVIOUS
<1> QED BY <1>1, MinIs

\* The largest of three.
LEMMA MaxOfThree ==
  ASSUME NEW a \in Int, NEW b \in Int, NEW c \in Int
  PROVE  Max({a, b, c}) \in {a, b, c} /\ Max({a, b, c}) >= a /\ Max({a, b, c}) >= b /\ Max({a, b, c}) >= c
<1>1. \E x \in {a, b, c} : \A y \in {a, b, c} : x >= y
  OBVIOUS
<1>2. {a, b, c} \in SUBSET Int
  OBVIOUS
<1> DEFINE S == {a, b, c}
<1>3. a \in S /\ b \in S /\ c \in S
  OBVIOUS
<1> HIDE DEF S
<1>4. Max(S) \in S /\ \A y \in S : Max(S) >= y
  BY <1>1, <1>2, MaxIs DEF S
<1> QED BY <1>3, <1>4 DEF S

\* clamp stays between its limits.
LEMMA ClampWithin ==
  ASSUME NEW x \in Int, NEW lo \in Int, NEW hi \in Int, lo <= hi
  PROVE  Clamp(x, lo, hi) \in lo .. hi
BY MaxOfTwo, MinOfTwo DEF Clamp

\* A set of naturals has a least member.
LEMMA LeastNatural ==
  ASSUME NEW S \in SUBSET Nat, S # {}
  PROVE  \E x \in S : \A y \in S : x <= y
<1>1. PICK x \in S : \A y \in S : ~(<<y, x>> \in OpToRel(<, Nat))
  BY NatLessThanWellFounded, WFMin, Zenon
<1>2. \A y \in S : ~(y < x)
  BY <1>1 DEF OpToRel
<1> QED BY <1>2

\* Rounding keeps integers integers and signs.
LEMMA RoundDivType ==
  ASSUME NEW n \in Int, NEW d \in Nat \ {0}
  PROVE  RoundDiv(n, d) \in Int /\ (n >= 0 => RoundDiv(n, d) >= 0)
<1>1. 2 * n + d \in Int /\ 2 * d \in Nat \ {0} /\ (n >= 0 => 2 * n + d \in Nat)
  OBVIOUS
<1>2. ASSUME NEW a \in Int, NEW b \in Nat \ {0} PROVE a \div b \in Int
  OBVIOUS
<1>3. ASSUME NEW a \in Nat, NEW b \in Nat \ {0} PROVE a \div b \in Nat
  OBVIOUS
<1>4. RoundDiv(n, d) \in Int
  BY <1>1, <1>2 DEF RoundDiv
<1>5. n >= 0 => RoundDiv(n, d) \in Nat
  BY <1>1, <1>3 DEF RoundDiv
<1> QED BY <1>4, <1>5

-----------------------------------------------------------------------------
(* The baseline is a positive price *)

\* The parameters' types, apart from the rest of the assumption.
LEMMA ParamTypes ==
  /\ Params.k1 \in Int /\ Params.k2 \in Int /\ Params.k3 \in Int /\ Params.minLease \in Int
  /\ Params.topN \in Int /\ Params.fmin \in Int /\ Params.fmax \in Int
  /\ Params.ecoDays \in Int /\ Params.uuDays \in Int /\ Params.dayMin \in Int /\ Params.dayMax \in Int
  /\ Params.longFrom \in Int
  /\ Params.minRent \in Nat /\ Params.maxRent \in Nat /\ Params.maxChange \in Nat
  /\ Params.depFloor \in Nat /\ Params.depCap \in Nat /\ Params.fmin <= Params.fmax /\ Value \in Nat
  /\ StartRents \subseteq Nat /\ MaxDrifts \in Nat
BY RepriceAssumption

\* The lease-ratio floor is a number.
LEMMA LeaseFloorType == Params.minLease * Value \in Int
<1>1. Params.minLease \in Int /\ Value \in Int
  BY ParamTypes
<1> QED
  BY <1>1

\* The places a price is read from: few, and each price there is positive.
LEMMA PlacesType ==
  ASSUME NEW q \in Markets
  PROVE  /\ Shorts(q) \in SUBSET Nat /\ IsFiniteSet(Shorts(q)) /\ \A i \in Shorts(q) : q[i]["short"] \in Nat \ {0}
         /\ Longs(q) \in SUBSET Nat /\ IsFiniteSet(Longs(q)) /\ \A i \in Longs(q) : q[i]["long"] \in Nat \ {0}
         /\ Deposits(q) \in SUBSET Nat /\ IsFiniteSet(Deposits(q)) /\ \A i \in Deposits(q) : q[i]["dep"] \in Nat \ {0}
<1>1. q \in Seq(Quotes) /\ Len(q) \in Nat
  BY RepriceAssumption
<1>2. IsFiniteSet(1 .. Len(q))
  BY <1>1, FS_Interval
<1>3. /\ Shorts(q) \subseteq 1 .. Len(q) /\ Longs(q) \subseteq 1 .. Len(q) /\ Deposits(q) \subseteq 1 .. Len(q)
  BY DEF Shorts, Longs, Deposits, Shown
<1>4. \A i \in 1 .. Len(q) : q[i].short \in Int /\ q[i].long \in Int /\ q[i].dep \in Int
  <2>1. \A i \in 1 .. Len(q) : q[i] \in Quotes
    BY <1>1
  <2> QED BY <2>1 DEF Quotes
<1>5. /\ IsFiniteSet(Shorts(q)) /\ IsFiniteSet(Longs(q)) /\ IsFiniteSet(Deposits(q))
  BY <1>2, <1>3, FS_Subset
<1>6. \A i \in Shorts(q) : q[i]["short"] \in Nat \ {0}
  BY <1>3, <1>4 DEF Shorts
<1>7. \A i \in Longs(q) : q[i]["long"] \in Nat \ {0}
  BY <1>3, <1>4 DEF Longs
<1>8. \A i \in Deposits(q) : q[i]["dep"] \in Nat \ {0}
  BY <1>3, <1>4 DEF Deposits
<1> QED BY <1>1, <1>3, <1>5, <1>6, <1>7, <1>8

\* A sum of prices is a natural, the first of them one of them, and a mean has
\* something to divide by.
LEMMA PricesType ==
  ASSUME NEW q, NEW S \in SUBSET Nat, IsFiniteSet(S), S # {}, NEW field,
         \A i \in S : q[i][field] \in Nat \ {0}
  PROVE  /\ Total(q, S, field) \in Nat /\ FirstOne(q, S, field) \in Nat \ {0}
         /\ 100 * Cardinality(S) \in Nat \ {0}
<1> DEFINE f == [i \in S |-> q[i][field]]
<1>1. \A i \in S : f[i] \in Nat
  OBVIOUS
<1>2. SumFunctionOnSet(f, S) \in Nat
  <2> HIDE DEF f
  <2> QED BY <1>1, SumType
<1>3. Min(S) \in S
  BY LeastNatural, MinIs
<1>4. Cardinality(S) \in Nat /\ Cardinality(S) # 0
  BY FS_CardinalityType, FS_EmptySet
<1>5. Total(q, S, field) \in Nat
  BY <1>2 DEF Total
<1>6. FirstOne(q, S, field) \in Nat \ {0}
  BY <1>3 DEF FirstOne
<1> QED BY <1>4, <1>5, <1>6

\* The largest rounded part of the short price is at least a cent.
LEMMA ShortType ==
  ASSUME NEW q \in Markets, HasBase(q), NEW percent \in {98, 100}
  PROVE  RoundedMax(ShortParts(q), percent) \in Nat \ {0}
<1> DEFINE n1 == Total(q, Shorts(q), "short") * Params.k1
           d1 == 100 * Cardinality(Shorts(q))
           n2 == FirstOne(q, Shorts(q), "short")
           n4 == Params.minLease * Value
<1>1. n1 \in Int /\ d1 \in Nat \ {0} /\ n2 \in Nat /\ n4 \in Int
  <2>1. /\ Total(q, Shorts(q), "short") \in Nat /\ n2 \in Nat \ {0} /\ d1 \in Nat \ {0}
    BY PlacesType, PricesType DEF HasBase
  <2>2. n1 \in Int
    BY <2>1, ParamTypes
  <2>3. n4 \in Int
    BY LeaseFloorType
  <2> HIDE DEF n1, d1, n2, n4
  <2> QED BY <2>1, <2>2, <2>3
<1> DEFINE a == RoundDiv(n1 * percent, d1 * 100)
           b == RoundDiv(n2 * percent, 1 * 100)
           c == RoundDiv(1 * percent, 1 * 100)
           e == RoundDiv(n4 * percent, 100 * 100)
<1>2. {RoundDiv(p[1] * percent, p[2] * 100) : p \in ShortParts(q)} = {a, b, c, e}
  <2>1. ShortParts(q) = {<<n1, d1>>, <<n2, 1>>, <<1, 1>>, <<n4, 100>>}
    BY DEF ShortParts
  <2> HIDE DEF n1, d1, n2, n4
  <2> QED BY <2>1
<1> HIDE DEF n1, d1, n2, n4
<1>3. a \in Int
  <2>1. n1 * percent \in Int /\ d1 * 100 \in Nat \ {0}
    BY <1>1
  <2> HIDE DEF n1, d1
  <2> QED BY <2>1, RoundDivType
<1>4. b \in Int /\ e \in Int
  <2>1. n2 * percent \in Int /\ n4 * percent \in Int /\ 1 * 100 \in Nat \ {0} /\ 100 * 100 \in Nat \ {0}
    BY <1>1
  <2> QED BY <2>1, RoundDivType
<1>5. c = 1
  BY DEF RoundDiv
<1> HIDE DEF a, b, c, e
<1>6. \E x \in {a, b, c, e} : \A y \in {a, b, c, e} : x >= y
  BY <1>3, <1>4, <1>5
<1>7. {a, b, c, e} \in SUBSET Int
  BY <1>3, <1>4, <1>5
<1> DEFINE S == {a, b, c, e}
<1>8. 1 \in S
  BY <1>5
<1>9. S \in SUBSET Int /\ \E x \in S : \A y \in S : x >= y
  BY <1>6, <1>7
<1>10. Max(S) = RoundedMax(ShortParts(q), percent)
  BY <1>2 DEF RoundedMax
<1> HIDE DEF S
<1>11. Max(S) \in Int /\ Max(S) >= 1
  BY <1>8, <1>9, MaxIs
<1> QED BY <1>10, <1>11

\* The base of the long price is positive.
LEMMA LongBaseType ==
  ASSUME NEW q \in Markets, HasBase(q)
  PROVE  LongBase(q) \in Nat \ {0}
<1> DEFINE s == RoundedMax(ShortParts(q), 100)
           r == RoundedMax(ShortParts(q), 98)
           m == RoundDiv(Total(q, Longs(q), "long") * Params.k2, 100 * Cardinality(Longs(q)))
           g == FirstOne(q, Longs(q), "long")
<1>1. s \in Nat \ {0} /\ r \in Nat \ {0}
  BY ShortType
<1>2. CASE Longs(q) = {}
  <2> HIDE DEF s
  <2>1. Max({s - 1, 1}) \in Nat \ {0}
    BY <1>1, MaxOfTwo
  <2> QED BY <1>2, <2>1 DEF LongBase, s
<1>3. CASE Longs(q) # {}
  <2>1. /\ Total(q, Longs(q), "long") \in Nat /\ g \in Nat /\ 100 * Cardinality(Longs(q)) \in Nat \ {0}
    BY <1>3, PlacesType, PricesType
  <2>2. m \in Int
    <3>1. Total(q, Longs(q), "long") * Params.k2 \in Int
      BY <2>1, ParamTypes
    <3> QED BY <2>1, <3>1, RoundDivType
  <2> HIDE DEF r, m, g
  <2>3. Min({r, m}) \in Int
    BY <1>1, <2>2, MinOfTwo
  <2> DEFINE u == Min({r, m})
  <2>4. Max({u, g, 1}) \in Int /\ Max({u, g, 1}) >= 1
    <3> HIDE DEF u
    <3>1. u \in Int /\ g \in Int /\ 1 \in Int
      BY <2>1, <2>3 DEF u
    <3>2. Max({u, g, 1}) \in {u, g, 1} /\ Max({u, g, 1}) >= 1
      BY <3>1, MaxOfThree
    <3> QED BY <3>1, <3>2
  <2> QED BY <1>3, <2>4 DEF LongBase, r, m, g
<1> QED BY <1>2, <1>3

\* The base of the deposit is positive.
LEMMA DepBaseType ==
  ASSUME NEW q \in Markets
  PROVE  DepBase(q) \in Nat
<1> DEFINE m == RoundDiv(Total(q, Deposits(q), "dep") * Params.k3, 100 * Cardinality(Deposits(q)))
           D == {q[i].dep : i \in Deposits(q)}
<1>1. CASE Deposits(q) = {}
  BY <1>1 DEF DepBase
<1>2. CASE Deposits(q) # {}
  <2>1. /\ Total(q, Deposits(q), "dep") \in Nat /\ 100 * Cardinality(Deposits(q)) \in Nat \ {0}
    BY <1>2, PlacesType, PricesType
  <2>2. m \in Int
    <3>1. Total(q, Deposits(q), "dep") * Params.k3 \in Int
      BY <2>1, ParamTypes
    <3> QED BY <2>1, <3>1, RoundDivType
  <2>3. D \in SUBSET Nat /\ D # {}
    BY <1>2, PlacesType
  <2> HIDE DEF m, D
  <2>4. Min(D) \in Nat
    <3>1. \E x \in D : \A y \in D : x <= y
      BY <2>3, LeastNatural
    <3>2. D \in SUBSET Int
      BY <2>3
    <3>3. Min(D) \in D
      BY <3>1, <3>2, MinIs
    <3> QED BY <2>3, <3>3
  <2>5. Max({m, Min(D)}) \in Nat
    BY <2>2, <2>4, MaxOfTwo
  <2> QED BY <1>2, <2>5 DEF DepBase, m, D
<1> QED BY <1>1, <1>2

\* A market with a short price has a positive baseline.
LEMMA BaselineType ==
  ASSUME NEW q \in Markets, HasBase(q)
  PROVE  Baseline(q) \in [short : Nat \ {0}, long : Nat \ {0}, dep : Nat]
<1>1. Min({LongBase(q), RoundedMax(ShortParts(q), 100)}) \in Nat \ {0}
  BY ShortType, LongBaseType, MinOfTwo
<1> QED BY <1>1, ShortType, DepBaseType DEF Baseline

-----------------------------------------------------------------------------
(* What Decide offers is within the guardrails *)

\* Rounding up and down, by the hundred.
LEMMA Hundredths ==
  ASSUME NEW x \in Int
  PROVE  /\ CeilDiv(x, 100) \in Int /\ CeilDiv(x, 100) * 100 >= x
         /\ x \div 100 \in Int /\ (x \div 100) * 100 <= x
BY DEF CeilDiv

\* Rounding hundredths does not fall below a whole number that was reached.
LEMMA RoundHundredths ==
  ASSUME NEW x \in Int
  PROVE  /\ RoundDiv(x, 100) \in Int
         /\ \A m \in Int : x >= 100 * m => RoundDiv(x, 100) >= m
BY DEF RoundDiv

\* Rounding hundredths adds at most a half.
LEMMA RoundNatural ==
  ASSUME NEW x \in Nat
  PROVE  RoundDiv(x, 100) \in Nat /\ RoundDiv(x, 100) * 100 <= x + 50
BY DEF RoundDiv

\* The bounds quantised inwards keep the absolute limits and the change rate.
LEMMA BoundsHold ==
  ASSUME NEW cur \in Nat
  PROVE  /\ RentBounds(cur).floor \in Int /\ RentBounds(cur).ceil \in Int
         /\ RentBounds(cur).floor >= Params.minRent /\ RentBounds(cur).ceil <= Params.maxRent
         /\ cur > 0 => /\ RentBounds(cur).floor * 100 >= cur * (100 - Params.maxChange)
                       /\ RentBounds(cur).ceil * 100 <= cur * (100 + Params.maxChange)
<1> DEFINE a == Params.minRent
           l == CeilDiv(Params.minLease * Value, 100)
           lo == CeilDiv(cur * (100 - Params.maxChange), 100)
           z == Params.maxRent
           hi == (cur * (100 + Params.maxChange)) \div 100
           F == {a, l} \cup (IF cur > 0 THEN {lo} ELSE {})
           C == {z} \cup (IF cur > 0 THEN {hi} ELSE {})
<1>1. RentBounds(cur).floor = Max(F) /\ RentBounds(cur).ceil = Min(C)
  BY DEF RentBounds
<1>2. a \in Int /\ z \in Int
  BY ParamTypes
<1>3. l \in Int
  <2>1. Params.minLease * Value \in Int
    BY LeaseFloorType
  <2> QED BY <2>1, Hundredths
<1>4. lo \in Int /\ lo * 100 >= cur * (100 - Params.maxChange) /\ hi \in Int /\ hi * 100 <= cur * (100 + Params.maxChange)
  <2>1. cur * (100 - Params.maxChange) \in Int /\ cur * (100 + Params.maxChange) \in Int
    BY ParamTypes
  <2> QED BY <2>1, Hundredths
<1> HIDE DEF a, l, lo, z, hi
<1>5. F \in SUBSET Int /\ C \in SUBSET Int /\ a \in F /\ z \in C /\ (cur > 0 => lo \in F /\ hi \in C)
  BY <1>2, <1>3, <1>4
<1>6. \E x \in F : \A y \in F : x >= y
  BY <1>2, <1>3, <1>4
<1>7. \E x \in C : \A y \in C : x <= y
  BY <1>2, <1>4
<1> HIDE DEF F, C
<1>8. Max(F) \in Int /\ \A y \in F : Max(F) >= y
  BY <1>5, <1>6, MaxIs
<1>9. Min(C) \in Int /\ \A y \in C : Min(C) <= y
  BY <1>5, <1>7, MinIs
<1>10. Max(F) >= a /\ Min(C) <= z /\ (cur > 0 => Max(F) >= lo /\ Min(C) <= hi)
  BY <1>5, <1>8, <1>9
<1> DEFINE p == cur * (100 - Params.maxChange)
           r == cur * (100 + Params.maxChange)
<1>11. p \in Int /\ r \in Int
  BY ParamTypes
<1>12. lo * 100 >= p /\ hi * 100 <= r
  BY <1>4
<1> HIDE DEF p, r
<1>13. cur > 0 => Max(F) * 100 >= p /\ Min(C) * 100 <= r
  BY <1>4, <1>8, <1>9, <1>10, <1>11, <1>12
<1> QED BY <1>1, <1>8, <1>9, <1>10, <1>13 DEF a, z, p, r

\* The new rent lies within the bounds.
LEMMA NewRentWithin ==
  ASSUME NEW q \in Markets, HasBase(q), NEW f \in Factors, NEW cur \in Nat,
         RentBounds(cur).floor <= RentBounds(cur).ceil
  PROVE  NewRent(Baseline(q), f, RentBounds(cur)) \in RentBounds(cur).floor .. RentBounds(cur).ceil
<1> DEFINE g == Clamp(f, Params.fmin, Params.fmax)
           x == RoundDiv(Baseline(q).short * g, 100)
<1>1. g \in Int
  <2>1. f \in Int
    BY RepriceAssumption
  <2>2. g \in Params.fmin .. Params.fmax
    BY <2>1, ParamTypes, ClampWithin
  <2> QED BY <2>2, ParamTypes
<1>2. x \in Int
  <2>1. Baseline(q).short \in Int
    BY BaselineType
  <2> HIDE DEF g
  <2>2. Baseline(q).short * g \in Int
    BY <1>1, <2>1
  <2> QED BY <2>2, RoundHundredths
<1> HIDE DEF x
<1>3. Clamp(x, RentBounds(cur).floor, RentBounds(cur).ceil) \in RentBounds(cur).floor .. RentBounds(cur).ceil
  BY <1>2, BoundsHold, ClampWithin
<1> QED BY <1>3 DEF NewRent, x

\* A rent between two bounds that keep the change rate keeps it.
LEMMA ChangeWithin ==
  ASSUME NEW rent \in Int, NEW cur \in Nat, NEW m \in Nat,
         rent * 100 >= cur * (100 - m), rent * 100 <= cur * (100 + m)
  PROVE  Abs(rent - cur) * 100 <= m * cur
<1> DEFINE k == m * cur
<1>1. k \in Int /\ cur * (100 - m) = 100 * cur - k /\ cur * (100 + m) = 100 * cur + k
  OBVIOUS
<1> HIDE DEF k
<1>2. rent * 100 >= 100 * cur - k /\ rent * 100 <= 100 * cur + k
  BY <1>1
<1>3. Abs(rent - cur) * 100 <= k
  BY <1>1, <1>2 DEF Abs
<1> QED BY <1>3 DEF k

\* The lease days of a channel are a number.
LEMMA DaysType == \A ch : DaysOf(ch) \in Int
<1>1. Clamp(Params.ecoDays, Params.dayMin, Params.dayMax) \in Int
  BY ParamTypes, MaxOfTwo, MinOfTwo DEF Clamp
<1> QED BY <1>1, ParamTypes DEF DaysOf

\* Long price and deposit that go with a rent, before they are rounded.
LEMMA TermParts ==
  ASSUME NEW ch \in {"eco", "uu"}, NEW base \in [short : Nat \ {0}, long : Nat \ {0}, dep : Nat], NEW rent \in Nat
  PROVE  /\ LongOf(base, rent) \in Nat /\ LongOf(base, rent) <= rent * 98
         /\ DepositOf(ch, base, rent) \in Nat
         /\ ch = "eco" => DepositOf(ch, base, rent) >= 100 * (rent * DaysOf(ch))
<1> DEFINE l == LongOf(base, rent)
           d == DaysOf(ch)
<1>1. l \in Nat /\ l <= rent * 98
  <2>1. rent * 98 \in Nat /\ base.long * 100 \in Nat
    OBVIOUS
  <2> DEFINE u == rent * 98
             w == base.long * 100
  <2> HIDE DEF u, w
  <2>2. Min({u, w}) = IF u <= w THEN u ELSE w
    BY <2>1, MinOfTwo DEF u, w
  <2>3. Min({u, w}) \in Nat /\ Min({u, w}) <= u
    BY <2>1, <2>2 DEF u, w
  <2> QED BY <2>3 DEF LongOf, u, w
<1>2. d \in Int
  BY DaysType
<1>3. CASE ch = "eco"
  <2> DEFINE x == Value * 140
             y == rent * d * 100
             z == l * d
  <2> HIDE DEF l, d
  <2>1. x \in Nat /\ y \in Int /\ z \in Int
    BY <1>1, <1>2, ParamTypes
  <2>2. y = 100 * (rent * d)
    BY <1>2
  <2>3. DepositOf(ch, base, rent) = Max({x, y, z})
    BY <1>3 DEF DepositOf, l, d
  <2> HIDE DEF x, y, z
  <2>4. Max({x, y, z}) \in {x, y, z} /\ Max({x, y, z}) >= x /\ Max({x, y, z}) >= y
    <3>1. x \in Int /\ y \in Int /\ z \in Int
      BY <2>1
    <3> QED BY <3>1, MaxOfThree, Zenon
  <2>5. Max({x, y, z}) \in Nat
    BY <2>1, <2>4
  <2>6. LongOf(base, rent) \in Nat /\ LongOf(base, rent) <= rent * 98
    BY <1>1 DEF l
  <2> QED BY <2>2, <2>3, <2>4, <2>5, <2>6 DEF d
<1>4. CASE ch # "eco"
  <2> DEFINE x == base.dep * 100
             y == Params.depFloor * Value
  <2>1. x \in Nat /\ y \in Nat
    BY ParamTypes
  <2>2. DepositOf(ch, base, rent) = Max({x, y})
    BY <1>4 DEF DepositOf
  <2> HIDE DEF x, y
  <2>3. Max({x, y}) \in Nat
    BY <2>1, MaxOfTwo
  <2> QED BY <1>1, <1>4, <2>2, <2>3
<1> QED BY <1>3, <1>4

\* The terms that go with a rent within the bounds are within the guardrails.
LEMMA TermsWithin ==
  ASSUME NEW ch \in {"eco", "uu"}, NEW base \in [short : Nat \ {0}, long : Nat \ {0}, dep : Nat],
         NEW cur \in Nat, NEW rent \in Params.minRent .. Params.maxRent,
         cur > 0 => rent * 100 >= cur * (100 - Params.maxChange) /\ rent * 100 <= cur * (100 + Params.maxChange),
         ~CapExceeded(ch, base, rent)
  PROVE  /\ WithinGuardrails(ch, TermsFor(ch, base, rent), cur)
         /\ TermsFor(ch, base, rent) \in [rent : Params.minRent .. Params.maxRent, long : Nat, dep : Nat, days : Int]
<1> DEFINE t == TermsFor(ch, base, rent)
           l == LongOf(base, rent)
           D == DepositOf(ch, base, rent)
<1>1. rent \in Nat
  BY ParamTypes
<1>2. /\ l \in Nat /\ l <= rent * 98 /\ D \in Nat /\ (ch = "eco" => D >= 100 * (rent * DaysOf(ch)))
  BY <1>1, TermParts
<1>3. /\ t.rent = rent /\ t.days = DaysOf(ch) /\ t.dep = RoundDiv(D, 100) /\ (t.long = 0 \/ t.long = RoundDiv(l, 100))
  BY DEF TermsFor
<1>4. RoundDiv(l, 100) \in Nat /\ RoundDiv(l, 100) <= rent
  <2> HIDE DEF l
  <2>1. RoundDiv(l, 100) \in Nat /\ RoundDiv(l, 100) * 100 <= l + 50
    BY <1>2, RoundNatural
  <2>2. RoundDiv(l, 100) * 100 <= rent * 98 + 50
    BY <1>1, <1>2, <2>1
  <2> QED BY <1>1, <2>1, <2>2
<1>5. RoundDiv(D, 100) \in Nat /\ RoundDiv(D, 100) * 100 <= D + 50
      /\ (ch = "eco" => RoundDiv(D, 100) >= rent * DaysOf(ch))
  <2> DEFINE k == rent * DaysOf(ch)
  <2>1. k \in Int
    BY <1>1, DaysType
  <2> HIDE DEF D, k
  <2>2. RoundDiv(D, 100) \in Nat /\ RoundDiv(D, 100) * 100 <= D + 50
    BY <1>2, RoundNatural
  <2>3. ch = "eco" => RoundDiv(D, 100) >= k
    BY <1>2, <2>1, RoundHundredths DEF k
  <2> QED BY <2>2, <2>3 DEF k
<1>6. t = [rent |-> t.rent, long |-> t.long, dep |-> t.dep, days |-> t.days]
  BY DEF TermsFor
<1>7. ch = "eco" /\ Params.depCap > 0 => D <= Params.depCap * Value
  <2> DEFINE c == Params.depCap * Value
  <2>1. c \in Int
    BY ParamTypes
  <2> HIDE DEF c, D
  <2>2. ch = "eco" /\ Params.depCap > 0 => ~(D > c)
    BY DEF CapExceeded, c, D
  <2> QED BY <1>2, <2>1, <2>2 DEF c
<1>8. ASSUME cur > 0 PROVE Abs(rent - cur) * 100 <= Params.maxChange * cur
  <2>1. rent \in Int /\ Params.maxChange \in Nat
    BY <1>1, ParamTypes
  <2>2. rent * 100 >= cur * (100 - Params.maxChange) /\ rent * 100 <= cur * (100 + Params.maxChange)
    BY <1>8
  <2> QED BY <2>1, <2>2, ChangeWithin, Zenon
<1>9. t.long \in Nat /\ t.long <= rent /\ DaysOf(ch) \in Int
  BY <1>1, <1>3, <1>4, DaysType
<1> HIDE DEF t, l, D
<1>10. ch = "eco" /\ Params.depCap > 0 => t.dep * 100 <= Params.depCap * Value + 50
  <2> DEFINE c == Params.depCap * Value
  <2>1. c \in Int
    BY ParamTypes
  <2> HIDE DEF c
  <2>2. ch = "eco" /\ Params.depCap > 0 => D <= c
    BY <1>7 DEF c
  <2>3. ch = "eco" /\ Params.depCap > 0 => t.dep * 100 <= c + 50
    BY <1>2, <1>3, <1>5, <2>1, <2>2
  <2> QED BY <2>3 DEF c
<1>11. WithinGuardrails(ch, t, cur)
  BY <1>3, <1>5, <1>8, <1>9, <1>10 DEF WithinGuardrails
<1>12. t \in [rent : Params.minRent .. Params.maxRent, long : Nat, dep : Nat, days : Int]
  BY <1>3, <1>5, <1>6, <1>9
<1> QED BY <1>11, <1>12 DEF t

Terms == [rent : Rents, long : Nat, dep : Nat, days : Int]

\* What Decide offers for a rent is within the guardrails around that rent.
LEMMA OffersAreSafe ==
  ASSUME NEW ch \in {"eco", "uu"}, NEW q \in Markets, NEW f \in Factors, NEW cur \in Rents,
         Price(ch, q, f, cur).skip = "none"
  PROVE  /\ Price(ch, q, f, cur).terms \in Terms
         /\ WithinGuardrails(ch, Price(ch, q, f, cur).terms, cur)
<1> DEFINE base == Baseline(q)
           rent == NewRent(base, f, RentBounds(cur))
           d == Price(ch, q, f, cur)
<1>1. d = IF Blocked(q, cur) THEN Skip("blocked")
          ELSE IF CapExceeded(ch, base, rent) THEN Skip("blocked") ELSE Offer(TermsFor(ch, base, rent))
  BY DEF Price
<1>2. ~Blocked(q, cur) /\ ~CapExceeded(ch, base, rent) /\ d.terms = TermsFor(ch, base, rent)
  BY <1>1 DEF Skip, Offer
<1>3. cur \in Nat
  BY ParamTypes DEF Rents
<1>4. HasBase(q) /\ RentBounds(cur).floor <= RentBounds(cur).ceil
  BY <1>2, <1>3, BoundsHold DEF Blocked
<1>5. rent \in RentBounds(cur).floor .. RentBounds(cur).ceil
  BY <1>3, <1>4, NewRentWithin
<1>6. base \in [short : Nat \ {0}, long : Nat \ {0}, dep : Nat]
  BY <1>4, BaselineType
<1> HIDE DEF base, rent, d
<1>7. rent \in Params.minRent .. Params.maxRent
  BY <1>3, <1>5, BoundsHold, ParamTypes
<1>8. ASSUME cur > 0
      PROVE  rent * 100 >= cur * (100 - Params.maxChange) /\ rent * 100 <= cur * (100 + Params.maxChange)
  <2> DEFINE lo == RentBounds(cur).floor
             hi == RentBounds(cur).ceil
             x == cur * (100 - Params.maxChange)
             y == cur * (100 + Params.maxChange)
  <2>1. lo \in Int /\ hi \in Int /\ lo * 100 >= x /\ hi * 100 <= y
    BY <1>3, <1>8, BoundsHold
  <2>2. x \in Int /\ y \in Int /\ rent \in lo .. hi
    BY <1>3, <1>5, ParamTypes
  <2> HIDE DEF lo, hi, x, y
  <2>3. rent * 100 >= x /\ rent * 100 <= y
    BY <2>1, <2>2
  <2> QED BY <2>3 DEF x, y
<1>9. /\ WithinGuardrails(ch, TermsFor(ch, base, rent), cur)
      /\ TermsFor(ch, base, rent) \in [rent : Params.minRent .. Params.maxRent, long : Nat, dep : Nat, days : Int]
  BY <1>2, <1>3, <1>6, <1>7, <1>8, TermsWithin
<1> DEFINE t == TermsFor(ch, base, rent)
<1>10. t \in Terms
  <2> HIDE DEF t
  <2>1. t \in [rent : Params.minRent .. Params.maxRent, long : Nat, dep : Nat, days : Int]
    BY <1>9 DEF t
  <2> QED BY <2>1 DEF Terms, Rents
<1> QED BY <1>2, <1>9, <1>10 DEF d

\* Cooldown and noise floor only hold a decision back.
LEMMA DecisionsAreSafe ==
  ASSUME NEW ch \in {"eco", "uu"}, NEW q \in Markets, NEW f \in Factors, NEW old \in Terms,
         NEW ignoreNoise, NEW cooling, Decide(ch, q, f, old, ignoreNoise, cooling).skip = "none"
  PROVE  /\ Decide(ch, q, f, old, ignoreNoise, cooling).terms \in Terms
         /\ WithinGuardrails(ch, Decide(ch, q, f, old, ignoreNoise, cooling).terms, old.rent)
<1>1. old.rent \in Rents
  BY DEF Terms
<1> DEFINE d == Price(ch, q, f, old.rent)
<1>2. PriceOf[ch][q][f][old.rent] = d
  BY <1>1 DEF PriceOf
<1>4. Decide(ch, q, f, old, ignoreNoise, cooling) = d /\ d.skip = "none"
  <2> HIDE DEF d
  <2> QED BY <1>2 DEF Decide, Skip
<1>3. d.terms \in Terms /\ WithinGuardrails(ch, d.terms, old.rent)
  BY <1>1, <1>4, OffersAreSafe
<1> QED BY <1>3, <1>4

-----------------------------------------------------------------------------
(* What the job submits *)

RepriceShape ==
  /\ channel \in {"eco", "uu"} /\ quotes \in Markets /\ factorNow \in Factors
  /\ drifts \in 0 .. MaxDrifts /\ rowTerms \in Terms /\ shelfTerms \in Terms
  /\ result \in {"none", "accepted", "failed"} /\ answer \in {"none", "ok", "error", "risk"}

RepriceFlags == real \in BOOLEAN /\ subletRow \in BOOLEAN /\ recent \in BOOLEAN /\ resting \in BOOLEAN

\* A decision is about the rent of the candidate it was made for, whatever has
\* changed since, and is kept until its answer is written back.
DecisionIsSafe ==
  /\ cand # NoRun => cand.terms \in Terms /\ cand.factor \in Factors
  /\ sending # NoRun => /\ cand # NoRun /\ sending \in Terms
                        /\ WithinGuardrails(channel, sending, cand.terms.rent)
  /\ result # "none" => sending # NoRun

RepriceInv == RepriceShape /\ RepriceFlags /\ DecisionIsSafe /\ SubmittedTermsAreSafe

\* The invariant holds before the first run.
LEMMA RepriceInitially == RepriceInit => RepriceInv
<1> SUFFICES ASSUME RepriceInit PROVE RepriceInv
  OBVIOUS
<1>1. RepriceFlags
  BY Zenon DEF RepriceInit, RepriceFlags
<1>2. rowTerms \in Terms
  BY ParamTypes DEF RepriceInit, Terms, Rents
<1>3. RepriceShape
  BY <1>2, RepriceAssumption DEF RepriceInit, RepriceShape
<1>4. DecisionIsSafe /\ SubmittedTermsAreSafe
  BY DEF RepriceInit, DecisionIsSafe, SubmittedTermsAreSafe
<1> QED BY <1>1, <1>3, <1>4 DEF RepriceInv

\* Every step of the job, of the platform and of what drifts keeps the invariant.
LEMMA RepriceStep == RepriceInv /\ [RepriceNext]_repriceVars => RepriceInv'
<1> SUFFICES ASSUME RepriceInv, [RepriceNext]_repriceVars PROVE RepriceInv'
  OBVIOUS
<1> USE DEF RepriceInv
<1>f. RepriceFlags'
  <2> USE DEF RepriceFlags, marketVars, repriceVars
  <2>1. CASE UNCHANGED <<real, subletRow, recent, resting>>
    BY <2>1, Zenon
  <2>2. ASSUME NEW err \in {"error", "risk"}, SubmitFails(err) PROVE RepriceFlags'
    BY <2>2, Zenon DEF SubmitFails, RiskCooldown
  <2>3. ASSUME WriteBack PROVE RepriceFlags'
    <3>1. subletRow' \in BOOLEAN
      BY <2>3, Zenon DEF WriteBack
    <3>2. recent' \in BOOLEAN /\ real' = real /\ resting' = resting
      BY <2>3, Zenon DEF WriteBack
    <3> QED BY <3>1, <3>2, Zenon
  <2>4. ASSUME CooldownEnds PROVE RepriceFlags'
    BY <2>4, Zenon DEF CooldownEnds
  <2>5. ASSUME Drift PROVE RepriceFlags'
    BY <2>5, Zenon DEF Drift
  <2>6. ASSUME \/ ReadCandidate \/ DecideCandidate \/ RepriceStops \/ SubmitAccepted \/ RecordFailure \/ MirrorTerms
               \/ UNCHANGED repriceVars
        PROVE  UNCHANGED <<real, subletRow, recent, resting>>
    BY <2>6, Zenon DEF ReadCandidate, DecideCandidate, RepriceStops, SubmitAccepted, RecordFailure, MirrorTerms
  <2> QED BY <2>1, <2>2, <2>3, <2>4, <2>5, <2>6, Zenon DEF RepriceNext
<1> USE DEF RepriceShape, DecisionIsSafe, SubmittedTermsAreSafe, marketVars
<1>1. CASE UNCHANGED repriceVars
  BY <1>1, <1>f DEF repriceVars
<1>2. CASE ReadCandidate
  <2>1. cand'.terms = rowTerms /\ cand'.factor = factorNow
    BY <1>2 DEF ReadCandidate, Candidate
  <2>2. sending = NoRun /\ result = "none"
    BY <1>2 DEF ReadCandidate, Idle
  <2> QED BY <1>2, <1>f, <2>1, <2>2 DEF ReadCandidate
<1>3. CASE DecideCandidate
  <2> DEFINE d == Decide(channel, quotes, cand.factor, cand.terms, IgnoreNoise, cand.cooling)
  <2>1. CASE d.skip # "none" \/ ~real
    <3>1. cand' = NoRun /\ sending' = NoRun /\ result' = "none"
      BY <1>3, <2>1 DEF DecideCandidate, EndOfRun
    <3> QED BY <1>3, <1>f, <3>1 DEF DecideCandidate
  <2>2. CASE d.skip = "none" /\ real
    <3>1. cand # NoRun /\ sending' = d.terms /\ cand' = cand /\ result' = result
      BY <1>3, <2>2 DEF DecideCandidate
    <3>2. d.terms \in Terms /\ WithinGuardrails(channel, d.terms, cand.terms.rent)
      BY <2>2, <3>1, DecisionsAreSafe
    <3>3. result = "none"
      BY <1>3 DEF DecideCandidate
    <3> HIDE DEF d
    <3>4. DecisionIsSafe'
      <4>1. channel' = channel
        BY <1>3 DEF DecideCandidate
      <4> QED BY <3>1, <3>2, <3>3, <4>1 DEF WithinGuardrails
    <3> QED BY <1>3, <1>f, <3>1, <3>4 DEF DecideCandidate
  <2> QED BY <2>1, <2>2
<1>4. CASE RepriceStops \/ RecordFailure
  <2>1. cand' = NoRun /\ sending' = NoRun /\ result' = "none"
    BY <1>4 DEF RepriceStops, RecordFailure, EndOfRun
  <2> QED BY <1>4, <1>f, <2>1 DEF RepriceStops, RecordFailure
<1>5. CASE SubmitAccepted
  <2>1. sending # NoRun /\ sent'.terms = sending /\ sent'.from = cand.terms.rent
    BY <1>5 DEF SubmitAccepted, SubmitStep
  <2> QED BY <1>5, <1>f, <2>1 DEF SubmitAccepted
<1>6. ASSUME NEW err \in {"error", "risk"}, SubmitFails(err) PROVE RepriceInv'
  <2>1. sending # NoRun /\ sent'.terms = sending /\ sent'.from = cand.terms.rent
    BY <1>6 DEF SubmitFails, SubmitStep
  <2>2. shelfTerms' \in Terms
    BY <1>6, <2>1 DEF SubmitFails
  <2> QED BY <1>6, <1>f, <2>1, <2>2 DEF SubmitFails
<1>7. CASE WriteBack
  <2>1. cand' = NoRun /\ sending' = NoRun /\ result' = "none"
    BY <1>7 DEF WriteBack, EndOfRun
  <2>2. rowTerms' \in Terms
    BY <1>7 DEF WriteBack
  <2> QED BY <1>7, <1>f, <2>1, <2>2 DEF WriteBack
<1>8. CASE MirrorTerms
  BY <1>8, <1>f DEF MirrorTerms
<1>9. CASE CooldownEnds
  BY <1>9, <1>f DEF CooldownEnds
<1>10. CASE Drift
  <2>1. drifts' \in 0 .. MaxDrifts
    BY <1>10, ParamTypes DEF Drift
  <2> QED BY <1>10, <1>f, <2>1 DEF Drift
<1> QED BY <1>1, <1>2, <1>3, <1>4, <1>5, <1>6, <1>7, <1>8, <1>9, <1>10 DEF RepriceNext

\* Decide's "price satisfying all bounds" for every market, factor, rent and valid
\* strategy: what repriceChannel submits is within the guardrails around the rent
\* it was derived from, however old the candidate is by then.
THEOREM GuardrailsHold == RepriceSpec => []SubmittedTermsAreSafe
<1>1. RepriceInv => SubmittedTermsAreSafe
  BY DEF RepriceInv
<1> QED
  BY <1>1, RepriceInitially, RepriceStep, PTL DEF RepriceSpec

\* The reprice job's state keeps its shape.
THEOREM RepriceTypeCorrect == RepriceSpec => []RepriceTypeOK
<1>1. RepriceInv => RepriceTypeOK
  <2> SUFFICES ASSUME RepriceInv PROVE RepriceTypeOK
    OBVIOUS
  <2>1. \A r \in Rents : r \in Nat
    BY ParamTypes DEF Rents
  <2>2. \A t \in Terms : t.rent \in Nat /\ t.long \in Nat /\ t.dep \in Nat /\ t.days \in Int
    BY <2>1 DEF Terms
  <2>3. \A t \in {shelfTerms, rowTerms} : t.rent \in Nat /\ t.long \in Nat /\ t.dep \in Nat /\ t.days \in Int
    BY <2>2 DEF RepriceInv, RepriceShape
  <2>4. (sending # NoRun \/ result # "none") => cand # NoRun
    BY DEF RepriceInv, DecisionIsSafe
  <2> QED BY <2>3, <2>4, Zenon DEF RepriceInv, RepriceShape, RepriceFlags, RepriceTypeOK
<1> QED
  BY <1>1, RepriceInitially, RepriceStep, PTL DEF RepriceSpec

-----------------------------------------------------------------------------
(* What Decide offers approaches the target *)

\* The limits of the change rate lie around the current rent, and a cent of room
\* leaves one on either side.
LEMMA CapAroundRent ==
  ASSUME NEW cur \in Nat, NEW m \in Nat
  PROVE  LET lo == CeilDiv(cur * (100 - m), 100)
             hi == (cur * (100 + m)) \div 100
         IN  /\ lo \in Int /\ hi \in Int /\ lo <= cur /\ cur <= hi
             /\ m * cur >= 100 => lo < cur /\ cur < hi
<1> DEFINE k == m * cur
<1>1. k \in Nat /\ cur * (100 - m) = 100 * cur - k /\ cur * (100 + m) = 100 * cur + k
  OBVIOUS
<1> HIDE DEF k
<1>2. /\ CeilDiv(100 * cur - k, 100) \in Int /\ CeilDiv(100 * cur - k, 100) <= cur
      /\ k >= 100 => CeilDiv(100 * cur - k, 100) < cur
  BY <1>1 DEF CeilDiv
<1>3. /\ (100 * cur + k) \div 100 \in Int /\ cur <= (100 * cur + k) \div 100
      /\ k >= 100 => cur < (100 * cur + k) \div 100
  BY <1>1
<1> QED BY <1>1, <1>2, <1>3 DEF k

\* The bounds of a decision are those of the target and of the change rate.
LEMMA BoundsParts ==
  ASSUME NEW cur \in Nat, cur > 0
  PROVE  LET lo == CeilDiv(cur * (100 - Params.maxChange), 100)
             hi == (cur * (100 + Params.maxChange)) \div 100
             b  == RentBounds(cur)
         IN  /\ RentFloor \in Int
             /\ b.floor \in {RentFloor, lo} /\ b.floor >= RentFloor /\ b.floor >= lo
             /\ b.ceil \in {Params.maxRent, hi} /\ b.ceil <= Params.maxRent /\ b.ceil <= hi
<1> DEFINE a == Params.minRent
           l == CeilDiv(Params.minLease * Value, 100)
           lo == CeilDiv(cur * (100 - Params.maxChange), 100)
           z == Params.maxRent
           hi == (cur * (100 + Params.maxChange)) \div 100
<1>1. RentBounds(cur).floor = Max({a, l, lo}) /\ RentBounds(cur).ceil = Min({z, hi})
  <2>1. {a, l} \cup (IF cur > 0 THEN {lo} ELSE {}) = {a, l, lo} /\ {z} \cup (IF cur > 0 THEN {hi} ELSE {}) = {z, hi}
    <3> HIDE DEF a, l, lo, z, hi
    <3> QED OBVIOUS
  <2>2. /\ RentBounds(cur).floor = Max({a, l} \cup (IF cur > 0 THEN {lo} ELSE {}))
        /\ RentBounds(cur).ceil = Min({z} \cup (IF cur > 0 THEN {hi} ELSE {}))
    BY DEF RentBounds
  <2> QED BY <2>1, <2>2, Zenon
<1>2. RentFloor = Max({a, l})
  BY DEF RentFloor
<1>3. a \in Int /\ z \in Int /\ lo \in Int /\ hi \in Int
  <2>1. Params.maxChange \in Nat /\ a \in Int /\ z \in Int
    BY ParamTypes
  <2>2. lo \in Int /\ hi \in Int
    BY <2>1, CapAroundRent, ZenonT(40)
  <2> QED BY <2>1, <2>2
<1>4. l \in Int
  BY LeaseFloorType, Hundredths
<1> HIDE DEF a, l, lo, z, hi
<1>5. RentFloor = (IF a >= l THEN a ELSE l)
  BY <1>2, <1>3, <1>4, MaxOfTwo
<1>6. Min({z, hi}) = IF z <= hi THEN z ELSE hi
  BY <1>3, MinOfTwo
<1>7. /\ Max({a, l, lo}) \in {a, l, lo}
      /\ Max({a, l, lo}) >= a /\ Max({a, l, lo}) >= l /\ Max({a, l, lo}) >= lo
  BY <1>3, <1>4, MaxOfThree
<1>8. /\ RentBounds(cur).floor \in {RentFloor, lo} /\ RentBounds(cur).floor >= RentFloor
      /\ RentBounds(cur).floor >= lo
  BY <1>1, <1>3, <1>4, <1>5, <1>7
<1>9. RentBounds(cur).ceil \in {z, hi} /\ RentBounds(cur).ceil <= z /\ RentBounds(cur).ceil <= hi
  BY <1>1, <1>3, <1>6
<1> QED BY <1>3, <1>4, <1>5, <1>8, <1>9 DEF z, lo, hi

\* The bounds fl, ce are low, top narrowed to lo, hi around the current rent.
Narrowed(fl, ce, low, top, lo, hi, cur) ==
  /\ \A n \in {fl, ce, low, top, lo, hi, cur} : n \in Int
  /\ (fl = low \/ fl = lo) /\ fl >= low /\ fl >= lo
  /\ (ce = top \/ ce = hi) /\ ce <= top /\ ce <= hi
  /\ lo <= cur /\ cur <= hi /\ fl <= ce

\* Clamping to tighter bounds around the current rent stops on the way to where
\* the wider bounds lead, and not at once.
LEMMA ClampApproaches ==
  ASSUME NEW x \in Int, NEW fl, NEW ce, NEW low, NEW top, NEW lo, NEW hi, NEW cur,
         Narrowed(fl, ce, low, top, lo, hi, cur)
  PROVE  /\ Between(Clamp(x, fl, ce), cur, Clamp(x, low, top))
         /\ Clamp(x, fl, ce) = cur /\ lo < cur /\ cur < hi => cur = Clamp(x, low, top)
<1>1. ASSUME NEW b \in Int, NEW t \in Int, b <= t
      PROVE  Clamp(x, b, t) = IF x < b THEN b ELSE IF x > t THEN t ELSE x
  BY <1>1, MaxOfTwo, MinOfTwo DEF Clamp
<1>2. /\ fl \in Int /\ ce \in Int /\ low \in Int /\ top \in Int /\ lo \in Int /\ hi \in Int /\ cur \in Int
      /\ (fl = low \/ fl = lo) /\ fl >= low /\ fl >= lo
      /\ (ce = top \/ ce = hi) /\ ce <= top /\ ce <= hi
      /\ lo <= cur /\ cur <= hi /\ fl <= ce /\ low <= top
  BY DEF Narrowed
<1>3. /\ Clamp(x, fl, ce) = (IF x < fl THEN fl ELSE IF x > ce THEN ce ELSE x)
      /\ Clamp(x, low, top) = (IF x < low THEN low ELSE IF x > top THEN top ELSE x)
  BY <1>1, <1>2
<1> DEFINE n == Clamp(x, fl, ce)
           g == Clamp(x, low, top)
<1> HIDE DEF n, g
<1>4. (n <= cur /\ g <= n) \/ (cur <= n /\ n <= g)
  BY <1>2, <1>3 DEF n, g
<1>5. n = cur /\ lo < cur /\ cur < hi => cur = g
  BY <1>2, <1>3 DEF n, g
<1> QED BY <1>4, <1>5 DEF Between, n, g

\* A decision from a positive rent lies on the way to the target.
LEMMA OffersApproach ==
  ASSUME NEW ch \in {"eco", "uu"}, NEW q \in Markets, NEW f \in Factors, NEW cur \in Rents, cur > 0,
         Price(ch, q, f, cur).skip = "none"
  PROVE  /\ Between(Price(ch, q, f, cur).terms.rent, cur, Target(q, f))
         /\ Price(ch, q, f, cur).terms.rent = cur => cur = Target(q, f) \/ Params.maxChange * cur < 100
<1> DEFINE base == Baseline(q)
           rent == NewRent(base, f, RentBounds(cur))
           x == RoundDiv(base.short * Clamp(f, Params.fmin, Params.fmax), 100)
           lo == CeilDiv(cur * (100 - Params.maxChange), 100)
           hi == (cur * (100 + Params.maxChange)) \div 100
           fl == RentBounds(cur).floor
           ce == RentBounds(cur).ceil
           room == Params.maxChange * cur
<1>1. ~Blocked(q, cur) /\ Price(ch, q, f, cur).terms.rent = rent
  BY DEF Price, Skip, Offer, TermsFor
<1>2. cur \in Nat
  BY ParamTypes DEF Rents
<1>3. HasBase(q) /\ fl <= ce
  BY <1>1, <1>2, BoundsHold DEF Blocked
<1>4. x \in Int
  <2> DEFINE g == Clamp(f, Params.fmin, Params.fmax)
  <2>1. g \in Int
    <3>1. f \in Int /\ Params.fmin \in Int /\ Params.fmax \in Int /\ Params.fmin <= Params.fmax
      BY RepriceAssumption, ParamTypes
    <3>2. g \in Params.fmin .. Params.fmax
      BY <3>1, ClampWithin
    <3> QED BY <3>1, <3>2
  <2>2. base.short \in Int
    BY <1>3, BaselineType
  <2> HIDE DEF g
  <2>3. base.short * g \in Int
    BY <2>1, <2>2
  <2> QED BY <2>3, RoundHundredths DEF g
<1>5. rent = Clamp(x, fl, ce) /\ Target(q, f) = Clamp(x, RentFloor, Params.maxRent)
  BY DEF NewRent, Target
<1>6. /\ lo \in Int /\ hi \in Int /\ lo <= cur /\ cur <= hi /\ room \in Int
      /\ room >= 100 => lo < cur /\ cur < hi
  <2>1. Params.maxChange \in Nat
    BY ParamTypes
  <2>2. /\ lo \in Int /\ hi \in Int /\ lo <= cur /\ cur <= hi
        /\ room >= 100 => lo < cur /\ cur < hi
    BY <1>2, <2>1, CapAroundRent, Zenon
  <2>3. room \in Int
    BY <1>2, <2>1
  <2> QED BY <2>2, <2>3
<1>7. /\ RentFloor \in Int /\ Params.maxRent \in Int
      /\ fl \in {RentFloor, lo} /\ fl >= RentFloor /\ fl >= lo
      /\ ce \in {Params.maxRent, hi} /\ ce <= Params.maxRent /\ ce <= hi
  BY <1>2, ParamTypes, BoundsParts
<1> HIDE DEF rent, x, lo, hi, fl, ce, room
<1>8. /\ Between(rent, cur, Target(q, f))
      /\ rent = cur /\ lo < cur /\ cur < hi => cur = Target(q, f)
  <2>1. Narrowed(fl, ce, RentFloor, Params.maxRent, lo, hi, cur)
    BY <1>2, <1>3, <1>6, <1>7 DEF Narrowed
  <2>2. /\ Between(Clamp(x, fl, ce), cur, Clamp(x, RentFloor, Params.maxRent))
        /\ Clamp(x, fl, ce) = cur /\ lo < cur /\ cur < hi => cur = Clamp(x, RentFloor, Params.maxRent)
    BY <1>4, <2>1, ClampApproaches
  <2> QED BY <1>5, <2>2
<1>9. rent = cur => cur = Target(q, f) \/ room < 100
  BY <1>6, <1>8
<1> QED BY <1>1, <1>8, <1>9 DEF room

\* Decide under repriceChannel: for every strategy, market, factor and rent a
\* decision that is sent moves the rent towards its target, never past it and,
\* with a cent of room, never in place: the argument behind PriceSettles.
THEOREM RepriceApproachesTarget == RepriceSpec => DecisionsApproachTarget
<1> DEFINE Towards ==
      LET cur == cand.terms.rent
          goal == Target(quotes, cand.factor)
      IN  DecideCandidate /\ sending' # NoRun /\ cur > 0 =>
            /\ Between(sending'.rent, cur, goal)
            /\ sending'.rent = cur => cur = goal \/ Params.maxChange * cur < 100
<1>1. RepriceInv /\ [RepriceNext]_repriceVars => [Towards]_repriceVars
  <2> DEFINE d == Decide(channel, quotes, cand.factor, cand.terms, IgnoreNoise, cand.cooling)
             p == Price(channel, quotes, cand.factor, cand.terms.rent)
  <2> SUFFICES ASSUME RepriceInv, DecideCandidate, sending' # NoRun, cand.terms.rent > 0
               PROVE  /\ Between(sending'.rent, cand.terms.rent, Target(quotes, cand.factor))
                      /\ sending'.rent = cand.terms.rent =>
                           \/ cand.terms.rent = Target(quotes, cand.factor)
                           \/ Params.maxChange * cand.terms.rent < 100
    OBVIOUS
  <2>1. cand # NoRun /\ d.skip = "none" /\ sending' = d.terms
    BY DEF DecideCandidate, EndOfRun
  <2>2. /\ cand.terms \in Terms /\ cand.factor \in Factors
        /\ channel \in {"eco", "uu"} /\ quotes \in Markets
    BY <2>1 DEF RepriceInv, RepriceShape, DecisionIsSafe
  <2>3. cand.terms.rent \in Rents
    BY <2>2 DEF Terms
  <2>4. PriceOf[channel][quotes][cand.factor][cand.terms.rent] = p
    BY <2>2, <2>3 DEF PriceOf
  <2>5. d = p /\ p.skip = "none"
    <3> HIDE DEF p
    <3> QED BY <2>1, <2>4 DEF Decide, Skip
  <2>6. /\ Between(p.terms.rent, cand.terms.rent, Target(quotes, cand.factor))
        /\ p.terms.rent = cand.terms.rent =>
             cand.terms.rent = Target(quotes, cand.factor) \/ Params.maxChange * cand.terms.rent < 100
    BY <2>2, <2>3, <2>5, OffersApproach
  <2> HIDE DEF d, p
  <2> QED BY <2>1, <2>5, <2>6
<1> QED
  BY <1>1, RepriceInitially, RepriceStep, PTL DEF RepriceSpec, DecisionsApproachTarget

-----------------------------------------------------------------------------
(* Order sync asks for a window that reaches every known order *)

\* What a window and its anchors say of each other: it goes back as far as each
\* anchor, or as far as the hard cap.
LEMMA WindowReaches ==
  ASSUME clock \in Nat, NEW a \in Nat \cup {NoTime}, NEW b \in Nat \cup {NoTime}
  PROVE  /\ OrderSyncWindow(a, b) \in clock - SyncMaxWindow .. clock
         /\ \A t \in Nat : t \in {a, b} =>
              OrderSyncWindow(a, b) <= t \/ OrderSyncWindow(a, b) = clock - SyncMaxWindow
<1> DEFINE A == {t - SyncMargin : t \in {a, b} \ {NoTime}} \cup {clock - SyncFloor}
           low == Min(A)
<1>1. /\ SyncFloor \in Nat /\ SyncMargin \in Nat /\ SyncMaxWindow \in Nat /\ NoTime \notin Int
  BY WindowAssumption
<1>2. /\ A \in SUBSET Int /\ clock - SyncFloor \in A
      /\ \A t \in Nat : t \in {a, b} => t - SyncMargin \in A
  BY <1>1
<1>3. \E x \in A : \A y \in A : x <= y
  <2>1. A \subseteq {a - SyncMargin, b - SyncMargin, clock - SyncFloor}
    OBVIOUS
  <2>2. CASE a = NoTime /\ b = NoTime
    <3>1. A = {clock - SyncFloor}
      BY <2>2
    <3> QED BY <3>1, <1>1
  <2>3. CASE a # NoTime /\ b = NoTime
    <3>1. A = {a - SyncMargin, clock - SyncFloor}
      BY <2>3
    <3> QED BY <3>1, <2>3, <1>1
  <2>4. CASE a = NoTime /\ b # NoTime
    <3>1. A = {b - SyncMargin, clock - SyncFloor}
      BY <2>4
    <3> QED BY <3>1, <2>4, <1>1
  <2>5. CASE a # NoTime /\ b # NoTime
    <3>1. A = {a - SyncMargin, b - SyncMargin, clock - SyncFloor}
      BY <2>5
    <3> QED BY <3>1, <2>5, <1>1
  <2> QED BY <2>2, <2>3, <2>4, <2>5
<1>4. low \in A /\ \A y \in A : low <= y
  <2> HIDE DEF A
  <2> QED BY <1>2, <1>3, MinIs
<1>5. OrderSyncWindow(a, b) = Max({low, clock - SyncMaxWindow})
  BY DEF OrderSyncWindow
<1> HIDE DEF A, low
<1>6. low \in Int /\ low <= clock /\ \A t \in Nat : t \in {a, b} => low <= t
  BY <1>1, <1>2, <1>4
<1>7. OrderSyncWindow(a, b) = IF low >= clock - SyncMaxWindow THEN low ELSE clock - SyncMaxWindow
  BY <1>1, <1>5, <1>6, MaxOfTwo
<1> QED BY <1>1, <1>6, <1>7

\* The earliest of some starts is not after any of them.
LEMMA EarliestIs ==
  ASSUME NEW S, \A o \in S : startedAt[o] \in Nat
  PROVE  /\ Earliest(S) \in Nat \cup {NoTime}
         /\ \A o \in S : Earliest(S) \in Nat /\ Earliest(S) <= startedAt[o]
<1> DEFINE T == {startedAt[o] : o \in S}
<1>1. CASE S = {}
  BY <1>1 DEF Earliest
<1>2. CASE S # {}
  <2>1. T \in SUBSET Nat /\ T # {} /\ \A o \in S : startedAt[o] \in T
    BY <1>2
  <2>2. Earliest(S) = Min(T)
    BY <1>2 DEF Earliest
  <2> HIDE DEF T
  <2>3. Min(T) \in T /\ \A y \in T : Min(T) <= y
    BY <2>1, LeastNatural, MinIs
  <2> QED BY <2>1, <2>2, <2>3
<1> QED BY <1>1, <1>2

\* Division with remainder, for any divisor.
LEMMA Division ==
  ASSUME NEW n \in Nat, NEW d \in Nat \ {0}
  PROVE  n \div d \in Nat /\ d * (n \div d) <= n /\ n < d * (n \div d) + d
OBVIOUS

\* A quotient grows with its dividend.
LEMMA DivisionGrows ==
  ASSUME NEW m \in Nat, NEW n \in Nat, m <= n, NEW d \in Nat \ {0}
  PROVE  m \div d <= n \div d
<1> DEFINE p == m \div d
           q == n \div d
<1>1. p \in Nat /\ q \in Nat /\ d * p <= m /\ n < d * q + d
  BY Division
<1> HIDE DEF p, q
<1>2. ASSUME p > q PROVE FALSE
  <2>1. d * p >= d * (q + 1)
    BY <1>1, <1>2
  <2>2. d * (q + 1) = d * q + d
    BY <1>1
  <2> QED BY <1>1, <2>1, <2>2
<1> QED BY <1>1, <1>2 DEF p, q

\* Every instant of the window is in one of its segments, whatever the length of
\* a segment and however the window divides.
LEMMA SegmentsCover ==
  ASSUME NEW from \in Int, NEW to \in Int, NEW t \in from .. to
  PROVE  \E s \in Segments(from, to) : s[1] <= t /\ t <= s[2]
<1> DEFINE d == Chunk + 1
           k == (t - from) \div d
           c == from + k * d
<1>1. Chunk \in Nat /\ d \in Nat \ {0}
  BY WindowAssumption
<1>2. /\ t - from \in Nat /\ to - from \in Nat /\ t - from <= to - from
  OBVIOUS
<1>3. k \in Nat /\ d * k <= t - from /\ t - from < d * k + d
  BY <1>1, <1>2, Division
<1>4. k <= (to - from) \div d /\ (to - from) \div d \in Nat
  BY <1>1, <1>2, Division, DivisionGrows
<1>5. <<c, Min({to, c + Chunk})>> \in Segments(from, to)
  <2>1. k \in 0 .. (to - from) \div (Chunk + 1)
    BY <1>3, <1>4
  <2> HIDE DEF k
  <2> QED BY <2>1, Zenon DEF Segments
<1> HIDE DEF k
<1>6. c \in Int /\ c <= t /\ t <= c + Chunk
  <2>1. k * d = d * k /\ d * k \in Int
    BY <1>1, <1>3
  <2> DEFINE e == d * k
  <2>2. e \in Int /\ e <= t - from /\ t - from < e + d /\ c = from + e
    BY <1>3, <2>1
  <2> HIDE DEF e, c
  <2> QED BY <1>1, <2>2
<1> HIDE DEF c
<1>7. t <= Min({to, c + Chunk})
  BY <1>1, <1>6, MinOfTwo
<1> QED BY <1>5, <1>6, <1>7

\* No segment is longer than the platform accepts.
LEMMA SegmentsFit ==
  ASSUME NEW from \in Int, NEW to \in Int
  PROVE  \A s \in Segments(from, to) : s[2] - s[1] <= PlatformMax
<1> SUFFICES ASSUME NEW s \in Segments(from, to) PROVE s[2] - s[1] <= PlatformMax
  OBVIOUS
<1>1. Chunk \in Nat /\ PlatformMax \in Nat /\ Chunk <= PlatformMax
  BY WindowAssumption
<1>2. PICK k \in 0 .. (to - from) \div (Chunk + 1) :
        s = <<from + k * (Chunk + 1), Min({to, from + k * (Chunk + 1) + Chunk})>>
  BY DEF Segments
<1> DEFINE c == from + k * (Chunk + 1)
<1>3. c \in Int
  BY <1>1
<1>4. s[1] = c /\ s[2] = Min({to, c + Chunk})
  BY <1>2
<1> HIDE DEF c
<1> QED BY <1>1, <1>3, <1>4, MinOfTwo

\* Nothing is known of a lease before it began, and none began in the future.
KnownHasBegun ==
  /\ \A o \in Leases : lease[o] # "none" => startedAt[o] \in 0 .. clock
  /\ \A o \in Leases : orderRow[o] # "none" => lease[o] # "none"
  /\ \A o \in Leases : leasedRow[o] => lease[o] # "none"

WindowInv == WindowTypeOK /\ KnownHasBegun

\* Nothing is known at a first deployment.
LEMMA WindowInitially == WindowInit => WindowInv
<1> SUFFICES ASSUME WindowInit PROVE WindowInv
  OBVIOUS
<1>1. MaxNow \in Nat
  BY WindowAssumption
<1>2. WindowTypeOK
  BY <1>1 DEF WindowInit, WindowTypeOK, LeaseStates
<1>3. KnownHasBegun
  BY <1>1 DEF WindowInit, KnownHasBegun
<1> QED BY <1>2, <1>3 DEF WindowInv

\* The start that anchors the window, where one is known.
LEMMA AnchorsType ==
  ASSUME WindowInv
  PROVE  /\ EarliestOpenOrderStart \in Nat \cup {NoTime}
         /\ EarliestLeasedListingStart \in Nat \cup {NoTime}
         /\ \A o \in Leases : orderRow[o] = "open" =>
              EarliestOpenOrderStart \in Nat /\ EarliestOpenOrderStart <= startedAt[o]
         /\ \A o \in Leases : leasedRow[o] =>
              EarliestLeasedListingStart \in Nat /\ EarliestLeasedListingStart <= startedAt[o]
<1> DEFINE S == {o \in Leases : orderRow[o] = "open"}
           L == {o \in Leases : leasedRow[o]}
<1>1. clock \in Nat
  BY WindowAssumption DEF WindowInv, WindowTypeOK
<1>2. \A o \in Leases : lease[o] # "none" => startedAt[o] \in Nat
  BY <1>1 DEF WindowInv, KnownHasBegun
<1>3. \A o \in S : lease[o] # "none"
  BY DEF WindowInv, KnownHasBegun
<1>4. \A o \in L : lease[o] # "none"
  BY Zenon DEF WindowInv, KnownHasBegun
<1>5. \A o \in S : startedAt[o] \in Nat
  BY <1>2, <1>3, Zenon
<1>6. \A o \in L : startedAt[o] \in Nat
  BY <1>2, <1>4, Zenon
<1>7. EarliestOpenOrderStart = Earliest(S) /\ EarliestLeasedListingStart = Earliest(L)
  BY Zenon DEF EarliestOpenOrderStart, EarliestLeasedListingStart
<1>8. (\A o \in Leases : orderRow[o] = "open" => o \in S) /\ (\A o \in Leases : leasedRow[o] => o \in L)
  BY Zenon
<1> HIDE DEF S, L
<1>9. /\ Earliest(S) \in Nat \cup {NoTime}
      /\ \A o \in S : Earliest(S) \in Nat /\ Earliest(S) <= startedAt[o]
  BY <1>5, EarliestIs
<1>10. /\ Earliest(L) \in Nat \cup {NoTime}
       /\ \A o \in L : Earliest(L) \in Nat /\ Earliest(L) <= startedAt[o]
  BY <1>6, EarliestIs
<1> QED BY <1>7, <1>8, <1>9, <1>10, Zenon

\* Syncs, leases and time keep the invariant.
LEMMA WindowStep == WindowInv /\ [WindowNext]_windowVars => WindowInv'
<1> SUFFICES ASSUME WindowInv, [WindowNext]_windowVars PROVE WindowInv'
  OBVIOUS
<1> USE DEF WindowInv
<1>0. /\ MaxNow \in Nat /\ SyncMaxWindow \in Nat /\ NoTime \notin Int
      /\ clock \in 0 .. MaxNow
  BY WindowAssumption DEF WindowTypeOK
<1>1. CASE OrderSyncSince
  <2>1. PICK a \in Nat \cup {NoTime}, b \in Nat \cup {NoTime} : since' = OrderSyncWindow(a, b)
    BY <1>1, AnchorsType DEF OrderSyncSince
  <2>2. since' \in clock - SyncMaxWindow .. clock
    BY <1>0, <2>1, WindowReaches
  <2>3. since' \in (-(MaxNow + SyncMaxWindow) .. MaxNow) \cup {NoTime}
    BY <1>0, <2>2
  <2> QED BY <1>1, <2>3, Zenon DEF OrderSyncSince, WindowTypeOK, KnownHasBegun
<1>2. ASSUME since' = NoTime, UNCHANGED <<clock, lease, startedAt, leasedRow>>,
             NEW R \in SUBSET InWindow, orderRow' = Upserted(R)
      PROVE  WindowInv'
  <2>1. \A o \in R : o \in Leases /\ lease[o] # "none"
    BY DEF InWindow
  <2>2. /\ orderRow' \in [Leases -> LeaseStates]
        /\ \A o \in Leases : orderRow'[o] # "none" => lease[o] # "none"
    BY <1>2, <2>1 DEF Upserted, WindowTypeOK, KnownHasBegun
  <2>3. WindowTypeOK'
    BY <1>2, <2>2, Zenon DEF WindowTypeOK
  <2>4. KnownHasBegun'
    BY <1>2, <2>2, Zenon DEF KnownHasBegun
  <2> QED BY <2>3, <2>4
<1>3. CASE SyncOrders
  BY <1>2, <1>3, Zenon DEF SyncOrders
<1>4. CASE SyncOrdersFails
  BY <1>2, <1>4, Zenon DEF SyncOrdersFails
<1>5. ASSUME NEW o \in Leases, LeaseBegins(o) PROVE WindowInv'
  <2>1. /\ lease' = [lease EXCEPT ![o] = "open"] /\ startedAt' = [startedAt EXCEPT ![o] = clock]
        /\ UNCHANGED <<clock, orderRow, leasedRow, since>>
    BY <1>5 DEF LeaseBegins
  <2>2. /\ lease' \in [Leases -> LeaseStates] /\ startedAt' \in [Leases -> 0 .. MaxNow \cup {NoTime}]
        /\ \A p \in Leases : lease'[p] = (IF p = o THEN "open" ELSE lease[p])
        /\ \A p \in Leases : startedAt'[p] = IF p = o THEN clock ELSE startedAt[p]
    BY <1>0, <2>1 DEF WindowTypeOK, LeaseStates
  <2>3. WindowTypeOK'
    BY <2>1, <2>2, Zenon DEF WindowTypeOK
  <2>4. \A p \in Leases : lease'[p] # "none" => startedAt'[p] \in 0 .. clock
    BY <1>0, <2>2 DEF KnownHasBegun
  <2>5. \A p \in Leases : lease[p] # "none" => lease'[p] # "none"
    BY <2>2
  <2> QED BY <2>1, <2>3, <2>4, <2>5, Zenon DEF KnownHasBegun
<1>6. ASSUME NEW o \in Leases, LeaseEnds(o) PROVE WindowInv'
  <2>1. /\ lease[o] = "open" /\ lease' = [lease EXCEPT ![o] = "ended"]
        /\ UNCHANGED <<clock, startedAt, orderRow, leasedRow, since>>
    BY <1>6 DEF LeaseEnds
  <2>2. /\ lease' \in [Leases -> LeaseStates]
        /\ \A p \in Leases : lease'[p] # "none" <=> lease[p] # "none"
    BY <2>1 DEF WindowTypeOK, LeaseStates
  <2>3. WindowTypeOK'
    BY <2>1, <2>2, Zenon DEF WindowTypeOK
  <2> QED BY <2>1, <2>2, <2>3, Zenon DEF KnownHasBegun
<1>7. CASE ShelfSync
  <2>1. UNCHANGED <<clock, lease, startedAt, orderRow, since>>
    BY <1>7 DEF ShelfSync
  <2>2. /\ leasedRow' \in [Leases -> BOOLEAN]
        /\ \A o \in Leases : leasedRow'[o] => lease[o] = "open"
    BY <1>7, Zenon DEF ShelfSync
  <2>3. WindowTypeOK'
    BY <2>1, <2>2, Zenon DEF WindowTypeOK
  <2>4. \A o \in Leases : leasedRow'[o] => lease'[o] # "none"
    BY <2>1, <2>2
  <2> QED BY <2>1, <2>3, <2>4, Zenon DEF KnownHasBegun
<1>8. CASE ClockTick
  <2>1. /\ clock' \in 0 .. MaxNow /\ \A t : t \in 0 .. clock => t \in 0 .. clock'
        /\ UNCHANGED <<lease, startedAt, orderRow, leasedRow, since>>
    BY <1>0, <1>8 DEF ClockTick
  <2> QED BY <2>1, Zenon DEF WindowTypeOK, KnownHasBegun
<1>9. CASE UNCHANGED windowVars
  BY <1>9, Zenon DEF windowVars, WindowTypeOK, KnownHasBegun
<1> QED BY <1>1, <1>3, <1>4, <1>5, <1>6, <1>7, <1>8, <1>9, Zenon DEF WindowNext

\* The window of order sync and the mirrored orders keep their shape.
THEOREM WindowTypeCorrect == WindowSpec => []WindowTypeOK
<1>1. WindowInv => WindowTypeOK
  BY DEF WindowInv
<1> QED
  BY <1>1, WindowInitially, WindowStep, PTL DEF WindowSpec

\* The platform never refuses a sync for the length of a segment: what a sync
\* step needs of its segments holds in every state in which one is under way.
LEMMA EverySegmentFits ==
  ASSUME WindowInv, since # NoTime
  PROVE  \A s \in Segments(since - AdapterSlack, clock) : s[2] - s[1] <= PlatformMax
<1>1. since - AdapterSlack \in Int /\ clock \in Int
  BY WindowAssumption DEF WindowInv, WindowTypeOK
<1> QED BY <1>1, SegmentsFit

\* A known order that the hard cap does not cut off starts inside every anchored
\* window, and inside one of its segments.
LEMMA KnownIsInWindow ==
  ASSUME WindowInv, since # NoTime, since <= AnchoredWindow,
         NEW o \in Leases, orderRow[o] = "open" \/ leasedRow[o], ~TooOld(o)
  PROVE  o \in InWindow
<1>1. /\ SyncMaxWindow \in Nat /\ AdapterSlack \in Nat /\ NoTime \notin Int
      /\ clock \in Nat /\ since \in Int
  BY WindowAssumption DEF WindowInv, WindowTypeOK
<1>2. lease[o] # "none"
  BY Zenon DEF WindowInv, KnownHasBegun
<1>3. startedAt[o] \in 0 .. clock
  BY <1>2 DEF WindowInv, KnownHasBegun
<1> DEFINE a == EarliestOpenOrderStart
           b == EarliestLeasedListingStart
           w == OrderSyncWindow(a, b)
<1>4. /\ a \in Nat \cup {NoTime} /\ b \in Nat \cup {NoTime}
      /\ (a \in Nat /\ a <= startedAt[o]) \/ (b \in Nat /\ b <= startedAt[o])
  BY AnchorsType, Zenon
<1>5. since <= w
  BY DEF AnchoredWindow
<1> HIDE DEF a, b
<1>6. w \in Int /\ \A t \in Nat : t \in {a, b} => w <= t \/ w = clock - SyncMaxWindow
  BY <1>1, <1>4, WindowReaches
<1> HIDE DEF w
<1>7. clock - startedAt[o] <= SyncMaxWindow
  BY <1>1, <1>3 DEF TooOld
<1>8. w <= startedAt[o]
  <2>1. clock - SyncMaxWindow <= startedAt[o] /\ startedAt[o] \in Int
    BY <1>1, <1>3, <1>7
  <2>2. CASE a \in Nat /\ a <= startedAt[o]
    <3>1. w <= a \/ w = clock - SyncMaxWindow
      BY <1>6, <2>2
    <3> QED BY <1>6, <2>1, <2>2, <3>1
  <2>3. CASE b \in Nat /\ b <= startedAt[o]
    <3>1. w <= b \/ w = clock - SyncMaxWindow
      BY <1>6, <2>3
    <3> QED BY <1>6, <2>1, <2>3, <3>1
  <2> QED BY <1>4, <2>2, <2>3
<1>9. since - AdapterSlack \in Int /\ startedAt[o] \in since - AdapterSlack .. clock
  BY <1>1, <1>3, <1>5, <1>6, <1>8
<1>10. \E s \in Segments(since - AdapterSlack, clock) : s[1] <= startedAt[o] /\ startedAt[o] <= s[2]
  BY <1>1, <1>9, SegmentsCover
<1> QED BY <1>2, <1>10 DEF InWindow

\* A sync with both anchors that succeeds brings every known order within the
\* hard cap up to date, for any windows, margins and segment lengths.
THEOREM KnownOrdersCatchUp == WindowSpec => AnchoredSyncCatchesUp
<1>1. ASSUME WindowInv, AnchoredSync, NEW o \in Leases,
             orderRow[o] = "open" \/ leasedRow[o], ~TooOld(o)
      PROVE  orderRow'[o] = lease[o]
  <2>1. since # NoTime /\ since <= AnchoredWindow /\ orderRow' = Upserted(InWindow)
    BY <1>1 DEF AnchoredSync, SyncOrders
  <2>2. o \in InWindow
    BY <1>1, <2>1, KnownIsInWindow
  <2> QED BY <2>1, <2>2 DEF Upserted
<1>2. WindowInv =>
        [AnchoredSync => \A o \in Leases :
           (orderRow[o] = "open" \/ leasedRow[o]) /\ ~TooOld(o) => orderRow'[o] = lease[o]]_windowVars
  BY <1>1, Zenon
<1> QED
  BY <1>2, WindowInitially, WindowStep, PTL DEF WindowSpec, AnchoredSyncCatchesUp

=============================================================================
