--------------------------- MODULE ToolPromisesProofs ---------------------------
(***************************************************************************)
(* Promises of ToolPromises that hold for every catalog, every player and  *)
(* any capacities: the B50 is the best list, recommendations pay, and      *)
(* nothing is made of half a reply.                                        *)
(***************************************************************************)
EXTENDS ToolPromises, FiniteSetTheorems, TLAPS

-----------------------------------------------------------------------------
(* Induction over numbers and over subsets, with a set in the place of a
   predicate. *)

(* A set that has 0 and with every number the next one has them all. *)
LEMMA NatSet == ASSUME NEW T, 0 \in T, \A n \in Nat : n \in T => n + 1 \in T PROVE Nat \subseteq T
<1> SUFFICES ASSUME Nat \ T # {} PROVE FALSE OBVIOUS
<1> DEFINE R == OpToRel(<, Nat)
<1>1. IsWellFoundedOn(R, Nat)
  BY NatLessThanWellFounded
<1>2. \A m, n \in Nat : m < n => <<m, n>> \in R
  BY DEF OpToRel
<1> HIDE DEF R
<1>3. \E n \in Nat \ T : \A m \in Nat \ T : ~ (<<m, n>> \in R)
  BY <1>1, WFMin
<1>4. PICK n \in Nat \ T : \A m \in Nat \ T : ~ (<<m, n>> \in R)
  BY <1>3
<1>5. n # 0 /\ n - 1 \in Nat OBVIOUS
<1>6. n - 1 \in T
  <2> SUFFICES ASSUME n - 1 \in Nat \ T PROVE FALSE
    BY <1>5
  <2>1. ~ (<<n - 1, n>> \in R)
    BY <1>4
  <2>2. <<n - 1, n>> \in R
    <3>1. n \in Nat /\ n - 1 \in Nat /\ n - 1 < n
      OBVIOUS
    <3> QED BY <3>1, <1>2
  <2> QED BY <2>1, <2>2
<1>7. n - 1 + 1 \in T
  BY <1>5, <1>6
<1> QED BY <1>7

(* A set that has every subset all of whose proper subsets it has, has them all. *)
LEMMA SubsetInduction ==
  ASSUME NEW S, IsFiniteSet(S), NEW T,
         \A A \in SUBSET S : (\A B \in SUBSET A : B # A => B \in T) => A \in T
  PROVE  SUBSET S \subseteq T
<1> DEFINE R == StrictSubsetOrdering(S)
           F == FiniteSubsetsOf(S)
<1>1. F = SUBSET S
  BY FS_FiniteSubsetsOfFinite
<1>2. IsWellFoundedOn(R, F)
  BY FS_StrictSubsetOrderingWellFounded
<1>3. \A A \in SUBSET S : \A B \in SUBSET A : B # A => <<B, A>> \in R
  BY DEF StrictSubsetOrdering
<1> DEFINE X == (SUBSET S) \ T
<1> SUFFICES ASSUME X # {} PROVE FALSE
  OBVIOUS
<1>4. X \subseteq F
  BY <1>1
<1>5. \E A \in X : \A B \in X : ~ (<<B, A>> \in R)
  <2> HIDE DEF X, R, F
  <2> QED BY <1>2, <1>4, WFMin
<1>6. PICK A \in X : \A B \in X : ~ (<<B, A>> \in R)
  BY <1>5
<1>7. ASSUME NEW B \in SUBSET A, B # A PROVE B \in T
  <2>1. A \in SUBSET S /\ B \in SUBSET S
    OBVIOUS
  <2>2. <<B, A>> \in R
    <3> HIDE DEF R
    <3> QED BY <2>1, <1>3, <1>7
  <2> HIDE DEF R
  <2> QED BY <2>1, <2>2, <1>6
<1> QED BY <1>6, <1>7

-----------------------------------------------------------------------------
(* Sums over finite sets: what is summed up one element at a time does not
   depend on the order. *)

(* A choice from every set that has something. *)
Picks(pick, S) == \A A \in SUBSET S : A # {} => pick[A] \in A
(* g sums val over subsets, taking what is picked first. *)
SumsUp(g, S, val, pick) ==
  \A A \in SUBSET S : g[A] = IF A = {} THEN 0 ELSE val[pick[A]] + g[A \ {pick[A]}]
(* g sums val over subsets, whatever is taken first. *)
Adds(g, S, val) ==
  \A A \in SUBSET S : /\ g[A] \in Int
                      /\ A = {} => g[A] = 0
                      /\ \A x \in A : g[A] = val[x] + g[A \ {x}]
(* There is a sum over every subset of a finite set. *)
LEMMA SumsExist ==
  ASSUME NEW S, IsFiniteSet(S), NEW val \in [S -> Int], NEW pick, Picks(pick, S)
  PROVE  \E g \in [SUBSET S -> Int] : SumsUp(g, S, val, pick)
<1> USE DEF Picks
<1> DEFINE Small(n) == {A \in SUBSET S : Cardinality(A) <= n}
           Body(g, A) == IF A = {} THEN 0 ELSE val[pick[A]] + g[A \ {pick[A]}]
           Good(n) == \E g \in [Small(n) -> Int] : \A A \in Small(n) : g[A] = Body(g, A)
           T == {n \in Nat : Good(n)}
<1>0. \A A \in SUBSET S : IsFiniteSet(A) /\ Cardinality(A) \in Nat
  BY FS_Subset, FS_CardinalityType
<1>1. ASSUME NEW A \in SUBSET S, A # {}
      PROVE  /\ Cardinality(A \ {pick[A]}) = Cardinality(A) - 1
             /\ A \ {pick[A]} \in SUBSET S /\ pick[A] \in S
  <2>1. IsFiniteSet(A) /\ pick[A] \in A
    BY <1>0, <1>1
  <2> QED BY <2>1, FS_RemoveElement
<1>2. Good(0)
  <2>1. ASSUME NEW A \in Small(0) PROVE A = {}
    <3>1. IsFiniteSet(A) /\ Cardinality(A) = 0
      BY <1>0
    <3> QED BY <3>1, FS_EmptySet
  <2> DEFINE g == [A \in Small(0) |-> 0]
  <2>2. g \in [Small(0) -> Int] /\ \A A \in Small(0) : g[A] = Body(g, A)
    BY <2>1
  <2> QED BY <2>2
<1>3. ASSUME NEW n \in Nat, Good(n) PROVE Good(n + 1)
  <2>1. PICK g \in [Small(n) -> Int] : \A A \in Small(n) : g[A] = Body(g, A)
    BY <1>3
  <2> DEFINE h == [A \in Small(n + 1) |-> IF A \in Small(n) THEN g[A] ELSE val[pick[A]] + g[A \ {pick[A]}]]
  <2>2. ASSUME NEW A \in Small(n + 1), A # {} PROVE A \ {pick[A]} \in Small(n) /\ pick[A] \in S
    <3>1. Cardinality(A) \in Nat /\ Cardinality(A) <= n + 1 /\ A \in SUBSET S
      BY <1>0, <2>2
    <3>2. Cardinality(A \ {pick[A]}) = Cardinality(A) - 1 /\ A \ {pick[A]} \in SUBSET S /\ pick[A] \in S
      BY <1>1, <2>2, <3>1
    <3> QED BY <3>1, <3>2
  <2>3. ASSUME NEW A \in Small(n + 1), A = {} PROVE A \in Small(n)
    BY <2>3, FS_EmptySet
  <2>4. ASSUME NEW A \in Small(n) PROVE A \in Small(n + 1)
    <3>1. Cardinality(A) \in Nat /\ Cardinality(A) <= n /\ A \in SUBSET S
      BY <1>0
    <3> QED BY <3>1
  <2> HIDE DEF Small
  <2>5. h \in [Small(n + 1) -> Int]
    <3>1. ASSUME NEW A \in Small(n + 1)
          PROVE  (IF A \in Small(n) THEN g[A] ELSE val[pick[A]] + g[A \ {pick[A]}]) \in Int
      <4>1. CASE A \in Small(n)
        BY <4>1
      <4>2. CASE A \notin Small(n)
        <5>1. A \ {pick[A]} \in Small(n) /\ pick[A] \in S
          BY <2>2, <2>3, <4>2
        <5>2. val[pick[A]] \in Int /\ g[A \ {pick[A]}] \in Int
          BY <5>1
        <5> QED BY <5>2, <4>2
      <4> QED BY <4>1, <4>2
    <3> QED BY <3>1
  <2>6. ASSUME NEW A \in Small(n + 1) PROVE h[A] = Body(h, A)
    <3>1. CASE A = {}
      BY <3>1, <2>3, <2>1
    <3>2. CASE A # {}
      <4>1. h[A \ {pick[A]}] = g[A \ {pick[A]}]
        BY <2>2, <2>4, <3>2
      <4>2. h[A] = val[pick[A]] + g[A \ {pick[A]}]
        BY <3>2, <2>1
      <4> QED BY <4>1, <4>2, <3>2
    <3> QED BY <3>1, <3>2
  <2> HIDE DEF h, Body
  <2> QED BY <2>5, <2>6
<1>4. T = Nat
  <2> HIDE DEF Good
  <2>1. 0 \in T /\ \A n \in Nat : n \in T => n + 1 \in T
    BY <1>2, <1>3
  <2> HIDE DEF T
  <2>2. Nat \subseteq T BY <2>1, NatSet
  <2> QED BY <2>2 DEF T
<1>5. Cardinality(S) \in Nat /\ \A A \in SUBSET S : Cardinality(A) <= Cardinality(S)
  BY FS_Subset, FS_CardinalityType
<1>6. Small(Cardinality(S)) = SUBSET S
  BY <1>5
<1>7. Good(Cardinality(S))
  BY <1>4, <1>5
<1> QED
  BY <1>6, <1>7 DEF SumsUp

(* A sum is the same whatever is taken first. *)
LEMMA AnyOrder ==
  ASSUME NEW S, IsFiniteSet(S), NEW val \in [S -> Int], NEW pick, Picks(pick, S), NEW g, SumsUp(g, S, val, pick)
  PROVE  Adds(g, S, val)
<1> DEFINE Ok(A) == /\ g[A] \in Int
                    /\ A = {} => g[A] = 0
                    /\ \A x \in A : g[A] = val[x] + g[A \ {x}]
           T == {A \in SUBSET S : Ok(A)}
<1>1. ASSUME NEW A \in SUBSET S, \A B \in SUBSET A : B # A => B \in T PROVE A \in T
  <2>1. CASE A = {}
    BY <2>1 DEF SumsUp
  <2>2. CASE A # {}
    <3> DEFINE p == pick[A]
    <3>1. p \in A /\ val[p] \in Int
      BY <2>2 DEF Picks
    <3>2. A \ {p} \in T /\ g[A \ {p}] \in Int
      <4>1. A \ {p} \in SUBSET A /\ A \ {p} # A
        BY <3>1
      <4> QED BY <4>1, <1>1
    <3>3. g[A] = val[p] + g[A \ {p}]
      BY <2>2 DEF SumsUp
    <3> HIDE DEF p
    <3>4. ASSUME NEW x \in A, x # p PROVE g[A] = val[x] + g[A \ {x}]
      <4> DEFINE C == A \ {x, p}
      <4>1. A \ {x} \in SUBSET A /\ A \ {x} # A /\ p \in A \ {x} /\ x \in A \ {p}
        BY <3>1, <3>4
      <4>2. A \ {x} \in T
        BY <4>1, <1>1
      <4>3. (A \ {x}) \ {p} = C /\ (A \ {p}) \ {x} = C
        OBVIOUS
      <4> HIDE DEF C
      <4>4. g[A \ {x}] = val[p] + g[C]
        BY <4>1, <4>2, <4>3
      <4>5. g[A \ {p}] = val[x] + g[C]
        BY <4>1, <3>2, <4>3
      <4>6. C \in T /\ g[C] \in Int
        <5>1. C \in SUBSET A /\ C # A BY <3>1 DEF C
        <5> QED BY <5>1, <1>1
      <4>7. val[x] \in Int /\ val[p] \in Int
        BY <3>1
      <4> QED BY <3>3, <4>4, <4>5, <4>6, <4>7
    <3>5. g[A] \in Int
      BY <3>1, <3>2, <3>3
    <3> QED BY <3>3, <3>4, <3>5, <2>2
  <2> QED BY <2>1, <2>2
<1>2. SUBSET S \subseteq T
  <2> HIDE DEF T
  <2> QED BY <1>1, SubsetInduction
<1> QED BY <1>2 DEF Adds

(* Two sums of the same values agree. *)
LEMMA OneSum ==
  ASSUME NEW S, NEW U \in SUBSET S, IsFiniteSet(U), NEW val, NEW own, \A x \in U : own[x] = val[x],
         NEW g, NEW h, Adds(g, S, val), Adds(h, U, own)
  PROVE  \A A \in SUBSET U : g[A] = h[A]
<1> DEFINE T == {A \in SUBSET U : g[A] = h[A]}
<1>1. ASSUME NEW A \in SUBSET U, \A B \in SUBSET A : B # A => B \in T PROVE A \in T
  <2>1. CASE A = {}
    BY <2>1 DEF Adds
  <2>2. CASE A # {}
    <3>1. PICK x \in A : TRUE BY <2>2
    <3>2. A \ {x} \in T
      <4>1. A \ {x} \in SUBSET A /\ A \ {x} # A BY <3>1
      <4> QED BY <4>1, <1>1
    <3>3. g[A] = val[x] + g[A \ {x}] /\ h[A] = own[x] + h[A \ {x}]
      BY <3>1 DEF Adds
    <3> QED BY <3>2, <3>3
  <2> QED BY <2>1, <2>2
<1>2. SUBSET U \subseteq T
  <2> HIDE DEF T
  <2> QED BY <1>1, SubsetInduction
<1> QED BY <1>2

(* The worth of a set of records is a sum of ratings. *)
LEMMA WorthIs ==
  ASSUME NEW S, IsFiniteSet(S), \A r \in S : r.rating \in Int
  PROVE  \E g : Adds(g, S, [r \in S |-> r.rating]) /\ Worth(S) = g[S]
<1> DEFINE Eq(g) == g = [A \in SUBSET S |-> IF A = {} THEN 0 ELSE (CHOOSE r \in A : TRUE).rating + g[A \ {CHOOSE r \in A : TRUE}]]
           I == CHOOSE iter : iter = [A \in SUBSET S |-> IF A = {} THEN 0 ELSE (CHOOSE r \in A : TRUE).rating + iter[A \ {CHOOSE r \in A : TRUE}]]
           val == [r \in S |-> r.rating]
           pick == [A \in SUBSET S |-> CHOOSE r \in A : TRUE]
<1>1. Worth(S) = I[S]
  BY Zenon DEF Worth, MapThenSumSet, MapThenFoldSet
<1>2. val \in [S -> Int] /\ Picks(pick, S)
  BY DEF Picks
<1>3. \A A \in SUBSET S : A # {} => pick[A] = (CHOOSE r \in A : TRUE) /\ val[pick[A]] = (CHOOSE r \in A : TRUE).rating
  BY <1>2 DEF Picks
<1>4. PICK g \in [SUBSET S -> Int] : SumsUp(g, S, val, pick)
  <2> HIDE DEF val, pick
  <2> QED BY <1>2, SumsExist
<1>5. Eq(g)
  <2>1. g = [A \in SUBSET S |-> IF A = {} THEN 0 ELSE (CHOOSE r \in A : TRUE).rating + g[A \ {CHOOSE r \in A : TRUE}]]
    BY <1>4, <1>3 DEF SumsUp
  <2> QED BY <2>1
<1>6. Eq(I)
  BY <1>5, Zenon
<1>7. SumsUp(I, S, val, pick)
  <2>1. ASSUME NEW f, Eq(f) PROVE SumsUp(f, S, val, pick)
    <3>1. f = [A \in SUBSET S |-> IF A = {} THEN 0 ELSE (CHOOSE r \in A : TRUE).rating + f[A \ {CHOOSE r \in A : TRUE}]]
      BY <2>1
    <3>2. ASSUME NEW A \in SUBSET S PROVE f[A] = IF A = {} THEN 0 ELSE (CHOOSE r \in A : TRUE).rating + f[A \ {CHOOSE r \in A : TRUE}]
      BY <3>1, Zenon
    <3> HIDE DEF pick, val
    <3>3. ASSUME NEW A \in SUBSET S PROVE f[A] = IF A = {} THEN 0 ELSE val[pick[A]] + f[A \ {pick[A]}]
      <4>1. CASE A = {}
        BY <4>1, <3>2
      <4>2. CASE A # {}
        <5>1. pick[A] = (CHOOSE r \in A : TRUE) /\ val[pick[A]] = (CHOOSE r \in A : TRUE).rating
          BY <4>2, <1>3
        <5>2. f[A] = (CHOOSE r \in A : TRUE).rating + f[A \ {CHOOSE r \in A : TRUE}]
          BY <4>2, <3>2
        <5> QED BY <4>2, <5>1, <5>2, Zenon
      <4> QED BY <4>1, <4>2
    <3> QED BY <3>3, Zenon DEF SumsUp
  <2> HIDE DEF I, pick, val, Eq
  <2> QED BY <1>6, <2>1
<1>8. Adds(I, S, val)
  <2> HIDE DEF I, val, pick
  <2> QED BY <1>2, <1>7, AnyOrder
<1> HIDE DEF I
<1> QED BY <1>1, <1>8

(* The worth of a set is that of one of its records and of the others. *)
LEMMA WorthAdds ==
  ASSUME NEW S, IsFiniteSet(S), \A r \in S : r.rating \in Int
  PROVE  /\ Worth(S) \in Int
         /\ S = {} => Worth(S) = 0
         /\ \A x \in S : Worth(S) = x.rating + Worth(S \ {x})
<1> DEFINE val == [r \in S |-> r.rating]
<1>1. PICK g : Adds(g, S, val) /\ Worth(S) = g[S]
  BY WorthIs
<1>2. ASSUME NEW x \in S PROVE Worth(S) = x.rating + Worth(S \ {x})
  <2> DEFINE U == S \ {x}
             own == [r \in U |-> r.rating]
  <2>1. IsFiniteSet(U) /\ U \in SUBSET S /\ \A r \in U : r.rating \in Int
    BY FS_Subset
  <2>2. PICK h : Adds(h, U, own) /\ Worth(U) = h[U]
    <3> HIDE DEF U
    <3> QED BY <2>1, WorthIs
  <2>3. \A r \in U : own[r] = val[r]
    OBVIOUS
  <2>4. g[U] = h[U]
    <3> HIDE DEF U, own, val
    <3>1. \A A \in SUBSET U : g[A] = h[A]
      BY <2>1, <2>2, <2>3, <1>1, OneSum
    <3> QED BY <3>1
  <2>5. g[S] = val[x] + g[U]
    BY <1>1 DEF Adds
  <2> QED BY <2>2, <2>4, <2>5, <1>1
<1> QED BY <1>1, <1>2 DEF Adds

-----------------------------------------------------------------------------
(* The order of charts by rating, achievement, constant and number. *)

(* Records that ChartOrder can put in order. *)
Comparable(S) == \A r \in S : r.rating \in Nat /\ Ranked(r) \in Int /\ Or(r.fit, r.constant) \in Int /\ r.chart \in Int

(* One record is ahead of another by the first thing in which they differ. *)
LEMMA OrderIs ==
  ASSUME NEW S, Comparable(S), NEW l \in S, NEW r \in S
  PROVE  ChartOrder(l, r) <=>
           \/ l.rating > r.rating
           \/ /\ l.rating = r.rating
              /\ \/ Ranked(l) > Ranked(r)
                 \/ /\ Ranked(l) = Ranked(r)
                    /\ \/ Or(l.fit, l.constant) > Or(r.fit, r.constant)
                       \/ /\ Or(l.fit, l.constant) = Or(r.fit, r.constant)
                          /\ r.chart > l.chart
<1> DEFINE v == <<l.rating, Ranked(l), Or(l.fit, l.constant), r.chart>>
           w == <<r.rating, Ranked(r), Or(r.fit, r.constant), l.chart>>
<1>1. DOMAIN v = {1, 2, 3, 4}
  OBVIOUS
<1>2. 1..(1 - 1) = {} /\ 1..(2 - 1) = {1} /\ 1..(3 - 1) = {1, 2} /\ 1..(4 - 1) = {1, 2, 3}
  OBVIOUS
<1>3. Ahead(v, w) <=> \/ v[1] > w[1]
                      \/ v[2] > w[2] /\ v[1] = w[1]
                      \/ v[3] > w[3] /\ v[1] = w[1] /\ v[2] = w[2]
                      \/ v[4] > w[4] /\ v[1] = w[1] /\ v[2] = w[2] /\ v[3] = w[3]
  <2> HIDE DEF v, w
  <2> QED BY <1>1, <1>2 DEF Ahead
<1> QED BY <1>3 DEF ChartOrder, Comparable

(* ChartOrder is a strict order, total on the records of distinct charts, and
   puts the higher rating first. *)
LEMMA Order ==
  ASSUME NEW S, Comparable(S)
  PROVE  /\ \A l \in S : ~ ChartOrder(l, l)
         /\ \A l, r, q \in S : ChartOrder(l, r) /\ ChartOrder(r, q) => ChartOrder(l, q)
         /\ \A l, r \in S : l.chart # r.chart => ChartOrder(l, r) \/ ChartOrder(r, l)
         /\ \A l, r \in S : ~ ChartOrder(r, l) => l.rating >= r.rating
<1>0. \A r \in S : r.rating \in Int /\ Ranked(r) \in Int /\ Or(r.fit, r.constant) \in Int /\ r.chart \in Int
  BY DEF Comparable
<1>1. ASSUME NEW l \in S PROVE ~ ChartOrder(l, l)
  BY <1>0, OrderIs
<1>2. ASSUME NEW l \in S, NEW r \in S, NEW q \in S, ChartOrder(l, r), ChartOrder(r, q) PROVE ChartOrder(l, q)
  BY <1>0, <1>2, OrderIs
<1>3. ASSUME NEW l \in S, NEW r \in S, l.chart # r.chart PROVE ChartOrder(l, r) \/ ChartOrder(r, l)
  BY <1>0, <1>3, OrderIs
<1>4. ASSUME NEW l \in S, NEW r \in S, ~ ChartOrder(r, l) PROVE l.rating >= r.rating
  BY <1>0, <1>4, OrderIs
<1> QED BY <1>1, <1>2, <1>3, <1>4

(* In every set of records some record is behind no other. *)
LEMMA FirstExists ==
  ASSUME NEW S, IsFiniteSet(S), Comparable(S), S # {}
  PROVE  \E r \in S : \A q \in S : ~ ChartOrder(q, r)
<1> DEFINE Ok(A) == \E r \in A : \A q \in A : ~ ChartOrder(q, r)
           T == {A \in SUBSET S : A # {} => Ok(A)}
<1>1. ASSUME NEW A \in SUBSET S, \A B \in SUBSET A : B # A => B \in T PROVE A \in T
  <2> SUFFICES ASSUME A # {} PROVE Ok(A)
    OBVIOUS
  <2>1. PICK x \in A : TRUE
    OBVIOUS
  <2> DEFINE B == {q \in A : ChartOrder(q, x)}
  <2>2. CASE B = {}
    BY <2>2
  <2>3. CASE B # {}
    <3>1. B \in SUBSET A /\ x \notin B /\ x \in S
      BY Order
    <3>2. Ok(B)
      BY <3>1, <1>1, <2>3
    <3>3. PICK r \in B : \A q \in B : ~ ChartOrder(q, r)
      BY <3>2
    <3>4. ASSUME NEW q \in A, ChartOrder(q, r) PROVE FALSE
      <4>1. ChartOrder(q, x)
        BY <3>1, <3>3, <3>4, Order
      <4> QED BY <4>1, <3>3, <3>4
    <3> QED BY <3>3, <3>4
  <2> QED BY <2>2, <2>3
<1>2. SUBSET S \subseteq T
  <2> HIDE DEF T
  <2> QED BY <1>1, SubsetInduction
<1> QED BY <1>2

(* Unique keeps one record of every chart, none of them worse than another. *)
LEMMA OneOfEach ==
  ASSUME NEW S, IsFiniteSet(S), Comparable(S)
  PROVE  /\ Unique(S) \subseteq S
         /\ \A r \in S : \E u \in Unique(S) : u.chart = r.chart /\ u.rating >= r.rating
         /\ \A u, w \in Unique(S) : u.chart = w.chart => u = w
<1> DEFINE of(c) == {r \in S : r.chart = c}
           first(c) == CHOOSE r \in of(c) : \A q \in of(c) : ~ ChartOrder(q, r)
<1>1. Unique(S) = {first(c) : c \in {r.chart : r \in S}}
  BY Zenon DEF Unique, FirstOfEach
<1>2. ASSUME NEW c \in {r.chart : r \in S} PROVE first(c) \in of(c) /\ \A q \in of(c) : ~ ChartOrder(q, first(c))
  <2>1. of(c) \in SUBSET S /\ of(c) # {}
    OBVIOUS
  <2>2. IsFiniteSet(of(c)) /\ Comparable(of(c))
    BY <2>1, FS_Subset DEF Comparable
  <2>3. \E r \in of(c) : \A q \in of(c) : ~ ChartOrder(q, r)
    <3> HIDE DEF of
    <3> QED BY <2>1, <2>2, FirstExists
  <2> QED BY <2>3, Zenon
<1>3. ASSUME NEW c \in {r.chart : r \in S} PROVE first(c) \in S /\ first(c).chart = c
  BY <1>2
<1> HIDE DEF first
<1>4. ASSUME NEW r \in S PROVE \E u \in Unique(S) : u.chart = r.chart /\ u.rating >= r.rating
  <2>1. r.chart \in {q.chart : q \in S} /\ r \in of(r.chart)
    OBVIOUS
  <2>2. ~ ChartOrder(r, first(r.chart)) /\ first(r.chart) \in S
    BY <2>1, <1>2
  <2>3. first(r.chart).rating >= r.rating
    BY <2>2, Order
  <2> QED BY <2>1, <2>3, <1>1, <1>3
<1> QED BY <1>1, <1>3, <1>4

(* How many records are ahead of one. *)
Rank(S, x) == Cardinality({y \in S : ChartOrder(y, x)})
(* The records with fewer than n ahead of them. *)
First(S, n) == {x \in S : Rank(S, x) < n}

(* The records of distinct charts stand at 0, 1, ... without a gap or a tie,
   by rating. *)
LEMMA Places ==
  ASSUME NEW S, IsFiniteSet(S), Comparable(S), Distinct(S)
  PROVE  /\ \A x \in S : Rank(S, x) \in 0..Cardinality(S) - 1
         /\ \A x, y \in S : Rank(S, x) = Rank(S, y) => x = y
         /\ \A x, y \in S : Rank(S, x) <= Rank(S, y) => x.rating >= y.rating
         /\ \A k \in 0..Cardinality(S) - 1 : \E x \in S : Rank(S, x) = k
<1> DEFINE ahead(x) == {y \in S : ChartOrder(y, x)}
           n == Cardinality(S)
<1>0. n \in Nat
  BY FS_CardinalityType
<1>1. ASSUME NEW x \in S PROVE /\ ahead(x) \in SUBSET S /\ x \notin ahead(x)
                               /\ IsFiniteSet(ahead(x)) /\ Rank(S, x) = Cardinality(ahead(x)) /\ Rank(S, x) \in 0..n - 1
  <2>1. ahead(x) \in SUBSET S /\ x \notin ahead(x)
    BY Order
  <2>2. Rank(S, x) = Cardinality(ahead(x))
    BY DEF Rank
  <2> HIDE DEF ahead
  <2>3. IsFiniteSet(ahead(x)) /\ Cardinality(ahead(x)) <= n /\ (Cardinality(ahead(x)) = n => ahead(x) = S)
    BY <2>1, FS_Subset
  <2>4. Cardinality(ahead(x)) \in Nat
    BY <2>3, FS_CardinalityType
  <2> QED BY <2>1, <2>2, <2>3, <2>4, <1>0
<1>2. ASSUME NEW x \in S, NEW y \in S, ChartOrder(y, x) PROVE Rank(S, y) < Rank(S, x)
  <2>1. ahead(y) \in SUBSET ahead(x)
    BY <1>2, Order
  <2>2. y \in ahead(x) /\ y \notin ahead(y)
    BY <1>2, <1>1
  <2> HIDE DEF ahead
  <2>3. Cardinality(ahead(y)) <= Cardinality(ahead(x)) /\ (Cardinality(ahead(x)) = Cardinality(ahead(y)) => ahead(x) = ahead(y))
    BY <2>1, <1>1, FS_Subset
  <2> QED BY <2>2, <2>3, <1>1, <1>0
<1> HIDE DEF ahead
<1>3. ASSUME NEW x \in S, NEW y \in S, x # y PROVE Rank(S, x) # Rank(S, y)
  <2>1. x.chart # y.chart
    BY <1>3 DEF Distinct
  <2>2. ChartOrder(x, y) \/ ChartOrder(y, x)
    BY <2>1, Order
  <2> QED BY <2>2, <1>2, <1>1
<1>4. ASSUME NEW x \in S, NEW y \in S, Rank(S, x) <= Rank(S, y) PROVE x.rating >= y.rating
  <2>1. ~ ChartOrder(y, x)
    BY <1>2, <1>4, <1>1
  <2> QED BY <2>1, Order
<1>5. ASSUME NEW k \in 0..n - 1 PROVE \E x \in S : Rank(S, x) = k
  <2> DEFINE f == [x \in S |-> Rank(S, x)]
             N == 0..n - 1
  <2>1. f \in Injection(S, N)
    BY <1>1, <1>3 DEF Injection, IsInjective
  <2>2. IsFiniteSet(N) /\ Cardinality(N) = n
    <3>1. 0 \in Int /\ n - 1 \in Int
      BY <1>0
    <3>2. IsFiniteSet(0..n - 1) /\ Cardinality(0..n - 1) = IF 0 > n - 1 THEN 0 ELSE n - 1 - 0 + 1
      BY <3>1, FS_Interval
    <3> QED BY <3>2, <1>0
  <2>3. f \in Surjection(S, N)
    <3> HIDE DEF f, N, n
    <3>1. Cardinality(S) = Cardinality(N) <=> f \in Surjection(S, N)
      BY <2>1, <2>2, FS_Injection
    <3> QED BY <3>1, <2>2 DEF n
  <2>4. \E x \in S : f[x] = k
    <3> HIDE DEF f
    <3> QED BY <2>3 DEF Surjection
  <2> QED BY <2>4
<1> QED BY <1>1, <1>3, <1>4, <1>5

(* Sorted lists the records in their order. *)
LEMMA Sorts ==
  ASSUME NEW S, IsFiniteSet(S), Comparable(S), Distinct(S)
  PROVE  /\ Sorted(S, ChartOrder) \in Seq(S)
         /\ Len(Sorted(S, ChartOrder)) = Cardinality(S)
         /\ \A i \in 1..Cardinality(S) : Sorted(S, ChartOrder)[i] \in S /\ Rank(S, Sorted(S, ChartOrder)[i]) = i - 1
<1> DEFINE at(i) == CHOOSE x \in S : Cardinality({y \in S : ChartOrder(y, x)}) = i - 1
           n == Cardinality(S)
<1>0. n \in Nat
  BY FS_CardinalityType
<1>1. Sorted(S, ChartOrder) = [i \in 1..n |-> at(i)]
  BY Zenon DEF Sorted
<1>2. ASSUME NEW i \in 1..n PROVE at(i) \in S /\ Rank(S, at(i)) = i - 1
  <2>1. i - 1 \in 0..n - 1
    BY <1>0
  <2>2. \E x \in S : Rank(S, x) = i - 1
    BY <2>1, Places
  <2>3. \E x \in S : Cardinality({y \in S : ChartOrder(y, x)}) = i - 1
    BY <2>2 DEF Rank
  <2>4. at(i) \in S /\ Cardinality({y \in S : ChartOrder(y, at(i))}) = i - 1
    BY <2>3, Zenon
  <2> QED BY <2>4 DEF Rank
<1> HIDE DEF at, n
<1>3. [i \in 1..n |-> at(i)] \in Seq(S) /\ Len([i \in 1..n |-> at(i)]) = n
  BY <1>0, <1>2
<1> QED BY <1>1, <1>2, <1>3 DEF n

(* A section lists the first records, as many as its capacity lets. *)
LEMMA Section ==
  ASSUME NEW S, IsFiniteSet(S), Comparable(S), Distinct(S), NEW capacity \in Nat
  PROVE  /\ SectionOf(S, capacity) \in Seq(S)
         /\ Len(SectionOf(S, capacity)) \in Nat
         /\ Len(SectionOf(S, capacity)) <= capacity
         /\ \A i \in 1..Len(SectionOf(S, capacity)) : Rank(S, SectionOf(S, capacity)[i]) = i - 1
         /\ ToSet(SectionOf(S, capacity)) = First(S, capacity)
<1> DEFINE s == Sorted(S, ChartOrder)
           n == Cardinality(S)
           m == IF n < capacity THEN n ELSE capacity
           part == SubSeq(s, 1, m)
<1>0. n \in Nat /\ m \in Nat /\ m <= n /\ m <= capacity
  BY FS_CardinalityType
<1>1. s \in Seq(S) /\ Len(s) = n /\ \A i \in 1..n : s[i] \in S /\ Rank(S, s[i]) = i - 1
  BY Sorts
<1>2. SectionOf(S, capacity) = part
  BY <1>1, Zenon DEF SectionOf
<1> HIDE DEF s
<1>3. part \in Seq(S) /\ Len(part) = m /\ \A i \in 1..m : part[i] = s[i]
  BY <1>0, <1>1
<1> HIDE DEF part
<1>4. ASSUME NEW x \in First(S, capacity) PROVE \E i \in 1..m : part[i] = x
  <2>1. x \in S /\ Rank(S, x) < capacity
    BY DEF First
  <2>2. Rank(S, x) \in 0..n - 1
    BY <2>1, Places
  <2>3. Rank(S, x) + 1 \in 1..n /\ Rank(S, x) + 1 \in 1..m
    BY <2>1, <2>2, <1>0
  <2>4. s[Rank(S, x) + 1] \in S /\ Rank(S, s[Rank(S, x) + 1]) = Rank(S, x)
    BY <2>2, <2>3, <1>1
  <2>5. s[Rank(S, x) + 1] = x
    BY <2>1, <2>4, Places
  <2> QED BY <2>3, <2>5, <1>3
<1>5. ASSUME NEW i \in 1..m PROVE part[i] \in First(S, capacity)
  BY <1>0, <1>1, <1>3 DEF First
<1>6. ToSet(part) = First(S, capacity)
  <2>1. DOMAIN part = 1..m
    BY <1>3
  <2> QED BY <2>1, <1>4, <1>5 DEF ToSet
<1> QED BY <1>0, <1>1, <1>2, <1>3, <1>6

(* A finite set of numbers has a greatest. *)
LEMMA MaxIs ==
  ASSUME NEW S, IsFiniteSet(S), S \subseteq Int, S # {}
  PROVE  Max(S) \in S /\ \A y \in S : Max(S) >= y
<1> DEFINE T == {A \in SUBSET S : A # {} => \E x \in A : \A y \in A : x >= y}
<1>1. ASSUME NEW A \in SUBSET S, \A B \in SUBSET A : B # A => B \in T PROVE A \in T
  <2> SUFFICES ASSUME A # {} PROVE \E x \in A : \A y \in A : x >= y
    OBVIOUS
  <2>1. PICK x \in A : TRUE
    OBVIOUS
  <2>2. CASE A \ {x} = {}
    BY <2>2
  <2>3. CASE A \ {x} # {}
    <3>1. A \ {x} \in SUBSET A /\ A \ {x} # A
      BY <2>1
    <3>2. \E z \in A \ {x} : \A y \in A \ {x} : z >= y
      BY <3>1, <1>1, <2>3
    <3>3. PICK z \in A \ {x} : \A y \in A \ {x} : z >= y
      BY <3>2
    <3> QED BY <3>3, <2>1
  <2> QED BY <2>2, <2>3
<1>2. SUBSET S \subseteq T
  <2> HIDE DEF T
  <2> QED BY <1>1, SubsetInduction
<1>3. \E x \in S : \A y \in S : x >= y
  BY <1>2
<1> QED BY <1>3 DEF Max

-----------------------------------------------------------------------------
(* A section of the B50 is the best choice of its records. *)

(* The rating the code adds up along a list is the worth of its records. *)
LEMMA SumIsWorth ==
  ASSUME NEW S, IsFiniteSet(S), \A r \in S : r.rating \in Int,
         NEW s \in Seq(S), \A i, j \in 1..Len(s) : s[i] = s[j] => i = j
  PROVE  SumRating(s) = Worth(ToSet(s))
<1> DEFINE D == DOMAIN s
           Eq(g) == g = [A \in SUBSET D |-> IF A = {} THEN 0 ELSE g[A \ {Max(A)}] + s[Max(A)].rating]
           I == CHOOSE iter : iter = [A \in SUBSET D |-> IF A = {} THEN 0 ELSE iter[A \ {Max(A)}] + s[Max(A)].rating]
           val == [i \in D |-> s[i].rating]
           pick == [A \in SUBSET D |-> Max(A)]
           of(A) == {s[i] : i \in A}
<1>0. D = 1..Len(s) /\ IsFiniteSet(D) /\ Len(s) \in Nat /\ D \subseteq Int
  <2>1. D = 1..Len(s) /\ Len(s) \in Nat
    OBVIOUS
  <2>2. IsFiniteSet(1..Len(s))
    BY <2>1, FS_Interval
  <2> QED BY <2>1, <2>2
<1>1. SumRating(s) = I[D]
  BY Zenon DEF SumRating, FoldLeft, MapThenFoldSet
<1>2. \A i \in D : s[i] \in S /\ s[i].rating \in Int
  OBVIOUS
<1>3. \A A \in SUBSET D : A # {} => Max(A) \in A
  <2> SUFFICES ASSUME NEW A \in SUBSET D, A # {} PROVE Max(A) \in A
    OBVIOUS
  <2>1. IsFiniteSet(A) /\ A \subseteq Int
    BY <1>0, FS_Subset
  <2> QED BY <2>1, MaxIs
<1>4. val \in [D -> Int] /\ Picks(pick, D)
  BY <1>2, <1>3 DEF Picks
<1>5. PICK g \in [SUBSET D -> Int] : SumsUp(g, D, val, pick)
  <2> HIDE DEF val, pick, D
  <2> QED BY <1>0, <1>4, SumsExist
<1> HIDE DEF D
<1>6. \A A \in SUBSET D : A # {} => /\ g[A] = s[Max(A)].rating + g[A \ {Max(A)}]
                                    /\ s[Max(A)].rating \in Int /\ g[A \ {Max(A)}] \in Int
  BY <1>5, <1>2, <1>3 DEF SumsUp
<1>7. g[{}] = 0
  BY <1>5 DEF SumsUp
<1>8. \A A \in SUBSET D : g[A] = IF A = {} THEN 0 ELSE g[A \ {Max(A)}] + s[Max(A)].rating
  <2> SUFFICES ASSUME NEW A \in SUBSET D
               PROVE  g[A] = IF A = {} THEN 0 ELSE g[A \ {Max(A)}] + s[Max(A)].rating
    OBVIOUS
  <2>1. CASE A = {}
    BY <2>1, <1>7
  <2>2. CASE A # {}
    BY <2>2, <1>6
  <2> QED BY <2>1, <2>2
<1>9. Eq(g)
  <2>1. g = [A \in SUBSET D |-> IF A = {} THEN 0 ELSE g[A \ {Max(A)}] + s[Max(A)].rating]
    BY <1>5, <1>8
  <2> QED BY <2>1
<1>10. Eq(I)
  BY <1>9, Zenon
<1>11. \A A \in SUBSET D : I[A] = IF A = {} THEN 0 ELSE I[A \ {Max(A)}] + s[Max(A)].rating
  <2>1. ASSUME NEW f, Eq(f), NEW A \in SUBSET D PROVE f[A] = IF A = {} THEN 0 ELSE f[A \ {Max(A)}] + s[Max(A)].rating
    <3>1. f = [B \in SUBSET D |-> IF B = {} THEN 0 ELSE f[B \ {Max(B)}] + s[Max(B)].rating]
      BY <2>1
    <3> QED BY <3>1, Zenon
  <2> HIDE DEF I, Eq
  <2> QED BY <1>10, <2>1
<1> HIDE DEF I
<1>12. Adds(g, D, val)
  <2> HIDE DEF val, pick
  <2> QED BY <1>0, <1>4, <1>5, AnyOrder
<1> DEFINE T == {A \in SUBSET D : I[A] = g[A] /\ g[A] = Worth(of(A))}
<1>13. ASSUME NEW A \in SUBSET D, \A B \in SUBSET A : B # A => B \in T PROVE A \in T
  <2>1. IsFiniteSet(of(A)) /\ \A r \in of(A) : r.rating \in Int
    <3>1. of(A) \in SUBSET S
      BY <1>2
    <3> QED BY <3>1, FS_Subset
  <2>2. CASE A = {}
    <3>1. of(A) = {}
      BY <2>2
    <3>2. Worth(of(A)) = 0
      <4> HIDE DEF of
      <4> QED BY <2>1, <3>1, WorthAdds
    <3> QED BY <2>2, <3>2, <1>7, <1>11
  <2>3. CASE A # {}
    <3> DEFINE x == Max(A)
    <3>1. x \in A
      BY <2>3, <1>3
    <3>2. A \ {x} \in T
      <4>1. A \ {x} \in SUBSET A /\ A \ {x} # A
        BY <3>1
      <4> QED BY <4>1, <1>13
    <3>3. I[A] = g[A]
      BY <2>3, <3>2, <1>8, <1>11
    <3> HIDE DEF x
    <3>4. s[x] \in of(A) /\ of(A) \ {s[x]} = of(A \ {x})
      BY <3>1, <1>0
    <3>5. Worth(of(A)) = s[x].rating + Worth(of(A) \ {s[x]})
      <4> HIDE DEF of
      <4> QED BY <2>1, <3>4, WorthAdds
    <3>6. g[A] = s[x].rating + g[A \ {x}]
      BY <1>12, <3>1 DEF Adds
    <3> QED BY <3>2, <3>3, <3>4, <3>5, <3>6
  <2> QED BY <2>2, <2>3
<1>14. SUBSET D \subseteq T
  <2>1. IsFiniteSet(D)
    BY <1>0
  <2> HIDE DEF T
  <2>2. \A A \in SUBSET D : (\A B \in SUBSET A : B # A => B \in T) => A \in T
    BY <1>13
  <2>3. \A E, V : IsFiniteSet(E) /\ (\A A \in SUBSET E : (\A B \in SUBSET A : B # A => B \in V) => A \in V) => SUBSET E \subseteq V
    BY SubsetInduction
  <2> QED BY <2>1, <2>2, <2>3
<1>15. I[D] = Worth(of(D))
  BY <1>14
<1>16. of(D) = ToSet(s)
  BY DEF D, ToSet
<1> QED BY <1>1, <1>15, <1>16

(* The first n records are at most n, and all of them where there are no more. *)
LEMMA FirstCounts ==
  ASSUME NEW S, IsFiniteSet(S), Comparable(S), Distinct(S), NEW n \in Nat
  PROVE  /\ First(S, n) \subseteq S /\ IsFiniteSet(First(S, n)) /\ Cardinality(First(S, n)) <= n
         /\ Cardinality(S) <= n => First(S, n) = S
<1>1. First(S, n) \subseteq S /\ IsFiniteSet(First(S, n))
  <2>1. First(S, n) \in SUBSET S
    BY DEF First
  <2> QED BY <2>1, FS_Subset
<1>2. Cardinality(First(S, n)) <= n
  <2> DEFINE F == First(S, n)
             N == 0..n - 1
             f == [x \in F |-> Rank(S, x)]
  <2>1. f \in Injection(F, N)
    <3>1. \A x \in F : x \in S /\ Rank(S, x) < n /\ Rank(S, x) \in 0..Cardinality(S) - 1
      BY Places DEF First
    <3>2. \A x \in F : Rank(S, x) \in N
      BY <3>1
    <3>3. \A x, y \in F : Rank(S, x) = Rank(S, y) => x = y
      BY <3>1, Places
    <3> QED BY <3>2, <3>3 DEF Injection, IsInjective
  <2>2. IsFiniteSet(N) /\ Cardinality(N) = n
    <3>1. 0 \in Int /\ n - 1 \in Int
      OBVIOUS
    <3>2. IsFiniteSet(0..n - 1) /\ Cardinality(0..n - 1) = IF 0 > n - 1 THEN 0 ELSE n - 1 - 0 + 1
      BY <3>1, FS_Interval
    <3> QED BY <3>2
  <2> HIDE DEF F, N, f
  <2>3. Cardinality(F) <= Cardinality(N)
    BY <2>1, <2>2, FS_Injection
  <2> QED BY <2>2, <2>3 DEF F
<1>3. ASSUME Cardinality(S) <= n PROVE First(S, n) = S
  <2>1. Cardinality(S) \in Nat
    BY FS_CardinalityType
  <2>2. \A x \in S : Rank(S, x) < n
    BY <2>1, <1>3, Places
  <2> QED BY <2>2 DEF First
<1> QED BY <1>1, <1>2, <1>3

(* No n records of distinct charts are worth more than the first n. *)
LEMMA FirstIsBest ==
  ASSUME NEW S, IsFiniteSet(S), Comparable(S), Distinct(S)
  PROVE  \A n \in Nat : \A T \in SUBSET S : Cardinality(T) <= n => Worth(T) <= Worth(First(S, n))
<1> DEFINE Best(n) == \A T \in SUBSET S : Cardinality(T) <= n => Worth(T) <= Worth(First(S, n))
           G == {n \in Nat : Best(n)}
<1>0. ASSUME NEW T \in SUBSET S
      PROVE  /\ IsFiniteSet(T) /\ Cardinality(T) \in Nat /\ Cardinality(T) <= Cardinality(S)
             /\ \A r \in T : r.rating \in Nat /\ r.rating \in Int
             /\ Worth(T) \in Int
             /\ T = {} => Worth(T) = 0
             /\ \A x \in T : Worth(T) = x.rating + Worth(T \ {x})
  <2>1. IsFiniteSet(T) /\ Cardinality(T) <= Cardinality(S)
    BY FS_Subset
  <2>2. \A r \in T : r.rating \in Nat /\ r.rating \in Int
    BY DEF Comparable
  <2>3. Cardinality(T) \in Nat
    BY <2>1, FS_CardinalityType
  <2> QED BY <2>1, <2>2, <2>3, WorthAdds
<1>1. Cardinality(S) \in Nat
  BY FS_CardinalityType
<1>2. Best(0)
  <2> SUFFICES ASSUME NEW T \in SUBSET S, Cardinality(T) <= 0 PROVE Worth(T) <= Worth(First(S, 0))
    OBVIOUS
  <2>1. T = {}
    BY <1>0, FS_EmptySet
  <2>2. First(S, 0) = {}
    BY Places DEF First
  <2> QED BY <2>1, <2>2, <1>0
<1>3. ASSUME NEW n \in Nat, Best(n) PROVE Best(n + 1)
  <2> SUFFICES ASSUME NEW T \in SUBSET S, Cardinality(T) <= n + 1 PROVE Worth(T) <= Worth(First(S, n + 1))
    OBVIOUS
  <2>1. /\ First(S, n) \in SUBSET S /\ Cardinality(First(S, n)) <= n
        /\ First(S, n + 1) \in SUBSET S
    BY FirstCounts
  <2>2. CASE Cardinality(S) <= n
    <3>1. First(S, n) = S /\ First(S, n + 1) = S
      BY <2>2, <1>1, FirstCounts
    <3>2. Cardinality(T) <= n
      BY <2>2, <1>0, <1>1
    <3> QED BY <3>1, <3>2, <1>3
  <2>3. CASE n < Cardinality(S)
    <3>1. PICK x \in S : Rank(S, x) = n
      <4>1. n \in 0..Cardinality(S) - 1
        BY <2>3, <1>1
      <4> QED BY <4>1, Places
    <3>2. x \in First(S, n + 1) /\ First(S, n + 1) \ {x} = First(S, n)
      <4>1. \A y \in S : Rank(S, y) \in Int
        BY Places
      <4>2. \A y \in S : Rank(S, y) = n => y = x
        BY <3>1, Places
      <4>3. \A y \in S : Rank(S, y) < n + 1 <=> Rank(S, y) < n \/ Rank(S, y) = n
        BY <4>1
      <4> QED BY <3>1, <4>2, <4>3 DEF First
    <3>3. /\ Worth(First(S, n + 1)) = x.rating + Worth(First(S, n))
          /\ x.rating \in Nat /\ Worth(First(S, n)) \in Int
      BY <3>2, <2>1, <1>0
    <3>4. CASE Cardinality(T) <= n
      BY <3>3, <3>4, <1>3, <1>0
    <3>5. CASE Cardinality(T) = n + 1
      <4>1. PICK r \in T : r \notin First(S, n)
        <5> SUFFICES ASSUME T \in SUBSET First(S, n) PROVE FALSE
          OBVIOUS
        <5>1. Cardinality(T) <= Cardinality(First(S, n))
          BY <2>1, <1>0, FS_Subset
        <5>2. Cardinality(First(S, n)) \in Nat
          BY <2>1, <1>0
        <5> QED BY <5>1, <5>2, <2>1, <3>5
      <4>2. Rank(S, x) <= Rank(S, r) /\ r \in S
        <5>1. Rank(S, r) \in Int
          BY Places
        <5>2. ~ (Rank(S, r) < n)
          BY <4>1 DEF First
        <5> QED BY <5>1, <5>2, <3>1
      <4>3. x.rating >= r.rating
        BY <4>2, Places
      <4>4. T \ {r} \in SUBSET S /\ Cardinality(T \ {r}) = n
        <5>1. Cardinality(T \ {r}) = Cardinality(T) - 1
          BY <1>0, <4>1, FS_RemoveElement
        <5> QED BY <5>1, <3>5
      <4>5. Worth(T \ {r}) <= Worth(First(S, n)) /\ Worth(T \ {r}) \in Int
        BY <4>4, <1>3, <1>0
      <4>6. Worth(T) = r.rating + Worth(T \ {r}) /\ r.rating \in Int
        BY <4>1, <1>0
      <4> QED BY <3>3, <4>3, <4>5, <4>6
    <3>6. Cardinality(T) \in Nat /\ Cardinality(T) <= n + 1
      BY <1>0
    <3> QED BY <3>4, <3>5, <3>6
  <2> QED BY <2>2, <2>3, <1>1
<1>4. Nat \subseteq G
  <2>1. 0 \in G /\ \A n \in Nat : n \in G => n + 1 \in G
    <3> HIDE DEF Best
    <3> QED BY <1>2, <1>3
  <2> HIDE DEF G
  <2> QED BY <2>1, NatSet
<1> QED BY <1>4

(* A choice is worth no more than one from records that are no worse. *)
LEMMA NoWorse ==
  ASSUME NEW S, IsFiniteSet(S), Comparable(S), NEW U, IsFiniteSet(U), Comparable(U),
         \A r \in S : \E u \in U : u.chart = r.chart /\ u.rating >= r.rating
  PROVE  \A A \in SUBSET S : Distinct(A) =>
           \E V \in SUBSET U : Cardinality(V) = Cardinality(A) /\ Worth(A) <= Worth(V)
<1> DEFINE For(A, V) == /\ Cardinality(V) = Cardinality(A) /\ Worth(A) <= Worth(V)
                        /\ \A v \in V : \E a \in A : a.chart = v.chart
           Ok(A) == Distinct(A) => \E V \in SUBSET U : For(A, V)
           T == {A \in SUBSET S : Ok(A)}
<1>0. ASSUME NEW W, IsFiniteSet(W), Comparable(W), NEW A \in SUBSET W
      PROVE  /\ IsFiniteSet(A) /\ Cardinality(A) \in Nat
             /\ \A r \in A : r.rating \in Int
             /\ Worth(A) \in Int
             /\ A = {} => Worth(A) = 0
             /\ \A x \in A : Worth(A) = x.rating + Worth(A \ {x})
  <2>1. IsFiniteSet(A)
    BY <1>0, FS_Subset
  <2>2. \A r \in A : r.rating \in Int
    BY <1>0 DEF Comparable
  <2>3. Cardinality(A) \in Nat
    BY <2>1, FS_CardinalityType
  <2> QED BY <2>1, <2>2, <2>3, WorthAdds
<1>1. ASSUME NEW A \in SUBSET S, \A B \in SUBSET A : B # A => B \in T PROVE A \in T
  <2> SUFFICES ASSUME Distinct(A) PROVE \E V \in SUBSET U : For(A, V)
    OBVIOUS
  <2>1. CASE A = {}
    <3>1. {} \in SUBSET U /\ {} \in SUBSET S
      OBVIOUS
    <3>2. Worth({}) = 0
      BY <3>1, <1>0
    <3>3. For(A, {})
      BY <2>1, <3>2
    <3> QED BY <3>1, <3>3
  <2>2. CASE A # {}
    <3>1. PICK x \in A : TRUE
      BY <2>2
    <3>2. A \ {x} \in T /\ Distinct(A \ {x})
      <4>1. A \ {x} \in SUBSET A /\ A \ {x} # A
        BY <3>1
      <4> QED BY <4>1, <1>1 DEF Distinct
    <3>3. PICK V \in SUBSET U : For(A \ {x}, V)
      BY <3>2
    <3>4. PICK u \in U : u.chart = x.chart /\ u.rating >= x.rating
      BY <3>1
    <3>5. u \notin V
      <4> SUFFICES ASSUME u \in V PROVE FALSE
        OBVIOUS
      <4>1. PICK a \in A \ {x} : a.chart = u.chart
        BY <3>3
      <4> QED BY <4>1, <3>1, <3>4 DEF Distinct
    <3> DEFINE W == V \cup {u}
    <3>6. W \in SUBSET U /\ u \in W /\ W \ {u} = V
      BY <3>5
    <3>7. Cardinality(W) = Cardinality(A)
      <4>1. Cardinality(W) = Cardinality(V) + 1
        BY <3>5, <1>0, FS_AddElement
      <4>2. Cardinality(A \ {x}) = Cardinality(A) - 1 /\ Cardinality(A) \in Nat
        BY <3>1, <1>0, FS_RemoveElement
      <4> QED BY <4>1, <4>2, <3>3
    <3>8. Worth(A) <= Worth(W)
      <4>1. Worth(A) = x.rating + Worth(A \ {x}) /\ x.rating \in Int /\ Worth(A \ {x}) \in Int
        <5>1. A \ {x} \in SUBSET S
          OBVIOUS
        <5> QED BY <5>1, <3>1, <1>0
      <4>2. Worth(W) = u.rating + Worth(V) /\ u.rating \in Int /\ Worth(V) \in Int
        <5> HIDE DEF W
        <5> QED BY <3>6, <1>0
      <4>3. Worth(A \ {x}) <= Worth(V)
        BY <3>3
      <4> QED BY <4>1, <4>2, <4>3, <3>4
    <3>9. \A v \in W : \E a \in A : a.chart = v.chart
      BY <3>1, <3>3, <3>4
    <3>10. For(A, W)
      BY <3>7, <3>8, <3>9
    <3> QED BY <3>6, <3>10
  <2> QED BY <2>1, <2>2
<1>2. SUBSET S \subseteq T
  <2> HIDE DEF T
  <2> QED BY <1>1, SubsetInduction
<1> QED BY <1>2

(* The records of the current version, or the others. *)
Part(records, new) == {r \in records : r.current = new}

(* A section is a choice its capacity lets, and none is worth more. *)
LEMMA SectionIsBest ==
  ASSUME NEW R, IsFiniteSet(R), Comparable(R), \A l, r \in R : l.chart = r.chart => l.current = r.current,
         NEW new, NEW capacity \in Nat
  PROVE  LET s == SectionOf(Part(Unique(R), new), capacity)
         IN /\ s \in Seq(Part(Unique(R), new))
            /\ ToSet(s) \in ChoicesOf(R, new, capacity)
            /\ \A c \in ChoicesOf(R, new, capacity) : Worth(c) <= SumRating(s)
<1> DEFINE U == Part(Unique(R), new)
           P == Part(R, new)
           s == SectionOf(U, capacity)
<1>1. Unique(R) \in SUBSET R /\ U \in SUBSET R /\ P \in SUBSET R /\ U \subseteq P
  BY OneOfEach DEF Part
<1>2. IsFiniteSet(U) /\ Comparable(U) /\ IsFiniteSet(P) /\ Comparable(P)
  <2> HIDE DEF U, P
  <2> QED BY <1>1, FS_Subset DEF Comparable
<1>3. Distinct(U)
  BY OneOfEach DEF Distinct, Part
<1>4. \A r \in P : \E u \in U : u.chart = r.chart /\ u.rating >= r.rating
  <2> SUFFICES ASSUME NEW r \in P PROVE \E u \in U : u.chart = r.chart /\ u.rating >= r.rating
    OBVIOUS
  <2>1. r \in R /\ r.current = new
    BY DEF Part
  <2>2. PICK u \in Unique(R) : u.chart = r.chart /\ u.rating >= r.rating
    BY <2>1, OneOfEach
  <2>3. u \in U
    BY <2>1, <2>2, <1>1 DEF Part
  <2> QED BY <2>2, <2>3
<1> HIDE DEF U, P
<1>5. /\ s \in Seq(U) /\ Len(s) \in Nat /\ Len(s) <= capacity
      /\ \A i \in 1..Len(s) : Rank(U, s[i]) = i - 1
      /\ ToSet(s) = First(U, capacity)
  BY <1>2, <1>3, Section
<1> HIDE DEF s
<1>6. \A i, j \in 1..Len(s) : s[i] = s[j] => i = j
  <2> SUFFICES ASSUME NEW i \in 1..Len(s), NEW j \in 1..Len(s), s[i] = s[j] PROVE i = j
    OBVIOUS
  <2>1. i \in Int /\ j \in Int /\ i - 1 = j - 1
    BY <1>5
  <2> QED BY <2>1
<1>7. SumRating(s) = Worth(First(U, capacity))
  <2>1. \A r \in U : r.rating \in Int
    BY <1>2 DEF Comparable
  <2> QED BY <2>1, <1>2, <1>5, <1>6, SumIsWorth
<1>8. First(U, capacity) \subseteq U /\ Cardinality(First(U, capacity)) <= capacity
  BY <1>2, <1>3, FirstCounts
<1>9. ToSet(s) \in ChoicesOf(R, new, capacity)
  <2>1. First(U, capacity) \in SUBSET Part(R, new)
    BY <1>8, <1>1 DEF P
  <2>2. Distinct(First(U, capacity))
    BY <1>8, <1>3 DEF Distinct
  <2> QED BY <2>1, <2>2, <1>5, <1>8 DEF ChoicesOf, Part
<1>10. ASSUME NEW c \in ChoicesOf(R, new, capacity) PROVE Worth(c) <= SumRating(s)
  <2>1. c \in SUBSET P /\ Cardinality(c) <= capacity /\ Distinct(c)
    BY DEF ChoicesOf, P, Part
  <2>2. PICK V \in SUBSET U : Cardinality(V) = Cardinality(c) /\ Worth(c) <= Worth(V)
    BY <2>1, <1>2, <1>4, NoWorse
  <2>3. Worth(V) <= Worth(First(U, capacity))
    BY <2>1, <2>2, <1>2, <1>3, FirstIsBest
  <2>4. Worth(c) \in Int /\ Worth(V) \in Int /\ Worth(First(U, capacity)) \in Int
    <3>1. ASSUME NEW W, IsFiniteSet(W), Comparable(W), NEW A \in SUBSET W PROVE Worth(A) \in Int
      <4>1. IsFiniteSet(A) /\ \A r \in A : r.rating \in Int
        BY <3>1, FS_Subset DEF Comparable
      <4> QED BY <4>1, WorthAdds
    <3> QED BY <3>1, <2>1, <2>2, <1>2, <1>8
  <2> QED BY <2>2, <2>3, <2>4, <1>7
<1> QED BY <1>5, <1>9, <1>10 DEF s, U

-----------------------------------------------------------------------------
(* What a score is rated with. *)

(* The image of a finite set is finite. *)
LEMMA ImageFinite ==
  ASSUME NEW S, IsFiniteSet(S), NEW f
  PROVE  IsFiniteSet({f[x] : x \in S})
<1> DEFINE T == {f[x] : x \in S}
           g == [x \in S |-> f[x]]
<1>1. g \in Surjection(S, T)
  BY DEF Surjection
<1> HIDE DEF T, g
<1>2. IsFiniteSet(T)
  BY <1>1, FS_Surjection
<1> QED BY <1>2 DEF T

(* The coefficient of an achievement is a natural number. *)
LEMMA CoefficientIs ==
  ASSUME NEW a \in Nat PROVE Coefficient(a) \in Nat
<1> DEFINE S == {c[2] : c \in {d \in Coefficients : d[1] <= a}}
<1>1. \A c \in Coefficients : c[2] \in 0..224
  BY DEF Coefficients
<1>2. S \in SUBSET (0..224)
  BY <1>1
<1>3. S # {}
  <2>1. <<0, 0>> \in Coefficients
    BY DEF Coefficients
  <2>2. <<0, 0>>[1] <= a
    OBVIOUS
  <2> QED BY <2>1, <2>2
<1>4. Coefficient(a) = Max(S)
  BY Zenon DEF Coefficient
<1> HIDE DEF S
<1>5. IsFiniteSet(S) /\ S \subseteq Int
  <2>1. 0 \in Int /\ 224 \in Int
    OBVIOUS
  <2>2. IsFiniteSet(0..224)
    BY <2>1, FS_Interval
  <2>3. IsFiniteSet(S)
    BY <1>2, <2>2, FS_Subset
  <2>4. 0..224 \subseteq Int
    OBVIOUS
  <2> QED BY <1>2, <2>3, <2>4
<1>6. Max(S) \in S
  BY <1>3, <1>5, MaxIs
<1>7. 0..224 \subseteq Nat
  OBVIOUS
<1> QED BY <1>2, <1>4, <1>6, <1>7

(* A rating is never negative. *)
LEMMA SongRatingIs ==
  ASSUME NEW constant \in Nat, NEW achievement \in Nat PROVE SongRating(constant, achievement) \in Nat
<1> DEFINE c == Capped(achievement)
<1>1. c \in Nat
  BY DEF Capped, Cap
<1> HIDE DEF c
<1> DEFINE k == Coefficient(c)
<1>2. k \in Nat
  BY <1>1, CoefficientIs
<1> HIDE DEF k
<1>3. constant * c \in Nat
  BY <1>1
<1> DEFINE p == constant * c
<1> HIDE DEF p
<1>4. p * k \in Nat
  BY <1>2, <1>3 DEF p
<1> DEFINE w == p * k
<1> HIDE DEF w
<1>5. w \div 1000000 \in Nat
  BY <1>4, SMT DEF w
<1>6. SongRating(constant, achievement) = w \div 1000000
  BY SMT DEF SongRating, w, p, k, c
<1> QED BY <1>5, <1>6, SMT

(* The records from_score makes of scores on a catalog. *)
JudgedData(catalog) ==
  [chart : DOMAIN catalog, utage : BOOLEAN, current : BOOLEAN, constant : Measured, fit : Measured,
   achievement : Measured, dx : Measured, original : Measured, rating : Measured]

(* from_score makes such a record, with the version flag of the catalog. *)
LEMMA Judges ==
  ASSUME NEW catalog, catalog \in [DOMAIN catalog -> ChartData], NEW score \in ScoreData(catalog)
  PROVE  /\ FromScore(score, catalog) \in JudgedData(catalog)
         /\ FromScore(score, catalog).current = catalog[FromScore(score, catalog).chart].current
<1> DEFINE chart == catalog[score.chart]
           constant == Or(score.constant, chart.constant)
           rating == IF constant # None /\ ~chart.utage /\ score.achievement # None
                     THEN SongRating(constant, score.achievement) ELSE score.rating
<1>1. /\ score.chart \in DOMAIN catalog /\ score.achievement \in Measured /\ score.dx \in Measured
      /\ score.constant \in Measured /\ score.rating \in Measured
  BY DEF ScoreData
<1>2. chart \in ChartData
  BY <1>1
<1>3. chart.constant \in Measured /\ chart.fit \in Measured /\ chart.current \in BOOLEAN /\ chart.utage \in BOOLEAN
  BY <1>2 DEF ChartData
<1> HIDE DEF chart
<1>4. constant \in Measured
  BY <1>1, <1>3 DEF Or
<1> HIDE DEF constant
<1>5. rating \in Measured
  <2>1. CASE constant # None /\ ~chart.utage /\ score.achievement # None
    <3>1. constant \in Nat /\ score.achievement \in Nat
      BY <2>1, <1>1, <1>4 DEF Measured
    <3> QED BY <2>1, <3>1, SongRatingIs DEF Measured
  <2>2. CASE ~ (constant # None /\ ~chart.utage /\ score.achievement # None)
    BY <2>2, <1>1
  <2> QED BY <2>1, <2>2
<1>6. FromScore(score, catalog) =
        [chart |-> score.chart, utage |-> chart.utage, current |-> chart.current,
         constant |-> constant, fit |-> chart.fit,
         achievement |-> score.achievement, dx |-> score.dx, original |-> None, rating |-> rating]
  BY Zenon DEF FromScore, chart, constant
<1> HIDE DEF rating
<1>7. None \in Measured
  BY DEF Measured
<1>8. FromScore(score, catalog) \in JudgedData(catalog)
  BY <1>1, <1>3, <1>4, <1>5, <1>6, <1>7 DEF JudgedData
<1>9. FromScore(score, catalog).current = chart.current /\ FromScore(score, catalog).chart = score.chart
  BY <1>6
<1> QED BY <1>8, <1>9 DEF chart

(* Rated records that can be divided into the two sections. *)
Divisible(rated) ==
  /\ IsFiniteSet(rated) /\ Comparable(rated)
  /\ \A r \in rated : r.current \in BOOLEAN
  /\ \A l, r \in rated : l.chart = r.chart => l.current = r.current

(* What is rated of the scores of a question can be divided, in both modes. *)
LEMMA RatedIs ==
  ASSUME NEW q, Ratable(q)
  PROVE  Divisible(Rated(FromScores(q.scores, q.catalog), q.mode))
<1> DEFINE catalog == q.catalog
           scores == q.scores
           mode == q.mode
<1>1. /\ DOMAIN catalog \subseteq Int /\ catalog \in [DOMAIN catalog -> ChartData]
      /\ scores \subseteq ScoreData(catalog) /\ IsFiniteSet(scores)
      /\ mode \in {"actual", "fit"}
  BY DEF Ratable, Judgeable
<1>2. Rated(FromScores(q.scores, q.catalog), q.mode) = Rated(FromScores(scores, catalog), mode)
  OBVIOUS
<1> HIDE DEF catalog, scores, mode
<1> DEFINE records == FromScores(scores, catalog)
           plain == {r \in records : ~r.utage}
           fits == {r \in plain : r.fit # None /\ r.achievement # None}
           refit(r) == [r EXCEPT !.rating = SongRating(r.fit, r.achievement), !.original = r.rating]
           rated == Rated(records, mode)
           Fine(r) == /\ r.rating \in Nat /\ Ranked(r) \in Int /\ Or(r.fit, r.constant) \in Int
                      /\ r.chart \in Int /\ r.current \in BOOLEAN /\ r.current = catalog[r.chart].current
<1>3. IsFiniteSet(records)
  <2> DEFINE f == [s \in scores |-> FromScore(s, catalog)]
  <2>1. records = {f[s] : s \in scores}
    BY DEF FromScores
  <2> HIDE DEF f, records
  <2> QED BY <2>1, <1>1, ImageFinite
<1>4. \A r \in records : r \in JudgedData(catalog) /\ r.current = catalog[r.chart].current
  BY <1>1, Judges DEF FromScores
<1> HIDE DEF records
<1>5. ASSUME NEW r \in records
      PROVE  /\ r.chart \in Int /\ r.utage \in BOOLEAN /\ r.current \in BOOLEAN
             /\ r.rating \in Nat \cup {None} /\ r.achievement \in Nat \cup {None}
             /\ r.fit \in Nat \cup {None} /\ r.constant \in Nat \cup {None}
             /\ r.current = catalog[r.chart].current
             /\ None = -1
             /\ Ranked(r) \in Int /\ Or(r.fit, r.constant) \in Int
  <2>1. /\ r.chart \in Int /\ r.utage \in BOOLEAN /\ r.current \in BOOLEAN
        /\ r.rating \in Nat \cup {None} /\ r.achievement \in Nat \cup {None}
        /\ r.fit \in Nat \cup {None} /\ r.constant \in Nat \cup {None}
        /\ r.current = catalog[r.chart].current
    BY <1>1, <1>4 DEF JudgedData, Measured
  <2> QED BY <2>1 DEF None, Ranked, Or
<1>6. IsFiniteSet(plain) /\ IsFiniteSet(fits)
  <2>1. plain \in SUBSET records /\ fits \in SUBSET records
    OBVIOUS
  <2> HIDE DEF plain, fits
  <2> QED BY <2>1, <1>3, FS_Subset
<1>7. IsFiniteSet(rated) /\ \A r \in rated : Fine(r)
  <2>1. CASE mode = "actual"
    <3>1. rated = {r \in plain : r.rating # None}
      BY <2>1 DEF Rated
    <3>2. rated \in SUBSET plain
      BY <3>1
    <3>3. IsFiniteSet(rated)
      <4> HIDE DEF rated, plain
      <4> QED BY <3>2, <1>6, FS_Subset
    <3>4. \A r \in rated : Fine(r)
      BY <3>1, <1>5
    <3> QED BY <3>3, <3>4
  <2>2. CASE mode = "fit"
    <3>1. rated = {refit(r) : r \in fits}
      BY <2>2, Zenon DEF Rated
    <3>2. IsFiniteSet(rated)
      <4> DEFINE f == [r \in fits |-> refit(r)]
      <4>1. rated = {f[r] : r \in fits}
        BY <3>1
      <4> HIDE DEF f, fits, rated
      <4> QED BY <4>1, <1>6, ImageFinite
    <3>3. ASSUME NEW r \in fits PROVE Fine(refit(r))
      <4>1. r \in records /\ r \in JudgedData(catalog) /\ r.fit \in Nat /\ r.achievement \in Nat
        BY <1>4, <1>5
      <4>2. SongRating(r.fit, r.achievement) \in Nat
        BY <4>1, SongRatingIs
      <4>3. /\ refit(r).rating = SongRating(r.fit, r.achievement) /\ refit(r).chart = r.chart
            /\ refit(r).current = r.current /\ refit(r).utage = r.utage /\ refit(r).fit = r.fit
            /\ refit(r).constant = r.constant /\ refit(r).achievement = r.achievement
        BY <4>1 DEF JudgedData
      <4> HIDE DEF refit
      <4>4. Ranked(refit(r)) = Ranked(r) /\ Or(refit(r).fit, refit(r).constant) = Or(r.fit, r.constant)
        BY <4>3 DEF Ranked
      <4> QED BY <4>1, <4>2, <4>3, <4>4, <1>5
    <3> HIDE DEF Fine, refit
    <3> QED BY <3>1, <3>2, <3>3
  <2> QED BY <2>1, <2>2, <1>1
<1> HIDE DEF rated
<1>8. Comparable(rated)
  BY <1>7 DEF Comparable
<1>9. Divisible(rated)
  BY <1>7, <1>8 DEF Divisible
<1> QED BY <1>9, <1>2 DEF rated, records

(* The two lists of a B50 and their sums. *)
LEMMA ListIs ==
  ASSUME NEW records, NEW mode
  PROVE  LET unique == Unique(Rated(records, mode))
             legacy == SectionOf({r \in unique : ~r.current}, LegacyCapacity)
             current == SectionOf({r \in unique : r.current}, CurrentCapacity)
         IN /\ B50(records, mode).legacy = legacy /\ B50(records, mode).current = current
            /\ B50(records, mode).b35 = SumRating(legacy) /\ B50(records, mode).b15 = SumRating(current)
<1> DEFINE unique == Unique(Rated(records, mode))
           legacy == SectionOf({r \in unique : ~r.current}, LegacyCapacity)
           current == SectionOf({r \in unique : r.current}, CurrentCapacity)
<1>1. B50(records, mode) =
        [legacy |-> legacy, current |-> current,
         b35 |-> SumRating(legacy), b15 |-> SumRating(current),
         total |-> SumRating(legacy) + SumRating(current), fitIndex |-> FitIndex(legacy \o current)]
  BY Zenon DEF B50, Using
<1> HIDE DEF legacy, current
<1> QED BY <1>1 DEF legacy, current

(* Both lists are choices the capacities let, of distinct charts, and none
   is worth more. *)
LEMMA ListIsBest ==
  ASSUME NEW records, NEW mode, Divisible(Rated(records, mode))
  PROVE  LET rated == Rated(records, mode)
             b50 == B50(records, mode)
         IN /\ Distinct(ToSet(b50.legacy \o b50.current))
            /\ ToSet(b50.legacy) \in ChoicesOf(rated, FALSE, LegacyCapacity)
            /\ ToSet(b50.current) \in ChoicesOf(rated, TRUE, CurrentCapacity)
            /\ \A s \in ChoicesOf(rated, FALSE, LegacyCapacity) : Worth(s) <= b50.b35
            /\ \A s \in ChoicesOf(rated, TRUE, CurrentCapacity) : Worth(s) <= b50.b15
<1> DEFINE rated == Rated(records, mode)
           unique == Unique(rated)
           old == Part(unique, FALSE)
           new == Part(unique, TRUE)
           legacy == SectionOf(old, LegacyCapacity)
           current == SectionOf(new, CurrentCapacity)
<1>0. /\ IsFiniteSet(rated) /\ Comparable(rated)
      /\ \A r \in rated : r.current \in BOOLEAN
      /\ \A l, r \in rated : l.chart = r.chart => l.current = r.current
  BY DEF Divisible
<1>1. LegacyCapacity \in Nat /\ CurrentCapacity \in Nat
  BY CapacityAssumption
<1> HIDE DEF rated
<1>2. unique \subseteq rated /\ \A l, r \in unique : l.chart = r.chart => l = r
  BY <1>0, OneOfEach
<1>3. old = {r \in unique : ~r.current} /\ new = {r \in unique : r.current}
  BY <1>0, <1>2 DEF Part
<1> DEFINE b50 == B50(records, mode)
<1>4. /\ b50.legacy = legacy /\ b50.current = current
      /\ b50.b35 = SumRating(legacy) /\ b50.b15 = SumRating(current)
  <2> HIDE DEF old, new
  <2> QED BY <1>3, ListIs DEF rated
<1> HIDE DEF b50
<1>5. /\ legacy \in Seq(old) /\ ToSet(legacy) \in ChoicesOf(rated, FALSE, LegacyCapacity)
      /\ \A c \in ChoicesOf(rated, FALSE, LegacyCapacity) : Worth(c) <= SumRating(legacy)
  BY <1>0, <1>1, SectionIsBest
<1>6. /\ current \in Seq(new) /\ ToSet(current) \in ChoicesOf(rated, TRUE, CurrentCapacity)
      /\ \A c \in ChoicesOf(rated, TRUE, CurrentCapacity) : Worth(c) <= SumRating(current)
  BY <1>0, <1>1, SectionIsBest
<1>7. Distinct(ToSet(legacy \o current))
  <2>1. old \subseteq unique /\ new \subseteq unique
    BY DEF Part
  <2> HIDE DEF legacy, current, old, new
  <2>2. legacy \in Seq(unique) /\ current \in Seq(unique)
    BY <2>1, <1>5, <1>6
  <2>3. legacy \o current \in Seq(unique)
    BY <2>2
  <2> DEFINE both == legacy \o current
  <2> HIDE DEF both
  <2>4. \A i \in DOMAIN both : both[i] \in unique
    BY <2>3 DEF both
  <2> QED BY <2>4, <1>2 DEF Distinct, ToSet, both
<1> HIDE DEF legacy, current
<1> QED BY <1>4, <1>5, <1>6, <1>7 DEF b50, rated

-----------------------------------------------------------------------------
(* The promise of the B50. *)

(* The question stays one of the questions, and its answer is that of the code. *)
AnsweredByB50 ==
  /\ question \in Questions
  /\ Answered("b50") => answer = B50(FromScores(question.scores, question.catalog), question.mode)

(* Only the action of a tool answers its questions, and none changes a
   question or the catalogue. *)
LEMMA Answerers ==
  ASSUME Next
  PROVE  /\ UNCHANGED <<question, loaded>>
         /\ question.tool = "b50" => ComputeB50
         /\ question.tool = "rise" => RecommendRise
         /\ question.tool = "b50_report" => ReportB50
         /\ question.tool = "b50_member" => RankMember
         /\ question.tool = "song_report" => ReportSong
         /\ question.tool = "song_member" => RankOnSong
         /\ question.tool = "rank_tool" => AskRanking
         /\ question.tool = "public" => ShowPublicRanking
         /\ question.tool = "operation" => CallDivingFish
         /\ question.tool = "tokens" => RequestTokens
         /\ question.tool = "fetch" => FetchSource
         /\ question.tool = "group_members" => ListGroupMembers
         /\ question.tool = "accounts" => ListAccounts
<1> USE DEF Next, Answering, KeepState, StartServer, CallServer, HoldSession, AskIdentity, ListMembers, QueryB50,
            QueryB50Batch, QuerySongScore, QueryPlayerRecords, ShowApis, CallDivingFishApi, CallDivingFish,
            RequestTokens, FetchSource, ListGroupMembers, ListAccounts, AskScores, ShowPlates, ShowPlateProgress,
            ShowLevelProgress, ShowRatingTable, LoadCatalog, QueryCatalog, SearchSongs, ListSongs, DrawRandom,
            ListVersions, ShowMusicInfo, FindScoredSong, FindRankedSong, FindChart, FindPlayer, CountScores,
            SearchScores, ComputeB50, TakeB50, RecommendRise, ReportB50, RankMember, ReportSong, RankOnSong,
            AskRanking, ShowPublicRanking
<1>1. UNCHANGED <<question, loaded>>
  OBVIOUS
<1>2. question.tool = "b50" => ComputeB50
  OBVIOUS
<1>3. question.tool = "rise" => RecommendRise
  OBVIOUS
<1>4. question.tool = "b50_report" => ReportB50
  OBVIOUS
<1>5. question.tool = "b50_member" => RankMember
  OBVIOUS
<1>6. question.tool = "song_report" => ReportSong
  OBVIOUS
<1>7. question.tool = "song_member" => RankOnSong
  OBVIOUS
<1>8. question.tool = "rank_tool" => AskRanking
  OBVIOUS
<1>9. question.tool = "public" => ShowPublicRanking
  OBVIOUS
<1>10. question.tool = "operation" => CallDivingFish
  OBVIOUS
<1>11. question.tool = "tokens" => RequestTokens
  OBVIOUS
<1>12. question.tool = "fetch" => FetchSource
  OBVIOUS
<1>13. question.tool = "group_members" => ListGroupMembers
  OBVIOUS
<1>14. question.tool = "accounts" => ListAccounts
  OBVIOUS
<1> QED
  BY <1>1, <1>2, <1>3, <1>4, <1>5, <1>6, <1>7, <1>8, <1>9, <1>10, <1>11, <1>12, <1>13, <1>14

(* The invariant of B50 questions: the answer is the list the code computes. *)
LEMMA RatingInvariant == Spec => []AnsweredByB50
<1>1. Init => AnsweredByB50
  BY DEF Init, AnsweredByB50, Answered
<1>2. AnsweredByB50 /\ [Next]_vars => AnsweredByB50'
  <2> SUFFICES ASSUME AnsweredByB50, [Next]_vars PROVE AnsweredByB50'
    OBVIOUS
  <2>1. CASE UNCHANGED vars
    BY <2>1 DEF AnsweredByB50, Answered, vars
  <2>2. CASE Next
    <3>1. question' = question
      BY <2>2, Answerers
    <3>2. CASE question.tool = "b50"
      <4>1. ComputeB50
        BY <2>2, <3>2, Answerers
      <4> QED BY <4>1, <3>1 DEF ComputeB50, AnsweredByB50, Answered
    <3>3. CASE question.tool # "b50"
      BY <3>1, <3>3 DEF AnsweredByB50, Answered
    <3> QED BY <3>2, <3>3
  <2> QED BY <2>1, <2>2 DEF AnsweredByB50
<1> QED BY <1>1, <1>2, PTL DEF Spec

(* The B50 is the best list: each of its two sections is a choice of records
   of distinct charts within its capacity, and no such choice is worth more;
   for every catalog, every set of scores, both modes and any capacities. *)
THEOREM RatingIsBestHolds == Spec => []RatingIsBest
<1>1. AnsweredByB50 => RatingIsBest
  <2> SUFFICES ASSUME AnsweredByB50, Answered("b50") PROVE RatingIsBest
    BY DEF RatingIsBest
  <2> DEFINE records == FromScores(question.scores, question.catalog)
             mode == question.mode
             rated == Rated(records, mode)
  <2>1. question \in Questions /\ question.tool = "b50" /\ answer = B50(records, mode)
    BY DEF AnsweredByB50, Answered
  <2>2. Divisible(rated)
    BY <2>1, RatingAssumption, RatedIs
  <2>3. /\ Distinct(ToSet(answer.legacy \o answer.current))
        /\ ToSet(answer.legacy) \in ChoicesOf(rated, FALSE, LegacyCapacity)
        /\ ToSet(answer.current) \in ChoicesOf(rated, TRUE, CurrentCapacity)
        /\ \A s \in ChoicesOf(rated, FALSE, LegacyCapacity) : Worth(s) <= answer.b35
        /\ \A s \in ChoicesOf(rated, TRUE, CurrentCapacity) : Worth(s) <= answer.b15
    <3> HIDE DEF records, mode
    <3> QED BY <2>1, <2>2, ListIsBest
  <2> QED BY <2>3 DEF RatingIsBest
<1> QED BY <1>1, RatingInvariant, PTL

-----------------------------------------------------------------------------
(* How much of a reply is read. *)

(* The bytes of a list of parts are the sum of their lengths. *)
LEMMA BytesAre ==
  ASSUME NEW s \in Seq(Nat)
  PROVE  \E g \in [SUBSET (DOMAIN s) -> Int] : Adds(g, DOMAIN s, s) /\ BytesIn(s) = g[DOMAIN s]
<1> DEFINE D == DOMAIN s
           Eq(g) == g = [A \in SUBSET D |-> IF A = {} THEN 0 ELSE g[A \ {Max(A)}] + s[Max(A)]]
           I == CHOOSE iter : iter = [A \in SUBSET D |-> IF A = {} THEN 0 ELSE iter[A \ {Max(A)}] + s[Max(A)]]
           pick == [A \in SUBSET D |-> Max(A)]
<1>0. D = 1..Len(s) /\ IsFiniteSet(D) /\ Len(s) \in Nat /\ D \subseteq Int
  <2>1. D = 1..Len(s) /\ Len(s) \in Nat
    OBVIOUS
  <2>2. IsFiniteSet(1..Len(s))
    BY <2>1, FS_Interval
  <2> QED BY <2>1, <2>2
<1>1. BytesIn(s) = I[D]
  BY Zenon DEF BytesIn, FoldLeft, MapThenFoldSet
<1>2. s \in [D -> Int]
  OBVIOUS
<1>3. \A A \in SUBSET D : A # {} => Max(A) \in A
  <2> SUFFICES ASSUME NEW A \in SUBSET D, A # {} PROVE Max(A) \in A
    OBVIOUS
  <2>1. IsFiniteSet(A) /\ A \subseteq Int
    BY <1>0, FS_Subset
  <2> QED BY <2>1, MaxIs
<1>4. Picks(pick, D)
  BY <1>3 DEF Picks
<1>5. PICK g \in [SUBSET D -> Int] : SumsUp(g, D, s, pick)
  <2> HIDE DEF pick, D
  <2> QED BY <1>0, <1>2, <1>4, SumsExist
<1> HIDE DEF D
<1>6. \A A \in SUBSET D : A # {} => /\ g[A] = s[Max(A)] + g[A \ {Max(A)}]
                                    /\ s[Max(A)] \in Int /\ g[A \ {Max(A)}] \in Int
  BY <1>5, <1>2, <1>3 DEF SumsUp
<1>7. g[{}] = 0
  BY <1>5 DEF SumsUp
<1>8. \A A \in SUBSET D : g[A] = IF A = {} THEN 0 ELSE g[A \ {Max(A)}] + s[Max(A)]
  <2> SUFFICES ASSUME NEW A \in SUBSET D
               PROVE  g[A] = IF A = {} THEN 0 ELSE g[A \ {Max(A)}] + s[Max(A)]
    OBVIOUS
  <2>1. CASE A = {}
    BY <2>1, <1>7
  <2>2. CASE A # {}
    BY <2>2, <1>6
  <2> QED BY <2>1, <2>2
<1>9. Eq(g)
  <2>1. g = [A \in SUBSET D |-> IF A = {} THEN 0 ELSE g[A \ {Max(A)}] + s[Max(A)]]
    BY <1>5, <1>8
  <2> QED BY <2>1
<1>10. Eq(I)
  BY <1>9, Zenon
<1>11. \A A \in SUBSET D : I[A] = IF A = {} THEN 0 ELSE I[A \ {Max(A)}] + s[Max(A)]
  <2>1. ASSUME NEW f, Eq(f), NEW A \in SUBSET D PROVE f[A] = IF A = {} THEN 0 ELSE f[A \ {Max(A)}] + s[Max(A)]
    <3>1. f = [B \in SUBSET D |-> IF B = {} THEN 0 ELSE f[B \ {Max(B)}] + s[Max(B)]]
      BY <2>1
    <3> QED BY <3>1, Zenon
  <2> HIDE DEF I, Eq
  <2> QED BY <1>10, <2>1
<1> HIDE DEF I
<1>12. Adds(g, D, s)
  BY <1>0, <1>2, <1>4, <1>5, AnyOrder
<1> DEFINE T == {A \in SUBSET D : I[A] = g[A]}
<1>13. ASSUME NEW A \in SUBSET D, \A B \in SUBSET A : B # A => B \in T PROVE A \in T
  <2>1. CASE A = {}
    BY <2>1, <1>7, <1>11
  <2>2. CASE A # {}
    <3>1. A \ {Max(A)} \in SUBSET A /\ A \ {Max(A)} # A
      BY <2>2, <1>3
    <3>2. A \ {Max(A)} \in T
      BY <3>1, <1>13
    <3> QED BY <2>2, <3>2, <1>8, <1>11
  <2> QED BY <2>1, <2>2
<1>14. SUBSET D \subseteq T
  <2>1. IsFiniteSet(D)
    BY <1>0
  <2> HIDE DEF T
  <2>2. \A A \in SUBSET D : (\A B \in SUBSET A : B # A => B \in T) => A \in T
    BY <1>13
  <2>3. \A E, V : IsFiniteSet(E) /\ (\A A \in SUBSET E : (\A B \in SUBSET A : B # A => B \in V) => A \in V) => SUBSET E \subseteq V
    BY SubsetInduction
  <2> QED BY <2>1, <2>2, <2>3
<1>15. I[D] = g[D]
  BY <1>14
<1> QED BY <1>1, <1>5, <1>12, <1>15 DEF D

(* The more parts, the more bytes. *)
LEMMA SumsGrow ==
  ASSUME NEW m \in Nat, NEW val \in [1..m -> Nat], NEW g, Adds(g, 1..m, val)
  PROVE  /\ g[1..0] = 0
         /\ \A n \in 0..m : g[1..n] \in Nat /\ \A i \in 0..n : g[1..i] <= g[1..n]
<1>1. ASSUME NEW n \in Nat, n < m
      PROVE  g[1..(n + 1)] = val[n + 1] + g[1..n] /\ val[n + 1] \in Nat
  <2>1. 1..(n + 1) \in SUBSET (1..m) /\ n + 1 \in 1..(n + 1) /\ n + 1 \in 1..m
    BY <1>1
  <2>2. (1..(n + 1)) \ {n + 1} = 1..n
    BY <1>1
  <2>3. g[1..(n + 1)] = val[n + 1] + g[(1..(n + 1)) \ {n + 1}]
    BY <2>1, Zenon DEF Adds
  <2> QED BY <2>1, <2>2, <2>3
<1>2. g[1..0] = 0
  <2>1. 1..0 = {} /\ {} \in SUBSET (1..m)
    OBVIOUS
  <2>2. g[{}] = 0
    BY <2>1 DEF Adds
  <2> QED BY <2>1, <2>2
<1> DEFINE T == {n \in Nat : n <= m => g[1..n] \in Nat /\ \A i \in 0..n : g[1..i] \in Nat /\ g[1..i] <= g[1..n]}
<1>3. 0 \in T
  BY <1>2
<1>4. ASSUME NEW n \in Nat, n \in T PROVE n + 1 \in T
  <2> SUFFICES ASSUME n + 1 <= m
               PROVE  g[1..(n + 1)] \in Nat /\ \A i \in 0..(n + 1) : g[1..i] \in Nat /\ g[1..i] <= g[1..(n + 1)]
    OBVIOUS
  <2>1. g[1..n] \in Nat /\ \A i \in 0..n : g[1..i] \in Nat /\ g[1..i] <= g[1..n]
    BY <1>4
  <2>2. g[1..(n + 1)] = val[n + 1] + g[1..n] /\ val[n + 1] \in Nat
    BY <1>1
  <2>3. ASSUME NEW i \in 0..(n + 1) PROVE g[1..i] \in Nat /\ g[1..i] <= g[1..(n + 1)]
    <3>1. CASE i = n + 1
      BY <3>1, <2>1, <2>2
    <3>2. CASE i \in 0..n
      BY <3>2, <2>1, <2>2
    <3> QED BY <3>1, <3>2
  <2> QED BY <2>1, <2>2, <2>3
<1>5. \A n \in Nat : n \in T
  <2> HIDE DEF T
  <2>1. \A n \in Nat : n \in T => n + 1 \in T
    BY <1>4
  <2>2. \A V : 0 \in V /\ (\A n \in Nat : n \in V => n + 1 \in V) => Nat \subseteq V
    BY NatSet
  <2> QED BY <1>3, <2>1, <2>2
<1> QED BY <1>2, <1>5

(* A list of parts is its own first parts. *)
LEMMA FirstSum ==
  \A m \in Nat : \A i \in 1..m : \A s, t, g, h :
    (\A k \in 1..i : t[k] = s[k]) /\ Adds(g, 1..m, s) /\ Adds(h, 1..i, t) => g[1..i] = h[1..i]
<1> SUFFICES ASSUME NEW m \in Nat, NEW i \in 1..m, NEW s, NEW t, \A k \in 1..i : t[k] = s[k],
                    NEW g, NEW h, Adds(g, 1..m, s), Adds(h, 1..i, t)
             PROVE  g[1..i] = h[1..i]
  OBVIOUS
<1>1. 1..i \in SUBSET (1..m) /\ IsFiniteSet(1..i)
  BY FS_Interval
<1>2. ASSUME NEW S, NEW U \in SUBSET S, IsFiniteSet(U), \A x \in U : t[x] = s[x], Adds(g, S, s), Adds(h, U, t)
      PROVE  \A A \in SUBSET U : g[A] = h[A]
  BY <1>2, OneSum
<1> QED BY <1>1, <1>2

(* The first parts have no more bytes than all. *)
LEMMA FirstBytes ==
  ASSUME NEW s \in Seq(Nat)
  PROVE  /\ BytesIn(s) \in Nat
         /\ \A i \in DOMAIN s : BytesIn(SubSeq(s, 1, i)) \in Nat /\ BytesIn(SubSeq(s, 1, i)) <= BytesIn(s)
         /\ \A i \in DOMAIN s : i = Len(s) => BytesIn(SubSeq(s, 1, i)) = BytesIn(s)
         /\ DOMAIN s = {} => BytesIn(s) = 0
<1> DEFINE m == Len(s)
           val == [k \in 1..m |-> s[k]]
<1>1. DOMAIN s = 1..m /\ m \in Nat /\ val \in [1..m -> Nat] /\ s = val
  OBVIOUS
<1>2. PICK g : Adds(g, 1..m, val) /\ BytesIn(s) = g[1..m]
  <2>1. PICK g : Adds(g, 1..m, s) /\ BytesIn(s) = g[1..m]
    BY <1>1, BytesAre
  <2> QED BY <1>1, <2>1
<1>3. g[1..0] = 0 /\ \A n \in 0..m : g[1..n] \in Nat /\ \A i \in 0..n : g[1..i] <= g[1..n]
  <2> HIDE DEF m, val
  <2> QED BY <1>1, <1>2, SumsGrow
<1>4. ASSUME NEW i \in 1..m PROVE BytesIn(SubSeq(s, 1, i)) = g[1..i]
  <2> DEFINE t == SubSeq(s, 1, i)
             own == [k \in 1..i |-> s[k]]
  <2>1. t \in Seq(Nat) /\ DOMAIN t = 1..i /\ t = own
    OBVIOUS
  <2>2. \A k \in 1..i : own[k] = val[k]
    OBVIOUS
  <2> HIDE DEF t, m, own, val
  <2>3. PICK h : Adds(h, 1..i, own) /\ BytesIn(t) = h[1..i]
    BY <2>1, BytesAre
  <2>4. m \in Nat
    BY <1>1
  <2>5. g[1..i] = h[1..i]
    BY <1>2, <2>2, <2>3, <2>4, FirstSum
  <2> QED BY <2>3, <2>5 DEF t
<1> HIDE DEF m, val
<1>5. BytesIn(s) \in Nat
  BY <1>1, <1>2, <1>3
<1>6. \A i \in 1..m : BytesIn(SubSeq(s, 1, i)) \in Nat /\ BytesIn(SubSeq(s, 1, i)) <= BytesIn(s)
  <2>1. \A i \in 1..m : g[1..i] \in Nat /\ g[1..i] <= g[1..m]
    BY <1>1, <1>3
  <2> QED BY <2>1, <1>2, <1>4
<1>7. m \in 1..m => BytesIn(SubSeq(s, 1, m)) = BytesIn(s)
  BY <1>2, <1>4
<1>8. DOMAIN s = {} => BytesIn(s) = 0
  <2>1. DOMAIN s = {} => m = 0
    BY <1>1
  <2> QED BY <2>1, <1>2, <1>3
<1> QED BY <1>1, <1>5, <1>6, <1>7, <1>8 DEF m

(* A reply is read just when it came to its end within the limit. *)
LEMMA ReadIsWhole ==
  ASSUME NEW reply, ReplyData(reply), reply.sent = "sent"
  PROVE  ReadBody(reply, BodyLimit) = "read" <=> WholeBody(reply)
<1> DEFINE s == reply.chunks
           b(i) == BytesIn(SubSeq(s, 1, i))
<1>1. s \in Seq(Nat) /\ reply.declared \subseteq Nat /\ reply.broken \in {"no", "timeout", "network"} /\ BodyLimit \in Nat
  BY LimitAssumption DEF ReplyData
<1>2. DOMAIN s = 1..Len(s) /\ Len(s) \in Nat
  BY <1>1
<1> HIDE DEF s
<1>3. /\ BytesIn(s) \in Nat
      /\ \A i \in DOMAIN s : b(i) \in Nat /\ b(i) <= BytesIn(s)
      /\ \A i \in DOMAIN s : i = Len(s) => b(i) = BytesIn(s)
      /\ DOMAIN s = {} => BytesIn(s) = 0
  BY <1>1, FirstBytes
<1> HIDE DEF b
<1>4. (\E i \in DOMAIN s : b(i) > BodyLimit) <=> ~(BytesIn(s) <= BodyLimit)
  <2>1. CASE Len(s) = 0
    <3>1. DOMAIN s = {}
      BY <2>1, <1>2
    <3> QED BY <3>1, <1>1, <1>3
  <2>2. CASE Len(s) # 0
    <3>1. Len(s) \in DOMAIN s
      BY <2>2, <1>2
    <3>2. b(Len(s)) = BytesIn(s)
      BY <3>1, <1>3
    <3> QED BY <3>1, <3>2, <1>1, <1>3
  <2> QED BY <2>1, <2>2
<1>5. (\E n \in reply.declared : n > BodyLimit) <=> ~(\A n \in reply.declared : n <= BodyLimit)
  BY <1>1
<1>6. ReadBody(reply, BodyLimit) = IF \E n \in reply.declared : n > BodyLimit THEN "too_large"
                                   ELSE IF \E i \in DOMAIN s : b(i) > BodyLimit THEN "too_large"
                                   ELSE IF reply.broken # "no" THEN reply.broken
                                   ELSE "read"
  BY DEF ReadBody, b, s
<1>7. WholeBody(reply) <=> /\ reply.broken = "no" /\ BytesIn(s) <= BodyLimit
                           /\ \A n \in reply.declared : n <= BodyLimit
  BY DEF WholeBody, s
<1> HIDE DEF ReadBody, WholeBody
<1>8. ReadBody(reply, BodyLimit) = "read" => ~(\E n \in reply.declared : n > BodyLimit) /\ ~(\E i \in DOMAIN s : b(i) > BodyLimit) /\ reply.broken = "no"
  BY <1>1, <1>6
<1>9. ~(\E n \in reply.declared : n > BodyLimit) /\ ~(\E i \in DOMAIN s : b(i) > BodyLimit) /\ reply.broken = "no" => ReadBody(reply, BodyLimit) = "read"
  BY <1>6
<1> QED BY <1>4, <1>5, <1>7, <1>8, <1>9

(* The statuses of success. *)
LEMMA StatusIs == ASSUME NEW n \in Nat PROVE n \in Success <=> n \div 100 = 2
  BY DEF Success

-----------------------------------------------------------------------------
(* What a client makes of a reply. *)

(* Only the address of a cover is told without asking anybody. *)
LEMMA OnlyCoverLocal ==
  ASSUME NEW o \in DOMAIN Operations
  PROVE  Operations[o].http <=> o # "maimai_cover_url"
<1> DEFINE groups == {AccountOperations, MaimaiOperations, ChunithmOperations, PublicOperations}
           g == CHOOSE x \in groups : o \in DOMAIN x
<1>1. DOMAIN Operations = UNION {DOMAIN x : x \in groups} /\ Operations[o] = g[o]
  BY DEF Operations
<1> HIDE DEF groups
<1>2. g \in groups /\ o \in DOMAIN g
  <2>1. \E x \in groups : o \in DOMAIN x
    BY <1>1
  <2> QED BY <2>1
<1> HIDE DEF g
<1>3. \A p \in DOMAIN AccountOperations : AccountOperations[p].http /\ p # "maimai_cover_url"
  BY DEF AccountOperations, Operation
<1>4. \A p \in DOMAIN MaimaiOperations : MaimaiOperations[p].http <=> p # "maimai_cover_url"
  BY DEF MaimaiOperations, Operation
<1>5. \A p \in DOMAIN ChunithmOperations : ChunithmOperations[p].http /\ p # "maimai_cover_url"
  BY DEF ChunithmOperations, Operation
<1>6. \A p \in DOMAIN PublicOperations : PublicOperations[p].http /\ p # "maimai_cover_url"
  BY DEF PublicOperations, Operation
<1>7. g \in {AccountOperations, MaimaiOperations, ChunithmOperations, PublicOperations}
  BY <1>2 DEF groups
<1> QED BY <1>1, <1>2, <1>3, <1>4, <1>5, <1>6, <1>7

(* A valid request confirms by name what it changes. *)
LEMMA ValidIsConfirmed ==
  ASSUME NEW r, ValidateRequest(r) = "valid"
  PROVE  Operations[r.operation].mutating => r.confirm = r.operation
<1> SUFFICES ASSUME Operations[r.operation].mutating, r.confirm # r.operation PROVE FALSE
  OBVIOUS
<1> QED BY DEF ValidateRequest, Using

(* The verdict of a refusal. *)
LEMMA Refusals == ASSUME NEW e PROVE Rejected(e).verdict = "refused"
  BY DEF Rejected

(* Diving-Fish is answered from just when a whole reply came with a status of
   success. *)
LEMMA DfReplyIs ==
  ASSUME NEW reply, ReplyData(reply)
  PROVE  /\ DfReply(reply).verdict \in {"refused", "answered"}
         /\ DfReply(reply).verdict = "answered" <=> WholeSuccess(reply)
         /\ DfReply(reply).verdict = "answered" => DfReply(reply).json = reply.json
<1> DEFINE body == ReadBody(reply, BodyLimit)
<1>1. reply.sent = "sent" => (body = "read" <=> WholeBody(reply))
  BY ReadIsWhole
<1>2. reply.status \in Nat
  BY DEF ReplyData
<1>3. reply.status \in Success <=> reply.status \div 100 = 2
  BY <1>2, StatusIs
<1>4. WholeSuccess(reply) <=> WholeBody(reply) /\ reply.status \in Success
  BY <1>3 DEF WholeSuccess
<1>5. WholeBody(reply) => reply.sent = "sent"
  BY DEF WholeBody
<1>6. reply.status \in Success => reply.status \notin Redirects
  BY <1>2 DEF Success, Redirects
<1> DEFINE said == [verdict |-> "answered", status |-> reply.status, json |-> reply.json,
                    plain |-> reply.json = {} /\ reply.chunks # <<>>, login |-> reply.login]
<1>7. DfReply(reply) = IF reply.sent # "sent" THEN Rejected(reply.sent)
                       ELSE IF reply.status \in Redirects THEN Rejected("redirect")
                       ELSE IF body # "read" THEN Rejected(body)
                       ELSE IF reply.status \notin Success THEN Rejected("http")
                       ELSE said
  BY DEF DfReply
<1>8. said.verdict = "answered" /\ said.json = reply.json
  OBVIOUS
<1>9. \A e : Rejected(e).verdict = "refused"
  BY Refusals
<1> HIDE DEF said, body
<1>10. CASE WholeSuccess(reply)
  <2>1. DfReply(reply) = said
    BY <1>10, <1>1, <1>4, <1>5, <1>6, <1>7
  <2> QED BY <2>1, <1>8, <1>10
<1>11. CASE ~WholeSuccess(reply)
  <2>1. \E e : DfReply(reply) = Rejected(e)
    BY <1>11, <1>1, <1>4, <1>5, <1>6, <1>7
  <2> QED BY <2>1, <1>9, <1>11
<1> QED BY <1>10, <1>11

(* An operation of Diving-Fish is answered from the whole reply, and confirmed. *)
LEMMA OperationHolds ==
  ASSUME question.tool = "operation", WellReplied(question), answer = Execute(question.request, question.reply)
  PROVE  OperationWhole
<1> DEFINE r == question.request
           reply == question.reply
           valid == ValidateRequest(r) = "valid"
           local == r.operation = "maimai_cover_url"
<1>1. r.operation \in DOMAIN Operations /\ ReplyData(reply)
  BY DEF WellReplied
<1>2. Operations[r.operation].http <=> ~local
  BY <1>1, OnlyCoverLocal
<1>3. valid => (Operations[r.operation].mutating => r.confirm = r.operation)
  BY ValidIsConfirmed
<1>4. /\ DfReply(reply).verdict \in {"refused", "answered"}
      /\ DfReply(reply).verdict = "answered" <=> WholeSuccess(reply)
      /\ DfReply(reply).verdict = "answered" => DfReply(reply).json = reply.json
  BY <1>1, DfReplyIs
<1>5. \A e : Rejected(e).verdict = "refused"
  BY Refusals
<1>6. /\ ~valid => answer = Rejected(ValidateRequest(r))
      /\ valid /\ local => answer = CoverUrl(r.coverId)
      /\ valid /\ ~local /\ ~Sendable(r) => answer = Rejected("invalid_request")
      /\ valid /\ ~local /\ Sendable(r) => answer = DfReply(reply)
  BY <1>2 DEF Execute
<1> HIDE DEF r, reply, valid, local
<1>7. answer.verdict = "answered" =>
        /\ Operations[r.operation].mutating => r.confirm = r.operation
        /\ local \/ (WholeSuccess(reply) /\ answer.json = reply.json)
  BY <1>3, <1>4, <1>5, <1>6
<1>8. valid /\ Sendable(r) /\ ~local => (answer.verdict = "answered" <=> WholeSuccess(reply))
  BY <1>4, <1>6
<1> QED BY <1>7, <1>8 DEF OperationWhole, r, reply, valid, local

(* A set of at most one. *)
LEMMA AtMostOne ==
  ASSUME NEW S, IsFiniteSet(S), Cardinality(S) <= 1, NEW x \in S
  PROVE  S = {x}
<1>1. Cardinality(S) \in Nat
  BY FS_CardinalityType
<1>2. Cardinality(S) # 0
  BY FS_EmptySet
<1>3. Cardinality(S) = 1
  BY <1>1, <1>2
<1> QED BY <1>3, FS_Singleton

(* A body that does not say no has no field that does. *)
LEMMA NotSaid ==
  ASSUME NEW v, Nodes(v), IsObject(v), Reads(v, {"success"}, {"bool"}), Reads(v, {"error"}, {"text"}), ~SaysNo(v)
  PROVE  Flag(FALSE) \notin FieldOf(v, {"success"}) /\ \A t \in FieldOf(v, {"error"}) : t = Null
<1>1. FieldOf(v, {"success"}) # {Flag(FALSE)} /\ TextsOf(v, {"error"}) = {}
  BY DEF SaysNo
<1>2. Flag(FALSE) \notin FieldOf(v, {"success"})
  <2> SUFFICES ASSUME Flag(FALSE) \in FieldOf(v, {"success"}) PROVE FALSE
    OBVIOUS
  <2> DEFINE F == {f \in v.fields : f[1] \in {"success"}}
  <2>1. FieldOf(v, {"success"}) = {f[2] : f \in F}
    BY DEF FieldOf
  <2>2. IsFiniteSet(F) /\ Cardinality(F) <= 1
    <3>1. IsFiniteSet(v.fields)
      BY DEF Nodes, Node
    <3>2. F \in SUBSET v.fields
      OBVIOUS
    <3>3. IsFiniteSet(F)
      <4> HIDE DEF F
      <4> QED BY <3>1, <3>2, FS_Subset
    <3> QED BY <3>3 DEF Reads
  <2> HIDE DEF F
  <2>3. PICK f \in F : f[2] = Flag(FALSE)
    BY <2>1
  <2>4. F = {f}
    BY <2>2, <2>3, AtMostOne
  <2>5. FieldOf(v, {"success"}) = {Flag(FALSE)}
    BY <2>1, <2>3, <2>4
  <2> QED BY <1>1, <2>5
<1>3. ASSUME NEW t \in FieldOf(v, {"error"}) PROVE t = Null
  <2>1. t.is \in {"text", "null"}
    BY DEF Reads
  <2>2. t.is = "null"
    BY <1>1, <2>1 DEF TextsOf, Value
  <2>3. PICK f \in v.fields : t = f[2]
    BY DEF FieldOf
  <2> QED BY <2>2, <2>3 DEF Nodes, Node
<1> QED BY <1>2, <1>3

(* Tokens come of a whole reply that does not say no, and are new. *)
LEMMA TokensHold ==
  ASSUME question.tool = "tokens", WellReplied(question), answer = RequestTokensWith(question.request, question.reply)
  PROVE  TokensWhole
<1> DEFINE r == question.request
           reply == question.reply
           body == ReadBody(reply, BodyLimit)
           said == {v \in reply.json : SaysNo(v)}
           w == CHOOSE v \in reply.json : TRUE
           new == NewTokens(w, r)
<1> SUFFICES ASSUME answer.verdict = "tokens"
             PROVE  /\ WholeSuccess(reply)
                    /\ answer.access # <<>> /\ answer.refresh # <<>>
                    /\ r.grant = "refresh_token" => answer.refresh # r.secret.value
                    /\ \A v \in reply.json : IsObject(v) /\ Reads(v, {"success"}, {"bool"}) /\ Reads(v, {"error"}, {"text"}) =>
                         Flag(FALSE) \notin FieldOf(v, {"success"}) /\ \A t \in FieldOf(v, {"error"}) : t = Null
  BY DEF TokensWhole
<1>1. ReplyData(reply)
  BY DEF WellReplied
<1>2. reply.status \in Nat /\ \A v \in reply.json : Nodes(v) /\ reply.json = {v}
  BY <1>1 DEF ReplyData
<1>3. \A e : Rejected(e).verdict = "refused"
  BY Refusals
<1>4. (\E e : answer = Rejected(e)) \/
      (reply.sent = "sent" /\ body = "read" /\ reply.status \in Success /\ said = {} /\ reply.json # {} /\ answer = new)
  BY DEF RequestTokensWith
<1>5. reply.sent = "sent" /\ body = "read" /\ reply.status \in Success /\ said = {} /\ reply.json # {} /\ answer = new
  <2> HIDE DEF said, body, new, reply
  <2> QED BY <1>3, <1>4
<1>6. WholeSuccess(reply)
  <2>1. WholeBody(reply)
    BY <1>1, <1>5, ReadIsWhole
  <2>2. reply.status \div 100 = 2
    BY <1>2, <1>5, StatusIs
  <2> QED BY <2>1, <2>2 DEF WholeSuccess
<1>7. \A v \in reply.json : Nodes(v) /\ ~SaysNo(v)
  BY <1>2, <1>5
<1>8. answer.access # <<>> /\ answer.refresh # <<>> /\ (r.grant = "refresh_token" => answer.refresh # r.secret.value)
  <2> HIDE DEF w, r
  <2> DEFINE u == CHOOSE x \in TokenOf(w) : TRUE
             access == CHOOSE t \in TextsOf(u, Access) : TRUE
             refresh == CHOOSE t \in TextsOf(u, RefreshWith) : TRUE
             told == [verdict |-> "tokens", access |-> access, refresh |-> refresh,
                    kind |-> NonBlank(TextsOf(u, {"token_type", "tokenType"})),
                    scope |-> NonBlank(TextsOf(u, {"scope"})),
                    expires |-> {x.number : x \in Value(u, {"expires_in", "expiresIn"})} \ {0}]
  <2>1. new = IF TokenOf(w) = {} \/ access = <<>> \/ refresh = <<>> THEN Rejected("invalid_token_response")
              ELSE IF r.grant = "refresh_token" /\ refresh = r.secret.value THEN Rejected("refresh_token_not_rotated")
              ELSE told
    BY DEF NewTokens
  <2>2. told.access = access /\ told.refresh = refresh
    OBVIOUS
  <2> HIDE DEF told, access, refresh, new
  <2>3. answer = told /\ access # <<>> /\ refresh # <<>> /\ ~(r.grant = "refresh_token" /\ refresh = r.secret.value)
    BY <2>1, <1>3, <1>5
  <2> QED BY <2>2, <2>3
<1>9. \A v \in reply.json : IsObject(v) /\ Reads(v, {"success"}, {"bool"}) /\ Reads(v, {"error"}, {"text"}) =>
        Flag(FALSE) \notin FieldOf(v, {"success"}) /\ \A t \in FieldOf(v, {"error"}) : t = Null
  BY <1>7, NotSaid
<1> QED BY <1>6, <1>8, <1>9

-----------------------------------------------------------------------------
(* The lists that NapCat replies with. *)

(* A list that is told place by place. *)
LEMMA LengthIs ==
  ASSUME NEW n \in Nat, NEW e, e = [i \in 1..n |-> e[i]]
  PROVE  Len(e) = n /\ ToSet(e) = {e[i] : i \in 1..n}
<1>1. e \in Seq({e[i] : i \in 1..n})
  OBVIOUS
<1> QED BY <1>1 DEF ToSet

(* The array that a list is read from. *)
ListedIn(v, u) == \/ v.is = "array" /\ u = v
                  \/ v.is # "array" /\ IsObject(v) /\ u \in Value(v, {"data"})

(* The entries of a list, one of each of its items. *)
LEMMA EntriesAre ==
  ASSUME NEW list, NEW v
  PROVE  /\ Entries(list, v).verdict \in {"refused", "listed"}
         /\ Entries(list, v).verdict = "listed" =>
              /\ v.is = "array" /\ \A i \in DOMAIN v.items : ReadableMember(list, v.items[i])
              /\ Entries(list, v) = [verdict |-> "listed", entries |-> [i \in DOMAIN v.items |-> MemberEntry(v.items[i])]]
<1>1. \A e : Rejected(e).verdict = "refused"
  BY Refusals
<1> DEFINE ok == ListOf(v, LAMBDA x : ReadableMember(list, x))
           es == [i \in DOMAIN v.items |-> MemberEntry(v.items[i])]
<1>2. Entries(list, v) = IF ok THEN [verdict |-> "listed", entries |-> es] ELSE Rejected("invalid_response")
  BY DEF Entries
<1>3. ok => v.is = "array" /\ \A i \in DOMAIN v.items : ReadableMember(list, v.items[i])
  BY DEF ListOf
<1> HIDE DEF ok, es
<1>4. Entries(list, v).verdict \in {"refused", "listed"}
      /\ (Entries(list, v).verdict = "listed" => ok /\ Entries(list, v) = [verdict |-> "listed", entries |-> es])
  BY <1>1, <1>2
<1> QED BY <1>3, <1>4 DEF es

(* A list is read from an array or from the data of an envelope. *)
LEMMA ListReplyIs ==
  ASSUME NEW list, NEW v
  PROVE  /\ ListReply(list, v).verdict \in {"refused", "listed"}
         /\ ListReply(list, v).verdict = "listed" =>
              \E u : ListedIn(v, u) /\ ListReply(list, v) = Entries(list, u)
<1>1. \A e : Rejected(e).verdict = "refused"
  BY Refusals
<1> DEFINE u == CHOOSE x \in Value(v, {"data"}) : TRUE
<1>2. CASE v.is = "array"
  <2>1. ListReply(list, v) = Entries(list, v)
    BY <1>2 DEF ListReply
  <2>2. ListedIn(v, v)
    BY <1>2 DEF ListedIn
  <2>3. Entries(list, v).verdict \in {"refused", "listed"}
    BY EntriesAre
  <2> QED BY <2>1, <2>2, <2>3
<1>3. CASE v.is # "array"
  <2>1. (\E e : ListReply(list, v) = Rejected(e)) \/
        (IsEnvelope(v) /\ Value(v, {"data"}) # {} /\ ListReply(list, v) = Entries(list, u))
    BY <1>3 DEF ListReply
  <2>2. CASE \E e : ListReply(list, v) = Rejected(e)
    BY <2>2, <1>1
  <2>3. CASE IsEnvelope(v) /\ Value(v, {"data"}) # {} /\ ListReply(list, v) = Entries(list, u)
    <3>1. u \in Value(v, {"data"}) /\ IsObject(v)
      BY <2>3 DEF IsEnvelope
    <3>2. ListedIn(v, u)
      BY <3>1, <1>3 DEF ListedIn
    <3> HIDE DEF u
    <3>3. Entries(list, u).verdict \in {"refused", "listed"}
      BY EntriesAre
    <3> QED BY <2>3, <3>2, <3>3
  <2> QED BY <2>1, <2>2, <2>3
<1> QED BY <1>2, <1>3

(* A list is told of a whole reply, every item of which can be read. *)
LEMMA PostListIs ==
  ASSUME NEW list, NEW reply, ReplyData(reply), NamedOnce(reply)
  PROVE  /\ PostList(list, reply).verdict \in {"refused", "listed"}
         /\ PostList(list, reply).verdict = "listed" =>
              /\ WholeSuccess(reply)
              /\ \E s : /\ s \in Seq(ToSet(s)) /\ \A v \in reply.json : ItemsOf(v) = s
                        /\ \A i \in DOMAIN s : ReadableMember(list, s[i])
                        /\ PostList(list, reply) = [verdict |-> "listed", entries |-> [i \in DOMAIN s |-> MemberEntry(s[i])]]
<1> DEFINE body == ReadBody(reply, BodyLimit)
           v == CHOOSE x \in reply.json : TRUE
           told == ListReply(list, v)
<1>1. \A e : Rejected(e).verdict = "refused"
  BY Refusals
<1>2. (\E e : PostList(list, reply) = Rejected(e)) \/
      (reply.sent = "sent" /\ body = "read" /\ reply.status \in Success /\ reply.json # {} /\ PostList(list, reply) = told)
  BY DEF PostList
<1>3. told.verdict \in {"refused", "listed"} /\ (told.verdict = "listed" => \E u : ListedIn(v, u) /\ told = Entries(list, u))
  <2> HIDE DEF v
  <2> QED BY ListReplyIs
<1>4. PostList(list, reply).verdict \in {"refused", "listed"}
  <2> HIDE DEF told, body
  <2> QED BY <1>1, <1>2, <1>3
<1> SUFFICES ASSUME PostList(list, reply).verdict = "listed"
             PROVE  /\ WholeSuccess(reply)
                    /\ \E s : /\ s \in Seq(ToSet(s)) /\ \A x \in reply.json : ItemsOf(x) = s
                              /\ \A i \in DOMAIN s : ReadableMember(list, s[i])
                              /\ PostList(list, reply) = [verdict |-> "listed", entries |-> [i \in DOMAIN s |-> MemberEntry(s[i])]]
  BY <1>4
<1>5. reply.sent = "sent" /\ body = "read" /\ reply.status \in Success /\ reply.json # {} /\ PostList(list, reply) = told
  <2> HIDE DEF told, body
  <2> QED BY <1>1, <1>2
<1>6. WholeSuccess(reply)
  <2>1. WholeBody(reply)
    BY <1>5, ReadIsWhole
  <2>2. reply.status \in Nat
    BY DEF ReplyData
  <2>3. reply.status \div 100 = 2
    BY <2>2, <1>5, StatusIs
  <2> QED BY <2>1, <2>3 DEF WholeSuccess
<1>7. v \in reply.json /\ reply.json = {v} /\ Nodes(v) /\ (IsObject(v) => \A f, g \in v.fields : f[1] = g[1] => f = g)
  BY <1>5 DEF ReplyData, NamedOnce
<1>8. PICK u : ListedIn(v, u) /\ told = Entries(list, u)
  BY <1>3, <1>5
<1> HIDE DEF v
<1>9. Entries(list, u).verdict = "listed"
  BY <1>5, <1>8
<1>10. /\ u.is = "array" /\ \A i \in DOMAIN u.items : ReadableMember(list, u.items[i])
       /\ Entries(list, u) = [verdict |-> "listed", entries |-> [i \in DOMAIN u.items |-> MemberEntry(u.items[i])]]
  BY <1>9, EntriesAre
<1>11. Node(u) /\ ItemsOf(v) = u.items
  <2>1. CASE v.is = "array" /\ u = v
    BY <2>1, <1>7 DEF Nodes, ItemsOf
  <2>2. CASE v.is # "array" /\ IsObject(v) /\ u \in Value(v, {"data"})
    <3>1. PICK f \in v.fields : f[1] = "data" /\ u = f[2]
      BY <2>2 DEF Value, FieldOf
    <3>2. FieldOf(v, {"data"}) = {u}
      BY <2>2, <3>1, <1>7 DEF FieldOf
    <3>3. ItemsOf(v) = u.items
      BY <2>2, <3>2 DEF ItemsOf
    <3> QED BY <2>2, <3>1, <3>3, <1>7 DEF Nodes
  <2> QED BY <1>8, <2>1, <2>2 DEF ListedIn
<1>12. u.items \in Seq(ToSet(u.items))
  BY <1>10, <1>11 DEF Node
<1> DEFINE s == u.items
<1>13. \A x \in reply.json : ItemsOf(x) = s
  BY <1>7, <1>11
<1>14. PostList(list, reply) = [verdict |-> "listed", entries |-> [i \in DOMAIN s |-> MemberEntry(s[i])]]
  BY <1>5, <1>8, <1>10
<1> QED BY <1>6, <1>10, <1>12, <1>13, <1>14

(* The list of friends or groups is of a whole reply. *)
LEMMA AccountsHold ==
  ASSUME question.tool = "accounts", WellReplied(question), answer = PostList(question.list, question.reply)
  PROVE  ListWhole
<1> DEFINE list == question.list
           reply == question.reply
<1> SUFFICES ASSUME answer.verdict = "listed"
             PROVE  WholeSuccess(reply) /\ \A v \in reply.json : Len(answer.entries) = Len(ItemsOf(v))
  BY DEF ListWhole
<1>1. ReplyData(reply) /\ NamedOnce(reply)
  BY DEF WellReplied
<1> HIDE DEF list, reply
<1>2. answer = PostList(list, reply)
  BY DEF list, reply
<1>3. WholeSuccess(reply)
  BY <1>1, <1>2, PostListIs
<1>4. PICK s : /\ s \in Seq(ToSet(s)) /\ \A v \in reply.json : ItemsOf(v) = s
               /\ answer = [verdict |-> "listed", entries |-> [i \in DOMAIN s |-> MemberEntry(s[i])]]
  BY <1>1, <1>2, PostListIs
<1> DEFINE e == answer.entries
<1>5. Len(s) \in Nat /\ DOMAIN s = 1..Len(s)
  BY <1>4
<1>6. e = [i \in 1..Len(s) |-> MemberEntry(s[i])]
  BY <1>4, <1>5
<1>7. e = [i \in 1..Len(s) |-> e[i]]
  BY <1>6
<1> HIDE DEF e
<1>8. Len(e) = Len(s)
  BY <1>5, <1>7, LengthIs
<1> QED BY <1>3, <1>4, <1>8 DEF e

(* Who can be read has a number. *)
LEMMA ReadableUser ==
  ASSUME NEW v, HasUser(v)
  PROVE  IdsOf(v, UserNames) # {}
<1> DEFINE F == {f \in v.fields : f[1] \in UserNames}
<1>1. IsObject(v) /\ Cardinality(F) = 1 /\ \A x \in FieldOf(v, UserNames) : x.is \in IdKinds /\ CleanId(x) # {}
  BY DEF HasUser, Needs
<1>2. F # {}
  BY <1>1, FS_EmptySet
<1>3. PICK f \in F : TRUE
  BY <1>2
<1>4. f[2] \in FieldOf(v, UserNames)
  BY <1>1, <1>3 DEF FieldOf
<1>5. f[2] \in Value(v, UserNames) /\ CleanId(f[2]) # {}
  BY <1>1, <1>4 DEF Value, IdKinds
<1> QED BY <1>5 DEF IdsOf

(* The list of the members of a group is of that group, and of a whole reply. *)
LEMMA GroupHolds ==
  ASSUME question.tool = "group_members", WellReplied(question), answer = GroupMembers(question.group, question.reply)
  PROVE  ListWhole
<1> DEFINE asked == Trim(question.group)
           reply == question.reply
           listed == PostList("members", reply)
           own(m) == IF m.group = {} THEN [m EXCEPT !.group = {asked}] ELSE m
           all == [i \in DOMAIN listed.entries |-> own(listed.entries[i])]
<1> SUFFICES ASSUME answer.verdict = "listed"
             PROVE  /\ WholeSuccess(reply)
                    /\ \A v \in reply.json : Len(answer.entries) = Len(ItemsOf(v))
                    /\ \A e \in ToSet(answer.entries) : e.group = {asked} /\ e.user # {}
  BY DEF ListWhole
<1>1. ReplyData(reply) /\ NamedOnce(reply)
  BY DEF WellReplied
<1>2. \A e : Rejected(e).verdict = "refused"
  BY Refusals
<1>3. (\E e : answer = Rejected(e)) \/ (listed.verdict = "refused" /\ answer = listed) \/
      (/\ listed.verdict # "refused" /\ \A i \in DOMAIN listed.entries : listed.entries[i].group \in {{}, {asked}}
       /\ answer = [listed EXCEPT !.entries = all])
  BY DEF GroupMembers, Using
<1> HIDE DEF listed, reply
<1>4. /\ listed.verdict # "refused" /\ \A i \in DOMAIN listed.entries : listed.entries[i].group \in {{}, {asked}}
      /\ answer = [listed EXCEPT !.entries = all]
  <2> HIDE DEF asked, all
  <2> QED BY <1>2, <1>3
<1>5. /\ listed.verdict \in {"refused", "listed"}
      /\ listed.verdict = "listed" =>
              /\ WholeSuccess(reply)
              /\ \E s : /\ s \in Seq(ToSet(s)) /\ \A v \in reply.json : ItemsOf(v) = s
                        /\ \A i \in DOMAIN s : ReadableMember("members", s[i])
                        /\ listed = [verdict |-> "listed", entries |-> [i \in DOMAIN s |-> MemberEntry(s[i])]]
  BY <1>1, PostListIs DEF listed
<1>6. WholeSuccess(reply)
  BY <1>4, <1>5
<1>7. PICK s : /\ s \in Seq(ToSet(s)) /\ \A v \in reply.json : ItemsOf(v) = s
               /\ \A i \in DOMAIN s : ReadableMember("members", s[i])
               /\ listed = [verdict |-> "listed", entries |-> [i \in DOMAIN s |-> MemberEntry(s[i])]]
  BY <1>4, <1>5
<1> DEFINE e == answer.entries
           n == Len(s)
<1>8. n \in Nat /\ DOMAIN s = 1..n
  BY <1>7
<1>9. listed.entries = [i \in 1..n |-> MemberEntry(s[i])]
  BY <1>7, <1>8
<1>10. e = all
  <2> HIDE DEF all
  <2> QED BY <1>4, <1>7
<1> HIDE DEF e, n
<1>11. e = [i \in 1..n |-> own(MemberEntry(s[i]))]
  BY <1>9, <1>10
<1>12. e = [i \in 1..n |-> e[i]]
  BY <1>11
<1>13. Len(e) = n /\ ToSet(e) = {e[i] : i \in 1..n}
  BY <1>8, <1>12, LengthIs
<1>14. ASSUME NEW i \in 1..n PROVE e[i].group = {asked} /\ e[i].user # {}
  <2> DEFINE m == MemberEntry(s[i])
  <2>1. m.group \in {{}, {asked}}
    BY <1>4, <1>9
  <2>2. m.user # {}
    <3>1. HasUser(s[i])
      BY <1>7, <1>8 DEF ReadableMember
    <3>2. m.user = IdsOf(s[i], UserNames)
      BY DEF MemberEntry
    <3> QED BY <3>1, <3>2, ReadableUser
  <2>3. e[i] = own(m)
    BY <1>11
  <2>4. CASE m.group = {}
    <3>1. e[i] = [m EXCEPT !.group = {asked}]
      BY <2>3, <2>4
    <3>2. e[i].group = {asked} /\ e[i].user = m.user
      BY <3>1 DEF MemberEntry
    <3> QED BY <3>2, <2>2
  <2>5. CASE m.group = {asked}
    <3>1. e[i] = m
      BY <2>3, <2>5
    <3> QED BY <3>1, <2>2, <2>5
  <2> QED BY <2>1, <2>4, <2>5
<1>15. \A v \in reply.json : Len(e) = Len(ItemsOf(v))
  BY <1>7, <1>13 DEF n
<1>16. \A x \in ToSet(e) : x.group = {asked} /\ x.user # {}
  <2> HIDE DEF asked
  <2> QED BY <1>13, <1>14
<1> QED BY <1>6, <1>15, <1>16 DEF e

-----------------------------------------------------------------------------
(* The documents of a source. *)

(* What a reply of a source is taken for. *)
LEMMA SourceReplyIs ==
  ASSUME NEW endpoint, NEW reply, ReplyData(reply)
  PROVE  /\ SourceReply(endpoint, reply).verdict \in {"refused", "not_modified", "updated"}
         /\ SourceReply(endpoint, reply).verdict = "not_modified" => reply.status = 304
         /\ SourceReply(endpoint, reply).verdict = "updated" =>
              WholeSuccess(reply) /\ SourceReply(endpoint, reply).json = reply.json
         /\ WholeSuccess(reply) /\ reply.type = "json" /\ reply.etag = {} => SourceReply(endpoint, reply).verdict = "updated"
<1> DEFINE body == ReadBody(reply, BodyLimit)
           said == SourceReply(endpoint, reply)
           same == [verdict |-> "not_modified", etag |-> ReplyTags(reply)]
           new == [verdict |-> "updated", etag |-> ReplyTags(reply), json |-> reply.json]
           clean == \A t \in reply.etag : ValidTag(t)
           typed == reply.type \in AllowedTypes(endpoint)
<1>1. \A e : Rejected(e).verdict = "refused"
  BY Refusals
<1>2. reply.sent = "sent" => (body = "read" <=> WholeBody(reply))
  BY ReadIsWhole
<1>3. reply.status \in Nat
  BY DEF ReplyData
<1>4. reply.status \in Success <=> reply.status \div 100 = 2
  BY <1>3, StatusIs
<1>5. WholeSuccess(reply) <=> WholeBody(reply) /\ reply.status \in Success
  BY <1>4 DEF WholeSuccess
<1>6. WholeBody(reply) => reply.sent = "sent"
  BY DEF WholeBody
<1>7. reply.status \in Success => reply.status \notin Redirects /\ reply.status # 304
  BY <1>3 DEF Success, Redirects
<1>8. said = IF reply.sent # "sent" THEN Rejected(reply.sent)
             ELSE IF ~clean THEN Rejected("invalid_response_header")
             ELSE IF reply.status = 304 THEN same
             ELSE IF reply.status \in Redirects THEN Rejected("redirect")
             ELSE IF reply.status \notin Success THEN Rejected("http_status")
             ELSE IF ~typed THEN Rejected("invalid_content_type")
             ELSE IF body # "read" THEN Rejected(body)
             ELSE new
  BY DEF SourceReply
<1>9. same.verdict = "not_modified" /\ new.verdict = "updated" /\ new.json = reply.json
  OBVIOUS
<1>10. reply.type = "json" => typed
  BY DEF AllowedTypes
<1>11. reply.etag = {} => clean
  OBVIOUS
<1> HIDE DEF body, said, same, new, clean, typed
<1>12. \/ \E e : said = Rejected(e)
       \/ said = same /\ reply.status = 304
       \/ said = new /\ reply.sent = "sent" /\ body = "read" /\ reply.status \in Success
  BY <1>8
<1>13. WholeSuccess(reply) /\ clean /\ typed => said = new
  BY <1>2, <1>5, <1>6, <1>7, <1>8
<1>14. /\ said.verdict \in {"refused", "not_modified", "updated"}
       /\ said.verdict = "not_modified" => reply.status = 304
       /\ said.verdict = "updated" => WholeSuccess(reply) /\ said.json = reply.json
  BY <1>1, <1>2, <1>5, <1>9, <1>12
<1>15. WholeSuccess(reply) /\ reply.type = "json" /\ reply.etag = {} => said.verdict = "updated"
  BY <1>9, <1>10, <1>11, <1>13
<1> QED BY <1>14, <1>15 DEF said

(* What is counted of a document that is an array. *)
LEMMA ArrayCounts ==
  ASSUME NEW v, v.is = "array"
  PROVE  /\ \A target \in {"LxnsSongList", "LxnsAliasList", "DivingFishSongList", "DxRatingAliases", "YuzuAliasList"} :
              RecordCount(target, v) = {<<Len(v.items)>>}
         /\ \A target \in {"DxData", "DivingFishChartStats", "DxRatingTags", "Plate"} : RecordCount(target, v) = {}
<1>1. Count(v) = {<<Len(v.items)>>}
  BY DEF Count
<1>2. \A names : FieldOf(v, names) = {}
  BY DEF FieldOf, IsObject
<1>3. \A name : CountIn(v, name) = {}
  BY <1>2 DEF CountIn
<1>4. EnvelopeCount(v) = Count(v)
  <2> DEFINE sets == <<Count(v), CountIn(v, "content"), CountIn(v, "songs"), CountIn(v, "aliases")>>
             held == {i \in DOMAIN sets : sets[i] # {}}
  <2>1. DOMAIN sets = 1..4 /\ sets[1] = Count(v) /\ sets[2] = {} /\ sets[3] = {} /\ sets[4] = {}
    BY <1>3
  <2>2. EnvelopeCount(v) = FirstNonEmpty(sets)
    BY DEF EnvelopeCount
  <2> HIDE DEF sets
  <2>3. Count(v) # {}
    BY <1>1
  <2>4. held = {1}
    BY <2>1, <2>3
  <2>5. FirstNonEmpty(sets) = sets[Min(held)]
    BY <2>4 DEF FirstNonEmpty
  <2>6. Min({1}) = 1
    BY DEF Min
  <2> QED BY <2>1, <2>2, <2>4, <2>5, <2>6
<1>5. YuzuCount(v) = Count(v)
  BY DEF YuzuCount
<1>6. StatsCount(v) = {}
  <2>1. {x \in FieldOf(v, {"charts"}) : IsObject(x)} = {}
    BY <1>2
  <2> QED BY <2>1 DEF StatsCount
<1>7. TagsCount(v) = {}
  BY <1>2 DEF TagsCount
<1>8. PlateCount(v) = {}
  BY DEF PlateCount, IsObject
<1>9. ASSUME NEW target \in {"LxnsSongList", "LxnsAliasList", "DivingFishSongList", "DxRatingAliases", "YuzuAliasList"}
      PROVE  RecordCount(target, v) = Count(v)
  BY <1>4, <1>5, <1>9 DEF RecordCount
<1>10. ASSUME NEW target \in {"DxData", "DivingFishChartStats", "DxRatingTags", "Plate"}
       PROVE  RecordCount(target, v) = {}
  BY <1>3, <1>6, <1>7, <1>8, <1>10 DEF RecordCount
<1> QED BY <1>1, <1>9, <1>10

(* What the documents are for. *)
Purposes == {"LxnsSongList", "LxnsAliasList", "DivingFishSongList", "DxRatingAliases", "YuzuAliasList",
            "DxData", "DivingFishChartStats", "DxRatingTags", "Plate", "Location"}
(* The parts of a source. *)
LEMMA PartsAre ==
  ASSUME NEW source \in DOMAIN SourceParts
  PROVE  /\ Len(SourceParts[source]) \in 1..2 /\ DOMAIN SourceParts[source] = 1..Len(SourceParts[source])
         /\ \A i \in DOMAIN SourceParts[source] :
              /\ SourceParts[source][i] \in ToSet(SourceParts[source])
              /\ SourceParts[source][i][2] \in Purposes
              /\ source # "dxdata" => SourceParts[source][i][2] # "DxData" /\ SourceParts[source][i][1] # "dxdata_proxy"
              /\ source = "dxdata" => SourceParts[source][i] = <<"dxdata_proxy", "DxData">>
         /\ source = "divingfish" => Len(SourceParts[source]) = 1 /\ SourceParts[source][1][1] = "divingfish_music"
  BY DEF SourceParts, Purposes, ToSet

(* What a bundle tells of the replies it was put together from. *)
Assembled(source, replies, said) ==
  LET parts == SourceParts[source]
  IN /\ said.verdict = "updated" =>
          /\ Len(said.documents) = Len(parts)
          /\ \A i \in DOMAIN parts :
               /\ WholeSuccess(replies[parts[i][1]])
               /\ said.documents[i].target = parts[i][2]
               /\ replies[parts[i][1]].json = {said.documents[i].json}
               /\ \A v \in replies[parts[i][1]].json : v.is = "array" /\ parts[i][2] # "Location" =>
                    said.documents[i].counts = <<Len(said.documents[i].json.items)>>
     /\ said.verdict = "not_modified" => source = "divingfish" /\ replies["divingfish_music"].status = 304
     /\ (source # "dxdata" /\ \A i \in DOMAIN parts :
           LET reply == replies[parts[i][1]]
           IN /\ WholeSuccess(reply) /\ reply.type = "json" /\ reply.etag = {}
              /\ \E v \in reply.json : v.is = "array" /\ parts[i][2] # "Location"
              /\ parts[i][2] \notin {"DivingFishChartStats", "DxRatingTags", "Plate"}) => said.verdict = "updated"

(* A bundle is put together from the whole replies of all its parts. *)
LEMMA AssembleIs ==
  ASSUME NEW source \in DOMAIN SourceParts, NEW etag, NEW replies, NEW said, said = AssembleBundle(source, etag, replies),
         \A i \in DOMAIN SourceParts[source] : ReplyData(replies[SourceParts[source][i][1]])
  PROVE  Assembled(source, replies, said)
<1> DEFINE parts == SourceParts[source]
           got == [i \in DOMAIN parts |-> SourceReply(parts[i][1], replies[parts[i][1]])]
           failed == {i \in DOMAIN got : \/ got[i].verdict = "refused"
                                         \/ got[i].verdict = "not_modified" /\ source # "divingfish"}
           counted(i) == UNION {RecordCount(parts[i][2], v) : v \in got[i].json}
           bad == {i \in DOMAIN got : counted(i) = {}}
           same == Bundle("not_modified", <<>>, IF got[1].etag # {} THEN got[1].etag ELSE etag)
           docs == [i \in DOMAIN parts |-> [target |-> parts[i][2], json |-> CHOOSE v \in got[i].json : TRUE,
                                            counts |-> CHOOSE c \in counted(i) : TRUE]]
           new == Bundle("updated", docs, IF source = "divingfish" THEN got[1].etag ELSE NoTags)
<1>0. \A i \in DOMAIN parts : ReplyData(replies[parts[i][1]])
  OBVIOUS
<1>1. /\ Len(parts) \in 1..2 /\ DOMAIN parts = 1..Len(parts)
      /\ \A i \in DOMAIN parts : parts[i][2] \in Purposes /\ (source # "dxdata" => parts[i][2] # "DxData")
      /\ source = "divingfish" => Len(parts) = 1 /\ parts[1][1] = "divingfish_music"
  BY PartsAre
<1>2. \A e : Rejected(e).verdict = "refused"
  BY Refusals
<1>3. said = IF failed # {} THEN LET r == got[Min(failed)]
                                 IN IF r.verdict = "refused" THEN r ELSE Rejected("http_status")
             ELSE IF got[1].verdict = "not_modified" THEN same
             ELSE IF bad # {} THEN Rejected(IF got[Min(bad)].json = {} THEN "invalid_json" ELSE "invalid_shape")
             ELSE new
  BY Zenon DEF AssembleBundle, Using
<1>4. ASSUME NEW i \in DOMAIN parts
      PROVE  LET reply == replies[parts[i][1]]
             IN /\ got[i].verdict \in {"refused", "not_modified", "updated"}
                /\ got[i].verdict = "not_modified" => reply.status = 304
                /\ got[i].verdict = "updated" => WholeSuccess(reply) /\ got[i].json = reply.json
                /\ WholeSuccess(reply) /\ reply.type = "json" /\ reply.etag = {} => got[i].verdict = "updated"
  <2>1. got[i] = SourceReply(parts[i][1], replies[parts[i][1]])
    OBVIOUS
  <2> HIDE DEF got
  <2> QED BY <1>0, <2>1, SourceReplyIs
<1>5. same.verdict = "not_modified" /\ new.verdict = "updated" /\ new.documents = docs /\ DOMAIN got = DOMAIN parts
  BY DEF Bundle
<1> HIDE DEF parts, got, same, new
<1>6. \/ said.verdict = "refused"
      \/ said = same /\ failed = {} /\ got[1].verdict = "not_modified"
      \/ said = new /\ failed = {} /\ got[1].verdict # "not_modified" /\ bad = {}
  <2> HIDE DEF failed, bad
  <2> QED BY <1>2, <1>3
<1>7. 1 \in DOMAIN parts
  BY <1>1
<1>8. said.verdict = "not_modified" => source = "divingfish" /\ replies["divingfish_music"].status = 304
  <2> SUFFICES ASSUME said.verdict = "not_modified"
               PROVE  source = "divingfish" /\ replies["divingfish_music"].status = 304
    OBVIOUS
  <2>1. failed = {} /\ got[1].verdict = "not_modified"
    BY <1>5, <1>6
  <2>2. source = "divingfish"
    BY <2>1, <1>5, <1>7
  <2> QED BY <2>1, <2>2, <1>1, <1>4, <1>7
<1>9. ASSUME said.verdict = "updated", NEW i \in DOMAIN parts
      PROVE  LET reply == replies[parts[i][1]]
             IN /\ said.documents = docs /\ WholeSuccess(reply) /\ got[i].json = reply.json
                /\ \E v : reply.json = {v} /\ counted(i) = RecordCount(parts[i][2], v) /\ counted(i) # {}
  <2>1. said = new /\ failed = {} /\ got[1].verdict # "not_modified" /\ bad = {}
    BY <1>5, <1>6, <1>9
  <2>2. got[i].verdict = "updated"
    <3>1. CASE source = "divingfish"
      <4>1. i = 1
        BY <3>1, <1>1, <1>9
      <4> QED BY <4>1, <2>1, <1>4, <1>5
    <3>2. CASE source # "divingfish"
      BY <3>2, <2>1, <1>4, <1>5
    <3> QED BY <3>1, <3>2
  <2>3. WholeSuccess(replies[parts[i][1]]) /\ got[i].json = replies[parts[i][1]].json
    BY <2>2, <1>4
  <2>4. counted(i) # {}
    BY <2>1, <1>5
  <2>5. got[i].json # {}
    BY <2>4
  <2>6. PICK v : replies[parts[i][1]].json = {v}
    BY <1>0, <2>3, <2>5 DEF ReplyData
  <2>7. counted(i) = RecordCount(parts[i][2], v)
    BY <2>3, <2>6
  <2> HIDE DEF counted, docs
  <2> QED BY <1>5, <2>1, <2>3, <2>4, <2>6, <2>7
<1>10. ASSUME said.verdict = "updated", NEW i \in DOMAIN parts
       PROVE  /\ WholeSuccess(replies[parts[i][1]])
              /\ said.documents[i].target = parts[i][2]
              /\ replies[parts[i][1]].json = {said.documents[i].json}
              /\ \A v \in replies[parts[i][1]].json : v.is = "array" /\ parts[i][2] # "Location" =>
                        said.documents[i].counts = <<Len(said.documents[i].json.items)>>
  <2>1. PICK v : /\ said.documents = docs /\ WholeSuccess(replies[parts[i][1]]) /\ got[i].json = replies[parts[i][1]].json
                 /\ replies[parts[i][1]].json = {v} /\ counted(i) = RecordCount(parts[i][2], v) /\ counted(i) # {}
    BY <1>9, <1>10
  <2>2. docs[i].target = parts[i][2] /\ docs[i].json = v /\ docs[i].counts = CHOOSE c \in counted(i) : TRUE
    <3>1. docs[i] = [target |-> parts[i][2], json |-> CHOOSE x \in got[i].json : TRUE, counts |-> CHOOSE c \in counted(i) : TRUE]
      OBVIOUS
    <3>2. (CHOOSE x \in got[i].json : TRUE) = v
      BY <2>1
    <3> HIDE DEF docs, counted
    <3> QED BY <3>1, <3>2
  <2>3. ASSUME v.is = "array", parts[i][2] # "Location"
        PROVE  docs[i].counts = <<Len(v.items)>>
    <3>1. parts[i][2] \in Purposes
      BY <1>1
    <3>2. counted(i) = {<<Len(v.items)>>}
      BY <2>1, <2>3, <3>1, ArrayCounts DEF Purposes
    <3> HIDE DEF docs, counted
    <3> QED BY <2>2, <3>2
  <2> HIDE DEF docs
  <2> QED BY <2>1, <2>2, <2>3
<1>11. said.verdict = "updated" => Len(said.documents) = Len(parts)
  <2> SUFFICES ASSUME said.verdict = "updated" PROVE Len(said.documents) = Len(parts)
    OBVIOUS
  <2>1. said.documents = docs
    BY <1>5, <1>6
  <2>2. docs = [i \in 1..Len(parts) |-> docs[i]]
    BY <1>1
  <2>3. Len(parts) \in Nat
    BY <1>1
  <2> HIDE DEF docs
  <2> QED BY <2>1, <2>2, <2>3, LengthIs
<1>12. ASSUME source # "dxdata",
              \A i \in DOMAIN parts :
               LET reply == replies[parts[i][1]]
               IN /\ WholeSuccess(reply) /\ reply.type = "json" /\ reply.etag = {}
                  /\ \E v \in reply.json : v.is = "array" /\ parts[i][2] # "Location"
                  /\ parts[i][2] \notin {"DivingFishChartStats", "DxRatingTags", "Plate"}
       PROVE  said.verdict = "updated"
  <2>1. \A i \in DOMAIN parts : got[i].verdict = "updated" /\ got[i].json = replies[parts[i][1]].json
    BY <1>4, <1>12
  <2>2. failed = {}
    BY <2>1, <1>5
  <2>3. got[1].verdict # "not_modified"
    BY <2>1, <1>7
  <2>4. ASSUME NEW i \in DOMAIN parts PROVE counted(i) # {}
    <3>1. PICK v \in replies[parts[i][1]].json : v.is = "array" /\ parts[i][2] # "Location"
      BY <1>12
    <3>2. parts[i][2] \in {"LxnsSongList", "LxnsAliasList", "DivingFishSongList", "DxRatingAliases", "YuzuAliasList"}
      BY <1>1, <1>12, <3>1 DEF Purposes
    <3>3. RecordCount(parts[i][2], v) = {<<Len(v.items)>>}
      BY <3>1, <3>2, ArrayCounts
    <3>4. v \in got[i].json
      BY <2>1, <3>1
    <3> QED BY <3>3, <3>4
  <2>5. bad = {}
    BY <2>4, <1>5
  <2>6. said = new
    BY <2>2, <2>3, <2>5, <1>3
  <2> QED BY <2>6, <1>5
<1> QED BY <1>8, <1>10, <1>11, <1>12 DEF Assembled, parts

(* The replies that a source is put together from. *)
LEMMA FetchUses ==
  ASSUME question.tool = "fetch", WellReplied(question),
         answer = FetchFrom(question.source, question.etag, question.replies), answer.verdict # "refused"
  PROVE  \E used : /\ answer = AssembleBundle(question.source, question.etag, used)
                   /\ \A i \in DOMAIN SourceParts[question.source] :
                        LET e == SourceParts[question.source][i][1]
                        IN used[e] = ReplyTo(e) /\ ReplyData(used[e])
<1> DEFINE source == question.source
           parts == SourceParts[source]
           replies == question.replies
           proxy == replies["dxdata_proxy"]
           github == replies["dxdata_github"]
           second == [replies EXCEPT !["dxdata_proxy"] = github]
           first == SourceReply("dxdata_proxy", proxy).verdict
           other == SourceReply("dxdata_github", github).verdict
<1>1. /\ source \in DOMAIN SourceParts /\ {"dxdata_proxy", "dxdata_github"} \subseteq DOMAIN replies
      /\ \A part \in ToSet(parts) : part[1] \in DOMAIN replies
      /\ \A e \in DOMAIN replies : ReplyData(replies[e])
  BY DEF WellReplied
<1>2. \A i \in DOMAIN parts : /\ parts[i][1] \in DOMAIN replies
                              /\ source # "dxdata" => parts[i][1] # "dxdata_proxy"
                              /\ source = "dxdata" => parts[i][1] = "dxdata_proxy"
  <2>1. \A i \in DOMAIN parts : /\ parts[i] \in ToSet(parts)
                                /\ source # "dxdata" => parts[i][1] # "dxdata_proxy"
                                /\ source = "dxdata" => parts[i] = <<"dxdata_proxy", "DxData">>
    BY <1>1, PartsAre
  <2> HIDE DEF parts, source, replies
  <2> QED BY <1>1, <2>1
<1>3. answer = IF source # "dxdata" \/ first # "refused" THEN AssembleBundle(source, question.etag, replies)
               ELSE IF other = "refused" THEN Rejected("all_endpoints_failed")
               ELSE AssembleBundle(source, question.etag, second)
  BY Zenon DEF FetchFrom
<1>4. \A e : ReplyTo(e) = IF e = "dxdata_proxy" /\ SourceReply(e, proxy).verdict = "refused" THEN github ELSE replies[e]
  BY DEF ReplyTo
<1>5. second["dxdata_proxy"] = github
  BY <1>1
<1>6. Rejected("all_endpoints_failed").verdict = "refused"
  BY Refusals
<1> HIDE DEF source, parts, replies, proxy, github, second
<1>7. github = replies["dxdata_github"]
  BY DEF github
<1>8. CASE source # "dxdata" \/ first # "refused"
  <2>1. answer = AssembleBundle(source, question.etag, replies)
    BY <1>3, <1>8
  <2>2. \A i \in DOMAIN parts : replies[parts[i][1]] = ReplyTo(parts[i][1]) /\ ReplyData(replies[parts[i][1]])
    BY <1>1, <1>2, <1>4, <1>8
  <2> QED BY <2>1, <2>2 DEF source, parts
<1>9. CASE source = "dxdata" /\ first = "refused"
  <2>1. answer = AssembleBundle(source, question.etag, second)
    BY <1>3, <1>6, <1>9
  <2>2. \A i \in DOMAIN parts : second[parts[i][1]] = ReplyTo(parts[i][1]) /\ ReplyData(second[parts[i][1]])
    BY <1>1, <1>2, <1>4, <1>5, <1>7, <1>9
  <2> QED BY <2>1, <2>2 DEF source, parts
<1> QED BY <1>8, <1>9

(* Every document of a source is the whole reply of its own endpoint. *)
LEMMA FetchHolds ==
  ASSUME question.tool = "fetch", WellReplied(question),
         answer = FetchFrom(question.source, question.etag, question.replies)
  PROVE  SourceWhole
<1> DEFINE source == question.source
           parts == SourceParts[source]
           bare(i) == \E v \in ReplyTo(parts[i][1]).json : v.is = "array" /\ parts[i][2] # "Location"
           plain(i) == LET reply == ReplyTo(parts[i][1])
                       IN WholeSuccess(reply) /\ reply.type = "json" /\ reply.etag = {} /\ bare(i)
                          /\ parts[i][2] \notin {"DivingFishChartStats", "DxRatingTags", "Plate"}
<1>1. source \in DOMAIN SourceParts
  BY DEF WellReplied
<1>2. source = "divingfish" => parts[1][1] = "divingfish_music" /\ 1 \in DOMAIN parts
  BY <1>1, PartsAre
<1>3. CASE answer.verdict # "refused"
  <2>1. PICK used : /\ answer = AssembleBundle(source, question.etag, used)
                    /\ \A i \in DOMAIN parts : used[parts[i][1]] = ReplyTo(parts[i][1]) /\ ReplyData(used[parts[i][1]])
    BY <1>3, FetchUses
  <2>2. /\ answer.verdict = "updated" =>
             /\ Len(answer.documents) = Len(parts)
             /\ \A i \in DOMAIN parts :
                  /\ WholeSuccess(used[parts[i][1]])
                  /\ answer.documents[i].target = parts[i][2]
                  /\ used[parts[i][1]].json = {answer.documents[i].json}
                  /\ \A v \in used[parts[i][1]].json : v.is = "array" /\ parts[i][2] # "Location" =>
                       answer.documents[i].counts = <<Len(answer.documents[i].json.items)>>
        /\ answer.verdict = "not_modified" => source = "divingfish" /\ used["divingfish_music"].status = 304
        /\ (source # "dxdata" /\ \A i \in DOMAIN parts :
              LET reply == used[parts[i][1]]
              IN /\ WholeSuccess(reply) /\ reply.type = "json" /\ reply.etag = {}
                 /\ \E v \in reply.json : v.is = "array" /\ parts[i][2] # "Location"
                 /\ parts[i][2] \notin {"DivingFishChartStats", "DxRatingTags", "Plate"}) => answer.verdict = "updated"
    <3>1. Assembled(source, used, answer)
      BY <1>1, <2>1, AssembleIs
    <3> QED BY <3>1, Zenon DEF Assembled
  <2> HIDE DEF source, parts
  <2>3. answer.verdict = "updated" =>
          /\ Len(answer.documents) = Len(parts)
          /\ \A i \in DOMAIN parts :
               /\ WholeSuccess(ReplyTo(parts[i][1]))
               /\ answer.documents[i].target = parts[i][2]
               /\ ReplyTo(parts[i][1]).json = {answer.documents[i].json}
               /\ bare(i) => answer.documents[i].counts = <<Len(answer.documents[i].json.items)>>
    BY <2>1, <2>2
  <2>4. answer.verdict = "not_modified" => source = "divingfish" /\ ReplyTo("divingfish_music").status = 304
    BY <1>2, <2>1, <2>2
  <2>5. (source # "dxdata" /\ \A i \in DOMAIN parts : plain(i)) => answer.verdict = "updated"
    BY <2>1, <2>2
  <2> QED BY <2>3, <2>4, <2>5, Zenon DEF SourceWhole, source, parts
<1>4. CASE answer.verdict = "refused"
  <2>1. ~(source # "dxdata" /\ \A i \in DOMAIN parts : plain(i))
    <3> SUFFICES ASSUME source # "dxdata", \A i \in DOMAIN parts : plain(i) PROVE FALSE
      OBVIOUS
    <3>1. answer = AssembleBundle(source, question.etag, question.replies)
      BY Zenon DEF FetchFrom
    <3>2. \A i \in DOMAIN parts : parts[i][1] # "dxdata_proxy" /\ parts[i] \in ToSet(parts)
      BY <1>1, PartsAre
    <3>3. \A i \in DOMAIN parts : ReplyTo(parts[i][1]) = question.replies[parts[i][1]]
      BY <3>2 DEF ReplyTo
    <3>4. \A part \in ToSet(parts) : ReplyData(question.replies[part[1]])
      BY DEF WellReplied
    <3>5. (\A i \in DOMAIN parts :
              LET reply == question.replies[parts[i][1]]
              IN /\ WholeSuccess(reply) /\ reply.type = "json" /\ reply.etag = {}
                 /\ \E v \in reply.json : v.is = "array" /\ parts[i][2] # "Location"
                 /\ parts[i][2] \notin {"DivingFishChartStats", "DxRatingTags", "Plate"}) => answer.verdict = "updated"
      <4>1. Assembled(source, question.replies, answer)
        BY <1>1, <3>1, <3>2, <3>4, AssembleIs
      <4> QED BY <4>1, Zenon DEF Assembled
    <3> HIDE DEF source, parts
    <3> QED BY <1>4, <3>3, <3>5
  <2> QED BY <1>4, <2>1, Zenon DEF SourceWhole
<1> QED BY <1>3, <1>4

-----------------------------------------------------------------------------
(* The promise of the replies. *)

(* The question stays one of the questions, and its answer is that of the
   code. *)
AnsweredByReplies ==
  /\ question \in Questions
  /\ Answered("operation") => answer = Execute(question.request, question.reply)
  /\ Answered("tokens") => answer = RequestTokensWith(question.request, question.reply)
  /\ Answered("fetch") => answer = FetchFrom(question.source, question.etag, question.replies)
  /\ Answered("group_members") => answer = GroupMembers(question.group, question.reply)
  /\ Answered("accounts") => answer = PostList(question.list, question.reply)

(* The invariant of questions to providers: the answer is what the code
   makes of the reply. *)
LEMMA RepliesInvariant == Spec => []AnsweredByReplies
<1>1. Init => AnsweredByReplies
  BY DEF Init, AnsweredByReplies, Answered
<1>2. AnsweredByReplies /\ [Next]_vars => AnsweredByReplies'
  <2> SUFFICES ASSUME AnsweredByReplies, [Next]_vars PROVE AnsweredByReplies'
    OBVIOUS
  <2>1. CASE UNCHANGED vars
    BY <2>1 DEF AnsweredByReplies, Answered, vars
  <2>2. CASE Next
    <3>1. question' = question /\ loaded' = loaded /\ question \in Questions
      BY <2>2, Answerers DEF AnsweredByReplies
    <3> QED
      BY <2>2, <3>1, Answerers
      DEF AnsweredByReplies, Answered, CallDivingFish, RequestTokens, FetchSource, ListGroupMembers, ListAccounts
  <2> QED BY <2>1, <2>2 DEF AnsweredByReplies
<1> QED BY <1>1, <1>2, PTL DEF Spec

(* Nothing is made of half a reply, whatever is replied and however it is
   cut: whoever is answered, was sent a whole reply with a status of
   success; what changes an account was confirmed by name; tokens are two
   and new; the list of a group is all of that group; every document of a
   source is the reply of its own endpoint; and a whole reply to a valid
   request is answered with. *)
THEOREM RepliesWholeHolds == Spec => []RepliesWhole
<1>1. AnsweredByReplies => RepliesWhole
  <2> SUFFICES ASSUME AnsweredByReplies PROVE RepliesWhole
    OBVIOUS
  <2>1. WellReplied(question)
    BY ReplyAssumption DEF AnsweredByReplies
  <2>2. Answered("operation") => OperationWhole
    <3> SUFFICES ASSUME Answered("operation") PROVE OperationWhole
      OBVIOUS
    <3>1. question.tool = "operation" /\ answer = Execute(question.request, question.reply)
      BY DEF AnsweredByReplies, Answered
    <3> QED BY <2>1, <3>1, OperationHolds
  <2>3. Answered("tokens") => TokensWhole
    <3> SUFFICES ASSUME Answered("tokens") PROVE TokensWhole
      OBVIOUS
    <3>1. question.tool = "tokens" /\ answer = RequestTokensWith(question.request, question.reply)
      BY DEF AnsweredByReplies, Answered
    <3> QED BY <2>1, <3>1, TokensHold
  <2>4. Answered("fetch") => SourceWhole
    <3> SUFFICES ASSUME Answered("fetch") PROVE SourceWhole
      OBVIOUS
    <3>1. question.tool = "fetch" /\ answer = FetchFrom(question.source, question.etag, question.replies)
      BY DEF AnsweredByReplies, Answered
    <3> QED BY <2>1, <3>1, FetchHolds
  <2>5. Answered("group_members") => ListWhole
    <3> SUFFICES ASSUME Answered("group_members") PROVE ListWhole
      OBVIOUS
    <3>1. question.tool = "group_members" /\ answer = GroupMembers(question.group, question.reply)
      BY DEF AnsweredByReplies, Answered
    <3> QED BY <2>1, <3>1, GroupHolds
  <2>6. Answered("accounts") => ListWhole
    <3> SUFFICES ASSUME Answered("accounts") PROVE ListWhole
      OBVIOUS
    <3>1. question.tool = "accounts" /\ answer = PostList(question.list, question.reply)
      BY DEF AnsweredByReplies, Answered
    <3> QED BY <2>1, <3>1, AccountsHold
  <2> QED BY <2>2, <2>3, <2>4, <2>5, <2>6, Zenon DEF RepliesWhole
<1> QED BY <1>1, RepliesInvariant, PTL

-----------------------------------------------------------------------------
(* A record more in a list. *)

(* A section is the best choice of its capacity, and its last record the least
   of it. *)
LEMMA SectionList ==
  ASSUME NEW R, Divisible(R), NEW new, NEW capacity \in Nat
  PROVE  LET s == SectionOf(Part(Unique(R), new), capacity)
         IN /\ ToSet(s) \in ChoicesOf(R, new, capacity) /\ IsFiniteSet(ToSet(s))
            /\ \A c \in ChoicesOf(R, new, capacity) : Worth(c) <= Worth(ToSet(s))
            /\ SumRating(s) = Worth(ToSet(s))
            /\ Len(s) = Cardinality(ToSet(s))
            /\ s # <<>> => Last(s) \in ToSet(s) /\ \A f \in ToSet(s) : f.rating >= Last(s).rating
<1> DEFINE U == Part(Unique(R), new)
           s == SectionOf(U, capacity)
<1>1. IsFiniteSet(R) /\ Comparable(R) /\ \A l, r \in R : l.chart = r.chart => l.current = r.current
  BY DEF Divisible
<1>2. /\ s \in Seq(U) /\ ToSet(s) \in ChoicesOf(R, new, capacity)
      /\ \A c \in ChoicesOf(R, new, capacity) : Worth(c) <= SumRating(s)
  BY <1>1, SectionIsBest
<1>3. U \in SUBSET R /\ Distinct(U)
  BY <1>1, OneOfEach DEF Part, Distinct
<1>4. IsFiniteSet(U) /\ Comparable(U)
  <2> HIDE DEF U
  <2> QED BY <1>1, <1>3, FS_Subset DEF Comparable
<1> HIDE DEF U
<1>5. /\ Len(s) \in Nat /\ \A i \in 1..Len(s) : Rank(U, s[i]) = i - 1
  BY <1>3, <1>4, Section
<1> HIDE DEF s
<1>6. \A i, j \in 1..Len(s) : s[i] = s[j] => i = j
  <2> SUFFICES ASSUME NEW i \in 1..Len(s), NEW j \in 1..Len(s), s[i] = s[j] PROVE i = j
    OBVIOUS
  <2>1. i \in Int /\ j \in Int /\ i - 1 = j - 1
    BY <1>5
  <2> QED BY <2>1
<1>7. SumRating(s) = Worth(ToSet(s))
  <2>1. \A r \in U : r.rating \in Int
    BY <1>4 DEF Comparable
  <2> QED BY <2>1, <1>4, <1>2, <1>6, SumIsWorth
<1>8. DOMAIN s = 1..Len(s) /\ \A i \in 1..Len(s) : s[i] \in U
  BY <1>2
<1>9. IsFiniteSet(ToSet(s)) /\ Len(s) = Cardinality(ToSet(s))
  <2>1. s \in Bijection(1..Len(s), ToSet(s))
    <3>1. s \in [1..Len(s) -> ToSet(s)]
      BY <1>2, <1>8 DEF ToSet
    <3>2. \A y \in ToSet(s) : \E i \in 1..Len(s) : s[i] = y
      BY <1>8 DEF ToSet
    <3> QED BY <3>1, <3>2, <1>6 DEF Bijection, Injection, Surjection, IsInjective
  <2>2. IsFiniteSet(1..Len(s)) /\ Cardinality(1..Len(s)) = Len(s)
    BY <1>5, FS_Interval
  <2> QED BY <2>1, <2>2, FS_Bijection DEF ExistsBijection
<1>10. ASSUME s # <<>> PROVE Last(s) \in ToSet(s) /\ \A f \in ToSet(s) : f.rating >= Last(s).rating
  <2>1. Len(s) \in 1..Len(s) /\ Last(s) = s[Len(s)]
    BY <1>2, <1>5, <1>10 DEF Last
  <2>2. Last(s) \in ToSet(s)
    BY <2>1, <1>8 DEF ToSet
  <2>3. ASSUME NEW f \in ToSet(s) PROVE f.rating >= Last(s).rating
    <3>1. PICK i \in 1..Len(s) : s[i] = f
      BY <1>8 DEF ToSet
    <3>2. Rank(U, f) = i - 1 /\ Rank(U, Last(s)) = Len(s) - 1
      BY <3>1, <2>1, <1>5
    <3>3. Rank(U, f) <= Rank(U, Last(s))
      BY <3>2, <1>5
    <3>4. f \in U /\ Last(s) \in U
      BY <3>1, <2>1, <1>8
    <3> QED BY <3>3, <3>4, <1>3, <1>4, Places
  <2> QED BY <2>2, <2>3
<1> QED BY <1>2, <1>7, <1>9, <1>10 DEF s, U

(* Of more records of distinct charts one is of a chart that fewer do not have. *)
LEMMA Crowding ==
  ASSUME NEW F, IsFiniteSet(F), Distinct(F), NEW G, IsFiniteSet(G), Cardinality(G) < Cardinality(F)
  PROVE  \E f \in F : \A g \in G : g.chart # f.chart
<1> SUFFICES ASSUME \A f \in F : \E g \in G : g.chart = f.chart PROVE FALSE
  OBVIOUS
<1> DEFINE h == [f \in F |-> CHOOSE g \in G : g.chart = f.chart]
<1>1. \A f \in F : h[f] \in G /\ h[f].chart = f.chart
  OBVIOUS
<1>2. h \in [F -> G]
  BY <1>1
<1> HIDE DEF h
<1>3. h \in Injection(F, G)
  BY <1>1, <1>2 DEF Injection, IsInjective, Distinct
<1>4. Cardinality(F) <= Cardinality(G)
  BY <1>3, FS_Injection
<1>5. Cardinality(F) \in Nat /\ Cardinality(G) \in Nat
  BY FS_CardinalityType
<1> QED BY <1>4, <1>5

(* A choice than which none is worth more. *)
BestChoice(F, R, new, n) ==
  F \in ChoicesOf(R, new, n) /\ \A c \in ChoicesOf(R, new, n) : Worth(c) <= Worth(F)
(* What a choice has to lose for a record more: the least of a full one, else
   nothing. *)
LeastOf(F, n, least) ==
  IF Cardinality(F) >= n THEN (\E l \in F : l.rating = least) /\ \A f \in F : f.rating >= least
  ELSE least = 0
(* The rating of the best record of a chart, 0 without one. *)
OldRating(R, chart, old) ==
  /\ \A r \in R : r.chart = chart => r.rating <= old
  /\ old # 0 => \E r \in R : r.chart = chart /\ r.rating = old

(* A set of records as a choice, with one record more or less. *)
LEMMA Choosing ==
  ASSUME NEW R, IsFiniteSet(R), \A r \in R : r.rating \in Nat, NEW new, NEW n \in Nat, NEW G
  PROVE  /\ G \in ChoicesOf(R, new, n) <=>
              G \subseteq R /\ (\A g \in G : g.current = new) /\ Cardinality(G) <= n /\ Distinct(G)
         /\ G \subseteq R => IsFiniteSet(G) /\ Cardinality(G) \in Nat /\ Worth(G) \in Int
         /\ G \subseteq R => \A x \in R \ G : /\ Worth(G \cup {x}) = Worth(G) + x.rating
                                              /\ Cardinality(G \cup {x}) = Cardinality(G) + 1
         /\ G \subseteq R => \A x \in G : /\ Worth(G) = Worth(G \ {x}) + x.rating
                                          /\ Cardinality(G \ {x}) = Cardinality(G) - 1
<1>1. G \in ChoicesOf(R, new, n) <=>
              G \subseteq R /\ (\A g \in G : g.current = new) /\ Cardinality(G) <= n /\ Distinct(G)
  <2>1. G \in SUBSET {r \in R : r.current = new} <=> G \subseteq R /\ (\A g \in G : g.current = new)
    OBVIOUS
  <2> QED BY <2>1, Zenon DEF ChoicesOf
<1>2. ASSUME NEW H \in SUBSET R
      PROVE  IsFiniteSet(H) /\ (\A r \in H : r.rating \in Int) /\ Cardinality(H) \in Nat /\ Worth(H) \in Int
  <2>1. IsFiniteSet(H) /\ \A r \in H : r.rating \in Int
    BY FS_Subset
  <2> QED BY <2>1, WorthAdds, FS_CardinalityType
<1>3. ASSUME G \subseteq R, NEW x \in R \ G
      PROVE  Worth(G \cup {x}) = Worth(G) + x.rating /\ Cardinality(G \cup {x}) = Cardinality(G) + 1
  <2> DEFINE H == G \cup {x}
  <2>1. H \in SUBSET R /\ x \in H /\ H \ {x} = G
    BY <1>3
  <2>2. IsFiniteSet(H) /\ \A r \in H : r.rating \in Int
    BY <2>1, <1>2
  <2>3. Worth(H) = x.rating + Worth(H \ {x})
    BY <2>1, <2>2, WorthAdds
  <2>4. IsFiniteSet(G) /\ Worth(G) \in Int /\ x.rating \in Int
    BY <1>2, <1>3
  <2>5. Cardinality(G \cup {x}) = Cardinality(G) + 1
    BY <2>4, <1>3, FS_AddElement
  <2>6. Worth(H) = x.rating + Worth(G)
    BY <2>1, <2>3
  <2> HIDE DEF H
  <2>7. Worth(H) = Worth(G) + x.rating
    BY <2>4, <2>6
  <2> QED BY <2>5, <2>7 DEF H
<1>4. ASSUME G \subseteq R, NEW x \in G
      PROVE  Worth(G) = Worth(G \ {x}) + x.rating /\ Cardinality(G \ {x}) = Cardinality(G) - 1
  <2>1. IsFiniteSet(G) /\ \A r \in G : r.rating \in Int
    BY <1>2, <1>4
  <2>2. Worth(G) = x.rating + Worth(G \ {x})
    BY <2>1, WorthAdds
  <2>3. Worth(G \ {x}) \in Int /\ x.rating \in Int
    BY <1>2, <1>4, <2>1
  <2>4. Cardinality(G \ {x}) = Cardinality(G) - 1
    BY <2>1, FS_RemoveElement
  <2> QED BY <2>2, <2>3, <2>4
<1> QED BY <1>1, <1>2, <1>3, <1>4

(* No choice gains more by a record than that is above what it displaces. *)
LEMMA NoBetter ==
  ASSUME NEW R, IsFiniteSet(R), \A r \in R : r.rating \in Nat, NEW new, NEW n \in Nat \ {0},
         NEW F, BestChoice(F, R, new, n), NEW least \in Nat, LeastOf(F, n, least),
         NEW x, x.rating \in Nat, x.current = new, NEW old \in Nat, OldRating(R, x.chart, old),
         \A r \in R : r.chart = x.chart => r.current = new,
         NEW G \in ChoicesOf(R \cup {x}, new, n), NEW floor, floor \in {old, least}
  PROVE  Worth(G) <= Worth(F) \/ Worth(G) <= Worth(F) + x.rating - floor
<1> DEFINE S == R \cup {x}
<1>1. IsFiniteSet(S) /\ \A r \in S : r.rating \in Nat
  BY FS_AddElement
<1>2. /\ G \subseteq S /\ (\A g \in G : g.current = new) /\ Cardinality(G) <= n /\ Distinct(G)
      /\ IsFiniteSet(G) /\ Cardinality(G) \in Nat /\ Worth(G) \in Int
  <2> HIDE DEF S
  <2>1. G \in ChoicesOf(S, new, n)
    BY DEF S
  <2>2. n \in Nat
    OBVIOUS
  <2> QED BY <1>1, <2>1, <2>2, Choosing
<1>3. CASE x \notin G
  <2>1. G \subseteq R
    BY <1>2, <1>3
  <2>2. G \in ChoicesOf(R, new, n)
    BY <1>2, <2>1, Choosing
  <2> QED BY <2>2 DEF BestChoice
<1>4. CASE x \in G
  <2> DEFINE H == G \ {x}
  <2>1. H \subseteq R /\ Cardinality(H) = Cardinality(G) - 1 /\ Worth(G) = Worth(H) + x.rating
    <3> HIDE DEF S
    <3>1. G \subseteq S /\ n \in Nat
      BY <1>2
    <3>2. Cardinality(G \ {x}) = Cardinality(G) - 1 /\ Worth(G) = Worth(G \ {x}) + x.rating
      BY <1>1, <3>1, <1>4, Choosing
    <3>3. G \ {x} \subseteq R
      BY <1>2 DEF S
    <3> QED BY <3>2, <3>3
  <2>2. \A h \in H : h.chart # x.chart /\ h.current = new
    BY <1>2, <1>4 DEF Distinct
  <2>3. Distinct(H)
    BY <1>2 DEF Distinct
  <2> HIDE DEF H
  <2>4. IsFiniteSet(H) /\ Cardinality(H) \in Nat /\ Worth(H) \in Int
    BY <2>1, Choosing
  <2>5. ASSUME NEW r \in R, r.current = new, \A h \in H : h.chart # r.chart
        PROVE  Worth(H) + r.rating <= Worth(F)
    <3> DEFINE A == H \cup {r}
    <3>1. r \notin H
      BY <2>5
    <3>2. Worth(A) = Worth(H) + r.rating /\ Cardinality(A) = Cardinality(H) + 1
      BY <2>1, <2>5, <3>1, Choosing
    <3>3. A \subseteq R /\ (\A a \in A : a.current = new) /\ Distinct(A)
      BY <2>1, <2>2, <2>3, <2>5 DEF Distinct
    <3> HIDE DEF A
    <3>4. Cardinality(A) <= n
      BY <2>1, <2>4, <1>2, <3>2
    <3>5. A \in ChoicesOf(R, new, n)
      BY <3>3, <3>4, Choosing
    <3> QED BY <3>2, <3>5 DEF BestChoice
  <2>6. Worth(H) <= Worth(F)
    <3>1. Cardinality(H) <= n
      BY <2>1, <2>4, <1>2
    <3>2. H \in ChoicesOf(R, new, n)
      BY <2>1, <2>2, <2>3, <3>1, Choosing
    <3> QED BY <3>2 DEF BestChoice
  <2>7. Worth(F) \in Int /\ IsFiniteSet(F) /\ Cardinality(F) \in Nat /\ Distinct(F) /\ F \subseteq R
        /\ \A f \in F : f.current = new
    BY Choosing DEF BestChoice
  <2>8. Worth(H) + old <= Worth(F)
    <3>1. CASE old = 0
      BY <3>1, <2>6, <2>4, <2>7
    <3>2. CASE old # 0
      <4>1. PICK r \in R : r.chart = x.chart /\ r.rating = old
        BY <3>2 DEF OldRating
      <4> QED BY <4>1, <2>2, <2>5
    <3> QED BY <3>1, <3>2
  <2>9. Worth(H) + least <= Worth(F)
    <3>1. CASE Cardinality(F) >= n
      <4>1. Cardinality(H) < Cardinality(F)
        BY <3>1, <2>1, <2>4, <2>7, <1>2
      <4>2. PICK f \in F : \A h \in H : h.chart # f.chart
        BY <4>1, <2>4, <2>7, Crowding
      <4>3. f \in R /\ f.current = new /\ f.rating >= least /\ f.rating \in Nat
        BY <3>1, <2>7 DEF LeastOf
      <4>4. Worth(H) + f.rating <= Worth(F)
        BY <4>2, <4>3, <2>5
      <4> QED BY <4>3, <4>4, <2>4, <2>7
    <3>2. CASE ~(Cardinality(F) >= n)
      <4>1. least = 0
        BY <3>2 DEF LeastOf
      <4> QED BY <4>1, <2>6, <2>4, <2>7
    <3> QED BY <3>1, <3>2
  <2>10. floor \in Nat /\ Worth(H) + floor <= Worth(F)
    BY <2>8, <2>9
  <2> QED BY <2>1, <2>4, <2>7, <2>10
<1> QED BY <1>3, <1>4

(* And some choice gains as much. *)
LEMMA AsGood ==
  ASSUME NEW R, IsFiniteSet(R), \A r \in R : r.rating \in Nat, NEW new, NEW n \in Nat \ {0},
         NEW F, BestChoice(F, R, new, n), NEW least \in Nat, LeastOf(F, n, least),
         NEW x, x.rating \in Nat, x.current = new, NEW old \in Nat, OldRating(R, x.chart, old),
         NEW floor \in Nat, floor >= old, floor >= least, x.rating > floor
  PROVE  \E G \in ChoicesOf(R \cup {x}, new, n) : Worth(G) >= Worth(F) + x.rating - floor
<1> DEFINE S == R \cup {x}
<1>1. IsFiniteSet(S) /\ \A r \in S : r.rating \in Nat
  BY FS_AddElement
<1>2. n \in Nat
  OBVIOUS
<1>3. /\ F \subseteq R /\ (\A f \in F : f.current = new) /\ Cardinality(F) <= n /\ Distinct(F)
      /\ IsFiniteSet(F) /\ Cardinality(F) \in Nat /\ Worth(F) \in Int
  BY Choosing DEF BestChoice
<1>4. x \notin R
  BY DEF OldRating
<1>5. F \subseteq S /\ x \in S
  BY <1>3
<1> HIDE DEF S
(* One record leaves the choice, and the new one comes in its place. *)
<1>6. ASSUME NEW l \in F, l.rating <= floor, \A f \in F \ {l} : f.chart # x.chart
      PROVE  \E G \in ChoicesOf(S, new, n) : Worth(G) >= Worth(F) + x.rating - floor
  <2> DEFINE H == F \ {l}
  <2>1. Worth(F) = Worth(H) + l.rating /\ Cardinality(H) = Cardinality(F) - 1
    BY <1>1, <1>2, <1>5, <1>6, Choosing
  <2>2. H \subseteq S /\ x \notin H /\ (\A h \in H : h.current = new /\ h.chart # x.chart) /\ Distinct(H)
    BY <1>3, <1>4, <1>5, <1>6 DEF Distinct
  <2> HIDE DEF H
  <2> DEFINE G == H \cup {x}
  <2>3. Worth(G) = Worth(H) + x.rating /\ Cardinality(G) = Cardinality(H) + 1
    BY <1>1, <1>2, <1>5, <2>2, Choosing
  <2>4. G \subseteq S /\ (\A g \in G : g.current = new) /\ Distinct(G)
    BY <1>5, <2>2 DEF Distinct
  <2> HIDE DEF G
  <2>5. Cardinality(H) \in Nat /\ Worth(H) \in Int
    BY <1>1, <1>2, <2>2, Choosing
  <2>6. Cardinality(G) <= n
    BY <2>1, <2>3, <2>5, <1>3
  <2>7. G \in ChoicesOf(S, new, n)
    BY <1>1, <1>2, <2>4, <2>6, Choosing
  <2>8. l.rating \in Nat
    BY <1>3, <1>6
  <2>9. Worth(G) >= Worth(F) + x.rating - floor
    BY <2>1, <2>3, <2>5, <2>8, <1>6
  <2> QED BY <2>7, <2>9
<1>7. CASE \E l \in F : l.chart = x.chart
  <2>1. PICK l \in F : l.chart = x.chart
    BY <1>7
  <2>2. l.rating <= old /\ l.rating \in Nat
    BY <2>1, <1>3 DEF OldRating
  <2>3. l.rating <= floor
    BY <2>2
  <2>4. \A f \in F \ {l} : f.chart # x.chart
    BY <2>1, <1>3 DEF Distinct
  <2> QED BY <2>3, <2>4, <1>6 DEF S
<1>8. CASE ~(\E l \in F : l.chart = x.chart) /\ Cardinality(F) >= n
  <2>1. PICK l \in F : l.rating = least
    BY <1>8 DEF LeastOf
  <2>2. l.rating <= floor
    BY <2>1
  <2> QED BY <2>2, <1>8, <1>6 DEF S
<1>9. CASE ~(\E l \in F : l.chart = x.chart) /\ ~(Cardinality(F) >= n)
  <2> DEFINE G == F \cup {x}
  <2>1. x \in S \ F
    BY <1>3, <1>4, <1>5
  <2>2. Worth(G) = Worth(F) + x.rating /\ Cardinality(G) = Cardinality(F) + 1
    BY <1>1, <1>2, <1>5, <2>1, Choosing
  <2>3. G \subseteq S /\ (\A g \in G : g.current = new) /\ Distinct(G)
    BY <1>3, <1>5, <1>9 DEF Distinct
  <2> HIDE DEF G
  <2>4. Cardinality(G) <= n
    BY <2>2, <1>3, <1>9
  <2>5. G \in ChoicesOf(S, new, n)
    BY <1>1, <1>2, <2>3, <2>4, Choosing
  <2>6. Worth(G) >= Worth(F) + x.rating - floor
    BY <2>2, <1>3
  <2> QED BY <2>5, <2>6 DEF S
<1> QED BY <1>7, <1>8, <1>9

(* A record more raises the best choice by what it is above the old rating of
   its chart and above the least of a full choice. *)
LEMMA Raises ==
  ASSUME NEW R, IsFiniteSet(R), \A r \in R : r.rating \in Nat, NEW new, NEW n \in Nat \ {0},
         NEW F, BestChoice(F, R, new, n), NEW least \in Nat, LeastOf(F, n, least),
         NEW x, x.rating \in Nat, x.current = new, NEW old \in Nat, OldRating(R, x.chart, old),
         \A r \in R : r.chart = x.chart => r.current = new,
         NEW H, BestChoice(H, R \cup {x}, new, n)
  PROVE  LET floor == IF old >= least THEN old ELSE least
         IN Worth(H) = IF x.rating > floor THEN Worth(F) + x.rating - floor ELSE Worth(F)
<1> DEFINE floor == IF old >= least THEN old ELSE least
           S == R \cup {x}
<1>1. floor \in Nat /\ floor \in {old, least} /\ floor >= old /\ floor >= least
  OBVIOUS
<1> HIDE DEF floor
<1>2. n \in Nat
  OBVIOUS
<1>3. IsFiniteSet(S) /\ \A r \in S : r.rating \in Nat
  BY FS_AddElement
<1>4. Worth(F) \in Int /\ F \subseteq S
  BY Choosing DEF BestChoice
<1> HIDE DEF S
<1>5. Worth(H) \in Int /\ H \in ChoicesOf(S, new, n) /\ \A c \in ChoicesOf(S, new, n) : Worth(c) <= Worth(H)
  <2>1. BestChoice(H, S, new, n)
    BY DEF S
  <2> QED BY <2>1, <1>2, <1>3, Choosing DEF BestChoice
<1>6. Worth(H) <= Worth(F) \/ Worth(H) <= Worth(F) + x.rating - floor
  BY <1>1, <1>5, NoBetter DEF S
<1>7. F \in ChoicesOf(S, new, n)
  <2>1. (\A f \in F : f.current = new) /\ Cardinality(F) <= n /\ Distinct(F)
    BY Choosing DEF BestChoice
  <2> QED BY <2>1, <1>2, <1>3, <1>4, Choosing
<1>8. Worth(F) <= Worth(H)
  BY <1>5, <1>7
<1>9. CASE x.rating > floor
  <2>1. PICK G \in ChoicesOf(S, new, n) : Worth(G) >= Worth(F) + x.rating - floor
    BY <1>1, <1>9, AsGood DEF S
  <2>2. Worth(G) <= Worth(H)
    BY <1>5
  <2>3. Worth(G) \in Int
    BY <1>2, <1>3, Choosing
  <2>4. Worth(H) = Worth(F) + x.rating - floor
    BY <2>1, <2>2, <2>3, <1>1, <1>4, <1>5, <1>6, <1>9
  <2> QED BY <2>4, <1>9 DEF floor
<1>10. CASE ~(x.rating > floor)
  <2>1. Worth(H) = Worth(F)
    BY <1>1, <1>4, <1>5, <1>6, <1>8, <1>10
  <2> QED BY <2>1, <1>10 DEF floor
<1> QED BY <1>9, <1>10

-----------------------------------------------------------------------------
(* The total after one more play. *)

(* The coefficient grows with the achievement. *)
LEMMA CoefficientGrows ==
  ASSUME NEW a \in Nat, NEW b \in Nat, a <= b PROVE Coefficient(a) <= Coefficient(b)
<1> DEFINE S(x) == {c[2] : c \in {d \in Coefficients : d[1] <= x}}
<1>1. \A c \in Coefficients : c[1] \in Nat /\ c[2] \in 0..224
  BY DEF Coefficients
<1>2. S(a) \subseteq S(b)
  BY <1>1
<1>3. S(a) # {}
  <2>1. <<0, 0>> \in Coefficients
    BY DEF Coefficients
  <2>2. <<0, 0>>[1] <= a
    OBVIOUS
  <2> QED BY <2>1, <2>2
<1>4. S(a) \in SUBSET (0..224) /\ S(b) \in SUBSET (0..224)
  BY <1>1
<1>5. Coefficient(a) = Max(S(a)) /\ Coefficient(b) = Max(S(b))
  BY Zenon DEF Coefficient
<1> HIDE DEF S
<1>6. ASSUME NEW T \in SUBSET (0..224) PROVE IsFiniteSet(T) /\ T \subseteq Int
  <2>1. 0 \in Int /\ 224 \in Int
    OBVIOUS
  <2>2. IsFiniteSet(0..224)
    BY <2>1, FS_Interval
  <2>3. IsFiniteSet(T)
    BY <2>2, <1>6, FS_Subset
  <2>4. 0..224 \subseteq Int
    OBVIOUS
  <2> QED BY <2>3, <2>4, <1>6
<1>7. IsFiniteSet(S(a)) /\ S(a) \subseteq Int /\ IsFiniteSet(S(b)) /\ S(b) \subseteq Int
  BY <1>4, <1>6
<1>8. Max(S(a)) \in S(a)
  BY <1>3, <1>7, MaxIs
<1>9. \A y \in S(b) : Max(S(b)) >= y
  <2>1. S(b) # {}
    BY <1>2, <1>3
  <2> QED BY <2>1, <1>7, MaxIs
<1>10. Max(S(a)) \in Int /\ Max(S(b)) >= Max(S(a)) /\ Max(S(b)) \in Int
  <2>1. Max(S(b)) \in S(b)
    BY <1>2, <1>3, <1>7, MaxIs
  <2> QED BY <2>1, <1>2, <1>7, <1>8, <1>9
<1> QED BY <1>5, <1>10

(* A quotient of a greater number is no less. *)
LEMMA QuotientGrows ==
  ASSUME NEW m \in Nat, NEW n \in Nat, m <= n PROVE m \div 1000000 <= n \div 1000000
BY SMT

(* A product of greater factors is no less. *)
LEMMA ProductGrows ==
  ASSUME NEW a \in Nat, NEW b \in Nat, NEW c \in Nat, NEW d \in Nat, a <= b, c <= d PROVE a * c <= b * d
<1>1. a * c \in Nat /\ b * c \in Nat /\ b * d \in Nat
  OBVIOUS
<1>2. b * c = a * c + (b - a) * c /\ (b - a) * c \in Nat
  <2>1. b - a \in Nat
    OBVIOUS
  <2>2. (b - a) * c \in Nat
    BY <2>1
  <2>3. b * c = a * c + (b - a) * c
    BY <2>1
  <2> QED BY <2>2, <2>3
<1>3. b * d = b * c + b * (d - c) /\ b * (d - c) \in Nat
  <2>1. d - c \in Nat
    OBVIOUS
  <2>2. b * (d - c) \in Nat
    BY <2>1
  <2>3. b * d = b * c + b * (d - c)
    BY <2>1
  <2> QED BY <2>2, <2>3
<1> DEFINE p == a * c
           q == b * c
           r == b * d
           s == (b - a) * c
           t == b * (d - c)
<1>4. p \in Nat /\ q \in Nat /\ r \in Nat /\ s \in Nat /\ t \in Nat /\ q = p + s /\ r = q + t
  BY <1>1, <1>2, <1>3
<1> HIDE DEF p, q, r, s, t
<1>5. p <= r
  BY <1>4
<1> QED BY <1>5 DEF p, r

(* A rating grows with the achievement, and from the cap on no more. *)
LEMMA SongRatingGrows ==
  ASSUME NEW constant \in Nat, NEW a \in Nat, NEW b \in Nat, a <= b \/ b >= Cap
  PROVE  SongRating(constant, a) <= SongRating(constant, b)
<1> DEFINE x == Capped(a)
           y == Capped(b)
<1>1. x \in Nat /\ y \in Nat /\ x <= y
  BY DEF Capped, Cap
<1> HIDE DEF x, y
<1> DEFINE k == Coefficient(x)
           l == Coefficient(y)
<1>2. k \in Nat /\ l \in Nat /\ k <= l
  BY <1>1, CoefficientIs, CoefficientGrows
<1> HIDE DEF k, l
<1> DEFINE m == constant * x
           n == constant * y
<1>3. m \in Nat /\ n \in Nat /\ m <= n
  <2>1. constant <= constant
    OBVIOUS
  <2> QED BY <1>1, <2>1, ProductGrows
<1> HIDE DEF m, n
<1> DEFINE v == m * k
           w == n * l
<1>4. v \in Nat /\ w \in Nat /\ v <= w
  BY <1>2, <1>3, ProductGrows
<1> HIDE DEF v, w
<1>5. v \div 1000000 <= w \div 1000000
  BY <1>4, QuotientGrows, SMT
<1>6. SongRating(constant, a) = v \div 1000000 /\ SongRating(constant, b) = w \div 1000000
  BY SMT DEF SongRating, v, w, m, n, k, l, x, y
<1> QED BY <1>5, <1>6, SMT

(* The section of the other version does not change. *)
LEMMA OthersStay ==
  ASSUME NEW R, IsFiniteSet(R), \A r \in R : r.rating \in Nat, NEW new, NEW n \in Nat,
         NEW x, x.rating \in Nat, x.current # new,
         NEW F, BestChoice(F, R, new, n), NEW H, BestChoice(H, R \cup {x}, new, n)
  PROVE  Worth(H) = Worth(F)
<1>1. {r \in R \cup {x} : r.current = new} = {r \in R : r.current = new}
  OBVIOUS
<1>2. ChoicesOf(R \cup {x}, new, n) = ChoicesOf(R, new, n)
  BY <1>1 DEF ChoicesOf
<1>3. Worth(F) <= Worth(H) /\ Worth(H) <= Worth(F)
  BY <1>2 DEF BestChoice
<1>4. Worth(F) \in Int /\ Worth(H) \in Int
  BY <1>2, Choosing DEF BestChoice
<1> QED BY <1>3, <1>4

(* The total of a list is the worth of two best choices. *)
LEMMA TotalIs ==
  ASSUME NEW records, Divisible(Rated(records, "actual"))
  PROVE  LET b50 == B50(records, "actual")
             R == Rated(records, "actual")
             Holds(s, new, n) == /\ BestChoice(ToSet(s), R, new, n) /\ IsFiniteSet(ToSet(s))
                                 /\ Len(s) = Cardinality(ToSet(s))
                                 /\ s # <<>> => Last(s) \in ToSet(s) /\ \A f \in ToSet(s) : f.rating >= Last(s).rating
         IN /\ Holds(b50.legacy, FALSE, LegacyCapacity) /\ Holds(b50.current, TRUE, CurrentCapacity)
            /\ b50.total = Worth(ToSet(b50.legacy)) + Worth(ToSet(b50.current))
<1> DEFINE R == Rated(records, "actual")
           unique == Unique(R)
           b50 == B50(records, "actual")
           legacy == SectionOf(Part(unique, FALSE), LegacyCapacity)
           current == SectionOf(Part(unique, TRUE), CurrentCapacity)
           Holds(s, new, n) == /\ BestChoice(ToSet(s), R, new, n) /\ IsFiniteSet(ToSet(s))
                               /\ Len(s) = Cardinality(ToSet(s))
                               /\ s # <<>> => Last(s) \in ToSet(s) /\ \A f \in ToSet(s) : f.rating >= Last(s).rating
<1>1. LegacyCapacity \in Nat /\ CurrentCapacity \in Nat
  BY CapacityAssumption
<1>2. Divisible(R)
  OBVIOUS
<1>3. unique \subseteq R
  <2> HIDE DEF R
  <2> QED BY <1>2, OneOfEach DEF Divisible
<1>4. Part(unique, FALSE) = {r \in unique : ~r.current} /\ Part(unique, TRUE) = {r \in unique : r.current}
  BY <1>2, <1>3 DEF Part, Divisible
<1> DEFINE l == SectionOf({r \in unique : ~r.current}, LegacyCapacity)
           c == SectionOf({r \in unique : r.current}, CurrentCapacity)
<1>5. b50 = [legacy |-> l, current |-> c, b35 |-> SumRating(l), b15 |-> SumRating(c),
             total |-> SumRating(l) + SumRating(c), fitIndex |-> FitIndex(l \o c)]
  BY Zenon DEF B50, Using
<1>6. b50.legacy = legacy /\ b50.current = current /\ b50.total = SumRating(legacy) + SumRating(current)
  <2>1. l = legacy /\ c = current
    BY <1>4
  <2> HIDE DEF l, c, legacy, current, b50
  <2> QED BY <2>1, <1>5
<1> HIDE DEF unique
<1> HIDE DEF R, b50
<1>7. Holds(legacy, FALSE, LegacyCapacity) /\ SumRating(legacy) = Worth(ToSet(legacy))
  BY <1>1, <1>2, SectionList DEF unique, BestChoice
<1>8. Holds(current, TRUE, CurrentCapacity) /\ SumRating(current) = Worth(ToSet(current))
  BY <1>1, <1>2, SectionList DEF unique, BestChoice
<1> HIDE DEF legacy, current
<1> QED BY <1>6, <1>7, <1>8 DEF R, b50

(* What is rated of the scores of a player. *)
RatedOf(scores, catalog) == Rated(FromScores(scores, catalog), "actual")
(* The question that asks for the list of a player. *)
Question(scores, catalog) == [scores |-> scores, catalog |-> catalog, mode |-> "actual"]

(* The records of scores can be put in order, and are of the version of their
   chart. *)
LEMMA RecordsAre ==
  ASSUME NEW q, Judgeable(q)
  PROVE  /\ Divisible(RatedOf(q.scores, q.catalog))
         /\ \A r \in FromScores(q.scores, q.catalog) : r \in JudgedData(q.catalog) /\ r.current = q.catalog[r.chart].current
         /\ IsFiniteSet(FromScores(q.scores, q.catalog))
<1> DEFINE p == Question(q.scores, q.catalog)
<1>1. p.scores = q.scores /\ p.catalog = q.catalog /\ p.mode = "actual"
  BY DEF Question
<1>2. Ratable(p)
  BY <1>1 DEF Ratable, Judgeable
<1>3. Divisible(Rated(FromScores(p.scores, p.catalog), p.mode))
  BY <1>2, RatedIs
<1>4. Divisible(RatedOf(q.scores, q.catalog))
  BY <1>1, <1>3 DEF RatedOf
<1>5. /\ q.catalog \in [DOMAIN q.catalog -> ChartData]
      /\ q.scores \subseteq ScoreData(q.catalog) /\ IsFiniteSet(q.scores)
  BY DEF Judgeable
<1>6. \A r \in FromScores(q.scores, q.catalog) : r \in JudgedData(q.catalog) /\ r.current = q.catalog[r.chart].current
  BY <1>5, Judges DEF FromScores
<1>7. IsFiniteSet(FromScores(q.scores, q.catalog))
  <2> DEFINE f == [s \in q.scores |-> FromScore(s, q.catalog)]
  <2>1. FromScores(q.scores, q.catalog) = {f[s] : s \in q.scores}
    BY DEF FromScores
  <2> HIDE DEF f
  <2> QED BY <2>1, <1>5, ImageFinite
<1> QED BY <1>4, <1>6, <1>7

(* The score of a chart that is played up to a target. *)
NewScore(chart, target) ==
  [chart |-> chart, achievement |-> target, dx |-> None, constant |-> None, rating |-> None]

(* What a play adds, and the question after it. *)
PlayOf(q, c, t) == FromScore(NewScore(c, t), q.catalog)
AfterPlay(q, c, t) == [scores |-> Played(q.scores, c, t), catalog |-> q.catalog]

(* A play is one rated record more. *)
LEMMA PlayedIs ==
  ASSUME NEW q, Judgeable(q), NEW c \in DOMAIN q.catalog, q.catalog[c].constant # None, ~q.catalog[c].utage,
         NEW t \in Nat
  PROVE  LET x == PlayOf(q, c, t)
             p == AfterPlay(q, c, t)
         IN /\ Judgeable(p)
            /\ RatedOf(p.scores, q.catalog) = RatedOf(q.scores, q.catalog) \cup {x}
            /\ x.chart = c /\ x.rating = SongRating(q.catalog[c].constant, t) /\ x.rating \in Nat
            /\ x.current = q.catalog[c].current
<1> DEFINE catalog == q.catalog
           new == NewScore(c, t)
           x == FromScore(new, catalog)
           p == [scores |-> Played(q.scores, c, t), catalog |-> q.catalog]
           chart == catalog[c]
<1>1. /\ DOMAIN catalog \subseteq Int /\ catalog \in [DOMAIN catalog -> ChartData]
      /\ q.scores \subseteq ScoreData(catalog) /\ IsFiniteSet(q.scores)
  BY DEF Judgeable
<1>2. p.scores = q.scores \cup {new} /\ p.catalog = catalog
  BY DEF Played, NewScore
<1>3. new \in ScoreData(catalog)
  BY DEF NewScore, ScoreData, Measured
<1>4. Judgeable(p)
  <2>1. p.scores \subseteq ScoreData(catalog)
    BY <1>1, <1>2, <1>3
  <2>2. IsFiniteSet(p.scores)
    BY <1>1, <1>2, FS_AddElement
  <2> HIDE DEF p
  <2> QED BY <2>1, <2>2, <1>1, <1>2 DEF Judgeable
<1> HIDE DEF p
<1>5. chart \in ChartData /\ chart.constant \in Nat /\ chart.utage = FALSE
  BY <1>1 DEF ChartData, Measured
<1>6. SongRating(chart.constant, t) \in Nat
  BY <1>5, SongRatingIs
<1>7. x = [chart |-> c, utage |-> chart.utage, current |-> chart.current,
           constant |-> chart.constant, fit |-> chart.fit, achievement |-> t, dx |-> None, original |-> None,
           rating |-> SongRating(chart.constant, t)]
  <2>1. new.chart = c /\ new.achievement = t /\ new.dx = None /\ new.constant = None
    BY DEF NewScore
  <2>2. t # None /\ chart.constant # None /\ ~chart.utage
    BY <1>5 DEF None
  <2>3. Or(new.constant, chart.constant) = chart.constant
    BY <2>1 DEF Or
  <2> HIDE DEF new
  <2> QED BY <2>1, <2>2, <2>3, Zenon DEF FromScore
<1> HIDE DEF chart, new
<1>8. /\ x.chart = c /\ x.rating = SongRating(chart.constant, t) /\ x.rating \in Nat
      /\ x.current = chart.current /\ x.utage = chart.utage
  <2> HIDE DEF x
  <2> QED BY <1>6, <1>7
<1>9. FromScores(p.scores, catalog) = FromScores(q.scores, catalog) \cup {x}
  BY <1>2 DEF FromScores
<1> HIDE DEF x
<1>10. RatedOf(p.scores, catalog) = RatedOf(q.scores, catalog) \cup {x}
  <2>1. ~x.utage /\ x.rating # None
    BY <1>5, <1>8 DEF None
  <2>2. \A S : Rated(S, "actual") = {r \in {s \in S : ~s.utage} : r.rating # None}
    BY DEF Rated
  <2> QED BY <2>1, <2>2, <1>9 DEF RatedOf
<1>11. PlayOf(q, c, t) = x /\ AfterPlay(q, c, t) = p
  BY DEF PlayOf, AfterPlay, x, new, p
<1> QED BY <1>4, <1>8, <1>10, <1>11 DEF chart

(* A play raises the total by what its rating is above both the old one of the
   chart and the least of a full section. *)
LEMMA TotalAfter ==
  ASSUME NEW q, Judgeable(q), NEW c \in DOMAIN q.catalog, q.catalog[c].constant # None, ~q.catalog[c].utage,
         NEW t \in Nat, NEW old \in Nat, OldRating(RatedOf(q.scores, q.catalog), c, old)
  PROVE  LET b50(scores) == B50(FromScores(scores, q.catalog), "actual")
             now == b50(q.scores)
             own == IF q.catalog[c].current THEN now.current ELSE now.legacy
             capacity == IF q.catalog[c].current THEN CurrentCapacity ELSE LegacyCapacity
             least == ReplacementFloor(own, capacity)
             floor == IF old >= least THEN old ELSE least
             rating == SongRating(q.catalog[c].constant, t)
         IN /\ least \in Nat /\ rating \in Nat /\ now.total \in Int
            /\ b50(Played(q.scores, c, t)).total = IF rating > floor THEN now.total + (rating - floor) ELSE now.total
<1> DEFINE catalog == q.catalog
           R == RatedOf(q.scores, catalog)
           x == PlayOf(q, c, t)
           p == AfterPlay(q, c, t)
           S == RatedOf(p.scores, catalog)
           new == catalog[c].current
           now == B50(FromScores(q.scores, catalog), "actual")
           after == B50(FromScores(p.scores, catalog), "actual")
           capacity == IF new THEN CurrentCapacity ELSE LegacyCapacity
           own == IF new THEN now.current ELSE now.legacy
           least == ReplacementFloor(own, capacity)
           floor == IF old >= least THEN old ELSE least
           rating == SongRating(catalog[c].constant, t)
<1>1. /\ Judgeable(p) /\ S = R \cup {x}
      /\ x.chart = c /\ x.rating = rating /\ x.rating \in Nat /\ x.current = new
  BY PlayedIs
<1>2. p.scores = Played(q.scores, c, t) /\ p.catalog = catalog
  BY DEF AfterPlay
<1> HIDE DEF p
<1>3. Divisible(R)
  BY RecordsAre
<1>4. Divisible(S)
  BY <1>1, <1>2, RecordsAre
<1>5. new \in BOOLEAN
  BY DEF Judgeable, ChartData
<1>6. LegacyCapacity \in Nat \ {0} /\ CurrentCapacity \in Nat \ {0}
  BY CapacityAssumption
<1> DEFINE Lists(s, T, m, n) ==
             /\ BestChoice(ToSet(s), T, m, n) /\ IsFiniteSet(ToSet(s)) /\ Len(s) = Cardinality(ToSet(s))
             /\ s # <<>> => Last(s) \in ToSet(s) /\ \A f \in ToSet(s) : f.rating >= Last(s).rating
<1>7. /\ Lists(now.legacy, R, FALSE, LegacyCapacity) /\ Lists(now.current, R, TRUE, CurrentCapacity)
      /\ now.total = Worth(ToSet(now.legacy)) + Worth(ToSet(now.current))
  BY <1>3, TotalIs DEF RatedOf
<1>8. /\ Lists(after.legacy, S, FALSE, LegacyCapacity) /\ Lists(after.current, S, TRUE, CurrentCapacity)
      /\ after.total = Worth(ToSet(after.legacy)) + Worth(ToSet(after.current))
  BY <1>4, TotalIs DEF RatedOf
<1>9. IsFiniteSet(R) /\ \A r \in R : r.rating \in Nat /\ r.current \in BOOLEAN
  <2> HIDE DEF R
  <2> QED BY <1>3 DEF Divisible, Comparable
<1>10. \A r \in R : r.chart = x.chart => r.current = new
  <2>1. \A r \in FromScores(q.scores, q.catalog) : r.current = q.catalog[r.chart].current
    BY RecordsAre
  <2>2. R \subseteq FromScores(q.scores, q.catalog)
    BY DEF RatedOf, Rated
  <2> QED BY <2>1, <2>2, <1>1
<1>11. OldRating(R, x.chart, old)
  BY <1>1
<1> HIDE DEF R, S, x, now, after
<1>12. Lists(own, R, new, capacity) /\ capacity \in Nat \ {0}
  BY <1>5, <1>6, <1>7
<1>13. least \in Nat /\ LeastOf(ToSet(own), capacity, least)
  <2>1. ToSet(own) \subseteq R
    <3> HIDE DEF own, capacity, new
    <3>1. ToSet(own) \in ChoicesOf(R, new, capacity)
      BY <1>12 DEF BestChoice
    <3> QED BY <3>1 DEF ChoicesOf
  <2> HIDE DEF own, capacity, new
  <2>2. CASE Cardinality(ToSet(own)) >= capacity
    <3>1. Full(own, capacity)
      BY <2>2, <1>12 DEF Full
    <3>2. own # <<>>
      <4>1. Len(own) # 0
        BY <2>2, <1>12
      <4> QED BY <4>1
    <3>3. least = Last(own).rating
      BY <3>1, <3>2 DEF ReplacementFloor, LastRating
    <3>4. Last(own) \in ToSet(own) /\ \A f \in ToSet(own) : f.rating >= Last(own).rating
      BY <3>2, <1>12
    <3> HIDE DEF least
    <3>5. LeastOf(ToSet(own), capacity, least)
      BY <2>2, <3>3, <3>4 DEF LeastOf
    <3> QED BY <3>3, <3>4, <3>5, <2>1, <1>9
  <2>3. CASE ~(Cardinality(ToSet(own)) >= capacity)
    <3>1. ~Full(own, capacity)
      BY <2>3, <1>12 DEF Full
    <3>2. least = 0
      BY <3>1 DEF ReplacementFloor
    <3> HIDE DEF least
    <3> QED BY <2>3, <3>2 DEF LeastOf
  <2> QED BY <2>2, <2>3
<1> HIDE DEF least
<1>14. Worth(ToSet(now.legacy)) \in Int /\ Worth(ToSet(now.current)) \in Int
  <2>1. ASSUME NEW F, NEW m, NEW n \in Nat, BestChoice(F, R, m, n) PROVE Worth(F) \in Int
    BY <2>1, <1>9, Choosing DEF BestChoice
  <2> QED BY <2>1, <1>6, <1>7
<1>15. ASSUME NEW F, NEW H, BestChoice(F, R, new, capacity), BestChoice(H, R \cup {x}, new, capacity),
             LeastOf(F, capacity, least)
       PROVE Worth(H) = IF rating > floor THEN Worth(F) + rating - floor ELSE Worth(F)
  <2> HIDE DEF capacity, new, rating
  <2>1. Worth(H) = IF x.rating > floor THEN Worth(F) + x.rating - floor ELSE Worth(F)
    BY <1>15, <1>1, <1>9, <1>10, <1>11, <1>12, <1>13, Raises
  <2> QED BY <2>1, <1>1
<1>16. ASSUME NEW F, NEW H, NEW m, NEW n \in Nat, m # new, BestChoice(F, R, m, n), BestChoice(H, R \cup {x}, m, n)
       PROVE Worth(H) = Worth(F)
  BY <1>16, <1>1, <1>9, OthersStay
<1> HIDE DEF rating
<1>17. floor \in Nat /\ rating \in Nat
  BY <1>13, <1>1
<1> HIDE DEF floor
<1>18. now.total \in Int /\ after.total = IF rating > floor THEN now.total + (rating - floor) ELSE now.total
  <2>1. CASE new = TRUE
    <3>1. capacity = CurrentCapacity /\ own = now.current
      BY <2>1
    <3>2. Worth(ToSet(after.current)) = IF rating > floor THEN Worth(ToSet(now.current)) + rating - floor ELSE Worth(ToSet(now.current))
      BY <3>1, <2>1, <1>1, <1>7, <1>8, <1>13, <1>15
    <3>3. Worth(ToSet(after.legacy)) = Worth(ToSet(now.legacy))
      BY <2>1, <1>1, <1>6, <1>7, <1>8, <1>16
    <3> QED BY <3>2, <3>3, <1>7, <1>8, <1>14, <1>17
  <2>2. CASE new = FALSE
    <3>1. capacity = LegacyCapacity /\ own = now.legacy
      BY <2>2
    <3>2. Worth(ToSet(after.legacy)) = IF rating > floor THEN Worth(ToSet(now.legacy)) + rating - floor ELSE Worth(ToSet(now.legacy))
      BY <3>1, <2>2, <1>1, <1>7, <1>8, <1>13, <1>15
    <3>3. Worth(ToSet(after.current)) = Worth(ToSet(now.current))
      BY <2>2, <1>1, <1>6, <1>7, <1>8, <1>16
    <3> QED BY <3>2, <3>3, <1>7, <1>8, <1>14, <1>17
  <2> QED BY <2>1, <2>2, <1>5
<1> QED BY <1>13, <1>17, <1>18, <1>2 DEF floor, least, rating, now, after

-----------------------------------------------------------------------------
(* The old rating of a chart. *)

(* Records that ScoreOrder can put in order. *)
Measurable(S) == \A r \in S : r.achievement \in Int /\ r.dx \in Int /\ r.rating \in Int

(* One record is better than another by the first thing in which they differ. *)
LEMMA ScoreOrderIs ==
  ASSUME NEW l, NEW r
  PROVE  ScoreOrder(l, r) <=>
           \/ l.achievement > r.achievement
           \/ /\ l.achievement = r.achievement
              /\ l.dx > r.dx \/ (l.dx = r.dx /\ l.rating > r.rating)
<1> DEFINE v == <<l.achievement, l.dx, l.rating>>
           w == <<r.achievement, r.dx, r.rating>>
<1>1. DOMAIN v = {1, 2, 3}
  OBVIOUS
<1>2. 1..(1 - 1) = {} /\ 1..(2 - 1) = {1} /\ 1..(3 - 1) = {1, 2}
  OBVIOUS
<1>3. Ahead(v, w) <=> \/ v[1] > w[1]
                      \/ v[2] > w[2] /\ v[1] = w[1]
                      \/ v[3] > w[3] /\ v[1] = w[1] /\ v[2] = w[2]
  <2> HIDE DEF v, w
  <2> QED BY <1>1, <1>2 DEF Ahead
<1> QED BY <1>3 DEF ScoreOrder

(* In every set of records none is better than some record. *)
LEMMA BestExists ==
  ASSUME NEW S, IsFiniteSet(S), Measurable(S), S # {}
  PROVE  \E r \in S : \A q \in S : ~ ScoreOrder(q, r)
<1> DEFINE Ok(A) == \E r \in A : \A q \in A : ~ ScoreOrder(q, r)
           T == {A \in SUBSET S : A # {} => Ok(A)}
<1>1. /\ \A l \in S : ~ ScoreOrder(l, l)
      /\ \A l, r, q \in S : ScoreOrder(l, r) /\ ScoreOrder(r, q) => ScoreOrder(l, q)
  BY ScoreOrderIs DEF Measurable
<1>2. ASSUME NEW A \in SUBSET S, \A B \in SUBSET A : B # A => B \in T PROVE A \in T
  <2> SUFFICES ASSUME A # {} PROVE Ok(A)
    OBVIOUS
  <2>1. PICK x \in A : TRUE
    OBVIOUS
  <2> DEFINE B == {q \in A : ScoreOrder(q, x)}
  <2>2. CASE B = {}
    BY <2>2
  <2>3. CASE B # {}
    <3>1. B \in SUBSET A /\ x \notin B /\ x \in S
      BY <1>1
    <3>2. Ok(B)
      BY <3>1, <1>2, <2>3
    <3>3. PICK r \in B : \A q \in B : ~ ScoreOrder(q, r)
      BY <3>2
    <3>4. ASSUME NEW q \in A, ScoreOrder(q, r) PROVE FALSE
      <4>1. ScoreOrder(q, x)
        BY <3>1, <3>3, <3>4, <1>1
      <4> QED BY <4>1, <3>3, <3>4
    <3> QED BY <3>3, <3>4
  <2> QED BY <2>2, <2>3
<1>3. SUBSET S \subseteq T
  <2> HIDE DEF T
  <2> QED BY <1>2, SubsetInduction
<1> QED BY <1>3

(* BestByChart keeps of a chart one record, with its best achievement. *)
LEMMA BestIs ==
  ASSUME NEW S, IsFiniteSet(S), Measurable(S), NEW c
  PROVE  LET best == {r \in BestByChart(S) : r.chart = c}
         IN IF \E r \in S : r.chart = c
            THEN \E b \in S : best = {b} /\ b.chart = c /\ \A r \in S : r.chart = c => r.achievement <= b.achievement
            ELSE best = {}
<1> DEFINE of(d) == {r \in S : r.chart = d}
           top(d) == CHOOSE r \in of(d) : \A q \in of(d) : ~ ScoreOrder(q, r)
           charts == {r.chart : r \in S}
<1>1. BestByChart(S) = {top(d) : d \in charts}
  BY Zenon DEF BestByChart, FirstOfEach
<1>2. ASSUME NEW d \in charts PROVE top(d) \in of(d) /\ \A q \in of(d) : ~ ScoreOrder(q, top(d))
  <2>1. of(d) # {} /\ of(d) \in SUBSET S
    OBVIOUS
  <2> DEFINE A == of(d)
  <2>2. IsFiniteSet(A) /\ Measurable(A) /\ A # {}
    <3> HIDE DEF A
    <3>1. A \in SUBSET S /\ A # {}
      BY <2>1 DEF A
    <3> QED BY <3>1, FS_Subset DEF Measurable
  <2> HIDE DEF A
  <2>3. \E r \in A : \A q \in A : ~ ScoreOrder(q, r)
    BY <2>2, BestExists
  <2> QED BY <2>3 DEF A
<1> HIDE DEF top
<1>3. CASE \E r \in S : r.chart = c
  <2>1. c \in charts
    BY <1>3
  <2>2. {r \in BestByChart(S) : r.chart = c} = {top(c)}
    BY <1>1, <1>2, <2>1
  <2>3. top(c) \in S /\ top(c).chart = c
    BY <1>2, <2>1
  <2>4. ASSUME NEW r \in S, r.chart = c PROVE r.achievement <= top(c).achievement
    <3>1. ~ ScoreOrder(r, top(c))
      BY <1>2, <2>1, <2>4
    <3> QED BY <3>1, <2>3, ScoreOrderIs DEF Measurable
  <2> QED BY <1>3, <2>2, <2>3, <2>4
<1>4. CASE ~ \E r \in S : r.chart = c
  BY <1>1, <1>2, <1>4
<1> QED BY <1>3, <1>4

(* The greater of two numbers. *)
LEMMA MaxOfTwo ==
  ASSUME NEW x \in Int, NEW y \in Int
  PROVE  Max({x, y}) = IF x >= y THEN x ELSE y
<1> DEFINE P == {x, y}
<1>1. IsFiniteSet(P) /\ P \subseteq Int /\ P # {}
  <2>1. IsFiniteSet({x})
    BY FS_Singleton
  <2>2. P = {x} \cup {y}
    OBVIOUS
  <2> QED BY <2>1, <2>2, FS_AddElement
<1>2. \A z : z \in P <=> z = x \/ z = y
  OBVIOUS
<1> HIDE DEF P
<1>3. Max(P) \in P /\ \A z \in P : Max(P) >= z
  BY <1>1, MaxIs
<1>4. Max(P) = IF x >= y THEN x ELSE y
  BY <1>2, <1>3
<1> QED BY <1>4 DEF P

(* The old achievement of a chart, as a recommendation reads it. *)
OldOf(best, c) == Max({Ranked(r) : r \in {s \in best : s.chart = c}} \cup {None})

(* The old achievement is the best one of the records of the chart. *)
LEMMA OldIs ==
  ASSUME NEW q, Judgeable(q), NEW c \in DOMAIN q.catalog, ~q.catalog[c].utage
  PROVE  LET S == FromScores(q.scores, q.catalog)
             old == OldOf(BestByChart(S), c)
         IN /\ old \in Nat \cup {None}
            /\ \A r \in S : r.chart = c => r.achievement <= old /\ r.utage = FALSE
            /\ old # None => \E r \in S : r.chart = c /\ r.achievement = old
<1> DEFINE S == FromScores(q.scores, q.catalog)
           old == OldOf(BestByChart(S), c)
           best == {s \in BestByChart(S) : s.chart = c}
           Holds == /\ old \in Nat \cup {None}
                    /\ \A r \in S : r.chart = c => r.achievement <= old /\ r.utage = FALSE
                    /\ old # None => \E r \in S : r.chart = c /\ r.achievement = old
<1>1. IsFiniteSet(S) /\ \A r \in S : r \in JudgedData(q.catalog)
  BY RecordsAre
<1>2. ASSUME NEW r \in S, r.chart = c PROVE r.utage = FALSE
  <2>1. PICK s \in q.scores : r = FromScore(s, q.catalog)
    BY DEF FromScores
  <2>2. r.chart = s.chart /\ r.utage = q.catalog[s.chart].utage
    BY <2>1 DEF FromScore
  <2>3. r.utage \in BOOLEAN
    BY <1>1 DEF JudgedData
  <2> QED BY <2>2, <2>3, <1>2
<1> HIDE DEF S
<1>3. \A r \in S : r.achievement \in Nat \cup {None} /\ r.dx \in Int /\ r.rating \in Int
  BY <1>1 DEF JudgedData, Measured, None
<1>4. None = -1
  BY DEF None
<1>5. Measurable(S)
  BY <1>3, <1>4 DEF Measurable
<1>6. \A x \in Int : Max({x} \cup {None}) = IF x >= None THEN x ELSE None
  <2>1. \A x : {x} \cup {None} = {x, None}
    OBVIOUS
  <2> QED BY <2>1, <1>4, MaxOfTwo
<1>7. ASSUME \E r \in S : r.chart = c PROVE Holds
  <2>1. PICK b \in S : best = {b} /\ b.chart = c /\ \A r \in S : r.chart = c => r.achievement <= b.achievement
    BY <1>1, <1>5, <1>7, BestIs
  <2>2. Ranked(b) = b.achievement
    BY <2>1, <1>2 DEF Ranked
  <2>3. {Ranked(r) : r \in best} = {b.achievement}
    BY <2>1, <2>2
  <2>4. old = Max({b.achievement} \cup {None})
    BY <2>3, Zenon DEF OldOf
  <2>5. b.achievement \in Int /\ b.achievement >= None
    BY <1>3, <1>4
  <2>6. old = b.achievement
    BY <2>4, <2>5, <1>6
  <2> HIDE DEF old, best
  <2>7. old \in Nat \cup {None}
    BY <2>6, <1>3
  <2>8. \A r \in S : r.chart = c => r.achievement <= old /\ r.utage = FALSE
    BY <2>1, <2>6, <1>2
  <2>9. \E r \in S : r.chart = c /\ r.achievement = old
    BY <2>1, <2>6
  <2> QED BY <2>7, <2>8, <2>9
<1>8. ASSUME ~ \E r \in S : r.chart = c PROVE Holds
  <2>1. best = {}
    BY <1>1, <1>5, <1>8, BestIs
  <2>2. {Ranked(r) : r \in best} = {}
    BY <2>1
  <2>3. old = Max({} \cup {None})
    BY <2>2, Zenon DEF OldOf
  <2>4. {} \cup {None} = {None} \cup {None}
    OBVIOUS
  <2>5. old = None
    BY <2>3, <2>4, <1>4, <1>6
  <2> HIDE DEF old, best
  <2>6. old \in Nat \cup {None} /\ ~ (old # None)
    BY <2>5
  <2> QED BY <2>6, <1>8
<1> QED BY <1>7, <1>8 DEF S

(* A chart whose scores are rated by the catalog. *)
RatedWell(q, chart) ==
  \A s \in q.scores : s.chart = chart =>
    /\ s.constant \in {None, q.catalog[chart].constant}
    /\ s.achievement = None => s.rating = None
(* The old rating of a chart, as a recommendation reads it. *)
OldRatingOf(q, best, c) ==
  IF OldOf(best, c) = None THEN 0 ELSE SongRating(q.catalog[c].constant, OldOf(best, c))

(* Of a chart whose scores are rated by the catalog, the old rating is that of
   its best record. *)
LEMMA OldRatingIs ==
  ASSUME NEW q, Judgeable(q), NEW c \in DOMAIN q.catalog, q.catalog[c].constant # None, ~q.catalog[c].utage
  PROVE  LET R == RatedOf(q.scores, q.catalog)
             old == OldRatingOf(q, BestByChart(FromScores(q.scores, q.catalog)), c)
         IN /\ old \in Nat
            /\ RatedWell(q, c) => /\ OldRating(R, c, old)
                                  /\ \A r \in R : r.chart = c => r.achievement \in Nat
                                                                 /\ r.rating = SongRating(q.catalog[c].constant, r.achievement)
<1> DEFINE S == FromScores(q.scores, q.catalog)
           R == RatedOf(q.scores, q.catalog)
           achieved == OldOf(BestByChart(S), c)
           old == OldRatingOf(q, BestByChart(S), c)
           constant == q.catalog[c].constant
<1>1. /\ achieved \in Nat \cup {None}
      /\ \A r \in S : r.chart = c => r.achievement <= achieved /\ r.utage = FALSE
      /\ achieved # None => \E r \in S : r.chart = c /\ r.achievement = achieved
  BY OldIs
<1>2. constant \in Nat
  <2>1. q.catalog[c] \in ChartData
    BY DEF Judgeable
  <2> QED BY <2>1 DEF ChartData, Measured
<1>3. R = {r \in S : ~r.utage /\ r.rating # None}
  BY DEF RatedOf, Rated
<1>4. \A r \in S : r \in JudgedData(q.catalog)
  BY RecordsAre
<1>5. old = IF achieved = None THEN 0 ELSE SongRating(constant, achieved)
  BY DEF OldRatingOf
<1>6. ASSUME RatedWell(q, c), NEW r \in S, r.chart = c
      PROVE  r.rating = IF r.achievement # None THEN SongRating(constant, r.achievement) ELSE None
  <2>1. PICK s \in q.scores : r = FromScore(s, q.catalog)
    BY DEF FromScores
  <2> DEFINE chart == q.catalog[s.chart]
             own == Or(s.constant, chart.constant)
  <2>2. /\ r.chart = s.chart /\ r.achievement = s.achievement
        /\ r.rating = IF own # None /\ ~chart.utage /\ s.achievement # None
                      THEN SongRating(own, s.achievement) ELSE s.rating
    BY <2>1 DEF FromScore
  <2>3. s.chart = c
    BY <2>2, <1>6
  <2>4. own = constant
    BY <2>3, <1>6 DEF Or, RatedWell
  <2>5. s.achievement = None => s.rating = None
    BY <2>3, <1>6 DEF RatedWell
  <2>6. chart.utage = q.catalog[c].utage /\ constant # None
    BY <2>3
  <2> HIDE DEF own, chart, constant
  <2> QED BY <2>2, <2>4, <2>5, <2>6
<1> HIDE DEF S, R, achieved, old, constant
<1>7. None = -1
  BY DEF None
<1>8. old \in Nat
  BY <1>1, <1>2, <1>5, SongRatingIs
<1>9. ASSUME RatedWell(q, c), NEW r \in R, r.chart = c
      PROVE  r.achievement \in Nat /\ r.rating = SongRating(constant, r.achievement)
  <2>1. r \in S /\ r.rating # None
    BY <1>3
  <2>2. r.achievement # None
    BY <2>1, <1>6, <1>9
  <2>3. r.achievement \in Nat \cup {None}
    BY <2>1, <1>4 DEF JudgedData, Measured
  <2> QED BY <2>1, <2>2, <2>3, <1>6, <1>9
<1>10. ASSUME RatedWell(q, c) PROVE OldRating(R, c, old)
  <2>1. ASSUME NEW r \in R, r.chart = c PROVE r.rating <= old
    <3>1. r.achievement \in Nat /\ r.rating = SongRating(constant, r.achievement)
      BY <1>9, <1>10, <2>1
    <3>2. r.achievement <= achieved
      BY <1>1, <1>3, <2>1
    <3>3. achieved \in Nat /\ achieved # None
      BY <3>1, <3>2, <1>1, <1>7
    <3>4. SongRating(constant, r.achievement) <= SongRating(constant, achieved)
      BY <3>1, <3>2, <3>3, <1>2, SongRatingGrows
    <3> QED BY <3>1, <3>3, <3>4, <1>5
  <2>2. ASSUME old # 0 PROVE \E r \in R : r.chart = c /\ r.rating = old
    <3>1. achieved # None /\ old = SongRating(constant, achieved) /\ achieved \in Nat
      BY <2>2, <1>1, <1>5
    <3>2. PICK r \in S : r.chart = c /\ r.achievement = achieved
      BY <3>1, <1>1
    <3>3. r.rating = old
      BY <3>1, <3>2, <1>6, <1>10
    <3>4. r.rating # None /\ r.utage = FALSE
      BY <3>2, <3>3, <1>1, <1>7, <1>8
    <3> QED BY <3>2, <3>3, <3>4, <1>3
  <2> QED BY <2>1, <2>2 DEF OldRating
<1> QED BY <1>8, <1>9, <1>10 DEF old, R, S, constant

-----------------------------------------------------------------------------
(* What a recommendation has to beat. *)

(* The last rating of a section is a number. *)
LEMMA LastsAre ==
  ASSUME NEW q, Judgeable(q)
  PROVE  LET b50 == B50(FromScores(q.scores, q.catalog), "actual")
         IN /\ LastRating(b50.legacy) \in Nat /\ LastRating(b50.current) \in Nat
            /\ ToSet(b50.legacy) \subseteq RatedOf(q.scores, q.catalog)
            /\ ToSet(b50.current) \subseteq RatedOf(q.scores, q.catalog)
<1> DEFINE b50 == B50(FromScores(q.scores, q.catalog), "actual")
           R == RatedOf(q.scores, q.catalog)
<1>1. Divisible(R)
  BY RecordsAre
<1> DEFINE Lists(s, m, n) ==
             /\ BestChoice(ToSet(s), R, m, n)
             /\ s # <<>> => Last(s) \in ToSet(s)
<1>2. Lists(b50.legacy, FALSE, LegacyCapacity) /\ Lists(b50.current, TRUE, CurrentCapacity)
  BY <1>1, TotalIs DEF RatedOf
<1> HIDE DEF R, b50
<1>3. \A r \in R : r.rating \in Nat
  BY <1>1 DEF Divisible, Comparable
<1>4. ASSUME NEW s, NEW m, NEW n, Lists(s, m, n) PROVE LastRating(s) \in Nat /\ ToSet(s) \subseteq R
  <2>1. ToSet(s) \subseteq R
    BY <1>4 DEF BestChoice, ChoicesOf
  <2>2. s # <<>> => Last(s).rating \in Nat
    BY <2>1, <1>3, <1>4
  <2> QED BY <2>1, <2>2 DEF LastRating
<1>5. LastRating(b50.legacy) \in Nat /\ ToSet(b50.legacy) \subseteq R
  BY <1>2, <1>4
<1>6. LastRating(b50.current) \in Nat /\ ToSet(b50.current) \subseteq R
  BY <1>2, <1>4
<1> QED BY <1>5, <1>6 DEF R, b50

(* The floor is not below the least of the section, and of a full section that
   has a rating it is the least. *)
LEMMA FloorIs ==
  ASSUME NEW own, NEW other, NEW capacity, LastRating(own) \in Nat, LastRating(other) \in Nat
  PROVE  LET floor == RecommendationFloor(own, other, capacity)
             least == ReplacementFloor(own, capacity)
         IN /\ least \in Nat /\ floor \in Nat /\ floor >= least
            /\ Full(own, capacity) /\ LastRating(own) > 0 => floor = LastRating(own) /\ least = LastRating(own)
<1> DEFINE l == LastRating(own)
           m == LastRating(other)
           full == Full(own, capacity)
           candidate == CandidateFloor(own, other, capacity)
           least == ReplacementFloor(own, capacity)
<1>1. least = IF full THEN l ELSE 0
  BY DEF ReplacementFloor
<1>2. candidate \in Nat /\ (full /\ l > 0 => candidate = l)
  <2> DEFINE P == {l, m, 250}
  <2>1. IsFiniteSet(P) /\ P \subseteq Nat /\ P # {}
    <3>1. IsFiniteSet({l})
      BY FS_Singleton
    <3>2. IsFiniteSet({l} \cup {m})
      BY <3>1, FS_AddElement
    <3>3. IsFiniteSet(({l} \cup {m}) \cup {250})
      BY <3>2, FS_AddElement
    <3>4. P = ({l} \cup {m}) \cup {250}
      OBVIOUS
    <3>5. 250 \in Nat
      OBVIOUS
    <3> QED BY <3>3, <3>4, <3>5
  <2> HIDE DEF P
  <2>2. Max(P) \in Nat
    <3>1. P \subseteq Int
      BY <2>1
    <3> QED BY <2>1, <3>1, MaxIs
  <2>3. candidate = CASE ~full -> Max(P)
                      [] full /\ l # 0 -> l
                      [] full /\ l = 0 /\ m # 0 -> m
                      [] OTHER -> 250
    BY Zenon DEF CandidateFloor, P
  <2> HIDE DEF l, m, full, candidate
  <2>4. l \in Nat /\ m \in Nat
    BY DEF l, m
  <2>5. full \/ ~full
    OBVIOUS
  <2>6. CASE ~full
    BY <2>2, <2>3, <2>6
  <2>7. CASE full
    BY <2>3, <2>4, <2>7
  <2> QED BY <2>5, <2>6, <2>7
<1>3. RecommendationFloor(own, other, capacity) = Max({least, candidate})
  BY DEF RecommendationFloor
<1> HIDE DEF least, candidate
<1>4. least \in Nat
  BY <1>1
<1>5. Max({least, candidate}) = IF least >= candidate THEN least ELSE candidate
  BY <1>2, <1>4, MaxOfTwo
<1> QED BY <1>1, <1>2, <1>3, <1>4, <1>5 DEF least

(* What an item is made from. *)
ItemOf(q, best, chart, target, replacement) ==
  [chart |-> chart, bucket |-> FitBucket(q.catalog[chart]), target |-> target,
   rating |-> SongRating(q.catalog[chart].constant, target),
   gain |-> Gain(SongRating(q.catalog[chart].constant, target), OldRatingOf(q, best, chart), replacement)]

(* The targets at which a chart passes the floors. *)
PassingOf(q, best, chart, gate, floor) ==
  {t \in Targets : PassesFloor(SongRating(q.catalog[chart].constant, t), OldRatingOf(q, best, chart), gate, floor, q.score)}

(* The section that is advised. *)
OwnOf(b50, new) == IF new THEN b50.current ELSE b50.legacy
(* The other section. *)
OtherOf(b50, new) == IF new THEN b50.legacy ELSE b50.current
(* The capacity of the section. *)
CapacityOf(new) == IF new THEN CurrentCapacity ELSE LegacyCapacity
(* The least of the section if it is full. *)
LeastIn(b50, new) == ReplacementFloor(OwnOf(b50, new), CapacityOf(new))
(* The floor of the section. *)
FloorOf(b50, new) == RecommendationFloor(OwnOf(b50, new), OtherOf(b50, new), CapacityOf(new))
(* What a rating has to be above. *)
GateOf(q, b50, new) ==
  IF q.algorithm = "legacy" THEN FloorOf(b50, new) ELSE EffectiveFloor(LeastIn(b50, new), FloorOf(b50, new))
(* The charts that may be advised. *)
OpenCharts(q, b50, new) == Seeds(q.catalog, new) \ Ignored(OwnOf(b50, new))

(* An item is a chart at a target that passes; by the legacy rule the least
   such target of a chart gives an item. *)
LEMMA ItemsAre ==
  ASSUME NEW q, NEW b50, NEW best, NEW new
  PROVE  /\ \A i \in Items(q, b50, best, new) : \E c \in OpenCharts(q, b50, new) :
              \E t \in PassingOf(q, best, c, GateOf(q, b50, new), FloorOf(b50, new)) :
                 /\ i = ItemOf(q, best, c, t, LeastIn(b50, new))
                 /\ q.algorithm = "expected" => SongRating(q.catalog[c].constant, t) > LeastIn(b50, new)
         /\ q.algorithm # "expected" =>
              \A c \in OpenCharts(q, b50, new) : \A t \in PassingOf(q, best, c, GateOf(q, b50, new), FloorOf(b50, new)) :
                (\A u \in PassingOf(q, best, c, GateOf(q, b50, new), FloorOf(b50, new)) : t <= u)
                => ItemOf(q, best, c, t, LeastIn(b50, new)) \in Items(q, b50, best, new)
<1> DEFINE own == IF new THEN b50.current ELSE b50.legacy
           other == IF new THEN b50.legacy ELSE b50.current
           capacity == IF new THEN CurrentCapacity ELSE LegacyCapacity
           replacement == ReplacementFloor(own, capacity)
           floor == RecommendationFloor(own, other, capacity)
           ability == {[target |-> t, ability |-> Ability(best, t, floor)] : t \in Targets}
           gate == IF q.algorithm = "legacy" THEN floor ELSE EffectiveFloor(replacement, floor)
           old(c) == OldOf(best, c)
           oldRating(c) == IF old(c) = None THEN 0 ELSE SongRating(q.catalog[c].constant, old(c))
           rating(c, t) == SongRating(q.catalog[c].constant, t)
           passing(c) == {t \in Targets : PassesFloor(rating(c, t), oldRating(c), gate, floor, q.score)}
           before(c) == IF old(c) = None THEN 0 ELSE old(c)
           expected(c) ==
             {t \in passing(c) :
                /\ TargetAllowed(t, before(c))
                /\ \E a \in ability : a.target = t /\ Reachable(q.catalog[c].constant, t, before(c), a.ability)
                /\ rating(c, t) > replacement}
           targets(c) == IF q.algorithm = "expected" THEN expected(c)
                         ELSE {t \in passing(c) : \A u \in passing(c) : t <= u}
           charts == Seeds(q.catalog, new) \ Ignored(own)
           item(c, t) == [chart |-> c, bucket |-> FitBucket(q.catalog[c]), target |-> t, rating |-> rating(c, t),
                          gain |-> Gain(rating(c, t), oldRating(c), replacement)]
           items == Items(q, b50, best, new)
<1>1. items = UNION {{item(c, t) : t \in targets(c)} : c \in charts}
  BY Zenon DEF Items, Using, OldOf
<1>2. \A c : oldRating(c) = OldRatingOf(q, best, c)
  BY DEF OldRatingOf
<1>3. \A c, t : item(c, t) = ItemOf(q, best, c, t, replacement)
  BY <1>2 DEF ItemOf
<1>4. \A c, t : t \in targets(c) => t \in passing(c) /\ (q.algorithm = "expected" => rating(c, t) > replacement)
  OBVIOUS
<1>5. \A c : q.algorithm # "expected" => \A t \in passing(c) : (\A u \in passing(c) : t <= u) => t \in targets(c)
  OBVIOUS
<1>6. \A c : passing(c) = {t \in Targets : PassesFloor(rating(c, t), OldRatingOf(q, best, c), gate, floor, q.score)}
  BY <1>2
<1> HIDE DEF items, item, targets, oldRating, charts
<1>7. ASSUME NEW i \in items
      PROVE  \E c \in charts : \E t \in passing(c) :
               i = item(c, t) /\ (q.algorithm = "expected" => rating(c, t) > replacement)
  <2> HIDE DEF passing, rating
  <2>1. PICK c \in charts : i \in {item(c, t) : t \in targets(c)}
    BY <1>1
  <2>2. PICK t \in targets(c) : i = item(c, t)
    BY <2>1
  <2> QED BY <2>1, <2>2, <1>4
<1>8. ASSUME q.algorithm # "expected", NEW c \in charts, NEW t \in passing(c), \A u \in passing(c) : t <= u
      PROVE  item(c, t) \in items
  <2> HIDE DEF passing
  <2>1. t \in targets(c)
    BY <1>5, <1>8
  <2> QED BY <2>1, <1>1
<1> HIDE DEF passing, replacement, gate, floor
<1>9. \A i \in items : \E c \in charts : \E t \in passing(c) :
        /\ i = ItemOf(q, best, c, t, replacement)
        /\ q.algorithm = "expected" => rating(c, t) > replacement
  BY <1>3, <1>7
<1>10. q.algorithm # "expected" =>
         \A c \in charts : \A t \in passing(c) :
           (\A u \in passing(c) : t <= u) => ItemOf(q, best, c, t, replacement) \in items
  BY <1>3, <1>8
<1>11. \A c : passing(c) = PassingOf(q, best, c, gate, floor)
  BY <1>6 DEF PassingOf
<1>12. /\ \A i \in items : \E c \in charts : \E t \in PassingOf(q, best, c, gate, floor) :
            /\ i = ItemOf(q, best, c, t, replacement)
            /\ q.algorithm = "expected" => rating(c, t) > replacement
       /\ q.algorithm # "expected" =>
            \A c \in charts : \A t \in PassingOf(q, best, c, gate, floor) :
              (\A u \in PassingOf(q, best, c, gate, floor) : t <= u) => ItemOf(q, best, c, t, replacement) \in items
  BY <1>9, <1>10, <1>11
<1>13. /\ replacement = LeastIn(b50, new) /\ floor = FloorOf(b50, new)
       /\ gate = GateOf(q, b50, new) /\ charts = OpenCharts(q, b50, new)
  BY DEF replacement, floor, gate, charts, LeastIn, FloorOf, GateOf, OpenCharts, OwnOf, OtherOf, CapacityOf
<1> QED BY <1>12, <1>13 DEF items

-----------------------------------------------------------------------------
(* Advice and what it brings. *)

(* The list of a player. *)
B50Of(scores, catalog) == B50(FromScores(scores, catalog), "actual")
(* The best records of a player. *)
BestRecords(q) == BestByChart(FromScores(q.scores, q.catalog))
(* The old rating of a chart of a player. *)
OldIn(q, chart) == OldRatingOf(q, BestRecords(q), chart)

(* The charts that the catalog offers for a section. *)
LEMMA SeedsAre ==
  ASSUME NEW q, Judgeable(q), NEW new, NEW c \in Seeds(q.catalog, new)
  PROVE  /\ c \in DOMAIN q.catalog /\ q.catalog[c].constant # None /\ ~q.catalog[c].utage
         /\ q.catalog[c].current = new /\ q.catalog[c].constant \in Nat
<1>1. c \in DOMAIN q.catalog /\ q.catalog[c].constant # None /\ ~q.catalog[c].utage /\ q.catalog[c].current = new
  BY DEF Seeds
<1>2. q.catalog[c] \in ChartData
  BY <1>1 DEF Judgeable
<1>3. q.catalog[c].constant \in Nat
  BY <1>1, <1>2 DEF ChartData, Measured
<1> QED BY <1>1, <1>3

(* The rating of an item is above the old one of the chart and above the least
   of the section, and its gain is what it is above both. *)
LEMMA AdviceIs ==
  ASSUME NEW q, Advisable(q), NEW new \in BOOLEAN,
         NEW i \in Items(q, B50Of(q.scores, q.catalog), BestRecords(q), new)
  PROVE  LET rating == SongRating(q.catalog[i.chart].constant, i.target)
             old == OldIn(q, i.chart)
             least == LeastIn(B50Of(q.scores, q.catalog), new)
         IN /\ i.chart \in Seeds(q.catalog, new) /\ i.target \in Nat
            /\ old \in Nat /\ least \in Nat /\ rating \in Nat
            /\ rating > old /\ rating > least
            /\ i.gain = rating - (IF old >= least THEN old ELSE least)
<1> DEFINE b50 == B50Of(q.scores, q.catalog)
           best == BestRecords(q)
           floor == FloorOf(b50, new)
           gate == GateOf(q, b50, new)
           least == LeastIn(b50, new)
<1>0. PICK c \in OpenCharts(q, b50, new) : \E t \in PassingOf(q, best, c, gate, floor) :
        /\ i = ItemOf(q, best, c, t, least)
        /\ q.algorithm = "expected" => SongRating(q.catalog[c].constant, t) > least
  BY ItemsAre
<1>1. PICK t \in PassingOf(q, best, c, gate, floor) :
        /\ i = ItemOf(q, best, c, t, least)
        /\ q.algorithm = "expected" => SongRating(q.catalog[c].constant, t) > least
  BY <1>0
<1> DEFINE rating == SongRating(q.catalog[c].constant, t)
           old == OldRatingOf(q, best, c)
<1>2. i.chart = c /\ i.target = t /\ i.gain = Gain(rating, old, least)
  BY <1>1 DEF ItemOf
<1>3. Judgeable(q) /\ q.algorithm \in {"legacy", "expected"}
  BY DEF Advisable
<1>4. c \in Seeds(q.catalog, new)
  BY DEF OpenCharts
<1>5. t \in Targets /\ PassesFloor(rating, old, gate, floor, q.score)
  BY DEF PassingOf
<1>6. t \in Nat
  BY <1>5 DEF Targets
<1>7. rating \in Nat
  BY <1>3, <1>4, <1>6, SeedsAre, SongRatingIs
<1>8. old \in Nat
  <2>1. c \in DOMAIN q.catalog /\ q.catalog[c].constant # None /\ ~q.catalog[c].utage
    BY <1>3, <1>4, SeedsAre
  <2> QED BY <2>1, <1>3, OldRatingIs DEF BestRecords
<1>9. least \in Nat /\ floor \in Nat /\ floor >= least
  <2>1. LastRating(b50.legacy) \in Nat /\ LastRating(b50.current) \in Nat
    BY <1>3, LastsAre DEF B50Of
  <2>2. LastRating(OwnOf(b50, new)) \in Nat /\ LastRating(OtherOf(b50, new)) \in Nat
    BY <2>1 DEF OwnOf, OtherOf
  <2> QED BY <2>2, FloorIs DEF LeastIn, FloorOf
<1>10. gate = IF q.algorithm = "legacy" THEN floor ELSE EffectiveFloor(least, floor)
  BY DEF GateOf
<1> HIDE DEF rating, old, least, floor, gate
<1>11. rating > gate /\ rating > old
  BY <1>5 DEF PassesFloor
<1>12. rating > least
  <2>1. CASE q.algorithm = "legacy"
    BY <2>1, <1>7, <1>9, <1>10, <1>11
  <2>2. CASE q.algorithm = "expected"
    BY <2>2, <1>1 DEF rating
  <2> QED BY <2>1, <2>2, <1>3
<1>13. i.gain = rating - (IF old >= least THEN old ELSE least)
  <2>1. Max({old, least}) = IF old >= least THEN old ELSE least
    BY <1>8, <1>9, MaxOfTwo
  <2> QED BY <1>2, <2>1 DEF Gain
<1> QED BY <1>2, <1>4, <1>6, <1>7, <1>8, <1>9, <1>11, <1>12, <1>13 DEF rating, old, least, OldIn

(* The total after a chart of a section is played. *)
LEMMA Payoff ==
  ASSUME NEW q, Judgeable(q), NEW new \in BOOLEAN, NEW c \in Seeds(q.catalog, new), NEW t \in Nat, RatedWell(q, c)
  PROVE  LET rating == SongRating(q.catalog[c].constant, t)
             old == OldIn(q, c)
             least == LeastIn(B50Of(q.scores, q.catalog), new)
             floor == IF old >= least THEN old ELSE least
             before == B50Of(q.scores, q.catalog).total
         IN /\ before \in Int
            /\ B50Of(Played(q.scores, c, t), q.catalog).total = IF rating > floor THEN before + (rating - floor) ELSE before
<1> DEFINE rating == SongRating(q.catalog[c].constant, t)
           old == OldIn(q, c)
           now == B50(FromScores(q.scores, q.catalog), "actual")
           own == IF q.catalog[c].current THEN now.current ELSE now.legacy
           capacity == IF q.catalog[c].current THEN CurrentCapacity ELSE LegacyCapacity
           least == ReplacementFloor(own, capacity)
           floor == IF old >= least THEN old ELSE least
           after == B50(FromScores(Played(q.scores, c, t), q.catalog), "actual").total
<1>1. c \in DOMAIN q.catalog /\ q.catalog[c].constant # None /\ ~q.catalog[c].utage /\ q.catalog[c].current = new
  BY SeedsAre
<1>2. old \in Nat /\ OldRating(RatedOf(q.scores, q.catalog), c, old)
  BY <1>1, OldRatingIs DEF OldIn, BestRecords
<1>3. now.total \in Int /\ after = IF rating > floor THEN now.total + (rating - floor) ELSE now.total
  <2> HIDE DEF old
  <2> QED BY <1>1, <1>2, TotalAfter
<1>4. least = LeastIn(now, new)
  BY <1>1 DEF LeastIn, OwnOf, CapacityOf
<1> HIDE DEF old, now, rating, after
<1>5. now.total \in Int /\ after = IF rating > (IF old >= LeastIn(now, new) THEN old ELSE LeastIn(now, new))
                                   THEN now.total + (rating - (IF old >= LeastIn(now, new) THEN old ELSE LeastIn(now, new)))
                                   ELSE now.total
  BY <1>3, <1>4
<1> QED BY <1>5 DEF now, after, old, rating, B50Of

(* A chart that is advised raises the total by the gain. *)
LEMMA Gains ==
  ASSUME NEW q, Advisable(q), NEW new \in BOOLEAN,
         NEW i \in Items(q, B50Of(q.scores, q.catalog), BestRecords(q), new)
  PROVE  /\ i.gain > 0 /\ i.chart \in Seeds(q.catalog, new)
         /\ RatedWell(q, i.chart) => B50Of(Played(q.scores, i.chart, i.target), q.catalog).total
                                     = B50Of(q.scores, q.catalog).total + i.gain
<1> DEFINE rating == SongRating(q.catalog[i.chart].constant, i.target)
           old == OldIn(q, i.chart)
           least == LeastIn(B50Of(q.scores, q.catalog), new)
           before == B50Of(q.scores, q.catalog).total
           after == B50Of(Played(q.scores, i.chart, i.target), q.catalog).total
<1>1. /\ i.chart \in Seeds(q.catalog, new) /\ i.target \in Nat
      /\ old \in Nat /\ least \in Nat /\ rating \in Nat
      /\ rating > old /\ rating > least
      /\ i.gain = rating - (IF old >= least THEN old ELSE least)
  BY AdviceIs
<1>2. ASSUME RatedWell(q, i.chart)
      PROVE  before \in Int /\ after = IF rating > (IF old >= least THEN old ELSE least)
                                       THEN before + (rating - (IF old >= least THEN old ELSE least)) ELSE before
  <2>1. Judgeable(q)
    BY DEF Advisable
  <2> QED BY <2>1, <1>1, <1>2, Payoff
<1> HIDE DEF rating, old, least, before, after
<1> QED BY <1>1, <1>2 DEF before, after

(* Of the targets that some set has, one is the least. *)
LEMMA LeastTarget ==
  ASSUME NEW P \in SUBSET Targets, P # {}
  PROVE  \E t \in P : \A u \in P : t <= u
<1>1. \A t \in P : t \in {9900, 9950, 10000, 10050}
  BY DEF Targets
<1>2. CASE 9900 \in P
  BY <1>1, <1>2
<1>3. CASE 9900 \notin P /\ 9950 \in P
  BY <1>1, <1>3
<1>4. CASE 9900 \notin P /\ 9950 \notin P /\ 10000 \in P
  BY <1>1, <1>4
<1>5. CASE 9900 \notin P /\ 9950 \notin P /\ 10000 \notin P
  BY <1>1, <1>5
<1> QED BY <1>2, <1>3, <1>4, <1>5

(* In a full section with nothing to advise, no chart raises the total. *)
LEMMA NoneLeft ==
  ASSUME NEW q, Advisable(q), q.algorithm = "legacy", q.score = 0, NEW new \in BOOLEAN,
         Full(OwnOf(B50Of(q.scores, q.catalog), new), CapacityOf(new)),
         LastRating(OwnOf(B50Of(q.scores, q.catalog), new)) > 0,
         Items(q, B50Of(q.scores, q.catalog), BestRecords(q), new) = {},
         NEW c \in Seeds(q.catalog, new), RatedWell(q, c), NEW t \in Targets
  PROVE  /\ B50Of(q.scores, q.catalog).total \in Int
         /\ B50Of(Played(q.scores, c, t), q.catalog).total = B50Of(q.scores, q.catalog).total
<1> DEFINE b50 == B50Of(q.scores, q.catalog)
           own == OwnOf(b50, new)
           other == OtherOf(b50, new)
           floor == FloorOf(b50, new)
           gate == GateOf(q, b50, new)
           least == LeastIn(b50, new)
           old == OldIn(q, c)
           rating == SongRating(q.catalog[c].constant, t)
<1>1. Judgeable(q) /\ t \in Nat
  BY DEF Advisable, Targets
<1>2. /\ c \in DOMAIN q.catalog /\ q.catalog[c].constant # None /\ ~q.catalog[c].utage
      /\ q.catalog[c].constant \in Nat
  BY <1>1, SeedsAre
<1>3. /\ old \in Nat /\ OldRating(RatedOf(q.scores, q.catalog), c, old)
      /\ \A r \in RatedOf(q.scores, q.catalog) : r.chart = c =>
           r.achievement \in Nat /\ r.rating = SongRating(q.catalog[c].constant, r.achievement)
  BY <1>1, <1>2, OldRatingIs DEF OldIn, BestRecords
<1>4. rating \in Nat
  BY <1>1, <1>2, SongRatingIs
<1>5. /\ LastRating(own) \in Nat /\ LastRating(other) \in Nat
      /\ ToSet(own) \subseteq RatedOf(q.scores, q.catalog)
  <2>1. /\ LastRating(b50.legacy) \in Nat /\ LastRating(b50.current) \in Nat
        /\ ToSet(b50.legacy) \subseteq RatedOf(q.scores, q.catalog)
        /\ ToSet(b50.current) \subseteq RatedOf(q.scores, q.catalog)
    BY <1>1, LastsAre DEF B50Of
  <2> QED BY <2>1 DEF OwnOf, OtherOf
<1>6. least \in Nat /\ floor = LastRating(own) /\ least = LastRating(own) /\ gate = floor
  BY <1>5, FloorIs DEF LeastIn, FloorOf, GateOf
<1>7. ~ (rating > (IF old >= least THEN old ELSE least))
  <2>1. CASE c \in Ignored(own)
    <3>1. PICK r \in ToSet(own) : r.chart = c /\ Ranked(r) # None /\ Ranked(r) >= Cap
      BY <2>1 DEF Ignored
    <3>2. r \in RatedOf(q.scores, q.catalog) /\ ~r.utage
      BY <3>1, <1>5 DEF RatedOf, Rated
    <3>3. r.achievement \in Nat /\ r.achievement >= Cap /\ r.rating = SongRating(q.catalog[c].constant, r.achievement)
      BY <3>1, <3>2, <1>3 DEF Ranked
    <3>4. rating <= r.rating
      BY <3>3, <1>1, <1>2, SongRatingGrows
    <3>5. r.rating <= old
      BY <3>1, <3>2, <1>3 DEF OldRating
    <3>6. r.rating \in Nat
      BY <3>3, <1>2, SongRatingIs
    <3> HIDE DEF rating, old, least
    <3> QED BY <3>4, <3>5, <3>6, <1>3, <1>4, <1>6
  <2>2. CASE c \notin Ignored(own)
    <3> DEFINE P == PassingOf(q, BestRecords(q), c, gate, floor)
    <3>1. c \in OpenCharts(q, b50, new)
      BY <2>2 DEF OpenCharts
    <3>2. P \in SUBSET Targets
      BY DEF PassingOf
    <3>3. \A u \in P : ~ \A v \in P : u <= v
      <4>1. q.algorithm # "expected"
        OBVIOUS
      <4> QED BY <4>1, <3>1, ItemsAre
    <3>4. t \notin P
      <4> HIDE DEF P
      <4> QED BY <3>2, <3>3, LeastTarget
    <3>5. ~ PassesFloor(rating, old, gate, floor, q.score)
      BY <3>4 DEF PassingOf, OldIn
    <3> HIDE DEF rating, old, least, gate, floor
    <3>6. ~ (rating > gate /\ rating > old)
      BY <3>5 DEF PassesFloor
    <3> QED BY <3>6, <1>3, <1>4, <1>6
  <2> QED BY <2>1, <2>2
<1>8. /\ b50.total \in Int
      /\ B50Of(Played(q.scores, c, t), q.catalog).total =
           IF rating > (IF old >= least THEN old ELSE least)
           THEN b50.total + (rating - (IF old >= least THEN old ELSE least)) ELSE b50.total
  BY <1>1, Payoff
<1> HIDE DEF rating, old, least
<1> QED BY <1>7, <1>8

(* Whoever has charts to advise advises one. *)
LEMMA Chosen ==
  ASSUME NEW q, NEW items, NEW all, IsFiniteSet(all), \A i \in items : i.chart \in all, NEW s \in Selections(q, items)
  PROVE  s \subseteq items /\ (items # {} => s # {})
<1> DEFINE charts == {i.chart : i \in items}
<1>1. /\ s \subseteq items
      /\ Cardinality(s) = IF Cardinality(charts) < RiseLimit THEN Cardinality(charts) ELSE RiseLimit
  BY DEF Selections
<1>2. (items # {} => charts # {}) /\ IsFiniteSet(charts)
  <2>1. charts \subseteq all
    OBVIOUS
  <2> QED BY <2>1, FS_Subset
<1> HIDE DEF charts
<1>3. charts # {} => Cardinality(charts) \in Nat /\ Cardinality(charts) # 0
  BY <1>2, FS_CardinalityType, FS_EmptySet
<1>4. RiseLimit \in Nat /\ RiseLimit # 0
  BY RiseAssumption
<1>5. items # {} => Cardinality(s) # 0
  BY <1>1, <1>2, <1>3, <1>4
<1>6. Cardinality({}) = 0
  BY FS_EmptySet
<1> QED BY <1>1, <1>5, <1>6

-----------------------------------------------------------------------------
(* The promise of the recommendations. *)

(* What an answer advises. *)
AdvisedBy(a) == IF a.verdict = "recommended" THEN a.legacy \cup a.current ELSE {}

(* What is advised is a selection of each section. *)
LEMMA AdvisedIs ==
  ASSUME NEW q, NEW a \in RiseAnswers(q)
  PROVE  \E l \in Selections(q, Items(q, B50Of(q.scores, q.catalog), BestRecords(q), FALSE)) :
         \E c \in Selections(q, Items(q, B50Of(q.scores, q.catalog), BestRecords(q), TRUE)) :
           AdvisedBy(a) = l \cup c
<1> DEFINE b50 == B50Of(q.scores, q.catalog)
           best == BestRecords(q)
           legacy == Selections(q, Items(q, b50, best, FALSE))
           current == Selections(q, Items(q, b50, best, TRUE))
<1>1. RiseAnswers(q) = {Recommendations(l, c) : l \in legacy, c \in current}
  BY Z3 DEF RiseAnswers, Using, B50Of, BestRecords
<1> HIDE DEF legacy, current
<1>2. PICK l \in legacy, c \in current : a = Recommendations(l, c)
  BY <1>1
<1>3. AdvisedBy(a) = l \cup c
  <2>1. CASE l \cup c = {}
    BY <2>1, <1>2 DEF AdvisedBy, Recommendations
  <2>2. CASE l \cup c # {}
    BY <2>2, <1>2 DEF AdvisedBy, Recommendations
  <2> QED BY <2>1, <2>2
<1> QED BY <1>2, <1>3 DEF legacy, current

(* What RecommendationsPay says, of a question and an answer to it. *)
LEMMA AdvicePays ==
  ASSUME NEW q, Advisable(q), NEW a \in RiseAnswers(q)
  PROVE  LET b50 == B50Of(q.scores, q.catalog)
         IN /\ \A i \in AdvisedBy(a) :
                 /\ i.gain > 0
                 /\ RatedWell(q, i.chart) => B50Of(Played(q.scores, i.chart, i.target), q.catalog).total = b50.total + i.gain
            /\ \A new \in BOOLEAN :
                 /\ q.algorithm = "legacy" /\ q.score = 0
                 /\ Full(OwnOf(b50, new), CapacityOf(new)) /\ LastRating(OwnOf(b50, new)) > 0
                 /\ \A i \in AdvisedBy(a) : q.catalog[i.chart].current # new
                 => \A c \in Seeds(q.catalog, new), t \in Targets :
                      RatedWell(q, c) => ~ (B50Of(Played(q.scores, c, t), q.catalog).total > b50.total)
<1> DEFINE b50 == B50Of(q.scores, q.catalog)
           items(new) == Items(q, b50, BestRecords(q), new)
           after(c, t) == B50Of(Played(q.scores, c, t), q.catalog).total
           pick(new, l, c) == IF new THEN c ELSE l
<1>1. PICK l \in Selections(q, items(FALSE)), c \in Selections(q, items(TRUE)) : AdvisedBy(a) = l \cup c
  BY AdvisedIs
<1>2. \A new \in BOOLEAN : \A i \in items(new) :
        /\ i.gain > 0 /\ i.chart \in Seeds(q.catalog, new)
        /\ RatedWell(q, i.chart) => after(i.chart, i.target) = b50.total + i.gain
  BY Gains
<1>3. IsFiniteSet(DOMAIN q.catalog) /\ Judgeable(q)
  BY DEF Advisable
<1>4. \A new \in BOOLEAN : \A d \in Seeds(q.catalog, new) : d \in DOMAIN q.catalog /\ q.catalog[d].current = new
  BY <1>3, SeedsAre
<1> HIDE DEF items, after
<1>5. \A new \in BOOLEAN : \A i \in items(new) : i.chart \in DOMAIN q.catalog
  BY <1>2, <1>4
<1>6. l \subseteq items(FALSE) /\ (items(FALSE) # {} => l # {})
  <2>1. \A i \in items(FALSE) : i.chart \in DOMAIN q.catalog
    BY <1>5
  <2> DEFINE of == items(FALSE)
  <2>2. l \in Selections(q, of) /\ \A i \in of : i.chart \in DOMAIN q.catalog
    BY <2>1, <1>1
  <2> HIDE DEF of
  <2>3. l \subseteq of /\ (of # {} => l # {})
    BY <2>2, <1>3, Chosen
  <2> QED BY <2>3 DEF of
<1>7. c \subseteq items(TRUE) /\ (items(TRUE) # {} => c # {})
  <2>1. \A i \in items(TRUE) : i.chart \in DOMAIN q.catalog
    BY <1>5
  <2> DEFINE of == items(TRUE)
  <2>2. c \in Selections(q, of) /\ \A i \in of : i.chart \in DOMAIN q.catalog
    BY <2>1, <1>1
  <2> HIDE DEF of
  <2>3. c \subseteq of /\ (of # {} => c # {})
    BY <2>2, <1>3, Chosen
  <2> QED BY <2>3 DEF of
<1>8. \A i \in AdvisedBy(a) : i.gain > 0 /\ (RatedWell(q, i.chart) => after(i.chart, i.target) = b50.total + i.gain)
  BY <1>1, <1>2, <1>6, <1>7
<1>9. ASSUME NEW new \in BOOLEAN,
             q.algorithm = "legacy", q.score = 0,
             Full(OwnOf(b50, new), CapacityOf(new)), LastRating(OwnOf(b50, new)) > 0,
             \A i \in AdvisedBy(a) : q.catalog[i.chart].current # new
      PROVE  \A d \in Seeds(q.catalog, new), t \in Targets : RatedWell(q, d) => ~ (after(d, t) > b50.total)
  <2>1. items(new) = {}
    <3>1. \A i \in pick(new, l, c) : i \in AdvisedBy(a) /\ i \in items(new)
      BY <1>1, <1>6, <1>7, <1>9
    <3>2. \A i \in pick(new, l, c) : q.catalog[i.chart].current = new
      BY <3>1, <1>2, <1>4
    <3>3. pick(new, l, c) = {}
      BY <3>1, <3>2, <1>9
    <3>4. items(new) # {} => pick(new, l, c) # {}
      BY <1>6, <1>7
    <3> QED BY <3>3, <3>4
  <2>2. ASSUME NEW d \in Seeds(q.catalog, new), NEW t \in Targets, RatedWell(q, d)
        PROVE  b50.total \in Int /\ after(d, t) = b50.total
    <3>1. Items(q, b50, BestRecords(q), new) = {}
      BY <2>1 DEF items
    <3> QED BY <3>1, <1>9, <2>2, NoneLeft DEF after
  <2> HIDE DEF b50
  <2> QED BY <2>2
<1> QED BY <1>8, <1>9 DEF after

(* The question stays one of the questions, and its answer is one that the
   code may give. *)
AdvisedByRise ==
  question \in Questions /\ (Answered("rise") => answer \in RiseAnswers(question))

(* The invariant of rise questions: the answer is one that the code may give. *)
LEMMA AdviceInvariant == Spec => []AdvisedByRise
<1>1. Init => AdvisedByRise
  BY DEF Init, AdvisedByRise, Answered
<1>2. AdvisedByRise /\ [Next]_vars => AdvisedByRise'
  <2> SUFFICES ASSUME AdvisedByRise, [Next]_vars PROVE AdvisedByRise'
    OBVIOUS
  <2>1. CASE UNCHANGED vars
    BY <2>1 DEF AdvisedByRise, Answered, vars
  <2>2. CASE Next
    <3>1. question' = question
      BY <2>2, Answerers
    <3>2. CASE question.tool = "rise"
      <4>1. RecommendRise
        BY <2>2, <3>2, Answerers
      <4> QED BY <4>1, <3>1 DEF RecommendRise, AdvisedByRise, Answered
    <3>3. CASE question.tool # "rise"
      BY <3>1, <3>3 DEF AdvisedByRise, Answered
    <3> QED BY <3>2, <3>3
  <2> QED BY <2>1, <2>2 DEF AdvisedByRise
<1> QED BY <1>1, <1>2, PTL DEF Spec

(* Advice pays: whoever plays a recommended chart up to its target gains the
   stated gain, and a full section without advice has no chart that would
   raise the total; for every catalog, every set of scores, both rules and any
   capacities (rise_score prepare, of charts rated by the catalog). *)
THEOREM RecommendationsPayHolds == Spec => []RecommendationsPay
<1>1. AdvisedByRise => RecommendationsPay
  <2> SUFFICES ASSUME AdvisedByRise, Answered("rise") PROVE RecommendationsPay
    BY DEF RecommendationsPay
  <2> DEFINE q == question
             b50 == B50Of(q.scores, q.catalog)
             after(c, t) == B50Of(Played(q.scores, c, t), q.catalog).total
  <2>1. Advisable(question) /\ answer \in RiseAnswers(question)
    BY RatingAssumption DEF AdvisedByRise, Answered
  <2>2. /\ \A i \in AdvisedBy(answer) :
             i.gain > 0 /\ (RatedWell(q, i.chart) => after(i.chart, i.target) = b50.total + i.gain)
        /\ \A new \in BOOLEAN :
             /\ q.algorithm = "legacy" /\ q.score = 0
             /\ Full(OwnOf(b50, new), CapacityOf(new)) /\ LastRating(OwnOf(b50, new)) > 0
             /\ \A i \in AdvisedBy(answer) : q.catalog[i.chart].current # new
             => \A c \in Seeds(q.catalog, new), t \in Targets : RatedWell(q, c) => ~ (after(c, t) > b50.total)
    BY <2>1, AdvicePays
  <2>3. \A c : RatedByCatalog(c) <=> RatedWell(q, c)
    BY DEF RatedByCatalog, RatedWell
  <2>4. \A scores : TotalOf(scores) = B50Of(scores, q.catalog).total
    BY DEF TotalOf, B50Of
  <2> QED BY <2>2, <2>3, <2>4 DEF RecommendationsPay, AdvisedBy, OwnOf, CapacityOf, B50Of
<1> QED BY <1>1, AdviceInvariant, PTL
================================================================================
