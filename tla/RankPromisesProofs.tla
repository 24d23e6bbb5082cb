--------------------------- MODULE RankPromisesProofs ---------------------------
(***************************************************************************)
(* RanksAgree for every ranking, public list and argument of their types:  *)
(* what the code answers about ranks, place for place, agrees with the     *)
(* whole order, and no tool shows anybody but who was meant.               *)
(***************************************************************************)
EXTENDS ToolPromisesProofs, FiniteSetTheorems, TLAPS

-----------------------------------------------------------------------------
(* Orders, and the place that something has in one. *)

(* R orders S: two members are never equal in it. *)
StrictTotal(S, R) ==
  /\ \A x \in S : <<x, x>> \notin R
  /\ \A x, y, z \in S : <<x, y>> \in R /\ <<y, z>> \in R => <<x, z>> \in R
  /\ \A x, y \in S : x # y => <<x, y>> \in R \/ <<y, x>> \in R
(* Those that R puts ahead of x. *)
Leading(S, R, x) == {y \in S : <<y, x>> \in R}
(* How many are ahead of x. *)
Standing(S, R, x) == Cardinality(Leading(S, R, x))
(* s lists S in its order. *)
Enumerates(s, S, R) ==
  /\ s \in Seq(S) /\ Len(s) = Cardinality(S)
  /\ \A i \in 1..Cardinality(S) : Standing(S, R, s[i]) = i - 1

(* The standings are 0, 1, ... without a gap or a tie, and in the order. *)
LEMMA Standings ==
  ASSUME NEW S, IsFiniteSet(S), NEW R, StrictTotal(S, R)
  PROVE  /\ Cardinality(S) \in Nat
         /\ \A x \in S : Standing(S, R, x) \in 0..Cardinality(S) - 1
         /\ \A x, y \in S : Standing(S, R, x) = Standing(S, R, y) => x = y
         /\ \A x, y \in S : Standing(S, R, x) < Standing(S, R, y) <=> <<x, y>> \in R
         /\ \A k \in 0..Cardinality(S) - 1 : \E x \in S : Standing(S, R, x) = k
<1> DEFINE n == Cardinality(S)
<1>0. n \in Nat
  BY FS_CardinalityType
<1>1. ASSUME NEW x \in S PROVE /\ Leading(S, R, x) \in SUBSET S /\ x \notin Leading(S, R, x)
                               /\ IsFiniteSet(Leading(S, R, x)) /\ Standing(S, R, x) \in 0..n - 1
  <2>1. Leading(S, R, x) \in SUBSET S /\ x \notin Leading(S, R, x)
    BY DEF Leading, StrictTotal
  <2>2. /\ IsFiniteSet(Leading(S, R, x)) /\ Cardinality(Leading(S, R, x)) <= n
        /\ (Cardinality(Leading(S, R, x)) = n => Leading(S, R, x) = S)
    BY <2>1, FS_Subset
  <2>3. Cardinality(Leading(S, R, x)) \in Nat
    BY <2>2, FS_CardinalityType
  <2> QED BY <2>1, <2>2, <2>3, <1>0 DEF Standing
<1>2. ASSUME NEW x \in S, NEW y \in S, <<x, y>> \in R PROVE Standing(S, R, x) < Standing(S, R, y)
  <2>1. Leading(S, R, x) \in SUBSET Leading(S, R, y)
    BY <1>2 DEF Leading, StrictTotal
  <2>2. x \in Leading(S, R, y) /\ x \notin Leading(S, R, x)
    BY <1>1, <1>2 DEF Leading
  <2>3. /\ Cardinality(Leading(S, R, x)) <= Cardinality(Leading(S, R, y))
        /\ (Cardinality(Leading(S, R, x)) = Cardinality(Leading(S, R, y)) => Leading(S, R, x) = Leading(S, R, y))
    BY <2>1, <1>1, FS_Subset
  <2> QED BY <2>2, <2>3, <1>1, <1>0 DEF Standing
<1>3. ASSUME NEW x \in S, NEW y \in S, x # y PROVE Standing(S, R, x) # Standing(S, R, y)
  <2>1. <<x, y>> \in R \/ <<y, x>> \in R
    BY <1>3 DEF StrictTotal
  <2> QED BY <2>1, <1>2, <1>1
<1>4. ASSUME NEW x \in S, NEW y \in S, Standing(S, R, x) < Standing(S, R, y) PROVE <<x, y>> \in R
  <2>1. x # y /\ ~ (<<y, x>> \in R)
    BY <1>4, <1>2, <1>1
  <2> QED BY <2>1 DEF StrictTotal
<1>5. ASSUME NEW k \in 0..n - 1 PROVE \E x \in S : Standing(S, R, x) = k
  <2> DEFINE f == [x \in S |-> Standing(S, R, x)]
             N == 0..n - 1
  <2>1. f \in Injection(S, N)
    BY <1>1, <1>3 DEF Injection, IsInjective
  <2>2. IsFiniteSet(N) /\ Cardinality(N) = n
    <3>1. 0 \in Int /\ n - 1 \in Int
      BY <1>0
    <3>2. IsFiniteSet(0..n - 1) /\ Cardinality(0..n - 1) = IF 0 > n - 1 THEN 0 ELSE n - 1 - 0 + 1
      BY <3>1, FS_Interval
    <3> QED BY <3>2, <1>0
  <2>3. f \in Surjection(S, N)
    <3> HIDE DEF f, N, n
    <3>1. Cardinality(S) = Cardinality(N) <=> f \in Surjection(S, N)
      BY <2>1, <2>2, FS_Injection
    <3> QED BY <3>1, <2>2 DEF n
  <2>4. \E x \in S : f[x] = k
    <3> HIDE DEF f
    <3> QED BY <2>3 DEF Surjection
  <2> QED BY <2>4
<1> QED BY <1>0, <1>1, <1>2, <1>3, <1>4, <1>5

(* In a list in order everybody is once, where the standing says. *)
LEMMA Enumerated ==
  ASSUME NEW S, IsFiniteSet(S), NEW R, StrictTotal(S, R), NEW s, Enumerates(s, S, R)
  PROVE  /\ Len(s) = Cardinality(S) /\ Len(s) \in Nat /\ DOMAIN s = 1..Len(s)
         /\ \A i \in 1..Len(s) : s[i] \in S /\ Standing(S, R, s[i]) = i - 1
         /\ \A x \in S : Standing(S, R, x) + 1 \in 1..Len(s) /\ s[Standing(S, R, x) + 1] = x
         /\ \A i, j \in 1..Len(s) : s[i] = s[j] => i = j
<1>1. s \in Seq(S) /\ Len(s) = Cardinality(S) /\ Len(s) \in Nat /\ DOMAIN s = 1..Len(s)
  BY DEF Enumerates
<1>2. \A i \in 1..Len(s) : s[i] \in S /\ Standing(S, R, s[i]) = i - 1
  BY <1>1 DEF Enumerates
<1>3. ASSUME NEW x \in S PROVE Standing(S, R, x) + 1 \in 1..Len(s) /\ s[Standing(S, R, x) + 1] = x
  <2>1. Standing(S, R, x) \in 0..Len(s) - 1
    BY <1>1, Standings
  <2>2. Standing(S, R, x) + 1 \in 1..Len(s) /\ Standing(S, R, x) + 1 - 1 = Standing(S, R, x)
    BY <2>1, <1>1
  <2> DEFINE i == Standing(S, R, x) + 1
  <2>3. i \in 1..Len(s) /\ i - 1 = Standing(S, R, x)
    BY <2>1, <2>2
  <2> HIDE DEF i
  <2>4. s[i] \in S /\ Standing(S, R, s[i]) = Standing(S, R, x)
    BY <2>3, <1>2
  <2>5. s[i] = x
    BY <2>4, Standings
  <2> QED BY <2>3, <2>5 DEF i
<1>4. ASSUME NEW i \in 1..Len(s), NEW j \in 1..Len(s), s[i] = s[j] PROVE i = j
  <2>1. i - 1 = j - 1 /\ i \in Int /\ j \in Int
    BY <1>2, <1>4
  <2> QED BY <2>1
<1> QED BY <1>1, <1>2, <1>3, <1>4

(* Counted from either end, the places add up to how many there are. *)
LEMMA FromEitherEnd ==
  ASSUME NEW S, IsFiniteSet(S), NEW R, StrictTotal(S, R), NEW Q, StrictTotal(S, Q),
         \A x, y \in S : <<x, y>> \in Q <=> <<y, x>> \in R
  PROVE  \A x \in S : Standing(S, R, x) + Standing(S, Q, x) = Cardinality(S) - 1
<1> SUFFICES ASSUME NEW x \in S PROVE Standing(S, R, x) + Standing(S, Q, x) = Cardinality(S) - 1
  OBVIOUS
<1> DEFINE before == Leading(S, R, x)
           behind == Leading(S, Q, x)
<1>1. before \in SUBSET S /\ behind \in SUBSET S /\ x \notin before /\ x \notin behind /\ before \cap behind = {}
      /\ before \cup behind = S \ {x}
  BY DEF Leading, StrictTotal
<1> HIDE DEF before, behind
<1>2. IsFiniteSet(before) /\ IsFiniteSet(behind) /\ IsFiniteSet(S \ {x})
  BY <1>1, FS_Subset
<1>3. Cardinality(S \ {x}) = Cardinality(before) + Cardinality(behind) - Cardinality({})
  <2>1. Cardinality(before \cup behind) = Cardinality(before) + Cardinality(behind) - Cardinality(before \cap behind)
    BY <1>2, FS_Union
  <2> QED BY <1>1, <2>1, Zenon
<1>4. Cardinality({}) = 0
  BY FS_EmptySet
<1>5. Cardinality(S \ {x}) = Cardinality(S) - 1
  BY FS_RemoveElement
<1>6. Cardinality(before) \in Nat /\ Cardinality(behind) \in Nat /\ Cardinality(S) \in Nat
  BY <1>2, FS_CardinalityType
<1>7. Cardinality(before) + Cardinality(behind) = Cardinality(S) - 1
  BY <1>3, <1>4, <1>5, <1>6
<1>8. Standing(S, R, x) = Cardinality(before) /\ Standing(S, Q, x) = Cardinality(behind)
  BY DEF Standing, before, behind
<1> QED BY <1>7, <1>8

(* Everybody stands behind those who must be ahead, and before those who
   must not be. *)
LEMMA StandsWell ==
  ASSUME NEW S, IsFiniteSet(S), NEW R, StrictTotal(S, R), NEW B \in SUBSET S, NEW x \in S,
         NEW M \in SUBSET S, \A y \in M : <<y, x>> \in R,
         \A y \in S : <<y, x>> \in R => y \in B, x \in B
  PROVE  Cardinality(M) <= Standing(S, R, x) /\ Standing(S, R, x) + 1 <= Cardinality(B)
<1>1. Leading(S, R, x) \in SUBSET S /\ M \in SUBSET Leading(S, R, x) /\ x \notin Leading(S, R, x)
      /\ Leading(S, R, x) \cup {x} \in SUBSET B
  BY DEF Leading, StrictTotal
<1>2. IsFiniteSet(Leading(S, R, x)) /\ IsFiniteSet(B)
  BY <1>1, FS_Subset
<1>3. Cardinality(M) <= Cardinality(Leading(S, R, x))
  BY <1>1, <1>2, FS_Subset
<1>4. Cardinality(Leading(S, R, x) \cup {x}) = Cardinality(Leading(S, R, x)) + 1
  <2> DEFINE L == Leading(S, R, x)
  <2>1. IsFiniteSet(L) /\ x \notin L
    BY <1>1, <1>2
  <2> HIDE DEF L
  <2>2. Cardinality(L \cup {x}) = IF x \in L THEN Cardinality(L) ELSE Cardinality(L) + 1
    BY <2>1, FS_AddElement
  <2> QED BY <2>1, <2>2 DEF L
<1>5. Cardinality(Leading(S, R, x) \cup {x}) <= Cardinality(B)
  BY <1>1, <1>2, FS_Subset
<1> QED BY <1>3, <1>4, <1>5 DEF Standing

-----------------------------------------------------------------------------
(* The order by keys, which are compared number by number. *)

(* Indices of keys: with a number all smaller ones. *)
IndexSets == {D \in SUBSET (Nat \ {0}) : \A i \in D : 1..i - 1 \subseteq D}

(* Two keys differ somewhere first. *)
LEMMA FirstDifference ==
  ASSUME NEW D \in IndexSets, NEW v \in [D -> Int], NEW w \in [D -> Int], v # w
  PROVE  \E i \in D : v[i] # w[i] /\ \A k \in 1..i - 1 : v[k] = w[k]
<1> DEFINE T == {i \in D : v[i] # w[i]}
           R == OpToRel(<, Nat)
<1>1. T # {} /\ T \subseteq Nat
  <2>1. D \subseteq Nat
    BY DEF IndexSets
  <2>2. ASSUME T = {} PROVE FALSE
    <3>1. \A i \in D : v[i] = w[i]
      BY <2>2
    <3> QED BY <3>1
  <2> QED BY <2>1, <2>2
<1>2. IsWellFoundedOn(R, Nat)
  BY NatLessThanWellFounded
<1>3. \A m, n \in Nat : m < n => <<m, n>> \in R
  BY DEF OpToRel
<1>4. \E i \in T : \A k \in T : ~ (<<k, i>> \in R)
  <2> HIDE DEF T, R
  <2> QED BY <1>1, <1>2, WFMin
<1>5. PICK i \in T : \A k \in T : ~ (<<k, i>> \in R)
  BY <1>4
<1>6. ASSUME NEW k \in 1..i - 1 PROVE v[k] = w[k]
  <2>1. k \in D /\ k \in Nat /\ i \in Nat /\ k < i
    BY <1>1 DEF IndexSets
  <2>2. <<k, i>> \in R
    <3> HIDE DEF R
    <3> QED BY <2>1, <1>3
  <2> HIDE DEF R
  <2> QED BY <2>1, <2>2, <1>5
<1> QED BY <1>5, <1>6

(* Ahead is a strict total order of keys. *)
LEMMA AheadOrders ==
  ASSUME NEW D \in IndexSets
  PROVE  /\ \A v \in [D -> Int] : ~Ahead(v, v)
         /\ \A v, w, u \in [D -> Int] : Ahead(v, w) /\ Ahead(w, u) => Ahead(v, u)
         /\ \A v, w \in [D -> Int] : v # w => Ahead(v, w) \/ Ahead(w, v)
<1>1. \A v \in [D -> Int] : ~Ahead(v, v)
  BY DEF Ahead
<1>2. ASSUME NEW v \in [D -> Int], NEW w \in [D -> Int], NEW u \in [D -> Int], Ahead(v, w), Ahead(w, u)
      PROVE  Ahead(v, u)
  <2>1. PICK i \in D : v[i] > w[i] /\ \A k \in 1..i - 1 : v[k] = w[k]
    BY <1>2 DEF Ahead
  <2>2. PICK j \in D : w[j] > u[j] /\ \A k \in 1..j - 1 : w[k] = u[k]
    BY <1>2 DEF Ahead
  <2>3. i \in Nat \ {0} /\ j \in Nat \ {0} /\ (\A k \in 1..i - 1 : k \in D) /\ (\A k \in 1..j - 1 : k \in D)
    BY DEF IndexSets
  <2>4. CASE i < j
    <3>1. w[i] = u[i] /\ v[i] > u[i]
      BY <2>1, <2>2, <2>3, <2>4
    <3>2. \A k \in 1..i - 1 : v[k] = u[k]
      BY <2>1, <2>2, <2>3, <2>4
    <3> QED BY <3>1, <3>2 DEF Ahead
  <2>5. CASE j < i
    <3>1. v[j] = w[j] /\ v[j] > u[j]
      BY <2>1, <2>2, <2>3, <2>5
    <3>2. \A k \in 1..j - 1 : v[k] = u[k]
      BY <2>1, <2>2, <2>3, <2>5
    <3> QED BY <3>1, <3>2 DEF Ahead
  <2>6. CASE i = j
    <3>1. v[i] > u[i]
      <4>1. v[i] \in Int /\ w[i] \in Int /\ u[i] \in Int
        OBVIOUS
      <4> QED BY <4>1, <2>1, <2>2, <2>6
    <3>2. \A k \in 1..i - 1 : v[k] = u[k]
      BY <2>1, <2>2, <2>6
    <3> QED BY <3>1, <3>2 DEF Ahead
  <2> QED BY <2>3, <2>4, <2>5, <2>6
<1>3. ASSUME NEW v \in [D -> Int], NEW w \in [D -> Int], v # w PROVE Ahead(v, w) \/ Ahead(w, v)
  <2>1. PICK i \in D : v[i] # w[i] /\ \A k \in 1..i - 1 : v[k] = w[k]
    BY <1>3, FirstDifference
  <2>2. v[i] \in Int /\ w[i] \in Int /\ (v[i] > w[i] \/ w[i] > v[i])
    BY <2>1
  <2> QED BY <2>1, <2>2 DEF Ahead
<1> QED BY <1>1, <1>2, <1>3

(* The order of S by the keys k. *)
ByKey(S, k, order) ==
  {p \in S \X S : IF order = "descending" THEN Ahead(k[p[1]], k[p[2]]) ELSE Ahead(k[p[2]], k[p[1]])}
(* Everybody has a key, and nobody the key of another. *)
Keyed(S, k) == /\ \E D \in IndexSets : \A x \in S : k[x] \in [D -> Int]
               /\ \A x, y \in S : k[x] = k[y] => x = y

(* Distinct keys order, in either direction. *)
LEMMA KeyOrders ==
  ASSUME NEW S, NEW k, Keyed(S, k), NEW order
  PROVE  /\ StrictTotal(S, ByKey(S, k, order))
         /\ \A x, y \in S : <<x, y>> \in ByKey(S, k, order) <=>
              IF order = "descending" THEN Ahead(k[x], k[y]) ELSE Ahead(k[y], k[x])
<1>1. PICK D \in IndexSets : \A x \in S : k[x] \in [D -> Int]
  BY DEF Keyed
<1>2. \A x, y \in S : k[x] = k[y] => x = y
  BY DEF Keyed
<1>3. \A x, y \in S : <<x, y>> \in ByKey(S, k, order) <=>
        IF order = "descending" THEN Ahead(k[x], k[y]) ELSE Ahead(k[y], k[x])
  BY DEF ByKey
<1>4. /\ \A x \in S : ~Ahead(k[x], k[x])
      /\ \A x, y, z \in S : Ahead(k[x], k[y]) /\ Ahead(k[y], k[z]) => Ahead(k[x], k[z])
      /\ \A x, y \in S : x # y => Ahead(k[x], k[y]) \/ Ahead(k[y], k[x])
  <2> DEFINE F == [D -> Int]
  <2>1. /\ \A v \in F : ~Ahead(v, v)
        /\ \A v, w, u \in F : Ahead(v, w) /\ Ahead(w, u) => Ahead(v, u)
        /\ \A v, w \in F : v # w => Ahead(v, w) \/ Ahead(w, v)
    BY AheadOrders
  <2>2. \A x \in S : k[x] \in F
    BY <1>1
  <2> HIDE DEF F
  <2> QED BY <2>1, <2>2, <1>2
<1>5. StrictTotal(S, ByKey(S, k, order))
  <2>1. CASE order = "descending"
    <3>1. \A x, y \in S : <<x, y>> \in ByKey(S, k, order) <=> Ahead(k[x], k[y])
      BY <1>3, <2>1
    <3> QED BY <3>1, <1>4 DEF StrictTotal
  <2>2. CASE order # "descending"
    <3>1. \A x, y \in S : <<x, y>> \in ByKey(S, k, order) <=> Ahead(k[y], k[x])
      BY <1>3, <2>2
    <3> QED BY <3>1, <1>4 DEF StrictTotal
  <2> QED BY <2>1, <2>2
<1> QED BY <1>3, <1>5

(* The two directions count from either end. *)
LEMMA BothEnds ==
  ASSUME NEW S, IsFiniteSet(S), NEW k, Keyed(S, k)
  PROVE  \A x \in S : Standing(S, ByKey(S, k, "descending"), x) + Standing(S, ByKey(S, k, "ascending"), x) = Cardinality(S) - 1
<1> DEFINE R == ByKey(S, k, "descending")
           Q == ByKey(S, k, "ascending")
<1>1. StrictTotal(S, R) /\ \A x, y \in S : <<x, y>> \in R <=> Ahead(k[x], k[y])
  BY KeyOrders
<1>2. StrictTotal(S, Q) /\ \A x, y \in S : <<x, y>> \in Q <=> Ahead(k[y], k[x])
  <2>1. "ascending" # "descending"
    OBVIOUS
  <2> QED BY <2>1, KeyOrders
<1>3. \A x, y \in S : <<x, y>> \in Q <=> <<y, x>> \in R
  BY <1>1, <1>2
<1> HIDE DEF R, Q
<1> QED BY <1>1, <1>2, <1>3, FromEitherEnd DEF R, Q

-----------------------------------------------------------------------------
(* The window of a list that is shown. *)

(* out shows the list from a place on, each at its rank. *)
Rows(out, rows, from) ==
  /\ Len(out) \in Nat /\ DOMAIN out = 1..Len(out)
  /\ \A i \in 1..Len(out) : /\ from + i - 1 \in 1..Len(rows)
                            /\ out[i] = [rank |-> from + i - 1, entry |-> rows[from + i - 1]]

(* Ranked rows are those from one place to another. *)
LEMMA RankedRowsAre ==
  ASSUME NEW rows, Len(rows) \in Nat, NEW from \in Nat \ {0}, NEW to \in Int, to <= Len(rows)
  PROVE  /\ Rows(RankedRows(rows, from, to), rows, from)
         /\ Len(RankedRows(rows, from, to)) = IF to < from THEN 0 ELSE to - from + 1
<1> DEFINE m == IF to < from THEN 0 ELSE to - from + 1
           out == [i \in 1..m |-> [rank |-> from + i - 1, entry |-> rows[from + i - 1]]]
<1>1. RankedRows(rows, from, to) = out
  BY DEF RankedRows
<1>2. m \in Nat /\ \A i \in 1..m : from + i - 1 \in 1..Len(rows)
  OBVIOUS
<1> HIDE DEF m
<1>3. DOMAIN out = 1..m /\ Len(out) = m
  BY <1>2
<1>4. \A i \in 1..m : out[i] = [rank |-> from + i - 1, entry |-> rows[from + i - 1]]
  OBVIOUS
<1> HIDE DEF out
<1> QED BY <1>1, <1>2, <1>3, <1>4 DEF Rows, m

(* The end of a window never lies behind the list. *)
LEMMA UptoIs ==
  ASSUME NEW rows, Len(rows) \in Nat, NEW n \in Int
  PROVE  Upto(n, rows) \in Int /\ Upto(n, rows) <= Len(rows) /\ Upto(n, rows) <= n
         /\ (n <= Len(rows) => Upto(n, rows) = n) /\ (Len(rows) <= n => Upto(n, rows) = Len(rows))
BY DEF Upto

(* How many places two bounds take. *)
LEMMA IntervalIs ==
  ASSUME NEW a \in Nat \ {0}, NEW b \in Int, NEW n \in Nat
  PROVE  Cardinality((a..b) \cap (1..n)) = LET m == IF n < b THEN n ELSE b IN IF m < a THEN 0 ELSE m - a + 1
<1> DEFINE m == IF n < b THEN n ELSE b
<1>1. (a..b) \cap (1..n) = a..m /\ m \in Int
  OBVIOUS
<1> HIDE DEF m
<1>2. Cardinality(a..m) = IF a > m THEN 0 ELSE m - a + 1
  BY <1>1, FS_Interval
<1>3. Cardinality((a..b) \cap (1..n)) = Cardinality(a..m)
  BY <1>1, Zenon
<1>4. Cardinality((a..b) \cap (1..n)) = IF m < a THEN 0 ELSE m - a + 1
  BY <1>1, <1>2, <1>3
<1> QED BY <1>4 DEF m

(* A window shows as many as it takes, from one place on; without a start
   from the first, and without a limit all. *)
LEMMA WindowRows ==
  ASSUME NEW rows, Len(rows) \in Nat, NEW w \in WindowData, ValidWindow(w)
  PROVE  /\ Len(WindowOf(rows, w)) = WindowTakes(Len(rows), w)
         /\ \E from \in Nat \ {0} : Rows(WindowOf(rows, w), rows, from)
         /\ w.start = None => Rows(WindowOf(rows, w), rows, 1)
         /\ w.start = None /\ w.limit = None => Len(WindowOf(rows, w)) = Len(rows)
<1> DEFINE n == Len(rows)
<1>0. /\ w.limit \in Measured /\ w.start \in Measured /\ w.end \in Measured
      /\ w.limit # 0 /\ w.start # 0 /\ w.end # 0 /\ (w.start = None <=> w.end = None) /\ w.start <= w.end
      /\ None = -1 /\ Measured = Nat \cup {-1}
  BY DEF WindowData, ValidWindow, None, Measured
<1>1. CASE w.start = None
  <2> DEFINE l == Or(w.limit, n)
             to == Upto(l, rows)
  <2>1. l \in Nat
    BY <1>0 DEF Or
  <2> HIDE DEF l
  <2>2. /\ to \in Int /\ to <= n /\ to <= l
        /\ (l <= n => to = l) /\ (n <= l => to = n)
    BY <2>1, UptoIs
  <2> HIDE DEF to
  <2>3. WindowOf(rows, w) = RankedRows(rows, 1, to)
    BY <1>1 DEF WindowOf, to, l
  <2>4. Rows(RankedRows(rows, 1, to), rows, 1) /\ Len(RankedRows(rows, 1, to)) = IF to < 1 THEN 0 ELSE to - 1 + 1
    BY <2>2, RankedRowsAre
  <2>5. WindowTakes(n, w) = Cardinality((1..l) \cap (1..n))
    BY <1>1 DEF WindowTakes, l
  <2>6. Cardinality((1..l) \cap (1..n)) = LET m == IF n < l THEN n ELSE l IN IF m < 1 THEN 0 ELSE m - 1 + 1
    <3>1. 1 \in Nat \ {0} /\ l \in Int /\ n \in Nat
      BY <2>1
    <3> HIDE DEF n
    <3>2. \A a, b, c : a \in Nat \ {0} /\ b \in Int /\ c \in Nat
            => Cardinality((a..b) \cap (1..c)) = LET m == IF c < b THEN c ELSE b IN IF m < a THEN 0 ELSE m - a + 1
      BY IntervalIs
    <3> QED BY <3>1, <3>2
  <2>7. Len(RankedRows(rows, 1, to)) = WindowTakes(n, w)
    BY <2>1, <2>2, <2>4, <2>5, <2>6
  <2>8. w.limit = None => l = n
    BY DEF l, Or
  <2>9. w.limit = None => Len(RankedRows(rows, 1, to)) = n
    BY <2>2, <2>4, <2>8
  <2> QED BY <2>3, <2>4, <2>7, <2>9
<1>2. CASE w.start # None
  <2> DEFINE to == Upto(w.end, rows)
  <2>1. w.start \in Nat \ {0} /\ w.end \in Nat
    BY <1>0, <1>2
  <2>2. /\ to \in Int /\ to <= n /\ to <= w.end
        /\ (w.end <= n => to = w.end) /\ (n <= w.end => to = n)
    BY <2>1, UptoIs
  <2> HIDE DEF to
  <2>3. WindowOf(rows, w) = RankedRows(rows, w.start, to)
    BY <1>2 DEF WindowOf, to
  <2>4. /\ Rows(RankedRows(rows, w.start, to), rows, w.start)
        /\ Len(RankedRows(rows, w.start, to)) = IF to < w.start THEN 0 ELSE to - w.start + 1
    BY <2>1, <2>2, RankedRowsAre
  <2>5. WindowTakes(n, w) = Cardinality((w.start..w.end) \cap (1..n))
    BY <1>2 DEF WindowTakes
  <2>6. Cardinality((w.start..w.end) \cap (1..n)) = LET m == IF n < w.end THEN n ELSE w.end IN IF m < w.start THEN 0 ELSE m - w.start + 1
    <3>1. w.start \in Nat \ {0} /\ w.end \in Int /\ n \in Nat
      BY <2>1
    <3> HIDE DEF n
    <3>2. \A a, b, c : a \in Nat \ {0} /\ b \in Int /\ c \in Nat
            => Cardinality((a..b) \cap (1..c)) = LET m == IF c < b THEN c ELSE b IN IF m < a THEN 0 ELSE m - a + 1
      BY IntervalIs
    <3> QED BY <3>1, <3>2
  <2>7. Len(RankedRows(rows, w.start, to)) = WindowTakes(n, w)
    BY <2>1, <2>2, <2>4, <2>5, <2>6
  <2> QED BY <2>1, <2>3, <2>4, <2>7, <1>2
<1> QED BY <1>1, <1>2

-----------------------------------------------------------------------------
(* Nobody is placed behind somebody worse. *)

(* x is better than y by m. *)
Outranks(m, order, x, y) == IF order = "descending" THEN m[x] > m[y] ELSE m[x] < m[y]

(* Each row is at the rank of its standing, which is after all who are
   better and not after any who are worse; nobody is shown twice. *)
Placed(out, S, R, m, order) ==
  \A i \in DOMAIN out :
    /\ out[i].entry \in S /\ out[i].rank = Standing(S, R, out[i].entry) + 1
    /\ out[i].rank = out[1].rank + i - 1
    /\ Cardinality({r \in S : Outranks(m, order, r, out[i].entry)}) < out[i].rank
    /\ out[i].rank <= Cardinality({r \in S : ~Outranks(m, order, out[i].entry, r)})
    /\ \A k \in DOMAIN out : out[k].entry = out[i].entry => k = i

(* The rows that a window shows are placed so. *)
LEMMA WellPlaced ==
  ASSUME NEW S, IsFiniteSet(S), NEW R, StrictTotal(S, R), NEW rows, Enumerates(rows, S, R),
         NEW from \in Nat \ {0}, NEW out, Rows(out, rows, from),
         NEW m \in [S -> Int], NEW order, \A x, y \in S : Outranks(m, order, x, y) => <<x, y>> \in R
  PROVE  Placed(out, S, R, m, order)
<1> SUFFICES ASSUME NEW i \in DOMAIN out
             PROVE  /\ out[i].entry \in S /\ out[i].rank = Standing(S, R, out[i].entry) + 1
                    /\ out[i].rank = out[1].rank + i - 1
                    /\ Cardinality({r \in S : Outranks(m, order, r, out[i].entry)}) < out[i].rank
                    /\ out[i].rank <= Cardinality({r \in S : ~Outranks(m, order, out[i].entry, r)})
                    /\ \A k \in DOMAIN out : out[k].entry = out[i].entry => k = i
  BY DEF Placed
<1>1. /\ Len(rows) \in Nat
      /\ \A k \in 1..Len(rows) : rows[k] \in S /\ Standing(S, R, rows[k]) = k - 1
      /\ \A k, l \in 1..Len(rows) : rows[k] = rows[l] => k = l
  BY Enumerated
<1>2. ASSUME NEW k \in DOMAIN out
      PROVE  k \in Nat \ {0} /\ from + k - 1 \in 1..Len(rows) /\ out[k].rank = from + k - 1 /\ out[k].entry = rows[from + k - 1]
  <2>1. k \in 1..Len(out) /\ Len(out) \in Nat
    BY DEF Rows
  <2>2. out[k] = [rank |-> from + k - 1, entry |-> rows[from + k - 1]] /\ from + k - 1 \in 1..Len(rows)
    BY <2>1 DEF Rows
  <2> QED BY <2>1, <2>2
<1>3. 1 \in DOMAIN out
  BY DEF Rows
<1>4. out[i].rank = out[1].rank + i - 1
  <2>1. out[1].rank = from + 1 - 1
    BY <1>2, <1>3
  <2> QED BY <2>1, <1>2
<1> DEFINE e == out[i].entry
<1>5. e \in S /\ out[i].rank = Standing(S, R, e) + 1
  <2> DEFINE k == from + i - 1
  <2>1. k \in 1..Len(rows) /\ out[i].rank = k /\ e = rows[k]
    BY <1>2
  <2> HIDE DEF k, e
  <2>2. Standing(S, R, rows[k]) = k - 1 /\ rows[k] \in S
    BY <2>1, <1>1
  <2> QED BY <2>1, <2>2
<1>6. ASSUME NEW k \in DOMAIN out, out[k].entry = e PROVE k = i
  <2>1. /\ from + k - 1 \in 1..Len(rows) /\ out[k].entry = rows[from + k - 1] /\ k \in Nat
        /\ from + i - 1 \in 1..Len(rows) /\ out[i].entry = rows[from + i - 1] /\ i \in Nat
    BY <1>2
  <2>2. from + k - 1 = from + i - 1
    BY <2>1, <1>1, <1>6
  <2> QED BY <2>1, <2>2
<1> DEFINE M == {r \in S : Outranks(m, order, r, e)}
           B == {r \in S : ~Outranks(m, order, e, r)}
<1> HIDE DEF e
<1>7. M \in SUBSET S /\ B \in SUBSET S /\ e \in B
      /\ (\A y \in M : <<y, e>> \in R) /\ (\A y \in S : <<y, e>> \in R => y \in B)
  <2>1. e \in B
    BY <1>5 DEF Outranks
  <2>2. \A y \in S : ~ (<<y, e>> \in R /\ <<e, y>> \in R)
    BY <1>5 DEF StrictTotal
  <2> QED BY <2>1, <2>2, <1>5
<1> HIDE DEF M, B
<1>8. Cardinality(M) <= Standing(S, R, e) /\ Standing(S, R, e) + 1 <= Cardinality(B)
  BY <1>5, <1>7, StandsWell
<1>9. Cardinality(M) \in Nat /\ Standing(S, R, e) \in Nat
  <2>1. IsFiniteSet(M)
    BY <1>7, FS_Subset
  <2>2. Standing(S, R, e) \in 0..Cardinality(S) - 1
    BY <1>5, Standings
  <2>3. Cardinality(M) \in Nat
    BY <2>1, FS_CardinalityType
  <2> QED BY <2>2, <2>3
<1> QED BY <1>4, <1>5, <1>6, <1>8, <1>9 DEF e, M, B

-----------------------------------------------------------------------------
(* Reports on the B50 of a group. *)

(* The keys of entries. *)
MemberKeys(S, sort) == [e \in S |-> B50Key(e, sort)]
(* Their order. *)
B50Order(S, sort, order) == ByKey(S, MemberKeys(S, sort), order)

(* No two members have one key, for the key ends with their number. *)
LEMMA MembersKeyed ==
  ASSUME NEW S, Rankable(S), NEW sort
  PROVE  /\ Keyed(S, MemberKeys(S, sort))
         /\ \A e \in S : MemberKeys(S, sort)[e] = B50Key(e, sort)
<1> DEFINE k == MemberKeys(S, sort)
<1>1. \A e \in S : e.qq \in Int /\ e.rating \in Int /\ e.fit \in Int /\ e.name \in Int
  BY DEF Rankable, Measured, None
<1>2. \A e \in S : k[e] = B50Key(e, sort)
  BY DEF MemberKeys
<1>3. {1, 2, 3, 4} \in IndexSets
  BY DEF IndexSets
<1>4. ASSUME NEW e \in S PROVE k[e] \in [{1, 2, 3, 4} -> Int] /\ k[e][4] = e.qq
  <2>1. k[e] = <<IF sort = "fit" THEN e.fit ELSE e.rating, e.rating, e.name, e.qq>>
    BY <1>2 DEF B50Key
  <2>2. (IF sort = "fit" THEN e.fit ELSE e.rating) \in Int
    BY <1>1
  <2> DEFINE f == IF sort = "fit" THEN e.fit ELSE e.rating
  <2> HIDE DEF f, k
  <2>3. k[e] = <<f, e.rating, e.name, e.qq>> /\ f \in Int
    BY <2>1, <2>2 DEF f
  <2> QED BY <2>3, <1>1
<1>5. ASSUME NEW x \in S, NEW y \in S, k[x] = k[y] PROVE x = y
  <2>1. x.qq = y.qq
    BY <1>4, <1>5
  <2> QED BY <2>1 DEF Rankable
<1> HIDE DEF k
<1> QED BY <1>2, <1>3, <1>4, <1>5 DEF Keyed, k

(* The order is total, and whoever has the better value is ahead. *)
LEMMA MembersOrdered ==
  ASSUME NEW S, Rankable(S), NEW sort, NEW order
  PROVE  /\ StrictTotal(S, B50Order(S, sort, order))
         /\ \A x, y \in S : <<x, y>> \in B50Order(S, sort, order) <=>
              IF order = "descending" THEN Ahead(B50Key(x, sort), B50Key(y, sort)) ELSE Ahead(B50Key(y, sort), B50Key(x, sort))
         /\ \A x, y \in S : Outranks([e \in S |-> IF sort = "fit" THEN e.fit ELSE e.rating], order, x, y)
                              => <<x, y>> \in B50Order(S, sort, order)
<1> DEFINE k == MemberKeys(S, sort)
           m == [e \in S |-> IF sort = "fit" THEN e.fit ELSE e.rating]
<1>1. Keyed(S, k) /\ \A e \in S : k[e] = B50Key(e, sort)
  BY MembersKeyed
<1> HIDE DEF k
<1>2. /\ StrictTotal(S, ByKey(S, k, order))
      /\ \A x, y \in S : <<x, y>> \in ByKey(S, k, order) <=> IF order = "descending" THEN Ahead(k[x], k[y]) ELSE Ahead(k[y], k[x])
  BY <1>1, KeyOrders
<1>3. \A x, y \in S : <<x, y>> \in B50Order(S, sort, order) <=>
              IF order = "descending" THEN Ahead(B50Key(x, sort), B50Key(y, sort)) ELSE Ahead(B50Key(y, sort), B50Key(x, sort))
  BY <1>1, <1>2 DEF B50Order, k
<1>4. ASSUME NEW x \in S, NEW y \in S, m[x] > m[y] PROVE Ahead(B50Key(x, sort), B50Key(y, sort))
  <2> DEFINE v == B50Key(x, sort)
             w == B50Key(y, sort)
  <2>1. v[1] = m[x] /\ w[1] = m[y] /\ 1 \in DOMAIN v /\ 1..1 - 1 = {}
    BY DEF B50Key
  <2> HIDE DEF v, w, m
  <2> QED BY <2>1, <1>4 DEF Ahead, v, w
<1> HIDE DEF m
<1>5. \A e \in S : m[e] \in Int
  BY DEF m, Rankable, Measured, None
<1>6. \A x, y \in S : Outranks(m, order, x, y) => <<x, y>> \in B50Order(S, sort, order)
  BY <1>3, <1>4, <1>5 DEF Outranks
<1> QED BY <1>2, <1>3, <1>6 DEF B50Order, k, m

(* arrange lists the entries in this order. *)
LEMMA MembersArranged ==
  ASSUME NEW S, Rankable(S), NEW sort, NEW order
  PROVE  \E rows : /\ rows = Arrange(S, LAMBDA e : B50Key(e, sort), order)
                   /\ Enumerates(rows, S, B50Order(S, sort, order))
<1> DEFINE before(x, y) == IF order = "descending" THEN Ahead(B50Key(x, sort), B50Key(y, sort)) ELSE Ahead(B50Key(y, sort), B50Key(x, sort))
           at(i) == CHOOSE x \in S : Cardinality({y \in S : before(y, x)}) = i - 1
           n == Cardinality(S)
           R == B50Order(S, sort, order)
           rows == [i \in 1..n |-> at(i)]
<1>1. Arrange(S, LAMBDA e : B50Key(e, sort), order) = rows
  BY Zenon DEF Arrange, Sorted
<1>2. IsFiniteSet(S) /\ StrictTotal(S, R) /\ \A x, y \in S : <<x, y>> \in R <=> before(x, y)
  BY MembersOrdered DEF Rankable
<1> HIDE DEF R
<1>3. n \in Nat /\ \A k \in 0..n - 1 : \E x \in S : Standing(S, R, x) = k
  BY <1>2, Standings
<1>4. \A x \in S : Standing(S, R, x) = Cardinality({y \in S : before(y, x)})
  <2> SUFFICES ASSUME NEW x \in S PROVE Standing(S, R, x) = Cardinality({y \in S : before(y, x)})
    OBVIOUS
  <2>1. Leading(S, R, x) = {y \in S : before(y, x)}
    BY <1>2 DEF Leading
  <2> QED BY <2>1 DEF Standing
<1> HIDE DEF before
<1>5. ASSUME NEW i \in 1..n PROVE at(i) \in S /\ Standing(S, R, at(i)) = i - 1
  <2>1. i - 1 \in 0..n - 1
    BY <1>3
  <2>2. \E x \in S : Cardinality({y \in S : before(y, x)}) = i - 1
    BY <2>1, <1>3, <1>4
  <2>3. at(i) \in S /\ Cardinality({y \in S : before(y, at(i))}) = i - 1
    BY <2>2, Zenon
  <2> QED BY <2>3, <1>4
<1> HIDE DEF at, n
<1>6. rows \in Seq(S) /\ Len(rows) = n /\ \A i \in 1..n : Standing(S, R, rows[i]) = i - 1
  BY <1>3, <1>5
<1> HIDE DEF rows
<1>7. Enumerates(rows, S, R)
  BY <1>6 DEF Enumerates, n
<1> QED BY <1>1, <1>7 DEF R

(* The options of a report. *)
Bounds(o) == {o.min, o.max, o.fitMin, o.fitMax} \subseteq Measured /\ o.window \in WindowData
(* The entries that match, as the promise and as the code say it. *)
LEMMA ListedIs ==
  ASSUME NEW S, Rankable(S), NEW o, Bounds(o)
  PROVE  /\ Listed(S, o) = {e \in S : B50Matches(e, o)}
         /\ Rankable(Listed(S, o)) /\ Listed(S, o) \in SUBSET S
<1>1. ASSUME NEW e \in S PROVE
        (/\ e.rating # None /\ e.rating >= o.min /\ (o.max = None \/ e.rating <= o.max)
         /\ (o.fitMin = None \/ e.fit >= o.fitMin)
         /\ (o.fitMax = None \/ e.fit \in 0..o.fitMax)) <=> B50Matches(e, o)
  <2>1. e.rating \in Nat \cup {-1} /\ e.fit \in Nat \cup {-1}
    BY DEF Rankable, Measured, None
  <2>2. o.min \in Nat \cup {-1} /\ o.max \in Nat \cup {-1} /\ o.fitMin \in Nat \cup {-1} /\ o.fitMax \in Nat \cup {-1}
    BY DEF Bounds, Measured, None
  <2>3. {o.fitMin, o.fitMax} = {None} <=> o.fitMin = None /\ o.fitMax = None
    OBVIOUS
  <2>4. (/\ e.rating # None /\ e.rating >= o.min /\ (o.max = None \/ e.rating <= o.max)) <=> Within(e.rating, o.min, o.max)
    BY <2>1, <2>2 DEF Within, None
  <2>5. (/\ (o.fitMin = None \/ e.fit >= o.fitMin)
         /\ (o.fitMax = None \/ e.fit \in 0..o.fitMax)) <=> (o.fitMin = None /\ o.fitMax = None) \/ Within(e.fit, o.fitMin, o.fitMax)
    BY <2>1, <2>2 DEF Within, None
  <2> QED BY <2>3, <2>4, <2>5 DEF B50Matches
<1>2. Listed(S, o) = {e \in S : B50Matches(e, o)}
  BY <1>1 DEF Listed
<1>3. Listed(S, o) \in SUBSET S
  BY <1>2
<1>4. IsFiniteSet(Listed(S, o))
  BY <1>3, FS_Subset DEF Rankable
<1> QED BY <1>2, <1>3, <1>4 DEF Rankable

(* A report is a window of the list of these entries. *)
LEMMA ReportIs ==
  ASSUME NEW S, Rankable(S), NEW o, Bounds(o), B50Report(S, o) # Invalid
  PROVE  /\ ValidWindow(o.window)
         /\ \E rows : /\ Enumerates(rows, Listed(S, o), B50Order(Listed(S, o), o.sort, o.order))
                      /\ B50Report(S, o) = Report(rows, o.window)
<1> DEFINE L == Listed(S, o)
<1>1. ValidWindow(o.window) /\ B50Report(S, o) = Report(Arrange({e \in S : B50Matches(e, o)}, LAMBDA e : B50Key(e, o.sort), o.order), o.window)
  BY Zenon DEF B50Report
<1>2. L = {e \in S : B50Matches(e, o)} /\ Rankable(L)
  BY ListedIs
<1>3. B50Report(S, o) = Report(Arrange(L, LAMBDA e : B50Key(e, o.sort), o.order), o.window)
  BY <1>1, <1>2, Zenon
<1> HIDE DEF L
<1>4. PICK rows : rows = Arrange(L, LAMBDA e : B50Key(e, o.sort), o.order) /\ Enumerates(rows, L, B50Order(L, o.sort, o.order))
  BY <1>2, MembersArranged
<1>5. B50Report(S, o) = Report(rows, o.window)
  BY <1>3, <1>4, Zenon
<1> QED BY <1>1, <1>4, <1>5 DEF L

(* Every report on B50s lists just those that match, as many as its window
   takes, with consecutive ranks, and nobody behind another who is worse. *)
LEMMA ReportsHold ==
  ASSUME NEW S, Rankable(S), NEW o, Bounds(o), B50Report(S, o) # Invalid
  PROVE  ReportHolds(S, o, B50Report(S, o))
<1> DEFINE L == Listed(S, o)
           R == B50Order(L, o.sort, o.order)
           a == B50Report(S, o)
           key(e) == IF o.sort = "fit" THEN e.fit ELSE e.rating
           ahead(l, r) == IF o.order = "descending" THEN key(l) > key(r) ELSE key(l) < key(r)
           m == [e \in L |-> key(e)]
<1>1. Rankable(L) /\ IsFiniteSet(L)
  BY ListedIs DEF Rankable
<1>2. ValidWindow(o.window) /\ o.window \in WindowData
  BY ReportIs DEF Bounds
<1>3. PICK rows : Enumerates(rows, L, R) /\ a = Report(rows, o.window)
  BY ReportIs
<1> HIDE DEF a, L
<1>4. StrictTotal(L, R) /\ \A x, y \in L : Outranks(m, o.order, x, y) => <<x, y>> \in R
  BY <1>1, MembersOrdered
<1> HIDE DEF R
<1>5. Len(rows) \in Nat /\ Len(rows) = Cardinality(L)
  BY <1>1, <1>3, <1>4, Enumerated
<1> DEFINE out == WindowOf(rows, o.window)
<1>6. a.matched = Cardinality(L) /\ a.rows = out
  BY <1>3, <1>5 DEF Report
<1>7. Len(out) = WindowTakes(Len(rows), o.window) /\ \E from \in Nat \ {0} : Rows(out, rows, from)
  BY <1>2, <1>5, WindowRows
<1>8. PICK from \in Nat \ {0} : Rows(out, rows, from)
  BY <1>7
<1> HIDE DEF out
<1>9. m \in [L -> Int]
  BY <1>1 DEF Rankable, Measured, None
<1> HIDE DEF m
<1>10. Placed(out, L, R, m, o.order)
  <2>1. \A T, Q, s, f, w, v, d : /\ IsFiniteSet(T) /\ StrictTotal(T, Q) /\ Enumerates(s, T, Q) /\ f \in Nat \ {0}
                                 /\ Rows(w, s, f) /\ v \in [T -> Int] /\ \A x, y \in T : Outranks(v, d, x, y) => <<x, y>> \in Q
                                 => Placed(w, T, Q, v, d)
    BY WellPlaced
  <2> QED BY <2>1, <1>1, <1>3, <1>4, <1>8, <1>9
<1>11. \A e \in L : {r \in L : Outranks(m, o.order, r, e)} = {r \in L : ahead(r, e)}
                  /\ {r \in L : ~Outranks(m, o.order, e, r)} = {r \in L : ~ahead(e, r)}
  BY DEF m, Outranks
<1>12. PlacedWell(L, out, LAMBDA e : IF o.sort = "fit" THEN e.fit ELSE e.rating, o.order) <=>
        \A i \in DOMAIN out :
           /\ out[i].rank = out[1].rank + i - 1
           /\ Cardinality({r \in L : ahead(r, out[i].entry)}) < out[i].rank
           /\ out[i].rank <= Cardinality({r \in L : ~ahead(out[i].entry, r)})
           /\ \A k \in DOMAIN out : out[k].entry = out[i].entry => k = i
  BY Zenon DEF PlacedWell
<1>13. PlacedWell(L, out, LAMBDA e : IF o.sort = "fit" THEN e.fit ELSE e.rating, o.order)
  <2> HIDE DEF ahead
  <2> QED BY <1>10, <1>11, <1>12 DEF Placed
<1> QED BY <1>5, <1>6, <1>7, <1>13, Zenon DEF ReportHolds, L, a

-----------------------------------------------------------------------------
(* The rank of a member. *)

(* Everybody is entered once. *)
OneEach(S) == \A x, y \in S : x.qq = y.qq => x = y
(* Somebody with the number is there. *)
Named(S, qq) == \E x \in S : x.qq = qq

(* The position of a member is where they stand. *)
LEMMA PositionIs ==
  ASSUME NEW S, IsFiniteSet(S), OneEach(S), NEW R, StrictTotal(S, R), NEW rows, Enumerates(rows, S, R), NEW qq
  PROVE  /\ Named(S, qq) <=> Position(rows, qq) # None
         /\ \A x \in S : x.qq = qq => /\ Position(rows, qq) = Standing(S, R, x) + 1
                                      /\ Position(rows, qq) \in 1..Len(rows) /\ rows[Position(rows, qq)] = x
<1>1. /\ Len(rows) \in Nat /\ DOMAIN rows = 1..Len(rows)
      /\ \A i \in 1..Len(rows) : rows[i] \in S /\ Standing(S, R, rows[i]) = i - 1
      /\ \A x \in S : Standing(S, R, x) + 1 \in 1..Len(rows) /\ rows[Standing(S, R, x) + 1] = x
  BY Enumerated
<1>2. ASSUME NEW x \in S, x.qq = qq
      PROVE  /\ Position(rows, qq) = Standing(S, R, x) + 1
             /\ Position(rows, qq) \in 1..Len(rows) /\ rows[Position(rows, qq)] = x
  <2> DEFINE i == Standing(S, R, x) + 1
             p == CHOOSE k \in DOMAIN rows : rows[k].qq = qq
  <2>1. i \in DOMAIN rows /\ rows[i] = x
    BY <1>1
  <2>2. \E k \in DOMAIN rows : rows[k].qq = qq
    BY <2>1, <1>2
  <2>3. p \in DOMAIN rows /\ rows[p].qq = qq
    BY <2>2, Zenon
  <2>4. Position(rows, qq) = p
    BY <2>2, Zenon DEF Position
  <2> HIDE DEF p
  <2>5. rows[p] = x /\ Standing(S, R, rows[p]) = p - 1 /\ p \in Int
    BY <2>3, <1>1, <1>2 DEF OneEach
  <2>6. p = i
    BY <2>5
  <2> QED BY <2>1, <2>4, <2>6, <1>1
<1>3. ASSUME ~Named(S, qq) PROVE Position(rows, qq) = None
  <2>1. ~ \E k \in DOMAIN rows : rows[k].qq = qq
    BY <1>1, <1>3 DEF Named
  <2> QED BY <2>1, Zenon DEF Position
<1>4. Position(rows, qq) \in 1..Len(rows) => Position(rows, qq) # None
  BY <1>1 DEF None
<1> QED BY <1>2, <1>3, <1>4 DEF Named

(* A member is found if there, at one rank from either end, and is shown
   among the neighbours. *)
LEMMA MemberIs ==
  ASSUME NEW S, IsFiniteSet(S), OneEach(S), NEW R, StrictTotal(S, R), NEW Q, StrictTotal(S, Q),
         \A x \in S : Standing(S, R, x) + Standing(S, Q, x) = Cardinality(S) - 1,
         NEW desc, Enumerates(desc, S, R), NEW asc, Enumerates(asc, S, Q), NEW qq, NEW size \in Nat
  PROVE  LET member == MemberRank(desc, asc, qq, size)
         IN /\ member.found <=> Named(S, qq)
            /\ member.found <=> member.desc # None
            /\ member.found => /\ member.desc + member.asc = member.total + 1
                               /\ \E r \in ToSet(member.context) : r.rank = member.desc /\ r.entry.qq = qq
            /\ \A x \in S : x.qq = qq => member.desc = Standing(S, R, x) + 1 /\ member.asc = Standing(S, Q, x) + 1
<1> DEFINE at == Position(desc, qq)
           member == MemberRank(desc, asc, qq, size)
           n == Len(desc)
<1>1. /\ member.found = (at # None) /\ member.desc = at /\ member.asc = Position(asc, qq)
      /\ member.total = Len(desc) /\ member.context = Context(desc, at, size)
  BY Zenon DEF MemberRank
<1> HIDE DEF member
<1>2. /\ Named(S, qq) <=> at # None
      /\ \A x \in S : x.qq = qq => at = Standing(S, R, x) + 1 /\ at \in 1..n /\ desc[at] = x
  BY PositionIs
<1>3. \A x \in S : x.qq = qq => Position(asc, qq) = Standing(S, Q, x) + 1
  BY PositionIs
<1>4. n \in Nat /\ n = Cardinality(S)
  BY Enumerated
<1>5. \A x \in S : Standing(S, R, x) \in Int /\ Standing(S, Q, x) \in Int
  <2>1. \A x \in S : Standing(S, R, x) \in 0..Cardinality(S) - 1
    BY Standings
  <2>2. \A x \in S : Standing(S, Q, x) \in 0..Cardinality(S) - 1
    BY Standings
  <2> QED BY <2>1, <2>2
<1> HIDE DEF at, n
<1>6. ASSUME NEW x \in S, x.qq = qq
      PROVE  /\ member.desc + member.asc = member.total + 1
             /\ \E r \in ToSet(member.context) : r.rank = member.desc /\ r.entry.qq = qq
  <2>1. at = Standing(S, R, x) + 1 /\ at \in 1..n /\ desc[at] = x
    BY <1>2, <1>6
  <2>2. member.desc + member.asc = member.total + 1
    BY <2>1, <1>1, <1>3, <1>4, <1>5, <1>6 DEF n
  <2> DEFINE from == Max({1, at - size})
             to == Upto(at + size, desc)
             out == RankedRows(desc, from, to)
  <2>3. from \in Nat \ {0} /\ from <= at
    <3> DEFINE E == {1, at - size}
    <3>1. IsFiniteSet(E) /\ E \subseteq Int /\ E # {}
      <4>1. IsFiniteSet({}) /\ IsFiniteSet({1}) /\ IsFiniteSet({1, at - size})
        BY FS_EmptySet, FS_AddElement
      <4> QED BY <4>1, <2>1, <1>4
    <3> HIDE DEF E
    <3>2. Max(E) \in E /\ \A y \in E : Max(E) >= y
      BY <3>1, MaxIs
    <3>3. Max(E) >= 1 /\ Max(E) \in Int /\ (Max(E) = 1 \/ Max(E) = at - size)
      BY <3>1, <3>2 DEF E
    <3> QED BY <3>3, <2>1, <1>4 DEF E
  <2>4. to \in Int /\ to <= n /\ at <= to
    <3>1. at + size \in Int /\ Len(desc) \in Nat
      BY <2>1, <1>4 DEF n
    <3>2. /\ to \in Int /\ to <= Len(desc) /\ (at + size <= Len(desc) => to = at + size)
          /\ (Len(desc) <= at + size => to = Len(desc))
      BY <3>1, UptoIs
    <3> QED BY <3>1, <3>2, <2>1 DEF n
  <2> HIDE DEF from, to
  <2>5. Rows(out, desc, from) /\ Len(out) = IF to < from THEN 0 ELSE to - from + 1
    BY <2>3, <2>4, <1>4, RankedRowsAre DEF n
  <2>6. member.context = out
    <3>1. at # None
      BY <2>1, <1>4 DEF None
    <3> QED BY <1>1, <3>1 DEF Context, out, from, to
  <2> HIDE DEF out
  <2> DEFINE i == at - from + 1
  <2>7. i \in 1..Len(out) /\ from + i - 1 = at
    BY <2>1, <2>3, <2>4, <2>5, <1>4
  <2> HIDE DEF i
  <2>8. i \in DOMAIN out /\ out[i] = [rank |-> at, entry |-> desc[at]]
    BY <2>5, <2>7 DEF Rows
  <2>9. out[i] \in ToSet(out)
    BY <2>8 DEF ToSet
  <2>10. out[i].rank = at /\ out[i].entry = x
    BY <2>8, <2>1
  <2> QED BY <2>2, <2>6, <2>9, <2>10, <1>1, <1>6
<1>7. member.found <=> Named(S, qq)
  BY <1>1, <1>2
<1> QED BY <1>1, <1>2, <1>3, <1>6, <1>7 DEF Named, member

(* A whole report has everybody at the rank of their standing. *)
LEMMA RankInIs ==
  ASSUME NEW S, IsFiniteSet(S), OneEach(S), NEW R, StrictTotal(S, R), NEW rows, Enumerates(rows, S, R),
         NEW w \in WindowData, w.start = None, w.limit = None, ValidWindow(w), NEW qq
  PROVE  /\ \A x \in S : x.qq = qq => RankIn(Report(rows, w), qq) = Standing(S, R, x) + 1
         /\ ~Named(S, qq) => RankIn(Report(rows, w), qq) = None
<1> DEFINE out == WindowOf(rows, w)
           whole == Report(rows, w)
<1>1. whole.rows = out
  BY DEF Report
<1> HIDE DEF whole
<1>2. /\ Len(rows) \in Nat
      /\ \A i \in 1..Len(rows) : rows[i] \in S /\ Standing(S, R, rows[i]) = i - 1
      /\ \A x \in S : Standing(S, R, x) + 1 \in 1..Len(rows) /\ rows[Standing(S, R, x) + 1] = x
  BY Enumerated
<1>3. Rows(out, rows, 1) /\ Len(out) = Len(rows)
  BY <1>2, WindowRows
<1> HIDE DEF out
<1>4. DOMAIN out = 1..Len(rows) /\ \A i \in 1..Len(rows) : out[i].rank = i /\ out[i].entry = rows[i]
  <2>1. DOMAIN out = 1..Len(rows)
    BY <1>3 DEF Rows
  <2>2. ASSUME NEW i \in 1..Len(rows) PROVE out[i].rank = i /\ out[i].entry = rows[i]
    <3>1. out[i] = [rank |-> 1 + i - 1, entry |-> rows[1 + i - 1]] /\ 1 + i - 1 = i
      BY <1>2, <1>3 DEF Rows
    <3> QED BY <3>1
  <2> QED BY <2>1, <2>2
<1>5. ASSUME NEW x \in S, x.qq = qq PROVE RankIn(whole, qq) = Standing(S, R, x) + 1
  <2> DEFINE i == Standing(S, R, x) + 1
             c == CHOOSE r \in ToSet(out) : r.entry.qq = qq
  <2>1. i \in 1..Len(rows) /\ rows[i] = x
    BY <1>2
  <2> HIDE DEF i
  <2>2. i \in DOMAIN out /\ out[i].entry.qq = qq /\ out[i] \in ToSet(out)
    BY <2>1, <1>4, <1>5 DEF ToSet
  <2>3. c \in ToSet(out) /\ c.entry.qq = qq
    BY <2>2, Zenon
  <2>4. RankIn(whole, qq) = c.rank
    BY <2>2, <1>1, Zenon DEF RankIn
  <2> HIDE DEF c
  <2>5. PICK k \in 1..Len(rows) : c = out[k]
    BY <2>3, <1>4 DEF ToSet
  <2>6. rows[k] = x
    BY <2>3, <2>5, <1>2, <1>4, <1>5 DEF OneEach
  <2>7. Standing(S, R, x) = k - 1 /\ k \in Int
    BY <2>6, <1>2
  <2> QED BY <2>4, <2>5, <2>7, <1>4
<1>6. ASSUME ~Named(S, qq) PROVE RankIn(whole, qq) = None
  <2>1. ~ \E i \in DOMAIN whole.rows : whole.rows[i].entry.qq = qq
    BY <1>1, <1>2, <1>4, <1>6 DEF Named
  <2> QED BY <2>1, Zenon DEF RankIn
<1> QED BY <1>5, <1>6 DEF whole

(* What the tool about a member answers. *)
LEMMA MemberRankIs ==
  ASSUME NEW S, Rankable(S), NEW qq, NEW size \in Nat
  PROVE  LET member == B50MemberRank(S, qq, size)
         IN /\ member.verdict = "member"
            /\ member.found <=> Named(S, qq)
            /\ member.found <=> member.desc # None
            /\ member.found => /\ member.desc + member.asc = member.total + 1
                               /\ \E r \in ToSet(member.context) : r.rank = member.desc /\ r.entry.qq = qq
            /\ \A x \in S : x.qq = qq => /\ member.desc = Standing(S, B50Order(S, "rating", "descending"), x) + 1
                                         /\ member.asc = Standing(S, B50Order(S, "rating", "ascending"), x) + 1
<1> DEFINE R == B50Order(S, "rating", "descending")
           Q == B50Order(S, "rating", "ascending")
           member == B50MemberRank(S, qq, size)
<1>1. IsFiniteSet(S) /\ OneEach(S)
  BY DEF Rankable, OneEach
<1>2. StrictTotal(S, R) /\ StrictTotal(S, Q)
  BY MembersOrdered
<1>3. \A x \in S : Standing(S, R, x) + Standing(S, Q, x) = Cardinality(S) - 1
  <2>1. Keyed(S, MemberKeys(S, "rating"))
    BY MembersKeyed
  <2> QED BY <1>1, <2>1, BothEnds DEF B50Order
<1>4. PICK desc : desc = Arrange(S, LAMBDA e : B50Key(e, "rating"), "descending") /\ Enumerates(desc, S, R)
  BY MembersArranged
<1>5. PICK asc : asc = Arrange(S, LAMBDA e : B50Key(e, "rating"), "ascending") /\ Enumerates(asc, S, Q)
  BY MembersArranged
<1>6. member = MemberRank(desc, asc, qq, size)
  BY <1>4, <1>5, Zenon DEF B50MemberRank
<1>7. member.verdict = "member"
  <2>1. \A d, a, q, n : MemberRank(d, a, q, n).verdict = "member"
    BY DEF MemberRank
  <2> HIDE DEF member
  <2> QED BY <1>6, <2>1
<1> HIDE DEF R, Q, member
<1>8. \A s, t : Enumerates(s, S, R) /\ Enumerates(t, S, Q) =>
        LET m == MemberRank(s, t, qq, size)
        IN /\ m.found <=> Named(S, qq)
           /\ m.found <=> m.desc # None
           /\ m.found => /\ m.desc + m.asc = m.total + 1
                         /\ \E r \in ToSet(m.context) : r.rank = m.desc /\ r.entry.qq = qq
           /\ \A x \in S : x.qq = qq => m.desc = Standing(S, R, x) + 1 /\ m.asc = Standing(S, Q, x) + 1
  BY <1>1, <1>2, <1>3, MemberIs
<1>9. /\ member.found <=> Named(S, qq)
      /\ member.found <=> member.desc # None
      /\ member.found => /\ member.desc + member.asc = member.total + 1
                         /\ \E r \in ToSet(member.context) : r.rank = member.desc /\ r.entry.qq = qq
      /\ \A x \in S : x.qq = qq => member.desc = Standing(S, R, x) + 1 /\ member.asc = Standing(S, Q, x) + 1
  BY <1>4, <1>5, <1>6, <1>8
<1> QED BY <1>7, <1>9 DEF R, Q, member

(* The options of the whole ranking. *)
LEMMA WholeIs ==
  /\ Whole.sort = "rating" /\ Whole.order = "descending"
  /\ Whole.min = None /\ Whole.max = None /\ Whole.fitMin = None /\ Whole.fitMax = None
  /\ Whole.window = [limit |-> None, start |-> None, end |-> None]
BY DEF Whole

(* A window without bounds. *)
LEMMA UnboundedWindow ==
  ASSUME NEW w, w = [limit |-> None, start |-> None, end |-> None]
  PROVE  w \in WindowData /\ ValidWindow(w) /\ w.start = None /\ w.limit = None
BY DEF WindowData, ValidWindow, None, Measured

(* A report with a fitting window and ranges is given. *)
LEMMA ReportsAreValid ==
  ASSUME NEW S, NEW o, ValidWindow(o.window), ~Reversed(o.min, o.max), ~Reversed(o.fitMin, o.fitMax)
  PROVE  B50Report(S, o) # Invalid
<1>1. B50Report(S, o) = Report(Arrange({e \in S : B50Matches(e, o)}, LAMBDA e : B50Key(e, o.sort), o.order), o.window)
  BY Zenon DEF B50Report
<1>2. \A rows, w : Report(rows, w) # Invalid
  BY DEF Report, Invalid
<1> QED BY <1>1, <1>2, Zenon

(* Who has no rating is behind all others, so leaving them out changes no
   rank. *)
LEMMA StandingAmongRated ==
  ASSUME NEW S, Rankable(S), NEW L \in SUBSET S, Rankable(L), \A e \in S : e \in L <=> e.rating # None, NEW x \in L
  PROVE  Standing(L, B50Order(L, "rating", "descending"), x) = Standing(S, B50Order(S, "rating", "descending"), x)
<1> DEFINE RL == B50Order(L, "rating", "descending")
           RS == B50Order(S, "rating", "descending")
<1>1. \A y, z \in L : <<y, z>> \in RL <=> Ahead(B50Key(y, "rating"), B50Key(z, "rating"))
  BY MembersOrdered
<1>2. \A y, z \in S : <<y, z>> \in RS <=> Ahead(B50Key(y, "rating"), B50Key(z, "rating"))
  BY MembersOrdered
<1>3. ASSUME NEW y \in S, Ahead(B50Key(y, "rating"), B50Key(x, "rating")) PROVE y \in L
  <2>1. y.rating \in Nat \cup {-1} /\ x.rating \in Nat \cup {-1} /\ x.rating # -1
    BY DEF Rankable, Measured, None
  <2> DEFINE v == B50Key(y, "rating")
             w == B50Key(x, "rating")
  <2>2. v = <<y.rating, y.rating, y.name, y.qq>> /\ w = <<x.rating, x.rating, x.name, x.qq>>
    BY DEF B50Key
  <2>3. v[1] = y.rating /\ w[1] = x.rating /\ DOMAIN v = 1..4
    BY <2>2
  <2>4. Ahead(v, w)
    BY <1>3
  <2> HIDE DEF v, w
  <2>5. PICK i \in 1..4 : v[i] > w[i] /\ \A k \in 1..i - 1 : v[k] = w[k]
    BY <2>3, <2>4 DEF Ahead
  <2>6. v[1] >= w[1]
    <3>1. CASE i = 1
      BY <3>1, <2>5, <2>3, <2>1
    <3>2. CASE i # 1
      <4>1. 1 \in 1..i - 1
        BY <3>2
      <4> QED BY <4>1, <2>5, <2>3, <2>1
    <3> QED BY <3>1, <3>2
  <2> QED BY <2>1, <2>3, <2>6 DEF None
<1> HIDE DEF RL, RS
<1>4. Leading(L, RL, x) = Leading(S, RS, x)
  BY <1>1, <1>2, <1>3 DEF Leading
<1> QED BY <1>4 DEF Standing, RL, RS

(* A member is at the rank that the whole report gives. *)
LEMMA MemberAgrees ==
  ASSUME NEW S, Rankable(S), NEW qq, NEW size \in Nat
  PROVE  /\ B50MemberRank(S, qq, size).found <=> \E e \in S : e.qq = qq
         /\ AtOneRank(B50MemberRank(S, qq, size), qq, B50Report(S, Whole))
<1> DEFINE o == Whole
           L == Listed(S, o)
           member == B50MemberRank(S, qq, size)
           whole == B50Report(S, o)
           RL == B50Order(L, "rating", "descending")
<1>1. /\ member.found <=> Named(S, qq)
      /\ member.found <=> member.desc # None
      /\ member.found => /\ member.desc + member.asc = member.total + 1
                         /\ \E r \in ToSet(member.context) : r.rank = member.desc /\ r.entry.qq = qq
      /\ \A x \in S : x.qq = qq => member.desc = Standing(S, B50Order(S, "rating", "descending"), x) + 1
  BY MemberRankIs
<1>2. /\ o.sort = "rating" /\ o.order = "descending"
      /\ o.min = None /\ o.max = None /\ o.fitMin = None /\ o.fitMax = None
      /\ o.window \in WindowData /\ ValidWindow(o.window) /\ o.window.start = None /\ o.window.limit = None
  BY WholeIs, UnboundedWindow
<1> HIDE DEF o, member
<1>3. Bounds(o)
  BY <1>2 DEF Bounds, Measured
<1>4. whole # Invalid
  BY <1>2, ReportsAreValid DEF Reversed
<1>5. PICK rows : Enumerates(rows, L, RL) /\ whole = Report(rows, o.window)
  BY <1>2, <1>3, <1>4, ReportIs
<1>6. L \in SUBSET S /\ Rankable(L) /\ IsFiniteSet(L) /\ OneEach(L) /\ StrictTotal(L, RL)
  BY <1>3, ListedIs, MembersOrdered DEF Rankable, OneEach
<1>7. \A e \in S : e \in L <=> e.rating # None
  <2> SUFFICES ASSUME NEW e \in S PROVE e \in L <=> e.rating # None
    OBVIOUS
  <2>1. e.rating \in Nat \cup {-1}
    BY DEF Rankable, Measured, None
  <2> QED BY <2>1, <1>2 DEF Listed, None
<1>8. \A x \in L : Standing(L, RL, x) = Standing(S, B50Order(S, "rating", "descending"), x)
  BY <1>6, <1>7, StandingAmongRated
<1> HIDE DEF L, whole, RL
<1>9. /\ \A x \in L : x.qq = qq => RankIn(whole, qq) = Standing(L, RL, x) + 1
      /\ ~Named(L, qq) => RankIn(whole, qq) = None
  BY <1>2, <1>5, <1>6, RankInIs
<1>10. RankIn(whole, qq) \in {member.desc, None}
  <2>1. CASE Named(L, qq)
    BY <2>1, <1>1, <1>6, <1>8, <1>9 DEF Named
  <2>2. CASE ~Named(L, qq)
    BY <2>2, <1>9
  <2> QED BY <2>1, <2>2
<1>11. whole = B50Report(S, Whole)
  BY DEF whole, o
<1>12. AtOneRank(member, qq, whole)
  BY <1>1, <1>10 DEF AtOneRank
<1>13. member.found <=> \E e \in S : e.qq = qq
  BY <1>1 DEF Named
<1>14. B50MemberRank(S, qq, size).found <=> \E e \in S : e.qq = qq
  BY <1>13 DEF member
<1>15. AtOneRank(B50MemberRank(S, qq, size), qq, whole)
  BY <1>12 DEF member
<1>16. AtOneRank(B50MemberRank(S, qq, size), qq, B50Report(S, Whole))
  BY <1>15, <1>11
<1> QED BY <1>14, <1>16

-----------------------------------------------------------------------------
(* Reports on a song. *)

(* Of finitely many plays one is behind no other. *)
LEMMA BestOf ==
  ASSUME NEW P, IsFiniteSet(P), P # {}, \A r \in P : r.rating \in Int /\ r.achievement \in Int
  PROVE  \E r \in P : \A q \in P : ~Ahead(<<q.rating, q.achievement>>, <<r.rating, r.achievement>>)
<1> DEFINE f == [r \in P |-> r.rating]
           ratings == {f[r] : r \in P}
<1>1. IsFiniteSet(ratings) /\ ratings \subseteq Int /\ ratings # {}
  BY ImageFinite
<1>2. PICK m \in ratings : \A y \in ratings : m >= y
  <2> HIDE DEF ratings
  <2> QED BY <1>1, MaxIs
<1> DEFINE Q == {r \in P : r.rating = m}
           g == [r \in Q |-> r.achievement]
           achievements == {g[r] : r \in Q}
<1>3. IsFiniteSet(Q)
  BY FS_Subset
<1>4. IsFiniteSet(achievements) /\ achievements \subseteq Int /\ achievements # {}
  <2>1. Q # {} /\ \A r \in Q : g[r] \in Int
    BY <1>2
  <2> HIDE DEF Q, g
  <2>2. IsFiniteSet(achievements)
    BY <1>3, ImageFinite, Zenon
  <2> QED BY <2>1, <2>2
<1>5. PICK n \in achievements : \A y \in achievements : n >= y
  <2> HIDE DEF achievements
  <2> QED BY <1>4, MaxIs
<1>6. PICK r \in Q : r.achievement = n
  OBVIOUS
<1>7. ASSUME NEW q \in P PROVE ~Ahead(<<q.rating, q.achievement>>, <<r.rating, r.achievement>>)
  <2> DEFINE v == <<q.rating, q.achievement>>
             w == <<r.rating, r.achievement>>
  <2>1. m >= q.rating /\ (q.rating = m => n >= q.achievement) /\ r.rating = m /\ r.achievement = n /\ m \in Int /\ n \in Int
        /\ q.rating \in Int /\ q.achievement \in Int
    BY <1>2, <1>4, <1>5, <1>6, <1>1
  <2>2. v[1] = q.rating /\ v[2] = q.achievement /\ w[1] = m /\ w[2] = n /\ DOMAIN v = {1, 2}
    BY <2>1
  <2> HIDE DEF v, w
  <2>3. ASSUME NEW i \in DOMAIN v, v[i] > w[i], \A k \in 1..i - 1 : v[k] = w[k] PROVE FALSE
    <3>1. CASE i = 1
      BY <3>1, <2>1, <2>2, <2>3
    <3>2. CASE i = 2
      <4>1. 1 \in 1..i - 1
        BY <3>2
      <4> QED BY <4>1, <3>2, <2>1, <2>2, <2>3
    <3> QED BY <3>1, <3>2, <2>2
  <2> QED BY <2>3 DEF Ahead, v, w
<1> QED BY <1>6, <1>7

(* A difficulty is chosen if any chart fits. *)
LEMMA DifficultyIs ==
  ASSUME NEW records, IsFiniteSet(records), \A r \in records : r.difficulty \in Nat, NEW target,
         NEW r \in records, SongMatches(r, target)
  PROVE  ChosenDifficulty(records, target) # None
<1> DEFINE A == {s \in records : SongMatches(s, target)}
           f == [s \in A |-> s.difficulty]
           available == {f[s] : s \in A}
<1>1. IsFiniteSet(A) /\ r \in A
  BY FS_Subset
<1>2. IsFiniteSet(available) /\ available # {} /\ available \subseteq Nat
  BY <1>1, ImageFinite
<1>3. Max(available) \in Nat
  <2> HIDE DEF available
  <2>1. available \subseteq Int
    BY <1>2
  <2> QED BY <1>2, <2>1, MaxIs
<1>4. available = {s.difficulty : s \in {k \in records : SongMatches(k, target)}}
  OBVIOUS
<1> HIDE DEF available
<1>5. ChosenDifficulty(records, target) =
        CASE target.difficulty = None /\ available # {} -> Max(available)
          [] target.difficulty # None /\ target.difficulty \notin available /\ Cardinality(available) = 1 -> Max(available)
          [] OTHER -> target.difficulty
  BY <1>4, Zenon DEF ChosenDifficulty
<1>6. Max(available) # None
  BY <1>3 DEF None
<1> QED BY <1>2, <1>5, <1>6

(* What a member played of what is asked for. *)
Plays(records, o, qq) ==
  {r \in records : /\ r.qq = qq /\ SongMatches(r, o.target)
                   /\ r.difficulty = ChosenDifficulty(records, o.target)
                   /\ Achieved(r, o)}
(* A record of a play. *)
SongData == [qq : Nat, song : Nat, chart : Nat, difficulty : Nat, deluxe : {"yes", "no"},
             rating : Measured, achievement : Measured, dx : Measured]

(* The records a ranking on a song is made of. *)
Candidates(members, records, o) ==
  {s \in {r \in records : /\ SongMatches(r, o.target)
                          /\ ChosenDifficulty(records, o.target) \in {None, r.difficulty}
                          /\ Achieved(r, o)} : s.qq \in members}
(* They, with the member in the place of the chart, as one of each is kept. *)
Entered(members, records, o) == {[r EXCEPT !.chart = r.qq] : r \in Candidates(members, records, o)}

(* They stand for what the members played. *)
LEMMA EnteredAre ==
  ASSUME NEW members, NEW records, SongRankable(members, records), NEW o
  PROVE  /\ IsFiniteSet(Entered(members, records, o))
         /\ \A p \in Entered(members, records, o) :
              /\ p.chart = p.qq /\ p.qq \in members /\ p.qq \in Nat
              /\ {p.rating, p.achievement, p.dx} \subseteq Int
              /\ \E r \in Plays(records, o, p.qq) : r.rating = p.rating /\ r.achievement = p.achievement
         /\ \A qq \in members : \A r \in Plays(records, o, qq) :
              \E p \in Entered(members, records, o) : p.qq = qq /\ p.rating = r.rating /\ p.achievement = r.achievement
<1> DEFINE C == Candidates(members, records, o)
           f == [r \in C |-> [r EXCEPT !.chart = r.qq]]
<1>0. records \subseteq SongData /\ IsFiniteSet(records)
  BY DEF SongRankable, SongData
<1>1. \A r \in records : r.difficulty \in Nat
  BY <1>0 DEF SongData
<1>2. \A r \in records : SongMatches(r, o.target) => ChosenDifficulty(records, o.target) # None
  BY <1>0, <1>1, DifficultyIs
<1>3. C \in SUBSET records /\ (\A r \in C : r.qq \in members /\ r \in Plays(records, o, r.qq))
      /\ \A qq \in members : \A r \in Plays(records, o, qq) : r \in C /\ r.qq = qq
  <2> DEFINE D == ChosenDifficulty(records, o.target)
  <2>1. C = {s \in {r \in records : /\ SongMatches(r, o.target) /\ D \in {None, r.difficulty} /\ Achieved(r, o)} : s.qq \in members}
    BY DEF Candidates
  <2>2. \A qq : Plays(records, o, qq) = {r \in records : r.qq = qq /\ SongMatches(r, o.target) /\ r.difficulty = D /\ Achieved(r, o)}
    BY DEF Plays
  <2>3. \A r \in records : SongMatches(r, o.target) => D # None
    BY <1>2
  <2> HIDE DEF D, C
  <2> QED BY <2>1, <2>2, <2>3
<1> HIDE DEF C
<1>4. IsFiniteSet(C)
  BY <1>0, <1>3, FS_Subset
<1>5. Entered(members, records, o) = {f[r] : r \in C}
  BY DEF Entered, C
<1>6. ASSUME NEW r \in C
      PROVE  /\ f[r].chart = r.qq /\ f[r].qq = r.qq /\ f[r].rating = r.rating /\ f[r].achievement = r.achievement /\ f[r].dx = r.dx
             /\ r.qq \in Nat /\ r.rating \in Int /\ r.achievement \in Int /\ r.dx \in Int
  <2>1. r \in SongData
    BY <1>0, <1>3
  <2>2. PICK c : c = [r EXCEPT !.chart = r.qq]
    OBVIOUS
  <2>3. c.chart = r.qq /\ c.qq = r.qq /\ c.rating = r.rating /\ c.achievement = r.achievement /\ c.dx = r.dx
    BY <2>1, <2>2 DEF SongData
  <2>4. f[r] = c
    BY <2>2
  <2>5. r.qq \in Nat /\ r.rating \in Nat \cup {-1} /\ r.achievement \in Nat \cup {-1} /\ r.dx \in Nat \cup {-1}
    BY <2>1 DEF SongData, Measured, None
  <2> HIDE DEF f
  <2> QED BY <2>3, <2>4, <2>5
<1> HIDE DEF f
<1>7. IsFiniteSet({f[r] : r \in C})
  BY <1>4, ImageFinite
<1> QED BY <1>3, <1>5, <1>6, <1>7

(* One entry of everybody who played, with the best of what they played. *)
Contenders(T, members, records, o) ==
  /\ IsFiniteSet(T) /\ OneEach(T)
  /\ \A e \in T : /\ e.qq \in members /\ e.qq \in Nat /\ {e.rating, e.achievement, e.dx} \subseteq Int
                  /\ \E p \in Plays(records, o, e.qq) :
                       /\ p.rating = e.rating /\ p.achievement = e.achievement
                       /\ \A other \in Plays(records, o, e.qq) : other.rating <= p.rating
  /\ \A qq \in members : Plays(records, o, qq) # {} => Named(T, qq)

(* Such are the rows of a song. *)
LEMMA SongRowsAre ==
  ASSUME NEW members, NEW records, SongRankable(members, records), NEW o
  PROVE  Contenders(SongRows(members, records, o), members, records, o)
<1> DEFINE P == Entered(members, records, o)
           of(c) == {p \in P : p.chart = c}
           best(c) == CHOOSE r \in of(c) : \A q \in of(c) : ~Ahead(<<q.rating, q.achievement>>, <<r.rating, r.achievement>>)
           charts == {p.chart : p \in P}
           T == {best(c) : c \in charts}
<1>1. SongRows(members, records, o) = T
  BY Zenon DEF SongRows, FirstOfEach, Entered, Candidates
<1>2. /\ IsFiniteSet(P)
      /\ \A p \in P : /\ p.chart = p.qq /\ p.qq \in members /\ p.qq \in Nat
                      /\ {p.rating, p.achievement, p.dx} \subseteq Int
                      /\ \E r \in Plays(records, o, p.qq) : r.rating = p.rating /\ r.achievement = p.achievement
      /\ \A qq \in members : \A r \in Plays(records, o, qq) :
              \E p \in P : p.qq = qq /\ p.rating = r.rating /\ p.achievement = r.achievement
  BY EnteredAre
<1> HIDE DEF P
<1>3. ASSUME NEW c \in charts
      PROVE  best(c) \in P /\ best(c).chart = c
             /\ \A q \in P : q.chart = c => q.rating <= best(c).rating
  <2>1. of(c) # {} /\ of(c) \in SUBSET P
    OBVIOUS
  <2>2. IsFiniteSet(of(c)) /\ \A r \in of(c) : r.rating \in Int /\ r.achievement \in Int
    <3>1. IsFiniteSet(of(c))
      BY <1>2, FS_Subset
    <3> QED BY <3>1, <1>2
  <2> HIDE DEF of
  <2>3. \E r \in of(c) : \A q \in of(c) : ~Ahead(<<q.rating, q.achievement>>, <<r.rating, r.achievement>>)
    BY <2>1, <2>2, BestOf
  <2>4. best(c) \in of(c) /\ \A q \in of(c) : ~Ahead(<<q.rating, q.achievement>>, <<best(c).rating, best(c).achievement>>)
    BY <2>3, Zenon
  <2> DEFINE r == best(c)
  <2> HIDE DEF best
  <2>5. ASSUME NEW q \in of(c) PROVE q.rating <= r.rating
    <3> DEFINE v == <<q.rating, q.achievement>>
               w == <<r.rating, r.achievement>>
    <3>1. v[1] = q.rating /\ w[1] = r.rating /\ 1 \in DOMAIN v /\ 1..1 - 1 = {}
      OBVIOUS
    <3>2. ~Ahead(v, w)
      BY <2>4
    <3>3. q.rating \in Int /\ r.rating \in Int
      BY <2>2, <2>4
    <3> HIDE DEF v, w
    <3>4. ~(v[1] > w[1])
      BY <3>1, <3>2 DEF Ahead
    <3> QED BY <3>1, <3>3, <3>4
  <2> QED BY <2>1, <2>4, <2>5 DEF of
<1>4. \A p \in P : p.chart \in charts
  OBVIOUS
<1>5. IsFiniteSet(T)
  <2> DEFINE f == [p \in P |-> p.chart]
             g == [c \in charts |-> best(c)]
  <2>1. charts = {f[p] : p \in P}
    OBVIOUS
  <2>2. T = {g[c] : c \in charts}
    OBVIOUS
  <2> HIDE DEF f, g, charts, T
  <2>3. IsFiniteSet(charts)
    BY <1>2, <2>1, ImageFinite
  <2> QED BY <2>2, <2>3, ImageFinite
<1>6. T \subseteq P
  BY <1>3
<1> HIDE DEF best, charts
<1>7. OneEach(T)
  <2> SUFFICES ASSUME NEW x \in T, NEW y \in T, x.qq = y.qq PROVE x = y
    BY DEF OneEach
  <2>1. PICK c \in charts : x = best(c)
    OBVIOUS
  <2>2. PICK d \in charts : y = best(d)
    OBVIOUS
  <2>3. x.chart = c /\ y.chart = d /\ x \in P /\ y \in P
    BY <2>1, <2>2, <1>3
  <2>4. c = d
    BY <2>3, <1>2
  <2> QED BY <2>1, <2>2, <2>4
<1>8. ASSUME NEW e \in T
      PROVE  \E p \in Plays(records, o, e.qq) :
                       /\ p.rating = e.rating /\ p.achievement = e.achievement
                       /\ \A other \in Plays(records, o, e.qq) : other.rating <= p.rating
  <2>1. e \in P /\ \A q \in P : q.chart = e.chart => q.rating <= e.rating
    BY <1>3
  <2>2. PICK p \in Plays(records, o, e.qq) : p.rating = e.rating /\ p.achievement = e.achievement
    BY <2>1, <1>2
  <2>3. ASSUME NEW other \in Plays(records, o, e.qq) PROVE other.rating <= p.rating
    <3>1. e.qq \in members /\ e.chart = e.qq
      BY <2>1, <1>2
    <3>2. PICK q \in P : q.qq = e.qq /\ q.rating = other.rating
      BY <3>1, <1>2
    <3>3. q.chart = e.chart
      BY <3>1, <3>2, <1>2
    <3> QED BY <3>2, <3>3, <2>1, <2>2
  <2> QED BY <2>2, <2>3
<1>9. ASSUME NEW qq \in members, Plays(records, o, qq) # {} PROVE Named(T, qq)
  <2>1. PICK p \in P : p.qq = qq
    BY <1>2, <1>9
  <2>2. p.chart \in charts /\ p.chart = qq
    BY <2>1, <1>2, <1>4
  <2>3. best(qq) \in T /\ best(qq).chart = qq /\ best(qq) \in P
    BY <2>2, <1>3
  <2>4. best(qq).qq = qq
    BY <2>3, <1>2
  <2> QED BY <2>3, <2>4 DEF Named
<1>10. \A e \in T : e.qq \in members /\ e.qq \in Nat /\ {e.rating, e.achievement, e.dx} \subseteq Int
  BY <1>2, <1>6
<1> HIDE DEF T
<1>11. Contenders(T, members, records, o)
  BY <1>5, <1>7, <1>8, <1>9, <1>10 DEF Contenders
<1> QED BY <1>1, <1>11

(* They are as many as members who played. *)
LEMMA ContendersCount ==
  ASSUME NEW T, NEW members, IsFiniteSet(members), NEW records, NEW o, Contenders(T, members, records, o)
  PROVE  Cardinality(T) = Cardinality({m \in members : Plays(records, o, m) # {}})
<1> DEFINE M == {m \in members : Plays(records, o, m) # {}}
           f == [e \in T |-> e.qq]
<1>1. IsFiniteSet(T) /\ IsFiniteSet(M)
  BY FS_Subset DEF Contenders
<1>2. f \in Bijection(T, M)
  <2>1. ASSUME NEW e \in T PROVE f[e] \in M
    BY DEF Contenders
  <2>2. f \in Injection(T, M)
    BY <2>1 DEF Contenders, OneEach, Injection, IsInjective
  <2>3. ASSUME NEW m \in M PROVE \E e \in T : f[e] = m
    BY DEF Contenders, Named
  <2>4. f \in Surjection(T, M)
    <3>1. f \in [T -> M]
      BY <2>1
    <3> HIDE DEF f, M
    <3> QED BY <2>3, <3>1 DEF Surjection
  <2> HIDE DEF f, M
  <2> QED BY <2>2, <2>4 DEF Bijection
<1> HIDE DEF f, M
<1>3. Cardinality(T) = Cardinality(M)
  <2>1. ExistsBijection(T, M)
    BY <1>2 DEF ExistsBijection
  <2> QED BY <1>1, <2>1, FS_Bijection
<1> QED BY <1>3 DEF M

(* The keys of entries. *)
SongKeys(T, sort) == [r \in T |-> SongKey(r, sort)]
(* Their order. *)
SongOrder(T, sort, order) == ByKey(T, SongKeys(T, sort), order)
(* Entries that can be put in order. *)
Contending(T) == IsFiniteSet(T) /\ OneEach(T) /\ \A e \in T : {e.rating, e.achievement, e.dx, e.qq} \subseteq Int

(* No two of them have one key. *)
LEMMA ContendersKeyed ==
  ASSUME NEW T, Contending(T), NEW sort
  PROVE  /\ Keyed(T, SongKeys(T, sort))
         /\ \A e \in T : SongKeys(T, sort)[e] = SongKey(e, sort)
<1> DEFINE k == SongKeys(T, sort)
<1>1. \A e \in T : e.qq \in Int /\ e.rating \in Int /\ e.achievement \in Int /\ e.dx \in Int
  BY DEF Contending
<1>2. \A e \in T : k[e] = SongKey(e, sort)
  BY DEF SongKeys
<1>3. {1, 2, 3} \in IndexSets
  BY DEF IndexSets
<1>4. ASSUME NEW e \in T PROVE k[e] \in [{1, 2, 3} -> Int] /\ k[e][3] = e.qq
  <2> DEFINE f == CASE sort = "rating" -> e.rating [] sort = "dx" -> e.dx [] OTHER -> e.achievement
  <2>1. k[e] = <<f, e.achievement, e.qq>>
    BY <1>2 DEF SongKey
  <2>2. f \in Int
    BY <1>1
  <2> HIDE DEF f, k
  <2> QED BY <2>1, <2>2, <1>1
<1>5. ASSUME NEW x \in T, NEW y \in T, k[x] = k[y] PROVE x = y
  <2>1. x.qq = y.qq
    BY <1>4, <1>5
  <2> QED BY <2>1 DEF Contending, OneEach
<1> HIDE DEF k
<1> QED BY <1>2, <1>3, <1>4, <1>5 DEF Keyed, k

(* arrange lists them in their order. *)
LEMMA ContendersArranged ==
  ASSUME NEW S, Contending(S), NEW sort, NEW order
  PROVE  /\ StrictTotal(S, SongOrder(S, sort, order))
         /\ \E rows : /\ rows = Arrange(S, LAMBDA r : SongKey(r, sort), order)
                      /\ Enumerates(rows, S, SongOrder(S, sort, order))
<1> DEFINE before(x, y) == IF order = "descending" THEN Ahead(SongKey(x, sort), SongKey(y, sort)) ELSE Ahead(SongKey(y, sort), SongKey(x, sort))
           at(i) == CHOOSE x \in S : Cardinality({y \in S : before(y, x)}) = i - 1
           n == Cardinality(S)
           k == SongKeys(S, sort)
           R == SongOrder(S, sort, order)
           rows == [i \in 1..n |-> at(i)]
<1>1. Arrange(S, LAMBDA r : SongKey(r, sort), order) = rows
  BY Zenon DEF Arrange, Sorted
<1>2. IsFiniteSet(S) /\ StrictTotal(S, R) /\ \A x, y \in S : <<x, y>> \in R <=> before(x, y)
  <2>1. Keyed(S, k) /\ \A e \in S : k[e] = SongKey(e, sort)
    BY ContendersKeyed
  <2> HIDE DEF k
  <2>2. /\ StrictTotal(S, ByKey(S, k, order))
        /\ \A x, y \in S : <<x, y>> \in ByKey(S, k, order) <=> IF order = "descending" THEN Ahead(k[x], k[y]) ELSE Ahead(k[y], k[x])
    BY <2>1, KeyOrders
  <2>3. R = ByKey(S, k, order)
    BY DEF SongOrder, k
  <2> HIDE DEF R
  <2> QED BY <2>1, <2>2, <2>3 DEF Contending
<1> HIDE DEF R
<1>3. n \in Nat /\ \A j \in 0..n - 1 : \E x \in S : Standing(S, R, x) = j
  BY <1>2, Standings
<1>4. \A x \in S : Standing(S, R, x) = Cardinality({y \in S : before(y, x)})
  <2> SUFFICES ASSUME NEW x \in S PROVE Standing(S, R, x) = Cardinality({y \in S : before(y, x)})
    OBVIOUS
  <2>1. Leading(S, R, x) = {y \in S : before(y, x)}
    BY <1>2 DEF Leading
  <2> QED BY <2>1 DEF Standing
<1> HIDE DEF before
<1>5. ASSUME NEW i \in 1..n PROVE at(i) \in S /\ Standing(S, R, at(i)) = i - 1
  <2>1. i - 1 \in 0..n - 1
    BY <1>3
  <2>2. \E x \in S : Cardinality({y \in S : before(y, x)}) = i - 1
    BY <2>1, <1>3, <1>4
  <2>3. at(i) \in S /\ Cardinality({y \in S : before(y, at(i))}) = i - 1
    BY <2>2, Zenon
  <2> QED BY <2>3, <1>4
<1> HIDE DEF at, n
<1>6. rows \in Seq(S) /\ Len(rows) = n /\ \A i \in 1..n : Standing(S, R, rows[i]) = i - 1
  BY <1>3, <1>5
<1> HIDE DEF rows
<1>7. Enumerates(rows, S, R)
  BY <1>6 DEF Enumerates, n
<1> QED BY <1>1, <1>2, <1>7 DEF R

(* The rows of a song can be put in order. *)
LEMMA ContendersContend ==
  ASSUME NEW T, NEW members, NEW records, NEW o, Contenders(T, members, records, o)
  PROVE  Contending(T)
<1>1. IsFiniteSet(T) /\ OneEach(T) /\ \A e \in T : e.qq \in Nat /\ {e.rating, e.achievement, e.dx} \subseteq Int
  BY DEF Contenders
<1> QED BY <1>1 DEF Contending

(* A report on a song is a window of the list of its rows. *)
LEMMA SongReportIs ==
  ASSUME NEW members, NEW records, SongRankable(members, records), NEW o, o.window \in WindowData,
         SongReport(members, records, o) # Invalid
  PROVE  LET T == SongRows(members, records, o)
         IN /\ ValidWindow(o.window) /\ Contenders(T, members, records, o)
            /\ StrictTotal(T, SongOrder(T, o.sort, o.order))
            /\ \E rows : /\ Enumerates(rows, T, SongOrder(T, o.sort, o.order))
                         /\ SongReport(members, records, o) = Report(rows, o.window)
<1> DEFINE T == SongRows(members, records, o)
           R == SongOrder(T, o.sort, o.order)
<1>1. ValidWindow(o.window) /\ SongReport(members, records, o) = Report(Arrange(T, LAMBDA r : SongKey(r, o.sort), o.order), o.window)
  BY Zenon DEF SongReport
<1>2. Contenders(T, members, records, o)
  BY SongRowsAre
<1> HIDE DEF T
<1>3. Contending(T)
  BY <1>2, ContendersContend
<1>4. PICK rows : rows = Arrange(T, LAMBDA r : SongKey(r, o.sort), o.order) /\ Enumerates(rows, T, R)
  BY <1>3, ContendersArranged
<1>5. StrictTotal(T, R)
  BY <1>3, ContendersArranged
<1>6. SongReport(members, records, o) = Report(rows, o.window)
  BY <1>1, <1>4, Zenon
<1> QED BY <1>1, <1>2, <1>4, <1>5, <1>6 DEF T

(* Every report on a song has everybody who played, as many as its window
   takes, each with the best of what they played. *)
LEMMA SongReportsHold ==
  ASSUME NEW members, NEW records, SongRankable(members, records), NEW o, o.window \in WindowData,
         SongReport(members, records, o) # Invalid
  PROVE  SongReportHolds(members, records, o, SongReport(members, records, o))
<1> DEFINE T == SongRows(members, records, o)
           R == SongOrder(T, o.sort, o.order)
           a == SongReport(members, records, o)
<1>1. ValidWindow(o.window) /\ Contenders(T, members, records, o) /\ StrictTotal(T, R)
  BY SongReportIs
<1>2. PICK rows : Enumerates(rows, T, R) /\ a = Report(rows, o.window)
  BY SongReportIs
<1> HIDE DEF T, R, a
<1>3. Len(rows) \in Nat /\ Len(rows) = Cardinality(T) /\ \A i \in 1..Len(rows) : rows[i] \in T
  BY <1>1, <1>2, Enumerated DEF Contenders
<1> DEFINE out == WindowOf(rows, o.window)
<1>4. a.matched = Cardinality(T) /\ a.rows = out
  BY <1>2, <1>3 DEF Report
<1>5. Len(out) = WindowTakes(Len(rows), o.window) /\ \E from \in Nat \ {0} : Rows(out, rows, from)
  BY <1>1, <1>3, WindowRows
<1>6. PICK from \in Nat \ {0} : Rows(out, rows, from)
  BY <1>5
<1> HIDE DEF out
<1>7. ASSUME NEW r \in ToSet(out) PROVE r.entry \in T
  <2>1. PICK i \in DOMAIN out : r = out[i]
    BY DEF ToSet
  <2>2. i \in 1..Len(out)
    BY <1>6 DEF Rows
  <2>3. r = [rank |-> from + i - 1, entry |-> rows[from + i - 1]] /\ from + i - 1 \in 1..Len(rows)
    BY <1>6, <2>1, <2>2 DEF Rows
  <2> QED BY <2>3, <1>3
<1>8. Cardinality(T) = Cardinality({m \in members : Plays(records, o, m) # {}})
  BY <1>1, ContendersCount DEF SongRankable
<1>9. ASSUME NEW r \in ToSet(out)
      PROVE  \E p \in Plays(records, o, r.entry.qq) :
               /\ p.rating = r.entry.rating /\ p.achievement = r.entry.achievement
               /\ \A other \in Plays(records, o, r.entry.qq) : other.rating <= p.rating
  BY <1>1, <1>7 DEF Contenders
<1>10. SongReportHolds(members, records, o, a) <=>
         /\ a.matched = Cardinality({m \in members : Plays(records, o, m) # {}})
         /\ Len(a.rows) = WindowTakes(a.matched, o.window)
         /\ \A r \in ToSet(a.rows) :
              \E p \in Plays(records, o, r.entry.qq) :
                /\ p.rating = r.entry.rating /\ p.achievement = r.entry.achievement
                /\ \A other \in Plays(records, o, r.entry.qq) : other.rating <= p.rating
  BY Zenon DEF SongReportHolds, Plays
<1>11. SongReportHolds(members, records, o, a)
  BY <1>3, <1>4, <1>5, <1>8, <1>9, <1>10
<1> QED BY <1>11 DEF a

(* One entry of everybody, of those that are behind none of their own. *)
Winners(P) ==
  FirstOfEach(P, LAMBDA l, r : Ahead(<<l.rating, l.achievement>>, <<r.rating, r.achievement>>))

(* The rows depend on the target and the range alone. *)
LEMMA SameSongRows ==
  ASSUME NEW members, NEW records, NEW o, NEW w, o.target = w.target, o.min = w.min, o.max = w.max
  PROVE  SongRows(members, records, o) = SongRows(members, records, w)
<1>1. \A r \in records : Achieved(r, o) <=> Achieved(r, w)
  BY DEF Achieved
<1>2. Candidates(members, records, o) = Candidates(members, records, w)
  BY <1>1 DEF Candidates
<1>3. Entered(members, records, o) = Entered(members, records, w)
  BY <1>2 DEF Entered
<1>4. /\ SongRows(members, records, o) = Winners(Entered(members, records, o))
      /\ SongRows(members, records, w) = Winners(Entered(members, records, w))
  BY Zenon DEF SongRows, Winners, Entered, Candidates
<1> QED BY <1>3, <1>4, Zenon

(* The options of the whole ranking on a song. *)
WholeSong(target) == [Whole EXCEPT !.sort = "achievement", !.target = target]

(* They, field by field. *)
LEMMA WholeSongIs ==
  ASSUME NEW target
  PROVE  /\ WholeSong(target).sort = "achievement" /\ WholeSong(target).order = "descending"
         /\ WholeSong(target).target = target
         /\ WholeSong(target).min = None /\ WholeSong(target).max = None
         /\ WholeSong(target).window = [limit |-> None, start |-> None, end |-> None]
BY DEF WholeSong, Whole

(* A report with a fitting window and range is given. *)
LEMMA SongReportsAreValid ==
  ASSUME NEW members, NEW records, NEW o, ValidWindow(o.window), ~Reversed(o.min, o.max)
  PROVE  SongReport(members, records, o) # Invalid
<1>1. SongReport(members, records, o) = Report(Arrange(SongRows(members, records, o), LAMBDA r : SongKey(r, o.sort), o.order), o.window)
  BY Zenon DEF SongReport
<1>2. \A rows, w : Report(rows, w) # Invalid
  BY DEF Report, Invalid
<1> QED BY <1>1, <1>2, Zenon

(* A member is at the rank that the whole report on the song gives. *)
LEMMA SongMemberAgrees ==
  ASSUME NEW members, NEW records, SongRankable(members, records), NEW target, NEW qq, NEW size \in Nat
  PROVE  AtOneRank(SongMemberRank(members, records, target, qq, size), qq,
                   SongReport(members, records, [Whole EXCEPT !.sort = "achievement", !.target = target]))
<1> DEFINE o == WholeSong(target)
           T == SongRows(members, records, o)
           R == SongOrder(T, "achievement", "descending")
           Q == SongOrder(T, "achievement", "ascending")
           member == SongMemberRank(members, records, target, qq, size)
           whole == SongReport(members, records, o)
           w == [target |-> target, min |-> None, max |-> None]
<1>1. /\ o.sort = "achievement" /\ o.order = "descending" /\ o.target = target /\ o.min = None /\ o.max = None
      /\ o.window \in WindowData /\ ValidWindow(o.window) /\ o.window.start = None /\ o.window.limit = None
  BY WholeSongIs, UnboundedWindow
<1>2. T = SongRows(members, records, w)
  <2>1. w.target = target /\ w.min = None /\ w.max = None
    OBVIOUS
  <2> HIDE DEF o, w
  <2> QED BY <1>1, <2>1, SameSongRows
<1>3. member = MemberRank(Arrange(SongRows(members, records, w), LAMBDA r : SongKey(r, "achievement"), "descending"),
                          Arrange(SongRows(members, records, w), LAMBDA r : SongKey(r, "achievement"), "ascending"), qq, size)
  BY Zenon DEF SongMemberRank
<1>4. whole # Invalid
  <2> HIDE DEF o
  <2> QED BY <1>1, SongReportsAreValid DEF Reversed
<1>5. Contenders(T, members, records, o) /\ \E rows : Enumerates(rows, T, R) /\ whole = Report(rows, o.window)
  <2> HIDE DEF o, w
  <2> QED BY <1>1, <1>4, SongReportIs
<1>6. Contending(T)
  BY <1>5, ContendersContend
<1>7. member = MemberRank(Arrange(T, LAMBDA r : SongKey(r, "achievement"), "descending"),
                          Arrange(T, LAMBDA r : SongKey(r, "achievement"), "ascending"), qq, size)
  <2> HIDE DEF T, w, member
  <2> QED BY <1>2, <1>3, Zenon
<1> HIDE DEF o, w, member, whole, T
<1>8. StrictTotal(T, R) /\ StrictTotal(T, Q)
  BY <1>6, ContendersArranged
<1>9. \A x \in T : Standing(T, R, x) + Standing(T, Q, x) = Cardinality(T) - 1
  <2>1. Keyed(T, SongKeys(T, "achievement")) /\ IsFiniteSet(T)
    BY <1>6, ContendersKeyed DEF Contending
  <2> QED BY <2>1, BothEnds DEF SongOrder
<1>10. PICK desc : desc = Arrange(T, LAMBDA r : SongKey(r, "achievement"), "descending") /\ Enumerates(desc, T, R)
  BY <1>6, ContendersArranged
<1>11. PICK asc : asc = Arrange(T, LAMBDA r : SongKey(r, "achievement"), "ascending") /\ Enumerates(asc, T, Q)
  BY <1>6, ContendersArranged
<1>12. PICK rows : Enumerates(rows, T, R) /\ whole = Report(rows, o.window)
  BY <1>5
<1> HIDE DEF R, Q
<1>13. member = MemberRank(desc, asc, qq, size)
  BY <1>7, <1>10, <1>11, Zenon
<1>14. IsFiniteSet(T) /\ OneEach(T)
  BY <1>6 DEF Contending
<1>15. \A s, t : Enumerates(s, T, R) /\ Enumerates(t, T, Q) =>
        LET m == MemberRank(s, t, qq, size)
        IN /\ m.found <=> Named(T, qq)
           /\ m.found <=> m.desc # None
           /\ m.found => /\ m.desc + m.asc = m.total + 1
                         /\ \E r \in ToSet(m.context) : r.rank = m.desc /\ r.entry.qq = qq
           /\ \A x \in T : x.qq = qq => m.desc = Standing(T, R, x) + 1
  BY <1>8, <1>9, <1>14, MemberIs
<1>16. /\ member.found <=> Named(T, qq)
       /\ member.found <=> member.desc # None
       /\ member.found => /\ member.desc + member.asc = member.total + 1
                          /\ \E r \in ToSet(member.context) : r.rank = member.desc /\ r.entry.qq = qq
       /\ \A x \in T : x.qq = qq => member.desc = Standing(T, R, x) + 1
  BY <1>10, <1>11, <1>13, <1>15
<1>17. /\ \A x \in T : x.qq = qq => RankIn(whole, qq) = Standing(T, R, x) + 1
       /\ ~Named(T, qq) => RankIn(whole, qq) = None
  BY <1>1, <1>8, <1>12, <1>14, RankInIs
<1>18. RankIn(whole, qq) \in {member.desc, None}
  <2>1. CASE Named(T, qq)
    BY <2>1, <1>16, <1>17 DEF Named
  <2>2. CASE ~Named(T, qq)
    BY <2>2, <1>17
  <2> QED BY <2>1, <2>2
<1>19. AtOneRank(member, qq, whole)
  BY <1>16, <1>18 DEF AtOneRank
<1>20. whole = SongReport(members, records, [Whole EXCEPT !.sort = "achievement", !.target = target])
  BY DEF whole, o, WholeSong
<1> QED BY <1>19, <1>20 DEF member

-----------------------------------------------------------------------------
(* The public list. *)

(* The keys of places. *)
PlaceKeys(list) == [i \in DOMAIN list |-> <<list[i].rating, -list[i].folded, -i>>]
(* Their order: by rating, then by name, then as they came. *)
ListOrder(list) == ByKey(DOMAIN list, PlaceKeys(list), "descending")

(* The places of a list. *)
LEMMA OnceIs ==
  ASSUME NEW list, ListedOnce(list)
  PROVE  /\ list \in Seq(ToSet(list)) /\ Len(list) \in Nat /\ DOMAIN list = 1..Len(list)
         /\ \A i \in DOMAIN list : list[i].rating \in Nat /\ list[i].folded \in Nat /\ list[i] \in ToSet(list)
         /\ IsFiniteSet(DOMAIN list) /\ Cardinality(DOMAIN list) = Len(list)
<1>1. list \in Seq(ToSet(list)) /\ Len(list) \in Nat /\ DOMAIN list = 1..Len(list)
  <2>1. list \in Seq(ToSet(list))
    BY DEF ListedOnce
  <2> QED BY <2>1
<1>2. \A i \in DOMAIN list : list[i].rating \in Nat /\ list[i].folded \in Nat
  BY DEF ListedOnce
<1>3. \A i \in DOMAIN list : list[i] \in ToSet(list)
  BY DEF ToSet
<1>4. IsFiniteSet(1..Len(list)) /\ Cardinality(1..Len(list)) = Len(list)
  <2>1. 1 \in Int /\ Len(list) \in Int
    BY <1>1
  <2>2. IsFiniteSet(1..Len(list)) /\ Cardinality(1..Len(list)) = IF 1 > Len(list) THEN 0 ELSE Len(list) - 1 + 1
    BY <2>1, FS_Interval
  <2> QED BY <2>2, <1>1
<1> QED BY <1>1, <1>2, <1>3, <1>4

(* No two places have one key. *)
LEMMA PlacesKeyed ==
  ASSUME NEW list, ListedOnce(list)
  PROVE  Keyed(DOMAIN list, PlaceKeys(list))
<1> DEFINE D == DOMAIN list
           k == PlaceKeys(list)
<1>1. \A i \in D : list[i].rating \in Int /\ list[i].folded \in Int /\ i \in Int
  BY OnceIs
<1>2. {1, 2, 3} \in IndexSets
  BY DEF IndexSets
<1>3. ASSUME NEW i \in D PROVE k[i] \in [{1, 2, 3} -> Int] /\ k[i][3] = -i
  <2>1. k[i] = <<list[i].rating, -list[i].folded, -i>>
    BY DEF PlaceKeys
  <2> DEFINE f == -list[i].folded
  <2>2. f \in Int /\ list[i].rating \in Int /\ -i \in Int
    BY <1>1
  <2>3. k[i] = <<list[i].rating, f, -i>>
    BY <2>1
  <2> HIDE DEF f, k
  <2> QED BY <2>2, <2>3
<1>4. ASSUME NEW x \in D, NEW y \in D, k[x] = k[y] PROVE x = y
  <2>1. -x = -y
    BY <1>3, <1>4
  <2> QED BY <2>1, <1>1
<1> HIDE DEF k, D
<1>5. Keyed(D, k)
  BY <1>2, <1>3, <1>4 DEF Keyed
<1> QED BY <1>5 DEF D, k

(* The order of places is total. *)
LEMMA PlacesOrdered ==
  ASSUME NEW list, ListedOnce(list)
  PROVE  /\ StrictTotal(DOMAIN list, ListOrder(list))
         /\ \A x, y \in DOMAIN list : <<x, y>> \in ListOrder(list) <=>
              Ahead(<<list[x].rating, -list[x].folded, -x>>, <<list[y].rating, -list[y].folded, -y>>)
<1> DEFINE D == DOMAIN list
           k == PlaceKeys(list)
<1>1. Keyed(D, k)
  BY PlacesKeyed
<1>2. \A x \in D : k[x] = <<list[x].rating, -list[x].folded, -x>>
  BY DEF PlaceKeys
<1> HIDE DEF k
<1>3. StrictTotal(D, ByKey(D, k, "descending")) /\ \A x, y \in D : <<x, y>> \in ByKey(D, k, "descending") <=> Ahead(k[x], k[y])
  BY <1>1, KeyOrders
<1>4. ListOrder(list) = ByKey(D, k, "descending")
  BY DEF ListOrder, k
<1> QED BY <1>2, <1>3, <1>4

(* The public ranking lists the places in this order. *)
LEMMA PlacesArranged ==
  ASSUME NEW list, ListedOnce(list)
  PROVE  \E order : /\ Enumerates(order, DOMAIN list, ListOrder(list))
                    /\ PublicRanking(list) = [i \in DOMAIN list |-> list[order[i]]]
<1> DEFINE S == DOMAIN list
           before(x, y) == Ahead(<<list[x].rating, -list[x].folded, -x>>, <<list[y].rating, -list[y].folded, -y>>)
           at(i) == CHOOSE x \in S : Cardinality({y \in S : before(y, x)}) = i - 1
           n == Cardinality(S)
           R == ListOrder(list)
           rows == [i \in 1..n |-> at(i)]
<1>1. PublicRanking(list) = [i \in S |-> list[rows[i]]]
  BY Zenon DEF PublicRanking, Sorted
<1>2. IsFiniteSet(S) /\ StrictTotal(S, R) /\ \A x, y \in S : <<x, y>> \in R <=> before(x, y)
  BY OnceIs, PlacesOrdered
<1> HIDE DEF R, S
<1>3. n \in Nat /\ \A j \in 0..n - 1 : \E x \in S : Standing(S, R, x) = j
  BY <1>2, Standings
<1>4. \A x \in S : Standing(S, R, x) = Cardinality({y \in S : before(y, x)})
  <2> SUFFICES ASSUME NEW x \in S PROVE Standing(S, R, x) = Cardinality({y \in S : before(y, x)})
    OBVIOUS
  <2>1. Leading(S, R, x) = {y \in S : before(y, x)}
    BY <1>2 DEF Leading
  <2> QED BY <2>1 DEF Standing
<1> HIDE DEF before
<1>5. ASSUME NEW i \in 1..n PROVE at(i) \in S /\ Standing(S, R, at(i)) = i - 1
  <2>1. i - 1 \in 0..n - 1
    BY <1>3
  <2>2. \E x \in S : Cardinality({y \in S : before(y, x)}) = i - 1
    BY <2>1, <1>3, <1>4
  <2>3. at(i) \in S /\ Cardinality({y \in S : before(y, at(i))}) = i - 1
    BY <2>2, Zenon
  <2> QED BY <2>3, <1>4
<1> HIDE DEF at, n
<1>6. rows \in Seq(S) /\ Len(rows) = n /\ \A i \in 1..n : Standing(S, R, rows[i]) = i - 1
  BY <1>3, <1>5
<1> HIDE DEF rows
<1>7. Enumerates(rows, S, R)
  BY <1>6 DEF Enumerates, n
<1> QED BY <1>1, <1>7 DEF R, S

(* The place of a player. *)
SeatOf(list, x) == CHOOSE i \in DOMAIN list : list[i] = x
(* The order of places as one of players. *)
PlayerOrder(list) == {p \in ToSet(list) \X ToSet(list) : <<SeatOf(list, p[1]), SeatOf(list, p[2])>> \in ListOrder(list)}

(* Players stand where their places do. *)
LEMMA PlayersOrdered ==
  ASSUME NEW list, ListedOnce(list)
  PROVE  /\ IsFiniteSet(ToSet(list)) /\ Cardinality(ToSet(list)) = Len(list)
         /\ StrictTotal(ToSet(list), PlayerOrder(list))
         /\ \A i, k \in DOMAIN list : <<list[i], list[k]>> \in PlayerOrder(list) <=> <<i, k>> \in ListOrder(list)
         /\ \A i \in DOMAIN list : Standing(ToSet(list), PlayerOrder(list), list[i]) = Standing(DOMAIN list, ListOrder(list), i)
<1> DEFINE D == DOMAIN list
           S == ToSet(list)
           R == ListOrder(list)
           Q == PlayerOrder(list)
           f == [i \in D |-> list[i]]
<1>1. /\ D = 1..Len(list) /\ IsFiniteSet(D) /\ Cardinality(D) = Len(list)
      /\ \A i, k \in D : list[i] = list[k] => i = k
  BY OnceIs DEF ListedOnce
<1>2. S = {list[i] : i \in D}
  BY DEF ToSet
<1>3. f \in Bijection(D, S)
  BY <1>1, <1>2 DEF Bijection, Injection, Surjection, IsInjective
<1>4. IsFiniteSet(S) /\ Cardinality(S) = Len(list)
  <2> HIDE DEF f, D, S
  <2>1. ExistsBijection(D, S)
    BY <1>3 DEF ExistsBijection
  <2> QED BY <2>1, <1>1, FS_Bijection
<1>5. \A i \in D : SeatOf(list, list[i]) = i
  <2> SUFFICES ASSUME NEW i \in D PROVE SeatOf(list, list[i]) = i
    OBVIOUS
  <2> DEFINE p == SeatOf(list, list[i])
  <2>1. p \in D /\ list[p] = list[i]
    BY Zenon DEF SeatOf
  <2> HIDE DEF p
  <2> QED BY <2>1, <1>1 DEF p
<1>6. ASSUME NEW i \in D, NEW k \in D PROVE <<list[i], list[k]>> \in Q <=> <<i, k>> \in R
  <2>1. list[i] \in S /\ list[k] \in S
    BY <1>2
  <2>2. <<list[i], list[k]>> \in Q <=> <<SeatOf(list, list[i]), SeatOf(list, list[k])>> \in R
    <3> HIDE DEF R, S
    <3>1. Q = {p \in S \X S : <<SeatOf(list, p[1]), SeatOf(list, p[2])>> \in R}
      BY DEF PlayerOrder, R, S
    <3> HIDE DEF Q
    <3> QED BY <2>1, <3>1
  <2> QED BY <2>2, <1>5
<1>7. StrictTotal(D, R)
  BY PlacesOrdered
<1> HIDE DEF S, R, Q
<1>8. StrictTotal(S, Q)
  <2>1. ASSUME NEW x \in S PROVE <<x, x>> \notin Q
    <3>1. PICK i \in D : x = list[i]
      BY <1>2
    <3> QED BY <3>1, <1>6, <1>7 DEF StrictTotal
  <2>2. ASSUME NEW x \in S, NEW y \in S, NEW z \in S, <<x, y>> \in Q, <<y, z>> \in Q PROVE <<x, z>> \in Q
    <3>1. PICK i \in D : x = list[i]
      BY <1>2
    <3>2. PICK j \in D : y = list[j]
      BY <1>2
    <3>3. PICK k \in D : z = list[k]
      BY <1>2
    <3>4. <<i, j>> \in R /\ <<j, k>> \in R
      BY <3>1, <3>2, <3>3, <2>2, <1>6
    <3>5. <<i, k>> \in R
      BY <3>4, <1>7 DEF StrictTotal
    <3> QED BY <3>5, <3>1, <3>3, <1>6
  <2>3. ASSUME NEW x \in S, NEW y \in S, x # y PROVE <<x, y>> \in Q \/ <<y, x>> \in Q
    <3>1. PICK i \in D : x = list[i]
      BY <1>2
    <3>2. PICK j \in D : y = list[j]
      BY <1>2
    <3>3. <<i, j>> \in R \/ <<j, i>> \in R
      BY <3>1, <3>2, <2>3, <1>7 DEF StrictTotal
    <3> QED BY <3>1, <3>2, <3>3, <1>6
  <2> QED BY <2>1, <2>2, <2>3 DEF StrictTotal
<1>9. ASSUME NEW i \in D PROVE Standing(S, Q, list[i]) = Standing(D, R, i)
  <2> DEFINE A == Leading(D, R, i)
             B == Leading(S, Q, list[i])
             g == [k \in A |-> list[k]]
  <2>1. A \in SUBSET D
    BY DEF Leading
  <2>2. B = {list[k] : k \in A}
    BY <1>2, <1>6 DEF Leading
  <2>3. IsFiniteSet(A)
    BY <2>1, <1>1, FS_Subset
  <2>4. g \in Bijection(A, B)
    <3> HIDE DEF A, B
    <3> QED BY <2>1, <2>2, <1>1 DEF Bijection, Injection, Surjection, IsInjective
  <2> HIDE DEF A, B, g
  <2>5. ExistsBijection(A, B)
    BY <2>4 DEF ExistsBijection
  <2>6. Cardinality(B) = Cardinality(A)
    BY <2>3, <2>5, FS_Bijection
  <2> QED BY <2>6 DEF A, B, Standing
<1> QED BY <1>4, <1>6, <1>8, <1>9 DEF S, R, Q

(* The public ranking lists the players in their order. *)
LEMMA PlayersArranged ==
  ASSUME NEW list, ListedOnce(list)
  PROVE  Enumerates(PublicRanking(list), ToSet(list), PlayerOrder(list))
<1> DEFINE D == DOMAIN list
           S == ToSet(list)
           R == ListOrder(list)
           Q == PlayerOrder(list)
<1>1. PICK order : Enumerates(order, D, R) /\ PublicRanking(list) = [i \in D |-> list[order[i]]]
  BY PlacesArranged
<1>2. IsFiniteSet(D) /\ D = 1..Len(list) /\ Len(list) \in Nat /\ \A i \in D : list[i] \in S
  BY OnceIs
<1>3. Cardinality(S) = Len(list) /\ \A i \in D : Standing(S, Q, list[i]) = Standing(D, R, i)
  BY PlayersOrdered
<1>4. StrictTotal(D, R)
  BY PlacesOrdered
<1> HIDE DEF D, S, R, Q
<1>5. Cardinality(D) = Len(list) /\ \A i \in 1..Len(order) : order[i] \in D /\ Standing(D, R, order[i]) = i - 1
  <2>1. Cardinality(D) = Len(list)
    BY OnceIs DEF D
  <2> QED BY <2>1, <1>1, <1>2, <1>4, Enumerated
<1>6. Len(order) = Len(list)
  BY <1>1, <1>2, <1>4, <1>5, Enumerated
<1> DEFINE rows == [i \in D |-> list[order[i]]]
<1>7. ASSUME NEW i \in D PROVE rows[i] \in S /\ Standing(S, Q, rows[i]) = i - 1
  BY <1>2, <1>3, <1>5, <1>6
<1>8. rows \in [1..Len(list) -> S]
  BY <1>2, <1>7
<1>9. DOMAIN rows = 1..Len(list)
  BY <1>2
<1> HIDE DEF rows
<1>10. rows \in Seq(S) /\ Len(rows) = Len(list)
  BY <1>2, <1>8, <1>9
<1>11. Enumerates(rows, S, Q)
  BY <1>2, <1>3, <1>7, <1>10 DEF Enumerates
<1> QED BY <1>1, <1>11 DEF S, Q, rows

(* What a division leaves. *)
LEMMA Divides ==
  ASSUME NEW a \in Nat, NEW b \in Nat \ {0}
  PROVE  a \div b \in Nat /\ b * (a \div b) <= a /\ a < b * (a \div b) + b
BY SMTT(30)

(* A multiple grows with its factor. *)
LEMMA Grows ==
  ASSUME NEW b \in Nat \ {0}, NEW p \in Int, NEW q \in Int, p <= q
  PROVE  b * p <= b * q /\ b * p \in Int /\ b * q \in Int
<1>1. q - p \in Nat
  OBVIOUS
<1>2. b * (q - p) \in Nat
  BY <1>1
<1>3. b * (q - p) = b * q - b * p
  OBVIOUS
<1> QED BY <1>2, <1>3

(* Every place lies on one page. *)
LEMMA OnePage ==
  ASSUME NEW n \in Nat, NEW pos \in 1..n, NEW b \in Nat \ {0}
  PROVE  LET p0 == (pos - 1) \div b + 1
         IN /\ p0 \in Nat \ {0} /\ p0 <= (n + b - 1) \div b
            /\ \A p \in Nat \ {0} : (p - 1) * b + 1 <= pos /\ pos <= p * b <=> p = p0
<1> DEFINE d == (pos - 1) \div b
           e == (n + b - 1) \div b
<1>1. d \in Nat /\ b * d <= pos - 1 /\ pos - 1 < b * d + b
  <2>1. pos - 1 \in Nat
    OBVIOUS
  <2> QED BY <2>1, Divides
<1>2. e \in Nat /\ b * e <= n + b - 1 /\ n + b - 1 < b * e + b
  <2>1. n + b - 1 \in Nat
    OBVIOUS
  <2> QED BY <2>1, Divides
<1> HIDE DEF d, e
<1>3. d + 1 <= e
  <2> SUFFICES ASSUME e <= d PROVE FALSE
    BY <1>1, <1>2
  <2>1. b * e <= b * d /\ b * e \in Int /\ b * d \in Int
    BY <1>1, <1>2, Grows
  <2> QED BY <2>1, <1>1, <1>2
<1>4. ASSUME NEW p \in Nat \ {0} PROVE (p - 1) * b + 1 <= pos /\ pos <= p * b <=> p = d + 1
  <2> DEFINE c == p - 1
  <2>1. c \in Nat /\ p = c + 1
    OBVIOUS
  <2> HIDE DEF c
  <2>2. (p - 1) * b = b * c /\ p * b = b * c + b /\ b * c \in Int /\ b * d \in Int
    BY <2>1, <1>1
  <2>3. CASE c < d
    <3>1. b * (c + 1) <= b * d /\ b * (c + 1) = b * c + b
      <4>1. c + 1 \in Int /\ d \in Int /\ c + 1 <= d
        BY <2>1, <2>3, <1>1
      <4>2. b * (c + 1) <= b * d
        BY <4>1, Grows
      <4> QED BY <4>2, <2>1
    <3> QED BY <3>1, <2>1, <2>2, <2>3, <1>1
  <2>4. CASE c = d
    BY <2>1, <2>2, <2>4, <1>1
  <2>5. CASE d < c
    <3>1. b * (d + 1) <= b * c /\ b * (d + 1) = b * d + b
      <4>1. d + 1 \in Int /\ c \in Int /\ d + 1 <= c
        BY <2>1, <2>5, <1>1
      <4>2. b * (d + 1) <= b * c
        BY <4>1, Grows
      <4> QED BY <4>2, <1>1
    <3> QED BY <3>1, <2>1, <2>2, <2>5, <1>1
  <2> QED BY <2>1, <2>3, <2>4, <2>5, <1>1
<1> QED BY <1>1, <1>3, <1>4 DEF d, e

(* A player is shown between the two places around theirs. *)
LEMMA ShownIs ==
  ASSUME NEW rows, Len(rows) \in Nat, \A i, k \in 1..Len(rows) : rows[i] = rows[k] => i = k,
         NEW from \in Nat \ {0}, NEW to \in Int, to <= Len(rows), NEW pos \in 1..Len(rows)
  PROVE  (\E r \in ToSet(RankedRows(rows, from, to)) : r.entry = rows[pos]) <=> from <= pos /\ pos <= to
<1> DEFINE out == RankedRows(rows, from, to)
<1>1. Rows(out, rows, from) /\ Len(out) = IF to < from THEN 0 ELSE to - from + 1
  BY RankedRowsAre
<1> HIDE DEF out
<1>2. ASSUME NEW r \in ToSet(out), r.entry = rows[pos] PROVE from <= pos /\ pos <= to
  <2>1. PICK i \in DOMAIN out : r = out[i]
    BY DEF ToSet
  <2>2. i \in 1..Len(out)
    BY <1>1 DEF Rows
  <2>3. r = [rank |-> from + i - 1, entry |-> rows[from + i - 1]] /\ from + i - 1 \in 1..Len(rows)
    BY <1>1, <2>1, <2>2 DEF Rows
  <2> DEFINE j == from + i - 1
  <2>4. j \in 1..Len(rows) /\ rows[j] = rows[pos]
    BY <2>3, <1>2
  <2> HIDE DEF j
  <2>5. j = pos
    BY <2>4
  <2> QED BY <2>2, <2>5, <1>1 DEF j
<1>3. ASSUME from <= pos, pos <= to PROVE \E r \in ToSet(out) : r.entry = rows[pos]
  <2> DEFINE i == pos - from + 1
  <2>1. i \in 1..Len(out) /\ from + i - 1 = pos
    BY <1>1, <1>3
  <2> HIDE DEF i
  <2>2. i \in DOMAIN out /\ out[i] = [rank |-> from + i - 1, entry |-> rows[from + i - 1]]
    BY <1>1, <2>1 DEF Rows
  <2>3. out[i].entry = rows[pos] /\ out[i] \in ToSet(out)
    BY <2>1, <2>2 DEF ToSet
  <2> QED BY <2>3
<1> QED BY <1>2, <1>3 DEF out

(* The public ranking has every player once, where they stand. *)
LEMMA RankingIs ==
  ASSUME NEW list, ListedOnce(list)
  PROVE  LET rows == PublicRanking(list) IN
         /\ Len(rows) = Len(list) /\ Len(list) \in Nat /\ DOMAIN rows = 1..Len(list) /\ DOMAIN list = 1..Len(list)
         /\ \A i \in 1..Len(rows) : rows[i] \in ToSet(list) /\ Standing(ToSet(list), PlayerOrder(list), rows[i]) = i - 1
         /\ \A i, k \in 1..Len(rows) : rows[i] = rows[k] => i = k
         /\ \A x \in ToSet(list) : \E i \in 1..Len(rows) : rows[i] = x
<1> DEFINE rows == PublicRanking(list)
           S == ToSet(list)
           Q == PlayerOrder(list)
<1>1. Enumerates(rows, S, Q) /\ IsFiniteSet(S) /\ Cardinality(S) = Len(list) /\ StrictTotal(S, Q)
  BY PlayersArranged, PlayersOrdered
<1>2. Len(list) \in Nat /\ DOMAIN list = 1..Len(list)
  BY OnceIs
<1> HIDE DEF rows, S, Q
<1>3. /\ Len(rows) = Cardinality(S) /\ Len(rows) \in Nat /\ DOMAIN rows = 1..Len(rows)
      /\ \A i \in 1..Len(rows) : rows[i] \in S /\ Standing(S, Q, rows[i]) = i - 1
      /\ \A x \in S : Standing(S, Q, x) + 1 \in 1..Len(rows) /\ rows[Standing(S, Q, x) + 1] = x
      /\ \A i, j \in 1..Len(rows) : rows[i] = rows[j] => i = j
  BY <1>1, Enumerated
<1> QED BY <1>1, <1>2, <1>3 DEF rows, S, Q

(* Every player of the public list is on one page. *)
LEMMA PagesHold ==
  ASSUME NEW list, ListedOnce(list), NEW i \in DOMAIN list
  PROVE  Cardinality({p \in 1..Pages(list) : \E r \in ToSet(PublicPage(list, p).rows) : r.entry = list[i]}) = 1
<1> DEFINE rows == PublicRanking(list)
           n == Len(list)
           E == {1, (n + PageSize - 1) \div PageSize}
           last == Pages(list)
<1>1. /\ Len(rows) = n /\ n \in Nat
      /\ \A j, k \in 1..Len(rows) : rows[j] = rows[k] => j = k
      /\ \A x \in ToSet(list) : \E j \in 1..Len(rows) : rows[j] = x
  BY RankingIs
<1>2. PICK pos \in 1..n : rows[pos] = list[i]
  <2>1. list[i] \in ToSet(list)
    BY DEF ToSet
  <2> HIDE DEF rows, n
  <2> QED BY <1>1, <2>1
<1> DEFINE p0 == (pos - 1) \div PageSize + 1
<1>3. /\ p0 \in Nat \ {0} /\ p0 <= (n + PageSize - 1) \div PageSize
      /\ \A p \in Nat \ {0} : (p - 1) * PageSize + 1 <= pos /\ pos <= p * PageSize <=> p = p0
  BY <1>1, <1>2, OnePage, PageAssumption
<1>4. last \in Int /\ p0 <= last
  <2>1. IsFiniteSet(E)
    <3> DEFINE u == (n + PageSize - 1) \div PageSize
    <3> HIDE DEF u
    <3>1. IsFiniteSet({1})
      BY FS_Singleton
    <3>2. IsFiniteSet({1} \cup {u})
      BY <3>1, FS_AddElement
    <3>3. {1} \cup {u} = {1, u}
      OBVIOUS
    <3>4. IsFiniteSet({1, u})
      BY <3>2, <3>3
    <3> QED BY <3>4 DEF u
  <2>2. n + PageSize - 1 \in Nat /\ PageSize \in Nat \ {0}
    BY <1>1, PageAssumption
  <2>3. (n + PageSize - 1) \div PageSize \in Nat
    BY <2>2, Divides
  <2> DEFINE t == (n + PageSize - 1) \div PageSize
  <2> HIDE DEF t
  <2>4. E = {1, t} /\ t \in Nat
    BY <2>3 DEF t
  <2>5. last = Max(E)
    BY DEF Pages
  <2> HIDE DEF E
  <2>6. Max(E) \in E /\ \A y \in E : Max(E) >= y
    BY <2>1, <2>4, MaxIs
  <2>7. p0 <= t
    BY <1>3 DEF t
  <2> HIDE DEF p0, last
  <2> QED BY <2>4, <2>5, <2>6, <2>7, <1>3 DEF p0
<1> HIDE DEF p0, last
<1>5. ASSUME NEW p \in 1..last
      PROVE  (\E r \in ToSet(PublicPage(list, p).rows) : r.entry = list[i]) <=> p = p0
  <2> DEFINE from == (p - 1) * PageSize + 1
             to == Upto(p * PageSize, list)
  <2>1. p \in Nat \ {0} /\ PageSize \in Nat \ {0}
    BY <1>4, PageAssumption
  <2>2. p * PageSize \in Nat /\ (p - 1) * PageSize \in Nat
    <3>1. p - 1 \in Nat
      BY <2>1
    <3> QED BY <2>1, <3>1
  <2>3. from \in Nat \ {0}
    BY <2>2
  <2>4. to \in Int /\ to <= n /\ to <= p * PageSize /\ (p * PageSize <= n => to = p * PageSize) /\ (n <= p * PageSize => to = n)
    <3> DEFINE e == p * PageSize
    <3>1. \A k \in Int : /\ Upto(k, list) \in Int /\ Upto(k, list) <= Len(list) /\ Upto(k, list) <= k
                         /\ (k <= Len(list) => Upto(k, list) = k) /\ (Len(list) <= k => Upto(k, list) = Len(list))
      BY <1>1, UptoIs
    <3>2. e \in Int
      BY <2>2
    <3> HIDE DEF e
    <3>3. Upto(e, list) \in Int /\ Upto(e, list) <= n /\ Upto(e, list) <= e
          /\ (e <= n => Upto(e, list) = e) /\ (n <= e => Upto(e, list) = n)
      BY <3>1, <3>2
    <3> QED BY <3>3 DEF e
  <2>5. PublicPage(list, p).rows = RankedRows(rows, from, to)
    <3>1. (IF p < last THEN p ELSE last) = p
      BY <1>4
    <3>2. PublicPage(list, p).rows =
            RankedRows(rows, ((IF p < last THEN p ELSE last) - 1) * PageSize + 1, Upto((IF p < last THEN p ELSE last) * PageSize, list))
      BY Zenon DEF PublicPage, last
    <3> DEFINE q == IF p < last THEN p ELSE last
    <3>3. q = p
      BY <3>1
    <3>4. PublicPage(list, p).rows = RankedRows(rows, (q - 1) * PageSize + 1, Upto(q * PageSize, list))
      BY <3>2
    <3> HIDE DEF q, rows
    <3> QED BY <3>3, <3>4
  <2> HIDE DEF rows, from, to
  <2>6. (\E r \in ToSet(RankedRows(rows, from, to)) : r.entry = rows[pos]) <=> from <= pos /\ pos <= to
    <3>1. Len(rows) \in Nat /\ to <= Len(rows) /\ pos \in 1..Len(rows)
      BY <1>1, <2>4
    <3> QED BY <1>1, <2>3, <2>4, <3>1, ShownIs
  <2>7. from <= pos /\ pos <= to <=> (p - 1) * PageSize + 1 <= pos /\ pos <= p * PageSize
    <3> DEFINE x == p * PageSize
               y == (p - 1) * PageSize
    <3>1. x \in Nat /\ y \in Nat /\ from = y + 1
      BY <2>2 DEF from
    <3>2. to <= x /\ (x <= n => to = x) /\ (n <= x => to = n) /\ to \in Int
      BY <2>4
    <3> HIDE DEF x, y
    <3>3. from <= pos /\ pos <= to <=> y + 1 <= pos /\ pos <= x
      BY <3>1, <3>2, <1>1
    <3> QED BY <3>3 DEF x, y
  <2>8. (p - 1) * PageSize + 1 <= pos /\ pos <= p * PageSize <=> p = p0
    BY <1>3, <2>1 DEF p0
  <2> QED BY <1>2, <2>5, <2>6, <2>7, <2>8
<1>6. p0 \in 1..last
  BY <1>3, <1>4 DEF p0
<1>7. {p \in 1..last : \E r \in ToSet(PublicPage(list, p).rows) : r.entry = list[i]} = {p0}
  BY <1>5, <1>6
<1>8. Cardinality({p0}) = 1
  BY FS_Singleton
<1> QED BY <1>7, <1>8, Zenon DEF last

(* Who has the higher rating is ahead. *)
LEMMA BetterIsAhead ==
  ASSUME NEW list, ListedOnce(list)
  PROVE  \A x, y \in ToSet(list) : x.rating > y.rating => <<x, y>> \in PlayerOrder(list)
<1> SUFFICES ASSUME NEW x \in ToSet(list), NEW y \in ToSet(list), x.rating > y.rating PROVE <<x, y>> \in PlayerOrder(list)
  OBVIOUS
<1>1. PICK i \in DOMAIN list : x = list[i]
  BY DEF ToSet
<1>2. PICK k \in DOMAIN list : y = list[k]
  BY DEF ToSet
<1> DEFINE v == <<list[i].rating, -list[i].folded, -i>>
           w == <<list[k].rating, -list[k].folded, -k>>
<1>3. v[1] = list[i].rating /\ w[1] = list[k].rating /\ 1 \in DOMAIN v /\ 1..1 - 1 = {}
  OBVIOUS
<1>4. Ahead(v, w)
  <2> HIDE DEF v, w
  <2> QED BY <1>1, <1>2, <1>3 DEF Ahead
<1>5. <<i, k>> \in ListOrder(list)
  BY <1>4, PlacesOrdered
<1> QED BY <1>1, <1>2, <1>5, PlayersOrdered

(* A range of the public list is well placed. *)
LEMMA RangesHold ==
  ASSUME NEW list, ListedOnce(list), NEW start \in Nat \ {0}, NEW end \in Nat
  PROVE  PlacedWell(ToSet(list), PublicRange(list, start, end).rows, LAMBDA e : e.rating, "descending")
<1> DEFINE rows == PublicRanking(list)
           S == ToSet(list)
           Q == PlayerOrder(list)
           to == Upto(end, list)
           out == RankedRows(rows, start, to)
           m == [e \in S |-> e.rating]
           ahead(l, r) == IF "descending" = "descending" THEN l.rating > r.rating ELSE l.rating < r.rating
<1>1. Enumerates(rows, S, Q) /\ IsFiniteSet(S) /\ StrictTotal(S, Q) /\ Len(rows) = Len(list) /\ Len(list) \in Nat
  BY PlayersArranged, PlayersOrdered, RankingIs
<1>2. to \in Int /\ to <= Len(list)
  BY <1>1, UptoIs
<1>3. Rows(out, rows, start)
  <2> HIDE DEF rows, to
  <2> QED BY <1>1, <1>2, RankedRowsAre
<1>4. PublicRange(list, start, end).rows = out
  BY DEF PublicRange
<1>5. m \in [S -> Int]
  <2>1. \A x \in S : x.rating \in Nat
    BY OnceIs DEF ToSet
  <2> QED BY <2>1
<1>6. \A x, y \in S : Outranks(m, "descending", x, y) => <<x, y>> \in Q
  <2>1. \A x, y \in S : x.rating > y.rating => <<x, y>> \in Q
    BY BetterIsAhead
  <2> HIDE DEF S, Q
  <2> QED BY <2>1 DEF Outranks
<1>7. \A e \in S : {r \in S : Outranks(m, "descending", r, e)} = {r \in S : ahead(r, e)}
                  /\ {r \in S : ~Outranks(m, "descending", e, r)} = {r \in S : ~ahead(e, r)}
  BY DEF Outranks
<1> HIDE DEF S, Q, out, m, rows
<1>8. Placed(out, S, Q, m, "descending")
  <2>1. \A T, R, s, f, w, v, d : /\ IsFiniteSet(T) /\ StrictTotal(T, R) /\ Enumerates(s, T, R) /\ f \in Nat \ {0}
                                 /\ Rows(w, s, f) /\ v \in [T -> Int] /\ \A x, y \in T : Outranks(v, d, x, y) => <<x, y>> \in R
                                 => Placed(w, T, R, v, d)
    BY WellPlaced
  <2> QED BY <2>1, <1>1, <1>3, <1>5, <1>6
<1>9. PlacedWell(S, out, LAMBDA e : e.rating, "descending") <=>
        \A i \in DOMAIN out :
           /\ out[i].rank = out[1].rank + i - 1
           /\ Cardinality({r \in S : ahead(r, out[i].entry)}) < out[i].rank
           /\ out[i].rank <= Cardinality({r \in S : ~ahead(out[i].entry, r)})
           /\ \A k \in DOMAIN out : out[k].entry = out[i].entry => k = i
  BY Zenon DEF PlacedWell
<1>10. PlacedWell(S, out, LAMBDA e : e.rating, "descending")
  <2> HIDE DEF ahead
  <2> QED BY <1>7, <1>8, <1>9 DEF Placed
<1> QED BY <1>4, <1>10, Zenon DEF S

(* A set of numbers has a least. *)
LEMMA MinIs ==
  ASSUME NEW S, S \subseteq Nat, S # {}
  PROVE  Min(S) \in S /\ \A y \in S : Min(S) <= y
<1> DEFINE R == OpToRel(<, Nat)
<1>1. IsWellFoundedOn(R, Nat)
  BY NatLessThanWellFounded
<1>2. \A m, n \in Nat : m < n => <<m, n>> \in R
  BY DEF OpToRel
<1> HIDE DEF R
<1>3. \E x \in S : \A y \in S : ~ (<<y, x>> \in R)
  BY <1>1, WFMin
<1>4. PICK x \in S : \A y \in S : ~ (<<y, x>> \in R)
  BY <1>3
<1>5. ASSUME NEW y \in S PROVE x <= y
  <2>1. x \in Nat /\ y \in Nat /\ ~(y < x)
    BY <1>2, <1>4
  <2> QED BY <2>1
<1>6. \E z \in S : \A y \in S : z <= y
  BY <1>5
<1> DEFINE c == CHOOSE z \in S : \A y \in S : z <= y
<1>7. c \in S /\ \A y \in S : c <= y
  BY <1>6, Zenon
<1>8. Min(S) = c
  BY Zenon DEF Min
<1> HIDE DEF c
<1> QED BY <1>7, <1>8

(* A search finds the best player of a name, or nobody if none has it. *)
LEMMA LookupsHold ==
  ASSUME NEW list, ListedOnce(list), NEW folded
  PROVE  LET named == {i \in DOMAIN list : list[i].folded = folded}
             rank == PublicLookup(list, folded).rank
         IN IF named = {} THEN rank = None
            ELSE PublicRange(list, rank, rank).rows[1].entry.rating = Max({list[i].rating : i \in named})
<1> DEFINE rows == PublicRanking(list)
           S == ToSet(list)
           Q == PlayerOrder(list)
           n == Len(list)
           named == {i \in DOMAIN list : list[i].folded = folded}
           at == {i \in DOMAIN list : rows[i].folded = folded}
           rank == PublicLookup(list, folded).rank
<1>1. /\ Len(rows) = n /\ n \in Nat /\ DOMAIN rows = 1..n /\ DOMAIN list = 1..n
      /\ \A i \in 1..n : rows[i] \in S /\ Standing(S, Q, rows[i]) = i - 1
      /\ \A x \in S : \E i \in 1..n : rows[i] = x
  BY RankingIs
<1>2. \A i \in 1..n : list[i] \in S /\ list[i].rating \in Nat
  BY <1>1, OnceIs
<1>3. \A x \in S : \E i \in 1..n : x = list[i]
  BY <1>1 DEF ToSet
<1>4. rank = IF at = {} THEN None ELSE Min(at)
  BY Zenon DEF PublicLookup
<1>5. \A x, y \in S : x.rating > y.rating => Standing(S, Q, x) < Standing(S, Q, y)
  <2>1. \A x, y \in S : x.rating > y.rating => <<x, y>> \in Q
    BY BetterIsAhead
  <2>2. IsFiniteSet(S) /\ StrictTotal(S, Q)
    BY PlayersOrdered
  <2> HIDE DEF S, Q
  <2>3. \A x, y \in S : Standing(S, Q, x) < Standing(S, Q, y) <=> <<x, y>> \in Q
    BY <2>2, Standings
  <2> QED BY <2>1, <2>3
<1>6. CASE named = {}
  <2>1. at = {}
    <3> SUFFICES ASSUME NEW i \in at PROVE FALSE
      OBVIOUS
    <3>1. rows[i] \in S /\ rows[i].folded = folded
      BY <1>1
    <3>2. PICK k \in 1..n : rows[i] = list[k]
      BY <3>1, <1>3
    <3> HIDE DEF rows, at
    <3> QED BY <3>1, <3>2, <1>1, <1>6
  <2> QED BY <2>1, <1>4, <1>6
<1>7. CASE named # {}
  <2> DEFINE first == Min(at)
             ratings == {list[i].rating : i \in named}
  <2>1. \A i \in named : \E k \in at : rows[k] = list[i]
    BY <1>1, <1>2
  <2>2. at \subseteq Nat /\ at # {}
    BY <2>1, <1>1, <1>7
  <2>3. first \in at /\ \A k \in at : first <= k
    <3> HIDE DEF at
    <3> QED BY <2>2, MinIs
  <2>4. rank = first
    BY <2>2, <1>4
  <2> HIDE DEF first, rank
  <2>5. first \in 1..n /\ rows[first].folded = folded /\ rows[first] \in S
    BY <2>3, <1>1
  <2>6. \A i \in named : rows[first].rating >= list[i].rating
    <3> SUFFICES ASSUME NEW i \in named, list[i].rating > rows[first].rating PROVE FALSE
      <4>1. \A i \in named : list[i].rating \in Nat
        BY <1>1, <1>2
      <4>2. rows[first].rating \in Nat
        BY <2>5, <1>2, <1>3
      <4> QED BY <4>1, <4>2
    <3>1. PICK k \in at : rows[k] = list[i]
      BY <2>1
    <3>2. k \in 1..n /\ first <= k
      BY <2>3, <1>1
    <3>3. Standing(S, Q, rows[k]) < Standing(S, Q, rows[first])
      <4>1. rows[k] \in S /\ rows[k].rating > rows[first].rating
        BY <3>1, <3>2, <1>1
      <4> HIDE DEF S, Q, rows
      <4> QED BY <4>1, <2>5, <1>5
    <3>4. k - 1 < first - 1
      <4> HIDE DEF S, Q, rows
      <4> QED BY <3>2, <3>3, <2>5, <1>1
    <3> QED BY <3>2, <3>4, <2>5
  <2>7. rows[first].rating \in ratings
    <3>1. PICK i \in 1..n : rows[first] = list[i]
      BY <2>5, <1>3
    <3>2. i \in named
      BY <3>1, <2>5, <1>1
    <3> HIDE DEF rows
    <3> QED BY <3>1, <3>2
  <2>8. Max(ratings) = rows[first].rating
    <3>1. IsFiniteSet(ratings) /\ ratings \subseteq Int /\ ratings # {}
      <4> DEFINE f == [i \in named |-> list[i].rating]
      <4>1. ratings = {f[i] : i \in named}
        OBVIOUS
      <4>2. IsFiniteSet(named)
        <5>1. IsFiniteSet(DOMAIN list) /\ named \in SUBSET DOMAIN list
          BY OnceIs
        <5> HIDE DEF named
        <5> QED BY <5>1, FS_Subset
      <4>3. ratings \subseteq Int /\ ratings # {}
        <5>1. \A i \in named : list[i].rating \in Int
          BY <1>1, <1>2
        <5> HIDE DEF named
        <5> QED BY <5>1, <1>7
      <4> HIDE DEF f, named, ratings
      <4> QED BY <4>1, <4>2, <4>3, ImageFinite
    <3>2. \A y \in ratings : rows[first].rating >= y
      BY <2>6
    <3> HIDE DEF ratings, rows
    <3>3. Max(ratings) \in ratings /\ \A y \in ratings : Max(ratings) >= y
      BY <3>1, MaxIs
    <3> DEFINE a == Max(ratings)
               b == rows[first].rating
    <3>4. a \in Int /\ b \in Int /\ a >= b /\ b >= a
      BY <3>1, <3>2, <3>3, <2>7
    <3> HIDE DEF a, b
    <3>5. a = b
      BY <3>4
    <3> QED BY <3>5 DEF a, b
  <2>9. PublicRange(list, rank, rank).rows[1].entry = rows[first]
    <3> DEFINE to == Upto(first, list)
               out == RankedRows(rows, first, to)
    <3>1. to = first
      <4>1. first \in Int /\ first <= Len(list) /\ Len(list) \in Nat
        BY <1>1, <2>5
      <4> QED BY <4>1, UptoIs
    <3>2. PublicRange(list, rank, rank).rows = out
      BY <2>4 DEF PublicRange
    <3> HIDE DEF to, rows
    <3>3. Rows(out, rows, first) /\ Len(out) = IF to < first THEN 0 ELSE to - first + 1
      <4>1. Len(rows) \in Nat /\ first \in Nat \ {0} /\ to \in Int /\ to <= Len(rows)
        BY <1>1, <2>5, <3>1
      <4> QED BY <4>1, RankedRowsAre
    <3> HIDE DEF out
    <3>4. 1 \in 1..Len(out) /\ first + 1 - 1 = first
      BY <3>1, <3>3, <2>5
    <3>5. out[1] = [rank |-> first + 1 - 1, entry |-> rows[first + 1 - 1]]
      BY <3>3, <3>4 DEF Rows
    <3> QED BY <3>2, <3>4, <3>5
  <2> HIDE DEF rows, ratings
  <2>10. PublicRange(list, rank, rank).rows[1].entry.rating = Max(ratings)
    BY <2>8, <2>9
  <2> QED BY <2>10, <1>7 DEF ratings, rank
<1> QED BY <1>6, <1>7

-----------------------------------------------------------------------------
(* The tools on the rankings of a group. *)

(* Sole takes a member. *)
LEMMA SoleIs ==
  ASSUME NEW S, S # {}
  PROVE  Sole(S) \in S
BY DEF Sole

(* What an argument says, or its default. *)
LEMMA ArguedIs ==
  ASSUME NEW V, NEW S \in SUBSET V, NEW default
  PROVE  Argued(S, default) \in V \cup {default} /\ (S = {} => Argued(S, default) = default)
BY SoleIs DEF Argued

(* The options that arguments describe. *)
LEMMA OptionsBounded ==
  ASSUME NEW a, RankValues(a), NEW order
  PROVE  Bounds(B50Options(a, order)) /\ WindowFor(a) \in WindowData
<1>1. a.min \subseteq Nat /\ a.max \subseteq Nat /\ a.fitMin \subseteq Nat /\ a.fitMax \subseteq Nat
      /\ a.limit \subseteq Nat /\ a.start \subseteq Nat /\ a.end \subseteq Nat
  BY DEF RankValues
<1>2. \A S \in SUBSET Nat : Argued(S, None) \in Measured
  BY ArguedIs DEF Measured
<1>3. WindowFor(a) \in WindowData
  BY <1>1, <1>2 DEF WindowFor, WindowData
<1> DEFINE o == B50Options(a, order)
<1>4. /\ o.min = Argued(a.min, None) /\ o.max = Argued(a.max, None)
      /\ o.fitMin = Argued(a.fitMin, None) /\ o.fitMax = Argued(a.fitMax, None) /\ o.window = WindowFor(a)
  BY DEF B50Options
<1> HIDE DEF o
<1>5. Bounds(o)
  BY <1>1, <1>2, <1>3, <1>4 DEF Bounds
<1> QED BY <1>3, <1>5 DEF o

(* The verdicts. *)
LEMMA Verdicts ==
  /\ \A e : Fails(e).verdict = "failed"
  /\ Unusable.verdict = "failed" /\ NotKept.verdict = "failed" /\ Gone.verdict = "failed"
  /\ \A q, a : Started(q, a).verdict = "started"
  /\ Invalid.verdict = "invalid"
  /\ \A rows, w : Report(rows, w).verdict = "report"
BY DEF Fails, Unusable, NotKept, Gone, Started, Invalid, Report

(* A report that is given has the verdict of one. *)
LEMMA ReportVerdict ==
  ASSUME NEW S, NEW o
  PROVE  B50Report(S, o) # Invalid => B50Report(S, o).verdict = "report"
<1>1. B50Report(S, o) # Invalid =>
        B50Report(S, o) = Report(Arrange({e \in S : B50Matches(e, o)}, LAMBDA e : B50Key(e, o.sort), o.order), o.window)
  BY Zenon DEF B50Report
<1> QED BY <1>1, Verdicts, Zenon

(* So has the rank of a member. *)
LEMMA MemberVerdict ==
  \A S, qq, size : B50MemberRank(S, qq, size).verdict = "member"
<1>1. \A d, a, q, n : MemberRank(d, a, q, n).verdict = "member"
  BY DEF MemberRank
<1> QED BY <1>1, Zenon DEF B50MemberRank

(* What comes of a call that may start a refresh instead. *)
LEMMA Refreshed ==
  ASSUME NEW q, NEW a, NEW x
  PROVE  LET s == OrRefresh(q, a, x)
         IN \/ s.verdict = "failed"
            \/ s = Started(q, a) /\ ~Usable(q, a)
            \/ s = x /\ Usable(q, a)
BY Verdicts, Zenon DEF OrRefresh

(* A report of what was read. *)
LEMMA CachedReportIs ==
  ASSUME NEW read, NEW o
  PROVE  LET s == CachedReport(read, o)
         IN \/ s.verdict = "failed"
            \/ /\ read # {} /\ s = B50Report(Sole(read).entries, o) /\ s # Invalid /\ s.verdict = "report"
<1>1. CASE read = {}
  <2>1. CachedReport(read, o) \in {Unusable, Gone}
    BY <1>1 DEF CachedReport
  <2> QED BY <2>1, Verdicts
<1>2. CASE read # {}
  <2> DEFINE r == B50Report(Sole(read).entries, o)
  <2>1. CachedReport(read, o) = IF r = Invalid THEN Unusable ELSE r
    BY <1>2 DEF CachedReport, Reported
  <2>2. r # Invalid => r.verdict = "report"
    BY ReportVerdict
  <2> HIDE DEF r
  <2>3. CASE r = Invalid
    BY <2>1, <2>3, Verdicts
  <2>4. CASE r # Invalid
    BY <2>1, <2>2, <2>4, <1>2 DEF r
  <2> QED BY <2>3, <2>4
<1> QED BY <1>1, <1>2

(* How group_b50_report comes to its answer. *)
LEMMA GroupReportIs ==
  ASSUME NEW q, NEW a
  PROVE  LET s == GroupB50Report(q, a)
             r == B50Report(Sole(q.reads[1]).entries, B50Options(a, "asc"))
         IN \/ s.verdict = "failed"
            \/ s = Started(q, a) /\ ~Usable(q, a)
            \/ Usable(q, a) /\ q.reads[1] # {} /\ s = r /\ r # Invalid /\ r.verdict = "report"
<1> DEFINE o == B50Options(a, "asc")
           x == CachedReport(q.reads[1], o)
           s == GroupB50Report(q, a)
<1>1. s = Unusable \/ s = OrRefresh(q, a, x)
  BY Zenon DEF GroupB50Report
<1>2. \/ x.verdict = "failed"
      \/ q.reads[1] # {} /\ x = B50Report(Sole(q.reads[1]).entries, o) /\ x # Invalid /\ x.verdict = "report"
  BY CachedReportIs
<1>3. LET t == OrRefresh(q, a, x) IN t.verdict = "failed" \/ (t = Started(q, a) /\ ~Usable(q, a)) \/ (t = x /\ Usable(q, a))
  BY Refreshed
<1>4. Unusable.verdict = "failed"
  BY Verdicts
<1> HIDE DEF s, x, o
<1>5. \/ s.verdict = "failed"
      \/ s = Started(q, a) /\ ~Usable(q, a)
      \/ /\ Usable(q, a) /\ q.reads[1] # {} /\ s = B50Report(Sole(q.reads[1]).entries, o)
         /\ B50Report(Sole(q.reads[1]).entries, o) # Invalid /\ s.verdict = "report"
  BY <1>1, <1>2, <1>3, <1>4, Zenon
<1> QED BY <1>5, Zenon DEF s, o

(* How group_b50_job_status does. *)
LEMMA JobReportIs ==
  ASSUME NEW q, NEW a
  PROVE  LET s == GroupB50JobStatus(q, a)
             r == B50Report(Sole(q.reads[1]).entries, B50Options(a, "asc"))
         IN \/ s.verdict \in {"failed", "status"}
            \/ q.reads[1] # {} /\ s = r /\ r # Invalid /\ r.verdict = "report"
<1> DEFINE o == B50Options(a, "asc")
           x == CachedReport(q.reads[1], o)
           s == GroupB50JobStatus(q, a)
<1>1. s \in {Unusable, NotKept, Fails("UNKNOWN_ERROR"), [verdict |-> "status", job |-> q.job, cache |-> q.cache], x}
  BY DEF GroupB50JobStatus
<1>2. \/ x.verdict = "failed"
      \/ q.reads[1] # {} /\ x = B50Report(Sole(q.reads[1]).entries, o) /\ x # Invalid /\ x.verdict = "report"
  BY CachedReportIs
<1>3. [verdict |-> "status", job |-> q.job, cache |-> q.cache].verdict = "status"
  OBVIOUS
<1> HIDE DEF s, x, o
<1>4. \/ s.verdict \in {"failed", "status"}
      \/ /\ q.reads[1] # {} /\ s = B50Report(Sole(q.reads[1]).entries, o)
         /\ B50Report(Sole(q.reads[1]).entries, o) # Invalid /\ s.verdict = "report"
  <2>1. CASE s \in {Unusable, NotKept, Fails("UNKNOWN_ERROR")}
    BY <2>1, Verdicts
  <2>2. CASE s = [verdict |-> "status", job |-> q.job, cache |-> q.cache]
    BY <2>2
  <2>3. CASE s = x
    BY <2>3, <1>2, Zenon
  <2> QED BY <1>1, <2>1, <2>2, <2>3
<1> QED BY <1>4, Zenon DEF s, o

(* How group_b50_rank_at does. *)
LEMMA RankAtCases ==
  ASSUME NEW q, NEW a
  PROVE  LET s == GroupB50RankAt(q, a)
             o == B50Options(a, "desc")
             report == B50Report(Sole(q.reads[1]).entries, o)
             rank == Sole(a.rank)
             entry == report.rows[rank].entry
         IN \/ s.verdict = "failed"
            \/ s = Started(q, a) /\ ~Usable(q, a)
            \/ /\ Usable(q, a) /\ q.reads[1] # {} /\ report # Invalid /\ report.verdict = "report"
               /\ ~(a.rank \subseteq {0}) /\ a.order \subseteq DOMAIN OrderNames
               /\ \/ /\ s.verdict = "nobody" /\ s.matched = report.matched /\ rank \notin DOMAIN report.rows
                  \/ /\ s.verdict = "rank_at" /\ s.matched = report.matched /\ rank \in DOMAIN report.rows
                     /\ s.entry = entry /\ s.member = CachedMember(q.reads[2], entry.qq, 0)
                     /\ s.member.verdict # "failed"
<1> DEFINE s == GroupB50RankAt(q, a)
           o == B50Options(a, "desc")
           x == CachedReport(q.reads[1], o)
           report == B50Report(Sole(q.reads[1]).entries, o)
           rank == Sole(a.rank)
           entry == x.rows[rank].entry
           member == CachedMember(q.reads[2], entry.qq, 0)
           nobody == [verdict |-> "nobody", matched |-> x.matched]
           somebody == [verdict |-> "rank_at", entry |-> entry, matched |-> x.matched, member |-> member]
           shown == IF x.verdict = "failed" THEN x
                    ELSE IF rank \notin DOMAIN x.rows THEN nobody
                    ELSE IF member.verdict = "failed" THEN member
                    ELSE somebody
           refused == \/ ~GroupFits(a) \/ a.rank \subseteq {0} \/ ~a.order \subseteq DOMAIN OrderNames
                      \/ ~OutputFits(a) \/ ~a.numbers
<1>1. s = IF refused THEN Unusable ELSE OrRefresh(q, a, shown)
  BY Zenon DEF GroupB50RankAt, Using
<1>2. x.verdict = "failed" \/ (q.reads[1] # {} /\ x = report /\ x # Invalid /\ x.verdict = "report")
  BY CachedReportIs
<1>3. LET t == OrRefresh(q, a, shown) IN t.verdict = "failed" \/ (t = Started(q, a) /\ ~Usable(q, a)) \/ (t = shown /\ Usable(q, a))
  <2>1. \A y : LET t == OrRefresh(q, a, y)
               IN t.verdict = "failed" \/ (t = Started(q, a) /\ ~Usable(q, a)) \/ (t = y /\ Usable(q, a))
    BY Refreshed
  <2> HIDE DEF shown
  <2> QED BY <2>1, Zenon
<1>4. Unusable.verdict = "failed"
  BY Verdicts
<1>5. /\ nobody.verdict = "nobody" /\ nobody.matched = x.matched
      /\ somebody.verdict = "rank_at" /\ somebody.matched = x.matched /\ somebody.entry = entry /\ somebody.member = member
  OBVIOUS
<1>6. refused \/ (~(a.rank \subseteq {0}) /\ a.order \subseteq DOMAIN OrderNames)
  OBVIOUS
<1>7. CASE refused
  BY <1>1, <1>4, <1>7, Zenon DEF s
<1>8. CASE ~refused /\ OrRefresh(q, a, shown) # shown
  <2>1. s = OrRefresh(q, a, shown)
    BY <1>1, <1>8
  <2> HIDE DEF shown, s
  <2>2. s.verdict = "failed" \/ (s = Started(q, a) /\ ~Usable(q, a))
    BY <2>1, <1>3, <1>8
  <2> QED BY <2>2, Zenon DEF s
<1>9. CASE ~refused /\ OrRefresh(q, a, shown) = shown
  <2>1. s = shown
    BY <1>1, <1>9
  <2>2. s.verdict = "failed" \/ (s = Started(q, a) /\ ~Usable(q, a)) \/ Usable(q, a)
    <3> HIDE DEF shown, s
    <3> QED BY <2>1, <1>3, <1>9
  <2>3. CASE x.verdict = "failed"
    BY <2>1, <2>3, Zenon DEF s, shown
  <2>4. CASE x.verdict # "failed"
    <3>1. q.reads[1] # {} /\ x = report /\ x # Invalid /\ x.verdict = "report"
      BY <1>2, <2>4
    <3> HIDE DEF refused, report, nobody, somebody, member, rank, x
    <3>2. CASE rank \notin DOMAIN x.rows
      <4>1. s = nobody
        BY <2>1, <2>4, <3>2 DEF shown
      <4>2. s.verdict = "nobody" /\ s.matched = report.matched /\ rank \notin DOMAIN report.rows
        BY <4>1, <1>5, <3>1, <3>2
      <4> HIDE DEF s
      <4>3. \/ s.verdict = "failed"
            \/ s = Started(q, a) /\ ~Usable(q, a)
            \/ /\ Usable(q, a) /\ q.reads[1] # {} /\ report # Invalid /\ report.verdict = "report"
               /\ ~(a.rank \subseteq {0}) /\ a.order \subseteq DOMAIN OrderNames
               /\ s.verdict = "nobody" /\ s.matched = report.matched /\ rank \notin DOMAIN report.rows
        BY <4>2, <2>2, <1>6, <1>9, <3>1
      <4> QED BY <4>3, Zenon DEF s, report, rank, o
    <3>3. CASE rank \in DOMAIN x.rows /\ member.verdict = "failed"
      <4>1. s = member
        BY <2>1, <2>4, <3>3 DEF shown
      <4> QED BY <4>1, <3>3, Zenon DEF s
    <3>4. CASE rank \in DOMAIN x.rows /\ member.verdict # "failed"
      <4>1. s = somebody
        BY <2>1, <2>4, <3>4 DEF shown
      <4>2. /\ s.verdict = "rank_at" /\ s.matched = report.matched /\ rank \in DOMAIN report.rows
            /\ s.entry = entry /\ s.member = member /\ s.member.verdict # "failed"
        BY <4>1, <1>5, <3>1, <3>4
      <4>3. member = CachedMember(q.reads[2], report.rows[rank].entry.qq, 0) /\ entry = report.rows[rank].entry
        BY <3>1 DEF member
      <4> HIDE DEF s, entry
      <4>4. \/ s.verdict = "failed"
            \/ s = Started(q, a) /\ ~Usable(q, a)
            \/ /\ Usable(q, a) /\ q.reads[1] # {} /\ report # Invalid /\ report.verdict = "report"
               /\ ~(a.rank \subseteq {0}) /\ a.order \subseteq DOMAIN OrderNames
               /\ s.verdict = "rank_at" /\ s.matched = report.matched /\ rank \in DOMAIN report.rows
               /\ s.entry = report.rows[rank].entry /\ s.member = CachedMember(q.reads[2], report.rows[rank].entry.qq, 0)
               /\ s.member.verdict # "failed"
        BY <4>2, <4>3, <2>2, <1>6, <1>9, <3>1
      <4> QED BY <4>4, Zenon DEF s, report, rank, o
    <3> QED BY <3>2, <3>3, <3>4
  <2> QED BY <2>3, <2>4
<1> QED BY <1>7, <1>8, <1>9

(* In a report without a window everybody is at the rank of their place. *)
LEMMA WholeReportIs ==
  ASSUME NEW S, Rankable(S), NEW o, Bounds(o), B50Report(S, o) # Invalid,
         o.window.start = None, o.window.limit = None, o.sort = "rating"
  PROVE  LET L == Listed(S, o)
             R == B50Order(L, "rating", o.order)
             s == B50Report(S, o)
         IN /\ s.matched = Cardinality(L) /\ s.matched \in Nat /\ DOMAIN s.rows = 1..s.matched
            /\ \A i \in 1..s.matched :
                 /\ s.rows[i].entry \in L /\ Standing(L, R, s.rows[i].entry) + 1 = i
                 /\ Cardinality({e \in L : IF o.order = "descending" THEN e.rating > s.rows[i].entry.rating
                                                          ELSE e.rating < s.rows[i].entry.rating}) < i
<1> DEFINE L == Listed(S, o)
           R == B50Order(L, "rating", o.order)
           s == B50Report(S, o)
           m == [e \in L |-> e.rating]
<1>1. Rankable(L) /\ IsFiniteSet(L) /\ L \in SUBSET S
  BY ListedIs DEF Rankable
<1>2. ValidWindow(o.window) /\ o.window \in WindowData
  BY ReportIs DEF Bounds
<1>3. PICK rows : Enumerates(rows, L, R) /\ s = Report(rows, o.window)
  BY ReportIs
<1> HIDE DEF s, L
<1>4. StrictTotal(L, R) /\ \A x, y \in L : Outranks(m, o.order, x, y) => <<x, y>> \in R
  <2>1. StrictTotal(L, R) /\ \A x, y \in L : Outranks([e \in L |-> IF "rating" = "fit" THEN e.fit ELSE e.rating], o.order, x, y) => <<x, y>> \in R
    BY <1>1, MembersOrdered
  <2>2. [e \in L |-> IF "rating" = "fit" THEN e.fit ELSE e.rating] = m
    OBVIOUS
  <2> QED BY <2>1, <2>2
<1> HIDE DEF R
<1>5. Len(rows) \in Nat /\ Len(rows) = Cardinality(L)
  BY <1>1, <1>3, <1>4, Enumerated
<1> DEFINE out == WindowOf(rows, o.window)
<1>6. s.matched = Cardinality(L) /\ s.rows = out
  BY <1>3, <1>5 DEF Report
<1>7. Rows(out, rows, 1) /\ Len(out) = Len(rows)
  BY <1>2, <1>5, WindowRows
<1> HIDE DEF out
<1>8. DOMAIN out = 1..Cardinality(L)
  BY <1>5, <1>7 DEF Rows
<1>9. \A i \in 1..Cardinality(L) : out[i].rank = i /\ out[i].entry = rows[i]
  <2> SUFFICES ASSUME NEW i \in 1..Cardinality(L) PROVE out[i].rank = i /\ out[i].entry = rows[i]
    OBVIOUS
  <2>1. out[i] = [rank |-> 1 + i - 1, entry |-> rows[1 + i - 1]]
    BY <1>5, <1>7 DEF Rows
  <2>2. 1 + i - 1 = i
    BY <1>5
  <2> QED BY <2>1, <2>2
<1>10. m \in [L -> Int]
  BY <1>1 DEF Rankable, Measured, None
<1>11. \A e \in L : m[e] = e.rating
  OBVIOUS
<1> HIDE DEF m
<1>12. Placed(out, L, R, m, o.order)
  <2>1. \A T, Q, z, f, w, v, d : /\ IsFiniteSet(T) /\ StrictTotal(T, Q) /\ Enumerates(z, T, Q) /\ f \in Nat \ {0}
                                 /\ Rows(w, z, f) /\ v \in [T -> Int] /\ \A x, y \in T : Outranks(v, d, x, y) => <<x, y>> \in Q
                                 => Placed(w, T, Q, v, d)
    BY WellPlaced
  <2> QED BY <2>1, <1>1, <1>3, <1>4, <1>7, <1>10
<1>13. ASSUME NEW i \in 1..Cardinality(L)
       PROVE  /\ out[i].entry \in L /\ Standing(L, R, out[i].entry) + 1 = i
              /\ Cardinality({e \in L : IF o.order = "descending" THEN e.rating > out[i].entry.rating
                                                          ELSE e.rating < out[i].entry.rating}) < i
  <2>1. /\ out[i].entry \in L /\ out[i].rank = Standing(L, R, out[i].entry) + 1
        /\ Cardinality({r \in L : Outranks(m, o.order, r, out[i].entry)}) < out[i].rank
    BY <1>8, <1>12 DEF Placed
  <2>2. {r \in L : Outranks(m, o.order, r, out[i].entry)}
          = {e \in L : IF o.order = "descending" THEN e.rating > out[i].entry.rating ELSE e.rating < out[i].entry.rating}
    BY <1>11, <2>1 DEF Outranks
  <2> QED BY <2>1, <2>2, <1>9
<1>14. /\ s.matched = Cardinality(L) /\ s.matched \in Nat /\ DOMAIN s.rows = 1..s.matched
       /\ \A i \in 1..s.matched :
                 /\ s.rows[i].entry \in L /\ Standing(L, R, s.rows[i].entry) + 1 = i
                 /\ Cardinality({e \in L : IF o.order = "descending" THEN e.rating > s.rows[i].entry.rating
                                                          ELSE e.rating < s.rows[i].entry.rating}) < i
  BY <1>5, <1>6, <1>8, <1>13
<1> QED BY <1>14, Zenon DEF s, L, R

(* group_b50_rank_at knows no window and no key but the rating. *)
LEMMA RankAtOptions ==
  ASSUME NEW a, RankValues(a), KnownArguments("group_b50_rank_at", a), a.order \subseteq DOMAIN OrderNames
  PROVE  LET o == B50Options(a, "desc")
         IN /\ Bounds(o) /\ o.window.start = None /\ o.window.limit = None /\ o.sort = "rating"
            /\ o.order \in {"ascending", "descending"}
<1> DEFINE o == B50Options(a, "desc")
<1>1. Bounds(o)
  BY OptionsBounded
<1>2. a.sortBy = {} /\ a.start = {} /\ a.limit = {}
  <2>1. {"sortBy", "start", "limit"} \subseteq DOMAIN a \ {"numbers"}
    BY DEF RankValues, B50ReportFields, OptionFields
  <2>2. \A f \in {"sortBy", "start", "limit"} : f \notin RankToolFields["group_b50_rank_at"]
    BY DEF RankToolFields, B50RankAtFields, RefreshFields
  <2> QED BY <2>1, <2>2 DEF KnownArguments
<1>3. o.window.start = None /\ o.window.limit = None
  BY <1>2 DEF B50Options, WindowFor, Argued
<1>4. o.sort = "rating"
  BY <1>2 DEF B50Options, SortNames, Argued
<1>5. o.order = OrderNames[Argued(a.order, "desc")]
  BY DEF B50Options
<1>6. Argued(a.order, "desc") \in {"asc", "desc"}
  BY SoleIs DEF Argued, OrderNames
<1>7. o.order \in {"ascending", "descending"}
  BY <1>5, <1>6 DEF OrderNames
<1> HIDE DEF o
<1>8. Bounds(o) /\ o.window.start = None /\ o.window.limit = None /\ o.sort = "rating" /\ o.order \in {"ascending", "descending"}
  BY <1>1, <1>3, <1>4, <1>7
<1> QED BY <1>8 DEF o

(* The rank it was asked about. *)
LEMMA RankArgued ==
  ASSUME NEW a, RankValues(a), ~(a.rank \subseteq {0})
  PROVE  Sole(a.rank) \in Nat \ {0}
<1>1. a.rank \subseteq Nat /\ (a.rank # {} => a.rank = {Sole(a.rank)})
  BY DEF RankValues
<1> QED BY <1>1

(* Whoever group_b50_rank_at shows is at that rank, in the whole ranking
   too as long as it stays as it was; where it shows nobody there is none. *)
LEMMA RankAtShown ==
  ASSUME NEW q, RankSituation(q), q.name = "group_b50_rank_at", KnownArguments(q.name, q.args)
  PROVE  LET a == q.args
             s == GroupB50RankAt(q, a)
             o == B50Options(a, "desc")
             S == Sole(q.reads[1]).entries
         IN /\ s.verdict = "rank_at" =>
                 /\ Cardinality({e \in Listed(S, o) : IF o.order = "descending" THEN e.rating > s.entry.rating
                                                                     ELSE e.rating < s.entry.rating}) < Sole(a.rank)
                 /\ Sole(a.rank) <= s.matched
                 /\ q.reads[1] = q.reads[2] =>
                      /\ s.member.found
                      /\ Listed(S, o) = S => Sole(a.rank) = IF o.order = "descending" THEN s.member.desc ELSE s.member.asc
            /\ s.verdict = "nobody" => Sole(a.rank) > s.matched
<1> DEFINE a == q.args
           s == GroupB50RankAt(q, a)
           o == B50Options(a, "desc")
           S == Sole(q.reads[1]).entries
           report == B50Report(S, o)
           rank == Sole(a.rank)
           L == Listed(S, o)
           R == B50Order(L, "rating", o.order)
<1>1. \/ s.verdict = "failed"
      \/ s = Started(q, a) /\ ~Usable(q, a)
      \/ /\ Usable(q, a) /\ q.reads[1] # {} /\ report # Invalid /\ report.verdict = "report"
         /\ ~(a.rank \subseteq {0}) /\ a.order \subseteq DOMAIN OrderNames
         /\ \/ /\ s.verdict = "nobody" /\ s.matched = report.matched /\ rank \notin DOMAIN report.rows
            \/ /\ s.verdict = "rank_at" /\ s.matched = report.matched /\ rank \in DOMAIN report.rows
               /\ s.entry = report.rows[rank].entry /\ s.member = CachedMember(q.reads[2], report.rows[rank].entry.qq, 0)
               /\ s.member.verdict # "failed"
  BY RankAtCases
<1>2. RankValues(a) /\ KnownArguments("group_b50_rank_at", a)
  BY DEF RankSituation
<1>3. \A r \in q.reads[1] : Rankable(r.entries)
  BY DEF RankSituation
<1>4. Started(q, a).verdict = "started"
  BY Verdicts
<1> SUFFICES ASSUME s.verdict \in {"rank_at", "nobody"}
             PROVE  /\ s.verdict = "rank_at" =>
                        /\ Cardinality({e \in L : IF o.order = "descending" THEN e.rating > s.entry.rating
                                                                     ELSE e.rating < s.entry.rating}) < rank
                        /\ rank <= s.matched
                        /\ q.reads[1] = q.reads[2] =>
                              /\ s.member.found
                              /\ L = S => rank = IF o.order = "descending" THEN s.member.desc ELSE s.member.asc
                    /\ s.verdict = "nobody" => rank > s.matched
  BY Zenon
<1> HIDE DEF s, report
<1>5. /\ Usable(q, a) /\ q.reads[1] # {} /\ report # Invalid
      /\ ~(a.rank \subseteq {0}) /\ a.order \subseteq DOMAIN OrderNames
      /\ s.matched = report.matched
      /\ s.verdict = "nobody" => rank \notin DOMAIN report.rows
      /\ s.verdict = "rank_at" =>
           /\ rank \in DOMAIN report.rows
           /\ s.entry = report.rows[rank].entry /\ s.member = CachedMember(q.reads[2], report.rows[rank].entry.qq, 0)
  <2> HIDE DEF rank, a, o
  <2> QED BY <1>1, <1>4
<1>6. Rankable(S)
  <2>1. Sole(q.reads[1]) \in q.reads[1]
    BY <1>5, SoleIs
  <2> QED BY <2>1, <1>3
<1>7. rank \in Nat \ {0}
  BY <1>2, <1>5, RankArgued
<1>8. Bounds(o) /\ o.window.start = None /\ o.window.limit = None /\ o.sort = "rating" /\ o.order \in {"ascending", "descending"}
  BY <1>2, <1>5, RankAtOptions
<1> HIDE DEF o, rank, a
<1>9. /\ report.matched = Cardinality(L) /\ report.matched \in Nat /\ DOMAIN report.rows = 1..report.matched
      /\ \A i \in 1..report.matched :
           /\ report.rows[i].entry \in L /\ Standing(L, R, report.rows[i].entry) + 1 = i
           /\ Cardinality({e \in L : IF o.order = "descending" THEN e.rating > report.rows[i].entry.rating
                                                          ELSE e.rating < report.rows[i].entry.rating}) < i
  <2> HIDE DEF S
  <2>1. B50Report(S, o) # Invalid
    BY <1>5 DEF report
  <2> QED BY <2>1, <1>6, <1>8, WholeReportIs DEF report
<1> HIDE DEF R
<1>10. s.verdict = "nobody" => rank > s.matched
  BY <1>5, <1>7, <1>9
<1>11. ASSUME s.verdict = "rank_at"
       PROVE  /\ Cardinality({e \in L : IF o.order = "descending" THEN e.rating > s.entry.rating
                                                                     ELSE e.rating < s.entry.rating}) < rank
              /\ rank <= s.matched
              /\ q.reads[1] = q.reads[2] =>
                   /\ s.member.found
                   /\ L = S => rank = IF o.order = "descending" THEN s.member.desc ELSE s.member.asc
  <2>1. rank \in 1..report.matched /\ s.entry = report.rows[rank].entry
    BY <1>5, <1>9, <1>11
  <2> DEFINE e0 == report.rows[rank].entry
  <2>2. e0 \in L /\ Standing(L, R, e0) + 1 = rank
    BY <1>9, <2>1
  <2>3. Cardinality({e \in L : IF o.order = "descending" THEN e.rating > s.entry.rating ELSE e.rating < s.entry.rating}) < rank
    BY <1>9, <2>1
  <2>4. rank <= s.matched
    BY <2>1, <1>5, <1>9
  <2>5. L \in SUBSET S
    <3> HIDE DEF S
    <3> QED BY <1>6, <1>8, ListedIs
  <2> HIDE DEF L, S
  <2>6. ASSUME q.reads[1] = q.reads[2]
        PROVE  s.member.found /\ (L = S => rank = IF o.order = "descending" THEN s.member.desc ELSE s.member.asc)
    <3>1. s.member = CachedMember(q.reads[2], e0.qq, 0)
      BY <1>5, <1>11
    <3> HIDE DEF e0
    <3>2. s.member = B50MemberRank(S, e0.qq, 0)
      BY <3>1, <2>6, <1>5, Zenon DEF CachedMember, S
    <3>3. /\ s.member.found <=> Named(S, e0.qq)
          /\ \A x \in S : x.qq = e0.qq => /\ s.member.desc = Standing(S, B50Order(S, "rating", "descending"), x) + 1
                                          /\ s.member.asc = Standing(S, B50Order(S, "rating", "ascending"), x) + 1
      BY <3>2, <1>6, MemberRankIs
    <3>4. e0 \in S
      BY <2>2, <2>5
    <3>5. Named(S, e0.qq)
      BY <3>4 DEF Named
    <3>6. /\ s.member.desc = Standing(S, B50Order(S, "rating", "descending"), e0) + 1
          /\ s.member.asc = Standing(S, B50Order(S, "rating", "ascending"), e0) + 1
      BY <3>3, <3>4
    <3>7. ASSUME L = S PROVE rank = IF o.order = "descending" THEN s.member.desc ELSE s.member.asc
      <4>1. rank = Standing(S, B50Order(S, "rating", o.order), e0) + 1
        BY <2>2, <3>7 DEF R
      <4>2. CASE o.order = "descending"
        BY <4>1, <4>2, <3>6
      <4>3. CASE o.order = "ascending"
        BY <4>1, <4>3, <3>6
      <4> QED BY <1>8, <4>2, <4>3
    <3> QED BY <3>3, <3>5, <3>7
  <2> QED BY <2>3, <2>4, <2>6
<1> QED BY <1>10, <1>11

(* The verdicts on a song. *)
LEMMA SongVerdicts ==
  /\ \A members, records, o : SongReport(members, records, o).verdict \in {"invalid", "report"}
  /\ \A members, records, target, qq, size : SongMemberRank(members, records, target, qq, size).verdict = "member"
<1>1. ASSUME NEW members, NEW records, NEW o PROVE SongReport(members, records, o).verdict \in {"invalid", "report"}
  <2>1. \/ SongReport(members, records, o) = Invalid
        \/ SongReport(members, records, o) = Report(Arrange(SongRows(members, records, o), LAMBDA r : SongKey(r, o.sort), o.order), o.window)
    BY Zenon DEF SongReport
  <2>2. CASE SongReport(members, records, o) = Invalid
    BY <2>2, Verdicts
  <2>3. CASE SongReport(members, records, o) = Report(Arrange(SongRows(members, records, o), LAMBDA r : SongKey(r, o.sort), o.order), o.window)
    <3>1. SongReport(members, records, o).verdict = "report"
      BY <2>3, Verdicts, Zenon
    <3> QED BY <3>1
  <2> QED BY <2>1, <2>2, <2>3
<1>2. \A d, a, q, n : MemberRank(d, a, q, n).verdict = "member"
  BY DEF MemberRank
<1>3. \A members, records, target, qq, size : SongMemberRank(members, records, target, qq, size).verdict = "member"
  BY <1>2, Zenon DEF SongMemberRank
<1> QED BY <1>1, <1>3

(* How group_b50_member_rank comes to its answer. *)
LEMMA MemberRankCases ==
  ASSUME NEW q, NEW a
  PROVE  LET s == GroupB50MemberRank(q, a)
         IN \/ s.verdict = "failed"
            \/ s = Started(q, a) /\ ~Usable(q, a)
            \/ Usable(q, a) /\ q.reads[1] # {} /\ s.verdict = "member" /\ MemberFor(q, a).verdict # "failed"
<1> DEFINE member == MemberFor(q, a)
           x == CachedMember(q.reads[1], RankedAs(member), Argued(a.context, 3))
           shown == IF ~ContextFits(a) THEN Unusable
                    ELSE IF q.reads[1] # {} /\ ~OutputFits(a) THEN Unusable
                    ELSE x
           s == GroupB50MemberRank(q, a)
<1>1. s = IF member.verdict = "failed" THEN member ELSE OrRefresh(q, a, shown)
  BY Zenon DEF GroupB50MemberRank
<1>2. shown = Unusable \/ shown = x
  OBVIOUS
<1>3. LET t == OrRefresh(q, a, shown) IN t.verdict = "failed" \/ (t = Started(q, a) /\ ~Usable(q, a)) \/ (t = shown /\ Usable(q, a))
  BY Refreshed
<1>4. x.verdict = "failed" \/ (q.reads[1] # {} /\ x.verdict = "member")
  BY Verdicts, MemberVerdict, Zenon DEF CachedMember
<1>5. Unusable.verdict = "failed"
  BY Verdicts
<1> HIDE DEF s, shown, x, member
<1>6. \/ s.verdict = "failed"
      \/ s = Started(q, a) /\ ~Usable(q, a)
      \/ Usable(q, a) /\ q.reads[1] # {} /\ s.verdict = "member" /\ member.verdict # "failed"
  <2>1. CASE member.verdict = "failed"
    BY <1>1, <2>1
  <2>2. CASE member.verdict # "failed"
    <3>1. s = OrRefresh(q, a, shown)
      BY <1>1, <2>2
    <3> QED BY <3>1, <2>2, <1>2, <1>3, <1>4, <1>5
  <2> QED BY <2>1, <2>2
<1> QED BY <1>6, Zenon DEF s, member

(* How group_song_score_report does. *)
LEMMA SongReportCases ==
  ASSUME NEW catalog, NEW q, NEW a
  PROVE  LET s == GroupSongReport(catalog, q, a)
             ranking == Sole(q.reads[1])
             o == SongOptions(SongFor(catalog, a), a)
         IN \/ s.verdict \in {"failed", "status"}
            \/ s = Started(q, a) /\ ~Usable(q, a)
            \/ /\ Usable(q, a) /\ q.reads[1] # {} /\ s = SongReport(ranking.members, ranking.records, o)
               /\ s.verdict \in {"invalid", "report"}
<1> DEFINE song == SongFor(catalog, a)
           o == SongOptions(song, a)
           status == [verdict |-> "status", job |-> q.job, cache |-> q.cache]
           found(ranking) == SongReport(ranking.members, ranking.records, o)
           x == IF q.reads[1] = {} THEN Gone ELSE found(Sole(q.reads[1]))
           s == GroupSongReport(catalog, q, a)
<1>1. s \in {Unusable, song, OrRefresh(q, a, status), OrRefresh(q, a, x)} /\ (s = song => s.verdict = "failed" \/ s \in {Unusable, OrRefresh(q, a, status), OrRefresh(q, a, x)})
  <2>1. s = Unusable \/ s = OrRefresh(q, a, status) \/ (s = song /\ song.verdict = "failed") \/ s = OrRefresh(q, a, x)
    BY Zenon DEF GroupSongReport, Using, CachedSongs
  <2> HIDE DEF s, song, status, x
  <2> QED BY <2>1
<1>2. /\ LET t == OrRefresh(q, a, x) IN t.verdict = "failed" \/ (t = Started(q, a) /\ ~Usable(q, a)) \/ (t = x /\ Usable(q, a))
      /\ LET t == OrRefresh(q, a, status) IN t.verdict = "failed" \/ (t = Started(q, a) /\ ~Usable(q, a)) \/ (t = status /\ Usable(q, a))
  BY Refreshed
<1>3. status.verdict = "status" /\ Unusable.verdict = "failed" /\ Gone.verdict = "failed"
  BY Verdicts
<1>4. x.verdict = "failed" \/ (q.reads[1] # {} /\ x = found(Sole(q.reads[1])) /\ x.verdict \in {"invalid", "report"})
  <2>1. CASE q.reads[1] = {}
    BY <2>1, <1>3
  <2>2. CASE q.reads[1] # {}
    <3>1. x = found(Sole(q.reads[1]))
      BY <2>2
    <3>2. found(Sole(q.reads[1])).verdict \in {"invalid", "report"}
      BY SongVerdicts
    <3> HIDE DEF found
    <3> QED BY <2>2, <3>1, <3>2
  <2> QED BY <2>1, <2>2
<1> HIDE DEF s, song, status, x, found
<1>5. \/ s.verdict \in {"failed", "status"}
      \/ s = Started(q, a) /\ ~Usable(q, a)
      \/ /\ Usable(q, a) /\ q.reads[1] # {} /\ s = found(Sole(q.reads[1]))
         /\ s.verdict \in {"invalid", "report"}
  BY <1>1, <1>2, <1>3, <1>4
<1> QED BY <1>5, Zenon DEF s, found, o, song

(* How group_song_score_member_rank does. *)
LEMMA SongMemberCases ==
  ASSUME NEW catalog, NEW q, NEW a
  PROVE  LET s == GroupSongMemberRank(catalog, q, a)
         IN \/ s.verdict = "failed"
            \/ s = Started(q, a) /\ ~Usable(q, a)
            \/ Usable(q, a) /\ q.reads[1] # {} /\ s.verdict = "member" /\ MemberFor(q, a).verdict # "failed"
<1> DEFINE member == MemberFor(q, a)
           song == SongFor(catalog, a)
           found(ranking) == SongMemberRank(ranking.members, ranking.records, song, RankedAs(member), Argued(a.context, 3))
           x == IF q.reads[1] = {} THEN Gone ELSE found(Sole(q.reads[1]))
           shown == IF ContextFits(a) THEN x ELSE Unusable
           s == GroupSongMemberRank(catalog, q, a)
<1>1. \/ s = member /\ member.verdict = "failed"
      \/ s = Unusable
      \/ s = song /\ song.verdict = "failed"
      \/ s = OrRefresh(q, a, shown) /\ member.verdict # "failed"
  BY Zenon DEF GroupSongMemberRank, Using, CachedSongs
<1>2. LET t == OrRefresh(q, a, shown) IN t.verdict = "failed" \/ (t = Started(q, a) /\ ~Usable(q, a)) \/ (t = shown /\ Usable(q, a))
  BY Refreshed
<1>3. Unusable.verdict = "failed" /\ Gone.verdict = "failed"
  BY Verdicts
<1>4. x.verdict = "failed" \/ (q.reads[1] # {} /\ x.verdict = "member")
  <2>1. CASE q.reads[1] = {}
    BY <2>1, <1>3
  <2>2. CASE q.reads[1] # {}
    <3>1. x = found(Sole(q.reads[1]))
      BY <2>2
    <3>2. found(Sole(q.reads[1])).verdict = "member"
      BY SongVerdicts
    <3> HIDE DEF found
    <3> QED BY <2>2, <3>1, <3>2
  <2> QED BY <2>1, <2>2
<1>5. shown = x \/ shown = Unusable
  OBVIOUS
<1> HIDE DEF s, song, shown, x, member
<1>6. \/ s.verdict = "failed"
      \/ s = Started(q, a) /\ ~Usable(q, a)
      \/ Usable(q, a) /\ q.reads[1] # {} /\ s.verdict = "member" /\ member.verdict # "failed"
  BY <1>1, <1>2, <1>3, <1>4, <1>5
<1> QED BY <1>6, Zenon DEF s, member

-----------------------------------------------------------------------------
(* Texts, as far as finding a member by one needs them. *)

(* A part of a text. *)
LEMMA SubText ==
  ASSUME NEW s \in Seq(Int), NEW m \in 1..Len(s) + 1, NEW n \in 0..Len(s), m <= n + 1
  PROVE  /\ SubSeq(s, m, n) \in Seq(Int) /\ Len(SubSeq(s, m, n)) = n - m + 1
         /\ DOMAIN SubSeq(s, m, n) = 1..n - m + 1
         /\ \A i \in 1..n - m + 1 : SubSeq(s, m, n)[i] = s[m + i - 1]
OBVIOUS

(* Texts are the same if they are place by place. *)
LEMMA SameText ==
  ASSUME NEW s \in Seq(Int), NEW t \in Seq(Int), Len(s) = Len(t), \A i \in 1..Len(s) : s[i] = t[i]
  PROVE  s = t
OBVIOUS

(* A text is a part of itself. *)
LEMMA AllOfIt ==
  ASSUME NEW s \in Seq(Int)
  PROVE  SubSeq(s, 1, Len(s)) = s
<1>1. SubSeq(s, 1, Len(s)) \in Seq(Int) /\ Len(SubSeq(s, 1, Len(s))) = Len(s)
      /\ \A i \in 1..Len(s) : SubSeq(s, 1, Len(s))[i] = s[i]
  <2>1. 1 \in 1..Len(s) + 1 /\ Len(s) \in 0..Len(s) /\ 1 <= Len(s) + 1
    OBVIOUS
  <2>2. SubSeq(s, 1, Len(s)) \in Seq(Int) /\ Len(SubSeq(s, 1, Len(s))) = Len(s) - 1 + 1
        /\ \A i \in 1..Len(s) - 1 + 1 : SubSeq(s, 1, Len(s))[i] = s[1 + i - 1]
    BY <2>1, SubText
  <2> QED BY <2>2
<1> QED BY <1>1, SameText

(* Prefixes are the same if they are place by place. *)
LEMMA SamePrefix ==
  ASSUME NEW s \in Seq(Int), NEW t \in Seq(Int), NEW n \in Nat, n <= Len(s), n <= Len(t)
  PROVE  SubSeq(s, 1, n) = SubSeq(t, 1, n) <=> \A k \in 1..n : s[k] = t[k]
<1>1. 1 \in 1..Len(s) + 1 /\ 1 \in 1..Len(t) + 1 /\ n \in 0..Len(s) /\ n \in 0..Len(t) /\ 1 <= n + 1
  OBVIOUS
<1>2. SubSeq(s, 1, n) \in Seq(Int) /\ Len(SubSeq(s, 1, n)) = n - 1 + 1 /\ \A i \in 1..n - 1 + 1 : SubSeq(s, 1, n)[i] = s[1 + i - 1]
  BY <1>1, SubText
<1>3. SubSeq(t, 1, n) \in Seq(Int) /\ Len(SubSeq(t, 1, n)) = n - 1 + 1 /\ \A i \in 1..n - 1 + 1 : SubSeq(t, 1, n)[i] = t[1 + i - 1]
  BY <1>1, SubText
<1>4. n - 1 + 1 = n /\ \A i \in 1..n : 1 + i - 1 = i
  OBVIOUS
<1> DEFINE u == SubSeq(s, 1, n)
           v == SubSeq(t, 1, n)
<1>5. u \in Seq(Int) /\ v \in Seq(Int) /\ Len(u) = n /\ Len(v) = n /\ \A i \in 1..n : u[i] = s[i] /\ v[i] = t[i]
  BY <1>2, <1>3, <1>4
<1> HIDE DEF u, v
<1>6. u = v <=> \A k \in 1..n : s[k] = t[k]
  BY <1>5, SameText
<1> QED BY <1>6 DEF u, v

(* A text of digits as a key: a text before all that it begins. *)
TextKey(t) == [i \in Nat \ {0} |-> IF i <= Len(t) THEN 30 - t[i] ELSE 30]

(* The key, place by place. *)
LEMMA TextKeys ==
  ASSUME NEW t \in Seq(Int)
  PROVE  TextKey(t) \in [Nat \ {0} -> Int] /\ \A i \in Nat \ {0} : TextKey(t)[i] = IF i <= Len(t) THEN 30 - t[i] ELSE 30
BY DEF TextKey

(* Texts of digits. *)
Digital(t) == t \in Seq(Int) /\ \A i \in 1..Len(t) : 20 <= t[i] /\ t[i] <= 29

(* They, place by place. *)
LEMMA DigitsAre ==
  ASSUME NEW t, Digital(t)
  PROVE  t \in Seq(Int) /\ DOMAIN t = 1..Len(t) /\ Len(t) \in Nat /\ \A i \in 1..Len(t) : t[i] \in 20..29
<1>1. t \in Seq(Int)
  BY DEF Digital
<1>2. DOMAIN t = 1..Len(t) /\ Len(t) \in Nat /\ \A i \in 1..Len(t) : t[i] \in Int
  BY <1>1
<1>3. \A i \in 1..Len(t) : t[i] \in Int /\ 20 <= t[i] /\ t[i] <= 29
  BY <1>2 DEF Digital
<1>4. \A i \in 1..Len(t) : t[i] \in 20..29
  BY <1>3
<1> QED BY <1>1, <1>2, <1>4

(* A digit is a place of its own. *)
LEMMA DigitsKept ==
  ASSUME NEW t, Digital(t)
  PROVE  [i \in DOMAIN t |-> Place(t[i])] = t
<1>1. t \in Seq(Int) /\ DOMAIN t = 1..Len(t) /\ \A i \in 1..Len(t) : t[i] \in 20..29
  BY DigitsAre
<1>2. \A c \in 20..29 : Place(c) = c
  BY DEF Place
<1>3. \A i \in DOMAIN t : Place(t[i]) = t[i]
  BY <1>1, <1>2
<1> QED BY <1>1, <1>3

(* Texts of digits are ordered as their keys. *)
LEMMA TextOrder ==
  ASSUME NEW s, Digital(s), NEW t, Digital(t)
  PROVE  /\ TextLess(s, t) <=> Ahead(TextKey(s), TextKey(t))
         /\ TextKey(s) = TextKey(t) => s = t
<1>1. s \in Seq(Int) /\ t \in Seq(Int)
  BY DigitsAre
<1> DEFINE v == TextKey(s)
           w == TextKey(t)
           m == Len(s)
           n == Len(t)
<1>2. /\ DOMAIN v = Nat \ {0}
      /\ \A i \in Nat \ {0} : v[i] = (IF i <= m THEN 30 - s[i] ELSE 30) /\ w[i] = (IF i <= n THEN 30 - t[i] ELSE 30)
  BY <1>1, TextKeys
<1>3. m \in Nat /\ n \in Nat
  BY DigitsAre
<1>4. \A i \in 1..m : s[i] \in 20..29
  BY DigitsAre
<1>5. \A i \in 1..n : t[i] \in 20..29
  BY DigitsAre
<1>6. DOMAIN s = 1..m /\ DOMAIN t = 1..n
  BY DigitsAre
<1>7. m = n /\ (\A i \in 1..m : s[i] = t[i]) => s = t
  BY <1>1, SameText
<1>8. IsPrefix(s, t) <=> m <= n /\ \A k \in 1..m : s[k] = t[k]
  <2>1. CASE m <= n
    BY <2>1, <1>1, <1>3, SamePrefix DEF IsPrefix
  <2>2. CASE ~(m <= n)
    BY <2>2 DEF IsPrefix
  <2> QED BY <2>1, <2>2
<1>9. ASSUME NEW i \in 1..m, i <= n
      PROVE  SubSeq(s, 1, i - 1) = SubSeq(t, 1, i - 1) <=> \A k \in 1..i - 1 : s[k] = t[k]
  <2> DEFINE j == i - 1
  <2>1. j \in Nat /\ j <= m /\ j <= n
    BY <1>3, <1>9
  <2> HIDE DEF j
  <2>2. SubSeq(s, 1, j) = SubSeq(t, 1, j) <=> \A k \in 1..j : s[k] = t[k]
    BY <2>1, <1>1, SamePrefix
  <2> QED BY <2>2 DEF j
<1>10. TextLess(s, t) <=> SeqLess(s, t)
  <2>1. \A u : Digital(u) => [i \in DOMAIN u |-> Place(u[i])] = u
    BY DigitsKept
  <2> QED BY <2>1 DEF TextLess
<1> HIDE DEF v, w, m, n
<1>11. ASSUME NEW i \in 1..m
       PROVE  i \in Nat \ {0} /\ v[i] = 30 - s[i] /\ s[i] \in 20..29
  BY <1>2, <1>3, <1>4
<1>12. ASSUME NEW i \in 1..n
       PROVE  i \in Nat \ {0} /\ w[i] = 30 - t[i] /\ t[i] \in 20..29
  BY <1>2, <1>3, <1>5
<1>13. ASSUME NEW i \in Nat \ {0}
       PROVE  (i > m => v[i] = 30) /\ (i > n => w[i] = 30)
  BY <1>2, <1>3
<1>14. \A x, y \in 20..29 : 30 - x < 30 /\ (30 - x = 30 - y => x = y) /\ (30 - x > 30 - y <=> x < y)
  OBVIOUS
<1>15. v = w => s = t
  <2> SUFFICES ASSUME v = w PROVE s = t
    OBVIOUS
  <2>1. ~(m < n)
    <3> SUFFICES ASSUME m < n PROVE FALSE
      OBVIOUS
    <3> DEFINE i == m + 1
    <3>1. i \in 1..n /\ i > m /\ i \in Nat \ {0}
      BY <1>3
    <3> HIDE DEF i
    <3>2. v[i] = 30 /\ w[i] = 30 - t[i] /\ t[i] \in 20..29
      BY <3>1, <1>12, <1>13
    <3> QED BY <3>2, <1>14
  <2>2. ~(n < m)
    <3> SUFFICES ASSUME n < m PROVE FALSE
      OBVIOUS
    <3> DEFINE i == n + 1
    <3>1. i \in 1..m /\ i > n /\ i \in Nat \ {0}
      BY <1>3
    <3> HIDE DEF i
    <3>2. w[i] = 30 /\ v[i] = 30 - s[i] /\ s[i] \in 20..29
      BY <3>1, <1>11, <1>13
    <3> QED BY <3>2, <1>14
  <2>3. m = n
    BY <2>1, <2>2, <1>3
  <2>4. ASSUME NEW i \in 1..m PROVE s[i] = t[i]
    BY <2>3, <1>11, <1>12, <1>14
  <2> QED BY <2>3, <2>4, <1>7
<1>16. SeqLess(s, t) <=> \/ m < n /\ \A k \in 1..m : s[k] = t[k]
                         \/ \E i \in 1..m : i <= n /\ s[i] < t[i] /\ \A k \in 1..i - 1 : s[k] = t[k]
  <2>1. s # t /\ IsPrefix(s, t) <=> m < n /\ \A k \in 1..m : s[k] = t[k]
    <3>1. CASE m = n
      BY <3>1, <1>3, <1>7, <1>8
    <3>2. CASE m # n
      <4>1. s # t
        BY <3>2 DEF m, n
      <4>2. m <= n <=> m < n
        BY <3>2, <1>3
      <4> QED BY <4>1, <4>2, <1>8
    <3> QED BY <3>1, <3>2
  <2>2. \A i : i \in DOMAIN s \cap DOMAIN t <=> i \in 1..m /\ i <= n
    BY <1>3, <1>6
  <2>3. (\E i \in DOMAIN s \cap DOMAIN t : s[i] < t[i] /\ SubSeq(s, 1, i - 1) = SubSeq(t, 1, i - 1))
         <=> \E i \in 1..m : i <= n /\ s[i] < t[i] /\ \A k \in 1..i - 1 : s[k] = t[k]
    BY <1>9, <2>2
  <2> QED BY <2>1, <2>3 DEF SeqLess
<1>17. ASSUME Ahead(v, w) PROVE SeqLess(s, t)
  <2>1. PICK i \in Nat \ {0} : v[i] > w[i] /\ \A k \in 1..i - 1 : v[k] = w[k]
    BY <1>2, <1>17 DEF Ahead
  <2>2. i <= n
    <3> SUFFICES ASSUME i > n PROVE FALSE
      BY <1>3
    <3>1. w[i] = 30
      BY <1>13
    <3>2. CASE i <= m
      <4>1. i \in 1..m
        BY <3>2, <1>3
      <4>2. v[i] < 30 /\ v[i] \in Int
        BY <4>1, <1>11, <1>14
      <4> QED BY <4>2, <3>1, <2>1
    <3>3. CASE i > m
      BY <3>1, <3>3, <2>1, <1>13
    <3> QED BY <3>2, <3>3, <1>3
  <2>3. ASSUME NEW k \in 1..i - 1 PROVE k \in 1..m /\ s[k] = t[k]
    <3>1. v[k] = w[k] /\ k \in 1..n /\ k \in Nat \ {0}
      BY <2>1, <2>2, <1>3
    <3>2. w[k] = 30 - t[k] /\ t[k] \in 20..29
      BY <3>1, <1>12
    <3>3. k <= m
      <4> SUFFICES ASSUME k > m PROVE FALSE
        BY <1>3
      <4>1. v[k] = 30
        BY <3>1, <1>13
      <4> QED BY <4>1, <3>1, <3>2, <1>14
    <3>4. k \in 1..m
      BY <3>1, <3>3, <1>3
    <3>5. v[k] = 30 - s[k] /\ s[k] \in 20..29
      BY <3>4, <1>11
    <3> QED BY <3>1, <3>2, <3>4, <3>5, <1>14
  <2>4. CASE i <= m
    <3>1. i \in 1..m /\ i \in 1..n
      BY <2>2, <2>4, <1>3
    <3>2. s[i] < t[i]
      BY <2>1, <3>1, <1>11, <1>12, <1>14
    <3>3. \A k \in 1..i - 1 : s[k] = t[k]
      BY <2>3
    <3> QED BY <3>1, <3>2, <3>3, <2>2, <1>16
  <2>5. CASE i > m
    <3>1. i = m + 1
      <4> SUFFICES ASSUME i # m + 1 PROVE FALSE
        OBVIOUS
      <4>1. m + 1 \in 1..i - 1 /\ m + 1 \notin 1..m
        BY <2>5, <1>3
      <4> QED BY <4>1, <2>3
    <3>2. m < n /\ i - 1 = m
      BY <3>1, <2>2, <1>3
    <3>3. \A k \in 1..m : s[k] = t[k]
      BY <3>2, <2>3
    <3> QED BY <3>2, <3>3, <1>16
  <2> QED BY <2>4, <2>5, <1>3
<1>18. ASSUME SeqLess(s, t) PROVE Ahead(v, w)
  <2>1. CASE m < n /\ \A k \in 1..m : s[k] = t[k]
    <3> DEFINE i == m + 1
    <3>1. i \in Nat \ {0} /\ i \in 1..n /\ i - 1 = m /\ i > m
      BY <2>1, <1>3
    <3> HIDE DEF i
    <3>2. v[i] = 30 /\ w[i] < 30
      BY <3>1, <1>12, <1>13, <1>14
    <3>3. \A k \in 1..i - 1 : v[k] = w[k]
      <4> SUFFICES ASSUME NEW k \in 1..m PROVE v[k] = w[k]
        BY <3>1
      <4>1. k \in 1..n /\ s[k] = t[k]
        BY <2>1, <1>3
      <4> QED BY <4>1, <1>11, <1>12
    <3>4. v[i] > w[i]
      BY <3>2
    <3> QED BY <3>1, <3>3, <3>4, <1>2 DEF Ahead
  <2>2. CASE \E i \in 1..m : i <= n /\ s[i] < t[i] /\ \A k \in 1..i - 1 : s[k] = t[k]
    <3>1. PICK i \in 1..m : i <= n /\ s[i] < t[i] /\ \A k \in 1..i - 1 : s[k] = t[k]
      BY <2>2
    <3>2. i \in 1..n /\ i \in Nat \ {0}
      BY <3>1, <1>3
    <3>3. v[i] > w[i]
      BY <3>1, <3>2, <1>11, <1>12, <1>14
    <3>4. \A k \in 1..i - 1 : v[k] = w[k]
      <4> SUFFICES ASSUME NEW k \in 1..i - 1 PROVE v[k] = w[k]
        OBVIOUS
      <4>1. k \in 1..n /\ k \in 1..m /\ s[k] = t[k]
        BY <3>1, <3>2, <1>3
      <4> QED BY <4>1, <1>11, <1>12
    <3> QED BY <3>2, <3>3, <3>4, <1>2 DEF Ahead
  <2> QED BY <2>1, <2>2, <1>16, <1>18
<1>19. TextLess(s, t) <=> Ahead(v, w)
  BY <1>10, <1>17, <1>18
<1> QED BY <1>15, <1>19 DEF v, w

(* A text in small letters. *)
Lowered(t) == [i \in DOMAIN t |-> IF t[i] \in 11..19 THEN t[i] - 10 ELSE t[i]]
(* a and b are the first and the last place of t that is not blank. *)
Hemmed(t, a, b) ==
  /\ a \in 1..Len(t) /\ b \in 1..Len(t) /\ a <= b /\ t[a] # 0 /\ t[b] # 0
  /\ \A i \in 1..Len(t) : t[i] # 0 => a <= i /\ i <= b

(* Trimming leaves what is between them. *)
LEMMA TrimIs ==
  ASSUME NEW t \in Seq(Int)
  PROVE  /\ (\A i \in 1..Len(t) : t[i] = 0) => Trim(t) = <<>>
         /\ (\E i \in 1..Len(t) : t[i] # 0) => \E a, b : Hemmed(t, a, b)
         /\ \A a, b : Hemmed(t, a, b) => Trim(t) = SubSeq(t, a, b)
<1> DEFINE kept == {i \in DOMAIN t : t[i] # 0}
<1>1. Trim(t) = IF kept = {} THEN <<>> ELSE SubSeq(t, Min(kept), Max(kept))
  BY DEF Trim
<1>2. DOMAIN t = 1..Len(t) /\ Len(t) \in Nat
  OBVIOUS
<1>3. kept \subseteq 1..Len(t) /\ \A i \in 1..Len(t) : i \in kept <=> t[i] # 0
  BY <1>2
<1>4. IsFiniteSet(kept)
  <2>1. 1 \in Int /\ Len(t) \in Int
    BY <1>2
  <2>2. IsFiniteSet(1..Len(t)) /\ kept \in SUBSET (1..Len(t))
    BY <2>1, <1>3, FS_Interval
  <2> HIDE DEF kept
  <2> QED BY <2>2, FS_Subset
<1> HIDE DEF kept
<1>5. ASSUME kept # {} PROVE Hemmed(t, Min(kept), Max(kept))
  <2>1. kept \subseteq Nat /\ kept \subseteq Int
    BY <1>2, <1>3
  <2>2. Min(kept) \in kept /\ \A y \in kept : Min(kept) <= y
    BY <1>5, <2>1, MinIs
  <2>3. Max(kept) \in kept /\ \A y \in kept : Max(kept) >= y
    BY <1>4, <1>5, <2>1, MaxIs
  <2> DEFINE a == Min(kept)
             b == Max(kept)
  <2> HIDE DEF a, b
  <2>4. a \in kept /\ b \in kept /\ \A y \in kept : a <= y /\ b >= y
    BY <2>2, <2>3 DEF a, b
  <2>5. Hemmed(t, a, b)
    BY <2>4, <1>2, <1>3 DEF Hemmed
  <2> QED BY <2>5 DEF a, b
<1>6. ASSUME NEW a, NEW b, Hemmed(t, a, b) PROVE kept # {} /\ a = Min(kept) /\ b = Max(kept)
  <2>1. a \in kept
    BY <1>3, <1>6 DEF Hemmed
  <2> DEFINE c == Min(kept)
             d == Max(kept)
  <2>2. Hemmed(t, c, d)
    BY <2>1, <1>5
  <2> HIDE DEF c, d
  <2>3. a = c /\ b = d
    BY <2>2, <1>2, <1>6 DEF Hemmed
  <2> QED BY <2>1, <2>3 DEF c, d
<1>7. (\A i \in 1..Len(t) : t[i] = 0) => Trim(t) = <<>>
  BY <1>1, <1>3
<1>8. (\E i \in 1..Len(t) : t[i] # 0) => \E a, b : Hemmed(t, a, b)
  BY <1>3, <1>5
<1>9. \A a, b : Hemmed(t, a, b) => Trim(t) = SubSeq(t, a, b)
  BY <1>1, <1>6
<1> QED BY <1>7, <1>8, <1>9

(* Trimming leaves nothing or what is between them, place by place. *)
LEMMA TrimmedIs ==
  ASSUME NEW t \in Seq(Int)
  PROVE  \/ Trim(t) = <<>>
         \/ \E a, b : /\ Hemmed(t, a, b) /\ Trim(t) = SubSeq(t, a, b)
                      /\ Trim(t) \in Seq(Int) /\ Len(Trim(t)) = b - a + 1
                      /\ \A i \in 1..b - a + 1 : Trim(t)[i] = t[a + i - 1]
<1>1. CASE \A i \in 1..Len(t) : t[i] = 0
  BY <1>1, TrimIs
<1>2. CASE \E i \in 1..Len(t) : t[i] # 0
  <2>1. PICK a, b : Hemmed(t, a, b)
    BY <1>2, TrimIs
  <2>2. Trim(t) = SubSeq(t, a, b)
    BY <2>1, TrimIs
  <2>3. a \in 1..Len(t) + 1 /\ b \in 0..Len(t) /\ a <= b + 1
    BY <2>1 DEF Hemmed
  <2>4. SubSeq(t, a, b) \in Seq(Int) /\ Len(SubSeq(t, a, b)) = b - a + 1 /\ \A i \in 1..b - a + 1 : SubSeq(t, a, b)[i] = t[a + i - 1]
    BY <2>3, SubText
  <2> QED BY <2>1, <2>2, <2>4
<1> QED BY <1>1, <1>2

(* It leaves a text. *)
LEMMA TrimText ==
  ASSUME NEW t \in Seq(Int)
  PROVE  Trim(t) \in Seq(Int)
<1>1. <<>> \in Seq(Int)
  OBVIOUS
<1> QED BY <1>1, TrimmedIs

(* Lowering changes no blank. *)
LEMMA LoweredIs ==
  ASSUME NEW t \in Seq(Int)
  PROVE  /\ Lowered(t) \in Seq(Int) /\ Len(Lowered(t)) = Len(t)
         /\ \A i \in 1..Len(t) : Lowered(t)[i] = (IF t[i] \in 11..19 THEN t[i] - 10 ELSE t[i]) /\ (Lowered(t)[i] = 0 <=> t[i] = 0)
<1>1. \A c \in Int : LET d == IF c \in 11..19 THEN c - 10 ELSE c IN d \in Int /\ (d = 0 <=> c = 0)
  OBVIOUS
<1>2. DOMAIN t = 1..Len(t) /\ Len(t) \in Nat /\ \A i \in 1..Len(t) : t[i] \in Int
  OBVIOUS
<1> DEFINE f == Lowered(t)
<1>3. DOMAIN f = 1..Len(t) /\ \A i \in 1..Len(t) : f[i] = IF t[i] \in 11..19 THEN t[i] - 10 ELSE t[i]
  BY <1>2 DEF Lowered
<1>4. \A i \in 1..Len(t) : f[i] \in Int /\ (f[i] = 0 <=> t[i] = 0)
  BY <1>1, <1>2, <1>3
<1>5. f = [i \in 1..Len(t) |-> f[i]]
  BY <1>2 DEF Lowered
<1> HIDE DEF f
<1>6. f \in Seq(Int) /\ Len(f) = Len(t)
  BY <1>2, <1>4, <1>5
<1> QED BY <1>3, <1>4, <1>6 DEF f

(* Folding does not look at the margins. *)
LEMMA FoldedTrim ==
  ASSUME NEW t \in Seq(Int)
  PROVE  Normalize(Trim(t)) = Normalize(t)
<1> DEFINE u == Trim(t)
           v == Lowered(t)
           w == Lowered(u)
<1>1. Normalize(u) = Trim(w) /\ Normalize(t) = Trim(v)
  BY DEF Normalize, Lowered
<1>2. v \in Seq(Int) /\ Len(v) = Len(t) /\ Len(t) \in Nat
      /\ \A i \in 1..Len(t) : v[i] = (IF t[i] \in 11..19 THEN t[i] - 10 ELSE t[i]) /\ (v[i] = 0 <=> t[i] = 0)
  BY LoweredIs
<1>3. u \in Seq(Int)
  BY TrimText
<1> HIDE DEF v
<1>4. CASE \A i \in 1..Len(t) : t[i] = 0
  <2>1. u = <<>>
    BY <1>4, TrimIs
  <2>2. w = <<>>
    BY <2>1 DEF Lowered
  <2>3. <<>> \in Seq(Int) /\ Len(<<>>) = 0
    OBVIOUS
  <2>4. Trim(<<>>) = <<>>
    <3>1. \A i \in 1..Len(<<>>) : <<>>[i] = 0
      BY <2>3
    <3> QED BY <3>1, <2>3, TrimIs
  <2>5. Trim(v) = <<>>
    <3>1. \A i \in 1..Len(v) : v[i] = 0
      BY <1>2, <1>4
    <3> QED BY <3>1, <1>2, TrimIs
  <2> QED BY <1>1, <2>2, <2>4, <2>5
<1>5. CASE \E i \in 1..Len(t) : t[i] # 0
  <2>1. PICK a, b : Hemmed(t, a, b)
    BY <1>5, TrimIs
  <2>2. a \in 1..Len(t) /\ b \in 1..Len(t) /\ a <= b
    BY <2>1 DEF Hemmed
  <2>3. u = SubSeq(t, a, b)
    BY <2>1, TrimIs
  <2>4. a \in 1..Len(t) + 1 /\ b \in 0..Len(t) /\ a <= b + 1
    BY <2>2, <1>2
  <2>5. Len(u) = b - a + 1 /\ \A i \in 1..b - a + 1 : u[i] = t[a + i - 1]
    BY <2>3, <2>4, SubText
  <2>6. Hemmed(v, a, b)
    BY <2>1, <1>2 DEF Hemmed
  <2>7. Trim(v) = SubSeq(v, a, b)
    BY <2>6, <1>2, TrimIs
  <2> DEFINE x == SubSeq(v, a, b)
             n == b - a + 1
  <2>8. x \in Seq(Int) /\ Len(x) = n /\ \A i \in 1..n : x[i] = v[a + i - 1]
    BY <2>4, <1>2, SubText
  <2>9. n \in Nat \ {0} /\ \A i \in 1..n : a + i - 1 \in 1..Len(t)
    BY <2>2, <1>2
  <2> HIDE DEF u, x, n
  <2>10. w \in Seq(Int) /\ Len(w) = n /\ \A i \in 1..n : w[i] = (IF u[i] \in 11..19 THEN u[i] - 10 ELSE u[i])
    <3>1. Len(u) = n
      BY <2>5 DEF n
    <3> QED BY <3>1, <1>3, LoweredIs
  <2> HIDE DEF w
  <2>11. \A i \in 1..n : u[i] = t[a + i - 1]
    BY <2>5 DEF n
  <2>12. \A i \in 1..n : w[i] = x[i]
    BY <2>8, <2>9, <2>10, <2>11, <1>2
  <2>13. w = x
    BY <2>8, <2>10, <2>12, SameText
  <2>14. x[1] # 0 /\ x[n] # 0
    <3>1. v[a] # 0 /\ v[b] # 0
      BY <2>6 DEF Hemmed
    <3>2. 1 \in 1..n /\ n \in 1..n /\ a + 1 - 1 = a
      BY <2>9, <2>2
    <3>3. a + n - 1 = b
      BY <2>2 DEF n
    <3>4. x[1] = v[a + 1 - 1] /\ x[n] = v[a + n - 1]
      BY <2>8, <3>2
    <3> QED BY <3>1, <3>2, <3>3, <3>4
  <2>15. Hemmed(x, 1, n)
    BY <2>8, <2>9, <2>14 DEF Hemmed
  <2>16. Trim(x) = SubSeq(x, 1, n)
    BY <2>8, <2>15, TrimIs
  <2>17. SubSeq(x, 1, n) = x
    BY <2>8, AllOfIt
  <2>18. Normalize(u) = Normalize(t)
    BY <1>1, <2>7, <2>13, <2>16, <2>17 DEF x
  <2> QED BY <2>18 DEF u
<1> QED BY <1>4, <1>5

(* Every text contains itself. *)
LEMMA ContainsItself ==
  ASSUME NEW t \in Seq(Int)
  PROVE  ContainsText(t, t)
<1>1. Len(t) \in Nat
  OBVIOUS
<1>2. 0 \in 0..Len(t) - Len(t)
  BY <1>1
<1>3. 0 + 1 = 1 /\ 0 + Len(t) = Len(t)
  BY <1>1
<1>4. SubSeq(t, 0 + 1, 0 + Len(t)) = t
  BY <1>3, AllOfIt
<1> QED BY <1>2, <1>4 DEF ContainsText

-----------------------------------------------------------------------------
(* Whom a text means. *)

(* What a name scores, and that it then contains the text. *)
LEMMA NameScores ==
  ASSUME NEW n, NEW text
  PROVE  /\ NameScore(n, text) \in {0, 50, 100}
         /\ NameScore(n, text) # 0 => /\ Trim(n) # <<>>
                                      /\ \/ Normalize(n) = Normalize(text)
                                         \/ ContainsText(Normalize(n), Normalize(text))
BY DEF NameScore

(* The names of a user. *)
Called(u) == u.names \cup (UNION u.groups) \cup (UNION u.preferred)

(* Whoever has a score and another number has a name that scores. *)
LEMMA ScoreIs ==
  ASSUME NEW u, NEW text
  PROVE  /\ ScoreIdentity(u, text) \in Nat
         /\ ScoreIdentity(u, text) > 0 /\ u.qq # text => \E n \in Called(u) : NameScore(n, text) # 0
<1> DEFINE plain == {NameScore(n, text) : n \in u.names \cup UNION u.groups}
           kept == {NameScore(n, text) : n \in UNION u.preferred} \ {0}
           preferred == {s + 10 : s \in kept}
           all == {0} \cup plain \cup preferred
           score == ScoreIdentity(u, text)
<1>1. score = IF u.qq = text THEN 200 ELSE Max(all)
  BY Zenon DEF ScoreIdentity, Using
<1>2. plain \subseteq {0, 50, 100} /\ kept \subseteq {50, 100}
  BY NameScores
<1>3. \A s \in plain : s # 0 => \E n \in Called(u) : NameScore(n, text) # 0
  BY DEF Called
<1>4. ASSUME kept # {} PROVE \E n \in Called(u) : NameScore(n, text) # 0
  <2>1. PICK s \in kept : TRUE
    BY <1>4
  <2>2. PICK n \in UNION u.preferred : s = NameScore(n, text)
    BY <2>1
  <2>3. n \in Called(u)
    BY DEF Called
  <2>4. s # 0
    BY <2>1, <1>2
  <2> QED BY <2>2, <2>3, <2>4
<1> HIDE DEF plain, kept
<1>5. all \subseteq 0..200 /\ all \subseteq Int /\ all # {}
  <2>1. plain \subseteq 0..200
    BY <1>2
  <2>2. preferred \subseteq 0..200
    <3>1. \A s \in kept : s = 50 \/ s = 100
      BY <1>2
    <3>2. \A s \in kept : s + 10 \in 0..200
      BY <3>1
    <3> QED BY <3>2
  <2>3. all \subseteq 0..200 /\ all # {}
    <3> HIDE DEF preferred
    <3> QED BY <2>1, <2>2
  <2> HIDE DEF all
  <2> QED BY <2>3
<1>6. IsFiniteSet(all)
  <2>1. 0 \in Int /\ 200 \in Int
    OBVIOUS
  <2>2. IsFiniteSet(0..200) /\ all \in SUBSET (0..200)
    BY <2>1, <1>5, FS_Interval
  <2> HIDE DEF all
  <2> QED BY <2>2, FS_Subset
<1>7. Max(all) \in all
  <2> HIDE DEF all
  <2> QED BY <1>5, <1>6, MaxIs
<1>8. all # {0} /\ Max(all) # 0 => Max(all) \in plain \/ kept # {}
  BY <1>7
<1>9. Max(all) # 0 => \E n \in Called(u) : NameScore(n, text) # 0
  BY <1>7, <1>3, <1>4
<1> HIDE DEF all, score
<1>10. score \in Nat
  BY <1>1, <1>5, <1>7
<1>11. score > 0 /\ u.qq # text => \E n \in Called(u) : NameScore(n, text) # 0
  BY <1>1, <1>9
<1> QED BY <1>10, <1>11 DEF score

(* Folding leaves a text. *)
LEMMA FoldedText ==
  ASSUME NEW t \in Seq(Int)
  PROVE  Normalize(t) \in Seq(Int)
<1>1. Normalize(t) = Trim(Lowered(t))
  BY DEF Normalize, Lowered
<1> QED BY <1>1, LoweredIs, TrimText

(* Whoever has a score for a text is meant by it. *)
LEMMA SoughtMeant ==
  ASSUME NEW u \in Users, NEW target \in AnyText, u.qq # Trim(target), ScoreIdentity(u, Trim(target)) > 0
  PROVE  \E n \in Called(u) : Trim(n) # <<>> /\ ContainsText(Normalize(n), Normalize(target))
<1>1. PICK n \in Called(u) : NameScore(n, Trim(target)) # 0
  BY ScoreIs
<1>2. Trim(n) # <<>> /\ (Normalize(n) = Normalize(Trim(target)) \/ ContainsText(Normalize(n), Normalize(Trim(target))))
  BY <1>1, NameScores
<1>3. Normalize(Trim(target)) = Normalize(target)
  BY FoldedTrim DEF AnyText
<1>4. Normalize(target) \in Seq(Int)
  BY FoldedText DEF AnyText
<1>5. ContainsText(Normalize(target), Normalize(target))
  BY <1>4, ContainsItself
<1> QED BY <1>2, <1>3, <1>5

(* A key with a number before it. *)
Led(a, v) == [i \in Nat \ {0} |-> IF i = 1 THEN a ELSE v[i - 1]]

(* The number decides first. *)
LEMMA LedOrder ==
  ASSUME NEW a \in Int, NEW b \in Int, NEW v \in [Nat \ {0} -> Int], NEW w \in [Nat \ {0} -> Int]
  PROVE  /\ Led(a, v) \in [Nat \ {0} -> Int]
         /\ Ahead(Led(a, v), Led(b, w)) <=> a > b \/ (a = b /\ Ahead(v, w))
         /\ Led(a, v) = Led(b, w) => a = b /\ v = w
<1> DEFINE x == Led(a, v)
           y == Led(b, w)
           D == Nat \ {0}
<1>1. x \in [D -> Int] /\ y \in [D -> Int]
  <2>1. \A i \in D : i # 1 => i - 1 \in D
    OBVIOUS
  <2> QED BY <2>1 DEF Led
<1>2. x[1] = a /\ y[1] = b
  BY DEF Led
<1>3. \A i \in D : i + 1 \in D /\ x[i + 1] = v[i] /\ y[i + 1] = w[i]
  <2> SUFFICES ASSUME NEW i \in D PROVE i + 1 \in D /\ x[i + 1] = v[i] /\ y[i + 1] = w[i]
    OBVIOUS
  <2>1. i + 1 \in D /\ i + 1 # 1 /\ i + 1 - 1 = i
    OBVIOUS
  <2> DEFINE j == i + 1
  <2> HIDE DEF j
  <2>2. j \in D /\ j # 1 /\ j - 1 = i
    BY <2>1 DEF j
  <2>3. x[j] = v[j - 1] /\ y[j] = w[j - 1]
    BY <2>2 DEF Led
  <2> QED BY <2>2, <2>3 DEF j
<1>4. DOMAIN v = D /\ DOMAIN w = D /\ DOMAIN x = D /\ DOMAIN y = D
  BY <1>1
<1> HIDE DEF x, y
<1>5. x = y => a = b /\ v = w
  <2> SUFFICES ASSUME x = y PROVE a = b /\ v = w
    OBVIOUS
  <2>1. a = b
    BY <1>2
  <2>2. \A i \in D : v[i] = w[i]
    BY <1>3
  <2>3. v = w
    BY <2>2, <1>4
  <2> QED BY <2>1, <2>3
<1>6. ASSUME Ahead(x, y) PROVE a > b \/ (a = b /\ Ahead(v, w))
  <2>1. PICK i \in D : x[i] > y[i] /\ \A k \in 1..i - 1 : x[k] = y[k]
    BY <1>4, <1>6 DEF Ahead
  <2>2. CASE i = 1
    BY <2>1, <2>2, <1>2
  <2>3. CASE i # 1
    <3> DEFINE j == i - 1
    <3>1. j \in D /\ i = j + 1 /\ 1 \in 1..i - 1
      BY <2>3
    <3> HIDE DEF j
    <3>2. a = b
      BY <2>1, <3>1, <1>2
    <3>3. v[j] > w[j]
      BY <2>1, <3>1, <1>3
    <3>4. \A k \in 1..j - 1 : v[k] = w[k]
      <4> SUFFICES ASSUME NEW k \in 1..j - 1 PROVE v[k] = w[k]
        OBVIOUS
      <4>1. k \in D /\ k + 1 \in 1..i - 1
        BY <3>1
      <4>2. x[k + 1] = y[k + 1]
        BY <2>1, <4>1
      <4> QED BY <4>1, <4>2, <1>3
    <3> QED BY <3>1, <3>2, <3>3, <3>4, <1>4 DEF Ahead
  <2> QED BY <2>2, <2>3
<1>7. ASSUME a > b PROVE Ahead(x, y)
  <2>1. 1 \in D /\ x[1] > y[1] /\ \A k \in 1..1 - 1 : x[k] = y[k]
    BY <1>2, <1>7
  <2> QED BY <2>1, <1>4 DEF Ahead
<1>8. ASSUME a = b, Ahead(v, w) PROVE Ahead(x, y)
  <2>1. PICK j \in D : v[j] > w[j] /\ \A k \in 1..j - 1 : v[k] = w[k]
    BY <1>4, <1>8 DEF Ahead
  <2> DEFINE i == j + 1
  <2>2. i \in D /\ i - 1 = j
    OBVIOUS
  <2>3. x[i] > y[i]
    BY <2>1, <1>3
  <2>4. \A k \in 1..i - 1 : x[k] = y[k]
    <3> SUFFICES ASSUME NEW k \in 1..j PROVE x[k] = y[k]
      BY <2>2
    <3>1. CASE k = 1
      BY <3>1, <1>2, <1>8
    <3>2. CASE k # 1
      <4> DEFINE l == k - 1
      <4>1. l \in D /\ l \in 1..j - 1 /\ k = l + 1
        BY <3>2
      <4> HIDE DEF l
      <4>2. x[l + 1] = v[l] /\ y[l + 1] = w[l] /\ v[l] = w[l]
        BY <4>1, <2>1, <1>3
      <4> QED BY <4>1, <4>2
    <3> QED BY <3>1, <3>2
  <2> HIDE DEF i
  <2> QED BY <2>2, <2>3, <2>4, <1>4 DEF Ahead
<1>9. Ahead(x, y) <=> a > b \/ (a = b /\ Ahead(v, w))
  BY <1>6, <1>7, <1>8
<1> QED BY <1>1, <1>5, <1>9 DEF x, y

(* Users with numbers of their own. *)
SoughtUsers(users) ==
  /\ IsFiniteSet(users) /\ users \subseteq Users
  /\ \A u \in users : ToSet(u.qq) \subseteq 20..29
  /\ \A u, v \in users : u.qq = v.qq => u = v
(* Those who have a score for a text. *)
Scored(users, text) == {m \in {[user |-> u, score |-> ScoreIdentity(u, text)] : u \in users} : m.score > 0}
(* Their keys: the score, and then the number. *)
FoundKeys(S) == [x \in S |-> Led(x.score, TextKey(x.user.qq))]
(* Their order. *)
FoundOrder(S) == ByKey(S, FoundKeys(S), "descending")

(* They, each once. *)
LEMMA ScoredAre ==
  ASSUME NEW users, SoughtUsers(users), NEW text
  PROVE  /\ IsFiniteSet(Scored(users, text))
         /\ \A x \in Scored(users, text) :
              /\ x.user \in users /\ x.score = ScoreIdentity(x.user, text) /\ x.score \in Nat \ {0}
              /\ x.user.qq \in Seq(Int) /\ Digital(x.user.qq)
         /\ \A x, y \in Scored(users, text) : x.user = y.user => x = y
         /\ \A u \in users : ScoreIdentity(u, text) > 0 => \E x \in Scored(users, text) : x.user = u
<1> DEFINE f == [u \in users |-> [user |-> u, score |-> ScoreIdentity(u, text)]]
           T == {f[u] : u \in users}
           S == Scored(users, text)
<1>1. T = {[user |-> u, score |-> ScoreIdentity(u, text)] : u \in users}
  OBVIOUS
<1>2. \A u \in users : f[u].user = u /\ f[u].score = ScoreIdentity(u, text)
  OBVIOUS
<1>3. IsFiniteSet(users)
  BY DEF SoughtUsers
<1>4. S = {m \in T : m.score > 0}
  BY <1>1 DEF Scored
<1> HIDE DEF f, S
<1>5. IsFiniteSet(T)
  BY <1>3, ImageFinite
<1>6. IsFiniteSet(S)
  BY <1>4, <1>5, FS_Subset
<1>7. ASSUME NEW x \in S
      PROVE  \E u \in users : x = f[u] /\ x.score > 0
  BY <1>4
<1>8. ASSUME NEW x \in S
      PROVE  x.user \in users /\ x.score = ScoreIdentity(x.user, text) /\ x.score \in Nat \ {0} /\ x = f[x.user]
  <2>1. PICK u \in users : x = f[u] /\ x.score > 0
    BY <1>7
  <2>2. x.user = u /\ x.score = ScoreIdentity(u, text)
    BY <2>1, <1>2
  <2> QED BY <2>1, <2>2, ScoreIs
<1>9. ASSUME NEW u \in users PROVE u.qq \in Seq(Int) /\ Digital(u.qq)
  <2>1. u.qq \in Seq(Int) /\ ToSet(u.qq) \subseteq 20..29
    BY DEF SoughtUsers, Users, AnyText
  <2>2. \A i \in 1..Len(u.qq) : u.qq[i] \in ToSet(u.qq)
    BY <2>1 DEF ToSet
  <2>3. \A i \in 1..Len(u.qq) : u.qq[i] \in 20..29
    BY <2>1, <2>2
  <2>4. \A c \in 20..29 : 20 <= c /\ c <= 29
    OBVIOUS
  <2> DEFINE t == u.qq
  <2>5. t \in Seq(Int) /\ \A i \in 1..Len(t) : 20 <= t[i] /\ t[i] <= 29
    BY <2>1, <2>3, <2>4
  <2> HIDE DEF t
  <2>6. Digital(t)
    BY <2>5 DEF Digital
  <2> QED BY <2>1, <2>6 DEF t
<1>10. ASSUME NEW u \in users, ScoreIdentity(u, text) > 0 PROVE \E x \in S : x.user = u
  <2>1. f[u] \in T /\ f[u].user = u /\ f[u].score > 0
    BY <1>2, <1>10
  <2> QED BY <2>1, <1>4
<1>11. \A x, y \in S : x.user = y.user => x = y
  BY <1>8
<1>12. \A x \in S : /\ x.user \in users /\ x.score = ScoreIdentity(x.user, text) /\ x.score \in Nat \ {0}
                    /\ x.user.qq \in Seq(Int) /\ Digital(x.user.qq)
  BY <1>8, <1>9
<1> QED BY <1>6, <1>10, <1>11, <1>12 DEF S

(* The order is total, and what the code compares. *)
LEMMA FoundOrdered ==
  ASSUME NEW users, SoughtUsers(users), NEW text
  PROVE  LET S == Scored(users, text)
         IN /\ StrictTotal(S, FoundOrder(S))
            /\ \A x, y \in S : <<x, y>> \in FoundOrder(S) <=>
                 x.score > y.score \/ (x.score = y.score /\ TextLess(x.user.qq, y.user.qq))
<1> DEFINE S == Scored(users, text)
           k == FoundKeys(S)
           D == Nat \ {0}
<1>1. /\ \A x \in S : x.user \in users /\ x.score \in Int /\ x.user.qq \in Seq(Int) /\ Digital(x.user.qq)
      /\ \A x, y \in S : x.user = y.user => x = y
  BY ScoredAre
<1>2. \A u, v \in users : u.qq = v.qq => u = v
  BY DEF SoughtUsers
<1> HIDE DEF S
<1>3. \A x \in S : k[x] = Led(x.score, TextKey(x.user.qq))
  BY DEF FoundKeys
<1>4. \A x \in S : TextKey(x.user.qq) \in [D -> Int]
  BY <1>1, TextKeys
<1> HIDE DEF k
<1>5. \A x \in S : k[x] \in [D -> Int]
  BY <1>1, <1>3, <1>4, LedOrder
<1>6. ASSUME NEW x \in S, NEW y \in S
      PROVE  /\ Ahead(k[x], k[y]) <=> x.score > y.score \/ (x.score = y.score /\ TextLess(x.user.qq, y.user.qq))
             /\ k[x] = k[y] => x = y
  <2> DEFINE s == x.user.qq
             t == y.user.qq
  <2>1. Digital(s) /\ Digital(t) /\ TextKey(s) \in [D -> Int] /\ TextKey(t) \in [D -> Int] /\ x.score \in Int /\ y.score \in Int
    BY <1>1, <1>4
  <2>2. k[x] = Led(x.score, TextKey(s)) /\ k[y] = Led(y.score, TextKey(t))
    BY <1>3
  <2> HIDE DEF s, t
  <2>3. (TextLess(s, t) <=> Ahead(TextKey(s), TextKey(t))) /\ (TextKey(s) = TextKey(t) => s = t)
    BY <2>1, TextOrder
  <2>4. /\ Ahead(k[x], k[y]) <=> x.score > y.score \/ (x.score = y.score /\ Ahead(TextKey(s), TextKey(t)))
        /\ k[x] = k[y] => x.score = y.score /\ TextKey(s) = TextKey(t)
    BY <2>1, <2>2, LedOrder
  <2>5. s = t => x = y
    BY <1>1, <1>2 DEF s, t
  <2>6. Ahead(k[x], k[y]) <=> x.score > y.score \/ (x.score = y.score /\ TextLess(s, t))
    BY <2>3, <2>4
  <2> QED BY <2>3, <2>4, <2>5, <2>6 DEF s, t
<1>7. D \in IndexSets
  BY DEF IndexSets
<1>8. Keyed(S, k)
  <2>1. \A x, y \in S : k[x] = k[y] => x = y
    BY <1>6
  <2> HIDE DEF D
  <2> QED BY <1>5, <1>7, <2>1 DEF Keyed
<1>9. StrictTotal(S, ByKey(S, k, "descending"))
  BY <1>8, KeyOrders
<1>10. \A x, y \in S : <<x, y>> \in ByKey(S, k, "descending") <=> Ahead(k[x], k[y])
  BY <1>8, KeyOrders
<1>11. StrictTotal(S, FoundOrder(S))
  BY <1>9 DEF FoundOrder, k
<1>12. \A x, y \in S : <<x, y>> \in FoundOrder(S) <=> Ahead(k[x], k[y])
  BY <1>10 DEF FoundOrder, k
<1>13. \A x, y \in S : <<x, y>> \in FoundOrder(S) <=>
                 x.score > y.score \/ (x.score = y.score /\ TextLess(x.user.qq, y.user.qq))
  BY <1>6, <1>12
<1> QED BY <1>11, <1>13 DEF S

(* resolve lists them in this order. *)
LEMMA FoundArranged ==
  ASSUME NEW users, SoughtUsers(users), NEW text
  PROVE  LET S == Scored(users, text)
         IN \E all : /\ all = Sorted(S, LAMBDA l, r : l.score > r.score \/ (l.score = r.score /\ TextLess(l.user.qq, r.user.qq)))
                     /\ Enumerates(all, S, FoundOrder(S))
<1> DEFINE S == Scored(users, text)
           before(x, y) == x.score > y.score \/ (x.score = y.score /\ TextLess(x.user.qq, y.user.qq))
           at(i) == CHOOSE x \in S : Cardinality({y \in S : before(y, x)}) = i - 1
           n == Cardinality(S)
           R == FoundOrder(S)
           rows == [i \in 1..n |-> at(i)]
<1>1. Sorted(S, LAMBDA l, r : l.score > r.score \/ (l.score = r.score /\ TextLess(l.user.qq, r.user.qq))) = rows
  BY Zenon DEF Sorted
<1>2. IsFiniteSet(S) /\ StrictTotal(S, R) /\ \A x, y \in S : <<x, y>> \in R <=> before(x, y)
  BY ScoredAre, FoundOrdered
<1> HIDE DEF R, S
<1>3. n \in Nat /\ \A k \in 0..n - 1 : \E x \in S : Standing(S, R, x) = k
  BY <1>2, Standings
<1>4. \A x \in S : Standing(S, R, x) = Cardinality({y \in S : before(y, x)})
  <2> SUFFICES ASSUME NEW x \in S PROVE Standing(S, R, x) = Cardinality({y \in S : before(y, x)})
    OBVIOUS
  <2>1. Leading(S, R, x) = {y \in S : before(y, x)}
    BY <1>2 DEF Leading
  <2> QED BY <2>1 DEF Standing
<1> HIDE DEF before
<1>5. ASSUME NEW i \in 1..n PROVE at(i) \in S /\ Standing(S, R, at(i)) = i - 1
  <2>1. i - 1 \in 0..n - 1
    BY <1>3
  <2>2. \E x \in S : Cardinality({y \in S : before(y, x)}) = i - 1
    BY <2>1, <1>3, <1>4
  <2>3. at(i) \in S /\ Cardinality({y \in S : before(y, at(i))}) = i - 1
    BY <2>2, Zenon
  <2> QED BY <2>3, <1>4
<1> HIDE DEF at, n
<1>6. rows \in Seq(S) /\ Len(rows) = n /\ \A i \in 1..n : Standing(S, R, rows[i]) = i - 1
  BY <1>3, <1>5
<1> HIDE DEF rows
<1>7. Enumerates(rows, S, R)
  BY <1>6 DEF Enumerates, n
<1> QED BY <1>1, <1>7 DEF R, S

(* It takes the first ten. *)
LEMMA FirstFew ==
  ASSUME NEW S, NEW s \in Seq(S)
  PROVE  LET f == UpTo(s, {10})
         IN /\ Len(f) = (IF 10 < Len(s) THEN 10 ELSE Len(s)) /\ \A i \in 1..Len(f) : f[i] = s[i]
<1> DEFINE n == IF 10 < Len(s) THEN 10 ELSE Len(s)
<1>1. UpTo(s, {10}) = SubSeq(s, 1, n)
  <2>1. (CHOOSE m \in {10} : TRUE) = 10 /\ ((\E m \in {10} : m < Len(s)) <=> 10 < Len(s))
    OBVIOUS
  <2> QED BY <2>1 DEF UpTo
<1>2. n \in 0..Len(s)
  OBVIOUS
<1> HIDE DEF n
<1>3. Len(SubSeq(s, 1, n)) = n /\ \A i \in 1..n : SubSeq(s, 1, n)[i] = s[i]
  BY <1>2
<1> QED BY <1>1, <1>3 DEF n

(* Who is found without a doubt has a higher score than any other user. *)
LEMMA ResolvedIs ==
  ASSUME NEW users, SoughtUsers(users), NEW text,
         ~Resolve(users, text, 10).ambiguous, Resolve(users, text, 10).matches # <<>>
  PROVE  LET top == Resolve(users, text, 10).matches[1].user
         IN /\ top \in users /\ ScoreIdentity(top, text) > 0
            /\ \A other \in users : other # top => ScoreIdentity(other, text) < ScoreIdentity(top, text)
<1> DEFINE S == Scored(users, text)
           R == FoundOrder(S)
           r == Resolve(users, text, 10)
<1>1. PICK all : /\ all = Sorted(S, LAMBDA x, y : x.score > y.score \/ (x.score = y.score /\ TextLess(x.user.qq, y.user.qq)))
                 /\ Enumerates(all, S, R)
  BY FoundArranged
<1>21. Enumerates(all, S, R)
  BY <1>1, Zenon
<1> DEFINE found == UpTo(all, {10})
<1>2. r = [matches |-> found,
           ambiguous |-> \/ Cardinality({i \in DOMAIN found : found[i].score >= 100}) > 1
                         \/ Len(found) > 1 /\ found[1].score = found[2].score]
  BY <1>1, Zenon DEF Resolve, Using, Scored
<1>3. r.matches = found /\ (~r.ambiguous => ~(Len(found) > 1 /\ found[1].score = found[2].score))
  BY <1>2
<1>4. IsFiniteSet(S) /\ StrictTotal(S, R)
  BY ScoredAre, FoundOrdered
<1>5. \A x, y \in S : <<x, y>> \in R => x.score >= y.score
  <2>1. \A x, y \in S : <<x, y>> \in R => x.score > y.score \/ x.score = y.score
    BY FoundOrdered
  <2>2. \A x \in S : x.score \in Nat
    BY ScoredAre
  <2> HIDE DEF R, S
  <2> QED BY <2>1, <2>2
<1>6. \A x \in S : x.user \in users /\ x.score = ScoreIdentity(x.user, text) /\ x.score \in Nat \ {0}
  BY ScoredAre
<1>7. \A u \in users : ScoreIdentity(u, text) > 0 => \E x \in S : x.user = u
  BY ScoredAre
<1>8. \A u \in users : ScoreIdentity(u, text) \in Nat
  BY ScoreIs
<1>9. r.matches # <<>> /\ ~r.ambiguous
  OBVIOUS
<1> HIDE DEF S, R, r
<1>10. /\ all \in Seq(S) /\ Len(all) \in Nat /\ \A i \in 1..Len(all) : all[i] \in S /\ Standing(S, R, all[i]) = i - 1
       /\ \A x \in S : Standing(S, R, x) + 1 \in 1..Len(all) /\ all[Standing(S, R, x) + 1] = x
  <2>1. all \in Seq(S)
    BY <1>21 DEF Enumerates
  <2>2. /\ Len(all) \in Nat /\ \A i \in 1..Len(all) : all[i] \in S /\ Standing(S, R, all[i]) = i - 1
        /\ \A x \in S : Standing(S, R, x) + 1 \in 1..Len(all) /\ all[Standing(S, R, x) + 1] = x
    BY <1>4, <1>21, Enumerated
  <2> QED BY <2>1, <2>2
<1>11. Len(found) = (IF 10 < Len(all) THEN 10 ELSE Len(all)) /\ \A i \in 1..Len(found) : found[i] = all[i]
  BY <1>10, FirstFew
<1>12. Len(found) # 0
  <2>1. all # <<>>
    <3> SUFFICES ASSUME all = <<>> PROVE FALSE
      OBVIOUS
    <3>1. UpTo(<<>>, {10}) = <<>>
      <4>1. <<>> \in Seq(Int) /\ Len(<<>>) = 0
        OBVIOUS
      <4>2. UpTo(<<>>, {10}) = SubSeq(<<>>, 1, 0)
        <5>1. ~(\E m \in {10} : m < Len(<<>>))
          BY <4>1
        <5> QED BY <4>1, <5>1 DEF UpTo
      <4>3. SubSeq(<<>>, 1, Len(<<>>)) = <<>>
        BY <4>1, AllOfIt
      <4> QED BY <4>1, <4>2, <4>3
    <3> QED BY <3>1, <1>3, <1>9
  <2>2. Len(all) # 0
    BY <2>1, <1>10
  <2> HIDE DEF found
  <2> QED BY <2>2, <1>10, <1>11
<1> HIDE DEF found
<1>13. Len(all) >= 1 /\ found[1] = all[1] /\ 1 \in 1..Len(all)
  BY <1>10, <1>11, <1>12
<1> DEFINE top == all[1]
<1>14. top \in S /\ Standing(S, R, top) = 0
  BY <1>10, <1>13
<1>15. r.matches[1].user = top.user
  BY <1>3, <1>13
<1> HIDE DEF top
<1>16. top.user \in users /\ top.score = ScoreIdentity(top.user, text) /\ top.score \in Nat \ {0}
  BY <1>6, <1>14
<1>17. \A x, y \in S : Standing(S, R, x) < Standing(S, R, y) <=> <<x, y>> \in R
  BY <1>4, Standings
<1>18. ASSUME NEW x \in S, x # top PROVE x.score < top.score
  <2> DEFINE i == Standing(S, R, x) + 1
  <2>1. i \in 1..Len(all) /\ all[i] = x /\ Standing(S, R, x) = i - 1
    <3>1. i \in 1..Len(all) /\ all[i] = x
      BY <1>10
    <3> HIDE DEF i
    <3>2. Standing(S, R, all[i]) = i - 1
      BY <3>1, <1>10
    <3> QED BY <3>1, <3>2
  <2> HIDE DEF i
  <2>2. i # 1
    BY <2>1, <1>18 DEF top
  <2>3. i >= 2 /\ Len(all) >= 2 /\ 2 \in 1..Len(all) /\ Len(found) > 1 /\ 1 \in 1..Len(found) /\ 2 \in 1..Len(found)
    <3> DEFINE m == Len(all)
               k == Len(found)
    <3>1. m \in Nat /\ k = (IF 10 < m THEN 10 ELSE m) /\ i \in 1..m
      BY <2>1, <1>10, <1>11
    <3> HIDE DEF m, k
    <3>2. i >= 2 /\ m >= 2 /\ 2 \in 1..m /\ k > 1 /\ 1 \in 1..k /\ 2 \in 1..k
      BY <3>1, <2>2
    <3> QED BY <3>2 DEF m, k
  <2>4. found[2] = all[2] /\ all[2] \in S /\ Standing(S, R, all[2]) = 1
    BY <2>3, <1>10, <1>11
  <2>5. <<top, all[2]>> \in R
    BY <2>4, <1>14, <1>17
  <2>6. top.score >= all[2].score /\ top.score # all[2].score /\ all[2].score \in Nat
    <3>1. found[1] = top
      BY <1>13 DEF top
    <3>2. found[1].score # found[2].score
      BY <2>3, <1>3, <1>9
    <3>3. top.score >= all[2].score
      BY <2>4, <2>5, <1>5, <1>14
    <3> QED BY <3>1, <3>2, <3>3, <2>4, <1>6
  <2>7. all[2].score >= x.score
    <3>1. CASE i = 2
      BY <3>1, <2>1, <2>6
    <3>2. CASE i # 2
      <4>1. Standing(S, R, all[2]) < Standing(S, R, x)
        BY <3>2, <2>1, <2>3, <2>4, <1>10
      <4>2. <<all[2], x>> \in R
        BY <4>1, <2>4, <1>17
      <4> QED BY <4>2, <2>4, <1>5
    <3> QED BY <3>1, <3>2
  <2>8. x.score \in Nat
    BY <1>6
  <2> QED BY <2>6, <2>7, <2>8, <1>16
<1>19. ASSUME NEW other \in users, other # top.user PROVE ScoreIdentity(other, text) < ScoreIdentity(top.user, text)
  <2>1. CASE ScoreIdentity(other, text) > 0
    <3>1. PICK x \in S : x.user = other
      BY <2>1, <1>7
    <3>2. x # top /\ x.score = ScoreIdentity(other, text)
      BY <3>1, <1>6, <1>19
    <3> QED BY <3>2, <1>16, <1>18
  <2>2. CASE ~(ScoreIdentity(other, text) > 0)
    BY <2>2, <1>8, <1>16
  <2> QED BY <2>1, <2>2
<1>20. ScoreIdentity(top.user, text) > 0
  BY <1>16
<1> QED BY <1>15, <1>16, <1>19, <1>20 DEF r

(* A group that is the only one of a member. *)
LEMMA OnlyOne ==
  ASSUME NEW M, IsFiniteSet(M), NEW G, G = {m.group : m \in M}, G # {}, ~(Cardinality(G) > 1)
  PROVE  G = {Sole(G)}
<1> DEFINE f == [m \in M |-> m.group]
<1>1. G = {f[m] : m \in M}
  OBVIOUS
<1> HIDE DEF f
<1>2. IsFiniteSet(G)
  <2>1. IsFiniteSet({f[m] : m \in M})
    BY ImageFinite
  <2> QED BY <1>1, <2>1, Zenon
<1>3. Cardinality(G) \in Nat /\ Cardinality(G) # 0
  BY <1>2, FS_CardinalityType, FS_EmptySet
<1>4. Cardinality(G) = 1
  BY <1>3
<1>5. PICK x : G = {x}
  BY <1>2, <1>4, FS_Singleton
<1>6. Sole(G) \in G
  BY SoleIs
<1> QED BY <1>5, <1>6

(* The users a text may mean. *)
Meant(q) == {u \in q.users : \E n \in Called(u) :
               Trim(n) # <<>> /\ ContainsText(Normalize(n), Normalize(Sole(q.args.target)))}
(* The groups of a member. *)
MembersGroups(q, member) == {m.group : m \in {n \in q.memberships : n.qq = member.qq}}

(* A member named by a text is one it may mean, ahead of all others; a group
   that was not named is the only one of the member. *)
LEMMA MemberForIs ==
  ASSUME NEW q, RankSituation(q), MemberFor(q, q.args).verdict # "failed"
  PROVE  LET a == q.args
             member == MemberFor(q, a)
             text == Trim(Sole(a.target))
         IN /\ a.qq = {} /\ ~QqFits(Sole(a.target)) =>
                 \E u \in Meant(q) : /\ u.qq = member.qq
                                     /\ \A other \in Meant(q) \ {u} : ScoreIdentity(other, text) < ScoreIdentity(u, text)
            /\ a.group = {} => MembersGroups(q, member) = {member.group}
<1> DEFINE a == q.args
           target == Sole(a.target)
           text == Trim(target)
           member == MemberFor(q, a)
           named == Resolve(q.users, text, 10)
           byQq(t) == [verdict |-> "member", qq |-> Trim(t)]
           top == named.matches[1].user
           byText == IF QqFits(target) THEN byQq(target)
                     ELSE IF ~CleanText(target) THEN Unusable
                     ELSE IF named.ambiguous THEN Fails("AMBIGUOUS_IDENTITY")
                     ELSE IF named.matches = <<>> THEN Fails("NOT_FOUND")
                     ELSE [verdict |-> "member", qq |-> top.qq]
           found == IF \E t \in a.qq : ~QqFits(t) THEN Unusable
                    ELSE IF \E t \in a.group : ~CleanText(t) THEN Unusable
                    ELSE IF a.qq # {} THEN byQq(Sole(a.qq))
                    ELSE IF a.target # {} THEN byText
                    ELSE Unusable
           M == {n \in q.memberships : n.qq = found.qq}
           groups == {m.group : m \in M}
<1>1. member = IF found.verdict = "failed" THEN found
               ELSE IF a.group # {} THEN InGroup(found, Trim(Sole(a.group)))
               ELSE IF groups = {} THEN Fails("NOT_FOUND")
               ELSE IF Cardinality(groups) > 1 THEN Fails("AMBIGUOUS_IDENTITY")
               ELSE InGroup(found, Sole(groups))
  BY Zenon DEF MemberFor, Using
<1>2. \A e : Fails(e).verdict = "failed"
  BY Verdicts
<1>3. \A f, g : InGroup(f, g).qq = f.qq /\ InGroup(f, g).group = g
  BY DEF InGroup
<1>4. member.verdict # "failed"
  OBVIOUS
<1>5. SoughtUsers(q.users) /\ IsFiniteSet(q.memberships) /\ a.target \subseteq AnyText
  BY DEF RankSituation, RankValues, SoughtUsers
<1> HIDE DEF member, found
<1>6. found.verdict # "failed" /\ member.qq = found.qq
      /\ (a.group = {} => groups # {} /\ ~(Cardinality(groups) > 1) /\ member.group = Sole(groups))
  <2> HIDE DEF groups
  <2> QED BY <1>1, <1>2, <1>3, <1>4
<1>7. ASSUME a.group = {} PROVE MembersGroups(q, member) = {member.group}
  <2>1. IsFiniteSet(M)
    BY <1>5, FS_Subset
  <2>2. groups = {Sole(groups)}
    <3>1. groups # {} /\ ~(Cardinality(groups) > 1)
      BY <1>6, <1>7
    <3> DEFINE N == M
               G == groups
    <3>2. IsFiniteSet(N) /\ G = {m.group : m \in N}
      BY <2>1
    <3> HIDE DEF N, G
    <3>3. G # {} /\ ~(Cardinality(G) > 1)
      BY <3>1 DEF G
    <3>4. G = {Sole(G)}
      BY <3>2, <3>3, OnlyOne
    <3> QED BY <3>4 DEF G
  <2>3. MembersGroups(q, member) = groups
    BY <1>6 DEF MembersGroups
  <2> HIDE DEF groups
  <2> QED BY <2>2, <2>3, <1>6, <1>7
<1>8. ASSUME a.qq = {}, ~QqFits(target)
      PROVE  \E u \in Meant(q) : /\ u.qq = member.qq
                                 /\ \A other \in Meant(q) \ {u} : ScoreIdentity(other, text) < ScoreIdentity(u, text)
  <2>1. /\ a.target # {} /\ CleanText(target) /\ ~named.ambiguous /\ named.matches # <<>>
        /\ found = [verdict |-> "member", qq |-> top.qq]
    <3>1. found = IF \E t \in a.group : ~CleanText(t) THEN Unusable ELSE IF a.target # {} THEN byText ELSE Unusable
      BY <1>8, Zenon DEF found
    <3>2. Unusable.verdict = "failed"
      BY Verdicts
    <3>3. a.target # {} /\ found = byText
      <4> HIDE DEF byText
      <4> QED BY <3>1, <3>2, <1>6
    <3>4. byText = IF ~CleanText(target) THEN Unusable
                   ELSE IF named.ambiguous THEN Fails("AMBIGUOUS_IDENTITY")
                   ELSE IF named.matches = <<>> THEN Fails("NOT_FOUND")
                   ELSE [verdict |-> "member", qq |-> top.qq]
      BY <1>8, Zenon
    <3> HIDE DEF byText, named, top, target
    <3> QED BY <3>2, <3>3, <3>4, <1>2, <1>6
  <2>2. found.qq = top.qq
    <3> HIDE DEF top
    <3> QED BY <2>1
  <2>3. /\ top \in q.users /\ ScoreIdentity(top, text) > 0
        /\ \A other \in q.users : other # top => ScoreIdentity(other, text) < ScoreIdentity(top, text)
    <3> HIDE DEF text
    <3> QED BY <1>5, <2>1, ResolvedIs
  <2> HIDE DEF top
  <2>4. target \in AnyText
    BY <1>5, <2>1, SoleIs
  <2>5. top.qq # text
    <3>1. ToSet(top.qq) \subseteq 20..29
      BY <1>5, <2>3 DEF SoughtUsers
    <3>2. ~(ToSet(text) \subseteq 20..29)
      BY <1>8, <2>1 DEF QqFits
    <3> QED BY <3>1, <3>2
  <2>6. top \in Users
    BY <1>5, <2>3 DEF SoughtUsers
  <2>7. \E n \in Called(top) : Trim(n) # <<>> /\ ContainsText(Normalize(n), Normalize(target))
    <3> HIDE DEF target
    <3> QED BY <2>3, <2>4, <2>5, <2>6, SoughtMeant DEF text
  <2>8. top \in Meant(q)
    BY <2>3, <2>7 DEF Meant
  <2>9. \A other \in Meant(q) : other \in q.users
    BY DEF Meant
  <2> HIDE DEF text
  <2>10. \A other \in Meant(q) \ {top} : ScoreIdentity(other, text) < ScoreIdentity(top, text)
    BY <2>3, <2>9
  <2> QED BY <2>2, <2>8, <2>10, <1>6
<1>9. MemberFor(q, a) = member
  BY DEF member
<1> HIDE DEF text
<1>10. /\ a.qq = {} /\ ~QqFits(Sole(a.target)) =>
            \E u \in Meant(q) : /\ u.qq = member.qq
                                /\ \A other \in Meant(q) \ {u} : ScoreIdentity(other, text) < ScoreIdentity(u, text)
       /\ a.group = {} => MembersGroups(q, member) = {member.group}
  BY <1>7, <1>8
<1> QED BY <1>10, Zenon DEF member, text

-----------------------------------------------------------------------------
(* The promise of the rankings. *)

(* Which of the tools answers. *)
LEMMA RankToolIs ==
  ASSUME NEW catalog, NEW q, q.name \in DOMAIN RankToolFields, NEW a
  PROVE  LET s == RankTool(catalog, q, a)
         IN \/ s.verdict \in {"failed", "status", "cache", "cleared"}
            \/ /\ KnownArguments(q.name, a)
               /\ \/ q.name = "group_b50_report" /\ s = GroupB50Report(q, a)
                  \/ q.name = "group_b50_job_status" /\ s = GroupB50JobStatus(q, a)
                  \/ q.name = "group_b50_member_rank" /\ s = GroupB50MemberRank(q, a)
                  \/ q.name = "group_b50_rank_at" /\ s = GroupB50RankAt(q, a)
                  \/ q.name = "group_song_score_report" /\ s = GroupSongReport(catalog, q, a)
                  \/ q.name = "group_song_score_member_rank" /\ s = GroupSongMemberRank(catalog, q, a)
<1> DEFINE s == RankTool(catalog, q, a)
<1>1. q.name \in {"group_b50_report", "group_b50_cache_status", "group_b50_job_status", "group_b50_member_rank",
                  "group_b50_rank_at", "clear_group_b50_cache", "group_song_score_report",
                  "group_song_score_member_rank", "group_song_score_cache_status", "group_song_score_job_status",
                  "clear_group_song_score_cache"}
  BY DEF RankToolFields
<1>2. CASE ~KnownArguments(q.name, a)
  <2>1. s = Unusable
    BY <1>2, Zenon DEF RankTool
  <2> QED BY <2>1, Verdicts
<1>3. CASE KnownArguments(q.name, a)
  <2>1. q.name = "group_b50_report" => s = GroupB50Report(q, a)
    BY <1>3 DEF RankTool
  <2>2. q.name = "group_b50_job_status" => s = GroupB50JobStatus(q, a)
    BY <1>3 DEF RankTool
  <2>3. q.name = "group_b50_member_rank" => s = GroupB50MemberRank(q, a)
    BY <1>3 DEF RankTool
  <2>4. q.name = "group_b50_rank_at" => s = GroupB50RankAt(q, a)
    BY <1>3 DEF RankTool
  <2>5. q.name = "group_song_score_report" => s = GroupSongReport(catalog, q, a)
    BY <1>3 DEF RankTool
  <2>6. q.name = "group_song_score_member_rank" => s = GroupSongMemberRank(catalog, q, a)
    BY <1>3 DEF RankTool
  <2>7. q.name = "group_song_score_job_status" => s = SongJobStatus(q, a)
    BY <1>3 DEF RankTool
  <2>8. q.name \in {"group_b50_cache_status", "group_song_score_cache_status"} => s = CacheStatusOf(q, a)
    BY <1>3 DEF RankTool
  <2>9. q.name \in {"clear_group_b50_cache", "clear_group_song_score_cache"} => s = ClearRanking(q, a)
    BY <1>3 DEF RankTool
  <2>10. SongJobStatus(q, a).verdict \in {"failed", "status"}
    BY Verdicts DEF SongJobStatus
  <2>11. CacheStatusOf(q, a).verdict \in {"failed", "cache"}
    BY Verdicts DEF CacheStatusOf
  <2>12. ClearRanking(q, a).verdict \in {"failed", "cleared"}
    BY Verdicts DEF ClearRanking
  <2> HIDE DEF s
  <2>13. q.name = "group_song_score_job_status" => s.verdict \in {"failed", "status", "cache", "cleared"}
    BY <2>7, <2>10
  <2>14. q.name \in {"group_b50_cache_status", "group_song_score_cache_status"} =>
           s.verdict \in {"failed", "status", "cache", "cleared"}
    BY <2>8, <2>11
  <2>15. q.name \in {"clear_group_b50_cache", "clear_group_song_score_cache"} =>
           s.verdict \in {"failed", "status", "cache", "cleared"}
    BY <2>9, <2>12
  <2>16. q.name \in {"group_b50_report", "group_b50_job_status", "group_b50_member_rank", "group_b50_rank_at",
                     "group_song_score_report", "group_song_score_member_rank"} =>
           \/ q.name = "group_b50_report" /\ s = GroupB50Report(q, a)
           \/ q.name = "group_b50_job_status" /\ s = GroupB50JobStatus(q, a)
           \/ q.name = "group_b50_member_rank" /\ s = GroupB50MemberRank(q, a)
           \/ q.name = "group_b50_rank_at" /\ s = GroupB50RankAt(q, a)
           \/ q.name = "group_song_score_report" /\ s = GroupSongReport(catalog, q, a)
           \/ q.name = "group_song_score_member_rank" /\ s = GroupSongMemberRank(catalog, q, a)
    BY <2>1, <2>2, <2>3, <2>4, <2>5, <2>6
  <2> QED BY <1>1, <1>3, <2>13, <2>14, <2>15, <2>16 DEF s
<1> QED BY <1>2, <1>3

(* How a ranking tool comes to its answer, by what the answer says. *)
LEMMA RankToolCases ==
  ASSUME NEW catalog, NEW q, q.name \in DOMAIN RankToolFields, NEW a
  PROVE  LET s == RankTool(catalog, q, a)
             ranking == Sole(q.reads[1])
             whole == B50Report(ranking.entries, B50Options(a, "asc"))
             song == SongOptions(SongFor(catalog, a), a)
         IN \/ s.verdict \in {"failed", "status", "cache", "cleared", "invalid"}
            \/ s = Started(q, a) /\ ~Usable(q, a)
            \/ /\ q.name \in {"group_b50_report", "group_b50_job_status"} /\ q.reads[1] # {}
               /\ s = whole /\ whole # Invalid /\ s.verdict = "report"
               /\ q.name = "group_b50_report" => Usable(q, a)
            \/ /\ q.name \in {"group_b50_member_rank", "group_song_score_member_rank"} /\ q.reads[1] # {}
               /\ Usable(q, a) /\ s.verdict = "member" /\ MemberFor(q, a).verdict # "failed"
            \/ /\ q.name = "group_b50_rank_at" /\ KnownArguments(q.name, a) /\ q.reads[1] # {} /\ Usable(q, a)
               /\ s = GroupB50RankAt(q, a) /\ s.verdict \in {"rank_at", "nobody"}
            \/ /\ q.name = "group_song_score_report" /\ q.reads[1] # {} /\ Usable(q, a)
               /\ s = SongReport(ranking.members, ranking.records, song) /\ s.verdict = "report"
<1> DEFINE s == RankTool(catalog, q, a)
           ranking == Sole(q.reads[1])
           whole == B50Report(ranking.entries, B50Options(a, "asc"))
           song == SongOptions(SongFor(catalog, a), a)
<1>1. \/ s.verdict \in {"failed", "status", "cache", "cleared"}
      \/ /\ KnownArguments(q.name, a)
         /\ \/ q.name = "group_b50_report" /\ s = GroupB50Report(q, a)
            \/ q.name = "group_b50_job_status" /\ s = GroupB50JobStatus(q, a)
            \/ q.name = "group_b50_member_rank" /\ s = GroupB50MemberRank(q, a)
            \/ q.name = "group_b50_rank_at" /\ s = GroupB50RankAt(q, a)
            \/ q.name = "group_song_score_report" /\ s = GroupSongReport(catalog, q, a)
            \/ q.name = "group_song_score_member_rank" /\ s = GroupSongMemberRank(catalog, q, a)
  BY RankToolIs
<1>2. \/ GroupB50Report(q, a).verdict = "failed"
      \/ GroupB50Report(q, a) = Started(q, a) /\ ~Usable(q, a)
      \/ Usable(q, a) /\ q.reads[1] # {} /\ GroupB50Report(q, a) = whole /\ whole # Invalid /\ whole.verdict = "report"
  BY GroupReportIs
<1>3. \/ GroupB50JobStatus(q, a).verdict \in {"failed", "status"}
      \/ q.reads[1] # {} /\ GroupB50JobStatus(q, a) = whole /\ whole # Invalid /\ whole.verdict = "report"
  BY JobReportIs
<1>4. \/ GroupB50MemberRank(q, a).verdict = "failed"
      \/ GroupB50MemberRank(q, a) = Started(q, a) /\ ~Usable(q, a)
      \/ /\ Usable(q, a) /\ q.reads[1] # {} /\ GroupB50MemberRank(q, a).verdict = "member"
         /\ MemberFor(q, a).verdict # "failed"
  BY MemberRankCases
<1>5. \/ GroupB50RankAt(q, a).verdict = "failed"
      \/ GroupB50RankAt(q, a) = Started(q, a) /\ ~Usable(q, a)
      \/ Usable(q, a) /\ q.reads[1] # {} /\ GroupB50RankAt(q, a).verdict \in {"rank_at", "nobody"}
  BY RankAtCases
<1>6. \/ GroupSongReport(catalog, q, a).verdict \in {"failed", "status"}
      \/ GroupSongReport(catalog, q, a) = Started(q, a) /\ ~Usable(q, a)
      \/ /\ Usable(q, a) /\ q.reads[1] # {}
         /\ GroupSongReport(catalog, q, a) = SongReport(ranking.members, ranking.records, song)
         /\ GroupSongReport(catalog, q, a).verdict \in {"invalid", "report"}
  BY SongReportCases
<1>7. \/ GroupSongMemberRank(catalog, q, a).verdict = "failed"
      \/ GroupSongMemberRank(catalog, q, a) = Started(q, a) /\ ~Usable(q, a)
      \/ /\ Usable(q, a) /\ q.reads[1] # {} /\ GroupSongMemberRank(catalog, q, a).verdict = "member"
         /\ MemberFor(q, a).verdict # "failed"
  BY SongMemberCases
<1> HIDE DEF s, ranking, whole, song
<1>8. \/ s.verdict \in {"failed", "status", "cache", "cleared", "invalid"}
      \/ s = Started(q, a) /\ ~Usable(q, a)
      \/ /\ q.name \in {"group_b50_report", "group_b50_job_status"} /\ q.reads[1] # {}
         /\ s = whole /\ whole # Invalid /\ s.verdict = "report"
         /\ q.name = "group_b50_report" => Usable(q, a)
      \/ /\ q.name \in {"group_b50_member_rank", "group_song_score_member_rank"} /\ q.reads[1] # {}
         /\ Usable(q, a) /\ s.verdict = "member" /\ MemberFor(q, a).verdict # "failed"
      \/ /\ q.name = "group_b50_rank_at" /\ KnownArguments(q.name, a) /\ q.reads[1] # {} /\ Usable(q, a)
         /\ s = GroupB50RankAt(q, a) /\ s.verdict \in {"rank_at", "nobody"}
      \/ /\ q.name = "group_song_score_report" /\ q.reads[1] # {} /\ Usable(q, a)
         /\ s = SongReport(ranking.members, ranking.records, song) /\ s.verdict = "report"
  <2>1. CASE q.name = "group_b50_report" /\ s = GroupB50Report(q, a)
    BY <1>2, <2>1
  <2>2. CASE q.name = "group_b50_job_status" /\ s = GroupB50JobStatus(q, a)
    BY <1>3, <2>2
  <2>3. CASE q.name = "group_b50_member_rank" /\ s = GroupB50MemberRank(q, a)
    BY <1>4, <2>3
  <2>4. CASE q.name = "group_b50_rank_at" /\ s = GroupB50RankAt(q, a) /\ KnownArguments(q.name, a)
    BY <1>5, <2>4
  <2>5. CASE q.name = "group_song_score_report" /\ s = GroupSongReport(catalog, q, a)
    BY <1>6, <2>5
  <2>6. CASE q.name = "group_song_score_member_rank" /\ s = GroupSongMemberRank(catalog, q, a)
    BY <1>7, <2>6
  <2> QED BY <1>1, <2>1, <2>2, <2>3, <2>4, <2>5, <2>6
<1> QED BY <1>8 DEF s, ranking, whole, song

(* What the tools on the rankings of a group show is as promised. *)
LEMMA RankShownHolds ==
  ASSUME RankSituation(question), answer = RankTool(loaded, question, question.args)
  PROVE  RankShown
<1> DEFINE q == question
           a == q.args
           ranking == Sole(q.reads[1])
           low == B50Options(a, "asc")
           high == B50Options(a, "desc")
           whole == B50Report(ranking.entries, low)
           song == SongOptions(SongFor(loaded, a), a)
           member == MemberFor(q, a)
           text == Sole(a.target)
<1>1. q.name \in DOMAIN RankToolFields /\ RankValues(a) /\ a.force \in {{}, {TRUE}, {FALSE}}
  BY DEF RankSituation, RankValues
<1>2. \/ answer.verdict \in {"failed", "status", "cache", "cleared", "invalid"}
      \/ answer = Started(q, a) /\ ~Usable(q, a)
      \/ /\ q.name \in {"group_b50_report", "group_b50_job_status"} /\ q.reads[1] # {}
         /\ answer = whole /\ whole # Invalid /\ answer.verdict = "report"
         /\ q.name = "group_b50_report" => Usable(q, a)
      \/ /\ q.name \in {"group_b50_member_rank", "group_song_score_member_rank"} /\ q.reads[1] # {}
         /\ Usable(q, a) /\ answer.verdict = "member" /\ member.verdict # "failed"
      \/ /\ q.name = "group_b50_rank_at" /\ KnownArguments(q.name, a) /\ q.reads[1] # {} /\ Usable(q, a)
         /\ answer = GroupB50RankAt(q, a) /\ answer.verdict \in {"rank_at", "nobody"}
      \/ /\ q.name = "group_song_score_report" /\ q.reads[1] # {} /\ Usable(q, a)
         /\ answer = SongReport(ranking.members, ranking.records, song) /\ answer.verdict = "report"
  BY <1>1, RankToolCases
<1>3. Usable(q, a) <=> q.cache = "fresh" /\ TRUE \notin a.force
  <2>1. a.force = {TRUE} <=> TRUE \in a.force
    BY <1>1
  <2> QED BY <2>1 DEF Usable
<1>4. /\ Started(q, a).verdict = "started" /\ Started(q, a).started = (q.job # "running")
      /\ Started(q, a).reason = Reason(q, a)
  BY DEF Started
<1>5. q.job # "running" => (Reason(q, a) = "miss" <=> (q.cache = "none" /\ TRUE \notin a.force))
  <2>1. a.force = {TRUE} <=> TRUE \in a.force
    BY <1>1
  <2> QED BY <2>1 DEF Reason
<1>6. q.reads[1] # {} => ranking \in q.reads[1]
  BY SoleIs
<1>7. ASSUME q.reads[1] # {}, q.name \in {"group_b50_report", "group_b50_job_status"}, whole # Invalid
      PROVE  ReportHolds(ranking.entries, low, whole)
  <2>1. Rankable(ranking.entries)
    BY <1>6, <1>7 DEF RankSituation
  <2>2. Bounds(low)
    BY <1>1, OptionsBounded
  <2> HIDE DEF q, a, ranking, low
  <2> QED BY <1>7, <2>1, <2>2, ReportsHold DEF whole
<1>8. ASSUME q.name = "group_b50_rank_at", KnownArguments(q.name, a), answer = GroupB50RankAt(q, a)
      PROVE  /\ answer.verdict = "rank_at" =>
                  /\ Cardinality({e \in Listed(ranking.entries, high) :
                                    IF high.order = "descending" THEN e.rating > answer.entry.rating
                                                                 ELSE e.rating < answer.entry.rating}) < Sole(a.rank)
                  /\ Sole(a.rank) <= answer.matched
                  /\ q.reads[1] = q.reads[2] =>
                       /\ answer.member.found
                       /\ Listed(ranking.entries, high) = ranking.entries =>
                            Sole(a.rank) = IF high.order = "descending" THEN answer.member.desc ELSE answer.member.asc
             /\ answer.verdict = "nobody" => Sole(a.rank) > answer.matched
  BY <1>8, RankAtShown, Zenon
<1>9. ASSUME q.reads[1] # {}, q.name = "group_song_score_report",
             answer = SongReport(ranking.members, ranking.records, song), answer.verdict = "report"
      PROVE  SongReportHolds(ranking.members, ranking.records, song, answer)
  <2>1. SongRankable(ranking.members, ranking.records)
    BY <1>6, <1>9 DEF RankSituation
  <2>2. song.window = WindowFor(a)
    BY DEF SongOptions
  <2>3. song.window \in WindowData
    BY <1>1, <2>2, OptionsBounded
  <2>4. answer # Invalid
    BY <1>9, Verdicts
  <2> HIDE DEF q, a, ranking, song
  <2> QED BY <1>9, <2>1, <2>3, <2>4, SongReportsHold
<1>10. ASSUME member.verdict # "failed"
       PROVE  /\ a.qq = {} /\ ~QqFits(text) =>
                   \E u \in Meant(q) : /\ u.qq = member.qq
                                       /\ \A other \in Meant(q) \ {u} :
                                            ScoreIdentity(other, Trim(text)) < ScoreIdentity(u, Trim(text))
              /\ a.group = {} => MembersGroups(q, member) = {member.group}
  BY <1>10, MemberForIs, Zenon
<1> HIDE DEF q, a, ranking, low, high, whole, song, member, text
<1>11. /\ answer.verdict \in {"report", "member", "rank_at", "nobody"} /\ q.name # "group_b50_job_status" =>
            q.cache = "fresh" /\ TRUE \notin a.force /\ q.reads[1] # {}
       /\ answer.verdict = "started" =>
            /\ q.cache = "fresh" => TRUE \in a.force
            /\ answer.started <=> q.job # "running"
            /\ answer.started => (answer.reason = "miss" <=> (q.cache = "none" /\ TRUE \notin a.force))
  BY <1>2, <1>3, <1>4, <1>5
<1>12. answer.verdict = "report" /\ q.name \in {"group_b50_report", "group_b50_job_status"} =>
         ReportHolds(ranking.entries, low, answer)
  BY <1>2, <1>4, <1>7
<1>13. /\ answer.verdict = "rank_at" =>
            /\ q.name = "group_b50_rank_at"
            /\ Cardinality({e \in Listed(ranking.entries, high) :
                              IF high.order = "descending" THEN e.rating > answer.entry.rating
                                                           ELSE e.rating < answer.entry.rating}) < Sole(a.rank)
            /\ Sole(a.rank) <= answer.matched
            /\ q.reads[1] = q.reads[2] =>
                 /\ answer.member.found
                 /\ Listed(ranking.entries, high) = ranking.entries =>
                      Sole(a.rank) = IF high.order = "descending" THEN answer.member.desc ELSE answer.member.asc
       /\ answer.verdict = "nobody" => Sole(a.rank) > answer.matched
  <2>1. answer.verdict \in {"rank_at", "nobody"} =>
          q.name = "group_b50_rank_at" /\ KnownArguments(q.name, a) /\ answer = GroupB50RankAt(q, a)
    BY <1>2, <1>4
  <2> QED BY <1>8, <2>1
<1>14. answer.verdict = "report" /\ q.name = "group_song_score_report" =>
         SongReportHolds(ranking.members, ranking.records, song, answer)
  BY <1>2, <1>4, <1>9
<1>15. answer.verdict = "member" =>
         /\ a.qq = {} /\ ~QqFits(text) =>
              \E u \in Meant(q) : /\ u.qq = member.qq
                                  /\ \A other \in Meant(q) \ {u} :
                                       ScoreIdentity(other, Trim(text)) < ScoreIdentity(u, Trim(text))
         /\ a.group = {} => MembersGroups(q, member) = {member.group}
  <2>1. answer.verdict = "member" => member.verdict # "failed"
    BY <1>2, <1>4
  <2> QED BY <1>10, <2>1
<1>16. Meant(q) = {u \in q.users : \E n \in u.names \cup (UNION u.groups) \cup (UNION u.preferred) :
                                     Trim(n) # <<>> /\ ContainsText(Normalize(n), Normalize(text))}
  BY Zenon DEF Meant, Called, a, text
<1>17. MembersGroups(q, member) = {m.group : m \in {n \in q.memberships : n.qq = member.qq}}
  BY Zenon DEF MembersGroups
<1>18. /\ q.name = "group_b50_rank_at" => B50Options(a, IF q.name = "group_b50_rank_at" THEN "desc" ELSE "asc") = high
       /\ q.name # "group_b50_rank_at" => B50Options(a, IF q.name = "group_b50_rank_at" THEN "desc" ELSE "asc") = low
  BY DEF high, low
<1> DEFINE options == B50Options(a, IF q.name = "group_b50_rank_at" THEN "desc" ELSE "asc")
<1>19. answer.verdict = "report" /\ q.name \in {"group_b50_report", "group_b50_job_status"} =>
         ReportHolds(ranking.entries, options, answer)
  <2>1. q.name \in {"group_b50_report", "group_b50_job_status"} => options = low
    BY <1>18
  <2> HIDE DEF options
  <2> QED BY <1>12, <2>1
<1>20. /\ answer.verdict = "rank_at" =>
            /\ Cardinality({e \in Listed(ranking.entries, options) :
                              IF options.order = "descending" THEN e.rating > answer.entry.rating
                                                           ELSE e.rating < answer.entry.rating}) < Sole(a.rank)
            /\ Sole(a.rank) <= answer.matched
            /\ q.reads[1] = q.reads[2] =>
                 /\ answer.member.found
                 /\ Listed(ranking.entries, options) = ranking.entries =>
                      Sole(a.rank) = IF options.order = "descending" THEN answer.member.desc ELSE answer.member.asc
       /\ answer.verdict = "nobody" => Sole(a.rank) > answer.matched
  <2>1. q.name = "group_b50_rank_at" => options = high
    BY <1>18
  <2> HIDE DEF options
  <2> QED BY <1>13, <2>1
<1>21. answer.verdict = "member" /\ a.qq = {} /\ ~QqFits(text) =>
         \E u \in {v \in q.users : \E n \in v.names \cup (UNION v.groups) \cup (UNION v.preferred) :
                                     Trim(n) # <<>> /\ ContainsText(Normalize(n), Normalize(text))} :
           /\ u.qq = member.qq
           /\ \A other \in {v \in q.users : \E n \in v.names \cup (UNION v.groups) \cup (UNION v.preferred) :
                                              Trim(n) # <<>> /\ ContainsText(Normalize(n), Normalize(text))} \ {u} :
                ScoreIdentity(other, Trim(text)) < ScoreIdentity(u, Trim(text))
  BY <1>15, <1>16, Zenon
<1>22. answer.verdict = "member" /\ a.group = {} =>
         {m.group : m \in {n \in q.memberships : n.qq = member.qq}} = {member.group}
  BY <1>15, <1>17, Zenon
<1> QED BY <1>11, <1>14, <1>19, <1>20, <1>21, <1>22, Zenon
        DEF RankShown, q, a, ranking, song, member, text, options

(* What is shown of the public list. *)
PublicAnswer(q) ==
  CASE q.kind = "page" -> PublicPage(q.list, q.page)
    [] q.kind = "range" -> PublicRange(q.list, q.start, q.end)
    [] q.kind = "player" -> PublicLookup(q.list, q.folded)
(* The question stays one of the questions, and its answer is that of the
   code. *)
AnsweredByRanks ==
  /\ question \in Questions
  /\ Answered("b50_report") => answer = B50Report(question.entries, question)
  /\ Answered("b50_member") => answer = B50MemberRank(question.entries, question.qq, question.size)
  /\ Answered("song_report") => answer = SongReport(question.members, question.records, question)
  /\ Answered("song_member") =>
       answer = SongMemberRank(question.members, question.records, question.target, question.qq, question.size)
  /\ Answered("public") => answer = PublicAnswer(question)
  /\ Answered("rank_tool") => answer = RankTool(loaded, question, question.args)

(* The invariant of questions on rankings: the answer is what the code
   makes of the question. *)
LEMMA RanksInvariant == Spec => []AnsweredByRanks
<1>1. Init => AnsweredByRanks
  BY DEF Init, AnsweredByRanks, Answered
<1>2. AnsweredByRanks /\ [Next]_vars => AnsweredByRanks'
  <2> SUFFICES ASSUME AnsweredByRanks, [Next]_vars PROVE AnsweredByRanks'
    OBVIOUS
  <2>1. CASE UNCHANGED vars
    BY <2>1 DEF AnsweredByRanks, Answered, vars
  <2>2. CASE Next
    <3>1. question' = question /\ loaded' = loaded /\ question \in Questions
      BY <2>2, Answerers DEF AnsweredByRanks
    <3> QED
      BY <2>2, <3>1, Answerers
      DEF AnsweredByRanks, Answered, ReportB50, RankMember, ReportSong, RankOnSong, AskRanking, ShowPublicRanking, PublicAnswer
  <2> QED BY <2>1, <2>2 DEF AnsweredByRanks
<1> QED BY <1>1, <1>2, PTL DEF Spec

(* The answers about a ranking agree, for every ranking, public list and
   argument that fits its type: a report lists just those that match, with
   consecutive ranks and nobody behind another who is worse; a member is at
   the rank that the whole report gives, from either end; each player of the
   public list is on one page; and what the tools on groups show is of a
   ranking of today, at the rank asked for and of nobody but who is meant. *)
THEOREM RanksAgreeHolds == Spec => []RanksAgree
<1>1. AnsweredByRanks => RanksAgree
  <2> SUFFICES ASSUME AnsweredByRanks PROVE RanksAgree
    OBVIOUS
  <2> DEFINE q == question
  <2>1. q \in Questions /\ Arguable(q)
    BY RankAssumption DEF AnsweredByRanks
  <2>2. Answered("b50_report") /\ answer # Invalid => ReportHolds(q.entries, q, answer)
    <3> SUFFICES ASSUME Answered("b50_report"), answer # Invalid PROVE ReportHolds(q.entries, q, answer)
      OBVIOUS
    <3>1. q.tool = "b50_report" /\ answer = B50Report(q.entries, q)
      BY DEF AnsweredByRanks, Answered
    <3>2. Rankable(q.entries) /\ Bounds(q)
      BY <2>1, <3>1 DEF Arguable, RankOptions, Bounds
    <3> HIDE DEF q
    <3> QED BY <3>1, <3>2, ReportsHold
  <2>3. Answered("rank_tool") => RankShown
    <3> SUFFICES ASSUME Answered("rank_tool") PROVE RankShown
      OBVIOUS
    <3>1. q.tool = "rank_tool" /\ answer = RankTool(loaded, q, q.args)
      BY DEF AnsweredByRanks, Answered
    <3>2. RankSituation(q)
      BY <2>1, <3>1 DEF Arguable
    <3> QED BY <3>1, <3>2, RankShownHolds
  <2>4. Answered("b50_member") =>
          /\ answer.found <=> \E e \in q.entries : e.qq = q.qq
          /\ AtOneRank(answer, q.qq, B50Report(q.entries, Whole))
    <3> SUFFICES ASSUME Answered("b50_member")
                 PROVE  /\ answer.found <=> \E e \in q.entries : e.qq = q.qq
                        /\ AtOneRank(answer, q.qq, B50Report(q.entries, Whole))
      OBVIOUS
    <3>1. q.tool = "b50_member" /\ answer = B50MemberRank(q.entries, q.qq, q.size)
      BY DEF AnsweredByRanks, Answered
    <3>2. Rankable(q.entries) /\ q.size \in Nat
      BY <2>1, <3>1 DEF Arguable
    <3> HIDE DEF q
    <3> QED BY <3>1, <3>2, MemberAgrees
  <2>5. Answered("song_report") /\ answer # Invalid => SongReportHolds(q.members, q.records, q, answer)
    <3> SUFFICES ASSUME Answered("song_report"), answer # Invalid
                 PROVE  SongReportHolds(q.members, q.records, q, answer)
      OBVIOUS
    <3>1. q.tool = "song_report" /\ answer = SongReport(q.members, q.records, q)
      BY DEF AnsweredByRanks, Answered
    <3>2. SongRankable(q.members, q.records) /\ q.window \in WindowData
      BY <2>1, <3>1 DEF Arguable, RankOptions
    <3> HIDE DEF q
    <3> QED BY <3>1, <3>2, SongReportsHold
  <2>6. Answered("song_member") =>
          AtOneRank(answer, q.qq, SongReport(q.members, q.records,
                                             [Whole EXCEPT !.sort = "achievement", !.target = q.target]))
    <3> SUFFICES ASSUME Answered("song_member")
                 PROVE  AtOneRank(answer, q.qq, SongReport(q.members, q.records,
                                                  [Whole EXCEPT !.sort = "achievement", !.target = q.target]))
      OBVIOUS
    <3>1. q.tool = "song_member" /\ answer = SongMemberRank(q.members, q.records, q.target, q.qq, q.size)
      BY DEF AnsweredByRanks, Answered
    <3>2. SongRankable(q.members, q.records) /\ q.size \in Nat
      BY <2>1, <3>1 DEF Arguable
    <3> HIDE DEF q
    <3> QED BY <3>1, <3>2, SongMemberAgrees
  <2>7. Answered("public") /\ q.kind = "page" =>
          \A i \in DOMAIN q.list :
            Cardinality({p \in 1..Pages(q.list) :
                           \E r \in ToSet(PublicPage(q.list, p).rows) : r.entry = q.list[i]}) = 1
    <3>1. Answered("public") => ListedOnce(q.list)
      BY <2>1 DEF Arguable, Answered
    <3> HIDE DEF q
    <3> QED BY <3>1, PagesHold
  <2>8. Answered("public") /\ q.kind = "range" =>
          PlacedWell(ToSet(q.list), answer.rows, LAMBDA e : e.rating, "descending")
    <3> SUFFICES ASSUME Answered("public"), q.kind = "range"
                 PROVE  PlacedWell(ToSet(q.list), answer.rows, LAMBDA e : e.rating, "descending")
      OBVIOUS
    <3>1. ListedOnce(q.list) /\ q.start \in Nat \ {0} /\ q.end \in Nat
      BY <2>1 DEF Arguable, Answered
    <3>2. answer = PublicRange(q.list, q.start, q.end)
      BY DEF AnsweredByRanks, Answered, PublicAnswer
    <3>3. PlacedWell(ToSet(q.list), PublicRange(q.list, q.start, q.end).rows, LAMBDA e : e.rating, "descending")
      <4> HIDE DEF q
      <4> QED BY <3>1, RangesHold
    <3> QED BY <3>2, <3>3, Zenon
  <2>9. Answered("public") /\ q.kind = "player" =>
          LET named == {i \in DOMAIN q.list : q.list[i].folded = q.folded}
          IN IF named = {} THEN answer.rank = None
             ELSE PublicRange(q.list, answer.rank, answer.rank).rows[1].entry.rating
                    = Max({q.list[i].rating : i \in named})
    <3> DEFINE named == {i \in DOMAIN q.list : q.list[i].folded = q.folded}
    <3> SUFFICES ASSUME Answered("public"), q.kind = "player"
                 PROVE  IF named = {} THEN answer.rank = None
                        ELSE PublicRange(q.list, answer.rank, answer.rank).rows[1].entry.rating
                               = Max({q.list[i].rating : i \in named})
      OBVIOUS
    <3>1. ListedOnce(q.list)
      BY <2>1 DEF Arguable, Answered
    <3>2. answer = PublicLookup(q.list, q.folded)
      BY DEF AnsweredByRanks, Answered, PublicAnswer
    <3>3. LET rank == PublicLookup(q.list, q.folded).rank
          IN IF named = {} THEN rank = None
             ELSE PublicRange(q.list, rank, rank).rows[1].entry.rating = Max({q.list[i].rating : i \in named})
      <4> HIDE DEF q
      <4> QED BY <3>1, LookupsHold
    <3> QED BY <3>2, <3>3, Zenon
  <2> QED BY <2>2, <2>3, <2>4, <2>5, <2>6, <2>7, <2>8, <2>9, Zenon DEF RanksAgree
<1> QED BY <1>1, RanksInvariant, PTL

================================================================================
