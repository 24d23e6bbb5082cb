------------------------------- MODULE Ratings -------------------------------
(***************************************************************************)
(* The rating of a score, the best-50 list of a player and what it adds up *)
(* to (maimai-core rating.rs; maimai-app scores).                          *)
(*                                                                         *)
(* Constants are in tenths and achievements in hundredths of a percent:    *)
(* no table has a finer step.  What is absent is None.                     *)
(***************************************************************************)
EXTENDS ScoreRules, SequencesExt

CONSTANTS LegacyCapacity,  \* the charts a best-50 list takes of the earlier versions
          CurrentCapacity  \* and of the current one

ASSUME CapacityAssumption == {LegacyCapacity, CurrentCapacity} \subseteq Nat \ {0}

None == -1
Or(a, b) == IF a = None THEN b ELSE a

-----------------------------------------------------------------------------
(* One score.                                                              *)

Cap == 10050

(* The tenths of the coefficient from an achievement on.                   *)
Coefficients ==
  {<<10050, 224>>, <<10000, 216>>, <<9950, 211>>, <<9900, 208>>, <<9800, 203>>, <<9700, 200>>,
   <<9400, 168>>, <<9000, 152>>, <<8000, 136>>, <<7500, 120>>, <<7000, 112>>, <<6000, 96>>,
   <<5000, 80>>, <<4000, 64>>, <<3000, 48>>, <<2000, 32>>, <<1000, 16>>, <<0, 0>>}
Coefficient(achievement) == Max({c[2] : c \in {d \in Coefficients : d[1] <= achievement}})

Capped(achievement) == IF achievement > Cap THEN Cap ELSE achievement
SongRating(constant, achievement) ==
  (constant * Capped(achievement) * Coefficient(Capped(achievement))) \div 1000000

(* The chart of a score as a provider reports it, or as it was stored: its *)
(* own constant and rating come from there, all else from the catalogue.   *)
(* A chart for more than one kind of play, an utage, has no ranked         *)
(* achievement.                                                            *)
Ranked(record) == IF record.utage THEN None ELSE record.achievement
FromScore(score, catalog) ==
  LET chart == catalog[score.chart]
      constant == Or(score.constant, chart.constant)
  IN [chart |-> score.chart, utage |-> chart.utage, current |-> chart.current,
      constant |-> constant, fit |-> chart.fit,
      achievement |-> score.achievement, dx |-> score.dx, original |-> None,
      rating |-> IF constant # None /\ ~chart.utage /\ score.achievement # None
                 THEN SongRating(constant, score.achievement) ELSE score.rating]
FromScores(scores, catalog) == {FromScore(s, catalog) : s \in scores}

-----------------------------------------------------------------------------
(* How far the charts of a list are from what all players make of them.    *)

FitIndex(section) ==
  LET actual(r) == Or(r.original, r.rating)
  IN
  Using({i \in DOMAIN section :
           LET r == section[i]
           IN actual(r) # None /\ Ranked(r) # None /\ r.fit # None /\ r.constant \notin {None, 0}}, LAMBDA counted :
  LET sum(of(_)) == MapThenSumSet(LAMBDA i : of(section[i]), counted)
  IN
  Using(sum(LAMBDA r : actual(r)), LAMBDA rated :
  Using(sum(LAMBDA r : actual(r) - SongRating(r.fit, r.achievement)), LAMBDA virtual :
    [counted |-> Cardinality(counted), missing |-> Len(section) - Cardinality(counted),
     virtual |-> virtual, rated |-> rated,
     delta |-> IF rated = 0 THEN Integer(0)
               ELSE Ratio(sum(LAMBDA r : (r.constant - r.fit) * actual(r)), 10 * rated),
     label |-> CASE rated = 0 -> "none"
                 [] rated > 0 /\ 100 * virtual > rated -> "clearly inflated"
                 [] rated > 0 /\ 100 * virtual \in (rated \div 5) + 1..rated -> "slightly inflated"
                 [] rated > 0 /\ -100 * virtual > rated -> "clearly deflated"
                 [] rated > 0 /\ -100 * virtual \in (rated \div 5) + 1..rated -> "slightly deflated"
                 [] OTHER -> "balanced"])))
-----------------------------------------------------------------------------
(* The best-50 list.                                                       *)

(* The fields in which two tuples are compared one after the other.        *)
Ahead(v, w) == \E i \in DOMAIN v : v[i] > w[i] /\ \A k \in 1..i - 1 : v[k] = w[k]

Sorted(S, before(_,_)) ==
  [i \in 1..Cardinality(S) |-> CHOOSE x \in S : Cardinality({y \in S : before(y, x)}) = i - 1]

(* Mutant: the order of two charts looks at the achievement first. *)
ChartOrderByAchievement(l, r) ==
  Ahead(<<Ranked(l), l.rating, Or(l.fit, l.constant), r.chart>>,
        <<Ranked(r), r.rating, Or(r.fit, r.constant), l.chart>>)

ChartOrder(l, r) ==
  Ahead(<<l.rating, Ranked(l), Or(l.fit, l.constant), r.chart>>,
        <<r.rating, Ranked(r), Or(r.fit, r.constant), l.chart>>)

(* What a record counts with: the rating it has, or the one it would have  *)
(* by the constant fitted to all players.                                  *)
Rated(records, mode) ==
  LET plain == {r \in records : ~r.utage}
      fits == {r \in plain : r.fit # None /\ r.achievement # None}
  IN IF mode = "actual" THEN {r \in plain : r.rating # None}
     ELSE {[r EXCEPT !.rating = SongRating(r.fit, r.achievement), !.original = r.rating] : r \in fits}

(* One record of every chart; of records that are equal in the order, any. *)
FirstOfEach(records, before(_,_)) ==
  LET of(c) == {r \in records : r.chart = c}
  IN {CHOOSE r \in of(c) : \A q \in of(c) : ~before(q, r) : c \in {r.chart : r \in records}}
Unique(records) == FirstOfEach(records, ChartOrder)

SectionOf(records, capacity) ==
  LET sorted == Sorted(records, ChartOrder)
  IN SubSeq(sorted, 1, IF Len(sorted) < capacity THEN Len(sorted) ELSE capacity)
SumRating(section) == FoldLeft(LAMBDA sum, r : sum + r.rating, 0, section)

B50(records, mode) ==
  Using(Unique(Rated(records, mode)), LAMBDA unique :
  Using(SectionOf({r \in unique : ~r.current}, LegacyCapacity), LAMBDA legacy :
  Using(SectionOf({r \in unique : r.current}, CurrentCapacity), LAMBDA current :
    [legacy |-> legacy, current |-> current,
     b35 |-> SumRating(legacy), b15 |-> SumRating(current),
     total |-> SumRating(legacy) + SumRating(current), fitIndex |-> FitIndex(legacy \o current)])))

(* A list that the provider has already divided: its totals go before what *)
(* its charts add up to.                                                   *)
B50FromSections(legacy, current, upstream) ==
  Using(SectionOf(legacy, LegacyCapacity), LAMBDA l :
  Using(SectionOf(current, CurrentCapacity), LAMBDA c :
  Using(Or(upstream.b35, SumRating(l)), LAMBDA b35 :
  Using(Or(upstream.b15, SumRating(c)), LAMBDA b15 :
    [legacy |-> l, current |-> c, b35 |-> b35, b15 |-> b15,
     total |-> IF None \in {upstream.b35, upstream.b15, upstream.total} THEN b35 + b15
               ELSE upstream.total,
     fitIndex |-> FitIndex(l \o c)]))))

(* The record a chart is judged by where only one is shown.                *)
ScoreOrder(l, r) == Ahead(<<l.achievement, l.dx, l.rating>>, <<r.achievement, r.dx, r.rating>>)
BestByChart(records) == FirstOfEach(records, ScoreOrder)

=============================================================================
