----------------------------- MODULE RiseScores -----------------------------
(***************************************************************************)
(* Which charts a player is told to play next, up to which achievement, to *)
(* raise the rating (maimai-app rise_score).                               *)
(*                                                                         *)
(* Which of the targets of a chart the expectation prefers, and which of   *)
(* more candidates than fit the draw takes, is left open.                  *)
(***************************************************************************)
EXTENDS Ratings

CONSTANT RiseLimit  \* the charts recommended of a section

ASSUME RiseAssumption == RiseLimit \in Nat \ {0}

Targets == {9900, 9950, 10000, 10050}

(* What the catalogue offers for a section.                                *)
Seeds(catalog, current) ==
  {c \in DOMAIN catalog : catalog[c].constant # None /\ ~catalog[c].utage /\ catalog[c].current = current}

FitBucket(chart) ==
  LET delta == chart.constant - chart.fit
  IN CASE chart.fit = None -> 4
       [] chart.fit # None /\ delta > 2 -> 0
       [] chart.fit # None /\ delta \in 0..2 -> 1
       [] chart.fit # None /\ delta \in -2..-1 -> 2
       [] OTHER -> 3

-----------------------------------------------------------------------------
(* What a recommendation has to beat.                                      *)

LastRating(section) == IF section = <<>> THEN 0 ELSE Last(section).rating
Full(section, capacity) == Len(section) >= capacity

ReplacementFloor(own, capacity) == IF Full(own, capacity) THEN LastRating(own) ELSE 0

CandidateFloor(own, other, capacity) ==
  CASE ~Full(own, capacity) -> Max({LastRating(own), LastRating(other), 250})
    [] Full(own, capacity) /\ LastRating(own) # 0 -> LastRating(own)
    [] Full(own, capacity) /\ LastRating(own) = 0 /\ LastRating(other) # 0 -> LastRating(other)
    [] OTHER -> 250

RecommendationFloor(own, other, capacity) ==
  Max({ReplacementFloor(own, capacity), CandidateFloor(own, other, capacity)})

EffectiveFloor(replacement, recommendation) ==
  IF replacement # 0 THEN recommendation
  ELSE IF recommendation > 18 THEN recommendation - 18 ELSE 0

Ignored(section) ==
  {r.chart : r \in {q \in ToSet(section) : Ranked(q) # None /\ Ranked(q) >= Cap}}

(* An asked-for increase of 0 asks for none.                               *)
PassesFloor(rating, old, gate, recommendation, score) ==
  /\ rating > gate /\ rating > old
  /\ score > 0 => rating >= recommendation + score

-----------------------------------------------------------------------------
(* What a player is expected to reach.                                     *)

(* The share of the values, in hundredths, below which the result lies.    *)
Percentile(sorted, share) ==
  LET scaled == (Len(sorted) - 1) * share
      lower == (scaled \div 100) + 1
      upper == IF lower < Len(sorted) THEN lower + 1 ELSE lower
      past == scaled % 100
  IN Ratio(sorted[lower] * (100 - past) + sorted[upper] * past, 1000)

(* The constant that is worth a rating at an achievement.                  *)
FloorConstant(rating, target) == Ratio(rating * 100000, target * Coefficient(target))

Higher(r, s) == IF AtMost(r, s) THEN s ELSE r
Ability(profile, target, floor) ==
  LET achieved == {r \in profile : Ranked(r) # None /\ Ranked(r) >= target /\ r.constant # None}
      sorted == Sorted(achieved, LAMBDA l, r : Ahead(<<r.constant, l.chart>>, <<l.constant, r.chart>>))
      constants == [i \in DOMAIN sorted |-> sorted[i].constant]
      observed == CASE Len(constants) >= 8 -> Percentile(constants, 82)
                    [] Len(constants) \in 3..7 -> Percentile(constants, 70)
                    [] Len(constants) \in 1..2 -> Ratio(Last(constants) - 2, 10)
                    [] OTHER -> Integer(0)
  IN Higher(observed, FloorConstant(floor, target))

(* From here on a chart that was never played has achieved 0.              *)
TargetAllowed(target, old) ==
  target <= CASE old = 0 -> 10000
              [] old \in 1..9699 -> 9950
              [] old \in 9700..9949 -> 10000
              [] OTHER -> 10050

(* In hundredths.                                                          *)
MarginLimit(target, old) ==
  (IF old > 0 /\ old + 80 >= target THEN 15 ELSE 0)
  + CASE target = 10050 -> (IF old = 0 THEN 0 ELSE 25)
      [] target = 10000 -> (IF old = 0 THEN 15 ELSE 35)
      [] target = 9950  -> (IF old = 0 THEN 0 ELSE 55)
      [] OTHER          -> (IF old = 0 THEN 25 ELSE 75)

Reachable(constant, target, old, ability) ==
  AtMost(Ratio(constant, 10), Plus(ability, Ratio(MarginLimit(target, old), 100)))

-----------------------------------------------------------------------------
(* The recommendations of a section.                                       *)

(* Mutant: the gain is what the chart gains, whatever it displaces. *)
GainOnChart(rating, old, replacement) == rating - old

Gain(rating, old, replacement) == rating - Max({old, replacement})

(* The items that a section may recommend, by chart.                       *)
Items(q, b50, best, current) ==
  Using(IF current THEN b50.current ELSE b50.legacy, LAMBDA own :
  Using(IF current THEN b50.legacy ELSE b50.current, LAMBDA other :
  Using(IF current THEN CurrentCapacity ELSE LegacyCapacity, LAMBDA capacity :
  Using(ReplacementFloor(own, capacity), LAMBDA replacement :
  Using(RecommendationFloor(own, other, capacity), LAMBDA floor :
  Using({[target |-> t, ability |-> Ability(best, t, floor)] : t \in Targets}, LAMBDA ability :
  Using(IF q.algorithm = "legacy" THEN floor ELSE EffectiveFloor(replacement, floor), LAMBDA gate :
  LET old(c) == Max({Ranked(r) : r \in {s \in best : s.chart = c}} \cup {None})
      oldRating(c) == IF old(c) = None THEN 0 ELSE SongRating(q.catalog[c].constant, old(c))
      rating(c, t) == SongRating(q.catalog[c].constant, t)
      passing(c) == {t \in Targets : PassesFloor(rating(c, t), oldRating(c), gate, floor, q.score)}
      before(c) == IF old(c) = None THEN 0 ELSE old(c)
      expected(c) ==
        {t \in passing(c) :
           /\ TargetAllowed(t, before(c))
           /\ \E a \in ability : a.target = t /\ Reachable(q.catalog[c].constant, t, before(c), a.ability)
           /\ rating(c, t) > replacement}
      targets(c) == IF q.algorithm = "expected" THEN expected(c)
                    ELSE {t \in passing(c) : \A u \in passing(c) : t <= u}
  IN UNION {{[chart |-> c, bucket |-> FitBucket(q.catalog[c]), target |-> t, rating |-> rating(c, t),
              gain |-> Gain(rating(c, t), oldRating(c), replacement)] : t \in targets(c)} :
              c \in Seeds(q.catalog, current) \ Ignored(own)})))))))

OnePerChart(items) == \A i, k \in items : i.chart = k.chart => i = k

(* The lists a section may end with: all charts that have an item if they  *)
(* fit, else a draw, which by the legacy rule empties the buckets one      *)
(* after the other.                                                        *)
Selections(q, items) ==
  LET charts == {i.chart : i \in items}
      size == IF Cardinality(charts) < RiseLimit THEN Cardinality(charts) ELSE RiseLimit
      inOrder(s) == \A i \in s, k \in items : k.bucket < i.bucket => k \in s
  IN {s \in SUBSET items : /\ Cardinality(s) = size /\ OnePerChart(s)
                           /\ q.algorithm = "legacy" => inOrder(s)}

(* The recommendations a player may get.                                   *)
Recommendations(legacy, current) ==
  IF legacy \cup current = {} THEN [verdict |-> "no recommendations"]
  ELSE [verdict |-> "recommended", legacy |-> legacy, current |-> current]

RiseAnswers(q) ==
  Using(FromScores(q.scores, q.catalog), LAMBDA records :
  Using(B50(records, "actual"), LAMBDA b50 :
  Using(BestByChart(records), LAMBDA best :
  Using(Selections(q, Items(q, b50, best, FALSE)), LAMBDA legacy :
  Using(Selections(q, Items(q, b50, best, TRUE)), LAMBDA current :
    {Recommendations(l, c) : l \in legacy, c \in current})))))
=============================================================================
