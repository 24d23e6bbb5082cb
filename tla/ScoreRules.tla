------------------------------ MODULE ScoreRules ------------------------------
(***************************************************************************)
(* What a judgment is worth, what a vector of judgment counts adds up to   *)
(* and the achievement it is shown as (maimai-core, scoring).              *)
(*                                                                         *)
(* The code computes in checked 128-bit integers and normalised ratios.    *)
(* No chart comes near an overflow, so an integer is an integer here.      *)
(***************************************************************************)
EXTENDS Integers, FiniteSets, FiniteSetsExt, Functions

(* F of a value that is computed once.                                    *)
Using(value, F(_)) == F(value)

NoteType == {"tap", "touch", "hold", "slide", "break"}
Great    == {"great_low", "great_mid", "great_high"}
Perfect  == {"perfect_low", "perfect_high"}
Judgment == {"miss", "good", "critical"} \cup Great \cup Perfect
RawMode  == {"base", "break_bonus", "oldscore", "dxscore"}
Achievement == {"oldacc", "dxacc"}

Counts == [NoteType -> [Judgment -> Nat]]
NoCounts == [t \in NoteType |-> [j \in Judgment |-> 0]]

-----------------------------------------------------------------------------
(* The tables.                                                             *)

Weight == [tap |-> 1, touch |-> 1, hold |-> 2, slide |-> 3, break |-> 5]
BreakBase == [good |-> 1000, great_low |-> 1250, great_mid |-> 1500, great_high |-> 2000]

BaseValue(t, j) ==
  CASE j = "miss" -> 0
    [] t = "break" /\ j \in DOMAIN BreakBase -> BreakBase[j]
    [] t # "break" /\ j = "good" -> 250 * Weight[t]
    [] t # "break" /\ j \in Great -> 400 * Weight[t]
    [] OTHER -> 500 * Weight[t]

BreakBonusValue(t, j) ==
  IF t # "break" \/ j = "miss" THEN 0
  ELSE IF j = "good" THEN 30
  ELSE IF j \in Great THEN 40
  ELSE IF j = "perfect_low" THEN 50
  ELSE IF j = "perfect_high" THEN 75
  ELSE 100

OldScoreValue(t, j) ==
  BaseValue(t, j) + CASE t = "break" /\ j = "perfect_high" -> 50
                      [] t = "break" /\ j = "critical" -> 100
                      [] OTHER -> 0

DxScoreValue(j) == CASE j \in Great -> 1 [] j \in Perfect -> 2 [] j = "critical" -> 3 [] OTHER -> 0

ScoreValue(t, j, mode) ==
  CASE mode = "base" -> BaseValue(t, j)
    [] mode = "break_bonus" -> BreakBonusValue(t, j)
    [] mode = "oldscore" -> OldScoreValue(t, j)
    [] mode = "dxscore" -> DxScoreValue(j)
    [] OTHER -> 0


(* Only a break tells the variants of great and perfect apart.             *)
DisplayName(t, j) ==
  CASE t # "break" /\ j \in Great -> "great"
    [] t # "break" /\ j \in Perfect -> "perfect"
    [] OTHER -> j

-----------------------------------------------------------------------------
(* Ratios in lowest terms, with a positive denominator.                    *)

Gcd[p \in Nat \X Nat] == IF p[2] = 0 THEN p[1] ELSE Gcd[<<p[2], p[1] % p[2]>>]
Abs(n) == IF n < 0 THEN -n ELSE n
Lcm(m, n) == (m \div Gcd[<<m, n>>]) * n

Ratio(n, d) == LET g == Gcd[<<Abs(n), d>>] IN [n |-> n \div g, d |-> d \div g]
Integer(n) == [n |-> n, d |-> 1]
Plus(r, s) == Ratio(r.n * s.d + s.n * r.d, r.d * s.d)
Minus(r, s) == Plus(r, [s EXCEPT !.n = -s.n])
Times(r, k) == Ratio(r.n * k, r.d)
Over(r, k) == Ratio(r.n, r.d * k)
AtMost(r, s) == r.n * s.d <= s.n * r.d
Floor(r) == r.n \div r.d
Ceil(r) == IF r.n % r.d = 0 THEN Floor(r) ELSE Floor(r) + 1
IsInteger(r) == r.d = 1

DisplayFloor(r, digits) == Floor(Times(r, 10^digits))
DisplayHalfUp(r, digits) ==
  LET scaled == r.n * 10^digits
  IN (scaled \div r.d) + IF 2 * (scaled % r.d) >= r.d THEN 1 ELSE 0

ValidDigits(digits) == digits \in 1..8

-----------------------------------------------------------------------------
(* score_counts.                                                           *)

(* What a vector of one note type's counts is worth in some scale of values. *)
WeightedSum(c, values) == MapThenSumSet(LAMBDA j : c[j] * values[j], Judgment)
Values(t, mode) == [j \in Judgment |-> ScoreValue(t, j, mode)]
Sum(counts, mode) == MapThenSumSet(LAMBDA t : WeightedSum(counts[t], Values(t, mode)), NoteType)

TotalsOf(counts) == [t \in NoteType |-> SumFunction(counts[t])]
MaxBaseScore(totals) == MapThenSumSet(LAMBDA t : totals[t] * 500 * Weight[t], NoteType)
MaxOldScore(totals) == MaxBaseScore(totals) + 100 * totals["break"]

OldAchievement(counts) == Ratio(100 * Sum(counts, "oldscore"), MaxBaseScore(TotalsOf(counts)))
DxAchievement(counts) ==
  Using(TotalsOf(counts), LAMBDA totals :
  Using(Ratio(100 * Sum(counts, "base"), MaxBaseScore(totals)), LAMBDA base :
    IF totals["break"] = 0 THEN base
    ELSE Plus(base, Ratio(Sum(counts, "break_bonus"), 100 * totals["break"]))))

(* What the counts come to in a mode: a raw score or an achievement.       *)
Selected(counts, mode) ==
  CASE mode = "oldacc" -> OldAchievement(counts)
    [] mode = "dxacc" -> DxAchievement(counts)
    [] OTHER -> Integer(Sum(counts, mode))

(* The row of a note type and a displayed name; the worth of a single note *)
(* is that of one of the judgments it shows.                               *)
Row(counts, t, name) ==
  LET shown == {j \in Judgment : DisplayName(t, j) = name}
      sum(mode) == MapThenSumSet(LAMBDA j : counts[t][j] * ScoreValue(t, j, mode), shown)
      one == CHOOSE j \in shown : TRUE
  IN [type |-> t, name |-> name,
      count |-> MapThenSumSet(LAMBDA j : counts[t][j], shown),
      perNote |-> [mode \in RawMode |-> ScoreValue(t, one, mode)],
      contribution |-> [mode \in RawMode |-> sum(mode)]]

(* score_counts; without notes there is no achievement.                    *)
ScoreCounts(counts, digits, includeZero) ==
  IF ~ValidDigits(digits) THEN [ok |-> FALSE]
  ELSE LET totals == TotalsOf(counts)
           listed == {p \in NoteType \X Judgment : includeZero \/ counts[p[1]][p[2]] # 0}
       IN [ok |-> TRUE,
           rows |-> {Row(counts, p[1], DisplayName(p[1], p[2])) : p \in listed},
           totals |-> [mode \in RawMode |-> Sum(counts, mode)],
           shown |-> [mode \in IF MaxBaseScore(totals) > 0 THEN Achievement ELSE {} |->
                        [floor |-> DisplayFloor(Selected(counts, mode), digits),
                         halfUp |-> DisplayHalfUp(Selected(counts, mode), digits)]]]
=============================================================================
