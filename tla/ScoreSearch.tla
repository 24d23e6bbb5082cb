----------------------------- MODULE ScoreSearch -----------------------------
(***************************************************************************)
(* find_score_combinations (maimai-core, scoring/search): which vectors of *)
(* judgment counts produce a raw score or a displayed achievement under    *)
(* the given constraints, how many there are, and a few of them.           *)
(*                                                                         *)
(* A map from a metric to its bucket (how many vectors, some of them) is a *)
(* function.  The samples of a bucket are a set: which ones a preview      *)
(* shows depends on the order of insertion, which is left out.             *)
(***************************************************************************)
EXTENDS ScoreRules, SequencesExt

Preview(S, limit) ==
  FoldSet(LAMBDA x, acc : IF Cardinality(acc) < limit THEN acc \cup {x} ELSE acc, {}, S)

(* The element of rank i when S is ordered by key. *)
Nth(S, key(_), i) == CHOOSE x \in S : Cardinality({y \in S : key(y) <= key(x)}) = i

OrElse(f, t, j, default) == IF <<t, j>> \in DOMAIN f THEN f[<<t, j>>] ELSE default
Lesser(m, n) == IF m < n THEN m ELSE n
Greater(m, n) == IF m > n THEN m ELSE n

-----------------------------------------------------------------------------
(* The constraints of a request, normalised.                               *)

Allowed(req, t) ==
  (req.allowed[t] \ req.disallowed[t]) \ IF req.noMissGood THEN {"miss", "good"} ELSE {}

(* The breaks that have to be critical when only cap may be anything else. *)
BreakMinCritical(req) == Greater(req.totals["break"] - req.cap, 0)

(* No cap is -1.                                                           *)
Minimums(req) ==
  IF req.cap = -1 \/ BreakMinCritical(req) = 0 THEN req.minimum
  ELSE [p \in DOMAIN req.minimum \cup {<<"break", "critical">>} |->
          IF p = <<"break", "critical">>
          THEN Greater(OrElse(req.minimum, "break", "critical", 0), BreakMinCritical(req))
          ELSE req.minimum[p]]

(* What is fixed for a note type before the search, what is left and where *)
(* it may go.                                                              *)
Plan(req, t) ==
  Using(Minimums(req), LAMBDA min :
  Using({j \in Judgment : <<t, j>> \in DOMAIN req.fixed}, LAMBDA fixed :
  Using([j \in Judgment |-> IF j \in fixed THEN req.fixed[<<t, j>>] ELSE OrElse(min, t, j, 0)], LAMBDA base :
  Using(req.totals[t] - SumFunction(base), LAMBDA left :
  LET room(j) == IF j \notin Allowed(req, t) \/ j \in fixed THEN 0
                 ELSE IF <<t, j>> \in DOMAIN req.maximum THEN req.maximum[<<t, j>>] - base[j]
                 ELSE left
  IN IF req.totals[t] = 0
     THEN [type |-> t, base |-> NoCounts[t], remaining |-> 0, room |-> NoCounts[t]]
     ELSE [type |-> t, base |-> base, remaining |-> left, room |-> [j \in Judgment |-> room(j)]]))))

NamesDisallowed(req, t) ==
  \E j \in Judgment \ Allowed(req, t) :
    <<t, j>> \in DOMAIN req.fixed \cup DOMAIN Minimums(req) \cup DOMAIN req.maximum

(* build_note_type_plan refuses the constraints of a note type.            *)
PlanFails(req, t) ==
  LET plan == Plan(req, t) IN
  /\ req.totals[t] > 0
  /\ \/ NamesDisallowed(req, t)
     \/ \E j \in Judgment : /\ <<t, j>> \in DOMAIN req.fixed
                            /\ req.fixed[<<t, j>>] < OrElse(Minimums(req), t, j, 0)
     \/ \E j \in Judgment : /\ <<t, j>> \in DOMAIN req.maximum
                            /\ plan.base[j] > req.maximum[<<t, j>>]
     \/ plan.remaining < 0
     \/ SumFunction(plan.room) < plan.remaining

-----------------------------------------------------------------------------
(* The vectors of one note type.                                           *)

Binomial(n, k) ==
  LET up[d \in 0..k] == IF d = 0 THEN 1 ELSE (up[d - 1] * (n - k + d)) \div d
  IN up[k]

(* Mutant: what exceeds a cap is taken off one note too early. *)
BoundedCompositionsAtCap(total, caps) ==
  LET n == Cardinality(DOMAIN caps)
      shifted(over) == total - MapThenSumSet(LAMBDA j : caps[j], over)
  IN IF n = 0 THEN (IF total = 0 THEN 1 ELSE 0)
     ELSE MapThenSumSet(LAMBDA over : (IF Cardinality(over) % 2 = 0 THEN 1 ELSE -1)
                                      * Binomial(shifted(over) + n - 1, n - 1),
                        {over \in SUBSET DOMAIN caps : shifted(over) >= 0})

(* How many ways there are to spread total over the judgments of caps, by  *)
(* inclusion and exclusion.                                                *)
BoundedCompositions(total, caps) ==
  LET n == Cardinality(DOMAIN caps)
      shifted(over) == total - MapThenSumSet(LAMBDA j : caps[j] + 1, over)
  IN IF n = 0 THEN (IF total = 0 THEN 1 ELSE 0)
     ELSE MapThenSumSet(LAMBDA over : (IF Cardinality(over) % 2 = 0 THEN 1 ELSE -1)
                                      * Binomial(shifted(over) + n - 1, n - 1),
                        {over \in SUBSET DOMAIN caps : shifted(over) >= 0})

(* A vector over some judgments as one over all.                           *)
Widen(c) == [j \in Judgment |-> IF j \in DOMAIN c THEN c[j] ELSE 0]

(* For every number of notes a group of judgments can take.                *)
Distributions(group, room, most, limit) ==
  LET caps == [j \in group |-> Lesser(room[j], most)]
      spread(n) == {c \in [group -> 0..n] : SumFunction(c) = n /\ \A j \in group : c[j] <= caps[j]}
  IN {[at |-> n, count |-> BoundedCompositions(n, caps),
       samples |-> IF limit = 0 THEN {} ELSE Preview({Widen(c) : c \in spread(n)}, limit)] :
        n \in 0..Lesser(most, SumFunction(caps))}

Add(c, d) == [j \in Judgment |-> c[j] + d[j]]
Cross(left, right, limit) == Preview({Add(c, d) : c \in left, d \in right}, limit)

(* add_bucket: what pairs of buckets lead to, by where they lead.          *)
Gather(pairs, to(_), join(_,_,_), limit) ==
  {LET here == {p \in pairs : to(p) = k}
   IN [at |-> k, count |-> MapThenSumSet(LAMBDA p : p[1].count * p[2].count, here),
       samples |-> Preview(UNION {join(p[1].samples, p[2].samples, limit) : p \in here}, limit)] :
     k \in {to(p) : p \in pairs}}

(* More states than there may be end a search. *)
Counted(acc, states, maxStates) == [ok |-> acc.ok /\ Cardinality(states) <= maxStates, states |-> states]
Start(sample, at) == {[at |-> at, count |-> 1, samples |-> sample]}

(* possible_metrics_for_plan: the judgments are taken by ascending value,  *)
(* those worth nothing last; a metric beyond the cap is given up.  More    *)
(* states than max_states after a group end the search.                    *)
PossibleMetrics(plan, values, cap, maxStates, limit) ==
  Using(WeightedSum(plan.base, values), LAMBDA fixed :
  Using(IF limit = 0 THEN {} ELSE {plan.base}, LAMBDA sample :
  Using({j \in Judgment : plan.room[j] > 0}, LAMBDA usable :
  Using({values[j] : j \in usable} \ {0}, LAMBDA worth :
  LET group(v) == {j \in usable : values[j] = v}
      most(v) == Lesser(plan.remaining, (cap - fixed) \div v)
      grown(states, v) ==
        Gather({p \in states \X Distributions(group(v), plan.room, most(v), limit) :
                  /\ p[1].at.used + p[2].at <= plan.remaining
                  /\ p[1].at.score + v * p[2].at <= cap - fixed},
               LAMBDA p : [used |-> p[1].at.used + p[2].at, score |-> p[1].at.score + v * p[2].at],
               Cross, limit)
      grow(acc, v) == Counted(acc, grown(acc.states, v), maxStates)
  IN
  Using(FoldLeft(grow, [ok |-> TRUE, states |-> Start(sample, [used |-> 0, score |-> 0])],
                 [i \in 1..Cardinality(worth) |-> Nth(worth, LAMBDA v : v, i)]), LAMBDA end :
    CASE cap < fixed -> [ok |-> TRUE, buckets |-> {}]
      [] cap >= fixed /\ plan.remaining = 0 -> [ok |-> TRUE, buckets |-> Start(sample, fixed)]
      [] OTHER ->
         [ok |-> end.ok,
          buckets |-> Gather({p \in end.states \X Distributions(group(0), plan.room, plan.remaining, limit) :
                                p[1].at.used + p[2].at = plan.remaining},
                             LAMBDA p : fixed + p[1].at.score, Cross, limit)])))))

-----------------------------------------------------------------------------
(* All note types together.                                                *)

TypeOrder == <<"tap", "touch", "hold", "slide", "break">>
Index(t) == CHOOSE i \in DOMAIN TypeOrder : TypeOrder[i] = t
Metrics(buckets) == {b.at : b \in buckets}
Least(buckets) == IF buckets = {} THEN 0 ELSE Min(Metrics(buckets))
Most(buckets)  == IF buckets = {} THEN 0 ELSE Max(Metrics(buckets))

(* The least or the most that the types after i contribute.                *)
Suffix(order, bound(_), i) ==
  MapThenSumSet(LAMBDA k : bound(order[k].buckets), {k \in DOMAIN order : k > i})

(* combine_per_type_buckets: the types with few metrics first; what cannot *)
(* reach the target with all that follows is given up.                     *)
Combine(searches, min, max, maxStates, limit) ==
  Using([i \in DOMAIN TypeOrder |->
           Nth(searches, LAMBDA s : 10 * Cardinality(s.buckets) + Index(s.type), i)], LAMBDA order :
  LET put(t, left, right) == Preview({[c EXCEPT ![t] = d] : c \in left, d \in right}, limit)
      joined(states, i) ==
        Gather({p \in states \X order[i].buckets :
                  /\ p[1].at + p[2].at >= min - Suffix(order, Most, i)
                  /\ p[1].at + p[2].at <= max - Suffix(order, Least, i)},
               LAMBDA p : p[1].at + p[2].at,
               LAMBDA left, right, n : put(order[i].type, left, right), limit)
      join(acc, i) == Counted(acc, joined(acc.states, i), maxStates)
  IN
  Using(FoldLeft(join, [ok |-> TRUE, states |-> Start(IF limit = 0 THEN {} ELSE {NoCounts}, 0)],
                 [i \in DOMAIN TypeOrder |-> i]), LAMBDA end :
    [ok |-> end.ok, buckets |-> {b \in end.states : b.at \in min..max}]))

-----------------------------------------------------------------------------
(* The metric of an achievement is what is lost against a perfect score.   *)

AchievementMetric(mode, totals) ==
  Using(MaxBaseScore(totals), LAMBDA base :
  Using(100 * totals["break"], LAMBDA bonus :
  Using(IF mode = "oldacc" \/ bonus = 0 THEN base ELSE Lcm(base, bonus), LAMBDA denominator :
  Using((100 * denominator) \div base, LAMBDA baseWeight :
  Using(IF bonus = 0 THEN 0 ELSE denominator \div bonus, LAMBDA bonusWeight :
  LET worth(t, j) == IF mode = "oldacc" THEN 100 * OldScoreValue(t, j)
                     ELSE baseWeight * BaseValue(t, j) + bonusWeight * BreakBonusValue(t, j)
  IN [denominator |-> denominator,
      max |-> IF mode = "oldacc" THEN 100 * MaxOldScore(totals)
              ELSE baseWeight * base + bonusWeight * bonus,
      loss |-> [t \in NoteType |-> [j \in Judgment |-> worth(t, "critical") - worth(t, j)]]])))))

LossAgainst(metric, bound) == Minus(Integer(metric.max), Times(bound, metric.denominator))

(* achievement_loss_range; an empty range when nothing can match.          *)
LossRange(req, metric) ==
  LET unit == Ratio(1, 10^req.digits)
      at == req.target.at
      range(low, below) == [min |-> Greater(Floor(LossAgainst(metric, below)) + 1, 0),
                            max |-> Floor(LossAgainst(metric, low))]
  IN CASE req.target.kind = "range" ->
            [min |-> Greater(Ceil(LossAgainst(metric, req.target.to)), 0),
             max |-> Floor(LossAgainst(metric, req.target.from))]
       [] req.target.kind = "at" /\ req.display = "floor" -> range(at, Plus(at, unit))
       [] req.target.kind = "at" /\ req.display = "half_up" ->
            range(Minus(at, Over(unit, 2)), Plus(at, Over(unit, 2)))
       [] req.target.kind = "at" /\ req.display = "exact" ->
            LET loss == LossAgainst(metric, at)
            IN IF IsInteger(Times(at, metric.denominator))
               THEN [min |-> Greater(loss.n, 0), max |-> loss.n]
               ELSE [min |-> 1, max |-> 0]

-----------------------------------------------------------------------------
(* The search.                                                             *)

Answers(what) == [verdict |-> what]

(* A target that is not of the kind of the mode, turned around or, for an  *)
(* achievement, with neither bound ("open"); digits are looked at for an   *)
(* achievement only.  An absent bound is 0, or one that nothing reaches.   *)
InvalidRequest(req) ==
  \/ SumFunction(req.totals) = 0 \/ req.maxStates = 0
  \/ req.mode \in RawMode /\ (req.target.kind # "raw" \/ req.target.min < 0 \/ req.target.min > req.target.max)
  \/ /\ req.mode \in Achievement
     /\ \/ req.target.kind \in {"raw", "open"} \/ ~ValidDigits(req.digits)
        \/ req.target.kind = "range" /\ ~AtMost(req.target.from, req.target.to)

MetricValues(req, metric, t) == IF req.mode \in RawMode THEN Values(t, req.mode) ELSE metric.loss[t]

TargetRange(req, metric) ==
  IF req.mode \in RawMode THEN [min |-> req.target.min, max |-> req.target.max]
  ELSE LossRange(req, metric)

(* What a note type can contribute, and what is reported of it.            *)
Contribution(t, found) ==
  [type |-> t, buckets |-> found.buckets,
   verdict |-> CASE ~found.ok -> "state limit"
                 [] found.ok /\ found.buckets = {} -> "constraint"
                 [] OTHER -> "ok"]
Search(req, plan, metric, cap) ==
  IF PlanFails(req, plan.type) THEN [type |-> plan.type, verdict |-> "constraint", buckets |-> {}]
  ELSE Contribution(plan.type, PossibleMetrics(plan, MetricValues(req, metric, plan.type), cap,
                                               req.maxStates, req.maxSolutions))

Summary(search) ==
  [type |-> search.type, count |-> MapThenSumSet(LAMBDA b : b.count, search.buckets),
   least |-> Least(search.buckets), most |-> Most(search.buckets)]

Found(req, range, searches) ==
  Using(Combine(searches, range.min, range.max, req.maxStates, req.maxSolutions), LAMBDA all :
  LET before(k) == MapThenSumSet(LAMBDA b : Cardinality(b.samples), {b \in all.buckets : b.at < k})
      room(k) == Greater(req.maxSolutions - before(k), 0)
  IN IF ~all.ok THEN Answers("state limit")
     ELSE [verdict |-> IF all.buckets = {} THEN "none" ELSE "found",
           metrics |-> Metrics(all.buckets),
           count |-> MapThenSumSet(LAMBDA b : b.count, all.buckets),
           solutions |-> UNION {{<<b.at, c>> : c \in Preview(b.samples, room(b.at))} : b \in all.buckets},
           summary |-> {Summary(s) : s \in {q \in searches : req.totals[q.type] > 0}}])

(* find_score_combinations.  The note types are planned and searched one   *)
(* after the other; the first that fails ends the search.                  *)
Searched(req, range, searches) ==
  LET failed == {s \in searches : s.verdict # "ok" /\ req.totals[s.type] > 0}
  IN CASE range.max < range.min -> Answers("none")
       [] range.max >= range.min /\ failed # {} ->
            Answers(Nth(failed, LAMBDA s : Index(s.type), 1).verdict)
       [] OTHER -> Found(req, range, searches)
SearchIn(req, metric, range) ==
  Searched(req, range, {Search(req, plan, metric, range.max) : plan \in {Plan(req, t) : t \in NoteType}})
SearchBy(req, metric) == SearchIn(req, metric, TargetRange(req, metric))
FindScoreCombinations(req) ==
  IF InvalidRequest(req) THEN Answers("invalid")
  ELSE SearchBy(req, IF req.mode \in RawMode THEN <<>> ELSE AchievementMetric(req.mode, req.totals))

-----------------------------------------------------------------------------
(* The question itself, without a plan, a metric or a cap: all vectors of  *)
(* as many judgments as there are notes.                                   *)

Vectors[n \in Nat] ==
  IF n = 0 THEN {NoCounts["tap"]}
  ELSE {[c EXCEPT ![j] = @ + 1] : c \in Vectors[n - 1], j \in Judgment}

Satisfies(req, t, c) ==
  \A j \in Judgment :
    /\ c[j] > 0 => /\ j \in req.allowed[t] \ req.disallowed[t]
                   /\ ~(req.noMissGood /\ j \in {"miss", "good"})
    /\ <<t, j>> \in DOMAIN req.fixed   => c[j] = req.fixed[<<t, j>>]
    /\ <<t, j>> \in DOMAIN req.minimum => c[j] >= req.minimum[<<t, j>>]
    /\ <<t, j>> \in DOMAIN req.maximum => c[j] <= req.maximum[<<t, j>>]
    /\ t = "break" /\ req.cap # -1     => SumFunction(c) - c["critical"] <= req.cap

Hits(req, value) ==
  LET target == req.target
      shown(r) == Floor(Times(r, 10^req.digits))
  IN CASE target.kind = "raw" -> value.n \in target.min..target.max
       [] target.kind = "range" -> AtMost(target.from, value) /\ AtMost(value, target.to)
       [] target.kind = "at" /\ req.display = "floor" ->
            DisplayFloor(value, req.digits) = shown(target.at)
       [] target.kind = "at" /\ req.display = "half_up" ->
            DisplayHalfUp(value, req.digits) = shown(target.at)
       [] OTHER -> value = target.at

(* Note types without notes are under no constraint.                       *)
Matches(req) ==
  LET of(t) == IF req.totals[t] = 0 THEN {NoCounts[t]}
               ELSE {c \in Vectors[req.totals[t]] : Satisfies(req, t, c)}
      all == FoldSet(LAMBDA t, acc : {[c EXCEPT ![t] = d] : c \in acc, d \in of(t)},
                     {NoCounts}, NoteType)
  IN {c \in all : Hits(req, Selected(c, req.mode))}
=============================================================================
