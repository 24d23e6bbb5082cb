----------------------------- MODULE CatalogTools -----------------------------
(***************************************************************************)
(* The tools that look into the catalogue (maimai-mcp catalog_tools): what *)
(* they make of their arguments and how much of the hits they show.        *)
(* Constants and fits are in hundredths; a bpm may be asked for in tenths. *)
(***************************************************************************)
EXTENDS Lookups

-----------------------------------------------------------------------------
(* Arguments.  A value is given alone or as two ends, and each end may be  *)
(* given again by an argument of its own, which goes before.               *)

Ends(value, min, max) ==
  [min |-> IF min # {} THEN min ELSE {v[1] : v \in value}, max |-> IF max # {} THEN max ELSE {v[2] : v \in value}]
RangeOf(ends) == [min |-> Min(ends.min \cup {n \in {-Far} : ends.min = {}}),
                  max |-> Max(ends.max \cup {n \in {Far} : ends.max = {}})]
(* A fit of one decimal stands for all that begin with it.                 *)
Bucket == 10
FitRange(value, min, max) ==
  LET alone == min = {} /\ max = {} /\ \E v \in value : v[1] = v[2]
      ends == Ends(value, min, max)
  IN [range |-> IF alone THEN RangeOf([ends EXCEPT !.max = {e + Bucket : e \in ends.min}]) ELSE RangeOf(ends),
      exclusive |-> alone]
BpmRange(value, min, max) ==
  LET ends == Ends(value, min, max)
  IN RangeOf([min |-> {(e + 9) \div 10 : e \in ends.min}, max |-> {e \div 10 : e \in ends.max}])
IdRange(span, min, max) == RangeOf(Ends(span, min, max))

NoArguments ==
  [ds |-> {}, dsMin |-> {}, dsMax |-> {}, fit |-> {}, fitMin |-> {}, fitMax |-> {}, delta |-> {}, deltaMin |-> {},
   deltaMax |-> {}, bpm |-> {}, bpmMin |-> {}, bpmMax |-> {}, id |-> {}, span |-> {}, idMin |-> {}, idMax |-> {},
   filters |-> Blank]
(* The other arguments are filters as they are.                            *)
CatalogQuery(a) ==
  LET fit == FitRange(a.fit, a.fitMin, a.fitMax)
  IN [a.filters EXCEPT !.constant = RangeOf(Ends(a.ds, a.dsMin, a.dsMax)), !.fit = fit.range,
                       !.fitExclusive = fit.exclusive, !.delta = RangeOf(Ends(a.delta, a.deltaMin, a.deltaMax)),
                       !.bpm = BpmRange(a.bpm, a.bpmMin, a.bpmMax), !.id = {ById(i) : i \in a.id},
                       !.ids = IdRange(a.span, a.idMin, a.idMax)]

-----------------------------------------------------------------------------
(* Searching: all the hits are counted, the first are shown.               *)

Refused == [ok |-> FALSE, total |-> 0, hits |-> <<>>, truncated |-> FALSE]
Shown(answer, limit) ==
  IF ~answer.ok THEN Refused
  ELSE [ok |-> TRUE, total |-> Len(answer.hits), hits |-> UpTo(answer.hits, limit),
        truncated |-> \E n \in limit : Len(answer.hits) > n]
(* The limit is taken off before the query, which would refuse a zero.     *)
SearchTool(catalog, a) == Shown(Query(catalog, [CatalogQuery(a) EXCEPT !.limit = {}]), a.filters.limit)
BatchTool(catalog, items) ==
  Using([i \in DOMAIN items |-> SearchTool(catalog, items[i])], LAMBDA results :
  Using(Cardinality({i \in DOMAIN items : results[i].ok}), LAMBDA succeeded :
    IF Len(items) \notin 1..200 THEN [ok |-> FALSE]
    ELSE [ok |-> TRUE, items |-> results, success |-> succeeded, failure |-> Len(items) - succeeded]))
ListById(catalog, a, direction, limit) ==
  LET q == [CatalogQuery(a) EXCEPT !.limit = {}]
      sorted == IF q.sort = Blank.sort THEN [q EXCEPT !.sort = [key |-> "id", direction |-> direction]] ELSE q
  IN IF limit \notin 1..2000 THEN Refused ELSE Shown(Query(catalog, sorted), {limit})
(* Any order will do: the hits are shuffled.                               *)
RandomTool(catalog, a, count) ==
  Using(Query(catalog, [CatalogQuery(a) EXCEPT !.limit = {}]), LAMBDA answer :
  Using(ToSet(answer.hits), LAMBDA all :
    IF count \notin 1..100 \/ ~answer.ok \/ all = {} THEN {[ok |-> FALSE, total |-> 0, hits |-> {}]}
    ELSE {[ok |-> TRUE, total |-> Cardinality(all), hits |-> s] :
            s \in kSubset(IF count < Cardinality(all) THEN count ELSE Cardinality(all), all)}))

-----------------------------------------------------------------------------
(* The versions that any source names, with what it lists under them.      *)

Lower(t) == [i \in DOMAIN t |-> IF t[i] \in 11..19 THEN t[i] - 10 ELSE t[i]]
VersionBefore(v, w) ==
  IF Number(v) # None /\ Number(w) # None THEN Number(v) < Number(w)
  ELSE IF Number(v) # None \/ Number(w) # None THEN Number(v) # None
  ELSE IF Lower(v) # Lower(w) THEN TextLess(Lower(v), Lower(w))
  ELSE SeqLess(v, w)
Versions(catalog, needles, limit) ==
  Using(ToSet(Query(catalog, Blank).hits), LAMBDA hits :
  Using(UNION {{<<h.at, i, h.song.projections[i]>> : i \in DOMAIN h.song.projections} : h \in hits}, LAMBDA listings :
  LET wanted(v) == v # <<>> /\ \A n \in needles : ContainsText(Lower(v), Lower(n))
      own(p) == IF p.numericVersion # None THEN Digits(p.numericVersion) ELSE p.version
      named(p) == {v \in {own(p)} \cup {c.version : c \in ToSet(p.charts)} : wanted(v)}
  IN
  Using({[version |-> v,
          songs |-> Cardinality({l \in listings : v \in named(l[3])}),
          charts |-> MapThenSumSet(LAMBDA l : Cardinality({i \in DOMAIN l[3].charts : l[3].charts[i].version = v}),
                                   listings),
          sources |-> {l[3].source : l \in {k \in listings : v \in named(k[3])}}]
         : v \in UNION {named(l[3]) : l \in listings}}, LAMBDA lines :
    IF \E n \in limit : n \notin 1..5000 THEN [ok |-> FALSE, total |-> 0, lines |-> <<>>]
    ELSE [ok |-> TRUE, total |-> Cardinality(lines),
          lines |-> UpTo(Sorted(lines, LAMBDA v, w : VersionBefore(v.version, w.version)), limit)])))
=============================================================================
