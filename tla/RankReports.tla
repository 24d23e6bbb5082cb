----------------------------- MODULE RankReports -----------------------------
(***************************************************************************)
(* The reports over a cached group ranking and over the public rating list *)
(* (maimai-app rankings/query, rating_ranking): who is listed, in which    *)
(* order, and at which rank.                                               *)
(*                                                                         *)
(* Names and numbers of members are numbers: only their order matters.     *)
(* The fit indexes of an instance are not negative.                        *)
(***************************************************************************)
EXTENDS Ratings

CONSTANT PageSize  \* the players on a page of the public list

ASSUME PageAssumption == PageSize \in Nat \ {0}

Within(value, min, max) ==
  value # None /\ (min = None \/ value >= min) /\ (max = None \/ value <= max)
Reversed(min, max) == None \notin {min, max} /\ min > max

-----------------------------------------------------------------------------
(* A window is the first rows, or those from one rank to another.          *)

ValidWindow(w) ==
  /\ 0 \notin {w.limit, w.start, w.end}
  /\ w.start = None <=> w.end = None
  /\ w.start <= w.end

(* Rows in their order, with the ranks from one on.                        *)
RankedRows(rows, from, to) ==
  [i \in 1..(IF to < from THEN 0 ELSE to - from + 1) |-> [rank |-> from + i - 1, entry |-> rows[from + i - 1]]]
Upto(n, rows) == IF n < Len(rows) THEN n ELSE Len(rows)

WindowOf(rows, w) ==
  IF w.start # None THEN RankedRows(rows, w.start, Upto(w.end, rows))
  ELSE RankedRows(rows, 1, Upto(Or(w.limit, Len(rows)), rows))

Position(rows, qq) ==
  IF \E i \in DOMAIN rows : rows[i].qq = qq THEN CHOOSE i \in DOMAIN rows : rows[i].qq = qq ELSE None

(* The rows around a member.                                               *)
Context(rows, at, size) ==
  IF at = None THEN <<>> ELSE RankedRows(rows, Max({1, at - size}), Upto(at + size, rows))

MemberRank(desc, asc, qq, size) ==
  LET at == Position(desc, qq)
  IN [verdict |-> "member", found |-> at # None, desc |-> at, asc |-> Position(asc, qq),
      total |-> Len(desc), context |-> Context(desc, at, size)]

Arrange(entries, key(_), order) ==
  Sorted(entries, LAMBDA l, r : IF order = "descending" THEN Ahead(key(l), key(r)) ELSE Ahead(key(r), key(l)))

Invalid == [verdict |-> "invalid"]
Report(rows, w) == [verdict |-> "report", matched |-> Len(rows), rows |-> WindowOf(rows, w)]

-----------------------------------------------------------------------------
(* The best-50 ranking of a group.                                         *)

B50Key(e, sort) == <<IF sort = "fit" THEN e.fit ELSE e.rating, e.rating, e.name, e.qq>>

B50Matches(e, o) ==
  /\ Within(e.rating, o.min, o.max)
  /\ \/ {o.fitMin, o.fitMax} = {None}
     \/ Within(e.fit, o.fitMin, o.fitMax)

B50Report(entries, o) ==
  IF ~ValidWindow(o.window) \/ Reversed(o.min, o.max) \/ Reversed(o.fitMin, o.fitMax) THEN Invalid
  ELSE Report(Arrange({e \in entries : B50Matches(e, o)}, LAMBDA e : B50Key(e, o.sort), o.order), o.window)

(* Here a member without a rating is ranked, too.                          *)
B50MemberRank(entries, qq, size) ==
  MemberRank(Arrange(entries, LAMBDA e : B50Key(e, "rating"), "descending"),
             Arrange(entries, LAMBDA e : B50Key(e, "rating"), "ascending"), qq, size)

-----------------------------------------------------------------------------
(* The ranking of a group on a song: the song may have several charts.     *)

SongMatches(record, target) ==
  record.song = target.song /\ (target.deluxe = "any" \/ record.deluxe = target.deluxe)

(* The hardest chart that anyone played unless one is asked for; the only  *)
(* one there is goes before one that nobody played.                        *)
ChosenDifficulty(records, target) ==
  LET available == {r.difficulty : r \in {s \in records : SongMatches(s, target)}}
  IN CASE target.difficulty = None /\ available # {} -> Max(available)
       [] target.difficulty # None /\ target.difficulty \notin available /\ Cardinality(available) = 1 -> Max(available)
       [] OTHER -> target.difficulty

Achieved(r, o) == {o.min, o.max} = {None} \/ Within(r.achievement, o.min, o.max)

(* Mutant: the best record is chosen before the range is looked at. *)
SongRowsBeforeRange(members, records, o) ==
  LET best == FirstOfEach({[r EXCEPT !.chart = r.qq] : r \in {s \in records : SongMatches(s, o.target)}},
                          LAMBDA l, r : Ahead(<<l.rating, l.achievement>>, <<r.rating, r.achievement>>))
  IN {r \in best : /\ r.qq \in members
                   /\ ChosenDifficulty(records, o.target) \in {None, r.difficulty}
                   /\ Achieved(r, o)}

(* The best matching record of every member.                               *)
SongRows(members, records, o) ==
  LET difficulty == ChosenDifficulty(records, o.target)
      matching == {r \in records :
                     /\ SongMatches(r, o.target)
                     /\ difficulty \in {None, r.difficulty}
                     /\ Achieved(r, o)}
  IN FirstOfEach({[r EXCEPT !.chart = r.qq] : r \in {s \in matching : s.qq \in members}},
                 LAMBDA l, r : Ahead(<<l.rating, l.achievement>>, <<r.rating, r.achievement>>))

SongKey(r, sort) ==
  <<CASE sort = "rating" -> r.rating [] sort = "dx" -> r.dx [] OTHER -> r.achievement, r.achievement, r.qq>>

SongReport(members, records, o) ==
  IF ~ValidWindow(o.window) \/ Reversed(o.min, o.max) THEN Invalid
  ELSE Report(Arrange(SongRows(members, records, o), LAMBDA r : SongKey(r, o.sort), o.order), o.window)

SongMemberRank(members, records, target, qq, size) ==
  LET rows == SongRows(members, records, [target |-> target, min |-> None, max |-> None])
  IN MemberRank(Arrange(rows, LAMBDA r : SongKey(r, "achievement"), "descending"),
                Arrange(rows, LAMBDA r : SongKey(r, "achievement"), "ascending"), qq, size)

-----------------------------------------------------------------------------
(* The public list: players with the same rating by name, as the provider  *)
(* lists them where the names are the same but for case.                   *)

PublicRanking(list) ==
  LET order == Sorted(DOMAIN list, LAMBDA i, k : Ahead(<<list[i].rating, -list[i].folded, -i>>,
                                                       <<list[k].rating, -list[k].folded, -k>>))
  IN [i \in DOMAIN list |-> list[order[i]]]

Pages(list) == Max({1, (Len(list) + PageSize - 1) \div PageSize})

PublicPage(list, requested) ==
  LET page == IF requested < Pages(list) THEN requested ELSE Pages(list)
  IN [verdict |-> "page", page |-> page,
      rows |-> RankedRows(PublicRanking(list), (page - 1) * PageSize + 1, Upto(page * PageSize, list))]

PublicRange(list, start, end) ==
  [verdict |-> "rows", rows |-> RankedRows(PublicRanking(list), start, Upto(end, list))]

PublicLookup(list, folded) ==
  LET at == {i \in DOMAIN list : PublicRanking(list)[i].folded = folded}
  IN [verdict |-> "player", rank |-> IF at = {} THEN None ELSE Min(at)]
=============================================================================
