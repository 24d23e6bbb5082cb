------------------------------ MODULE Completion ------------------------------
(***************************************************************************)
(* How far a player has completed a plate, a level or a rating table       *)
(* (maimai-app completion).  A record has, besides what a best-50 list     *)
(* needs, a full combo from 1 (FC) to 4 (AP+) and a sync from 1 (SYNC), 2  *)
(* (FS) to 5 (FDX+).                                                       *)
(***************************************************************************)
EXTENDS CatalogQueries

CONSTANT Sizes   \* how much of a list is shown: see SizesAssumption

ASSUME SizesAssumption ==
  Sizes \in [page : Nat \ {0}, lines : Nat, text : Nat, done : Nat, doneAll : Nat, waiting : Nat, batch : Nat]

-----------------------------------------------------------------------------
(* What counts as completed.                                               *)

AchievementGoals ==
  [eighty |-> 8000, s |-> 9700, s_plus |-> 9800, ss |-> 9900, ss_plus |-> 9950, sss |-> 10000, sss_plus |-> 10050]
GoalOf(by, least) == [by |-> by, least |-> least]
Goals ==
  [g \in DOMAIN AchievementGoals |-> GoalOf("achievement", AchievementGoals[g])]
  @@ [fc |-> GoalOf("combo", 1), fc_plus |-> GoalOf("combo", 2), ap |-> GoalOf("combo", 3), ap_plus |-> GoalOf("combo", 4),
      fs |-> GoalOf("sync", 1), fs_plus |-> GoalOf("sync", 2), fdx |-> GoalOf("sync", 3), fdx_plus |-> GoalOf("sync", 4),
      extreme |-> GoalOf("combo", 1), general |-> GoalOf("achievement", 10000), god |-> GoalOf("combo", 3),
      dance |-> GoalOf("sync", 3)]
(* Playing in sync is shown as a full sync.                                *)
SyncStatus(sync) == CASE sync = None -> None
                      [] sync \in {1, 2} -> 1
                      [] OTHER -> sync - 1
StateOf(record) ==
  IF record = {} THEN [achievement |-> None, combo |-> None, sync |-> None]
  ELSE LET r == CHOOSE x \in record : TRUE
       IN [achievement |-> Ranked(r), combo |-> r.combo, sync |-> SyncStatus(r.sync)]
Completed(goal, record) == StateOf(record)[Goals[goal].by] >= Goals[goal].least
RecordOfChart(best, key) == {r \in best : r.chart \in key}

(* Stable: what is equal stays in its order.                               *)
InOrderOf(s, rank(_)) ==
  Using(Sorted(DOMAIN s, LAMBDA i, k : rank(s[i]) > rank(s[k]) \/ (rank(s[i]) = rank(s[k]) /\ i < k)), LAMBDA at :
    [i \in DOMAIN s |-> s[at[i]]])
FirstN(s, n) == SubSeq(s, 1, IF n < Len(s) THEN n ELSE Len(s))

Error(kind) == [ok |-> FALSE, error |-> kind]

-----------------------------------------------------------------------------
(* Plates.                                                                 *)

ResolveServer(plates, spec, allowJp) ==
  IF spec.server = "jp" /\ ~allowJp THEN "refused"
  ELSE IF spec.server # "any" THEN spec.server
  ELSE IF PlateExists(plates, spec.name, "cn") THEN "cn"
  ELSE IF allowJp /\ PlateExists(plates, spec.name, "jp") THEN "jp"
  ELSE IF PlateExists(plates, spec.name, "custom") THEN "custom"
  ELSE "unknown"
ResolvedPlate(plates, spec, allowJp) ==
  Using(ResolveServer(plates, spec, allowJp), LAMBDA server :
    IF server \in {"refused", "unknown"} THEN Error(server)
    ELSE IF ~PlateExists(plates, spec.name, server) THEN Error("unknown")
    ELSE [ok |-> TRUE, server |-> server, plate |-> PlateOf(plates, spec.name, server)])

MasterConstant(member) ==
  LET masters == SelectSeq(member.charts, LAMBDA c : c.difficulty = 3)
  IN IF masters = <<>> THEN None ELSE masters[1].constant
MemberView(member, goal, best) ==
  [id |-> member.id, title |-> member.title, generation |-> member.generation,
   charts |-> [i \in DOMAIN member.charts |->
                 LET c == member.charts[i]
                 IN [difficulty |-> c.difficulty, completed |-> Completed(goal, RecordOfChart(best, c.key))]]]
PlateTable(catalog, records, spec, allowJp) ==
  Using(ResolvedPlate(catalog.plates, spec, allowJp), LAMBDA resolved :
  Using(BestByChart(records), LAMBDA best :
  Using(InOrderOf(resolved.plate.members, MasterConstant), LAMBDA members :
    IF ~resolved.ok THEN resolved
    ELSE [ok |-> TRUE, server |-> resolved.server, declared |-> resolved.plate.declared,
          members |-> [i \in DOMAIN members |-> MemberView(members[i], spec.goal, best)]])))

(* What is left to do: counted by difficulty, listed from the hardest.     *)
RemainingOf(member, goal, best) ==
  LET left == SelectSeq(member.charts, LAMBDA c : ~Completed(goal, RecordOfChart(best, c.key)))
  IN [i \in DOMAIN left |-> [id |-> member.id, difficulty |-> left[i].difficulty, constant |-> left[i].constant]]
DifficultThreshold == 1360
(* The list of the difficult charts, or else of all that are left; a list  *)
(* that is too long is only counted.                                       *)
PlateProgress(catalog, records, spec, allowJp) ==
  Using(ResolvedPlate(catalog.plates, spec, allowJp), LAMBDA resolved :
  Using(BestByChart(records), LAMBDA best :
  Using(resolved.plate.members, LAMBDA members :
  Using(InOrderOf(FlattenSeq([i \in DOMAIN members |-> RemainingOf(members[i], spec.goal, best)]),
                  LAMBDA c : c.constant), LAMBDA remaining :
  Using(SelectSeq(remaining, LAMBDA c : c.constant > DifficultThreshold), LAMBDA difficult :
  Using(IF difficult # <<>> THEN difficult ELSE remaining, LAMBDA listed :
    IF ~resolved.ok THEN resolved
    ELSE [ok |-> TRUE, server |-> resolved.server,
          counts |-> [d \in 0..ReMaster |-> Len(SelectSeq(remaining, LAMBDA c : c.difficulty = d))],
          kind |-> IF difficult # <<>> THEN "difficult" ELSE IF remaining # <<>> THEN "remaining" ELSE "done",
          lines |-> IF Len(listed) < Sizes.lines THEN listed ELSE <<>>, listed |-> Len(listed),
          form |-> IF Len(listed) <= Sizes.text THEN "text" ELSE "image"]))))))

(* A batch: the scores are read once, and what fails, fails alone.  An     *)
(* image may fail to be drawn or saved.                                    *)
Drawn(answer, undrawn) == IF undrawn THEN Error("undrawn") ELSE answer
PlateBatch(specs, Prepare(_), undrawn) ==
  Using([i \in DOMAIN specs |->
           LET prepared == Prepare(specs[i])
           IN IF ~prepared.ok THEN prepared ELSE Drawn(prepared, i \in undrawn)], LAMBDA each :
    CASE specs = <<>> -> Error("empty")
      [] Len(specs) > Sizes.batch -> Error("too_large")
      [] OTHER -> [ok |-> TRUE, results |-> {<<i, each[i]>> : i \in {k \in DOMAIN specs : each[k].ok}},
                   errors |-> {<<i, each[i].error>> : i \in {k \in DOMAIN specs : ~each[k].ok}}])
TableBatch(catalog, records, specs, allowJp, undrawn) ==
  PlateBatch(specs, LAMBDA spec : PlateTable(catalog, records, spec, allowJp), undrawn)
(* Only a long answer is drawn.                                            *)
ProgressBatch(catalog, records, specs, allowJp, undrawn) ==
  LET long == {i \in DOMAIN specs :
                 LET p == PlateProgress(catalog, records, specs[i], allowJp) IN p.ok /\ p.form = "image"}
  IN PlateBatch(specs, LAMBDA spec : PlateProgress(catalog, records, spec, allowJp), undrawn \cap long)

-----------------------------------------------------------------------------
(* A level.                                                                *)

LevelQuery(level, cnOnly) == [Blank EXCEPT !.level = {Trim(level)}, !.has = {r \in {"cn"} : cnOnly}]
(* The charts that a query matched, hit after hit.                         *)
MatchedCharts(catalog, q) ==
  Using(Query(catalog, q).hits, LAMBDA hits :
  LET of(h) == LET own == Sorted(h.charts, LAMBDA i, k : i < k) IN [i \in DOMAIN own |-> h.song.charts[own[i]]]
  IN FlattenSeq([i \in DOMAIN hits |-> of(hits[i])]))
CellOf(chart, best) ==
  LET record == RecordOfChart(best, {chart.key})
  IN [key |-> chart.key, constant |-> chart.constant, played |-> record # {}, record |-> record] @@ StateOf(record)

PagesOf(cells) == IF cells = <<>> THEN 1 ELSE (Len(cells) + Sizes.page - 1) \div Sizes.page
(* Mutant: a page is cut short where the next one begins. *)
RetainPageShort(cells, page) ==
  SubSeq(cells, ((page - 1) * Sizes.page) + 1, IF page * Sizes.page < Len(cells) THEN (page * Sizes.page) - 1 ELSE Len(cells))
RetainPage(cells, page) ==
  SubSeq(cells, ((page - 1) * Sizes.page) + 1, IF page * Sizes.page < Len(cells) THEN page * Sizes.page ELSE Len(cells))
LevelProgress(catalog, records, request, allowJp) ==
  Using(BestByChart(records), LAMBDA best :
  Using(MatchedCharts(catalog, LevelQuery(request.level, request.server = "cn")), LAMBDA charts :
  Using([i \in DOMAIN charts |-> CellOf(charts[i], best)], LAMBDA cells :
  LET played(c) == c[Goals[request.goal].by]
  IN
  Using(InOrderOf(SelectSeq(cells, LAMBDA c : c.played /\ Completed(request.goal, c.record)), played), LAMBDA completed :
  Using(InOrderOf(SelectSeq(cells, LAMBDA c : c.played /\ ~Completed(request.goal, c.record)), played), LAMBDA unfinished :
  Using(InOrderOf(SelectSeq(cells, LAMBDA c : ~c.played), LAMBDA c : c.constant), LAMBDA notStarted :
  Using(Len(unfinished) + Len(notStarted), LAMBDA remaining :
  LET shown(done, left, waiting, pages) ==
        [ok |-> TRUE, total |-> Len(cells), remaining |-> remaining, pages |-> pages,
         completed |-> done, unfinished |-> left, notStarted |-> waiting]
      paged(s) == request.page <= PagesOf(s)
  IN IF request.server = "jp" /\ ~allowJp THEN Error("refused")
     ELSE IF Trim(request.level) = <<>> \/ request.page = 0 \/ request.server = "custom" THEN Error("invalid")
     ELSE IF request.category = "overview" THEN
            shown(FirstN(completed, IF remaining = 0 THEN Sizes.doneAll ELSE Sizes.done),
                  FirstN(unfinished, Sizes.done), FirstN(notStarted, Sizes.waiting), 0)
     ELSE IF request.category = "completed" /\ paged(completed) THEN
            shown(RetainPage(completed, request.page), <<>>, <<>>, PagesOf(completed))
     ELSE IF request.category = "unfinished" /\ paged(unfinished) THEN
            shown(<<>>, RetainPage(unfinished, request.page), <<>>, PagesOf(unfinished))
     ELSE IF request.category = "not_started" THEN shown(<<>>, <<>>, notStarted, 0)
     ELSE Error("page"))))))))

-----------------------------------------------------------------------------
(* The table of a level in the game's rating.  A plus is written 31.       *)

RatingLevels ==
  {Digits(n) : n \in 7..15} \cup {Append(Digits(n), 31) : n \in 7..14}
Statistics ==
  [g \in DOMAIN AchievementGoals |-> GoalOf("achievement", AchievementGoals[g])]
  @@ [fc |-> GoalOf("combo", 1), fcp |-> GoalOf("combo", 2), ap |-> GoalOf("combo", 3), app |-> GoalOf("combo", 4),
      fs |-> GoalOf("sync", 2), fsp |-> GoalOf("sync", 3), fsd |-> GoalOf("sync", 4), fsdp |-> GoalOf("sync", 5)]
Accumulate(cells) ==
  [g \in DOMAIN Statistics |->
     Len(SelectSeq(cells, LAMBDA c : \E r \in c.record :
           (IF Statistics[g].by = "achievement" THEN Ranked(r) ELSE r[Statistics[g].by]) >= Statistics[g].least))]
  @@ [sync |-> Len(SelectSeq(cells, LAMBDA c : \E r \in c.record : r.sync = 1))]
(* The least of what every chart of the table has reached.                 *)
AllClear(mode, cells) ==
  LET reached == {c[mode] : c \in ToSet(cells)}
      least == Min(reached)
  IN IF cells = <<>> \/ None \in reached \/ (mode = "achievement" /\ least < AchievementGoals.s) THEN None ELSE least
RatingTable(catalog, records, request, allowJp) ==
  Using(BestByChart(records), LAMBDA best :
  Using(SelectSeq(MatchedCharts(catalog, LevelQuery(request.level, ~allowJp)), LAMBDA c : c.key[3] # Utage), LAMBDA charts :
  Using([i \in DOMAIN charts |-> CellOf(charts[i], best)], LAMBDA cells :
    IF Trim(request.level) \notin RatingLevels THEN Error("invalid")
    ELSE [ok |-> TRUE, total |-> Len(cells), statistics |-> Accumulate(cells),
          cells |-> InOrderOf(cells, LAMBDA c : c.constant), allClear |-> AllClear(request.mode, cells)])))
=============================================================================
