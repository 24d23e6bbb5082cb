----------------------------- MODULE ToolPromises -----------------------------
(***************************************************************************)
(* What the answers of the tools promise.                                  *)
(***************************************************************************)
EXTENDS ToolAnswers

Answered(tool) == answer # Unanswered /\ question.tool = tool

(* What the rows of a count list adds up to its totals, and every row is   *)
(* its number of notes times the worth of one; a better judgment in the    *)
(* place of a worse one never costs anything, in any scale.                *)
Better == [good |-> "miss", great_low |-> "good", great_mid |-> "great_low",
           great_high |-> "great_mid", perfect_low |-> "great_high",
           perfect_high |-> "perfect_low", critical |-> "perfect_high"]
RowsAdd ==
  Answered("count") /\ answer.ok =>
    /\ \A mode \in RawMode :
         /\ answer.totals[mode] = MapThenSumSet(LAMBDA r : r.contribution[mode], answer.rows)
         /\ \A r \in answer.rows : r.contribution[mode] = r.count * r.perNote[mode]
    /\ \A mode \in DOMAIN answer.shown :
         answer.shown[mode].halfUp - answer.shown[mode].floor \in {0, 1}
    /\ \A t \in NoteType, j \in DOMAIN Better : question.counts[t][Better[j]] > 0 =>
         LET improved == [question.counts EXCEPT ![t][Better[j]] = @ - 1, ![t][j] = @ + 1]
         IN \A mode \in RawMode \cup Achievement :
              AtMost(Selected(question.counts, mode), Selected(improved, mode))

(* Scores add up (RowsAdd), and a search for one is exact: it finds        *)
(* something just when some vector of counts                               *)
(* fits the constraints and produces the target, it counts those vectors   *)
(* one by one, however few it may show, and shows only such, as many as it *)
(* was asked for.  It blames the constraints only when nothing matches, or *)
(* when they name a judgment they do not allow.                            *)
SearchExact ==
  /\ RowsAdd
  /\ Answered("search") =>
       LET matches == Matches(question) IN
       /\ answer.verdict \in {"found", "none"} =>
            answer.verdict = IF matches = {} THEN "none" ELSE "found"
       /\ answer.verdict = "found" =>
            /\ answer.count = Cardinality(matches)
            /\ Cardinality(answer.metrics) = Cardinality({Selected(c, question.mode) : c \in matches})
            /\ {s[2] : s \in answer.solutions} \subseteq matches
            /\ Cardinality(answer.solutions) = Lesser(question.maxSolutions, Cardinality(matches))
            /\ \A s \in answer.summary : s.count > 0 /\ s.least <= s.most
       /\ answer.verdict = "constraint" =>
            \/ matches = {}
            \/ \E t \in NoteType : question.totals[t] > 0 /\ NamesDisallowed(question, t)

(* What a set of records is worth, and the choices a player has: as many   *)
(* records of a section as fit in it, one of a chart.                      *)
Worth(records) == MapThenSumSet(LAMBDA r : r.rating, records)
Distinct(records) == \A l, r \in records : l.chart = r.chart => l = r
ChoicesOf(records, new, capacity) ==
  {s \in SUBSET {r \in records : r.current = new} : Cardinality(s) <= capacity /\ Distinct(s)}

(* A best-50 list holds every chart once and is worth as much as any       *)
(* choice of as many of the player's rated charts: neither a second record *)
(* of a chart nor the order of the records costs the player anything.      *)
RatingIsBest ==
  Answered("b50") =>
    LET rated == Rated(FromScores(question.scores, question.catalog), question.mode)
    IN /\ Distinct(ToSet(answer.legacy \o answer.current))
       /\ ToSet(answer.legacy) \in ChoicesOf(rated, FALSE, LegacyCapacity)
       /\ ToSet(answer.current) \in ChoicesOf(rated, TRUE, CurrentCapacity)
       /\ \A s \in ChoicesOf(rated, FALSE, LegacyCapacity) : Worth(s) <= answer.b35
       /\ \A s \in ChoicesOf(rated, TRUE, CurrentCapacity) : Worth(s) <= answer.b15

(* Playing a recommended chart up to its target raises the player's rating *)
(* by just the gain that was promised, whether the chart is already in the *)
(* list, displaces another or fills a free place; and where a full section *)
(* is given no advice, nothing playable in it would have raised the rating.*)
(* This is of charts whose scores are rated by the catalogue: old_rating   *)
(* goes by the catalogue's constant, the list by what a score brings.      *)
RatedByCatalog(chart) ==
  \A s \in question.scores : s.chart = chart =>
    /\ s.constant \in {None, question.catalog[chart].constant}
    /\ s.achievement = None => s.rating = None
Played(scores, chart, target) ==
  scores \cup {[chart |-> chart, achievement |-> target, dx |-> None, constant |-> None, rating |-> None]}
TotalOf(scores) == B50(FromScores(scores, question.catalog), "actual").total
RecommendationsPay ==
  Answered("rise") =>
    LET before == TotalOf(question.scores)
        own(current) == LET b50 == B50(FromScores(question.scores, question.catalog), "actual")
                        IN IF current THEN b50.current ELSE b50.legacy
        advised == IF answer.verdict = "recommended" THEN answer.legacy \cup answer.current ELSE {}
        pays(c, t) == TotalOf(Played(question.scores, c, t)) > before
    IN /\ \A i \in advised :
            /\ i.gain > 0
            /\ RatedByCatalog(i.chart) => TotalOf(Played(question.scores, i.chart, i.target)) = before + i.gain
       /\ \A current \in BOOLEAN :
            /\ question.algorithm = "legacy" /\ question.score = 0
            /\ Full(own(current), IF current THEN CurrentCapacity ELSE LegacyCapacity)
            /\ LastRating(own(current)) > 0
            /\ \A i \in advised : question.catalog[i.chart].current # current
            => \A c \in Seeds(question.catalog, current), t \in Targets : RatedByCatalog(c) => ~pays(c, t)
(* Whatever is asked about a ranking, the answers agree.  A report lists    *)
(* just those that match, as many as its window takes, with consecutive     *)
(* ranks, and nobody behind another who is worse; a member is at the rank   *)
(* that the whole report gives, counted from either end; and every player   *)
(* of the public list is on one page, at the rank that a search names.      *)
PlacedWell(all, rows, key(_), order) ==
  LET ahead(l, r) == IF order = "descending" THEN key(l) > key(r) ELSE key(l) < key(r)
  IN \A i \in DOMAIN rows :
       LET e == rows[i].entry
       IN /\ rows[i].rank = rows[1].rank + i - 1
          /\ Cardinality({r \in all : ahead(r, e)}) < rows[i].rank
          /\ rows[i].rank <= Cardinality({r \in all : ~ahead(e, r)})
          /\ \A k \in DOMAIN rows : rows[k].entry = e => k = i
WindowTakes(matched, w) ==
  LET wanted == IF w.start = None THEN 1..Or(w.limit, matched) ELSE w.start..w.end
  IN Cardinality(wanted \cap 1..matched)
RankIn(report, qq) ==
  IF \E i \in DOMAIN report.rows : report.rows[i].entry.qq = qq
  THEN (CHOOSE r \in ToSet(report.rows) : r.entry.qq = qq).rank ELSE None
Whole == [sort |-> "rating", order |-> "descending", target |-> None,
          min |-> None, max |-> None, fitMin |-> None, fitMax |-> None,
          window |-> [limit |-> None, start |-> None, end |-> None]]
AtOneRank(member, qq, whole) ==
  /\ member.found <=> member.desc # None
  /\ member.found => /\ member.desc + member.asc = member.total + 1
                     /\ \E r \in ToSet(member.context) : r.rank = member.desc /\ r.entry.qq = qq
  /\ RankIn(whole, qq) \in {member.desc, None}
Listed(entries, o) ==
  {e \in entries : /\ e.rating # None /\ e.rating >= o.min /\ (o.max = None \/ e.rating <= o.max)
                   /\ (o.fitMin = None \/ e.fit >= o.fitMin)
                   /\ (o.fitMax = None \/ e.fit \in 0..o.fitMax)}
ReportHolds(entries, o, a) ==
  LET listed == Listed(entries, o)
  IN /\ a.matched = Cardinality(listed)
     /\ Len(a.rows) = WindowTakes(a.matched, o.window)
     /\ PlacedWell(listed, a.rows, LAMBDA e : IF o.sort = "fit" THEN e.fit ELSE e.rating, o.order)
SongReportHolds(members, records, o, a) ==
  LET plays(qq) == {r \in records : /\ r.qq = qq /\ SongMatches(r, o.target)
                                    /\ r.difficulty = ChosenDifficulty(records, o.target)
                                    /\ Achieved(r, o)}
  IN /\ a.matched = Cardinality({m \in members : plays(m) # {}})
     /\ Len(a.rows) = WindowTakes(a.matched, o.window)
     /\ \A r \in ToSet(a.rows) :
          \E p \in plays(r.entry.qq) :
            /\ p.rating = r.entry.rating /\ p.achievement = r.entry.achievement
            /\ \A other \in plays(r.entry.qq) : other.rating <= p.rating
(* Through a tool: what is shown is of a ranking of today that nobody asks  *)
(* to refresh, and a refresh is started just where there is none and none   *)
(* is under way; the options that were sent are those that are followed;    *)
(* whoever is at a rank is there in the whole list too, as long as it stays *)
(* as it was; and a member is shown only where no other is meant.           *)
RankShown ==
  LET q == question
      a == q.args
      options == B50Options(a, IF q.name = "group_b50_rank_at" THEN "desc" ELSE "asc")
      steady == q.reads[1] = q.reads[2]
      ranking == Sole(q.reads[1])
      meant == {u \in q.users : \E n \in u.names \cup (UNION u.groups) \cup (UNION u.preferred) :
                                  Trim(n) # <<>> /\ ContainsText(Normalize(n), Normalize(Sole(a.target)))}
      member == MemberFor(q, a)
  IN /\ answer.verdict \in {"report", "member", "rank_at", "nobody"} /\ q.name # "group_b50_job_status" =>
          q.cache = "fresh" /\ TRUE \notin a.force /\ q.reads[1] # {}
     /\ answer.verdict = "started" =>
          /\ q.cache = "fresh" => TRUE \in a.force
          /\ answer.started <=> q.job # "running"
          /\ answer.started => (answer.reason = "miss" <=> (q.cache = "none" /\ TRUE \notin a.force))
     /\ answer.verdict = "report" /\ q.name \in {"group_b50_report", "group_b50_job_status"} =>
          ReportHolds(ranking.entries, options, answer)
     /\ answer.verdict = "rank_at" =>
          /\ Cardinality({e \in Listed(ranking.entries, options) : IF options.order = "descending" THEN e.rating > answer.entry.rating
                                                          ELSE e.rating < answer.entry.rating}) < Sole(a.rank)
          /\ Sole(a.rank) <= answer.matched
          /\ steady =>
               /\ answer.member.found
               /\ Listed(ranking.entries, options) = ranking.entries =>
                    Sole(a.rank) = IF options.order = "descending" THEN answer.member.desc ELSE answer.member.asc
     /\ answer.verdict = "nobody" => Sole(a.rank) > answer.matched
     /\ answer.verdict = "report" /\ q.name = "group_song_score_report" =>
          SongReportHolds(ranking.members, ranking.records, SongOptions(SongFor(loaded, a), a), answer)
     /\ answer.verdict = "member" /\ a.qq = {} /\ ~QqFits(Sole(a.target)) =>
          \E u \in meant : /\ u.qq = member.qq
                            /\ \A other \in meant \ {u} : ScoreIdentity(other, Trim(Sole(a.target))) < ScoreIdentity(u, Trim(Sole(a.target)))
     /\ answer.verdict = "member" /\ a.group = {} =>
          {m.group : m \in {n \in q.memberships : n.qq = member.qq}} = {member.group}
RanksAgree ==
  LET q == question
  IN /\ Answered("b50_report") /\ answer # Invalid => ReportHolds(q.entries, q, answer)
     /\ Answered("rank_tool") => RankShown
     /\ Answered("b50_member") =>
          /\ answer.found <=> \E e \in q.entries : e.qq = q.qq
          /\ AtOneRank(answer, q.qq, B50Report(q.entries, Whole))
     /\ Answered("song_report") /\ answer # Invalid => SongReportHolds(q.members, q.records, q, answer)
     /\ Answered("song_member") =>
          AtOneRank(answer, q.qq, SongReport(q.members, q.records,
                                             [Whole EXCEPT !.sort = "achievement", !.target = q.target]))
     /\ Answered("public") /\ q.kind = "page" =>
          \A i \in DOMAIN q.list :
            Cardinality({p \in 1..Pages(q.list) :
                           \E r \in ToSet(PublicPage(q.list, p).rows) : r.entry = q.list[i]}) = 1
     /\ Answered("public") /\ q.kind = "range" =>
          PlacedWell(ToSet(q.list), answer.rows, LAMBDA e : e.rating, "descending")
     /\ Answered("public") /\ q.kind = "player" =>
          LET named == {i \in DOMAIN q.list : q.list[i].folded = q.folded}
          IN IF named = {} THEN answer.rank = None
             ELSE PublicRange(q.list, answer.rank, answer.rank).rows[1].entry.rating
                    = Max({q.list[i].rating : i \in named})

(* Loading four sources into one catalogue loses nothing and mixes nothing *)
(* up: every chart that LXNS or Diving-Fish lists is found under the key   *)
(* its source knows it by, in the one song that carries that source's id,  *)
(* and a score of that source is booked on it; dxdata's songs are in one   *)
(* song each, with all of their sheets; no song has a chart twice.  A load *)
(* that fails for ambiguity was given a chart twice or one title for two.  *)
Keys(id, charts) == {<<id, c.key[2], c.key[3]>> : c \in ToSet(charts)}
ListedKeys(docs) ==
  UNION {Keys(LxnsId(l), LxnsCharts(l)) : l \in ToSet(docs.lxns)}
  \cup UNION {Keys(DfId(d), DfCharts(d, DfId(d))) : d \in ToSet(docs.df)}
Twice(s) == Cardinality(ToSet(s)) # Len(s)
SheetsOf(x) == [i \in DOMAIN x.sheets |-> <<DxGeneration(x.sheets[i]), DxDifficulty(x.sheets[i])>>]
ChartsOf(song) == [i \in DOMAIN song.charts |-> <<song.charts[i].key[2], song.charts[i].key[3]>>]
NamesChartTwice(docs) ==
  \/ \E l \in ToSet(docs.lxns) : Cardinality(Keys(LxnsId(l), LxnsCharts(l))) # Len(l.charts)
  \/ \E d \in ToSet(docs.df) : Cardinality(Keys(DfId(d), DfCharts(d, DfId(d)))) # Len(DfCharts(d, DfId(d)))
  \/ \E x \in ToSet(docs.dx) : Twice(SheetsOf(x))
  \/ Twice([i \in DOMAIN docs.lxns |-> docs.lxns[i].id]) \/ Twice([i \in DOMAIN docs.df |-> DfId(docs.df[i])])
SharesTitle(docs) ==
  \E l \in ToSet(docs.lxns \o docs.df), m \in ToSet(docs.lxns \o docs.df) : l # m /\ Same(l.title, m.title)
NumbersOfTwo(docs) ==
  \E x \in ToSet(docs.dx) :
    LET titles == UNION {{Normalize(l.title) : l \in {k \in ToSet(docs.lxns) : k.id \in {s.internal, s.internal - DxOffset}}}
                         \cup {Normalize(d.title) : d \in {k \in ToSet(docs.df) : NumberOf(DfId(k)) = s.internal}}
                         : s \in {y \in ToSet(x.sheets) : y.internal # None}}
    IN Cardinality(titles) > 1
Each(s, Op(_)) == [i \in DOMAIN s |-> Op(s[i])]
Loads == Answered("load")
NothingLost ==
  /\ Loads /\ answer.error = "none" =>
       /\ \A key \in ListedKeys(question.docs) :
            \E e \in answer.index :
              /\ e[1] = key
              /\ LET song == answer.songs[e[2]]
                     chart == song.charts[e[3]]
                     booked == ResolveChart(answer, key[1], {key[2]}, key[3])
                 IN /\ <<key[2], key[3]>> = <<chart.key[2], chart.key[3]>>
                    /\ key[1] \in ToSet(song.ids)
                    /\ booked.verdict = "found" /\ booked.key = chart.key
       /\ \A e, f \in {g \in answer.index : g[1] \in ListedKeys(question.docs) /\ NumberOf(g[1][1]) # None} :
            e[1][1][1] = f[1][1][1] /\ e[2] = f[2] /\ e[3] = f[3] => e[1] = f[1]
       /\ \A d \in ToSet(question.docs.df) :
            Cardinality({i \in DOMAIN answer.songs : DfId(d) \in ToSet(answer.songs[i].ids)}) = 1
       /\ \A x \in {y \in ToSet(question.docs.dx) : Trim(y.id) # <<>>} :
            \E i \in DOMAIN answer.songs :
              /\ ToSet(SheetsOf(x)) \subseteq ToSet(ChartsOf(answer.songs[i]))
              /\ \A k \in DOMAIN answer.songs : DxId(x) \in ToSet(answer.songs[k].ids) <=> k = i
       /\ \A i \in DOMAIN answer.songs : ~Twice(ChartsOf(answer.songs[i]))
  /\ Loads /\ answer.error = "ambiguous_chart" => NamesChartTwice(question.docs)
  /\ Loads /\ answer.error = "ambiguous_song" =>
       SharesTitle(question.docs) \/ NumbersOfTwo(question.docs)
  /\ Loads /\ answer.error = "plates" =>
       \/ question.docs.custom # {} \/ \E d \in ToSet(question.docs.df) : d.charts = <<>>
       \/ Twice(Each(question.docs.df, DfId)) \/ Twice(Each(question.docs.dx, DxProjectionId))

(* A query shows what the documents say.  A chart is shown when one of the *)
(* listings it stems from says all that was asked of it, and only then;    *)
(* every song once, the better matches first, what has no value to sort by *)
(* last in either direction, and a limit only cuts the tail off.  What a   *)
(* tool makes of its arguments keeps their meaning, and every version that *)
(* a listing names is listed.                                              *)
SayingsOf(id, generations, difficulties, charts) ==
  {[key |-> <<id, generations[i], difficulties[i]>>, said |-> charts[i]] : i \in DOMAIN charts}
SheetSayings(id, sheets) ==
  SayingsOf(id, Each(sheets, DxGeneration), Each(sheets, DxDifficulty), sheets)
Sayings(docs) ==
  UNION {SayingsOf(LxnsId(l), Each(l.charts, Generation), Each(LxnsCharts(l), LAMBDA c : c.key[3]), l.charts)
         : l \in ToSet(docs.lxns)}
  \cup UNION {SayingsOf(DfId(d), Each(d.charts, LAMBDA c : DfGeneration(d)), Each(DfCharts(d, DfId(d)), LAMBDA c : c.key[3]), d.charts)
              : d \in ToSet(docs.df)}
  \cup UNION {SheetSayings(DxProjectionId(x), x.sheets) : x \in ToSet(docs.dx)}
  \cup UNION {SheetSayings(<<"official_cn", Numeric(o.id)>>, o.sheets) : o \in ToSet(docs.official)}
SaysIt(catalog, saying, q) ==
  /\ q.difficulties = {} \/ saying.key[3] \in q.difficulties
  /\ q.generations = {} \/ saying.key[2] \in q.generations
  /\ \A l \in q.level : PlainLevel(saying.said.level) = PlainLevel(l)
  /\ q.constant # Open => saying.said.constant \in q.constant.min..q.constant.max
  /\ q.charter # <<>> => \E n \in NameCandidates(catalog.charters, q.charter) : ContainsText(Normalize(saying.said.charter), n)
  /\ q.after \cup q.before # {} => saying.said.released # None
SaidOf(catalog, docs, at, i) == {s \in Sayings(docs) : <<s.key, at, i>> \in catalog.index}
OnlyChartsAsked(q) ==
  q = [Blank EXCEPT !.level = q.level, !.constant = q.constant, !.charter = q.charter, !.difficulties = q.difficulties,
                    !.generations = q.generations, !.sort = q.sort, !.limit = q.limit]
InOrder(hits, sort) ==
  \A i, k \in DOMAIN hits : i < k =>
    /\ hits[i].at # hits[k].at
    /\ sort = Blank.sort => KindOrder(hits[i].kind) <= KindOrder(hits[k].kind)
    /\ sort.key \in MaySortLast \cup {"bpm"} /\ hits[i].value = <<>> => hits[k].value = <<>>
    /\ sort.key \in MaySortLast \cup {"bpm"} /\ hits[k].value # <<>> =>
         IF sort.direction = "ascending" THEN hits[i].value[1] <= hits[k].value[1] ELSE hits[i].value[1] >= hits[k].value[1]
QueryExact ==
  Using(Published[question.of], LAMBDA docs :
  Using(question.query, LAMBDA q :
  Using(Query(loaded, [q EXCEPT !.limit = {}]).hits, LAMBDA whole :
  LET means(a, hit) ==
        /\ \A v \in a.bpm : 10 * hit.song.bpm \in v[1]..v[2]
        /\ \A v \in a.fit : v[1] = v[2] /\ a.fitMax = {} =>
             \A i \in hit.charts : \E p \in ToSet(hit.song.projections) : \E c \in ToSet(p.charts) : c.fit \div 10 = v[1] \div 10
        /\ \A v \in a.ds : a.dsMin \cup a.dsMax = {} =>
             \A i \in hit.charts : \E s \in SaidOf(loaded, docs, hit.at, i) : s.said.constant \in v[1]..v[2]
  IN /\ Answered("query") /\ answer.ok =>
          /\ IsPrefix(answer.hits, whole) /\ (answer.hits # whole => {Len(answer.hits)} = q.limit)
          /\ InOrder(whole, q.sort)
          /\ \A h \in ToSet(whole) : \A i \in h.charts :
               \E s \in SaidOf(loaded, docs, h.at, i) : SaysIt(loaded, s, q)
          /\ OnlyChartsAsked(q) => \A e \in loaded.index : \A s \in Sayings(docs) :
               s.key = e[1] /\ SaysIt(loaded, s, q) => \E h \in ToSet(whole) : h.at = e[2] /\ e[3] \in h.charts
     /\ Answered("search_songs") /\ answer.ok =>
          /\ answer.success + answer.failure = Len(answer.items)
          /\ \A n \in DOMAIN answer.items :
               LET item == answer.items[n]
               IN /\ item.ok => (item.truncated <=> Len(item.hits) < item.total)
                  /\ \A h \in ToSet(item.hits) : means(question.items[n], h)
     /\ Answered("versions") /\ answer.ok =>
          /\ \A k, n \in DOMAIN answer.lines : answer.lines[k].version = answer.lines[n].version => k = n
          /\ question.needles = {} /\ question.limit = {} =>
               \A d \in ToSet(docs.df) : d.version # <<>> => \E l \in ToSet(answer.lines) : l.version = d.version /\ l.songs > 0)))

(* No tool guesses which song, chart or player is meant: what is chosen by *)
(* a text is its only exact match, or else its only match; by a number the *)
(* only song with it; of the kinds of charts asked for, as far as the song *)
(* has them.  A score by song tells when it had others to choose from, and *)
(* asks Diving-Fish for numbers of that song only; a player found by name  *)
(* is the best match of all users and the only one so named.               *)
OnlyMatch(catalog, at, text, generations) ==
  Using(ToSet(Query(catalog, [Blank EXCEPT !.query = {text}, !.generations = generations]).hits), LAMBDA matches :
  Using({h.at : h \in {m \in matches : m.kind \in ExactKinds}}, LAMBDA exact :
    exact = {at} \/ (exact = {} /\ {h.at : h \in matches} = {at})))
NeverGuesses ==
  LET r == question.request
      docs == Published[question.of]
      song == loaded.songs[answer.at]
      byText(t) == \/ OnlyMatch(loaded, answer.at, t, {})
                   \/ \E typed \in InferQueryType(t) : OnlyMatch(loaded, answer.at, typed[2], {typed[1]})
      numbered(n) == {at \in DOMAIN loaded.songs : n \in loaded.songs[at].numbers}
      byId(id) == IF id[1] = "numeric" THEN numbered(id[2]) = {answer.at} ELSE \E i \in ToSet(song.ids) : i[2] = id
      nobody(t) == Query(loaded, [Blank EXCEPT !.query = {t}]).hits = <<>>
  IN /\ Answered("music_info") /\ answer.verdict = "found" =>
          /\ \/ \E id \in r.hintId \cup r.musicId \cup AlternateId(r.musicId, r.type) : byId(id)
             \/ \E t \in r.hintTitle \cup r.query : byText(t)
          /\ \A p \in answer.pages :
               /\ r.type # {} => p.generation \in r.type
               /\ \E c \in ToSet(song.charts) : c.key[2] = p.generation
               /\ p.current => \E d \in ToSet(docs.df) : d.version \in loaded.current /\ DfGeneration(d) = p.generation
     /\ Answered("music_info") /\ answer.verdict = "none" => \A t \in r.query : nobody(t) \/ InferQueryType(t) # {}
     /\ Answered("score_by_song") /\ answer.verdict = "found" =>
          /\ answer.auto <=> answer.total > 1
          /\ answer.rank <= r.limit
          /\ \A t \in ToSet(answer.targets) : \E d \in ToSet(docs.df) :
               /\ NumberOf(DfId(d)) = t.id /\ DfGeneration(d) \in t.generations
               /\ \E e \in loaded.index : e[1][1] = DfId(d) /\ e[2] = answer.at
     /\ Answered("ranked_song") =>
          \A at \in answer.at : \A n \in r.musicId :
            LET fish == {e[2] : e \in {f \in loaded.index : f[1][1] = <<"diving_fish", Numeric(n)>>}}
            IN IF fish # {} THEN at \in fish ELSE n \in loaded.songs[at].numbers
     /\ Answered("score_chart") /\ answer.chart.verdict = "found" =>
          \A e \in loaded.index : e[1] = <<question.id, answer.chart.key[2], question.difficulty>> =>
            e[2] = answer.chart.at /\ answer.chart.key[2] \in question.generations
     /\ Answered("player") /\ question.target.kind = "alias" =>
          LET t == question.target.target
              score(u) == ScoreIdentity(u, t)
          IN /\ answer.verdict = "qq" =>
                  \E u \in question.users : /\ u.qq = answer.target /\ score(u) > 0
                                            /\ \A o \in question.users \ {u} : score(o) < score(u) /\ score(o) < 100
             /\ answer.verdict = "username" => \A u \in question.users : score(u) = 0

(* What is left is counted right.  A plate lacks just the charts that its  *)
(* list names and the player has not completed, whatever the list is shown *)
(* as, and is done only when none is left; the table of the plate and the  *)
(* count agree.  The pages of a level, put together, show every chart of   *)
(* it once, on the side where it belongs.  A rating table never counts     *)
(* more charts at a higher mark, and calls a level cleared only at a mark  *)
(* that every chart of it has reached.  Of a batch every plate is either   *)
(* answered, as it would be alone, or reported.                            *)
Reached(goal, r) == Completed(goal, {r})
CertainlyDone(records, key, goal) ==
  LET own == {r \in records : r.chart = key} IN own # {} /\ \A r \in own : Reached(goal, r)
PossiblyDone(records, key, goal) == \E r \in records : r.chart = key /\ Reached(goal, r)
ListedCharts(docs, server, name) ==
  IF server = "cn"
  THEN LET ids == UNION {ToSet(p.ids) : p \in {q \in docs.plates : q.name = CnKey(name)}}
           remastered == UNION {ToSet(p.ids) : p \in {q \in docs.plates : q.name = RemasterList}}
       IN UNION {{<<DfId(d), DfGeneration(d), i - 1>> : i \in {k \in DOMAIN d.charts :
                    k - 1 # ReMaster \/ (CnKey(name) = "wu" /\ NumberOf(DfId(d)) \in remastered)}}
                 : d \in {e \in ToSet(docs.df) : NumberOf(DfId(e)) \in ids}}
  ELSE UNION {{<<DxProjectionId(x), DxGeneration(y), DxDifficulty(y)>>
               : y \in {z \in ToSet(x.sheets) : z.version = JpVersions[JpName(name)] /\ DxDifficulty(z) < ReMaster}}
              : x \in ToSet(docs.dx)}
CanonicalKeys(catalog, keys) == {catalog.songs[e[2]].charts[e[3]].key : e \in {f \in catalog.index : f[1] \in keys}}
PlateCounts(catalog, docs, records, spec, counts, server) ==
  LET keys == CanonicalKeys(catalog, ListedCharts(docs, server, spec.name))
      of(d) == {k \in keys : k[3] = d}
  IN \A d \in 0..ReMaster :
       /\ counts[d] >= Cardinality({k \in of(d) : ~PossiblyDone(records, k, spec.goal)})
       /\ counts[d] <= Cardinality({k \in of(d) : ~CertainlyDone(records, k, spec.goal)})
PagesTogether(catalog, q, category) ==
  LET shown(page) == LevelProgress(catalog, q.records, [q.request EXCEPT !.category = category, !.page = page], q.allowJp)
      part(a) == a.completed \o a.unfinished \o a.notStarted
  IN FlattenSeq([n \in 1..(IF category = "not_started" THEN 1 ELSE shown(1).pages) |-> part(shown(n))])
CompletionAdds ==
  LET docs == Published[question.of]
      records == question.records
      counted(of, d) == Len(SelectSeq(of, LAMBDA c : c.difficulty = d /\ ~c.completed))
      alone(tool, spec) == IF tool = "plates" THEN PlateTable(loaded, records, spec, question.allowJp)
                           ELSE PlateProgress(loaded, records, spec, question.allowJp)
      amongAll(i, one) == /\ \A e \in answer.results : e[1] = i => e[2] = one
                          /\ \A e \in answer.errors : e[1] = i /\ one.ok => i \in question.undrawn
      tableTells(spec, table, told) ==
        LET charts == FlattenSeq([i \in DOMAIN table.members |-> table.members[i].charts])
        IN /\ \A d \in 0..ReMaster : told.counts[d] = counted(charts, d)
           /\ (told.kind = "done") <=> \A c \in ToSet(charts) : c.completed
           /\ told.kind = "done" => told.listed = 0
           /\ told.server \in {"cn"} \cup {s \in {"jp"} : JpName(spec.name) \in DOMAIN JpVersions} =>
                PlateCounts(loaded, docs, records, spec, told.counts, told.server)
      levelTells(completed, unfinished, notStarted) ==
        LET all == completed \o unfinished \o notStarted
            level == {s \in Sayings(docs) : PlainLevel(s.said.level) = PlainLevel(question.request.level)}
        IN /\ Len(all) = answer.total /\ Cardinality({c.key : c \in ToSet(all)}) = answer.total
           /\ answer.remaining = answer.total - Len(completed)
           /\ question.request.server = "jp" =>
                {c.key : c \in ToSet(all)} = CanonicalKeys(loaded, {s.key : s \in level})
           /\ \A c \in ToSet(completed) : PossiblyDone(records, c.key, question.request.goal)
           /\ \A c \in ToSet(unfinished) : ~CertainlyDone(records, c.key, question.request.goal)
           /\ \A c \in ToSet(notStarted) : \A r \in records : r.chart # c.key
  IN /\ (Answered("plates") \/ Answered("plate_progress")) /\ answer.ok =>
          /\ {e[1] : e \in answer.results} \cup {e[1] : e \in answer.errors} = DOMAIN question.specs
          /\ Cardinality(answer.results) + Cardinality(answer.errors) = Len(question.specs)
          /\ \A i \in DOMAIN question.specs : amongAll(i, alone(question.tool, question.specs[i]))
     /\ Answered("plate_progress") /\ answer.ok => \A e \in answer.results :
          tableTells(question.specs[e[1]], alone("plates", question.specs[e[1]]), e[2])
     /\ Answered("level_progress") /\ answer.ok =>
          levelTells(PagesTogether(loaded, question, "completed"), PagesTogether(loaded, question, "unfinished"),
                     PagesTogether(loaded, question, "not_started"))
     /\ Answered("rating_table") /\ answer.ok =>
          LET n == answer.statistics
              played(at) == Cardinality({c \in ToSet(answer.cells) : \E r \in records : r.chart = c.key /\ r.sync >= at})
          IN /\ n.eighty >= n.s /\ n.s >= n.ss /\ n.ss >= n.sss /\ n.sss >= n.sss_plus
             /\ n.fc >= n.fcp /\ n.fcp >= n.ap /\ n.ap >= n.app
             /\ n.fs >= n.fsp /\ n.fsp >= n.fsd /\ n.fsd >= n.fsdp /\ n.sync + n.fs <= played(1)
             /\ Len(answer.cells) = answer.total /\ Cardinality({c.key : c \in ToSet(answer.cells)}) = answer.total
             /\ answer.allClear # None =>
                  /\ question.request.mode = "achievement" => n.s = answer.total
                  /\ question.request.mode = "combo" => n.fc = answer.total
                  /\ question.request.mode = "sync" => n.fs + n.sync = answer.total
                  /\ \A c \in ToSet(answer.cells) : c[question.request.mode] >= answer.allClear
             /\ question.request.mode = "combo" /\ answer.total > 0 /\ n.fc = answer.total => answer.allClear # None
-----------------------------------------------------------------------------
(* Nothing is made of half a reply.  Whatever a client answers with, a     *)
(* reply was sent, with a status that says it is one, and its body was     *)
(* read to its end within the limit; what changes an account was           *)
(* confirmed by name; tokens are two and new, and none come of a body that *)
(* can be read to say no; the list of a group is all of that group; every  *)
(* document of a source is the reply of its own endpoint, the second one   *)
(* of dxdata's only where the first gave none, counted for what it holds.  *)
(* And a whole reply to a valid request is answered with.                  *)
WholeBody(reply) ==
  /\ reply.sent = "sent" /\ reply.broken = "no" /\ BytesIn(reply.chunks) <= BodyLimit
  /\ \A n \in reply.declared : n <= BodyLimit
WholeSuccess(reply) == WholeBody(reply) /\ reply.status \div 100 = 2
OperationWhole ==
  LET r == question.request
      confirmed == Operations[r.operation].mutating => r.confirm = r.operation
      local == r.operation = "maimai_cover_url"
  IN /\ answer.verdict = "answered" => confirmed /\ (local \/ (WholeSuccess(question.reply) /\ answer.json = question.reply.json))
     /\ (ValidateRequest(r) = "valid" /\ Sendable(r) /\ ~local) =>
          ((answer.verdict = "answered") <=> WholeSuccess(question.reply))
TokensWhole ==
  answer.verdict = "tokens" =>
    /\ WholeSuccess(question.reply)
    /\ answer.access # <<>> /\ answer.refresh # <<>>
    /\ question.request.grant = "refresh_token" => answer.refresh # question.request.secret.value
    /\ \A v \in question.reply.json : IsObject(v) /\ Reads(v, {"success"}, {"bool"}) /\ Reads(v, {"error"}, {"text"}) =>
         Flag(FALSE) \notin FieldOf(v, {"success"}) /\ \A t \in FieldOf(v, {"error"}) : t = Null
ItemsOf(v) == IF v.is = "array" THEN v.items ELSE (CHOOSE x \in FieldOf(v, {"data"}) : TRUE).items
ListWhole ==
  answer.verdict = "listed" =>
    /\ WholeSuccess(question.reply)
    /\ \A v \in question.reply.json : Len(answer.entries) = Len(ItemsOf(v))
    /\ question.tool = "group_members" => \A e \in ToSet(answer.entries) : e.group = {Trim(question.group)} /\ e.user # {}
ReplyTo(endpoint) ==
  LET proxy == question.replies["dxdata_proxy"]
  IN IF endpoint = "dxdata_proxy" /\ SourceReply(endpoint, proxy).verdict = "refused"
     THEN question.replies["dxdata_github"] ELSE question.replies[endpoint]
SourceWhole ==
  LET parts == SourceParts[question.source]
      bare(i) == \E v \in ReplyTo(parts[i][1]).json : v.is = "array" /\ parts[i][2] # "Location"
  IN /\ answer.verdict = "updated" =>
          /\ Len(answer.documents) = Len(parts)
          /\ \A i \in DOMAIN parts :
               /\ WholeSuccess(ReplyTo(parts[i][1]))
               /\ answer.documents[i].target = parts[i][2]
               /\ ReplyTo(parts[i][1]).json = {answer.documents[i].json}
               /\ bare(i) => answer.documents[i].counts = <<Len(answer.documents[i].json.items)>>
     /\ answer.verdict = "not_modified" => question.source = "divingfish" /\ ReplyTo("divingfish_music").status = 304
     /\ (question.source # "dxdata" /\ \A i \in DOMAIN parts :
           LET reply == ReplyTo(parts[i][1])
           IN WholeSuccess(reply) /\ reply.type = "json" /\ reply.etag = {} /\ bare(i)
              /\ parts[i][2] \notin {"DivingFishChartStats", "DxRatingTags", "Plate"}) => answer.verdict = "updated"
RepliesWhole ==
  /\ Answered("operation") => OperationWhole
  /\ Answered("tokens") => TokensWhole
  /\ Answered("accounts") \/ Answered("group_members") => ListWhole
  /\ Answered("fetch") => SourceWhole

(* Nothing is made of half a reply (RepliesWhole), and a player's scores   *)
(* arrive as they were sent, or not at all.  Every score                   *)
(* of the list of a reply is one record, of the chart that the catalogue   *)
(* has under the number it was sent with, or the request fails; what is    *)
(* kept of a full list is the source's list as of now and nothing else,    *)
(* never an older one in the place of a newer one, and reads back as the   *)
(* records that were answered with.  A failure keeps what was there.       *)
(* Only a token that was refused is replaced, once, and the scores are     *)
(* those of the source that was chosen.  (An LXNS list of one score that   *)
(* cannot be read is taken for a player without any; see ListsIn.)         *)
IsList(v) == ListOf(v, LAMBDA x : x.is = "score")
Inside(v, names) == IF IsList(v) THEN {} ELSE IF v.is = "array" THEN ToSet(v.items) ELSE FieldOf(v, names)
ListsIn(v, names) ==
  {x \in FoldSet(LAMBDA d, found : found \cup UNION {Inside(y, names) : y \in found}, {v}, 1..Depth) : IsList(x)}
ListNames == IF answer.source = "lxns" THEN {"data", "scores"} ELSE {"records", "verlist"}
Sent(n) == LET reply == question.replies[n].main
           IN UNION {{list.items : list \in ListsIn(v, ListNames)} : v \in reply.json} \ {<<>>}
LastReply == IF answer.tokens = 2 THEN 2 ELSE 1
(* The chart of a score, by the number and the kind it was sent with.      *)
IsChartOf(catalog, record, raw, namespace) ==
  LET keys == {<<<<namespace, raw.id>>, g, record.key[3]>> : g \in (IF record.utage THEN UtageKinds ELSE {raw.type})}
      indexed == {e \in catalog.index : e[1] \in keys}
  IN /\ record.from = <<namespace, raw.id>>
     /\ ~record.utage => record.key[2] = raw.type
     /\ indexed # {} => \E e \in indexed : catalog.songs[e[2]].charts[e[3]].key = record.key
AllArrive(catalog) ==
  LET namespace == answer.source
      records == answer.records
  IN \A list \in Sent(LastReply) :
       (Cardinality(Sent(LastReply)) = 1 /\ (namespace = "lxns" /\ Len(list) = 1 => LxnsReads(list[1]))) =>
          /\ Len(records) = Len(list)
          /\ \A i \in DOMAIN list : IsChartOf(catalog, records[i], list[i], namespace)
Facts(records) == {<<r.key, r.achievement, r.rating, r.dx>> : r \in records}
KeptWell(catalog) ==
  Using(question.kept, LAMBDA old :
  Using(PlayerScores([question EXCEPT !.explicit = {"local"}, !.policy = "stored_preference", !.broken = {},
                                      !.kind = "records", !.kept = answer.kept], catalog), LAMBDA readBack :
    /\ Cardinality(answer.kept) <= 1
    /\ answer.kept # old =>
         /\ question.lookup = "qq" /\ answer.source # "local"
         /\ \A s \in answer.kept : s.source = answer.source /\ s.at = question.now /\ \A o \in old : o.at <= s.at
         /\ answer.verdict = "refused" => question.kind = "song"
         /\ answer.verdict = "scores" /\ question.kind = "records" =>
              IF answer.records = <<>> THEN readBack.verdict = "refused"
              ELSE /\ readBack.verdict = "scores"
                   /\ Facts(ToSet(readBack.records)) = Facts(ToSet(answer.records))
    /\ (answer.verdict = "scores" /\ question.kind = "records" /\ answer.source # "local" /\ question.lookup = "qq") =>
         \A s \in answer.kept : s.at = question.now => {r.key : r \in s.rows} = {r.key : r \in ToSet(answer.records)}))
Unauthorized(replies) == \E r \in {replies.main, replies.player} : WholeBody(r) /\ r.json # {} /\ r.status = 401
ChosenRight ==
  /\ question.lookup = "username" \/ question.policy = "diving_fish_only" => answer.source \in {"diving_fish", "none"}
  /\ answer.source = "lxns" => (answer.tokens = 2 =>
       question.grants[1] = "granted" /\ Unauthorized(question.replies[1]))
  /\ answer.tokens > 0 => answer.source = "lxns"
  /\ answer.source = "lxns" /\ answer.tokens = 2 /\ answer.verdict # "refused" => WholeSuccess(question.replies[2].main)
  /\ answer.source \in {"lxns", "diving_fish"} /\ answer.tokens < 2 /\ answer.verdict # "refused" =>
       WholeSuccess(question.replies[1].main)
ScoresArrive ==
  /\ RepliesWhole
  /\ Answered("scores") =>
       /\ ChosenRight
       /\ KeptWell(loaded)
       /\ (answer.verdict = "scores" /\ question.kind = "records" /\ answer.source # "local") => AllArrive(loaded)
       /\ answer.verdict = "b50" =>
            /\ \A r \in ToSet(answer.b50.legacy \o answer.b50.current) :
                 \E own \in ToSet(answer.records) : r.key = own.key /\ r.achievement = own.achievement /\ r.dx = own.dx
            /\ (answer.source # "local" /\ question.mode # "provider") => AllArrive(loaded)
-----------------------------------------------------------------------------
(* What is shown of a player's scores is what was asked for.               *)

(* Of two charts, the first is ahead by what is asked to sort by: what is  *)
(* not known is behind everything that is.                                 *)
AheadBy(l, r, o) ==
  LET v == DisplayValue(l, IF o.sortBy = "default" THEN "ra" ELSE o.sortBy)
      w == DisplayValue(r, IF o.sortBy = "default" THEN "ra" ELSE o.sortBy)
  IN IF o.sortBy = "title" THEN IF o.order = "asc" THEN TextLess(l.title, r.title) ELSE TextLess(r.title, l.title)
     ELSE IF v = {} \/ w = {} THEN v # {} /\ w = {}
     ELSE IF o.order = "asc" /\ o.sortBy # "default" THEN The(v) < The(w)
     ELSE The(v) > The(w)
TopOf(list, charts, o) ==
  LET matching == {r \in ToSet(charts) : MatchesDisplay(r, o)}
      shown == ToSet(list)
  IN /\ shown \subseteq matching
     /\ Len(list) = Cardinality(shown) /\ Len(list) = Lesser(o.topN, Cardinality(matching))
     /\ \A l \in shown, r \in matching \ shown : ~AheadBy(r, l, o)
     /\ \A i, k \in DOMAIN list : i < k => ~AheadBy(list[k], list[i], o)
ListShown ==
  LET o == question.args.display
      section == Sections[o.section]
      text == answer.text
  IN /\ section = "split" => /\ Len(text) = 2
                             /\ TopOf(text[1], answer.legacy, o) /\ TopOf(text[2], answer.current, o)
     /\ section # "split" => Len(text) = 1
     /\ section = "legacy" => TopOf(text[1], answer.legacy, o)
     /\ section = "current" => TopOf(text[1], answer.current, o)
     /\ section = "all" => TopOf(text[1], answer.legacy \o answer.current, o)
     /\ \A c \in answer.computed :
          LET listed == Len(answer.legacy) + Len(answer.current)
              full == Len(answer.legacy) = LegacyCapacity \/ Len(answer.current) = CurrentCapacity
          IN c.eligible >= listed /\ (~full => c.eligible = listed)
(* The result of a player is in the player's place, and as it is alone.    *)
BatchShown ==
  LET results == answer.results
      alone(i) == [of |-> question.of, users |-> {}, batch |-> TRUE, public |-> FALSE, computed |-> FALSE,
                   late |-> i \in question.late, ask |-> question.asks[i],
                   args |-> [question.args EXCEPT !.qq = {question.qqs[i]}]]
      same(result, own) ==
        /\ result.ok <=> own.verdict = "shown"
        /\ result.ok => /\ result.total = own.total
                        /\ result.summary = IF question.summaries THEN {own.text} ELSE {}
  IN /\ Len(results) = Len(question.qqs) /\ answer.requested = Len(results)
     /\ answer.success + answer.failure = Len(results)
     /\ answer.success = Cardinality({i \in DOMAIN results : results[i].ok})
     /\ \A i \in DOMAIN results :
          /\ results[i].qq = question.qqs[i]
          /\ same(results[i], The(ExecuteB50(loaded, alone(i), alone(i).args)))
Heard(kind) == PlayerScores([question.ask EXCEPT !.kind = kind, !.explicit = {answer.source}], loaded)
SameRecords(shown, records) == Facts(shown) = Facts(records)
(* A song's scores are those of the player's records that are of a song    *)
(* with that number, or whose name has the words that were asked for.      *)
SongShown ==
  LET a == question.args
      meant(song) == \/ \E t \in a.musicId : ParseMusicId(t) \in song.numbers
                     \/ \E t \in a.songQuery : MatchBy(song, {Trim(t)}) # "none"
      of(r) == The({s \in ToSet(loaded.songs) : s.ids[1] = r.key[1]})
      fits(r) == /\ a.difficulty = {} \/ r.key[3] \in a.difficulty
                 /\ a.songType = {} \/ r.key[2] \in UNION {GenerationsFor[t] : t \in a.songType}
  IN /\ \A r \in ToSet(answer.records) : meant(of(r)) /\ fits(r)
     /\ Cardinality({r.key[1] : r \in ToSet(answer.records)}) <= 1
     /\ a.musicId # {} /\ answer.source # "lxns" =>
          SameRecords(ToSet(answer.records), {r \in ToSet(Heard("records").records) : meant(of(r)) /\ fits(r)})
(* With a plate they are those whose chart is of the kind, and of the song,*)
(* of one that the plate's lists name.                                     *)
RecordsShown ==
  Using(question.args, LAMBDA a :
  Using(Published[question.of], LAMBDA docs :
  Using(IF a.server = {} THEN "cn" ELSE The(a.server), LAMBDA server :
  Using(CanonicalKeys(loaded, ListedCharts(docs, server, The(a.plate))), LAMBDA listed :
  Using(server = "cn" \/ JpName(The(a.plate)) \in DOMAIN JpVersions, LAMBDA known :
  Using(TitledList(loaded, Heard("records").records), LAMBDA all :
  LET fits(r) == /\ \A l \in a.level : r.level = Trim(l)
                 /\ \A v \in a.versions : r.version \cap v # {}
                 /\ \A p \in a.plate : \E k \in listed : k[1] = r.key[1] /\ k[2] = r.key[2]
  IN /\ a.musicId = {} /\ (a.plate = {} \/ known) =>
          SameRecords(ToSet(answer.records), {r \in ToSet(all) : fits(r)})
     /\ answer.total >= Len(answer.records)))))))
ApiAllowed ==
  LET a == question.args
      operation == Operations[a.operation]
  IN answer.verdict # "refused" =>
       /\ operation.mutating => a.confirm = {a.operation}
       /\ operation.auth = "developer_token" => a.developer # {} \/ question.bound = "present"
       /\ operation.auth = "login" => a.jwt # {}
       /\ a.operation = "maimai_login" => a.body = "login"
(* A list shows exactly so many of the charts that fit as were asked for,  *)
(* none of them behind one that is left out, in the section where it       *)
(* belongs, whatever it is sorted and filtered by; a batch gives everyone  *)
(* their own result, in whatever order the players are done; the scores of *)
(* a song or a plate are all those of the player's records that are of it; *)
(* and what changes something at Diving-Fish was confirmed by name.        *)
AskedIsShown ==
  /\ Answered("query_b50") /\ answer.verdict = "shown" => ListShown
  /\ Answered("b50_batch") /\ answer.verdict = "batch" => BatchShown
  /\ Answered("song_score") /\ answer.verdict = "shown" => SongShown
  /\ Answered("player_records") /\ answer.verdict = "shown" => RecordsShown
  /\ Answered("diving_fish_api") => ApiAllowed
-----------------------------------------------------------------------------
(* The server as a whole.                                                  *)

(* The parts to which the tools of each fragment belong.                   *)
PartsOfFragment ==
  <<{"catalog"}, {"identity"}, {"oauth"}, {"rankings"},
    {"b50", "completion", "music_info", "music_score", "global_stats", "rise_score", "score_list", "rating_ranking"},
    {"score_by_song"}, {"queries", "settings"}>>
SurfaceHolds ==
  LET fragments == Surfaces[question.surface]
      owners == {i \in DOMAIN fragments : \E t \in ToSet(fragments[i].tools) : t.name = question.name}
  IN IF answer.verdict = "unserved" THEN question.surface # 1
     ELSE CASE owners = {} -> answer.part = "none" /\ answer.reply = "invalid_params"
            [] OTHER -> /\ Cardinality(owners) = 1
                        /\ answer.part \in PartsOfFragment[CHOOSE i \in owners : TRUE]
                        /\ answer.reply # "internal_error"
                        /\ (answer.reply = "success") = (question.outcome = "done")

(* What a variable says comes before what a later one says, and a later    *)
(* one counts only if those before it say nothing.                         *)
Obeyed(names, setting) ==
  \A i \in DOMAIN names : names[i] \in DOMAIN question.env
    => LET v == question.env[names[i]]
       IN (v.kind = "says" /\ \A j \in 1..(i - 1) : names[j] \in DOMAIN question.env =>
                                                     question.env[names[j]].kind \in {"empty", "blank"})
          => setting \in v.says
StartHolds ==
  LET stops == {"rankings", "identity", "catalog_jobs"}
      env == question.env
      old == {env[n].says : n \in {"MAIMAI_BINDINGS_DB_PATH", "MAIMAI_LOCAL_DB_PATH"} \cap DOMAIN env} \ {{}}
      state == "MAIMAI_STATE_DB" \in DOMAIN env /\ env["MAIMAI_STATE_DB"].kind = "says"
  IN IF answer.verdict = "ended"
     THEN answer.fault # "none" /\ answer.state # "open"
          /\ \/ question.surface # 1 \/ question.env # [n \in {} |-> 0]
             \/ ~{DataDir(env), StaticRoot(env)} \subseteq question.dirs
             \/ question.failing \cap ToSet(OpenSteps) # {}
     ELSE /\ answer.stopped = stops /\ answer.state = "closed"
          /\ (answer.fault = "none") = (question.failing \cap ({"stdio"} \cup stops) = {})
          /\ "stdio" \in question.failing => answer.fault = "stdio"
          /\ question.failing \subseteq {"stdio"} \cup stops
          /\ Cardinality(old) > 1 => state
          /\ answer.settings.data \in question.dirs /\ answer.settings.static \in question.dirs
          /\ Obeyed(<<"NAPCAT_ACCESS_TOKEN", "NAPCAT_TOKEN">>, answer.settings.token)
          /\ Obeyed(<<"MAIMAI_DISPLAY_UTC_OFFSET", "MCP_DISPLAY_TZ">>, answer.settings.offset)

(* A session as those who hold it see it: who called, what was shown.      *)
Caller(call) ==
  LET said == SelectSeq(<<"qq", "subject">>, LAMBDA f : f \in DOMAIN call.args /\ Trim(call.args[f]) # <<>>)
  IN IF said = <<>> THEN <<>> ELSE Trim(call.args[said[1]])
PlaceOf(call) ==
  LET named(f, g) == LET said == SelectSeq(<<f, g>>, LAMBDA n : n \in DOMAIN call.args /\ Trim(call.args[n]) # <<>>)
                     IN IF said = <<>> THEN <<>> ELSE Trim(call.args[said[1]])
  IN <<named("adapterId", "adapter"), named("groupId", "conversation"), named("botQq", "bot")>>
SessionHolds ==
  LET calls == question.calls
      shown == answer.shown
      is(i, verdict) == shown[i].verdict = verdict
      ended(i) == is(i, "confirmation") /\ shown[i].status # "context_mismatch"
      gained(i) == is(i, "bound") \/ (is(i, "confirmation") /\ shown[i].status = "confirmed")
      before(i, W(_)) == {j \in 1..(i - 1) : Caller(calls[j]) = Caller(calls[i]) /\ W(j)}
      since(i, j, W(_)) == \E k \in before(i, W) : k > j
      tokens(i) == LET lost == before(i, LAMBDA j : is(j, "unbound"))
                   IN {j \in before(i, gained) : \A k \in lost : j > k}
      (* Confirmations that are awaited, by when they were prepared.        *)
      awaited(i) == {j \in before(i, LAMBDA k : is(k, "pending")) :
                       shown[j].until > calls[i].at
                       /\ ~since(i, j, LAMBDA k : is(k, "url") \/ is(k, "unbound") \/ is(k, "bound") \/ ended(k))}
      lost(i, j) == since(i, j, LAMBDA k : shown[k] = Fails("STATE_EXPIRED"))
      (* Links that may be used.                                            *)
      open(i) == {j \in before(i, LAMBDA k : is(k, "url")) :
                    /\ shown[j].until > calls[i].at /\ PlaceOf(calls[j]) = PlaceOf(calls[i])
                    /\ \A s \in Arg(calls[i].args, "state") : Trim(s) \in {<<>>, shown[j].state}
                    /\ ~since(i, j, LAMBDA k : is(k, "url") \/ is(k, "unbound") \/ is(k, "pending") \/ gained(k))}
      (* A code as LXNS shows it, which is accepted.                        *)
      good(i) == /\ calls[i].grant = "fits" /\ "state" \notin DOMAIN calls[i].args
                 /\ \E code \in Arg(calls[i].args, "code") : code = [blank |-> FALSE, fits |-> TRUE, pairs |-> <<<<"code", <<5>>>>>>]
      settings(i, S) == {j \in 1..(i - 1) : calls[j].tool \in S /\ ~is(j, "failed")}
  IN \A i \in DOMAIN calls :
       LET tool == calls[i].tool
           named == CleanText(Caller(calls[i])) /\ DOMAIN calls[i].args \subseteq ServiceFields[tool]
       IN /\ tool = "maimai_lxns_status" /\ named =>
               /\ is(i, "status") /\ shown[i].revision = Cardinality(tokens(i)) /\ shown[i].bound = (tokens(i) # {})
               /\ shown[i].pending = (awaited(i) # {})
          /\ is(i, "confirmation") /\ shown[i].status = "confirmed" =>
               \E j \in awaited(i) : PlaceOf(calls[j]) = PlaceOf(calls[i])
          /\ tool = "maimai_lxns_confirm_poke" /\ (\E j \in awaited(i) : ~lost(i, j) /\ PlaceOf(calls[j]) = PlaceOf(calls[i])) =>
               is(i, "confirmation") /\ shown[i].status = "confirmed" /\ shown[i].revision = Cardinality(tokens(i)) + 1
          /\ is(i, "bound") \/ is(i, "pending") => open(i) # {}
          /\ is(i, "bound") => shown[i].revision = Cardinality(tokens(i)) + 1
          /\ tool = "maimai_lxns_bind_code" /\ named /\ question.client /\ good(i)
             /\ (\E j \in open(i) : ~since(i, j, LAMBDA k : shown[k] = Fails("OAUTH_ERROR"))) => is(i, "bound")
          /\ (tool = "developer_token_status" /\ named) \/ is(i, "cleared") =>
               LET changed == settings(i, {"bind_developer_token", "clear_developer_token"})
                   kept == changed # {} /\ is(Max(changed), "token")
               IN IF is(i, "cleared") THEN shown[i].cleared = kept ELSE shown[i].bound = kept
(* A snapshot is of today until the hour of the reset has come again.      *)
OfToday == \E at \in UNION question.fetched : \A t \in (at + 1)..question.now : t % 24 # question.hour
IdentityHolds ==
  /\ answer.verdict \in {"refresh", "identities", "resolved"} => answer.cache.fresh = OfToday
  /\ answer.verdict = "refresh" =>
       answer.started = ((~OfToday \/ "forceRefresh" \in DOMAIN question.args) /\ \A j \in question.job : j.status # "running")
  /\ answer.verdict = "identity" /\ answer.found # {} =>
       LET best == Resolve(question.users, Trim(question.args.qq), 1).matches
       IN best # <<>> /\ answer.found = {best[1].user.qq}
MembersHold ==
  LET known == {m.qq : m \in {n \in ToSet(question.snapshot) : question.group \in n.groups}}
      all == IF answer.from = "snapshot" THEN known ELSE UNION {ToSet(r) : r \in question.remote}
  IN /\ OfToday /\ known # {} => answer.verdict = "members" /\ answer.from = "snapshot"
     /\ answer.verdict = "members" =>
          /\ ToSet(answer.members) \subseteq all /\ Len(answer.members) = Min({Cardinality(all)} \cup question.most)
          /\ answer.from = "snapshot" => OfToday

(* A call goes to the part its tool belongs to and to no other, under      *)
(* either of the names by which a setting, a player or a place may be      *)
(* told; whatever it changes is what later calls of the same player find,  *)
(* and nothing else is; a binding is only ever made by a link, or a        *)
(* confirmation, that its player had from the same place in time; a server *)
(* that served always leaves its state closed.  (protocol/router.rs,       *)
(* public/run.rs, oauth_tools, identity_tools, score_settings)             *)
CallsArrive ==
  /\ Answered("surface") => SurfaceHolds
  /\ Answered("start") => StartHolds
  /\ Answered("session") => SessionHolds
  /\ Answered("identity") => IdentityHolds
  /\ Answered("members") => MembersHold

-----------------------------------------------------------------------------
(* Of what processes did to a state file: before and after each event.     *)
Before(i) == answer[i].db
After(i) == answer[i + 1].db
Told(i) == answer[i + 1].reply
EventsThat(do) == {i \in DOMAIN question.events : question.events[i].do = do}
Openings == {i \in EventsThat("open") : Told(i).verdict = "opened"}

(* The first opening that completes takes over what earlier programs left: *)
(* of every chart's old records the last that was written, the bindings of *)
(* those who have none yet, and the counts account for every old record.   *)
FirstOpened(i) ==
  LET old == question.db
      new == After(i)
      rows == {r \in ToSet(old.legacy) : Eligible(r)}
      subjects == {t.subject : t \in old.tokens} \cup {Trim(b.qq) : b \in {c \in UNION {ToSet(l) : l \in old.bindings} : DecodedToken(c, 0) # {}}}
      sound(r) == StableId(r) \subseteq Nat /\ r.fc \subseteq {"fc", "ap"} /\ {"broken"} \cap (r.raw \cup r.payload) = {}
  IN /\ Told(i).imported + Told(i).skipped = Len(old.legacy)
     /\ {Key(r) : r \in new.records} = {Key(r) : r \in old.records} \cup {Key(ImportedRow(r)) : r \in rows}
     /\ Cardinality(new.records) = Cardinality({Key(r) : r \in new.records})
     /\ \A r \in rows : \E n \in new.records :
          /\ Key(n) = Key(ImportedRow(r)) /\ n.at >= r.at
          /\ \E s \in rows : n = ImportedRow(s)
          /\ (\A s \in rows : Key(ImportedRow(s)) = Key(n) => sound(s)) => Readable(n)
     /\ \A r \in old.records : (\A s \in rows : Key(ImportedRow(s)) # Key(r)) =>
          \E n \in new.records : n.achievement = r.achievement /\ Key(n) = Key(r) /\ n.at = r.at /\ (r.units # {} => n.units = r.units)
     /\ {t.subject : t \in new.tokens} = subjects /\ Cardinality(new.tokens) = Cardinality(subjects) /\ old.tokens \subseteq new.tokens
     /\ \A t \in new.tokens : t.access # <<>> /\ -1 \notin ToSet(t.access \o t.refresh \o t.client)
     /\ new.mode = "private" /\ (old.parent # "absent" => new.parent = old.parent) /\ new.parent # "absent"

(* A full list is read only as it was stored, by the last store of that    *)
(* player's records, and it always is unless an older list is asked for;   *)
(* no chart has two records.                                               *)
ListsHold ==
  LET changed(i) == {j \in EventsThat("scores") \cup EventsThat("record") : j < i /\ Told(j).verdict = "done"}
      event(j) == question.events[j]
  IN /\ \A i \in EventsThat("snapshot") :
          LET last == Max(changed(i))
              stored == /\ changed(i) # {} /\ event(last).do = "scores"
                        /\ SourceNamed(event(last).profile.source) = {event(i).source} /\ event(last).profile.at >= event(i).fresh
          IN Told(i) = IF stored THEN [verdict |-> "records", records |-> ToSet(event(last).records)] ELSE [verdict |-> "nothing"]
     /\ \A i \in DOMAIN answer : Cardinality(Before(i).records) = Cardinality({Key(r) : r \in Before(i).records})
     /\ \A i \in EventsThat("scores") :
          /\ Told(i).verdict # "done" => After(i) = Before(i)
          /\ {r \in After(i).records : r.qq # event(i).profile.qq} = {r \in Before(i).records : r.qq # event(i).profile.qq}
          /\ \A s \in Before(i).snapshots, t \in After(i).snapshots : s.qq = t.qq => s.at <= t.at

(* A snapshot of the identities replaces friends and groups at once or not *)
(* at all, keeps what providers told of somebody, forgets the others, and  *)
(* counts what is there.                                                   *)
IdentitiesHold ==
  LET event(j) == question.events[j]
      told(u) == <<u.fishName, u.fishUser, u.fishRating>>
      names(list, qq) == UNION {Cleaned(p.name) : p \in {q \in ToSet(list) : q.qq = qq}}
  IN \A i \in EventsThat("identities") \cup EventsThat("fish") :
       LET new == After(i)
           old == Before(i)
           listed == UNION {{<<g.group, m.qq>> : m \in ToSet(g.members)} : g \in ToSet(event(i).groups)}
           friends == {f.qq : f \in ToSet(event(i).friends)}
           all == event(i).friends \o FlattenSeq([k \in DOMAIN event(i).groups |-> event(i).groups[k].members])
       IN /\ Told(i).verdict # "done" => new = old /\ event(i).do # "fish"
          /\ \A u \in old.users : told(u) # <<{}, {}, {}>> => \E v \in new.users : v.qq = u.qq /\ (event(i).do # "fish" => told(v) = told(u))
          /\ \A m \in new.meta :
               /\ m.stats.users = Cardinality({u.qq : u \in new.users})
               /\ m.stats.friends = Cardinality({u \in new.users : u.friend}) /\ m.stats.members = Cardinality(new.members)
               /\ \A n \in old.meta : IF event(i).do = "fish" \/ new = old THEN <<m.generation, m.fetched>> = <<n.generation, n.fetched>>
                                      ELSE m.generation > n.generation
          /\ event(i).do = "identities" /\ Told(i).verdict = "done" =>
               /\ {<<m.group, m.qq>> : m \in new.members} = listed /\ {u.qq : u \in {v \in new.users : v.friend}} = friends
               /\ friends \cup {p[2] : p \in listed} \subseteq {u.qq : u \in new.users}
               /\ \A u \in new.users :
                    /\ u.friend \/ told(u) # <<{}, {}, {}>> \/ \E p \in listed : p[2] = u.qq
                    /\ u.qqName \subseteq names(all, u.qq) /\ (u.qqName = {} => names(all, u.qq) = {})
                    /\ u.friendName \subseteq names(event(i).friends, u.qq)
ShownHold ==
  \A i \in EventsThat("users") : \A s \in Told(i).users :
    /\ ToSet(s.groups) = {m.group : m \in {n \in Before(i).members : n.qq = s.user.qq}} /\ Len(s.groups) = Cardinality(ToSet(s.groups))
    /\ s.preferred = ToSet(s.groups) \cap question.events[i].preferred

(* However often a process dies while it opens the state, and at whatever  *)
(* step, the next that opens it finds what one undisturbed opening leaves; *)
(* what earlier programs left is taken over once, completely, and never    *)
(* again over what was written since; full lists and identities are        *)
(* replaced as a whole.  (maimai-storage: schema/mod.rs, schema/legacy.rs, *)
(* oauth/migration.rs, store/snapshot.rs, identity/store.rs)               *)
StateSurvives ==
  Answered("state") =>
       /\ (\A i \in EventsThat("open") : question.events[i].appears = "absent") => 
            Last(Kept([question EXCEPT !.events = SelectSeq(@, LAMBDA e : e.do # "open" \/ e.upto = Len(OpeningSteps))])).db
              = Last(answer).db
       /\ \A i \in Openings : IF \A j \in Openings : i <= j THEN FirstOpened(i)
                              ELSE After(i) = Before(i) /\ Told(i).applied
       /\ \A i \in EventsThat("open") : Told(i).verdict = "unusable" => After(i).file \notin {"absent", "file"}
       /\ ListsHold /\ IdentitiesHold /\ ShownHold
=============================================================================
