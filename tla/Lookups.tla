------------------------------- MODULE Lookups -------------------------------
(***************************************************************************)
(* Which song, chart or player a request means (maimai-app music_info,     *)
(* score_by_song, rankings, scores/catalog and identity/resolve).          *)
(***************************************************************************)
EXTENDS CatalogQueries

FoundHit(hit, type) == [verdict |-> "found", hits |-> <<hit>>, type |-> type]
Missing == [verdict |-> "none", hits |-> <<>>, type |-> {}]
Several(hits) == [verdict |-> "ambiguous", hits |-> hits, type |-> {}]
FirstAnswer(attempts) == LET made == SelectSeq(attempts, LAMBDA a : a.verdict # "none")
                         IN IF made = <<>> THEN Missing ELSE made[1]

-----------------------------------------------------------------------------
(* The song that information is asked for (music_info).                    *)

(* Mutant: only the best hit is looked at, as if no other could be as good. *)
BestTextHit(catalog, text, generations) ==
  Query(catalog, [TextQuery(text, 1) EXCEPT !.generations = generations]).hits
TextHits(catalog, text, generations) ==
  Query(catalog, [TextQuery(text, 6) EXCEPT !.generations = generations]).hits
ById(id) == [any |-> TRUE, id |-> <<"any", id>>]
(* The one song of an identifier.                                          *)
UniqueId(catalog, ids, type) ==
  Using(Query(catalog, [Blank EXCEPT !.id = {ById(id) : id \in ids}, !.limit = {6}]).hits, LAMBDA hits :
    IF ids = {} \/ hits = <<>> THEN Missing
    ELSE IF Len(hits) = 1 THEN FoundHit(hits[1], type)
    ELSE Several(hits))
(* The only exact match, or the only match there is.                       *)
ExactOrUnique(catalog, text, generations) ==
  Using(TextHits(catalog, text, generations), LAMBDA hits :
  Using(SelectSeq(hits, LAMBDA h : h.kind \in ExactKinds), LAMBDA exact :
    IF Len(exact) = 1 THEN FoundHit(exact[1], generations)
    ELSE IF hits = <<>> THEN Missing
    ELSE IF exact = <<>> /\ Len(hits) = 1 THEN FoundHit(hits[1], generations)
    ELSE Several(hits)))

DxSongIds == 10001..99999
TypeOfId(ids) == IF \E id \in ids : id[1] = "numeric" /\ id[2] \in DxSongIds THEN {"deluxe"} ELSE {}
AlternateId(ids, types) ==
  {Numeric(id[2] - DxOffset) : id \in {i \in ids : "standard" \in types /\ i[1] = "numeric" /\ i[2] \in DxSongIds}}
  \cup {Numeric(id[2] + DxOffset) : id \in {i \in ids : "deluxe" \in types /\ i[1] = "numeric" /\ i[2] < DxOffset}}

(* A kind of chart may be written before or after a title: the letter 7    *)
(* stands for the markers of standard charts, 8 for those of DX charts.    *)
Markers == <<<<"standard", 7>>, <<"deluxe", 8>>>>
Bare(t) == LET kept == {i \in DOMAIN t : t[i] \notin {0, 10}}
           IN IF kept = {} THEN <<>> ELSE SubSeq(t, Min(kept), Max(kept))
InferQueryType(text) ==
  LET t == Trim(text)
      is(c, marker) == c \in {marker, marker + 10}
      rest(marker) == IF t # <<>> /\ is(Head(t), marker) THEN Bare(Tail(t))
                      ELSE IF t # <<>> /\ is(Last(t), marker) THEN Bare(Front(t))
                      ELSE <<>>
      held == SelectSeq(Markers, LAMBDA m : rest(m[2]) # <<>>)
  IN IF held = <<>> THEN {} ELSE {<<held[1][1], rest(held[1][2])>>}
SelectByText(catalog, text) ==
  Using(TextHits(catalog, text, {}), LAMBDA direct :
  Using(SelectSeq(direct, LAMBDA h : h.kind \in ExactKinds), LAMBDA exact :
  Using(InferQueryType(text), LAMBDA typed :
    IF Len(exact) = 1 THEN FoundHit(exact[1], IF exact[1].kind = "ExactAlias" THEN {t[1] : t \in typed} ELSE {})
    ELSE IF Len(exact) > 1 THEN Several(direct)
    ELSE IF typed # {} THEN LET t == CHOOSE x \in typed : TRUE IN ExactOrUnique(catalog, t[2], {t[1]})
    ELSE IF Len(direct) = 1 THEN FoundHit(direct[1], {})
    ELSE IF direct = <<>> THEN Missing
    ELSE Several(direct))))
SelectHit(catalog, r) ==
  LET byTitle(title) == LET answer == ExactOrUnique(catalog, title, {})
                        IN [answer EXCEPT !.type = TypeOfId(r.musicId)]
      texts(given, Select(_)) == IF given = {} THEN Missing ELSE Select(CHOOSE t \in given : TRUE)
  IN
  Using([by \in {"hint", "id", "alternate"} |->
           UniqueId(catalog, CASE by = "hint" -> r.hintId
                               [] by = "id" -> r.musicId
                               [] by = "alternate" -> AlternateId(r.musicId, r.type),
                    IF by = "alternate" THEN r.type ELSE TypeOfId(r.musicId))], LAMBDA unique :
    FirstAnswer(<<unique["hint"], texts(r.hintTitle, byTitle), unique["id"], unique["alternate"],
                  texts(r.query, LAMBDA t : SelectByText(catalog, t))>>))

(* The kinds of charts shown of it, a page each.                           *)
Generations(available, requested) ==
  LET normal == available \cap {"standard", "deluxe"}
  IN IF requested # {} THEN requested \cap available
     ELSE IF normal # {} THEN normal
     ELSE IF "utage1" \in available THEN {"utage1"}
     ELSE available \cap {"utage2"}
NormalizedId(n, generation) == CASE generation = "deluxe" /\ n < DxOffset -> n + DxOffset
                                 [] generation = "standard" /\ n \in DxSongIds -> n - DxOffset
                                 [] OTHER -> n
(* The number shown with a page: the one asked for, or the one that        *)
(* Diving-Fish, or else the first source, has for this kind of chart.      *)
RenderId(r, song, generation) ==
  LET fish == Where(song.projections, LAMBDA p : /\ p.source = "divingfish"
                                                 /\ \E c \in ToSet(p.charts) : c.generation = generation)
      order(p) == CHOOSE i \in DOMAIN SourceOrder : SourceOrder[i] = p.source
      first == Where(song.projections, LAMBDA p : \A o \in ToSet(song.projections) : order(p) <= order(o))
      at == FirstOf(IF fish # {} THEN fish ELSE first)
      n == NumberOf(song.projections[at].id)
  IN IF \E id \in r.musicId : id[1] = "numeric" THEN {NormalizedId(id[2], generation) : id \in r.musicId}
     ELSE IF at = 0 THEN {}
     ELSE IF n = None THEN {}
     ELSE IF generation = "standard" /\ song.projections[at].source # "divingfish" THEN {n}
     ELSE {NormalizedId(n, generation)}
IsCurrent(catalog, song, generation) ==
  \E p \in ToSet(song.projections) : /\ p.source = "divingfish" /\ p.version \in catalog.current
                                     /\ \E c \in ToSet(p.charts) : c.generation = generation
MusicInfo(catalog, r) ==
  Using(SelectHit(catalog, r), LAMBDA selected :
  Using(selected.hits[1].song, LAMBDA song :
  Using({song.charts[i].key[2] : i \in selected.hits[1].charts}, LAMBDA matched :
  Using(IF r.hintTypes = {} THEN matched ELSE matched \cap r.hintTypes, LAMBDA available :
  Using(Generations(available, IF r.type # {} THEN r.type ELSE selected.type), LAMBDA generations :
    IF selected.verdict # "found" THEN [verdict |-> selected.verdict, at |-> 0, kind |-> "none", pages |-> {}]
    ELSE IF generations = {} THEN [verdict |-> "not_found", at |-> 0, kind |-> "none", pages |-> {}]
    ELSE [verdict |-> "found", at |-> selected.hits[1].at, kind |-> selected.hits[1].kind,
                   pages |-> {[generation |-> g, id |-> RenderId(r, song, g),
                               current |-> IsCurrent(catalog, song, g)] : g \in generations}])))))

-----------------------------------------------------------------------------
(* The song that a player's scores are asked for (score_by_song): the      *)
(* first hit that Diving-Fish has a number for, and which one it was.      *)

Target(targets, target) ==
  LET at == FirstOf(Where(targets, LAMBDA t : t.id = target.id))
  IN IF at = 0 THEN Append(targets, target)
     ELSE [targets EXCEPT ![at].generations = @ \cup target.generations]
MusicTargets(catalog, hit, q) ==
  Using(SelectSeq(hit.song.projections, LAMBDA p : p.source = "divingfish" /\ NumberOf(p.id) # None), LAMBDA fish :
  LET said(p, c, chart) == c.generation = chart.key[2] /\ c.difficulty = chart.key[3]
                           /\ SourceMatches(catalog, p, c, chart, q)
      matching(p, i) == {c.generation : c \in {k \in ToSet(p.charts) : said(p, k, hit.song.charts[i])}}
      targets(found(_)) == SelectSeq([k \in DOMAIN fish |-> [id |-> NumberOf(fish[k].id), generations |-> found(fish[k])]],
                                     LAMBDA t : t.generations # {})
  IN
  Using(FlattenSeq([i \in DOMAIN hit.song.charts |->
          IF i \in hit.charts THEN targets(LAMBDA p : matching(p, i)) ELSE <<>>]), LAMBDA matched :
  LET listed(p) == {c.generation : c \in {k \in ToSet(p.charts) :
                      /\ q.difficulties = {} \/ k.difficulty \in q.difficulties
                      /\ q.generations = {} \/ k.generation \in q.generations}}
  IN UpTo(IF matched # <<>> THEN FoldLeft(Target, <<>>, matched) ELSE targets(listed), {10})))
ResolveSong(catalog, r) ==
  Using([Blank EXCEPT !.query = {r.query}, !.difficulties = r.difficulties, !.generations = r.generations], LAMBDA q :
  Using(Query(catalog, q).hits, LAMBDA hits :
  Using({i \in DOMAIN hits : i <= r.limit /\ MusicTargets(catalog, hits[i], q) # <<>>}, LAMBDA usable :
    IF Trim(r.query) = <<>> \/ r.limit \notin 1..20 THEN [verdict |-> "invalid"]
    ELSE IF hits = <<>> THEN [verdict |-> "song_not_found"]
    ELSE IF usable = {} THEN [verdict |-> "music_id_not_found"]
    ELSE [verdict |-> "found", at |-> hits[Min(usable)].at, rank |-> Min(usable),
                   targets |-> MusicTargets(catalog, hits[Min(usable)], q),
                   auto |-> Len(hits) > 1, total |-> Len(hits), truncated |-> Len(hits) > r.limit])))

(* The song of a ranking: the first that answers to the number, as         *)
(* Diving-Fish has it before anybody else, or to the text.                 *)
RankedSong(catalog, r) ==
  LET best(q) == {h.at : h \in ToSet(Query(catalog, [q EXCEPT !.limit = {1}]).hits)}
  IN
  Using(best([Blank EXCEPT !.id = {[any |-> FALSE, id |-> <<"diving_fish", Numeric(n)>>] : n \in r.musicId}]), LAMBDA exact :
    IF r.musicId # {} /\ exact # {} THEN exact
    ELSE IF r.musicId # {} THEN best([Blank EXCEPT !.id = {ById(Numeric(n)) : n \in r.musicId}])
    ELSE IF r.query # {} THEN best([Blank EXCEPT !.query = r.query])
    ELSE {})

-----------------------------------------------------------------------------
(* The chart that a score of a provider is of (scores/catalog).            *)

AllCharts(catalog) ==
  UNION {{[at |-> h.at, chart |-> h.song.charts[i], key |-> h.song.charts[i].key,
           said |-> SelectSeq(h.song.projections,
                      LAMBDA p : \E c \in ToSet(p.charts) : /\ c.generation = h.song.charts[i].key[2]
                                                             /\ c.difficulty = h.song.charts[i].key[3]),
           ids |-> ToSet(h.song.ids) \cup {p.id : p \in ToSet(h.song.projections)},
           version |-> h.song.version] : i \in h.charts} : h \in ToSet(Query(catalog, Blank).hits)}
ChartIds(entry) == ToSet(entry.chart.ids) \cup {p.id : p \in ToSet(entry.said)}
(* An id, and for a DX chart the number Diving-Fish would have for it.     *)
SourceAliases(id, generations) ==
  LET n == NumberOf(id)
  IN IF id[1] = "diving_fish" /\ generations = {"deluxe"} /\ n \in 0..DxOffset - 1
     THEN <<id, <<"diving_fish", Numeric(n + DxOffset)>> >> ELSE <<id>>
(* The version by which the source of the score knows the chart.           *)
SourceVersion(entry, id, aliases) ==
  LET own == FlattenSeq([i \in DOMAIN aliases |-> SelectSeq(entry.said, LAMBDA p : p.id = aliases[i])])
      kin == {p.version : p \in {o \in ToSet(entry.said) : o.id[1] = id[1]}}
  IN IF own # <<>> THEN own[1].version
     ELSE IF Cardinality(kin) = 1 THEN CHOOSE v \in kin : TRUE
     ELSE entry.version
ResolveChart(catalog, id, generations, difficulty) ==
  Using(SourceAliases(id, generations), LAMBDA known :
  Using(ToSet(known), LAMBDA aliases :
  Using({e \in AllCharts(catalog) : /\ e.key[2] \in generations /\ e.key[3] = difficulty
                                    /\ aliases \cap (ChartIds(e) \cup e.ids) # {}}, LAMBDA fitting :
  Using({e \in fitting : aliases \cap ChartIds(e) # {}}, LAMBDA own :
  Using(IF own # {} THEN own ELSE fitting, LAMBDA matches :
  Using({e.key : e \in matches}, LAMBDA keys :
    CASE keys = {} -> [verdict |-> "chart_not_found"]
      [] Cardinality(keys) > 1 -> [verdict |-> "ambiguous_chart"]
      [] OTHER -> LET e == CHOOSE x \in matches : TRUE
                  IN [verdict |-> "found", key |-> e.key, at |-> e.at, constant |-> e.chart.constant, fit |-> e.chart.fit,
                      version |-> SourceVersion(e, id, known),
                      current |-> \E p \in ToSet(e.said) : p.source = "divingfish" /\ p.version \in catalog.current]))))))
CanonicalSong(catalog, id) ==
  Using({e.key[1] : e \in {x \in AllCharts(catalog) : id \in ChartIds(x) \cup x.ids}}, LAMBDA songs :
    CASE songs = {} -> [verdict |-> "chart_not_found"]
      [] Cardinality(songs) > 1 -> [verdict |-> "ambiguous_chart"]
      [] OTHER -> [verdict |-> "found", song |-> CHOOSE s \in songs : TRUE])

-----------------------------------------------------------------------------
(* The player that a name means (identity/resolve): by number, by a whole  *)
(* name, by a part of one, and rather in the group that is asked about.    *)

NameScore(name, text) == IF Trim(name) = <<>> THEN 0
                         ELSE IF Normalize(name) = Normalize(text) THEN 100
                         ELSE IF ContainsText(Normalize(name), Normalize(text)) THEN 50
                         ELSE 0
ScoreIdentity(user, text) ==
  Using({NameScore(n, text) : n \in user.names \cup UNION user.groups}, LAMBDA plain :
  Using({s + 10 : s \in {NameScore(n, text) : n \in UNION user.preferred} \ {0}}, LAMBDA preferred :
    IF user.qq = text THEN 200 ELSE Max({0} \cup plain \cup preferred)))
Resolve(users, text, maxResults) ==
  Using({m \in {[user |-> u, score |-> ScoreIdentity(u, text)] : u \in users} : m.score > 0}, LAMBDA scored :
  Using(Sorted(scored, LAMBDA l, r : \/ l.score > r.score
                                     \/ l.score = r.score /\ TextLess(l.user.qq, r.user.qq)), LAMBDA all :
  Using(UpTo(all, {maxResults}), LAMBDA matches :
    [matches |-> matches,
     ambiguous |-> \/ Cardinality({i \in DOMAIN matches : matches[i].score >= 100}) > 1
                   \/ Len(matches) > 1 /\ matches[1].score = matches[2].score])))
ResolvePlayer(users, r) ==
  Using(Resolve(users, r.target, 20), LAMBDA resolution :
    IF r.kind \in {"qq", "username"} THEN [verdict |-> r.kind, target |-> r.target]
    ELSE IF resolution.ambiguous THEN [verdict |-> "ambiguous", target |-> <<>>]
    ELSE IF resolution.matches # <<>> THEN [verdict |-> "qq", target |-> resolution.matches[1].user.qq]
    ELSE [verdict |-> "username", target |-> r.target])
=============================================================================
