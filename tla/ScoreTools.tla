------------------------------- MODULE ScoreTools -------------------------------
(***************************************************************************)
(* The tools that show a player's scores (maimai-mcp score_queries): what  *)
(* their arguments ask of the score service, and what is shown of its      *)
(* answer.  An argument that may be left out is a set of at most one.      *)
(***************************************************************************)
EXTENDS ScoreProviders, Completion

BadInput == [verdict |-> "refused", error |-> "INVALID_INPUT"]
Unclean(t) == Trim(t) = <<>> \/ -1 \in ToSet(t)
The(S) == CHOOSE x \in S : TRUE
TimeoutOf(a) == IF a.timeout = {} THEN 10000 ELSE The(a.timeout)
TimeoutFits(a) == TimeoutOf(a) \in 1000..30000

(* The player: a number, a name, or whatever means exactly one of those    *)
(* who are known.                                                          *)
LookupFor(a, users) ==
  LET given == <<a.qq, a.username, a.target>>
      resolved(kind, texts) == ResolvePlayer(users, [kind |-> kind, target |-> Trim(The(texts))])
  IN IF \E t \in UNION ToSet(given) : Unclean(t) THEN BadInput
     ELSE IF Cardinality({i \in 1..3 : given[i] # {}}) # 1 THEN BadInput
     ELSE IF a.qq # {} THEN IF IsDigits(Trim(The(a.qq))) THEN resolved("qq", a.qq) ELSE BadInput
     ELSE IF a.username # {} THEN resolved("username", a.username)
     ELSE LET found == resolved("alias", a.target)
                   IN IF found.verdict = "ambiguous" THEN BadInput ELSE found
SourceNames ==
  [n \in {"sy", "diving-fish", "divingfish", "waterfish"} |-> "diving_fish"]
  @@ [n \in {"local", "cache"} |-> "local"] @@ [n \in {"lxns", "luoxue"} |-> "lxns"]
(* In public nobody chooses: all scores are of Diving-Fish.                *)
SourceFits(a, public) == IF public THEN a.source = {} ELSE a.source \subseteq DOMAIN SourceNames
SourceFor(a, public) == IF public THEN {"diving_fish"} ELSE {SourceNames[n] : n \in a.source}

(* What takes longer than it may is given up, whether or not its scores    *)
(* had been kept by then.                                                  *)
Late(kept) == [verdict |-> "refused", error |-> "TIMEOUT", kept |-> kept]
InTime(q, result) ==
  IF q.late THEN {Late(q.ask.kept), Late(result.kept)} ELSE {result}

-----------------------------------------------------------------------------
(* Which charts of a best-50 list are shown, and in which order.           *)

Sections ==
  [b50 |-> "all", all |-> "all", b35 |-> "legacy", sd |-> "legacy", old |-> "legacy",
   b15 |-> "current", dx |-> "current", new |-> "current", split |-> "split", both |-> "split"]
DisplayKeys == {"default", "ra", "achievement", "ds", "fitDiff", "fitDelta", "title"}
RangeNames == {"constant", "achievement", "rating", "fit", "delta"}
Limits == 0..50
DisplayFits(o) ==
  /\ o.topN \in Limits /\ o.section \in DOMAIN Sections /\ o.sortBy \in DisplayKeys /\ o.order \in {"asc", "desc"}
  /\ o.label \in {"any", "inflated", "deflated"}
  /\ \A name \in RangeNames : o[name].min <= o[name].max

FitLabelOf(r) == IF None \in {r.constant, r.fit} THEN "none"
                 ELSE IF r.constant > r.fit THEN "inflated"
                 ELSE IF r.constant < r.fit THEN "deflated"
                 ELSE "equal"
PlainB50Level(t) == Normalize(SelectSeq(t, LAMBDA c : c \notin {0, 30}))
MatchesDisplay(r, o) ==
  /\ \A l \in o.level : Trim(l) # <<>> => PlainB50Level(r.level) = PlainB50Level(l)
  /\ o.difficulty = {} \/ r.key[3] \in o.difficulty
  /\ InRange(Known(r.constant), o.constant)
  /\ InRange(Known(Ranked(r)), o.achievement)
  /\ InRange(Known(r.rating), o.rating)
  /\ InRange(Known(r.fit), o.fit)
  /\ InRange(DeltaOf(r, r.fit), o.delta)
  /\ o.label # "any" => FitLabelOf(r) = o.label

(* What is not known comes last, whichever way is asked for.               *)
NumericOrder(v, w, order) ==
  v # {} /\ (w = {} \/ IF order = "asc" THEN The(v) < The(w) ELSE The(v) > The(w))
DefaultOrder(l, r) ==
  LET ahead(v, w) == NumericOrder(Known(v), Known(w), "desc")
  IN \/ ahead(l.rating, r.rating)
     \/ /\ l.rating = r.rating
        /\ \/ ahead(l.achievement, r.achievement)
           \/ l.achievement = r.achievement /\ TextLess(l.title, r.title)
DisplayValue(r, key) == CASE key = "ra" -> Known(r.rating)
                       [] key = "achievement" -> Known(r.achievement)
                       [] key = "ds" -> Known(r.constant)
                       [] key = "fitDiff" -> Known(r.fit)
                       [] key = "fitDelta" -> DeltaOf(r, r.fit)
Compare(l, r, o) ==
  CASE o.sortBy = "default" -> DefaultOrder(l, r)
    [] o.sortBy = "title" -> IF o.order = "asc" THEN TextLess(l.title, r.title) ELSE TextLess(r.title, l.title)
    [] OTHER -> \/ NumericOrder(DisplayValue(l, o.sortBy), DisplayValue(r, o.sortBy), o.order)
                \/ DisplayValue(l, o.sortBy) = DisplayValue(r, o.sortBy) /\ DefaultOrder(l, r)
(* What is equal stays in its order.                                       *)
StableSort(s, before(_,_)) ==
  Using(Sorted(DOMAIN s, LAMBDA i, k : before(s[i], s[k]) \/ (~before(s[k], s[i]) /\ i < k)), LAMBDA at :
    [i \in DOMAIN s |-> s[at[i]]])
(* Mutant: the list is cut before it is filtered and sorted.               *)
TruncateFilterSort(charts, o) ==
  StableSort(SelectSeq(FirstN(charts, o.topN), LAMBDA r : MatchesDisplay(r, o)), LAMBDA l, r : Compare(l, r, o))
FilterSortTruncate(charts, o) ==
  FirstN(StableSort(SelectSeq(charts, LAMBDA r : MatchesDisplay(r, o)), LAMBDA l, r : Compare(l, r, o)), o.topN)
Visible(legacy, current, o) ==
  CASE Sections[o.section] = "legacy" -> <<FilterSortTruncate(legacy, o)>>
    [] Sections[o.section] = "current" -> <<FilterSortTruncate(current, o)>>
    [] Sections[o.section] = "split" -> <<FilterSortTruncate(legacy, o), FilterSortTruncate(current, o)>>
    [] OTHER -> <<FilterSortTruncate(legacy \o current, o)>>

(* A record with what the catalogue calls its chart.                       *)
Titled(catalog, r) ==
  LET song == The({s \in ToSet(catalog.songs) : \E c \in ToSet(s.charts) : c.key = r.key})
      chart == The({c \in ToSet(song.charts) : c.key = r.key})
  IN [title |-> song.title, level |-> chart.level] @@ r
TitledList(catalog, records) == [i \in DOMAIN records |-> Titled(catalog, records[i])]

-----------------------------------------------------------------------------
(* The best-50 list, as the provider has it or computed by fitted          *)
(* constants; the text shows what was asked for, the structure has all.    *)

MatchedMetadata(charts, include) ==
  [available |-> include,
   matched |-> IF include THEN Cardinality(Where(charts, LAMBDA r : r.fit # None)) ELSE 0]
(* What became of the records when the list was computed.                  *)
Computation(result) ==
  LET plain == SelectSeq(result.records, LAMBDA r : ~r.utage)
      fits == SelectSeq(plain, LAMBDA r : None \notin {r.fit, r.achievement})
      eligible == Cardinality({r.key : r \in ToSet(fits)})
  IN [input |-> Len(result.records), utage |-> Len(result.records) - Len(plain), missing |-> Len(plain) - Len(fits),
      eligible |-> eligible, duplicates |-> Len(fits) - eligible,
      versions |-> UNION {r.version : r \in ToSet(result.b50.current)} \ {<<>>}]
ShowB50(catalog, result, o, computed) ==
  LET legacy == TitledList(catalog, result.b50.legacy)
      current == TitledList(catalog, result.b50.current)
      include == computed \/ o.metadata
      index == result.b50.fitIndex
  IN [verdict |-> "shown", source |-> result.source, kept |-> result.kept,
      text |-> Visible(legacy, current, o), legacy |-> legacy, current |-> current,
      computed |-> IF computed THEN {Computation(result)} ELSE {},
      total |-> result.b50.total, metadata |-> MatchedMetadata(legacy \o current, include),
      fitIndex |-> IF ~include THEN "null"
                   ELSE IF index.counted = 0 THEN "unavailable"
                   ELSE index.label]
Presented(result, Show(_)) == IF result.verdict = "refused" THEN result ELSE Show(result)
ListOfPlayer(catalog, q, a, who) ==
  LET source == IF q.batch THEN {"diving_fish"} ELSE SourceFor(a, q.public)
      ask == [q.ask EXCEPT !.kind = "b50", !.mode = IF q.computed THEN "fit" ELSE "provider",
                           !.lookup = who.verdict, !.explicit = source, !.credentials = "absent", !.raw = a.raw]
      refused == ~DisplayFits(a.display) \/ ~TimeoutFits(a) \/ who.verdict = "refused" \/ (~q.batch /\ ~SourceFits(a, q.public))
  IN IF refused THEN {BadInput @@ [kept |-> q.ask.kept]}
     ELSE InTime(q, Presented(PlayerScores(ask, catalog), LAMBDA r : ShowB50(catalog, r, a.display, q.computed)))
ExecuteB50(catalog, q, a) == ListOfPlayer(catalog, q, a, LookupFor(a, q.users))

(* Many players, some at the same time: their results come in any order    *)
(* that so many allow, and each takes the place of its player.             *)
BatchLimits == [qqs |-> 500, delay |-> 10000, concurrency |-> 20]
BatchFits(q) ==
  /\ Len(q.qqs) \in 1..BatchLimits.qqs /\ q.delay <= BatchLimits.delay /\ q.concurrency \in 1..BatchLimits.concurrency
  /\ \A i \in DOMAIN q.qqs : Trim(q.qqs[i]) # <<>> /\ IsDigits(Trim(q.qqs[i]))
FinishOrders(n, concurrency) ==
  {p \in Permutations(1..n) : \A k \in 1..n : p[k] <= (k - 1) + concurrency}
FiltersActive(o) ==
  \/ o.sortBy # "default" \/ o.order # "desc" \/ o.level # {} \/ o.difficulty # {} \/ o.label # "any"
  \/ \E name \in RangeNames : o[name] # Open
WithMetadata(q) == IF q.metadata = {} THEN q.summaries \/ FiltersActive(q.args.display) ELSE The(q.metadata)
BatchItem(catalog, q, i) ==
  Using([users |-> {}, batch |-> TRUE, public |-> q.public, computed |-> FALSE, late |-> i \in q.late,
         ask |-> q.asks[i]], LAMBDA one :
  Using([q.args EXCEPT !.qq = {q.qqs[i]}, !.username = {}, !.target = {}, !.display.metadata = WithMetadata(q)], LAMBDA a :
  Using(The(ExecuteB50(catalog, one, a)), LAMBDA result :
    IF result.verdict = "refused" THEN [qq |-> q.qqs[i], ok |-> FALSE, error |-> result.error]
    ELSE [qq |-> q.qqs[i], ok |-> TRUE, total |-> result.total, fitIndex |-> result.fitIndex,
          summary |-> IF q.summaries THEN {result.text} ELSE {}])))
B50Batch(items, finish) ==
  LET placed(results, i) == [results EXCEPT ![i] = items[i]]
      results == FoldLeft(placed, [i \in DOMAIN items |-> "pending"], finish)
      success == Cardinality(Where(results, LAMBDA item : item.ok))
  IN [verdict |-> "batch", results |-> results, requested |-> Len(results), success |-> success,
      failure |-> Len(results) - success]
BatchAnswers(catalog, q) ==
  IF ~BatchFits(q) THEN {BadInput}
  ELSE Using([i \in DOMAIN q.qqs |-> BatchItem(catalog, q, i)], LAMBDA items :
         {B50Batch(items, p) : p \in FinishOrders(Len(q.qqs), q.concurrency)})

-----------------------------------------------------------------------------
(* The scores of one song, by its number or by the best hit of a query.    *)

DivingFishIds(song) ==
  LET numbers(ids) == {NumberOf(id) : id \in ids} \ {None}
      listed == numbers({p.id : p \in {x \in ToSet(song.projections) : x.source = "divingfish"}})
  IN IF listed # {} THEN listed ELSE numbers({id \in ToSet(song.ids) : id[1] = "diving_fish"})
HasDivingFishId(song) == Cardinality(DivingFishIds(song)) = 1
ParseMusicId(text) == QueryNumber(Trim(text))
GenerationsFor == [sd |-> {"standard"}, st |-> {"standard"}, standard |-> {"standard"},
                   dx |-> {"deluxe"}, deluxe |-> {"deluxe"}, utage |-> UtageKinds]
FilterFor(n, a) ==
  [verdict |-> "filter", song |-> <<"diving_fish", Numeric(n)>>, difficulty |-> a.difficulty,
   generations |-> UNION {GenerationsFor[t] : t \in a.songType}]
SongFilter(catalog, a) ==
  Using({ParseMusicId(t) : t \in a.musicId}, LAMBDA number :
  Using(IF a.searchLimit = {} THEN 5 ELSE The(a.searchLimit), LAMBDA limit :
  Using(FilterFor(0, a), LAMBDA wanted :
  Using(Query(catalog, [TextQuery(Trim(The(a.songQuery)), limit) EXCEPT
                          !.difficulties = wanted.difficulty, !.generations = wanted.generations]).hits, LAMBDA hits :
    IF number \cap {None, 0} # {} \/ \E t \in a.songQuery : Unclean(t) THEN BadInput
    ELSE IF (number = {}) = (a.songQuery = {}) \/ ~(a.songType \subseteq DOMAIN GenerationsFor) THEN BadInput
    ELSE IF number # {} THEN FilterFor(The(number), a)
    ELSE IF limit \notin 1..20 \/ hits = <<>> THEN BadInput
    ELSE IF ~HasDivingFishId(hits[1].song) THEN BadInput
    ELSE FilterFor(The(DivingFishIds(hits[1].song)), a)))))
ShowSong(r) == [verdict |-> "shown", source |-> r.source, kept |-> r.kept, records |-> r.records,
                first |-> UpTo(r.records, {1})]
ScoreOf(catalog, q, a, who, filter) ==
  LET ask == [q.ask EXCEPT !.kind = "song", !.lookup = who.verdict, !.explicit = SourceFor(a, q.public),
                           !.credentials = IF a.token = {} THEN "absent" ELSE "present", !.raw = a.raw,
                           !.filter = [song |-> filter.song, generations |-> filter.generations, difficulty |-> filter.difficulty]]
      refused == \/ ~TimeoutFits(a) \/ who.verdict = "refused" \/ filter.verdict = "refused" \/ ~SourceFits(a, q.public)
                 \/ \E t \in a.token : Unclean(t)
  IN IF refused THEN {BadInput @@ [kept |-> q.ask.kept]} ELSE InTime(q, Presented(PlayerScores(ask, catalog), ShowSong))
SongScore(catalog, q, a) == ScoreOf(catalog, q, a, LookupFor(a, q.users), SongFilter(catalog, a))

-----------------------------------------------------------------------------
(* A player's records, of a song or all, by level, version and plate.      *)

FilterRecords(records, a) ==
  SelectSeq(records, LAMBDA r : /\ \A l \in a.level : r.level = Trim(l)
                                /\ \A versions \in a.versions : r.version \cap versions # {})
(* The one number that Diving-Fish has for a song: with two there is none. *)
KnownNumber(catalog, key) ==
  LET songs == {s \in ToSet(catalog.songs) : s.ids[1] = key[1] /\ HasDivingFishId(s)}
  IN IF songs = {} THEN None ELSE The(DivingFishIds(The(songs)))
PlateServerFits(a, public) == a.server \subseteq (IF public THEN {"cn"} ELSE {"cn", "jp"})
FilterPlate(catalog, records, a) ==
  LET server == IF a.server = {} THEN "cn" ELSE The(a.server)
      plate == PlateOf(catalog.plates, The(a.plate), server)
  IN IF a.plate = {} THEN [records |-> records, songs |-> None]
     ELSE [records |-> SelectSeq(records, LAMBDA r : PlateMatches(plate, KnownNumber(catalog, r.key), r.title, r.key[2])),
           songs |-> plate.declared]
ShowRecords(catalog, result, a, public) ==
  LET filtered == FilterRecords(TitledList(catalog, result.records), a)
      plated == FilterPlate(catalog, filtered, a)
  IN IF ~PlateServerFits(a, public) THEN BadInput @@ [kept |-> result.kept]
     ELSE [verdict |-> "shown", source |-> result.source, kept |-> result.kept, total |-> Len(result.records),
           records |-> plated.records, songs |-> plated.songs]
RecordsOf(catalog, q, a, who, filter) ==
  LET ask == [q.ask EXCEPT !.kind = IF a.musicId = {} THEN "records" ELSE "song", !.lookup = who.verdict,
                           !.explicit = SourceFor(a, q.public), !.credentials = "absent", !.raw = a.raw]
      asked == IF a.musicId = {} THEN ask
               ELSE [ask EXCEPT !.filter = [song |-> filter.song, generations |-> {}, difficulty |-> {}]]
      refused == \/ ~TimeoutFits(a) \/ who.verdict = "refused" \/ ~SourceFits(a, q.public)
                 \/ a.musicId # {} /\ filter.verdict = "refused"
  IN IF refused THEN {BadInput @@ [kept |-> q.ask.kept]}
     ELSE InTime(q, Presented(PlayerScores(asked, catalog), LAMBDA r : ShowRecords(catalog, r, a, q.public)))
PlayerRecords(catalog, q, a) ==
  RecordsOf(catalog, q, a, LookupFor(a, q.users),
            SongFilter(catalog, [a EXCEPT !.songQuery = {}, !.difficulty = {}, !.songType = {}]))

-----------------------------------------------------------------------------
(* The operations of Diving-Fish: which there are, and one of them.        *)

GameOf(operation) == IF operation \in DOMAIN ChunithmOperations THEN "chunithmprober" ELSE "maimaidxprober"
Auths == {"none", "login_credentials", "login", "login_or_import_token", "developer_token"}
ListApis(a) ==
  IF ~(a.game \subseteq {"maimaidxprober", "chunithmprober"} /\ a.auth \subseteq Auths) THEN BadInput
  ELSE [verdict |-> "apis",
        apis |-> {o \in DOMAIN Operations : /\ a.game = {} \/ GameOf(o) \in a.game
                                            /\ a.auth = {} \/ Operations[o].auth \in a.auth
                                            /\ a.mutating \/ ~Operations[o].mutating}]

(* A name and a password come in the body of a login; the developer token  *)
(* is the one given, or else the one that was bound.                       *)
Presence(given) == IF given = {} THEN "absent"
                 ELSE IF The(given) = <<30>> THEN "unfit"
                 ELSE "present"
DeveloperSecret(a, bound) == IF a.developer # {} THEN Presence(a.developer) ELSE bound
GenericRequest(a, bound) ==
  LET login == a.operation = "maimai_login"
      name == IF login THEN "present" ELSE "absent"
  IN [operation |-> a.operation, confirm |-> IF a.confirm = {} THEN "none" ELSE The(a.confirm),
      bodies |-> (IF a.body # "none" /\ ~login THEN {"body"} ELSE {}) \cup a.raw,
      timeout |-> TimeoutOf(a) \div 100, ownSecretHeader |-> a.secretHeader, coverId |-> a.songId,
      credentials |-> [jwt |-> Presence(a.jwt), import |-> Presence(a.import), username |-> name, password |-> name,
                       developer |-> DeveloperSecret(a, bound)]]
ApiFits(a) ==
  /\ a.operation \in DOMAIN Operations /\ a.confirm \subseteq DOMAIN Operations
  /\ a.operation = "maimai_login" => a.body = "login"
  /\ a.query # "nested"
  /\ \A t \in a.developer \cup a.import \cup a.jwt : ~Unclean(t)
CallApi(q) ==
  IF ~TimeoutFits(q.args) THEN BadInput
  ELSE IF q.bound = "broken" THEN [verdict |-> "refused", error |-> "TOKEN_STORE_ERROR"]
  ELSE IF ~ApiFits(q.args) THEN BadInput
  ELSE IF q.late THEN [verdict |-> "refused", error |-> "TIMEOUT"]
  ELSE Execute(GenericRequest(q.args, q.bound), q.reply)
=============================================================================
