------------------------------- MODULE Catalogs -------------------------------
(***************************************************************************)
(* How the listings of four sources are merged into one catalogue          *)
(* (maimai-catalog load, enrich, projection, identity and lookup).         *)
(*                                                                         *)
(* A text is a sequence of letters: 0 is a blank, 1..9 are letters, 11..19 *)
(* their capitals, 20..29 the digits, 30 a question mark, 31 a plus and 10  *)
(* a dash.                                                                 *)
(* What the documents say of a chart besides its identity is its level,    *)
(* constant, charter, version and date.                                    *)
(***************************************************************************)
EXTENDS Ratings

Trim(t) == LET kept == {i \in DOMAIN t : t[i] # 0}
           IN IF kept = {} THEN <<>> ELSE SubSeq(t, Min(kept), Max(kept))
Normalize(t) == Trim([i \in DOMAIN t |-> IF t[i] \in 11..19 THEN t[i] - 10 ELSE t[i]])
Number(t) == IF t = <<>> \/ ~ToSet(t) \subseteq 20..29 THEN None
             ELSE FoldLeft(LAMBDA n, c : (10 * n) + (c - 20), 0, t)
Digits(n) == LET places == {k \in 0..5 : k = 0 \/ n >= (10 ^ k)}
             IN [i \in 1..Cardinality(places) |-> 20 + ((n \div (10 ^ (Cardinality(places) - i))) % 10)]
ContainsText(t, part) == \E i \in 0..(Len(t) - Len(part)) : SubSeq(t, i + 1, i + Len(part)) = part
Same(s, t) == Normalize(s) = Normalize(t)
PlainLevel(t) == Normalize(IF t # <<>> /\ Last(t) = 30 THEN Front(t) ELSE t)

(* The identifiers of a song, each within its source.                      *)
Numeric(n) == <<"numeric", n>>
Textual(t) == <<"text", t>>
IdValue(text, n) == IF n = None THEN Textual(text) ELSE Numeric(n)
SongIdValue(t) == IdValue(Trim(t), Number(Trim(t)))
NumberOf(id) == IF id[2][1] = "numeric" THEN id[2][2] ELSE None

DxIds == 10000..99999
DxOffset == 10000
UtageFrom == 100000
Utage == 5
IsUtage(generation) == generation \in {"utage1", "utage2"}

Adjoin(s, e) == IF e \in ToSet(s) THEN s ELSE Append(s, e)
Filled(value, other, blank) == IF value = blank THEN other ELSE value
(* The index of the first element that Test accepts, 0 without one; and of *)
(* the only one.                                                           *)
Where(s, Test(_)) == {i \in DOMAIN s : Test(s[i])}
FirstOf(S) == IF S = {} THEN 0 ELSE Min(S)
OnlyOf(S) == IF Cardinality(S) = 1 THEN Min(S) ELSE 0

Loaded(songs) == [error |-> "none", songs |-> songs]
Failed(error) == [error |-> error, songs |-> <<>>]
(* The steps of a load: the first that fails ends it.                      *)
StepFrom(s, l, Step(_, _)) == IF s.error = "none" THEN Step(s.songs, l) ELSE s
EachOf(listings, Step(_, _), state) ==
  LET after[n \in 0..Len(listings)] == IF n = 0 THEN state ELSE StepFrom(after[n - 1], listings[n], Step)
  IN after[Len(listings)]

-----------------------------------------------------------------------------
(* LXNS: every listing is a song of its own.                               *)

Generation(listed) == IF listed.list = "standard" THEN "standard"
                      ELSE IF listed.list = "dx" THEN "deluxe"
                      ELSE IF listed.buddy THEN "utage2"
                      ELSE "utage1"
Chart(song, id, generation, difficulty, listed) ==
  [key |-> <<song, generation, difficulty>>, ids |-> <<id>>, level |-> listed.level,
   constant |-> IF difficulty = Utage THEN None ELSE listed.constant, charter |-> listed.charter]
LxnsId(l) == <<"lxns", Numeric(l.id)>>
LxnsCharts(l) ==
  [i \in DOMAIN l.charts |->
     LET generation == Generation(l.charts[i])
     IN Chart(LxnsId(l), LxnsId(l), generation,
              IF IsUtage(generation) THEN Utage ELSE l.charts[i].difficulty, l.charts[i])]
VersionTitle(versions, version) ==
  IF version \in DOMAIN versions THEN versions[version] ELSE Digits(version)
AddLxns(songs, l, versions) ==
  Loaded(Append(songs, [ids |-> <<LxnsId(l)>>, title |-> l.title, artist |-> l.artist, genre |-> l.genre,
                        version |-> VersionTitle(versions, l.version), bpm |-> l.bpm, aliases |-> <<>>,
                        charts |-> LxnsCharts(l), merge |-> l.id]))

-----------------------------------------------------------------------------
(* Diving-Fish: a song and its DX chart are listings of their own, ten     *)
(* thousand apart.                                                         *)

DfId(d) == <<"diving_fish", SongIdValue(d.id)>>
DfIsUtage(d) == NumberOf(DfId(d)) >= UtageFrom
MergeIdOfAnyType(d) ==
  LET n == NumberOf(DfId(d)) IN IF n \in DxIds THEN n - DxOffset ELSE n
MergeId(d) ==
  Using(NumberOf(DfId(d)), LAMBDA n :
    IF d.type = "DX" /\ n \in DxIds THEN n - DxOffset ELSE n)
DfGeneration(d) == IF DfIsUtage(d) THEN IF Len(d.charts) = 2 THEN "utage2" ELSE "utage1"
                   ELSE IF d.type = "DX" THEN "deluxe"
                   ELSE "standard"
(* A chart beyond the end of the list of levels is not a chart yet.        *)
DfCharts(d, song) ==
  FoldLeftDomain(LAMBDA charts, i :
      IF d.charts[i].listed
      THEN Append(charts, Chart(song, DfId(d), DfGeneration(d), IF DfIsUtage(d) THEN Utage ELSE i - 1, d.charts[i]))
      ELSE charts, <<>>, d.charts)
MergeChart(charts, c) ==
  LET at == FirstOf(Where(charts, LAMBDA e : e.key[2] = c.key[2] /\ e.key[3] = c.key[3]))
  IN IF at = 0 THEN Append(charts, c)
     ELSE [charts EXCEPT ![at] =
             [@ EXCEPT !.ids = FoldLeft(Adjoin, @, c.ids), !.level = Filled(@, c.level, <<>>),
                       !.constant = Filled(@, c.constant, None), !.charter = Filled(@, c.charter, <<>>)]]
DfTarget(songs, d) ==
  IF NumberOf(DfId(d)) # None
  THEN FirstOf(Where(songs, LAMBDA s : s.merge = MergeId(d)))
  ELSE FirstOf(Where(songs, LAMBDA s : Same(s.title, d.title)))
MergeMusic(song, d) ==
  [song EXCEPT !.ids = Adjoin(@, DfId(d)), !.artist = Filled(@, d.artist, <<>>),
               !.genre = Filled(@, d.genre, <<>>), !.version = Filled(@, d.version, <<>>),
               !.bpm = Filled(@, d.bpm, 0), !.charts = FoldLeft(MergeChart, @, DfCharts(d, song.ids[1]))]
AddDivingFish(songs, d) ==
  Using(DfTarget(songs, d), LAMBDA target :
    IF Trim(d.id) = <<>> THEN Failed("empty_id")
    ELSE IF d.type \notin {"DX", "SD"} THEN Failed("unsupported")
    ELSE IF ~DfIsUtage(d) /\ \E i \in DOMAIN d.charts : i > 5 /\ d.charts[i].listed THEN Failed("difficulty")
    ELSE IF target # 0 THEN Loaded([songs EXCEPT ![target] = MergeMusic(@, d)])
    ELSE Loaded(Append(songs,
           [ids |-> <<DfId(d)>>, title |-> d.title, artist |-> d.artist, genre |-> d.genre,
            version |-> d.version, bpm |-> d.bpm, aliases |-> <<>>,
            charts |-> DfCharts(d, DfId(d)), merge |-> MergeId(d)])))

-----------------------------------------------------------------------------
(* The identities of a catalogue as it stands: numbers first, and a title  *)
(* only where it names a single song.                                      *)

ByNumber(songs, source, n) == OnlyOf(Where(songs, LAMBDA s : <<source, Numeric(n)>> \in ToSet(s.ids)))
ByLxns(songs, n) == ByNumber(songs, "lxns", n)
ByDivingFish(songs, n, dx) ==
  LET own == ByNumber(songs, "diving_fish", n)
  IN IF own # 0 THEN own ELSE ByLxns(songs, IF dx /\ n \in DxIds THEN n - DxOffset ELSE n)
ByOfficial(songs, n) ==
  IF ByLxns(songs, n) # 0 THEN ByLxns(songs, n) ELSE ByNumber(songs, "diving_fish", n)

Ambiguous == -1
OneOf(candidates) == CASE candidates = {} -> 0
                       [] Cardinality(candidates) = 1 -> Min(candidates)
                       [] OTHER -> Ambiguous
ResolveTitle(songs, title) == OneOf(Where(songs, LAMBDA s : Same(s.title, title)))
ResolveDx(songs, x) ==
  LET base(s) == IF s.type = "dx" /\ s.internal \in DxIds THEN s.internal - DxOffset ELSE s.internal
      numbered == UNION {{ByLxns(songs, base(s)), ByNumber(songs, "diving_fish", s.internal)} :
                           s \in {y \in ToSet(x.sheets) : y.internal # None}} \ {0}
  IN IF numbered # {} THEN OneOf(numbered) ELSE ResolveTitle(songs, x.title)

-----------------------------------------------------------------------------
(* dxdata: its sheets carry the numbers that the game uses.                *)

DxId(x) == <<"dx_rating", Textual(Trim(x.id))>>
DxGeneration(s) == CASE s.type = "std" -> "standard"
                     [] s.type = "dx" -> "deluxe"
                     [] s.type = "utage2p" -> "utage2"
                     [] OTHER -> "utage1"
DxDifficulty(s) == IF IsUtage(DxGeneration(s)) THEN Utage ELSE s.difficulty
DxChart(song, s) ==
  [key |-> <<song, DxGeneration(s), DxDifficulty(s)>>,
   ids |-> <<IF s.internal = None THEN song ELSE <<"dx_rating", Numeric(s.internal)>> >>,
   level |-> s.level, constant |-> s.constant, charter |-> s.charter]
MergeDxChart(song, s) ==
  LET at == FirstOf(Where(song.charts, LAMBDA c : c.key[2] = DxGeneration(s) /\ c.key[3] = DxDifficulty(s)))
  IN IF at = 0 THEN [song EXCEPT !.charts = Append(@, DxChart(song.ids[1], s))]
     ELSE IF s.internal = None THEN song
     ELSE [song EXCEPT !.charts[at].ids = Adjoin(@, <<"dx_rating", Numeric(s.internal)>>)]
AppendDxData(songs, x) ==
  LET target == ResolveDx(songs, x)
      versions == SelectSeq(x.sheets, LAMBDA s : s.version # <<>>)
  IN IF Trim(x.id) = <<>> /\ Normalize(x.title) = <<>> THEN Loaded(songs)
     ELSE IF Trim(x.id) = <<>> THEN Failed("empty_id")
     ELSE IF target = Ambiguous THEN Failed("ambiguous_song")
     ELSE IF target > 0 THEN Loaded([songs EXCEPT ![target] =
                                  FoldLeft(MergeDxChart, [@ EXCEPT !.ids = Adjoin(@, DxId(x))], x.sheets)])
     ELSE Loaded(Append(songs,
            [ids |-> <<DxId(x)>>, title |-> x.title, artist |-> x.artist, genre |-> x.genre,
             version |-> IF versions = <<>> THEN <<>> ELSE versions[1].version, bpm |-> x.bpm,
             aliases |-> IF x.id = x.title THEN <<>> ELSE <<x.id>>,
             charts |-> [i \in DOMAIN x.sheets |-> DxChart(DxId(x), x.sheets[i])], merge |-> None]))

-----------------------------------------------------------------------------
(* What else the sources say, kept side by side with the merged song.      *)

DifficultyIndex(difficulty) == IF difficulty = Utage THEN 0 ELSE difficulty
(* The statistics of a chart, unless they are of another level of it.      *)
StatFor(stats, id, index, level) ==
  LET fitting == {s \in stats : /\ s.id = id /\ s.index = index /\ s.fit # None
                                /\ s.anyLevel \/ PlainLevel(s.level) = PlainLevel(level)}
  IN IF fitting = {} THEN None ELSE (CHOOSE s \in fitting : TRUE).fit
FitId(id, generation) == CASE generation = "standard" -> id
                           [] generation = "deluxe" -> id + DxOffset
                           [] OTHER -> None
ChartProjection(generation, difficulty, listed, constant, regions, fit) ==
  [generation |-> generation, difficulty |-> difficulty, level |-> listed.level,
   constant |-> constant, charter |-> listed.charter, version |-> listed.version, regions |-> regions,
   released |-> listed.released, fit |-> fit]
Projection(source, id, l, version, numeric, charts) ==
  [source |-> source, id |-> id, title |-> l.title, artist |-> l.artist, genre |-> l.genre,
   version |-> version, numericVersion |-> numeric, charts |-> charts, keywords |-> {}]

AppendLxns(l, stats) ==
  [i \in DOMAIN l.charts |->
     LET c == LxnsCharts(l)[i]
         generation == c.key[2]
     IN ChartProjection(generation, c.key[3], l.charts[i], c.constant, {"cn"},
          StatFor(stats, FitId(l.id, generation), DifficultyIndex(c.key[3]), c.level))]
LxnsProjection(l, docs) ==
  Projection("cn", LxnsId(l), l, VersionTitle(docs.versions, l.version), l.version, AppendLxns(l, docs.stats))
BuildDivingFish(d, stats) ==
  [i \in DOMAIN d.charts |->
     LET utage == DfIsUtage(d)
         c == d.charts[i]
     IN ChartProjection(DfGeneration(d), IF utage THEN Utage ELSE i - 1, c, c.constant, {"cn"},
          IF utage THEN None ELSE StatFor(stats, NumberOf(DfId(d)), i - 1, c.level))]
DfProjection(d, docs) == Projection("divingfish", DfId(d), d, d.version, None, BuildDivingFish(d, docs.stats))
BuildDx(sheets, id, docs, regions) ==
  [i \in DOMAIN sheets |->
     LET s == sheets[i]
         own == IF NumberOf(id) = None THEN None ELSE FitId(NumberOf(id), DxGeneration(s))
     IN ChartProjection(DxGeneration(s), DxDifficulty(s), s, s.constant, s.regions \cup regions,
          StatFor(docs.stats, Or(s.internal, own), DifficultyIndex(DxDifficulty(s)), s.level))]
DxVersion(x) == LET named == SelectSeq(x.sheets, LAMBDA s : s.version # <<>>)
                IN IF named = <<>> THEN <<>> ELSE named[1].version
(* The projection reads a number into an id that is written as one.        *)
DxProjectionId(x) == <<"dx_rating", SongIdValue(x.id)>>
DxProjection(x, docs) ==
  [Projection("jp", DxProjectionId(x), x, DxVersion(x), None,
              BuildDx(x.sheets, DxProjectionId(x), docs, {"jp"})) EXCEPT !.keywords = x.keywords]
OfficialProjection(o, docs) ==
  LET id == <<"official_cn", Numeric(o.id)>>
  IN Projection("official", id, o, o.version, None, BuildDx(o.sheets, id, docs, {}))

DfProjected(songs, d) ==
  IF NumberOf(DfId(d)) # None THEN ByDivingFish(songs, NumberOf(DfId(d)), d.type = "DX")
  ELSE ResolveTitle(songs, d.title)
DxProjected(songs, x) ==
  IF Trim(x.id) = <<>> /\ Normalize(x.title) = <<>> THEN 0 ELSE ResolveDx(songs, x)
OfficialProjected(songs, o) ==
  IF ByOfficial(songs, o.id) # 0 THEN ByOfficial(songs, o.id) ELSE ResolveTitle(songs, o.title)

Projections(songs, docs, at) ==
  LET all(own, Make(_)) == [i \in DOMAIN own |-> Make(own[i])]
      of(listings, Target(_), Make(_)) == all(SelectSeq(listings, LAMBDA l : Target(l) = at), Make)
  IN of(docs.lxns, LAMBDA l : ByLxns(songs, l.id), LAMBDA l : LxnsProjection(l, docs))
     \o of(docs.df, LAMBDA d : DfProjected(songs, d), LAMBDA d : DfProjection(d, docs))
     \o of(docs.dx, LAMBDA x : DxProjected(songs, x), LAMBDA x : DxProjection(x, docs))
     \o of(docs.official, LAMBDA o : OfficialProjected(songs, o), LAMBDA o : OfficialProjection(o, docs))
AmbiguousListing(songs, docs) ==
  \/ \E d \in ToSet(docs.df) : DfProjected(songs, d) = Ambiguous
  \/ \E x \in ToSet(docs.dx) : DxProjected(songs, x) = Ambiguous
  \/ \E o \in ToSet(docs.official) : OfficialProjected(songs, o) = Ambiguous

-----------------------------------------------------------------------------
(* The catalogue that the tools are given.                                 *)

ChartRegions(c, sheets) ==
  UNION {(s.regions \ {"cn"}) \cup {"jp"} : s \in ToSet(sheets)}
  \cup IF \E id \in ToSet(c.ids) : id[1] \in {"lxns", "diving_fish"} THEN {"cn"} ELSE {}
(* The statistics of its first Diving-Fish number.                         *)
FitOf(c, stats) ==
  LET numbered == SelectSeq(c.ids, LAMBDA id : id[1] = "diving_fish" /\ NumberOf(id) # None)
  IN IF numbered = <<>> THEN None
     ELSE StatFor(stats, NumberOf(numbered[1]), DifficultyIndex(c.key[3]), c.level)
(* The tags of every song of that title.                                   *)
TagsOf(song, c, tags) ==
  {t.tag : t \in {u \in tags : /\ Same(u.title, song.title) /\ u.generation = c.key[2]
                               /\ IsUtage(c.key[2]) \/ u.difficulty = c.key[3]}}
(* The sheets of dxdata of a chart: the last says when it appeared.        *)
SheetsFor(songs, docs, at, c) ==
  FlattenSeq([k \in DOMAIN docs.dx |->
    IF DxProjected(songs, docs.dx[k]) # at THEN <<>>
    ELSE SelectSeq(docs.dx[k].sheets, LAMBDA s : DxGeneration(s) = c.key[2] /\ DxDifficulty(s) = c.key[3])])
ChartMetadata(songs, docs, at) ==
  [i \in DOMAIN songs[at].charts |->
     LET c == songs[at].charts[i]
         sheets == SheetsFor(songs, docs, at, c)
     IN [key |-> c.key, ids |-> c.ids, level |-> c.level, constant |-> c.constant, charter |-> c.charter,
         version |-> IF sheets = <<>> THEN <<>> ELSE Last(sheets).version,
         released |-> IF sheets = <<>> THEN None ELSE Last(sheets).released,
         regions |-> ChartRegions(c, sheets), fit |-> FitOf(c, docs.stats),
         tags |-> TagsOf(songs[at], c, docs.tags)]]
(* The numbers a song answers to: Diving-Fish numbers its DX charts apart.  *)
CanonicalIds(song, projections) ==
  LET ids == ToSet(song.ids) \cup {p.id : p \in ToSet(projections)}
      shifted == {p \in ToSet(projections) : /\ p.source = "divingfish" /\ NumberOf(p.id) \in DxIds
                                             /\ \E c \in ToSet(p.charts) : c.generation = "deluxe"}
  IN ({NumberOf(id) : id \in ids} \cup {NumberOf(p.id) - DxOffset : p \in shifted}) \ {None}

(* An alias names a song by number, by text id, or else by title.          *)
AliasTargets(songs, named) ==
  Using(Number(Trim(named)), LAMBDA n :
  Using(Where(songs, LAMBDA s : \E id \in ToSet(s.ids) : id[2][1] = "text" /\ Same(id[2][2], named)), LAMBDA ids :
    IF n # None THEN Where(songs, LAMBDA s : Numeric(n) \in {id[2] : id \in ToSet(s.ids)})
    ELSE IF ids # {} THEN ids
    ELSE Where(songs, LAMBDA s : Same(s.title, named))))
AddAlias(aliases, alias) ==
  IF Normalize(alias) = <<>> \/ \E a \in ToSet(aliases) : Same(a, alias) THEN aliases
  ELSE Append(aliases, Trim(alias))
AliasesOf(songs, entries, at, start) ==
  FoldLeft(LAMBDA aliases, e : IF at \in AliasTargets(songs, e.song) THEN FoldLeft(AddAlias, aliases, e.names)
                               ELSE aliases, start, entries)

LatestVersion(versions) == IF DOMAIN versions = {} THEN <<>> ELSE versions[Max(DOMAIN versions)]
SongMetadata(songs, docs, at) ==
  Using(songs[at], LAMBDA song :
  Using(Projections(songs, docs, at), LAMBDA own :
  Using(ChartMetadata(songs, docs, at), LAMBDA charts :
  Using({x \in ToSet(docs.dx) : DxProjected(songs, x) = at}, LAMBDA listings :
  LET from(source) == \E id \in ToSet(song.ids) : id[1] = source
  IN [ids |-> song.ids, title |-> song.title, artist |-> song.artist, genre |-> song.genre,
      version |-> song.version, bpm |-> song.bpm, charts |-> charts,
      aliases |-> AliasesOf(songs, docs.aliases, at, song.aliases),
      pinyin |-> AliasesOf(songs, docs.pinyin, at, <<>>),
      keywords |-> {k \in UNION {p.keywords : p \in ToSet(own)} : Normalize(k) # <<>>},
      projections |-> own,
      numbers |-> CanonicalIds(song, own),
      labels |-> {l \in {"jp"} : listings # {}} \cup {l \in {"cn"} : from("lxns")}
                 \cup {l \in {"divingfish"} : from("diving_fish")}
                 \cup {l \in {"official"} : \E p \in ToSet(own) : p.source = "official"},
      regions |-> UNION {charts[i].regions \ {"cn"} : i \in DOMAIN charts}
                  \cup {r \in {"cn"} : from("lxns") \/ from("diving_fish")},
      newCn |-> from("lxns") /\ song.version = LatestVersion(docs.versions),
      newJp |-> \E x \in listings : x.new,
      locked |-> \E x \in listings : x.locked]))))
===============================================================================
