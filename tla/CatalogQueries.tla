---------------------------- MODULE CatalogQueries ----------------------------
(***************************************************************************)
(* The whole load of a catalogue, from the documents to what the tools ask *)
(* (maimai-catalog load.rs, lookup.rs), and what a query finds in it and in *)
(* which order (query).  What a query may leave out is a set of at most one *)
(* value; a text it leaves out is empty, and an open range ends at the Far  *)
(* numbers.                                                                *)
(***************************************************************************)
EXTENDS Plates

(* Which chart of which song every key leads to.                           *)
ChartIndex(songs) ==
  UNION {LET song == songs[at]
             kept(c) == FirstOf(Where(song.charts, LAMBDA k : k.key[2] = c.generation /\ k.key[3] = c.difficulty))
         IN {<<song.charts[i].key, at, i>> : i \in DOMAIN song.charts}
            \cup {<<e[1], at, e[2]>> : e \in UNION {
                    {<< <<p.id, c.generation, c.difficulty>>, kept(c)>> : c \in {k \in ToSet(p.charts) : kept(k) # 0}}
                    : p \in ToSet(song.projections)}} : at \in DOMAIN songs}
OneTargetEach(index) == Cardinality({e[1] : e \in index}) = Cardinality(index)

(* The versions that Diving-Fish calls current: the ones newer than the     *)
(* versions dxdata knows, or else the latest of those, or else the ones of  *)
(* its new songs.  A version is known by how its name ends.                 *)
Alphanumeric(t) == SelectSeq(Normalize(t), LAMBDA c : c \notin {0, 10, 30})
VersionRank(order, version) ==
  LET known == {i \in DOMAIN order : Alphanumeric(order[i]) # <<>>
                                     /\ IsSuffix(Alphanumeric(order[i]), Alphanumeric(version))}
  IN IF known = {} THEN None ELSE Max(known)
CurrentVersions(df, order) ==
  Using({[version |-> Trim(d.version), new |-> d.new, rank |-> VersionRank(order, Trim(d.version))]
           : d \in {e \in ToSet(df) : Trim(e.version) # <<>>}}, LAMBDA named :
  Using({v \in named : v.rank = None /\ v.new}, LAMBDA unknown :
  Using({v \in named : v.rank # None}, LAMBDA known :
    {v.version : v \in IF unknown # {} THEN unknown
                       ELSE IF known # {} THEN {v \in known : v.rank = Max({w.rank : w \in known})}
                       ELSE {v \in named : v.new}})))

(* The names that stand for one another; the last group to name one wins.  *)
NameGroups(groups) ==
  LET named(g) == {Normalize(n) : n \in ToSet(g)} \ {<<>>}
  IN {<<n, named(Last(SelectSeq(groups, LAMBDA g : n \in named(g))))>> : n \in UNION {named(g) : g \in ToSet(groups)}}

(* A whole load: one wrong listing and there is no catalogue.              *)
Delivered(docs, error, songs, index, plates) ==
  [error |-> error, songs |-> songs, index |-> index, plates |-> plates,
   artists |-> NameGroups(docs.artists), charters |-> NameGroups(docs.charters),
   current |-> CurrentVersions(docs.df, docs.order)]
NotDelivered(docs, error) == Delivered(docs, error, <<>>, {}, NoPlates)
OnPlates(docs, songs, index, plates) ==
  IF ~plates.ok THEN NotDelivered(docs, "plates")
  ELSE IF ~OneTargetEach(index) THEN NotDelivered(docs, "ambiguous_chart")
  ELSE Delivered(docs, "none", songs, index, plates)
OnSongs(docs, songs) == OnPlates(docs, songs, ChartIndex(songs), BuildPlates(docs, songs))
Described(docs, songs) == <<>> \o [n \in DOMAIN songs |-> SongMetadata(songs, docs, n)]
OnMerged(docs, merged) ==
  IF merged.error # "none" THEN NotDelivered(docs, merged.error)
  ELSE IF AmbiguousListing(merged.songs, docs) THEN NotDelivered(docs, "ambiguous_song")
  ELSE OnSongs(docs, Described(docs, merged.songs))
OnDivingFish(docs, listed) == OnMerged(docs, EachOf(docs.dx, AppendDxData, listed))
OnLxns(docs, listed) == OnDivingFish(docs, EachOf(docs.df, AddDivingFish, listed))
Load(docs) == OnLxns(docs, EachOf(docs.lxns, LAMBDA s, l : AddLxns(s, l, docs.versions), Loaded(<<>>)))

(* What one source says of a chart, by the key of another.                 *)
SourceChart(catalog, key, source) ==
  LET at == {e[2] : e \in {f \in catalog.index : f[1] = key}}
      own == {p \in UNION {ToSet(catalog.songs[a].projections) : a \in at} : p.source = source}
      said == UNION {{p} \X {i \in DOMAIN p.charts : /\ p.charts[i].generation = key[2]
                                                    /\ p.charts[i].difficulty = key[3]} : p \in own}
  IN IF key[1][1] \notin {"lxns", "diving_fish"} THEN Failed("unsupported")
     ELSE IF Cardinality(said) > 1 THEN Failed("ambiguous_chart")
     ELSE [error |-> "none", said |-> {e[1].charts[e[2]] : e \in said}]

-----------------------------------------------------------------------------
(* What a query asks.                                                      *)

Far == 1000000
Open == [min |-> -Far, max |-> Far]
InRange(values, range) == range = Open \/ \E v \in values : range.min <= v /\ v <= range.max
Known(value) == {value} \ {None}

Blank ==
  [query |-> {}, id |-> {}, ids |-> Open, level |-> {}, genre |-> <<>>, version |-> {}, constant |-> Open,
   fit |-> Open, fitExclusive |-> FALSE, delta |-> Open, label |-> "any", difficulties |-> {},
   generations |-> {}, bpm |-> Open, artist |-> <<>>, charter |-> <<>>, has |-> {}, missing |-> {},
   new |-> {}, newSource |-> "any", locked |-> {}, tags |-> {}, excluded |-> {}, after |-> {},
   before |-> {}, sort |-> [key |-> "relevance", direction |-> "ascending"], limit |-> {}]
TextQuery(text, limit) == [Blank EXCEPT !.query = {text}, !.limit = {limit}]

-----------------------------------------------------------------------------
(* How a song answers to a text, from the best way to the worst.           *)

Kinds == <<"NumericId", "ExactTitle", "ExactAlias", "TitlePrefix", "TitleContains", "AliasPrefix",
           "AliasContains", "PinyinExact", "PinyinPrefix", "PinyinContains", "KeywordContains", "FilterOnly">>
ExactKinds == {"NumericId", "ExactTitle", "ExactAlias"}
FirstKind(ways) == IF ways = {} THEN "none" ELSE Kinds[Min(ways)]
KindOrder(kind) == CHOOSE i \in DOMAIN Kinds : Kinds[i] = kind

(* "id" before a number is passed over: 9 stands for the i, 4 for the d.   *)
QueryNumber(text) ==
  Number(Trim(IF IsPrefix(<<9, 4>>, text) THEN SubSeq(text, 3, Len(text)) ELSE text))
(* A text as it is, its letters together, and its letters apart.           *)
PinyinNeedles(text) ==
  LET letters == SelectSeq(text, LAMBDA c : c \notin {0, 10, 30})
      apart == [i \in 1..(2 * Len(letters)) - 1 |-> IF i % 2 = 0 THEN 0 ELSE letters[(i + 1) \div 2]]
  IN {text} \cup IF letters = <<>> THEN {} ELSE {letters, apart}
SongNames(song) ==
  [title |-> Normalize(song.title), aliases |-> {Normalize(a) : a \in ToSet(song.aliases)},
   pinyin |-> {Normalize(p) : p \in ToSet(song.pinyin)}, keywords |-> {Normalize(k) : k \in song.keywords},
   numbers |-> song.numbers]
RankBy(names, text, needles) ==
  LET holds(kind) == CASE kind = "NumericId" -> QueryNumber(text) \in names.numbers
                       [] kind = "ExactTitle" -> names.title = text
                       [] kind = "ExactAlias" -> text \in names.aliases
                       [] kind = "TitlePrefix" -> IsPrefix(text, names.title)
                       [] kind = "TitleContains" -> ContainsText(names.title, text)
                       [] kind = "AliasPrefix" -> \E a \in names.aliases : IsPrefix(text, a)
                       [] kind = "AliasContains" -> \E a \in names.aliases : ContainsText(a, text)
                       [] kind = "PinyinExact" -> names.pinyin \cap needles # {}
                       [] kind = "PinyinPrefix" -> \E p \in names.pinyin, n \in needles : IsPrefix(n, p)
                       [] kind = "PinyinContains" -> \E p \in names.pinyin, n \in needles : ContainsText(p, n)
                       [] kind = "KeywordContains" -> \E k \in names.keywords : ContainsText(k, text)
                       [] OTHER -> FALSE
  IN FirstKind({i \in DOMAIN Kinds : holds(Kinds[i])})
RankEntry(song, text) ==
  IF text = <<>> THEN "TitleContains" ELSE RankBy(SongNames(song), text, PinyinNeedles(text))
MatchBy(song, query) ==
  IF query = {} THEN "FilterOnly" ELSE RankEntry(song, Normalize(CHOOSE t \in query : TRUE))

-----------------------------------------------------------------------------
(* What a song, and what a chart of it must be.                            *)

ContainsFilter(actual, expected) ==
  Normalize(expected) = <<>> \/ ContainsText(Normalize(actual), Normalize(expected))
(* A name is looked for under all the names of whoever it may mean.        *)
NameCandidates(groups, expected) ==
  {Normalize(expected)}
  \cup UNION {g[2] : g \in {h \in groups : \/ ContainsText(h[1], Normalize(expected))
                                           \/ ContainsText(Normalize(expected), h[1])}}
NameMatches(groups, actual, expected) ==
  expected = <<>> \/ \E n \in NameCandidates(groups, expected) : ContainsText(Normalize(actual), n)

IdMatches(song, filter) ==
  IF filter.any /\ filter.id[2][1] = "numeric" THEN filter.id[2][2] \in song.numbers
  ELSE IF filter.any THEN \E id \in ToSet(song.ids) : id[2] = filter.id[2]
  ELSE filter.id \in ToSet(song.ids)
RegionsMatch(regions, q) == q.has \subseteq regions /\ q.missing \cap regions = {}
NewIn(song, source) == CASE source = "cn" -> song.newCn
                         [] source = "jp" -> song.newJp
                         [] OTHER -> song.newCn \/ song.newJp
MusicMatches(catalog, song, q) ==
  LET said == {song} \cup ToSet(song.projections)
  IN /\ \A f \in q.id : IdMatches(song, f)
     /\ InRange(song.numbers, q.ids)
     /\ InRange({song.bpm}, q.bpm)
     /\ \E s \in said : ContainsFilter(s.genre, q.genre)
     /\ \E s \in said : NameMatches(catalog.artists, s.artist, q.artist)
     /\ RegionsMatch(song.regions, q)
     /\ \A new \in q.new : NewIn(song, q.newSource) = new
     /\ \A locked \in q.locked : song.locked = locked

FitMatches(fit, q) == InRange(Known(fit), q.fit) /\ (q.fitExclusive /\ q.fit.max # Far => fit # q.fit.max)
DeltaOf(chart, fit) == IF None \in {chart.constant, fit} THEN {} ELSE {chart.constant - fit}
DeltaMatches(delta, q) ==
  /\ InRange(delta, q.delta)
  /\ q.label = "inflated" => \E d \in delta : d > 0
  /\ q.label = "deflated" => \E d \in delta : d < 0
TagsMatch(tags, q) == q.tags \subseteq tags /\ q.excluded \cap tags = {}
ReleasedMatches(released, q) ==
  /\ \A bound \in q.after : released # None /\ released >= bound
  /\ \A bound \in q.before : released # None /\ released <= bound
ShapeMatches(chart, generation, difficulty, q) ==
  /\ q.difficulties = {} \/ difficulty \in q.difficulties
  /\ q.generations = {} \/ generation \in q.generations
  /\ \A level \in q.level : PlainLevel(chart.level) = PlainLevel(level)
  /\ InRange(Known(chart.constant), q.constant)
  /\ DeltaMatches(DeltaOf(chart, chart.fit), q)
  /\ FitMatches(chart.fit, q)
  /\ ReleasedMatches(chart.released, q)

(* Of the terms of a version some number a year or a version of LXNS.      *)
WithoutCentury(t) == IF Len(t) > 2 /\ IsPrefix(<<22, 20>>, t) THEN SubSeq(t, 3, Len(t)) ELSE t
YearNumbers(year) == 1000 * year..(1000 * year) + 999
VersionAt(year, sub) == IF year # None /\ sub \in 0..999 THEN {(1000 * year) + sub} ELSE {}
VersionNumbers(term) ==
  LET dash == FirstOf({i \in DOMAIN term : term[i] = 10})
      plain == ToSet(term) \subseteq 20..29
  IN IF plain /\ Len(term) = 5 THEN {Number(term)}
     ELSE IF plain /\ Len(WithoutCentury(term)) = 2 THEN YearNumbers(Number(WithoutCentury(term)))
     ELSE IF dash # 0 THEN VersionAt(Number(WithoutCentury(SubSeq(term, 1, dash - 1))),
                                Number(SubSeq(term, dash + 1, Len(term))))
     ELSE {}
NamesVersion(source, chart, term, numbers) ==
  IF numbers # {} THEN source.numericVersion \in numbers
  ELSE ContainsFilter(source.version, term) \/ ContainsFilter(chart.version, term)
VersionMatches(source, chart, terms) ==
  \E term \in {Trim(t) : t \in ToSet(terms)} \ {<<>>} : NamesVersion(source, chart, term, VersionNumbers(term))

(* Mutant: the filters are met by one source each, not by one for all. *)
SourceMatchesMixed(catalog, source, chart, merged, q) ==
  /\ ShapeMatches([chart EXCEPT !.constant = merged.constant], chart.generation, chart.difficulty, q)
  /\ NameMatches(catalog.charters, chart.charter, q.charter)
  /\ \A terms \in q.version : VersionMatches(source, chart, terms)
  /\ RegionsMatch(chart.regions, q)
  /\ TagsMatch(merged.tags, q)
(* One source says all of it; only the tags are nobody's own.              *)
SourceMatches(catalog, source, chart, merged, q) ==
  /\ ShapeMatches(chart, chart.generation, chart.difficulty, q)
  /\ NameMatches(catalog.charters, chart.charter, q.charter)
  /\ \A terms \in q.version : VersionMatches(source, chart, terms)
  /\ RegionsMatch(chart.regions, q)
  /\ TagsMatch(merged.tags, q)
(* A song that no source is known for is judged by itself.                 *)
MergedMatches(catalog, song, chart, q) ==
  /\ ShapeMatches(chart, chart.key[2], chart.key[3], q)
  /\ NameMatches(catalog.charters, chart.charter, q.charter)
  /\ \A terms \in q.version :
       \/ terms = <<>>
       \/ /\ Len(terms) = 1
          /\ ContainsFilter(song.version, terms[1]) \/ ContainsFilter(chart.version, terms[1])
  /\ TagsMatch(chart.tags, q)
ChartMatches(catalog, song, chart, q) ==
  IF song.projections = <<>> THEN MergedMatches(catalog, song, chart, q)
  ELSE \E p \in ToSet(song.projections) : \E c \in ToSet(p.charts) :
         /\ c.generation = chart.key[2] /\ c.difficulty = chart.key[3]
         /\ SourceMatches(catalog, p, c, chart, q)

-----------------------------------------------------------------------------
(* The order of the hits.                                                  *)

(* The letters come after the digits.                                      *)
Place(c) == IF c \in 1..9 THEN c + 40 ELSE c
SeqLess(s, t) == \/ s # t /\ IsPrefix(s, t)
                 \/ \E i \in DOMAIN s \cap DOMAIN t : s[i] < t[i] /\ SubSeq(s, 1, i - 1) = SubSeq(t, 1, i - 1)
TextLess(s, t) == SeqLess([i \in DOMAIN s |-> Place(s[i])], [i \in DOMAIN t |-> Place(t[i])])
Namespaces == <<"diving_fish", "lxns", "official_cn", "dx_rating", "yuzu">>
IdKey(id) ==
  LET namespace == CHOOSE i \in DOMAIN Namespaces : Namespaces[i] = id[1]
  IN IF id[2][1] = "numeric" THEN <<namespace, 0, id[2][2]>> ELSE <<namespace, 1>> \o [i \in DOMAIN id[2][2] |-> Place(id[2][2][i])]

SourceOrder == <<"cn", "official", "jp", "divingfish">>
SortId(song) ==
  LET first(source) == FirstOf(Where(song.projections, LAMBDA p : p.source = source /\ NumberOf(p.id) # None))
      found == {i \in DOMAIN SourceOrder : first(SourceOrder[i]) # 0}
  IN IF found = {} THEN {n \in song.numbers : \A m \in song.numbers : n <= m}
     ELSE LET p == song.projections[first(SourceOrder[Min(found)])]
          IN {IF /\ p.source = "divingfish" /\ NumberOf(p.id) \in DxIds
                 /\ \E c \in ToSet(p.charts) : c.generation = "deluxe"
              THEN NumberOf(p.id) - DxOffset ELSE NumberOf(p.id)}
(* What a hit is ordered by: nothing where it has no such value.           *)
MaySortLast == {"constant", "fit", "delta"}
SortValue(hit, sort) ==
  LET charts == {hit.song.charts[i] : i \in hit.charts}
      values == CASE sort.key = "constant" -> UNION {Known(c.constant) : c \in charts}
                  [] sort.key = "fit" -> UNION {Known(c.fit) : c \in charts}
                  [] OTHER -> UNION {DeltaOf(c, c.fit) : c \in charts}
      only(S) == IF S = {} THEN <<>> ELSE <<IF sort.direction = "ascending" THEN Min(S) ELSE Max(S)>>
  IN CASE sort.key = "relevance" -> <<KindOrder(hit.kind)>>
       [] sort.key = "title" -> [i \in DOMAIN Normalize(hit.song.title) |-> Place(Normalize(hit.song.title)[i])]
       [] sort.key = "bpm" -> <<hit.song.bpm>>
       [] sort.key = "id" -> only(SortId(hit.song))
       [] OTHER -> only(values)
HitBefore(g, h, sort) ==
  LET less(s, t) == IF sort.key \in MaySortLast /\ <<>> \in {s, t} THEN s # <<>> /\ t = <<>>
                    ELSE IF sort.direction = "ascending" THEN SeqLess(s, t) ELSE SeqLess(t, s)
      title(k) == Normalize(k.song.title)
      id(k) == IdKey(k.song.ids[1])
  IN IF g.value # h.value THEN less(g.value, h.value)
     ELSE IF title(g) # title(h) THEN TextLess(title(g), title(h))
     ELSE IF id(g) # id(h) THEN SeqLess(id(g), id(h))
     ELSE g.at < h.at

-----------------------------------------------------------------------------
(* A whole query.                                                          *)

Inverted(q) == \E r \in {q.ids, q.constant, q.fit, q.delta, q.bpm} : r.min > r.max
Ordered(q) == q.sort.key # "relevance" \/ \E t \in q.query : Normalize(t) # <<>>
HitsOf(catalog, q) ==
  Using({h \in {[at |-> at, song |-> catalog.songs[at], kind |-> MatchBy(catalog.songs[at], q.query),
                 charts |-> {i \in DOMAIN catalog.songs[at].charts :
                               ChartMatches(catalog, catalog.songs[at], catalog.songs[at].charts[i], q)}]
                : at \in {i \in DOMAIN catalog.songs : MusicMatches(catalog, catalog.songs[i], q)}}
         : h.kind # "none" /\ h.charts # {}}, LAMBDA found :
  Using({[value |-> SortValue(h, q.sort)] @@ h : h \in found}, LAMBDA valued :
    IF Ordered(q) THEN Sorted(valued, LAMBDA g, h : HitBefore(g, h, q.sort))
    ELSE Sorted(valued, LAMBDA g, h : g.at < h.at)))
UpTo(s, limit) == SubSeq(s, 1, IF \E n \in limit : n < Len(s) THEN CHOOSE n \in limit : TRUE ELSE Len(s))
(* Mutant: the hits are cut to the limit before they are sorted. *)
QueryCutFirst(catalog, q) ==
  CASE 0 \in q.limit \/ Inverted(q) -> [ok |-> FALSE, hits |-> <<>>]
    [] OTHER -> [ok |-> TRUE, hits |->
         LET all == ToSet(HitsOf(catalog, q))
         IN SelectSeq(HitsOf(catalog, q),
              LAMBDA h : \A n \in q.limit : Cardinality({g \in all : g.at < h.at}) < n)]
Query(catalog, q) ==
  CASE 0 \in q.limit \/ Inverted(q) -> [ok |-> FALSE, hits |-> <<>>]
    [] OTHER -> [ok |-> TRUE, hits |-> UpTo(HitsOf(catalog, q), q.limit)]
=============================================================================
