-------------------------------- MODULE Plates --------------------------------
(***************************************************************************)
(* The plates: named lists of songs whose charts a player completes        *)
(* (maimai-catalog plate).  The Chinese lists name Diving-Fish numbers,    *)
(* the Japanese ones follow the versions of dxdata, and the operator may   *)
(* add lists of any songs.  The names are written in pinyin; a trailing _s *)
(* marks a simplified character.                                           *)
(***************************************************************************)
EXTENDS Catalogs

ReMaster == 4

-----------------------------------------------------------------------------
(* The projections, by the numbers their sources give them.                *)

ListingAt(songs, e) == songs[e[1]].projections[e[2]]
ProjectionsOf(songs, source) ==
  UNION {{<<at, i>> : i \in Where(songs[at].projections, LAMBDA p : p.source = source)} : at \in DOMAIN songs}
ByDfId(songs, n) == {e \in ProjectionsOf(songs, "divingfish") : ListingAt(songs, e).id[2] = Numeric(n)}
ByDxId(songs, id) == {e \in ProjectionsOf(songs, "jp") : ListingAt(songs, e).id = id}
DfForGeneration(songs, at, generation) ==
  {e \in ProjectionsOf(songs, "divingfish") :
     /\ e[1] = at /\ NumberOf(ListingAt(songs, e).id) # None
     /\ \E c \in ToSet(ListingAt(songs, e).charts) : c.generation = generation}
ProjectionGeneration(p) == IF p.charts = <<>> THEN "none" ELSE p.charts[1].generation

(* A member stands for the charts of one projection and one generation; it *)
(* is refused when more than one listing may be meant, or when the listing *)
(* has no chart.                                                           *)
Refuse == [ok |-> FALSE]
ChartFromProjection(song, c) ==
  LET at == FirstOf(Where(song.charts, LAMBDA k : k.key[2] = c.generation /\ k.key[3] = c.difficulty))
  IN [key |-> IF at = 0 THEN {} ELSE {song.charts[at].key},
      difficulty |-> c.difficulty, level |-> c.level, constant |-> c.constant]
MemberFrom(songs, e, fish, generation, versions, remaster) ==
  LET song == songs[e[1]]
      p == ListingAt(songs, e)
      charts == SelectSeq(p.charts, LAMBDA c :
                  /\ c.generation = generation /\ c.difficulty # Utage
                  /\ versions = {} \/ c.version \in versions
                  /\ remaster \/ c.difficulty # ReMaster)
      df == IF fish = {} THEN None ELSE NumberOf(ListingAt(songs, CHOOSE f \in fish : TRUE).id)
  IN IF Cardinality(fish) > 1 \/ generation = "none" THEN Refuse
     ELSE [ok |-> TRUE, song |-> {song.ids[1]}, id |-> IF df = None THEN p.id[2] ELSE Numeric(df), df |-> df,
           title |-> p.title, generation |-> generation,
           charts |-> [i \in DOMAIN charts |-> ChartFromProjection(song, charts[i])]]

(* Of the members that are alike the first is kept.                        *)
OnceEach(members, alike(_,_)) ==
  FoldLeft(LAMBDA kept, m : IF \E k \in ToSet(kept) : alike(k, m) THEN kept ELSE Append(kept, m), <<>>, members)
Plate(name, declared, members) ==
  [name |-> name, declared |-> declared, members |-> members,
   ok |-> \A m \in ToSet(members) : m.ok]
WholePlate(name, members) == Plate(name, Len(members), members)

-----------------------------------------------------------------------------
(* The Chinese plates.                                                     *)

CnMember(songs, n, remaster) ==
  LET found == ByDfId(songs, n)
      one == CHOOSE e \in found : TRUE
  IN CASE found = {} -> <<>>
       [] Cardinality(found) > 1 -> <<Refuse>>
       [] OTHER -> <<MemberFrom(songs, one, found, ProjectionGeneration(ListingAt(songs, one)), {}, remaster)>>
RemasterList == "wu_remaster"
BuildCn(plates, songs) ==
  LET remastered == UNION {ToSet(p.ids) : p \in {q \in plates : q.name = RemasterList}}
  IN {Plate(p.name, Len(p.ids),
            FlattenSeq([i \in DOMAIN p.ids |-> CnMember(songs, p.ids[i], p.name = "wu" /\ p.ids[i] \in remastered)]))
      : p \in {q \in plates : q.name # RemasterList}}

(* Where several names share one list.                                     *)
CnKeys ==
  [xiao_s |-> "xiao", ying_s |-> "ying", jin_s |-> "jin", hui_s |-> "hui", ba |-> "wu",
   hua_s |-> "xiong&hua", hua |-> "xiong&hua", xiong |-> "xiong&hua", shuang |-> "shuang&huang",
   huang |-> "shuang&huang", zhou |-> "zhou&xing", xing |-> "zhou&xing", ji |-> "ji&zhu", zhu |-> "ji&zhu",
   shuang_s |-> "shuang_s&yan", yan |-> "shuang_s&yan"]
CnKey(name) == IF name \in DOMAIN CnKeys THEN CnKeys[name] ELSE name

-----------------------------------------------------------------------------
(* The Japanese plates: the first versions have the Chinese lists, and the *)
(* later ones the charts that dxdata gives that version.                   *)

OldFrames ==
  [chu |-> "zhen", ba |-> "wu"]
  @@ [n \in {"zhen", "chao", "xi", "cheng", "xiao", "tao", "ying", "zi", "jin", "bai", "xue", "hui", "wu"} |-> n]
(* The letters 3 to 8 stand for the titles from DX to PRiSM, 2 for CiRCLE  *)
(* and a 9 behind a blank for PLUS.                                        *)
JpVersions ==
  [xiong |-> <<3>>, hua |-> <<3, 0, 9>>, shuang |-> <<4>>, huang |-> <<4, 0, 9>>, zhou |-> <<5>>,
   xing |-> <<5, 0, 9>>, ji |-> <<6>>, zhu |-> <<6, 0, 9>>, shuang_s |-> <<7>>, yan |-> <<7, 0, 9>>,
   jing |-> <<8>>, cai |-> <<8, 0, 9>>, wan |-> <<2>>]
JpNames == [xiao_s |-> "xiao", ying_s |-> "ying", jin_s |-> "jin", hui_s |-> "hui", hua_s |-> "hua", circle |-> "wan"]
JpName(name) == IF name \in DOMAIN JpNames THEN JpNames[name] ELSE name

GenerationOrder == <<"standard", "deluxe", "utage1", "utage2">>
JpMembers(listings, songs, version) ==
  LET of(x) == LET found == IF Trim(x.id) = <<>> THEN {} ELSE ByDxId(songs, DxProjectionId(x))
                   one == CHOOSE e \in found : TRUE
                   named == {c.generation : c \in {k \in ToSet(ListingAt(songs, one).charts) : k.version = version}}
                   own == SelectSeq(GenerationOrder, LAMBDA g : g \in named)
               IN IF found = {} THEN <<>>
                  ELSE [i \in DOMAIN own |->
                          MemberFrom(songs, one, DfForGeneration(songs, one[1], own[i]), own[i], {version}, FALSE)]
  IN OnceEach(FlattenSeq([k \in DOMAIN listings |-> of(listings[k])]),
              LAMBDA m, k : m.ok /\ k.ok /\ m.song = k.song /\ m.generation = k.generation)
BuildJp(listings, cn, songs) ==
  UNION {{[p EXCEPT !.name = n] : p \in {q \in cn : q.name = OldFrames[n]}} : n \in DOMAIN OldFrames}
  \cup {WholePlate(n, JpMembers(listings, songs, JpVersions[n])) : n \in DOMAIN JpVersions}

-----------------------------------------------------------------------------
(* The operator's plates.  A song is written as a number, as a text, or as *)
(* an object that may define its charts by levels and constants.           *)

ParseSong(wire) ==
  LET named == IF wire.query # {} THEN wire.query ELSE IF wire.title # {} THEN wire.title ELSE wire.id
      text == IF named = {} THEN <<>> ELSE Trim(CHOOSE t \in named : TRUE)
      title == IF wire.title = {} THEN text ELSE Trim(CHOOSE t \in wire.title : TRUE)
      reference == [kind |-> "reference", query |-> text, generation |-> wire.generation]
  IN IF wire.generation \notin {{}, {"standard"}, {"deluxe"}} THEN [kind |-> "invalid"]
     ELSE IF wire.levels = <<>> /\ wire.constants = <<>> THEN IF text = <<>> THEN [kind |-> "invalid"] ELSE reference
     ELSE IF Len(wire.levels) # Len(wire.constants) \/ Len(wire.levels) > 5 \/ title = <<>> THEN [kind |-> "invalid"]
     ELSE [kind |-> "defined", id |-> wire.id, title |-> title, levels |-> wire.levels,
                    constants |-> wire.constants,
                    generation |-> IF wire.generation = {} THEN {"deluxe"} ELSE wire.generation]

Unresolved == [ok |-> FALSE, none |-> TRUE]
SearchedSongs(songs, text) ==
  {at \in DOMAIN songs : text # <<>> /\ text \in {Normalize(t) : t \in {songs[at].title} \cup ToSet(songs[at].aliases)}}
ResolveReference(songs, query, generation) ==
  Using(Number(Trim(query)), LAMBDA n :
  LET fits(e) == \A g \in generation : ProjectionGeneration(ListingAt(songs, e)) = g
  IN
  Using(ByDfId(songs, n), LAMBDA byNumber :
  Using({e \in ProjectionsOf(songs, "divingfish") \cup ProjectionsOf(songs, "jp") :
           e[1] \in SearchedSongs(songs, Normalize(query)) /\ fits(e)}, LAMBDA byText :
  LET member(e, fish) == MemberFrom(songs, e, fish, ProjectionGeneration(ListingAt(songs, e)), {}, TRUE)
      before(e, f) == e[1] < f[1] \/ (e[1] = f[1] /\ e[2] < f[2])
  IN
  Using(LET sorted == Sorted(byText, before)
        IN [i \in DOMAIN sorted |->
              member(sorted[i], DfForGeneration(songs, sorted[i][1], ProjectionGeneration(ListingAt(songs, sorted[i]))))], LAMBDA found :
  Using(OnceEach(found, LAMBDA m, k : m.ok /\ k.ok /\ m.id = k.id /\ m.generation = k.generation), LAMBDA distinct :
  Using(CHOOSE e \in byNumber : TRUE, LAMBDA one :
    IF n # None /\ Cardinality(byNumber) > 1 THEN Refuse
    ELSE IF n # None THEN IF byNumber = {} \/ ~fits(one) THEN Unresolved ELSE member(one, byNumber)
    ELSE IF distinct = <<>> THEN Unresolved
    ELSE IF Len(distinct) > 1 THEN Refuse
    ELSE distinct[1]))))))
ExternalMember(name, s) ==
  LET generation == CHOOSE g \in s.generation : TRUE
      kept == {i \in DOMAIN s.levels : i - 1 # ReMaster}
  IN [ok |-> \A id \in s.id : Trim(id) # <<>>, song |-> {},
      id |-> IF s.id = {} THEN <<"custom", name, s.title, generation>>
             ELSE IF \E t \in s.id : Number(t) # None THEN Numeric(Number(CHOOSE t \in s.id : TRUE))
             ELSE Textual(Trim(CHOOSE t \in s.id : TRUE)),
      df |-> None, title |-> s.title, generation |-> generation,
      charts |-> [i \in 1..Cardinality(kept) |->
                    [key |-> {}, difficulty |-> i - 1, level |-> s.levels[i], constant |-> s.constants[i]]]]
CustomMember(name, songs, s) ==
  Using(IF s.kind = "reference" THEN ResolveReference(songs, s.query, s.generation)
        ELSE IF s.kind = "defined" /\ s.id # {} THEN ResolveReference(songs, CHOOSE t \in s.id : TRUE, s.generation)
        ELSE Unresolved, LAMBDA resolved :
    IF s.kind = "defined" /\ resolved = Unresolved THEN ExternalMember(name, s) ELSE resolved)
BuildCustom(plates, songs) ==
  {WholePlate(p.name, OnceEach([i \in DOMAIN p.songs |-> CustomMember(p.name, songs, ParseSong(p.songs[i]))],
                               LAMBDA m, k : m.ok /\ k.ok /\ m.id = k.id /\ m.generation = k.generation))
     : p \in plates}

-----------------------------------------------------------------------------
(* All of them, or an error that fails the whole load.                     *)

AllPlates(dx, cn, jp, custom) ==
  [ok |-> dx /\ \A p \in cn \cup jp \cup custom : p.ok, cn |-> cn, jp |-> jp, custom |-> custom]
PlatesWith(docs, songs, cn) ==
  LET dx == ProjectionsOf(songs, "jp")
  IN AllPlates(Cardinality({ListingAt(songs, e).id : e \in dx}) = Cardinality(dx),
               cn, BuildJp(docs.dx, cn, songs), BuildCustom(docs.custom, songs))
BuildPlates(docs, songs) == PlatesWith(docs, songs, BuildCn(docs.plates, songs))

NoPlates == [ok |-> FALSE, cn |-> {}, jp |-> {}, custom |-> {}]
NoPlate == Plate("none", 0, <<>>)
PlateOf(plates, name, server) ==
  LET named == CASE server = "cn" -> {p \in plates.cn : p.name = CnKey(name)}
                 [] server = "jp" -> {p \in plates.jp : p.name = JpName(name)}
                 [] OTHER -> {p \in plates.custom : p.name = name}
  IN IF named = {} THEN NoPlate ELSE CHOOSE p \in named : TRUE
PlateExists(plates, name, server) == PlateOf(plates, name, server).members # <<>>
(* Whether a score is of a song of the plate: by its Diving-Fish number,   *)
(* or else by title and generation.                                        *)
PlateMatches(plate, df, title, generation) ==
  \E m \in ToSet(plate.members) : \/ df # None /\ m.df = df
                                  \/ Same(m.title, title) /\ m.generation = generation
=============================================================================
