----------------------------- MODULE ScoreProviders -----------------------------
(***************************************************************************)
(* A player's scores, from the reply of a provider to the records that are *)
(* answered with and kept (maimai-providers diving_fish_score, lxns_score; *)
(* maimai-app score_service and scores; maimai-storage store/snapshot).    *)
(*                                                                         *)
(* A score in a document is a record of its own beside the JSON values: of *)
(* its fields those that decide which chart it is of, and what it counts.  *)
(* A field of a wrong kind makes it one that is not readable.              *)
(***************************************************************************)
EXTENDS ProviderReplies, Lookups

NoScores == <<>>
Bad(error) == [verdict |-> "refused", error |-> error]
UtageKinds == {"utage1", "utage2"}
RankedLimit == 10100
FlexibleNumber(v) == IF v.is = "number" THEN v.number ELSE Number(Trim(v.text))
OptionalNumber(v, names) == \A x \in Value(v, names) : x.is \in {"number", "text"} /\ FlexibleNumber(x) >= 0
NumberIn(v, names) == IF Value(v, names) = {} THEN None ELSE FlexibleNumber(CHOOSE x \in Value(v, names) : TRUE)

-----------------------------------------------------------------------------
(* Diving-Fish.  A label that says utage goes before the index, the index  *)
(* before any other label; an achievement over 101 % is one of an utage.   *)

DfUtage(raw) == raw.type = "utage" \/ raw.label = Utage
DfScoreDifficulty(raw) == IF DfUtage(raw) THEN Utage
                          ELSE IF raw.index # None THEN raw.index
                          ELSE raw.label
DfReads(raw) ==
  /\ raw.is = "score" /\ raw.readable /\ raw.type \in {"standard", "deluxe", "utage"}
  /\ DfUtage(raw) \/ (DfScoreDifficulty(raw) \in 0..ReMaster /\ raw.achievement <= RankedLimit)
DfReading(raw) ==
  [id |-> <<"diving_fish", raw.id>>, generations |-> IF DfUtage(raw) THEN UtageKinds ELSE {raw.type},
   difficulty |-> DfScoreDifficulty(raw), constant |-> raw.constant, achievement |-> raw.achievement,
   dx |-> raw.dx, rating |-> raw.rating, version |-> raw.version]
Readings(v, Reading(_)) == [i \in DOMAIN v.items |-> Reading(v.items[i])]
DfScores(v) == Readings(v, DfReading)
DfPlayerReads(root) ==
  /\ \A name \in {"nickname", "username", "plate"} : \A x \in Value(root, {name}) : x.is = "text"
  /\ OptionalNumber(root, {"rating"}) /\ OptionalNumber(root, {"additional_rating"})
(* The parts that make up a best-50 list, with the ratings that they say.  *)
RatingSum(readings) == FoldLeft(LAMBDA sum, r : sum + Or(r.rating, 0), 0, readings)
DfB50(v) ==
  LET charts == {c \in FieldOf(v, {"charts"}) : IsObject(c)}
      part(name) == UNION {{x \in FieldOf(c, {name}) : ListOf(x, DfReads)} : c \in charts}
      list(name) == DfScores(CHOOSE x \in part(name) : TRUE)
      b35 == RatingSum(list("sd"))
      b15 == RatingSum(list("dx"))
  IN IF part("sd") = {} \/ part("dx") = {} \/ ~DfPlayerReads(v) THEN Bad("Provider")
     ELSE [verdict |-> "list", player |-> NumberIn(v, {"rating"}), legacy |-> list("sd"), current |-> list("dx"),
           upstream |-> [b35 |-> b35, b15 |-> b15, total |-> b35 + b15]]
(* The records: the list itself, the one that has a name it may have, or   *)
(* the only list there is.                                                 *)
RecordArray(root) ==
  LET called == FirstNonEmpty(<<FieldOf(root, {"records"}), FieldOf(root, {"verlist"})>>)
      lists == {f \in root.fields : f[2].is = "array"}
  IN IF called # {} THEN called
     ELSE IF Cardinality(lists) = 1 THEN {f[2] : f \in lists}
     ELSE {}
Received(player, records) == [verdict |-> "records", player |-> player, records |-> records]
DfRecords(v) ==
  Using(IF v.is = "array" THEN {v}
        ELSE IF IsObject(v) /\ DfPlayerReads(v) THEN RecordArray(v)
        ELSE {}, LAMBDA lists :
  Using({x \in lists : ListOf(x, DfReads)}, LAMBDA read :
    IF read = {} THEN Bad("Provider") ELSE Received(NumberIn(v, {"rating"}), DfScores(CHOOSE x \in read : TRUE))))

B50Body == [operation |-> "maimai_query_player_post", bodies |-> {"body"}]
RecordsQuery == [operation |-> "maimai_dev_player_records_get", bodies |-> {}]
DfRequest(request, developer) ==
  request @@ [ownSecretHeader |-> FALSE, confirm |-> "none", timeout |-> 1, coverId |-> {},
              credentials |-> [jwt |-> "absent", import |-> "absent", username |-> "absent",
                               password |-> "absent", developer |-> developer]]
(* What is kept for evidence, and may be too long: as long as its body.    *)
TooLong(q, reply) == q.raw /\ BytesIn(reply.chunks) > RawLimit
AskDf(q, what, developer) ==
  Using(q.replies[1].main, LAMBDA reply :
  Using(Execute(DfRequest(IF what = "b50" THEN B50Body ELSE RecordsQuery, developer), reply), LAMBDA said :
  Using(CHOOSE v \in said.json : TRUE, LAMBDA value :
    IF said.verdict = "refused" \/ TooLong(q, reply) \/ said.json = {} THEN Bad("Provider")
    ELSE IF what = "b50" THEN DfB50(value)
    ELSE DfRecords(value))))

-----------------------------------------------------------------------------
(* LXNS.  What is read into a record of fields may be a list of their      *)
(* values in order; a field that is not there is empty.                    *)

LxnsReads(raw) ==
  /\ raw.is = "score" /\ raw.readable /\ raw.type \in {"standard", "deluxe", "utage"}
  /\ NumberOf(<<"lxns", raw.id>>) > 0 /\ raw.index \in 0..ReMaster /\ raw.achievement # None
  /\ raw.type = "utage" \/ raw.achievement <= RankedLimit
LxnsReading(raw) ==
  [id |-> <<"lxns", raw.id>>, generations |-> IF raw.type = "utage" THEN UtageKinds ELSE {raw.type},
   difficulty |-> IF raw.type = "utage" THEN Utage ELSE raw.index, constant |-> raw.constant,
   achievement |-> raw.achievement, dx |-> Or(raw.dx, 0), rating |-> raw.rating, version |-> {}]
AsFields(v, names) ==
  IF v.is = "score" THEN {Object({})}
  ELSE IF v.is = "array" THEN IF Len(v.items) > Len(names) THEN {}
                         ELSE {Object({<<names[i], v.items[i]>> : i \in DOMAIN v.items})}
  ELSE IF IsObject(v) THEN {v}
  ELSE {}
FriendCode(x) == LET t == SelectSeq(IF x.is = "number" THEN Digits(x.number) ELSE x.text, LAMBDA c : c \notin {0, 10})
                 IN Len(t) \in 6..18 /\ IsDigits(t)
FriendNames == {"friend_code", "friendCode", "userFriendCode"}
LxnsPlayers(v) ==
  {o \in AsFields(v, <<"name", "friend_code", "rating">>) :
     /\ Reads(o, {"name"}, {"text"}) /\ Reads(o, {"rating"}, {"number"})
     /\ Reads(o, FriendNames, {"number", "text"}) /\ \A x \in Value(o, FriendNames) : FriendCode(x)}
ReadsFields(o, lists) ==
  /\ \A x \in Value(o, {"player"}) : LxnsPlayers(x) # {}
  /\ \A x \in FieldOf(o, lists) : ListOf(x, LxnsReads)
PlayerIn(o) == UNION {LxnsPlayers(x) : x \in Value(o, {"player"})}
RatingOf(players) == IF players = {} THEN None ELSE NumberIn(CHOOSE p \in players : TRUE, {"rating"})
ScoresIn(o, name) == IF FieldOf(o, {name}) = {} THEN NoScores
                     ELSE Readings(CHOOSE x \in FieldOf(o, {name}) : TRUE, LxnsReading)
Together(o, names) == FlattenSeq([i \in DOMAIN names |-> ScoresIn(o, names[i])])

LxnsScores(v) ==
  Using({o \in AsFields(v, <<"player", "scores">>) : ReadsFields(o, {"scores"})}, LAMBDA objects :
  Using(CHOOSE x \in objects : TRUE, LAMBDA o :
    IF ListOf(v, LxnsReads) THEN Received(None, Readings(v, LxnsReading))
    ELSE IF objects = {} THEN Bad("Provider")
    ELSE Received(RatingOf(PlayerIn(o)), ScoresIn(o, "scores"))))
SongLists == <<"scores", "bests", "standard", "sd", "dx", "new", "b35", "b15">>
LxnsSong(v) ==
  LET objects == {o \in AsFields(v, <<"player">> \o SongLists) : ReadsFields(o, ToSet(SongLists))}
      o == CHOOSE x \in objects : TRUE
  IN IF ListOf(v, LxnsReads) THEN Received(None, Readings(v, LxnsReading))
     ELSE IF LxnsReads(v) THEN Received(None, <<LxnsReading(v)>>)
     ELSE IF objects = {} THEN Bad("Provider")
     ELSE Received(RatingOf(PlayerIn(o)), Together(o, SongLists))
LegacyLists == <<"standard", "sd", "b35">>
CurrentLists == <<"dx", "new", "b15">>
LegacyTotals == <<"standard_total", "standardTotal", "sd_total", "b35_total", "b35Total">>
CurrentTotals == <<"dx_total", "dxTotal", "new_total", "b15_total", "b15Total">>
BestsFields == <<"player">> \o LegacyLists \o CurrentLists \o LegacyTotals \o CurrentTotals
FirstHeld(o, names) == LET held == SelectSeq(names, LAMBDA name : ScoresIn(o, name) # NoScores)
                       IN IF held = <<>> THEN NoScores ELSE ScoresIn(o, held[1])
FirstPositive(o, names) == LET held == SelectSeq(names, LAMBDA name : NumberIn(o, {name}) > 0)
                           IN IF held = <<>> THEN None ELSE NumberIn(o, {held[1]})
LxnsBests(v) ==
  Using({o \in AsFields(v, BestsFields) :
           /\ ReadsFields(o, ToSet(LegacyLists \o CurrentLists))
           /\ \A name \in ToSet(LegacyTotals \o CurrentTotals) : Reads(o, {name}, {"number"})}, LAMBDA objects :
  Using(CHOOSE x \in objects : TRUE, LAMBDA o :
    IF objects = {} THEN Bad("Provider")
    ELSE [verdict |-> "list", player |-> RatingOf(PlayerIn(o)), named |-> PlayerIn(o) # {},
          legacy |-> FirstHeld(o, LegacyLists), current |-> FirstHeld(o, CurrentLists),
          upstream |-> [b35 |-> FirstPositive(o, LegacyTotals), b15 |-> FirstPositive(o, CurrentTotals),
                        total |-> None]]))

Refusal(said) == Bad(IF said.error = "unauthorized" THEN "AuthRequired" ELSE "Provider")
(* One request, decoded; a list without its player takes another.          *)
LxnsDecoded(what, v) ==
  CASE what = "b50" -> LxnsBests(v) [] what = "song" -> LxnsSong(v) [] what = "full" -> LxnsScores(v)
AskLxns(q, what, n) ==
  Using(LxnsReply(q.replies[n].main), LAMBDA said :
  Using(LxnsReply(q.replies[n].player), LAMBDA more :
  Using(LxnsDecoded(what, CHOOSE v \in said.json : TRUE), LAMBDA got :
  Using(LxnsPlayers(CHOOSE v \in more.json : TRUE), LAMBDA players :
    IF said.verdict = "refused" THEN Refusal(said)
    ELSE IF TooLong(q, q.replies[n].main) THEN Bad("Provider")
    ELSE IF got.verdict # "list" THEN got
    ELSE IF got.named THEN got
    ELSE IF more.verdict = "refused" THEN Refusal(more)
    ELSE IF players = {} THEN Bad("Provider")
    ELSE [got EXCEPT !.player = RatingOf(players)]))))
(* A token may be refused once: the request is made again with another.    *)
GrantError(grant) == CASE grant = "unfit" -> Bad("Provider")
                       [] grant \in {"InvalidInput", "InvalidState"} -> Bad("InvalidLookup")
                       [] grant \in {"AuthRequired", "Storage"} -> Bad(grant)
                       [] OTHER -> Bad("Provider")
WithToken(q, what) ==
  Using([n \in 1..2 |-> IF q.grants[n] = "granted" THEN AskLxns(q, what, n) ELSE GrantError(q.grants[n])], LAMBDA said :
  Using(IF q.grants[1] = "granted" /\ said[1] = Bad("AuthRequired") THEN 2 ELSE 1, LAMBDA n :
    said[n] @@ [tokens |-> n]))

-----------------------------------------------------------------------------
(* The chart that a reading is of, and what it counts: by its own constant *)
(* or else the catalogue's, or else as the provider rates it.              *)

PlaceIn(names, name) == CHOOSE i \in DOMAIN names : names[i] = name
KeyLess(k, l) ==
  LET chart(key) == <<PlaceIn(GenerationOrder, key[2]), key[3]>>
  IN SeqLess(IdKey(k[1]), IdKey(l[1])) \/ (k[1] = l[1] /\ SeqLess(chart(k), chart(l)))
KnownTenths(hundredths) == IF hundredths = None THEN None ELSE hundredths \div 10
RatedBy(constant, achievement, utage, rating) ==
  IF constant = None \/ achievement = None \/ utage THEN rating ELSE SongRating(constant, achievement)
ChartRecord(catalog, reading) ==
  Using(ResolveChart(catalog, reading.id, reading.generations, reading.difficulty), LAMBDA r :
  Using(KnownTenths(Or(reading.constant, r.constant)), LAMBDA constant :
  Using(r.key[2] \in UtageKinds, LAMBDA utage :
    IF r.verdict # "found" THEN {}
    ELSE {[key |-> r.key, from |-> reading.id, utage |-> utage, current |-> r.current, constant |-> constant,
           fit |-> KnownTenths(r.fit), achievement |-> reading.achievement, dx |-> reading.dx, original |-> None,
           rating |-> RatedBy(constant, reading.achievement, utage, reading.rating),
           version |-> IF reading.version = {} THEN {r.version} ELSE reading.version]})))
(* Every reading is found, or none counts.                                 *)
Converted(catalog, readings) ==
  Using([i \in DOMAIN readings |-> ChartRecord(catalog, readings[i])], LAMBDA found :
    IF \E i \in DOMAIN found : found[i] = {} THEN Bad("Catalog")
    ELSE [verdict |-> "converted", records |-> FlattenSeq([i \in DOMAIN found |-> SetToSeq(found[i])])])

(* In the order of a best-50 list a chart has its place among all of them. *)
Ranks(catalog) ==
  Using({e.key : e \in AllCharts(catalog)}, LAMBDA keys :
    {<<k, Cardinality({l \in keys : KeyLess(l, k)})>> : k \in keys})
Listable(catalog, records) ==
  Using(Ranks(catalog), LAMBDA ranks :
    {[chart |-> (CHOOSE p \in ranks : p[1] = r.key)[2]] @@ r : r \in ToSet(records)})

-----------------------------------------------------------------------------
(* What is kept of a player: the last full list of one source.             *)

Namesake == <<"diving_fish", "dx_rating", "lxns", "official_cn", "yuzu">>
DifficultyNames == <<1, 0, 2, 3, 4, 5>>
KindNames == <<"deluxe", "standard", "utage1", "utage2">>
RowBefore(l, r) ==
  LET place(x) == <<PlaceIn(Namesake, x.key[1][1]), IF NumberOf(x.key[1]) = None THEN 1 ELSE 0>>
      text(x) == IF NumberOf(x.key[1]) = None THEN x.key[1][2][2] ELSE Digits(NumberOf(x.key[1]))
      rest(x) == <<PlaceIn(DifficultyNames, x.key[3]), PlaceIn(KindNames, x.key[2])>>
  IN \/ Ahead(<<l.rating, l.achievement>>, <<r.rating, r.achievement>>)
     \/ /\ l.rating = r.rating /\ l.achievement = r.achievement
        /\ \/ SeqLess(place(l), place(r))
           \/ place(l) = place(r) /\ (TextLess(text(l), text(r)) \/ (text(l) = text(r) /\ SeqLess(rest(l), rest(r))))
StoredRow(r) == [key |-> r.key, constant |-> r.constant, achievement |-> r.achievement, dx |-> r.dx,
                 rating |-> r.rating, version |-> r.version \ {<<>>}]
(* Mutant: the rows of the last list that the new one does not have stay.  *)
MergeSnapshot(kept, snapshot) ==
  LET rows == snapshot.rows
      keys == {rows[i].key : i \in DOMAIN rows}
      left == UNION {{r \in old.rows : r.key \notin keys} : old \in kept}
  IN IF \E i, k \in DOMAIN rows : i # k /\ rows[i].key = rows[k].key THEN Bad("Storage")
     ELSE IF \E old \in kept : snapshot.at < old.at THEN [verdict |-> "written", kept |-> kept]
     ELSE [verdict |-> "written", kept |-> {[snapshot EXCEPT !.rows = ToSet(rows) \cup left]}]
(* Older scores than those that are kept are left alone.                   *)
ReplaceSnapshot(kept, snapshot) ==
  LET rows == snapshot.rows
  IN IF \E i, k \in DOMAIN rows : i # k /\ rows[i].key = rows[k].key THEN Bad("Storage")
     ELSE IF \E old \in kept : snapshot.at < old.at THEN [verdict |-> "written", kept |-> kept]
     ELSE [verdict |-> "written", kept |-> {[snapshot EXCEPT !.rows = ToSet(rows)]}]
PersistFullScores(q, source, player, records) ==
  IF q.lookup # "qq" THEN [verdict |-> "written", kept |-> q.kept]
  ELSE IF "write" \in q.broken THEN Bad("Storage")
  ELSE ReplaceSnapshot(q.kept, [source |-> source, at |-> q.now, player |-> player,
                                         rows |-> [i \in DOMAIN records |-> StoredRow(records[i])]])
RowReading(row) ==
  [id |-> row.key[1], generations |-> {row.key[2]}, difficulty |-> row.key[3],
   constant |-> IF row.constant = None THEN None ELSE 10 * row.constant, achievement |-> row.achievement,
   dx |-> row.dx, rating |-> row.rating, version |-> row.version]
RecordsForPlayer(kept) ==
  Using(Sorted(UNION {s.rows : s \in kept}, RowBefore), LAMBDA rows :
    [i \in DOMAIN rows |-> RowReading(rows[i])])

-----------------------------------------------------------------------------
(* The score service: where the scores come from, and what they are        *)
(* answered as.                                                            *)

ChooseSource(q) ==
  LET wanted == FirstNonEmpty(<<q.explicit, q.preference, {"diving_fish"}>>)
  IN IF q.policy = "diving_fish_only" THEN
            IF q.lookup = "qq" /\ q.explicit \notin {{}, {"diving_fish"}} THEN Bad("SourceUnavailable")
            ELSE [verdict |-> "source", source |-> "diving_fish"]
     ELSE IF q.lookup = "username" THEN [verdict |-> "source", source |-> "diving_fish"]
     ELSE IF "preference" \in q.broken THEN Bad("Storage")
     ELSE IF wanted = {"official_cn"} THEN Bad("UnsupportedSource")
     ELSE [verdict |-> "source", source |-> CHOOSE s \in wanted : TRUE]

(* The scores of a player as a source has them, before they are charts: a  *)
(* best-50 list, the scores of one song, or all.                           *)
DfAsked(q, what) ==
  LET developer == IF what = "b50" THEN "absent"
                   ELSE IF q.credentials # "absent" THEN q.credentials
                   ELSE q.stored
  IN IF what # "b50" /\ q.credentials = "absent" /\ "token" \in q.broken THEN Bad("Storage")
     ELSE IF what # "b50" /\ developer = "absent" THEN Bad("AuthRequired")
     ELSE AskDf(q, what, developer)
(* The one LXNS number of the song that is asked about, as its queries     *)
(* take it.                                                                *)
LxnsSongIds(catalog, id) ==
  Using(Query(catalog, [Blank EXCEPT !.id = {[any |-> FALSE, id |-> id]}]).hits, LAMBDA hits :
    UNION {{NumberOf(i) : i \in {j \in ToSet(h.song.ids) : j[1] = "lxns"}} : h \in ToSet(hits)} \ {None})
ForQuery(n) == IF n \in DxSongIds THEN n % DxOffset ELSE n
LxnsAsked(q, what, ids) ==
  IF q.policy = "diving_fish_only" THEN Bad("SourceUnavailable")
  ELSE IF q.lookup # "qq" THEN Bad("InvalidLookup")
  ELSE IF what = "song" /\ Cardinality(ids) # 1 THEN Bad("Catalog")
  ELSE IF what = "song" /\ 0 \in {ForQuery(n) : n \in ids} THEN Bad("Provider")
  ELSE WithToken(q, what)
LocalFull(q) ==
  IF q.lookup # "qq" THEN Bad("InvalidLookup")
  ELSE IF "records" \in q.broken THEN Bad("Storage")
  ELSE IF RecordsForPlayer(q.kept) = <<>> THEN Bad("SourceUnavailable")
  ELSE Received((CHOOSE s \in q.kept : TRUE).player, RecordsForPlayer(q.kept))
Wanted(q, source) ==
  IF q.kind = "b50" /\ q.mode = "provider" /\ source # "local" THEN "b50"
  ELSE IF q.kind = "song" /\ source = "lxns" THEN "song"
  ELSE "full"
Asked(q, catalog, source) ==
  CASE source = "diving_fish" -> DfAsked(q, Wanted(q, source))
    [] source = "lxns" -> LxnsAsked(q, Wanted(q, source), LxnsSongIds(catalog, q.filter.song))
    [] source = "local" -> LocalFull(q)

(* An answer, with what is kept after it and the tokens that it took.      *)
Answer(q, source, got, kept, result) ==
  result @@ [source |-> source, kept |-> kept, tokens |-> IF "tokens" \in DOMAIN got THEN got.tokens ELSE 0]
Unkept(q, source, got, result) == Answer(q, source, got, q.kept, result)
ScoreList(player, records) == [verdict |-> "scores", player |-> player, records |-> records]
Divided(catalog, got) ==
  Using([p \in {"legacy", "current"} |-> Converted(catalog, got[p])], LAMBDA part :
  Using([p \in {"legacy", "current"} |-> Listable(catalog, part[p].records)], LAMBDA list :
    IF \E p \in DOMAIN part : part[p].verdict = "refused" THEN Bad("Catalog")
    ELSE [verdict |-> "b50", player |-> got.player, records |-> part.legacy.records \o part.current.records,
          b50 |-> B50FromSections(list.legacy, list.current, got.upstream)]))
Computed(catalog, list, mode) ==
  [verdict |-> "b50", player |-> list.player, records |-> list.records,
   b50 |-> B50(Listable(catalog, list.records), IF mode = "provider" THEN "actual" ELSE mode)]

(* The full list: what a provider sends is kept before it is answered.     *)
FullScores(q, source, got, list) ==
  Using(IF source = "local" THEN [verdict |-> "written", kept |-> q.kept]
        ELSE PersistFullScores(q, source, got.player, list.records), LAMBDA written :
    IF list.verdict = "refused" THEN Unkept(q, source, got, Bad(list.error))
    ELSE IF written.verdict = "refused" THEN Unkept(q, source, got, written)
    ELSE Answer(q, source, got, written.kept, ScoreList(got.player, list.records)))
LxnsSongScores(q, got, list) ==
  Unkept(q, "lxns", got, IF list.verdict = "refused" THEN Bad(list.error) ELSE ScoreList(got.player, list.records))
ProviderB50(q, catalog, source, got) ==
  IF got.verdict = "refused" THEN Unkept(q, source, got, Bad(got.error))
  ELSE IF source = "diving_fish" /\ got.player = 0 THEN Unkept(q, source, got, Bad("SourceUnavailable"))
  ELSE Unkept(q, source, got, Divided(catalog, got))
FilterSingleSong(q, catalog, list) ==
  Using(CanonicalSong(catalog, q.filter.song), LAMBDA canonical :
  Using({r \in ToSet(list.records) : /\ r.key[1] = canonical.song
                                     /\ q.filter.generations = {} \/ r.key[2] \in q.filter.generations
                                     /\ q.filter.difficulty = {} \/ r.key[3] \in q.filter.difficulty}, LAMBDA wanted :
    IF canonical.verdict # "found" THEN Bad("Catalog")
    ELSE [list EXCEPT !.records = Sorted(wanted, LAMBDA l, r : KeyLess(l.key, r.key))]))

(* From the source that is chosen, through its reply and the list that it  *)
(* holds, to the scores and what was asked of them.                        *)
ReadyScores(q, catalog, scores) ==
  IF scores.verdict = "refused" THEN scores
  ELSE IF q.kind = "b50" THEN Computed(catalog, scores, q.mode) @@ scores
  ELSE IF q.kind = "song" THEN FilterSingleSong(q, catalog, scores) @@ scores
  ELSE scores
WithList(q, catalog, source, got, list) ==
  ReadyScores(q, catalog,
              IF Wanted(q, source) = "song" THEN LxnsSongScores(q, got, list) ELSE FullScores(q, source, got, list))
Replied(q, catalog, source, got) ==
  IF Wanted(q, source) = "b50" THEN ProviderB50(q, catalog, source, got)
  ELSE WithList(q, catalog, source, got, IF got.verdict = "refused" THEN got ELSE Converted(catalog, got.records))
ScoresFrom(q, catalog, source) == Replied(q, catalog, source, Asked(q, catalog, source))
PlayerScores(q, catalog) ==
  LET chosen == ChooseSource(q)
  IN IF chosen.verdict = "refused" THEN chosen @@ [source |-> "none", kept |-> q.kept, tokens |-> 0]
     ELSE ScoresFrom(q, catalog, chosen.source)
=============================================================================
