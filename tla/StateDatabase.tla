---------------------------- MODULE StateDatabase ----------------------------
(***************************************************************************)
(* The SQLite file of a server: how StateStore::open makes or upgrades it, *)
(* step by step, each its own transaction (a process that dies leaves the  *)
(* steps it finished), and the stores and reads of scores, bindings and    *)
(* identities that later processes make on it.                             *)
(*                                                                         *)
(* A column that may be NULL is a set with at most one member.  An         *)
(* achievement counts hundred-thousandths of a percent, as the old tools   *)
(* wrote it; its units, as it is read, are ten-thousandths.                *)
(***************************************************************************)
EXTENDS RankTools

Coalesce(a, b) == IF a # {} THEN a ELSE b
Cleaned(t) == {Trim(x) : x \in {y \in t : Trim(y) # <<>>}}

-----------------------------------------------------------------------------
(* The file.                                                               *)

(* A file is made privately; what appears between the look and the making  *)
(* is judged as if it had been there.                                      *)
Prepared(db, appears) ==
  LET made == [db EXCEPT !.parent = IF @ = "absent" THEN "private" ELSE @]
      met == IF db.file = "absent" THEN appears ELSE db.file
  IN CASE met = "absent" -> [ok |-> TRUE, db |-> [made EXCEPT !.file = "file", !.mode = "private"]]
       [] met = "file" -> [ok |-> TRUE, db |-> [made EXCEPT !.file = "file"]]
       [] OTHER -> [ok |-> FALSE, db |-> [made EXCEPT !.file = met]]

-----------------------------------------------------------------------------
(* Tables and columns.                                                     *)

LaterColumns ==
  << <<"local_records", "payload">>, <<"local_records", "source_record">>, <<"local_profiles", "upper_profile">>,
     <<"player_records_v3", "kind">>, <<"player_records_v3", "units">> >>
BaseTables == <<"local_profiles", "local_records", "player_records_v3", "player_score_snapshots", "preferences", "migrations">>
OtherTables == <<"credentials", "identity">>
LastTables == <<"player_b50_cache", "rankings">>
Step(do, on) == [i \in DOMAIN on |-> [do |-> do, table |-> on[i], column |-> ""]]
Once(do) == <<[do |-> do, table |-> "", column |-> ""]>>
OpeningSteps ==
  Step("create", BaseTables)
  \o [i \in DOMAIN LaterColumns |-> [do |-> "column", table |-> LaterColumns[i][1], column |-> LaterColumns[i][2]]]
  \o Step("create", OtherTables) \o Once("nullable") \o Step("create", <<"oauth">>) \o Once("tokens")
  \o Step("create", LastTables) \o Once("units") \o Once("kinds") \o Once("import")

(* CREATE TABLE IF NOT EXISTS: a new table has the later columns too.      *)
Create(db, table) ==
  IF table \in db.tables THEN db
  ELSE [db EXCEPT !.tables = @ \cup {table},
                  !.columns = @ \cup {c \in ToSet(LaterColumns) : c[1] = table},
                  !.nullable = @ \/ table = "identity"]

EnsureColumn(db, column) == [db EXCEPT !.columns = @ \cup {column}]

-----------------------------------------------------------------------------
(* Player records.                                                         *)

Key(r) == [qq |-> r.qq, namespace |-> r.namespace, value |-> r.value, generation |-> r.generation, difficulty |-> r.difficulty]
Rounded(achievement) == (achievement + 5) \div 10

(* What record_from_row takes: an achievement has its kind and its units,  *)
(* the kind of its difficulty, and a ranked one is at most 101%.           *)
AchievementReads(r) ==
  \/ r.kind = {} /\ r.units = {}
  \/ /\ r.kind = {IF r.difficulty = "utage" THEN "utage" ELSE "ranked"}
     /\ \E u \in r.units : u >= 0 /\ (r.kind = {"ranked"} => u <= 1010000)
Readable(r) ==
  /\ r.value >= 0 /\ (r.generation = "utage" <=> r.difficulty = "utage")
  /\ AchievementReads(r)
  /\ r.fc \subseteq {"fc", "fcp", "ap", "app"}
  /\ r.raw # {"broken"} /\ r.payload # {"broken"}

(* backfill_achievement_units: two statements.                             *)
BackfillUnits(db) ==
  [db EXCEPT !.records = {IF r.units = {} THEN [r EXCEPT !.units = {Rounded(a) : a \in r.achievement}] ELSE r : r \in @}]
BackfillKinds(db) ==
  LET kindOf(r) == IF r.difficulty = "utage" THEN {"utage"} ELSE {"ranked"}
      due(r) == r.kind = {} /\ r.units # {} /\ (r.difficulty = "utage" \/ r.units \subseteq 0..1010000)
  IN [db EXCEPT !.records = {IF due(r) THEN [r EXCEPT !.kind = kindOf(r)] ELSE r : r \in @}]

-----------------------------------------------------------------------------
(* The import of the old records: local_records, in the order of rowid.    *)

SourceNamed(text) ==
  CASE text \in {"sdgb_1", "official_cn"} -> {"official_cn"}
    [] text \in {"diving_fish", "divingfish"} -> {"diving_fish"}
    [] text \in {"lxns", "lxns_player"} -> {"lxns"}
    [] text = "local" -> {"local"}
    [] OTHER -> {}

(* The number a row's song is known by: of its own evidence if that is     *)
(* a whole number at all, or else of the raw reply's.                      *)
StableIds(row) == IF SourceNamed(row.source) = {"official_cn"} THEN row.own \cup row.rawId ELSE row.song
StableId(row) == IF SourceNamed(row.source) = {"official_cn"} THEN Coalesce(row.own, row.rawId) ELSE row.song
Eligible(row) ==
  /\ row.type \in {"SD", "ST", "STANDARD", "DX"} /\ row.level \in 0..4
  /\ row.achievement \subseteq 0..10100000
  /\ SourceNamed(row.source) \cap {"official_cn", "diving_fish", "lxns"} # {}
  /\ \E id \in StableIds(row) : id >= 0

ImportedRow(row) ==
  [qq |-> row.qq, namespace |-> Sole(SourceNamed(row.source)), value |-> Sole(StableId(row)),
   generation |-> IF row.type = "DX" THEN "deluxe" ELSE "standard",
   difficulty |-> <<"basic", "advanced", "expert", "master", "re_master">>[row.level + 1],
   achievement |-> row.achievement, kind |-> IF row.achievement = {} THEN {} ELSE {"ranked"},
   units |-> {Rounded(a) : a \in row.achievement}, fc |-> row.fc, raw |-> row.raw,
   payload |-> Coalesce(Coalesce(row.payload, row.raw), {"object"}),
   source |-> Sole(SourceNamed(row.source)), at |-> row.at]

(* Of the rows of a chart the one written last counts.                     *)
LatestRows(legacy) ==
  {i \in DOMAIN legacy :
     /\ Eligible(legacy[i])
     /\ \A j \in DOMAIN legacy :
          Eligible(legacy[j]) /\ Key(ImportedRow(legacy[j])) = Key(ImportedRow(legacy[i])) =>
            legacy[j].at < legacy[i].at \/ (legacy[j].at = legacy[i].at /\ j <= i)}

Overwrite(records, new) == {r \in records : \A n \in new : Key(n) # Key(r)} \cup new
Applied(db, name) == \E m \in db.migrations : m.name = name
Claimed(db, name) == {m \in db.migrations : m.name = name}

(* Mutant: the claim of an earlier process does not stop it. *)
ImportAgain(db) ==
  LET new == {ImportedRow(db.legacy[i]) : i \in LatestRows(db.legacy)}
  IN [db EXCEPT !.records = Overwrite(@, new),
                !.migrations = (@ \ Claimed(db, "records")) \cup {[name |-> "records", imported |-> Cardinality(new),
                                                                  skipped |-> Len(db.legacy) - Cardinality(new)]}]

ImportRecords(db) ==
  LET new == {ImportedRow(db.legacy[i]) : i \in LatestRows(db.legacy)}
  IN IF Applied(db, "records") THEN db
     ELSE [db EXCEPT !.records = Overwrite(@, new),
                     !.migrations = @ \cup {[name |-> "records", imported |-> Cardinality(new),
                                             skipped |-> Len(db.legacy) - Cardinality(new)]}]

-----------------------------------------------------------------------------
(* The bindings that an earlier program kept in user_bindings.             *)

StoredSecret(field, mayBeEmpty) ==
  IF field = {} THEN {t \in {<<>>} : mayBeEmpty}
  ELSE {Trim(t) : t \in {u \in field : -1 \notin ToSet(Trim(u)) /\ (mayBeEmpty \/ Trim(u) # <<>>)}}
TextOr(field, default) ==
  LET fits == {Trim(t) : t \in {u \in field : CleanText(u)}} IN IF fits = {} THEN default ELSE Sole(fits)
DefaultClient == <<30>>

(* What a row's lxnsOAuth gives, where it gives a binding at all; `now`    *)
(* stands in for the times that it does not tell.                          *)
DecodedToken(row, now) ==
  LET written == Sole(Coalesce(row.at, {now}))
      token(o) == [subject |-> Trim(row.qq), generation |-> 1, access |-> Sole(StoredSecret(o.access, FALSE)),
                   refresh |-> Sole(StoredSecret(o.refresh, TRUE)), client |-> TextOr(o.client, DefaultClient),
                   expires |-> o.expires, bound |-> Sole(Coalesce(o.bound, {written})),
                   updated |-> Sole(Coalesce(o.updated, {written}))]
  IN {token(o) : o \in {p \in row.oauth : /\ QqFits(row.qq) /\ p.object
                                          /\ StoredSecret(p.access, FALSE) # {} /\ StoredSecret(p.refresh, TRUE) # {}}}

MigrateTokens(db, now) ==
  Using(UNION {ToSet(b) : b \in db.bindings}, LAMBDA rows :
  Using(UNION {DecodedToken(row, now) : row \in rows}, LAMBDA decoded :
  Using({t \in decoded : \A held \in db.tokens : held.subject # t.subject}, LAMBDA new :
    IF Applied(db, "tokens") THEN db
    ELSE [db EXCEPT !.tokens = @ \cup new,
                    !.migrations = @ \cup {[name |-> "tokens", imported |-> Cardinality(new),
                                            skipped |-> Cardinality({r \in rows : r.oauth # {} /\ DecodedToken(r, now) = {}})]}])))

-----------------------------------------------------------------------------
(* An opening, which dies before the step after `upto`.                    *)

Perform(db, step, now) ==
  CASE step.do = "create" -> Create(db, step.table)
    [] step.do = "column" -> EnsureColumn(db, <<step.table, step.column>>)
    [] step.do = "nullable" -> [db EXCEPT !.nullable = TRUE]
    [] step.do = "tokens" -> MigrateTokens(db, now)
    [] step.do = "units" -> BackfillUnits(db)
    [] step.do = "kinds" -> BackfillKinds(db)
    [] step.do = "import" -> ImportRecords(db)

Opening(db, e) ==
  Using(Prepared(db, e.appears), LAMBDA start :
  LET after[n \in 0..e.upto] == IF n = 0 THEN start.db ELSE Perform(after[n - 1], OpeningSteps[n], e.now)
  IN
  Using(after[e.upto], LAMBDA ended :
  Using(CHOOSE m \in ended.migrations : m.name = "records", LAMBDA report :
    CASE ~start.ok -> [db |-> start.db, reply |-> [verdict |-> "unusable"]]
      [] start.ok /\ e.upto < Len(OpeningSteps) -> [db |-> ended, reply |-> [verdict |-> "died"]]
      [] OTHER -> [db |-> [ended EXCEPT !.mode = "private"],
                   reply |-> [verdict |-> "opened", applied |-> Applied(db, "records"),
                              imported |-> report.imported, skipped |-> report.skipped]])))

-----------------------------------------------------------------------------
(* Scores: a player's full list is replaced, and read.                     *)

Done(db) == [db |-> db, reply |-> [verdict |-> "done"]]
Unchanged(db, why) == [db |-> db, reply |-> [verdict |-> why]]

(* validate_snapshot: one player, one source, one time, no chart twice.    *)
SnapshotFits(p, records) ==
  /\ SourceNamed(p.source) # {}
  /\ \A i \in DOMAIN records : /\ records[i].qq = p.qq /\ records[i].source \in SourceNamed(p.source)
                               /\ records[i].at = p.at
                               /\ \A j \in DOMAIN records : Key(records[i]) = Key(records[j]) => i = j
StoreScores(db, e) ==
  LET p == e.profile
  IN CASE ~SnapshotFits(p, e.records) \/ \E r \in ToSet(e.records) : ~AchievementReads(r) -> Unchanged(db, "invalid")
       [] SnapshotFits(p, e.records) /\ \E s \in db.snapshots : s.qq = p.qq /\ p.at < s.at -> Unchanged(db, "stale")
       [] OTHER -> Done([db EXCEPT !.profiles = {q \in @ : q.qq # p.qq} \cup {p},
                                   !.records = {r \in @ : r.qq # p.qq} \cup ToSet(e.records),
                                   !.snapshots = {s \in @ : s.qq # p.qq}
                                     \cup {[qq |-> p.qq, source |-> Sole(SourceNamed(p.source)), at |-> p.at, count |-> Len(e.records)]}])

(* upsert_record: what is known of one chart alone is no full list.        *)
StoreRecord(db, e) ==
  IF ~AchievementReads(e.record) THEN Unchanged(db, "invalid")
  ELSE Done([db EXCEPT !.records = Overwrite(@, {e.record}), !.snapshots = {s \in @ : s.qq # e.record.qq}])

OfPlayer(db, qq) == {r \in db.records : r.qq = qq}
ReadRecords(db, qq) ==
  IF \E r \in OfPlayer(db, qq) : ~Readable(r) THEN [verdict |-> "invalid"]
  ELSE [verdict |-> "records", records |-> OfPlayer(db, qq)]

(* full_score_snapshot: the list as it was stored, or nothing.             *)
ReadSnapshot(db, e) ==
  LET rows == OfPlayer(db, e.qq)
      profile == {p \in db.profiles : p.qq = e.qq}
      marker == {s \in db.snapshots : s.qq = e.qq /\ s.source = e.source /\ s.at >= e.fresh}
      whole(s) == /\ profile # {} /\ Cardinality(rows) = s.count
                  /\ \A r \in rows \cup profile : r.at = s.at
                  /\ \A r \in rows : r.source = e.source
  IN IF marker # {} /\ \E r \in rows : ~Readable(r) THEN [verdict |-> "invalid"]
     ELSE IF marker # {} /\ whole(Sole(marker)) THEN [verdict |-> "records", records |-> rows]
     ELSE [verdict |-> "nothing"]

-----------------------------------------------------------------------------
(* Bindings: the token of a player.                                        *)

BindAccount(db, e) ==
  LET held == {t \in db.tokens : t.subject = e.token.subject}
  IN Done([db EXCEPT !.tokens = (@ \ held) \cup {[e.token EXCEPT !.generation = Max({0} \cup {t.generation : t \in held}) + 1]}])
UnbindAccount(db, e) ==
  [db |-> [db EXCEPT !.tokens = {t \in @ : t.subject # e.subject}],
   reply |-> [verdict |-> "unbound", changed |-> \E t \in db.tokens : t.subject = e.subject]]

-----------------------------------------------------------------------------
(* Identities: who is a friend, who is in which group, and what a provider *)
(* calls them.                                                             *)

NewUser(qq) == [qq |-> qq, friend |-> FALSE, qqName |-> {}, friendName |-> {},
                fishName |-> {}, fishUser |-> {}, fishRating |-> {}]
OnConflict(users, qq, Change(_)) ==
  LET known == {u \in users : u.qq = qq}
  IN (users \ known) \cup {Change(u) : u \in IF known = {} THEN {NewUser(qq)} ELSE known}

Stats(db) == [friends |-> Cardinality({u \in db.users : u.friend}), groups |-> Cardinality(db.groups),
              members |-> Cardinality(db.members), users |-> Cardinality(db.users)]
AddFriend(users, f) ==
  OnConflict(users, f.qq, LAMBDA u : [u EXCEPT !.friend = TRUE, !.qqName = Coalesce(@, Cleaned(f.name)), !.friendName = Cleaned(f.name)])
AddMember(db, group, m) ==
  IF \E n \in db.members : n.group = group /\ n.qq = m.qq THEN [db EXCEPT !.failed = TRUE]
  ELSE [db EXCEPT !.users = OnConflict(@, m.qq, LAMBDA u : [u EXCEPT !.qqName = Coalesce(Cleaned(m.name), @)]),
                  !.members = @ \cup {[group |-> group, qq |-> m.qq,
                                       shown |-> Sole(Coalesce(Cleaned(m.card), Coalesce(Cleaned(m.name), {<<m.qq>>})))]}]
AddGroup(db, g) ==
  IF \E h \in db.groups : h.group = g.group THEN [db EXCEPT !.failed = TRUE]
  ELSE FoldLeft(LAMBDA d, m : AddMember(d, g.group, m),
                [db EXCEPT !.groups = @ \cup {[group |-> g.group, name |-> Cleaned(g.name)]}], g.members)

(* replace_identity_snapshot, in one transaction: who is neither a friend  *)
(* nor a member any more is forgotten, unless a provider knows them.       *)
Forgotten(db) ==
  {u \in db.users : /\ ~u.friend /\ u.fishName = {} /\ u.fishUser = {} /\ u.fishRating = {}
                    /\ \A m \in db.members : m.qq # u.qq}
StoreIdentities(db, e) ==
  Using(1 + Max({0} \cup {m.generation : m \in db.meta}), LAMBDA next :
  Using({[u EXCEPT !.friend = FALSE, !.qqName = {}, !.friendName = {}] : u \in db.users}, LAMBDA cleared :
  Using(FoldLeft(AddGroup, [users |-> FoldLeft(AddFriend, cleared, e.friends), groups |-> {}, members |-> {},
                            failed |-> FALSE], e.groups), LAMBDA listed :
  Using([listed EXCEPT !.users = @ \ Forgotten(listed)], LAMBDA kept :
    IF listed.failed THEN Unchanged(db, "failed")
    ELSE Done([db EXCEPT !.users = kept.users, !.groups = kept.groups, !.members = kept.members,
                         !.meta = {[fetched |-> {e.at}, updated |-> e.at, generation |-> next, stats |-> Stats(kept)]}])))))

(* upsert_waterfish_identity: the provider tells no less than before.  A   *)
(* metadata row that it makes has no time of a snapshot.                   *)
StoreFishIdentity(db, e) ==
  LET told == [db EXCEPT !.users = OnConflict(@, e.qq, LAMBDA u : [u EXCEPT !.fishName = Coalesce(Cleaned(e.name), @),
                                              !.fishUser = Coalesce(e.user, @), !.fishRating = Coalesce(e.rating, @)])]
      meta == IF db.meta = {} THEN {[fetched |-> {}, updated |-> e.at, generation |-> 0, stats |-> Stats(told)]}
              ELSE {[m EXCEPT !.updated = e.at, !.stats = Stats(told)] : m \in db.meta}
  IN IF db.meta = {} /\ ~db.nullable THEN Unchanged(db, "failed") ELSE Done([told EXCEPT !.meta = meta])

(* One user, or all, with the groups by name and then by number.           *)
EarlierText(s, t) ==
  \E i \in 1..Len(t) : SubSeq(s, 1, Min({Len(s), i - 1})) = SubSeq(t, 1, i - 1) /\ (Len(s) < i \/ s[i] < t[i])
GroupsOf(db, qq) ==
  LET own(g) == {m \in db.members : m.qq = qq /\ m.group = g.group}
      mine == UNION {{[group |-> g, shown |-> m.shown] : m \in own(g)} : g \in db.groups}
      text(x) == IF x.group.name = {} THEN <<>> ELSE Sole(x.group.name)
  IN Sorted(mine, LAMBDA l, r : EarlierText(text(l), text(r)) \/ (text(l) = text(r) /\ l.group.group < r.group.group))
UserShown(db, u, preferred) ==
  LET groups == GroupsOf(db, u.qq)
  IN [user |-> u, groups |-> [i \in DOMAIN groups |-> groups[i].group.group],
      preferred |-> {g.group.group : g \in {h \in ToSet(groups) : h.group.group \in preferred}}]
ReadIdentities(db, e) ==
  [verdict |-> "users", meta |-> db.meta,
   users |-> {UserShown(db, u, e.preferred) : u \in {v \in db.users : e.qq = {} \/ v.qq \in e.qq}}]

-----------------------------------------------------------------------------
(* What processes do to one file, one after the other.                     *)

Perhaps(db, e) ==
  CASE e.do = "open" -> Opening(db, e)
    [] e.do = "scores" -> StoreScores(db, e)
    [] e.do = "record" -> StoreRecord(db, e)
    [] e.do = "read" -> [db |-> db, reply |-> ReadRecords(db, e.qq)]
    [] e.do = "snapshot" -> [db |-> db, reply |-> ReadSnapshot(db, e)]
    [] e.do = "bind" -> BindAccount(db, e)
    [] e.do = "unbind" -> UnbindAccount(db, e)
    [] e.do = "identities" -> StoreIdentities(db, e)
    [] e.do = "fish" -> StoreFishIdentity(db, e)
    [] e.do = "users" -> [db |-> db, reply |-> ReadIdentities(db, e)]

Kept(q) ==
  LET past[n \in 0..Len(q.events)] ==
        IF n = 0 THEN <<[db |-> q.db, reply |-> [verdict |-> "begun"]]>>
        ELSE Using(past[n - 1], LAMBDA before : Append(before, Perhaps(before[n].db, q.events[n])))
  IN past[Len(q.events)]
=============================================================================
