----------------------------- MODULE ScoreCaches -----------------------------
(***************************************************************************)
(* What is remembered of a player's scores: the shared B50 snapshot        *)
(* (player_b50_cache) and the full scores (local_profiles,                 *)
(* player_records_v3 and the marker in player_score_snapshots), and the    *)
(* queries of PlayerScoreService that fill them: tool calls, and the       *)
(* workers that a ranking refresh spawns, one per member (GroupScores).    *)
(*                                                                         *)
(* A score list is the instant the provider read it: `seen`. The program   *)
(* does not know that instant; it stamps what it stores with the `now` of  *)
(* the request, and judges a cache by that stamp and the daily reset.      *)
(***************************************************************************)
EXTENDS Integers, FiniteSets

CONSTANTS
  Player,     \* QQ numbers
  Call,       \* concurrent tool calls
  Chart,      \* charts a player may have a record of
  DayLength,  \* ticks of a day
  ResetHour,  \* the tick of a day at which the day's data expire
  Requests,   \* what tool calls ask for
  Qualities,  \* metadata qualities of a B50 that occur
  MaxClock,   \* bound: ticks
  MaxRating,  \* bound: total ratings of a B50
  Budgets     \* bounds: how often each kind of event may happen, one of these

ASSUME PlayerAssumption == Player # {} /\ "username" \notin Player /\ IsFiniteSet(Player)
ASSUME ChartAssumption == IsFiniteSet(Chart)
ASSUME DayAssumption == DayLength \in Nat \ {0} /\ ResetHour \in 0..DayLength - 1
ASSUME RequestAssumption ==
  Requests \subseteq [kind : {"b50", "records", "song"}, who : Player \cup {"username"},
                     explicit : {"diving_fish", "lxns", "local", "none"}]
ASSUME QualityAssumption == Qualities \subseteq 0..2
ASSUME BoundsAssumption == {MaxClock, MaxRating} \subseteq Nat
ASSUME BudgetAssumption ==
  Budgets \subseteq [{"ticks", "asks", "settings", "runs", "reads"} -> Nat]

VARIABLES
  clock,
  b50,    \* player_b50_cache, per player
  full,   \* marker, profile and records of the full scores, per player
  prefs,  \* score_source_preferences, per player
  token,  \* a developer token of Diving-Fish is bound
  query,  \* per asker, what its query is at
  budget  \* what is left of the bounds

stored == <<b50, full>>
settings == <<prefs, token>>
cacheVars == <<clock, b50, full, prefs, token, query, budget>>

-----------------------------------------------------------------------------
(* Time.                                                                   *)

Time == 0..MaxClock

(* daily_reset::latest: the reset that `now` lies behind. *)
Latest(now) ==
  LET reset == now - (now % DayLength) + ResetHour
  IN IF now < reset THEN reset - DayLength ELSE reset

Spend(what) ==
  /\ budget[what] > 0
  /\ budget' = [budget EXCEPT ![what] = @ - 1]

Tick ==
  /\ clock < MaxClock /\ Spend("ticks")
  /\ clock' = clock + 1
  /\ UNCHANGED <<stored, settings, query>>

-----------------------------------------------------------------------------
(* Values.                                                                 *)

Source    == {"diving_fish", "lxns", "local"}
Namespace == {"b50", "song"}
Worker    == Namespace \X Player
Asker     == Call \cup Worker
ASSUME CallAssumption == Call \cap Worker = {}
Lookup    == Player \cup {"username"}

None    == [stamp |-> -DayLength - 1]
B50     == [stamp : Time, seen : Time, quality : 0..2, rating : 0..MaxRating]
Record  == [chart : Chart, source : Source, stamp : Time, seen : Time]
Marker  == [source : Source, stamp : Time, count : Nat]
NoScores == [marker |-> None, profile |-> None.stamp, records |-> {}]

(* Where a query is. It is over as answered, unavailable (no data or no    *)
(* token), rejected (a status 400, 403, 404) or failed (anything else).    *)
Over == {"answered", "unavailable", "rejected", "failed"}
Pc   == {"idle", "source", "token", "fetch", "local", "store"} \cup Over
Kind == {"b50", "records", "song"}
NoQuery == [pc |-> "idle", kind |-> "b50", who |-> "username", now |-> 0, explicit |-> "none",
            source |-> "none", seen |-> 0, quality |-> 0, rating |-> 0, charts |-> {}]

CachesTypeOK ==
  /\ clock \in Time /\ token \in BOOLEAN
  /\ budget \in [{"ticks", "asks", "settings", "runs", "reads"} -> Nat]
  /\ b50 \in [Player -> B50 \cup {None}]
  /\ prefs \in [Player -> Source \cup {"none"}]
  /\ \A p \in Player :
       /\ full[p].marker \in Marker \cup {None}
       /\ full[p].profile \in Time \cup {None.stamp}
       /\ full[p].records \subseteq Record
  /\ \A a \in Asker :
       /\ query[a].pc \in Pc /\ query[a].kind \in Kind /\ query[a].who \in Lookup
       /\ query[a].now <= clock /\ query[a].seen <= clock
       /\ query[a].charts \subseteq Chart

CachesInit ==
  /\ clock = 0 /\ budget \in Budgets /\ token \in BOOLEAN
  /\ b50 = [p \in Player |-> None]
  /\ full = [p \in Player |-> NoScores]
  /\ prefs = [p \in Player |-> "none"]
  /\ query = [a \in Asker |-> NoQuery]

-----------------------------------------------------------------------------
(* The stores: each one transaction that starts with BEGIN IMMEDIATE.      *)

(* replace_player_b50_snapshot: a fresh entry stays if it is of higher     *)
(* quality, or of the same quality and rating.                             *)
KeepsB50(old, new) ==
  /\ old # None
  /\ old.stamp >= Latest(new.stamp)
  /\ \/ old.quality > new.quality
     \/ old.quality = new.quality /\ old.rating = new.rating

ReplaceB50(p, new) ==
  b50' = IF KeepsB50(b50[p], new) THEN b50 ELSE [b50 EXCEPT ![p] = new]

(* player_b50_snapshot, cached_diving_fish_b50: an entry that is fresh and *)
(* has a fit index.                                                        *)
B50Hit(p, fresh) == b50[p] # None /\ b50[p].stamp >= fresh /\ b50[p].quality = 2

(* Mutant: the marker's time is not looked at. *)
ReplaceAnyFull(p, source, stamp, records) ==
  full' = [full EXCEPT ![p] =
             [marker |-> [source |-> source, stamp |-> stamp, count |-> Cardinality(records)],
              profile |-> stamp, records |-> records]]

(* Mutant: the records of the snapshot before are not deleted. *)
ReplaceOnTop(p, source, stamp, records) ==
  full' = IF stamp < full[p].marker.stamp THEN full
          ELSE [full EXCEPT ![p] =
                  [marker |-> [source |-> source, stamp |-> stamp, count |-> Cardinality(records)],
                   profile |-> stamp,
                   records |-> records \cup
                     {r \in @.records : \A s \in records : s.chart # r.chart}]]

(* replace_player_score_snapshot: an older request is ignored, else        *)
(* profile, records and marker become this request's.                      *)
ReplaceFull(p, source, stamp, records) ==
  full' = IF stamp < full[p].marker.stamp THEN full
          ELSE [full EXCEPT ![p] =
                  [marker |-> [source |-> source, stamp |-> stamp, count |-> Cardinality(records)],
                   profile |-> stamp, records |-> records]]

(* full_score_snapshot, cached_full_scores: the marker is of this source   *)
(* and fresh, and profile and records are those it was written with.       *)
FullHit(p, source, fresh) ==
  LET is == full[p] IN
  /\ is.marker # None /\ is.marker.source = source /\ is.marker.stamp >= fresh
  /\ is.profile = is.marker.stamp /\ Cardinality(is.records) = is.marker.count
  /\ \A r \in is.records : r.source = source /\ r.stamp = is.marker.stamp

-----------------------------------------------------------------------------
(* A query.                                                                *)

Now(a, rec) == query' = [query EXCEPT ![a] = rec]
To(a, pc)   == Now(a, [query[a] EXCEPT !.pc = pc])
At(a, pc)   == query[a].pc = pc

(* A tool call asks; its `now` is read first. Only a QQ has a preference   *)
(* and takes an explicit source.                                           *)
Ask(c) ==
  /\ At(c, "idle") /\ Spend("asks")
  /\ \E r \in Requests :
       Now(c, [NoQuery EXCEPT !.pc = "source", !.kind = r.kind, !.who = r.who, !.now = clock,
                              !.explicit = r.explicit])
  /\ UNCHANGED <<clock, stored, settings>>

(* A worker's query: B50 or records of one member, from Diving-Fish, with  *)
(* the `now` of the refresh.                                               *)
WorkerQuery(w, now) ==
  [NoQuery EXCEPT !.pc = "source", !.kind = IF w[1] = "b50" THEN "b50" ELSE "records",
                  !.who = w[2], !.now = now, !.explicit = "diving_fish"]

(* select_source: a username means Diving-Fish; else the explicit source,  *)
(* the stored preference, Diving-Fish.                                     *)
SelectedSource(q) ==
  IF q.who = "username" THEN "diving_fish"
  ELSE IF q.explicit # "none" THEN q.explicit
  ELSE IF prefs[q.who] # "none" THEN prefs[q.who] ELSE "diving_fish"

Select(a) ==
  /\ At(a, "source")
  /\ LET source == SelectedSource(query[a])
         next == CASE source = "local" -> "local"
                   [] source = "diving_fish" /\ query[a].kind # "b50" -> "token"
                   [] OTHER -> "fetch"
     IN Now(a, [query[a] EXCEPT !.pc = next, !.source = source])
  /\ UNCHANGED <<clock, stored, settings, budget>>

(* resolve_df_credentials: those of the request, which only a call may     *)
(* have, or the bound developer token.                                     *)
ReadToken(a) ==
  /\ At(a, "token")
  /\ \/ a \in Call \/ token
     /\ To(a, "fetch")
  /\ UNCHANGED <<clock, stored, settings, budget>>

NoToken(a) ==
  /\ At(a, "token") /\ ~token
  /\ To(a, "unavailable")
  /\ UNCHANGED <<clock, stored, settings, budget>>

(* The provider answers with the scores as they are now, or with an error. *)
FetchB50(a) ==
  /\ At(a, "fetch") /\ query[a].kind = "b50"
  /\ \E quality \in Qualities, rating \in 0..MaxRating :
       IF rating = 0 /\ query[a].source = "diving_fish"
       THEN To(a, "unavailable")
       ELSE Now(a, [query[a] EXCEPT !.pc = "store", !.seen = clock, !.quality = quality,
                                    !.rating = rating])
  /\ UNCHANGED <<clock, stored, settings, budget>>

FetchRecords(a) ==
  /\ At(a, "fetch") /\ query[a].kind # "b50"
  /\ \E charts \in SUBSET Chart :
       Now(a, [query[a] EXCEPT !.pc = "store", !.seen = clock, !.charts = charts])
  /\ UNCHANGED <<clock, stored, settings, budget>>

FetchFails(a) ==
  /\ At(a, "fetch")
  /\ To(a, "rejected") \/ To(a, "failed")
  /\ UNCHANGED <<clock, stored, settings, budget>>

(* The stamp of what a query stores. *)
Stamp(a) == query[a].now

(* cache_diving_fish_b50_best_effort, persist_full_scores: B50 lists of    *)
(* Diving-Fish and full scores of a QQ are kept; LXNS answers to a song or *)
(* B50 query and answers for a username are not.                           *)
Keeps(q) ==
  /\ q.who \in Player
  /\ q.kind = "b50" \/ q.kind = "song" => q.source = "diving_fish"

Records(a) ==
  [chart : query[a].charts, source : {query[a].source}, stamp : {Stamp(a)}, seen : {query[a].seen}]

Store(a) ==
  /\ At(a, "store")
  /\ CASE ~Keeps(query[a]) -> UNCHANGED stored
       [] Keeps(query[a]) /\ query[a].kind = "b50" ->
            /\ ReplaceB50(query[a].who, [stamp |-> Stamp(a), seen |-> query[a].seen,
                                         quality |-> query[a].quality, rating |-> query[a].rating])
            /\ UNCHANGED full
       [] OTHER ->
            /\ ReplaceFull(query[a].who, query[a].source, Stamp(a), Records(a))
            /\ UNCHANGED b50
  /\ To(a, "answered")
  /\ UNCHANGED <<clock, settings, budget>>

(* The store fails: a B50 query answers all the same.                      *)
StoreFails(a) ==
  /\ At(a, "store") /\ Keeps(query[a])
  /\ To(a, IF query[a].kind = "b50" THEN "answered" ELSE "failed")
  /\ UNCHANGED <<clock, stored, settings, budget>>

(* local_scores: the records as stored, of whatever source and age.        *)
AnswerLocal(a) ==
  /\ At(a, "local")
  /\ To(a, IF query[a].who \in Player /\ full[query[a].who].records # {}
           THEN "answered" ELSE "unavailable")
  /\ UNCHANGED <<clock, stored, settings, budget>>

Leave(c) ==
  /\ query[c].pc \in Over
  /\ Now(c, NoQuery)
  /\ UNCHANGED <<clock, stored, settings, budget>>

QueryStep(a) ==
  \/ Select(a) \/ ReadToken(a) \/ NoToken(a)
  \/ FetchB50(a) \/ FetchRecords(a) \/ FetchFails(a)
  \/ Store(a) \/ StoreFails(a) \/ AnswerLocal(a)

-----------------------------------------------------------------------------
(* Settings: one statement each.                                           *)

SwitchSource(p, source) ==
  /\ Spend("settings")
  /\ prefs' = [prefs EXCEPT ![p] = source]
  /\ UNCHANGED <<clock, stored, token, query>>

BindToken ==
  /\ Spend("settings")
  /\ token' = TRUE
  /\ UNCHANGED <<clock, stored, prefs, query>>

ClearToken ==
  /\ Spend("settings")
  /\ token' = FALSE
  /\ UNCHANGED <<clock, stored, prefs, query>>

CachesNext ==
  \/ Tick
  \/ \E c \in Call : Ask(c) \/ Leave(c)
  \/ \E a \in Asker : QueryStep(a)
  \/ \E p \in Player, source \in Source : SwitchSource(p, source)
  \/ BindToken \/ ClearToken

-----------------------------------------------------------------------------
(* Properties.                                                             *)

(* The full scores are what exactly one request wrote: all records of one  *)
(* source and one answer of the provider, as many as the marker says, so   *)
(* that the check of full_score_snapshot never throws away fresh data.     *)
FullScoresWhole ==
  \A p \in Player :
    /\ Cardinality({r.seen : r \in full[p].records}) <= 1
    /\ full[p].marker # None => FullHit(p, full[p].marker.source, full[p].marker.stamp)

(* Full scores of a player never go back to an earlier request. *)
FullNeverGoesBack ==
  [][\A p \in Player : full'[p].marker.stamp >= full[p].marker.stamp]_cacheVars

=============================================================================
