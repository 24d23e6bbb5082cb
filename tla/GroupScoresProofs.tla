--------------------------- MODULE GroupScoresProofs ---------------------------
(***************************************************************************)
(* ScoreCaches and GroupScores for any players, calls, days and bounds:    *)
(* the stored full scores are one request's and never go back, a ranking   *)
(* accounts for every member of its refresh, and a report that is read in  *)
(* several statements is one snapshot.                                     *)
(***************************************************************************)
EXTENDS GroupScores, FiniteSetTheorems, TLAPS

-----------------------------------------------------------------------------
(* The inductive invariant.                                                *)

SourceOrNone == Source \cup {"none"}
Query    == [pc : Pc, kind : Kind, who : Lookup, now : Time, explicit : SourceOrNone,
             source : SourceOrNone, seen : Time, quality : 0..2, rating : 0..MaxRating,
             charts : SUBSET Chart]
RunRecord == [pc : {"none", "caches", "joining", "spawning"}, gen : Nat, started : Time,
              members : SUBSET Player, todo : SUBSET Player, pending : SUBSET Player,
              live : SUBSET Player, entries : SUBSET Entry, skipped : Nat, processed : Nat]
Snapshot == [gen : Nat \ {0}, ns : Namespace, fetched : Time, started : Time,
             entries : SUBSET Entry, members : Nat, success : Nat, skipped : Nat, hits : Nat]
Row      == [qq : Player, seen : Time, gen : Nat]
Line     == [qq : Player, from : SUBSET Row, charts : BOOLEAN]
Names    == {"members", "charts", "entries", "fit"}
Report   == [pc : {"idle", "read", "report", "absent", "invalid"}, ns : Namespace, at : Nat,
             gen : Nat, got : [Names -> SUBSET Row], report : SUBSET Line]

CachesTyped ==
  /\ clock \in Time /\ token \in BOOLEAN /\ prefs \in [Player -> SourceOrNone]
  /\ budget \in [{"ticks", "asks", "settings", "runs", "reads"} -> Nat]
  /\ b50 \in [Player -> B50 \cup {None}] /\ query \in [Asker -> Query]
GroupTyped ==
  /\ run \in [Namespace -> RunRecord] /\ published \subseteq Snapshot
  /\ ranking \in [Namespace -> published \cup {NoRanking}]
  /\ reader \in [Reader -> Report]

(* A query knows no scores from before its request, unless it was answered *)
(* from the local store, which is never asked for a worker.                *)
Sound(q) ==
  /\ q.now <= clock /\ q.seen <= clock
  /\ q.pc \notin {"idle", "source"} => q.source \in Source
  /\ q.pc = "store" => q.now <= q.seen
  /\ q.explicit = "diving_fish" => q.pc # "local" /\ (q.pc = "answered" => q.now <= q.seen)

B50Inv(p) == b50[p] # None => b50[p].stamp <= b50[p].seen

(* All of the full scores were written by one request.                     *)
Whole(is) ==
  /\ is.marker \in Marker /\ is.profile = is.marker.stamp
  /\ is.records \subseteq Record /\ IsFiniteSet(is.records)
  /\ is.marker.count = Cardinality(is.records)
  /\ \A r \in is.records : r.source = is.marker.source /\ r.stamp = is.marker.stamp /\ r.stamp <= r.seen
  /\ \A r, s \in is.records : r.seen = s.seen
FullInv ==
  /\ full = [p \in Player |-> full[p]]
  /\ \A p \in Player : full[p] = NoScores \/ Whole(full[p])

(* The members of a refresh are still to be looked for, wait for a worker, *)
(* have one, are entries, or were skipped, and each only one of these.     *)
Counted(r) ==
  /\ r.todo \cap r.pending = {} /\ r.todo \cap r.live = {} /\ r.pending \cap r.live = {}
  /\ QQs(r.entries) \cap (r.todo \cup r.pending \cup r.live) = {}
  /\ Cardinality(r.members) = Cardinality(r.todo) + Cardinality(r.pending) + Cardinality(r.live)
                              + Cardinality(r.entries) + r.skipped
(* A refresh that joins its workers has one, or nobody is left.            *)
RunOk(r) ==
  /\ r.started <= clock
  /\ r.pc # "none" => /\ r.gen # 0 /\ Counted(r) /\ IsFiniteSet(r.entries)
                      /\ \A e \in r.entries : Latest(r.started) <= e.seen
  /\ r.pc \in {"none", "caches"} => r.live = {}
  /\ r.pc \in {"joining", "spawning"} => r.todo = {}
  /\ r.pc = "joining" => r.pending = {} \/ r.live # {}
  /\ Cardinality(r.live) <= AtOnce
  /\ r.pc = "spawning" => Cardinality(r.live) < AtOnce
(* A worker asks what its refresh asks.                                    *)
Asks(q, r)  == q.explicit = "diving_fish" /\ q.now = r.started
Manned(ns) ==
  run[ns].pc # "none" => \A p \in run[ns].live : Asks(query[<<ns, p>>], run[ns])

(* Snapshots are published once per generation, by a refresh that is over. *)
PublishedInv ==
  /\ \A s \in published :
       /\ s.gen <= run[s.ns].gen /\ (s.gen = run[s.ns].gen => run[s.ns].pc = "none")
       /\ s.success + s.skipped = s.members /\ s.hits <= s.success
       /\ \A e \in s.entries : Latest(s.started) <= e.seen
  /\ \A s, t \in published : s.ns = t.ns /\ s.gen = t.gen => s = t
  /\ \A ns \in Namespace : ranking[ns] # NoRanking => ranking[ns].ns = ns

(* What a report has read of snapshot s: the rows of each statement, all   *)
(* or none, none only once s is gone, and then none in the statements      *)
(* after.                                                                  *)
RowsOf(s) == {[qq |-> e.qq, seen |-> e.seen, gen |-> s.gen] : e \in s.entries}
ReadOf(rd, s) ==
  LET st == Statements(rd.ns) IN
  /\ s.ns = rd.ns /\ s.gen = rd.gen
  /\ \A i \in 1..Len(st) : i < rd.at => rd.got[st[i]] \in {{}, RowsOf(s)}
  /\ \A i, j \in 1..Len(st) : i < j /\ j < rd.at /\ rd.got[st[j]] # {} => rd.got[st[i]] = RowsOf(s)
  /\ ranking[rd.ns] = s => \A i \in 1..Len(st) : i < rd.at => rd.got[st[i]] = RowsOf(s)
  /\ \A n \in Names : (\A i \in 1..Len(st) : i < rd.at => st[i] # n) => rd.got[n] = {}
ReaderInv(r) == reader[r].pc = "read" => reader[r].at # 0 /\ \E s \in published : ReadOf(reader[r], s)

CachesInv ==
  /\ CachesTyped /\ \A a \in Asker : Sound(query[a])
  /\ (\A p \in Player : B50Inv(p)) /\ FullInv
GroupInv ==
  /\ GroupTyped /\ (\A ns \in Namespace : RunOk(run[ns]) /\ Manned(ns)) /\ PublishedInv
  /\ (\A r \in Reader : ReaderInv(r)) /\ ReportIsOneSnapshot
IInv == CachesInv /\ GroupInv

-----------------------------------------------------------------------------
(* Values.                                                                 *)

(* Times count; a day's reset before an instant is not after it.           *)
LEMMA Times ==
  /\ Time \subseteq Nat /\ 0 \in Time /\ None.stamp \in Int /\ None.stamp < 0
  /\ \A n \in Nat : Latest(n) \in Int /\ Latest(n) <= n
<1>1. Time \subseteq Nat /\ 0 \in Time /\ DayLength \in Nat \ {0} /\ ResetHour \in 0..DayLength - 1
  BY BoundsAssumption, DayAssumption DEF Time
<1>2. ASSUME NEW n \in Nat PROVE Latest(n) \in Int /\ Latest(n) <= n
  <2>1. n % DayLength \in 0..DayLength - 1
    BY <1>1
  <2> DEFINE reset == n - (n % DayLength) + ResetHour
  <2>2. reset \in Int /\ reset - DayLength <= n
    BY <1>1, <2>1
  <2>3. Latest(n) = IF n < reset THEN reset - DayLength ELSE reset
    BY DEF Latest
  <2> HIDE DEF reset
  <2>4. QED
    BY <1>1, <2>2, <2>3
<1>3. QED
  BY <1>1, <1>2 DEF None

(* An empty query is a query, and the query of a worker is one.             *)
LEMMA Queries ==
  /\ NoQuery \in Query /\ NoQuery.pc = "idle" /\ NoQuery.now = 0 /\ NoQuery.seen = 0
  /\ NoQuery.explicit = "none"
  /\ Worker \subseteq Asker /\ Call \subseteq Asker /\ Call \cap Worker = {}
  /\ \A w \in Worker, now \in Time :
       /\ WorkerQuery(w, now) \in Query /\ WorkerQuery(w, now).now = now
       /\ WorkerQuery(w, now).seen = 0 /\ WorkerQuery(w, now).pc = "source"
       /\ WorkerQuery(w, now).explicit = "diving_fish"
<1>1. {"idle", "source"} \subseteq Pc /\ Kind = {"b50", "records", "song"}
      /\ SourceOrNone = {"diving_fish", "lxns", "local", "none"} /\ "username" \in Lookup
      /\ Player \subseteq Lookup /\ 0 \in Time /\ 0 \in 0..MaxRating /\ {} \in SUBSET Chart
  BY Times, BoundsAssumption DEF Pc, Over, Kind, SourceOrNone, Source, Lookup
<1>2. NoQuery \in Query
  BY <1>1 DEF NoQuery, Query
<1>3. ASSUME NEW w \in Worker, NEW now \in Time
      PROVE  /\ WorkerQuery(w, now) \in Query /\ WorkerQuery(w, now).now = now
             /\ WorkerQuery(w, now).seen = 0 /\ WorkerQuery(w, now).pc = "source"
             /\ WorkerQuery(w, now).explicit = "diving_fish"
  <2>1. w[2] \in Lookup
    BY <1>1, <1>3 DEF Worker
  <2> DEFINE kind == IF w[1] = "b50" THEN "b50" ELSE "records"
  <2>2. kind \in Kind /\ "source" \in Pc /\ "diving_fish" \in SourceOrNone
    BY <1>1
  <2>3. WorkerQuery(w, now) = [NoQuery EXCEPT !.pc = "source", !.kind = kind, !.who = w[2], !.now = now,
                                              !.explicit = "diving_fish"]
    BY DEF WorkerQuery
  <2> HIDE DEF kind
  <2>4. QED
    BY <1>2, <2>1, <2>2, <2>3 DEF NoQuery, Query
<1>4. QED
  BY <1>2, <1>3, CallAssumption DEF NoQuery, Asker

-----------------------------------------------------------------------------
(* A query.                                                                *)

(* What a step of a query leaves of its request, and what it may learn.    *)
Follows(q, u) == u \in Query /\ u.now = q.now /\ u.explicit = q.explicit /\ Sound(u)

(* Every step of a query moves it on and keeps it sound.                   *)
LEMMA QueryMoves ==
  ASSUME CachesInv, NEW a \in Asker, QueryStep(a)
  PROVE  /\ \E u \in Query : Now(a, u) /\ Follows(query[a], u)
         /\ UNCHANGED <<clock, prefs, token, budget>>
<1> DEFINE q == query[a]
<1>t. q \in Query /\ Sound(q) /\ clock \in Time /\ prefs \in [Player -> SourceOrNone]
  BY DEF CachesInv, CachesTyped
<1>p. {"source", "token", "fetch", "local", "store", "answered", "unavailable", "rejected", "failed"} \subseteq Pc
  BY DEF Pc, Over
<1>u. UNCHANGED <<clock, prefs, token, budget>>
  BY DEF QueryStep, Select, ReadToken, NoToken, FetchB50, FetchRecords, FetchFails, Store, StoreFails,
         AnswerLocal, settings, stored
(* Most steps go to another place. *)
<1>1. ASSUME NEW pc \in Pc, To(a, pc), q.pc \notin {"idle", "source"}, pc \notin {"idle", "source", "store", "local"},
             pc = "answered" => q.pc \in {"store", "local"}
      PROVE  \E u \in Query : Now(a, u) /\ Follows(q, u)
  <2> DEFINE u == [q EXCEPT !.pc = pc]
  <2>1. u \in Query /\ u.pc = pc /\ u.now = q.now /\ u.explicit = q.explicit /\ u.seen = q.seen /\ u.source = q.source
    BY <1>t DEF Query
  <2>2. Sound(u)
    BY <1>t, <1>1, <2>1 DEF Sound
  <2>3. Now(a, u)
    BY <1>1 DEF To
  <2>4. QED
    BY <2>1, <2>2, <2>3 DEF Follows
<1>2. CASE Select(a)
  <2> DEFINE source == SelectedSource(q)
             next == CASE source = "local" -> "local"
                       [] source = "diving_fish" /\ q.kind # "b50" -> "token"
                       [] OTHER -> "fetch"
             u == [q EXCEPT !.pc = next, !.source = source]
  <2>1. source \in Source /\ (q.explicit = "diving_fish" => source = "diving_fish")
    <3>1. /\ q.who \in Player \/ q.who = "username"
          /\ q.explicit \in {"diving_fish", "lxns", "local", "none"}
          /\ \A p \in Player : prefs[p] \in {"diving_fish", "lxns", "local", "none"}
      BY <1>t DEF Query, Lookup, SourceOrNone, Source
    <3>2. QED
      BY <3>1 DEF SelectedSource, Source
  <2>2. next \in {"local", "token", "fetch"} /\ (next = "local" => source = "local")
    BY <2>1 DEF Source
  <2>3. Now(a, u)
    BY <1>2 DEF Select
  <2> HIDE DEF next, source
  <2>4. u \in Query /\ u.pc = next /\ u.now = q.now /\ u.explicit = q.explicit /\ u.seen = q.seen /\ u.source = source
    BY <1>t, <1>p, <2>1, <2>2 DEF Query, SourceOrNone
  <2>5. Sound(u)
    BY <1>t, <2>1, <2>2, <2>4 DEF Sound
  <2>6. QED
    BY <1>u, <2>3, <2>4, <2>5 DEF Follows
<1>3. CASE ReadToken(a) \/ NoToken(a) \/ FetchFails(a) \/ StoreFails(a) \/ AnswerLocal(a) \/ Store(a)
  <2>1. PICK pc \in {"fetch", "unavailable", "rejected", "failed", "answered"} :
          /\ To(a, pc) /\ q.pc \in {"token", "fetch", "store", "local"}
          /\ pc = "answered" => q.pc \in {"store", "local"}
    BY <1>3 DEF ReadToken, NoToken, FetchFails, StoreFails, AnswerLocal, Store, At
  <2>2. QED
    BY <1>p, <1>u, <1>1, <2>1
<1>4. CASE FetchB50(a) \/ FetchRecords(a)
  <2>1. CASE To(a, "unavailable") /\ q.pc = "fetch"
    BY <1>p, <1>u, <1>1, <2>1
  <2>2. ASSUME NEW u \in Query, Now(a, u), u.pc = "store", u.seen = clock, u.now = q.now, u.explicit = q.explicit,
               u.source = q.source, q.pc = "fetch"
        PROVE  \E v \in Query : Now(a, v) /\ Follows(q, v)
    <3>1. Sound(u)
      BY <1>t, <2>2, Times DEF Sound
    <3>2. QED
      BY <2>2, <3>1 DEF Follows
  <2>3. CASE FetchRecords(a)
    <3>1. PICK charts \in SUBSET Chart : Now(a, [q EXCEPT !.pc = "store", !.seen = clock, !.charts = charts])
      BY <2>3 DEF FetchRecords
    <3> DEFINE u == [q EXCEPT !.pc = "store", !.seen = clock, !.charts = charts]
    <3>2. /\ u \in Query /\ u.pc = "store" /\ u.seen = clock /\ u.now = q.now /\ u.explicit = q.explicit
          /\ u.source = q.source
      BY <1>t, <1>p DEF Query
    <3>3. q.pc = "fetch"
      BY <2>3 DEF FetchRecords, At
    <3>4. QED
      BY <1>u, <2>2, <3>1, <3>2, <3>3
  <2>4. CASE FetchB50(a)
    <3>1. q.pc = "fetch"
      BY <2>4 DEF FetchB50, At
    <3>2. ASSUME NEW quality \in Qualities, NEW rating \in 0..MaxRating,
                 Now(a, [q EXCEPT !.pc = "store", !.seen = clock, !.quality = quality, !.rating = rating])
          PROVE  \E v \in Query : Now(a, v) /\ Follows(q, v)
      <4> DEFINE u == [q EXCEPT !.pc = "store", !.seen = clock, !.quality = quality, !.rating = rating]
      <4>1. /\ u \in Query /\ u.pc = "store" /\ u.seen = clock /\ u.now = q.now /\ u.explicit = q.explicit
            /\ u.source = q.source
        BY <1>t, <1>p, QualityAssumption DEF Query
      <4>2. QED
        BY <2>2, <3>1, <3>2, <4>1
    <3>3. QED
      BY <1>u, <2>1, <2>4, <3>1, <3>2 DEF FetchB50
  <2>5. QED
    BY <1>4, <2>3, <2>4
<1>5. QED
  BY <1>2, <1>3, <1>4 DEF QueryStep

(* The clock moves on: sound queries stay sound.                           *)
LEMMA SoundStays ==
  ASSUME NEW q \in Query, Sound(q), clock \in Time, clock' \in Time, clock <= clock'
  PROVE  (Sound(q))'
<1>1. {q.now, q.seen, clock, clock'} \subseteq Nat
  BY Times DEF Query
<1>2. QED
  BY <1>1 DEF Sound

-----------------------------------------------------------------------------
(* What is stored.                                                         *)

(* A B50 that is stored is of its request or later.                        *)
LEMMA StoreB50 ==
  ASSUME b50 \in [Player -> B50 \cup {None}], \A p \in Player : B50Inv(p),
         NEW p \in Player, NEW new \in B50, new.stamp <= new.seen, ReplaceB50(p, new)
  PROVE  b50' \in [Player -> B50 \cup {None}] /\ \A o \in Player : (B50Inv(o))'
  BY DEF ReplaceB50, B50Inv

(* The records of an answer are of one source, request and instant.         *)
LEMMA RecordsOfOne ==
  ASSUME NEW a \in Asker, query[a] \in Query, Sound(query[a]), query[a].pc = "store"
  PROVE  /\ Records(a) \subseteq Record /\ IsFiniteSet(Records(a))
         /\ \A r \in Records(a) : /\ r.source = query[a].source /\ r.stamp = query[a].now
                                  /\ r.seen = query[a].seen /\ r.stamp <= r.seen
<1> DEFINE q == query[a]
           of(c) == [chart |-> c, source |-> q.source, stamp |-> q.now, seen |-> q.seen]
           f == [c \in q.charts |-> of(c)]
<1>1. q.charts \subseteq Chart /\ q.source \in Source /\ q.now \in Time /\ q.seen \in Time /\ q.now <= q.seen
  BY DEF Query, Sound
<1>2. Records(a) = {of(c) : c \in q.charts}
  <2>1. ASSUME NEW r \in Records(a) PROVE r.chart \in q.charts /\ r = of(r.chart)
    BY <2>1 DEF Records, Stamp
  <2>2. ASSUME NEW c \in q.charts PROVE of(c) \in Records(a)
    BY <2>2 DEF Records, Stamp
  <2> HIDE DEF of
  <2>3. QED
    BY <2>1, <2>2
<1>3. Records(a) \subseteq Record
  BY <1>1, <1>2 DEF Record
<1>4. f \in Surjection(q.charts, Records(a))
  BY <1>2 DEF Surjection
<1>5. IsFiniteSet(q.charts)
  BY <1>1, ChartAssumption, FS_Subset
<1>6. IsFiniteSet(Records(a))
  BY <1>4, <1>5, FS_Surjection
<1>7. \A r \in Records(a) : r.source = q.source /\ r.stamp = q.now /\ r.seen = q.seen /\ r.stamp <= r.seen
  BY <1>1, <1>2
<1>8. QED
  BY <1>3, <1>6, <1>7

(* Full scores that are replaced are whole, and not of an earlier request.  *)
LEMMA StoreFull ==
  ASSUME FullInv, NEW a \in Asker, query[a] \in Query, Sound(query[a]), query[a].pc = "store",
         NEW p \in Player, ReplaceFull(p, query[a].source, Stamp(a), Records(a))
  PROVE  FullInv' /\ \A o \in Player : full'[o].marker.stamp >= full[o].marker.stamp
<1> DEFINE R == Records(a)
           new == [marker |-> [source |-> query[a].source, stamp |-> query[a].now, count |-> Cardinality(R)],
                   profile |-> query[a].now, records |-> R]
<1>1. /\ R \subseteq Record /\ IsFiniteSet(R)
      /\ \A r \in R : /\ r.source = query[a].source /\ r.stamp = query[a].now
                      /\ r.seen = query[a].seen /\ r.stamp <= r.seen
  BY RecordsOfOne
<1>2. Cardinality(R) \in Nat
  BY <1>1, FS_CardinalityType
<1>3. query[a].source \in Source /\ query[a].now \in Time
  BY DEF Sound, Query
<1>s. \A o \in Player : full[o].marker.stamp \in Int
  BY Times DEF FullInv, Whole, NoScores, Marker
<1>4. Whole(new)
  BY <1>1, <1>2, <1>3 DEF Whole, Marker
<1>5. full' = IF query[a].now < full[p].marker.stamp THEN full ELSE [full EXCEPT ![p] = new]
  BY DEF ReplaceFull, Stamp
<1>n. new.marker.stamp = query[a].now
  OBVIOUS
<1> HIDE DEF new
<1>6. CASE full' = full
  BY <1>6, <1>s DEF FullInv
<1>7. CASE full' = [full EXCEPT ![p] = new] /\ ~(query[a].now < full[p].marker.stamp)
  <2>1. full'[p] = new /\ \A o \in Player \ {p} : full'[o] = full[o]
    BY <1>7 DEF FullInv
  <2>2. full' = [o \in Player |-> full'[o]]
    BY <1>7 DEF FullInv
  <2>3. \A o \in Player : full'[o] = NoScores \/ Whole(full'[o])
    BY <1>4, <2>1 DEF FullInv
  <2>4. query[a].now >= full[p].marker.stamp
    <3>1. query[a].now \in Int
      BY <1>3, BoundsAssumption DEF Time
    <3>3. full[p].marker.stamp \in Int
      BY <1>s
    <3>2. QED
      BY <1>7, <3>1, <3>3
  <2>5. \A o \in Player : full'[o].marker.stamp >= full[o].marker.stamp
    BY <1>s, <1>n, <2>1, <2>4
  <2>6. QED
    BY <2>2, <2>3, <2>5 DEF FullInv
<1>8. QED
  BY <1>5, <1>6, <1>7

(* No step of a query lets the full scores of a player go back, and every   *)
(* step keeps what is stored.                                               *)
LEMMA StoresKept ==
  ASSUME CachesInv, NEW a \in Asker, QueryStep(a)
  PROVE  /\ b50' \in [Player -> B50 \cup {None}] /\ \A p \in Player : (B50Inv(p))'
         /\ FullInv' /\ \A p \in Player : full'[p].marker.stamp >= full[p].marker.stamp
<1> DEFINE q == query[a]
<1>t. /\ q \in Query /\ Sound(q) /\ b50 \in [Player -> B50 \cup {None}] /\ FullInv
      /\ \A p \in Player : B50Inv(p)
  BY DEF CachesInv, CachesTyped
<1>s. \A o \in Player : full[o].marker.stamp \in Int
  BY <1>t, Times DEF FullInv, Whole, NoScores, Marker
<1>1. CASE UNCHANGED stored
  BY <1>1, <1>t, <1>s DEF stored, FullInv, B50Inv
<1>2. CASE Store(a) /\ Keeps(q)
  <2>1. q.pc = "store" /\ q.who \in Player
    BY <1>2 DEF Store, At, Keeps
  <2>2. CASE q.kind = "b50"
    <3> DEFINE new == [stamp |-> Stamp(a), seen |-> q.seen, quality |-> q.quality, rating |-> q.rating]
    <3>1. ReplaceB50(q.who, new) /\ UNCHANGED full
      BY <1>2, <2>2 DEF Store
    <3>2. new \in B50 /\ new.stamp <= new.seen
      BY <1>t, <2>1 DEF Stamp, B50, Query, Sound
    <3> HIDE DEF new
    <3>3. b50' \in [Player -> B50 \cup {None}] /\ \A o \in Player : (B50Inv(o))'
      BY <1>t, <2>1, <3>1, <3>2, StoreB50
    <3>4. QED
      BY <1>t, <1>s, <3>1, <3>3 DEF FullInv
  <2>3. CASE q.kind # "b50"
    <3>1. ReplaceFull(q.who, q.source, Stamp(a), Records(a)) /\ UNCHANGED b50
      BY <1>2, <2>3 DEF Store
    <3>2. QED
      BY <1>t, <2>1, <3>1, StoreFull DEF B50Inv
  <2>4. QED
    BY <2>2, <2>3
<1>3. QED
  BY <1>1, <1>2 DEF QueryStep, Select, ReadToken, NoToken, FetchB50, FetchRecords, FetchFails, Store, StoreFails,
         AnswerLocal

-----------------------------------------------------------------------------
(* The caches.                                                             *)

(* A spent budget is a budget.                                             *)
LEMMA Spends ==
  ASSUME budget \in [{"ticks", "asks", "settings", "runs", "reads"} -> Nat],
         NEW what \in {"ticks", "asks", "settings", "runs", "reads"}, Spend(what)
  PROVE  budget' \in [{"ticks", "asks", "settings", "runs", "reads"} -> Nat]
  BY DEF Spend

(* One asker's query is another sound one.                                 *)
LEMMA NowKeeps ==
  ASSUME query \in [Asker -> Query], \A a \in Asker : Sound(query[a]),
         NEW a \in Asker, NEW u \in Query, Now(a, u), Sound(u), clock' = clock
  PROVE  /\ query' \in [Asker -> Query] /\ \A b \in Asker : (Sound(query[b]))'
         /\ query'[a] = u /\ \A b \in Asker \ {a} : query'[b] = query[b]
<1>1. /\ query' \in [Asker -> Query] /\ query'[a] = u
      /\ \A b \in Asker \ {a} : query'[b] = query[b]
  BY DEF Now
<1>2. QED
  BY <1>1 DEF Sound

(* What every step promises of the caches and of the workers' requests.    *)
CachesKept ==
  /\ CachesInv' /\ clock <= clock'
  /\ \A p \in Player : full'[p].marker.stamp >= full[p].marker.stamp
(* What the steps of the caches leave to the refreshes.                    *)
WorkersKept ==
  \A w \in Worker : query'[w].now = query[w].now /\ query'[w].explicit = query[w].explicit

(* The steps of the caches, of calls and workers and of settings, keep      *)
(* everything and change no worker's request.                               *)
LEMMA CachesStep ==
  ASSUME CachesInv, CachesNext
  PROVE  CachesKept /\ WorkersKept
<1>t. CachesTyped /\ (\A a \in Asker : Sound(query[a])) /\ (\A p \in Player : B50Inv(p)) /\ FullInv
  BY DEF CachesInv
<1>s. \A o \in Player : full[o].marker.stamp \in Int
  BY <1>t, Times DEF FullInv, Whole, NoScores, Marker
<1>c. clock \in Nat
  BY <1>t, BoundsAssumption DEF CachesTyped, Time
<1>1. ASSUME UNCHANGED stored
      PROVE  /\ b50' \in [Player -> B50 \cup {None}] /\ FullInv' /\ \A p \in Player : (B50Inv(p))'
             /\ \A p \in Player : full'[p].marker.stamp >= full[p].marker.stamp
  BY <1>1, <1>t, <1>s DEF stored, FullInv, B50Inv, CachesTyped
<1>2. CASE Tick
  <2>1. UNCHANGED <<stored, settings, query>> /\ clock' = clock + 1 /\ clock < MaxClock
    BY <1>2 DEF Tick
  <2>2. clock' \in Time /\ clock <= clock'
    BY <1>c, <2>1, BoundsAssumption DEF Time
  <2>3. \A a \in Asker : (Sound(query[a]))'
    <3>1. SUFFICES ASSUME NEW a \in Asker PROVE (Sound(query[a]))'
      OBVIOUS
    <3>2. {query[a].now, query[a].seen} \subseteq Nat /\ Sound(query[a]) /\ query' = query
      BY <1>t, <2>1, <3>1, BoundsAssumption DEF CachesTyped, Query, Time
    <3>3. QED
      BY <1>c, <2>1, <3>2 DEF Sound
  <2>4. budget' \in [{"ticks", "asks", "settings", "runs", "reads"} -> Nat]
    BY <1>2, <1>t, Spends DEF Tick, CachesTyped
  <2>5. QED
    BY <1>t, <1>1, <2>1, <2>2, <2>3, <2>4 DEF CachesKept, WorkersKept, CachesInv, CachesTyped, settings
<1>3. ASSUME NEW c \in Call, Ask(c) \/ Leave(c) PROVE CachesKept /\ WorkersKept
  <2>1. UNCHANGED <<clock, stored, settings>>
    BY <1>3 DEF Ask, Leave
  <2>2. PICK u \in Query : Now(c, u) /\ Sound(u)
    <3>1. CASE Leave(c)
      BY <3>1, <1>c, Queries DEF Leave, Sound
    <3>2. CASE Ask(c)
      <4>1. PICK r \in Requests :
              Now(c, [NoQuery EXCEPT !.pc = "source", !.kind = r.kind, !.who = r.who, !.now = clock,
                                     !.explicit = r.explicit])
        BY <3>2 DEF Ask
      <4> DEFINE u == [NoQuery EXCEPT !.pc = "source", !.kind = r.kind, !.who = r.who, !.now = clock,
                                      !.explicit = r.explicit]
      <4>2. r.kind \in Kind /\ r.who \in Lookup /\ r.explicit \in SourceOrNone /\ "source" \in Pc
        BY RequestAssumption DEF Kind, Lookup, SourceOrNone, Source, Pc
      <4>3. u \in Query /\ u.pc = "source" /\ u.now = clock /\ u.seen = 0
        BY <1>t, <4>2, Queries DEF Query, CachesTyped
      <4>4. Sound(u)
        BY <1>c, <4>3 DEF Sound
      <4>5. QED
        BY <4>1, <4>3, <4>4
    <3>3. QED
      BY <1>3, <3>1, <3>2
  <2>3. /\ query' \in [Asker -> Query] /\ \A b \in Asker : (Sound(query[b]))'
        /\ \A b \in Asker \ {c} : query'[b] = query[b]
    BY <1>t, <2>1, <2>2, NowKeeps, Queries DEF CachesTyped
  <2>4. budget' \in [{"ticks", "asks", "settings", "runs", "reads"} -> Nat]
    BY <1>3, <1>t, Spends DEF Ask, Leave, CachesTyped
  <2>5. WorkersKept
    BY <2>3, Queries DEF WorkersKept
  <2>6. QED
    BY <1>t, <1>c, <1>1, <2>1, <2>3, <2>4, <2>5 DEF CachesKept, CachesInv, CachesTyped, settings
<1>4. ASSUME NEW a \in Asker, QueryStep(a) PROVE CachesKept /\ WorkersKept
  <2>1. PICK u \in Query : Now(a, u) /\ Follows(query[a], u)
    BY <1>4, QueryMoves
  <2>2. UNCHANGED <<clock, prefs, token, budget>>
    BY <1>4, QueryMoves
  <2>3. /\ query' \in [Asker -> Query] /\ \A b \in Asker : (Sound(query[b]))'
        /\ query'[a] = u /\ \A b \in Asker \ {a} : query'[b] = query[b]
    BY <1>t, <2>1, <2>2, NowKeeps DEF CachesTyped, Follows
  <2>4. WorkersKept
    BY <2>1, <2>3, Queries DEF WorkersKept, Follows
  <2>5. QED
    BY <1>t, <1>c, <1>4, <2>2, <2>3, <2>4, StoresKept DEF CachesKept, CachesInv, CachesTyped
<1>5. CASE (\E p \in Player, source \in Source : SwitchSource(p, source)) \/ BindToken \/ ClearToken
  <2>1. UNCHANGED <<clock, stored, query>> /\ Spend("settings")
    BY <1>5 DEF SwitchSource, BindToken, ClearToken
  <2>2. token' \in BOOLEAN /\ prefs' \in [Player -> SourceOrNone]
    BY <1>5, <1>t DEF SwitchSource, BindToken, ClearToken, CachesTyped, SourceOrNone
  <2>3. \A b \in Asker : (Sound(query[b]))'
    BY <1>t, <2>1 DEF Sound
  <2>4. budget' \in [{"ticks", "asks", "settings", "runs", "reads"} -> Nat]
    BY <1>t, <2>1, Spends DEF CachesTyped
  <2>5. QED
    BY <1>t, <1>c, <1>1, <2>1, <2>2, <2>3, <2>4 DEF CachesKept, WorkersKept, CachesInv, CachesTyped
<1>6. QED
  BY <1>2, <1>3, <1>4, <1>5 DEF CachesNext

-----------------------------------------------------------------------------
(* Counting members.                                                       *)

(* Sets of players are finite, and so are their counts.                     *)
LEMMA PlayersCount ==
  /\ \A S \in SUBSET Player : IsFiniteSet(S) /\ Cardinality(S) \in Nat
  /\ \A S \in SUBSET Player, p \in Player :
       /\ p \in S => Cardinality(S) # 0 /\ Cardinality(S \ {p}) = Cardinality(S) - 1
       /\ p \notin S => Cardinality(S \cup {p}) = Cardinality(S) + 1
  /\ Cardinality({}) = 0
<1>1. \A S \in SUBSET Player : IsFiniteSet(S) /\ Cardinality(S) \in Nat
  BY PlayerAssumption, FS_Subset, FS_CardinalityType
<1>2. ASSUME NEW S \in SUBSET Player, NEW p \in Player
      PROVE  /\ p \in S => Cardinality(S) # 0 /\ Cardinality(S \ {p}) = Cardinality(S) - 1
             /\ p \notin S => Cardinality(S \cup {p}) = Cardinality(S) + 1
  <2>1. IsFiniteSet(S)
    BY <1>1
  <2>2. QED
    BY <2>1, FS_EmptySet, FS_RemoveElement, FS_AddElement
<1>3. QED
  BY <1>1, <1>2, FS_EmptySet

(* Another entry is counted, and entries have a number.                     *)
LEMMA EntriesCount ==
  /\ \A S : IsFiniteSet(S) => Cardinality(S) \in Nat
  /\ \A S, e : IsFiniteSet(S) /\ e \notin S =>
       IsFiniteSet(S \cup {e}) /\ Cardinality(S \cup {e}) = Cardinality(S) + 1
  BY FS_CardinalityType, FS_AddElement

(* A member that was looked for, or had a worker, is an entry now.          *)
LEMMA EntryCounts ==
  ASSUME NEW r \in RunRecord, Counted(r), IsFiniteSet(r.entries), NEW p \in Player,
         NEW seen \in Time, NEW hit \in BOOLEAN, NEW u \in RunRecord,
         u.members = r.members, u.pending = r.pending, u.skipped = r.skipped,
         u.entries = r.entries \cup {[qq |-> p, seen |-> seen, hit |-> hit]},
         \/ p \in r.todo /\ u.todo = r.todo \ {p} /\ u.live = r.live
         \/ p \in r.live /\ u.live = r.live \ {p} /\ u.todo = r.todo
  PROVE  Counted(u) /\ IsFiniteSet(u.entries)
<1> DEFINE e == [qq |-> p, seen |-> seen, hit |-> hit]
<1>0. e.qq = p /\ u.entries = r.entries \cup {e}
  OBVIOUS
<1> HIDE DEF e
<1>1. QQs(u.entries) = QQs(r.entries) \cup {p}
  <2>1. QQs(u.entries) \subseteq QQs(r.entries) \cup {p}
    BY <1>0 DEF QQs
  <2>2. QQs(r.entries) \cup {p} \subseteq QQs(u.entries)
    BY <1>0 DEF QQs
  <2>3. QED
    BY <2>1, <2>2
<1>2. e \notin r.entries
  <2>1. p \notin QQs(r.entries)
    BY DEF Counted
  <2>2. QED
    BY <1>0, <2>1 DEF QQs
<1>3. IsFiniteSet(u.entries) /\ Cardinality(u.entries) = Cardinality(r.entries) + 1 /\ Cardinality(r.entries) \in Nat
  BY <1>0, <1>2, EntriesCount
<1>4. /\ {Cardinality(r.todo), Cardinality(r.pending), Cardinality(r.live)} \subseteq Nat /\ r.skipped \in Nat
      /\ \/ p \in r.todo /\ Cardinality(u.todo) = Cardinality(r.todo) - 1 /\ u.live = r.live
         \/ p \in r.live /\ Cardinality(u.live) = Cardinality(r.live) - 1 /\ u.todo = r.todo
  <2>1. {r.todo, r.pending, r.live} \subseteq SUBSET Player /\ r.skipped \in Nat
    BY DEF RunRecord
  <2>2. {Cardinality(r.todo), Cardinality(r.pending), Cardinality(r.live)} \subseteq Nat
    BY <2>1, PlayersCount
  <2>3. CASE p \in r.todo /\ u.todo = r.todo \ {p} /\ u.live = r.live
    BY <2>1, <2>2, <2>3, PlayersCount
  <2>4. CASE p \in r.live /\ u.live = r.live \ {p} /\ u.todo = r.todo
    BY <2>1, <2>2, <2>4, PlayersCount
  <2>5. QED
    BY <2>3, <2>4
<1>5. /\ u.todo \cap u.pending = {} /\ u.todo \cap u.live = {} /\ u.pending \cap u.live = {}
      /\ QQs(u.entries) \cap (u.todo \cup u.pending \cup u.live) = {}
  BY <1>1 DEF Counted
<1>6. Cardinality(u.members) = Cardinality(u.todo) + Cardinality(u.pending) + Cardinality(u.live)
                               + Cardinality(u.entries) + u.skipped
  BY <1>3, <1>4 DEF Counted
<1>7. QED
  BY <1>3, <1>5, <1>6 DEF Counted

(* A member goes from one state of its search to another.                   *)
LEMMA MemberCounts ==
  ASSUME NEW r \in RunRecord, Counted(r), IsFiniteSet(r.entries), NEW p \in Player, NEW u \in RunRecord,
         u.members = r.members, u.entries = r.entries,
         \/ /\ p \in r.todo /\ u.todo = r.todo \ {p} /\ u.pending = r.pending \cup {p}
            /\ u.live = r.live /\ u.skipped = r.skipped
         \/ /\ p \in r.pending /\ u.pending = r.pending \ {p} /\ u.live = r.live \cup {p}
            /\ u.todo = r.todo /\ u.skipped = r.skipped
         \/ /\ p \in r.live /\ u.live = r.live \ {p} /\ u.skipped = r.skipped + 1
            /\ u.todo = r.todo /\ u.pending = r.pending
  PROVE  Counted(u)
<1>1. /\ {Cardinality(r.todo), Cardinality(r.pending), Cardinality(r.live)} \subseteq Nat /\ r.skipped \in Nat
      /\ Cardinality(r.entries) \in Nat
  BY PlayersCount, EntriesCount DEF RunRecord
<1>2. /\ u.todo \cap u.pending = {} /\ u.todo \cap u.live = {} /\ u.pending \cap u.live = {}
      /\ QQs(u.entries) \cap (u.todo \cup u.pending \cup u.live) = {}
  BY DEF Counted
<1>3. Cardinality(u.todo) + Cardinality(u.pending) + Cardinality(u.live) + u.skipped
        = Cardinality(r.todo) + Cardinality(r.pending) + Cardinality(r.live) + r.skipped
  <2>1. CASE p \in r.todo /\ u.todo = r.todo \ {p} /\ u.pending = r.pending \cup {p} /\ u.live = r.live /\ u.skipped = r.skipped
    <3>1. p \notin r.pending /\ r.todo \in SUBSET Player /\ r.pending \in SUBSET Player
      BY <2>1 DEF Counted, RunRecord
    <3>2. Cardinality(u.todo) = Cardinality(r.todo) - 1 /\ Cardinality(u.pending) = Cardinality(r.pending) + 1
      BY <2>1, <3>1, PlayersCount
    <3>3. QED
      BY <1>1, <2>1, <3>2
  <2>2. CASE p \in r.pending /\ u.pending = r.pending \ {p} /\ u.live = r.live \cup {p} /\ u.todo = r.todo /\ u.skipped = r.skipped
    <3>1. p \notin r.live /\ r.live \in SUBSET Player /\ r.pending \in SUBSET Player
      BY <2>2 DEF Counted, RunRecord
    <3>2. Cardinality(u.pending) = Cardinality(r.pending) - 1 /\ Cardinality(u.live) = Cardinality(r.live) + 1
      BY <2>2, <3>1, PlayersCount
    <3>3. QED
      BY <1>1, <2>2, <3>2
  <2>3. CASE p \in r.live /\ u.live = r.live \ {p} /\ u.skipped = r.skipped + 1 /\ u.todo = r.todo /\ u.pending = r.pending
    <3>1. r.live \in SUBSET Player
      BY DEF RunRecord
    <3>2. Cardinality(u.live) = Cardinality(r.live) - 1
      BY <2>3, <3>1, PlayersCount
    <3>3. QED
      BY <1>1, <2>3, <3>2
  <2>4. QED
    BY <2>1, <2>2, <2>3
<1>4. /\ {Cardinality(u.todo), Cardinality(u.pending), Cardinality(u.live)} \subseteq Nat /\ u.skipped \in Nat
  BY PlayersCount DEF RunRecord
<1>5. Cardinality(u.members) = Cardinality(u.todo) + Cardinality(u.pending) + Cardinality(u.live)
                               + Cardinality(u.entries) + u.skipped
  BY <1>1, <1>3, <1>4 DEF Counted
<1>6. QED
  BY <1>2, <1>5 DEF Counted

(* The first workers: as many of those that wait as may run at once.        *)
LEMMA FirstCounts ==
  ASSUME NEW r \in RunRecord, Counted(r), IsFiniteSet(r.entries), r.live = {},
         NEW first \in SUBSET r.pending,
         Cardinality(first) = IF Cardinality(r.pending) < AtOnce THEN Cardinality(r.pending) ELSE AtOnce,
         NEW u \in RunRecord, u.members = r.members, u.entries = r.entries, u.todo = r.todo,
         u.skipped = r.skipped, u.pending = r.pending \ first, u.live = first
  PROVE  /\ Counted(u) /\ Cardinality(u.live) <= AtOnce
         /\ u.pending = {} \/ u.live # {}
<1>1. /\ {Cardinality(r.todo), Cardinality(r.pending), Cardinality(first), Cardinality(u.pending)} \subseteq Nat
      /\ r.skipped \in Nat /\ Cardinality(r.entries) \in Nat /\ IsFiniteSet(r.pending) /\ IsFiniteSet(first)
      /\ Cardinality({}) = 0
  BY PlayersCount, EntriesCount DEF RunRecord
<1>2. Cardinality(r.pending) = Cardinality(u.pending) + Cardinality(first)
  <2>1. IsFiniteSet(u.pending) /\ u.pending \cup first = r.pending /\ u.pending \cap first = {}
    BY PlayersCount DEF RunRecord
  <2>2. Cardinality(u.pending \cap first) = 0
    BY <1>1, <2>1
  <2>3. Cardinality(r.pending) = Cardinality(u.pending) + Cardinality(first) - Cardinality(u.pending \cap first)
    BY <1>1, <2>1, FS_Union
  <2>4. QED
    BY <1>1, <2>2, <2>3
<1>3. AtOnce \in Nat /\ AtOnce # 0
  BY AtOnceAssumption
<1>4. Cardinality(u.live) <= AtOnce
  BY <1>1, <1>3
<1>5. u.pending = {} \/ u.live # {}
  <2>1. first = {} => Cardinality(r.pending) = 0
    BY <1>1, <1>3
  <2>2. Cardinality(r.pending) = 0 => r.pending = {}
    BY <1>1, FS_EmptySet
  <2>3. QED
    BY <2>1, <2>2
<1>6. /\ u.todo \cap u.pending = {} /\ u.todo \cap u.live = {} /\ u.pending \cap u.live = {}
      /\ QQs(u.entries) \cap (u.todo \cup u.pending \cup u.live) = {}
  BY DEF Counted
<1>7. Cardinality(u.members) = Cardinality(u.todo) + Cardinality(u.pending) + Cardinality(u.live)
                               + Cardinality(u.entries) + u.skipped
  BY <1>1, <1>2 DEF Counted
<1>8. QED
  BY <1>4, <1>5, <1>6, <1>7 DEF Counted

-----------------------------------------------------------------------------
(* Steps of a refresh: what they leave of the caches.                      *)

(* The caches stay, and sound queries take the place of sound queries.     *)
LEMMA AskersChange ==
  ASSUME CachesInv, UNCHANGED <<clock, stored, settings>>,
         budget' \in [{"ticks", "asks", "settings", "runs", "reads"} -> Nat],
         query' \in [Asker -> Query], \A a \in Asker : \E u \in Query : query'[a] = u /\ Sound(u)
  PROVE  CachesKept
<1>t. CachesTyped /\ (\A p \in Player : B50Inv(p)) /\ FullInv
  BY DEF CachesInv
<1>s. (\A o \in Player : full[o].marker.stamp \in Int) /\ clock \in Nat
  BY <1>t, Times DEF FullInv, Whole, NoScores, Marker, CachesTyped
<1>1. UNCHANGED <<clock, b50, full, prefs, token>>
  BY DEF stored, settings
<1>2. CachesTyped'
  BY <1>t, <1>1 DEF CachesTyped
<1>3. \A a \in Asker : (Sound(query[a]))'
  BY <1>1 DEF Sound
<1>4. FullInv' /\ \A p \in Player : (B50Inv(p))'
  BY <1>t, <1>1 DEF FullInv, B50Inv
<1>5. QED
  BY <1>1, <1>2, <1>3, <1>4, <1>s DEF CachesKept, CachesInv

(* Nothing of the caches changes.                                          *)
LEMMA CachesStay ==
  ASSUME CachesInv, UNCHANGED cacheVars
  PROVE  CachesKept /\ WorkersKept
<1>1. UNCHANGED <<clock, stored, settings, query, budget>>
  BY DEF cacheVars, stored, settings
<1>2. CachesKept
  BY <1>1, AskersChange DEF CachesInv, CachesTyped
<1>3. QED
  BY <1>1, <1>2 DEF WorkersKept

(* The queries of new workers ask what the refresh asks.                   *)
LEMMA SpawnedAsk ==
  ASSUME CachesInv, NEW ns \in Namespace, run[ns] \in RunRecord, run[ns].started <= clock,
         NEW who \in SUBSET Player, Spawned(ns, who)
  PROVE  /\ query' \in [Asker -> Query] /\ \A a \in Asker : \E u \in Query : query'[a] = u /\ Sound(u)
         /\ \A p \in who : Asks(query'[<<ns, p>>], run[ns])
         /\ \A w \in Worker : w \notin {ns} \X who => query'[w] = query[w]
<1> DEFINE asks(a) == WorkerQuery(a, run[ns].started)
<1>t. query \in [Asker -> Query] /\ (\A a \in Asker : Sound(query[a])) /\ clock \in Time
  BY DEF CachesInv, CachesTyped
<1>1. ASSUME NEW a \in {ns} \X who
      PROVE  asks(a) \in Query /\ Sound(asks(a)) /\ Asks(asks(a), run[ns])
  <2>1. a \in Worker /\ run[ns].started \in Time /\ 0 <= clock
    BY <1>1, <1>t, Times DEF Worker, RunRecord
  <2>2. QED
    BY <2>1, Queries DEF Sound, Asks
<1>2. {ns} \X who \subseteq Worker /\ Worker \subseteq Asker
  BY DEF Worker, Asker
<1>3. query' = [a \in Asker |-> IF a \in {ns} \X who THEN asks(a) ELSE query[a]]
  BY DEF Spawned
<1> HIDE DEF asks
<1>4. QED
  BY <1>t, <1>1, <1>2, <1>3

(* A worker's query ends.                                                  *)
LEMMA WorkerEnds ==
  ASSUME CachesInv, NEW w \in Worker, query' = [query EXCEPT ![w] = NoQuery]
  PROVE  /\ query' \in [Asker -> Query] /\ \A a \in Asker : \E u \in Query : query'[a] = u /\ (clock' = clock => Sound(u))
         /\ \A o \in Worker : o # w => query'[o] = query[o]
<1>t. query \in [Asker -> Query] /\ (\A a \in Asker : Sound(query[a])) /\ clock \in Time
  BY DEF CachesInv, CachesTyped
<1>1. NoQuery \in Query /\ w \in Asker /\ Worker \subseteq Asker
  BY Queries DEF Asker
<1>2. Sound(NoQuery)
  BY <1>t, Times DEF NoQuery, Sound
<1>3. QED
  BY <1>t, <1>1, <1>2

-----------------------------------------------------------------------------
(* Steps of a refresh: what they leave of the other refreshes and of the   *)
(* reports.                                                                *)

(* Reports are what they were when snapshots are only added and no ranking *)
(* becomes a snapshot that was there.                                      *)
LEMMA ReadersStay ==
  ASSUME GroupInv, reader' = reader, published \subseteq published',
         \A ns \in Namespace, s \in published : ranking'[ns] = s => ranking[ns] = s
  PROVE  (\A r \in Reader : (ReaderInv(r))') /\ ReportIsOneSnapshot'
<1>t. (\A r \in Reader : ReaderInv(r)) /\ ReportIsOneSnapshot /\ reader \in [Reader -> Report]
  BY DEF GroupInv, GroupTyped
<1>1. ASSUME NEW r \in Reader PROVE (ReaderInv(r))'
  <2>1. SUFFICES ASSUME reader[r].pc = "read"
                 PROVE  reader[r].at # 0 /\ \E s \in published' : (ReadOf(reader[r], s))'
    BY DEF ReaderInv
  <2>2. reader[r].at # 0 /\ reader[r].ns \in Namespace
    BY <1>t, <2>1 DEF ReaderInv, Report
  <2>3. PICK s \in published : ReadOf(reader[r], s)
    BY <1>t, <2>1 DEF ReaderInv
  <2>4. ranking'[reader[r].ns] = s => ranking[reader[r].ns] = s
    BY <2>2
  <2>5. (ReadOf(reader[r], s))'
    BY <2>3, <2>4 DEF ReadOf
  <2>6. QED
    BY <2>2, <2>5
<1>2. ReportIsOneSnapshot'
  BY <1>t DEF ReportIsOneSnapshot
<1>3. QED
  BY <1>1, <1>2

(* Refreshes and reports go on while time passes and queries are answered. *)
LEMMA GroupStays ==
  ASSUME CachesInv, GroupInv, UNCHANGED groupVars, CachesKept, WorkersKept
  PROVE  GroupInv'
<1>1. UNCHANGED <<run, ranking, reader, published>> /\ clock <= clock' /\ {clock, clock'} \subseteq Nat
  BY Times DEF groupVars, CachesKept, CachesInv, CachesTyped
<1>2. GroupTyped'
  BY <1>1 DEF GroupInv, GroupTyped
<1>3. ASSUME NEW ns \in Namespace PROVE (RunOk(run[ns]) /\ Manned(ns))'
  <2>1. RunOk(run[ns]) /\ Manned(ns) /\ run[ns].started \in Nat
    BY <1>3, Times DEF GroupInv, GroupTyped, RunRecord
  <2>2. run[ns].started <= clock'
    BY <1>1, <2>1 DEF RunOk
  <2>3. (RunOk(run[ns]))'
    BY <1>1, <2>1, <2>2 DEF RunOk
  <2>4. (Manned(ns))'
    BY <1>1, <1>3, <2>1 DEF Manned, Asks, WorkersKept, Worker, GroupInv, GroupTyped, RunRecord
  <2>5. QED
    BY <2>3, <2>4
<1>4. PublishedInv'
  BY <1>1 DEF GroupInv, PublishedInv
<1>5. QED
  BY <1>1, <1>2, <1>3, <1>4, ReadersStay DEF GroupInv

(* What a step leaves of the refresh of a namespace: a run that is all     *)
(* right, with its workers.                                                *)
Moved(ns, r) ==
  /\ Run(ns, r) /\ r \in RunRecord /\ RunOk(r)
  /\ \/ r.gen = run[ns].gen /\ (r.pc # "none" => run[ns].pc # "none")
     \/ r.gen = run[ns].gen + 1
  /\ r.pc # "none" => \A p \in r.live : Asks(query'[<<ns, p>>], r)
  /\ \A o \in Namespace \ {ns}, p \in Player : run[o].pc # "none" => query'[<<o, p>>] = query[<<o, p>>]

(* Every refresh is all right after one has moved on.                      *)
LEMMA RunsMove ==
  ASSUME GroupInv, NEW ns \in Namespace, NEW r, Moved(ns, r), clock' = clock
  PROVE  /\ run' \in [Namespace -> RunRecord] /\ run'[ns] = r
         /\ \A o \in Namespace \ {ns} : run'[o] = run[o]
         /\ \A o \in Namespace : (RunOk(run[o]) /\ Manned(o))'
<1>t. run \in [Namespace -> RunRecord]
  BY DEF GroupInv, GroupTyped
<1>1. /\ run' \in [Namespace -> RunRecord] /\ run'[ns] = r
      /\ \A o \in Namespace \ {ns} : run'[o] = run[o]
  BY <1>t DEF Moved, Run
<1>2. ASSUME NEW o \in Namespace PROVE (RunOk(run[o]) /\ Manned(o))'
  <2>1. CASE o = ns
    <3>1. (RunOk(run[o]))'
      BY <1>1, <2>1 DEF Moved, RunOk
    <3>2. (Manned(o))'
      BY <1>1, <2>1 DEF Moved, Manned, Asks
    <3>3. QED
      BY <3>1, <3>2
  <2>2. CASE o # ns
    <3>1. run'[o] = run[o] /\ RunOk(run[o]) /\ Manned(o) /\ run[o].live \subseteq Player
      BY <1>t, <1>1, <1>2, <2>2 DEF GroupInv, RunRecord
    <3>2. (RunOk(run[o]))'
      BY <3>1 DEF RunOk
    <3>3. (Manned(o))'
      BY <1>2, <2>2, <3>1 DEF Moved, Manned, Asks
    <3>4. QED
      BY <3>2, <3>3
  <2>3. QED
    BY <2>1, <2>2
<1>3. QED
  BY <1>1, <1>2

(* A refresh that has moved on is all that has changed.                    *)
LEMMA RunMoves ==
  ASSUME GroupInv, NEW ns \in Namespace, NEW r, Moved(ns, r), clock' = clock,
         UNCHANGED <<ranking, reader, published>>
  PROVE  GroupInv'
<1>t. run \in [Namespace -> RunRecord] /\ GroupTyped /\ PublishedInv
  BY DEF GroupInv, GroupTyped
<1>1. /\ run' \in [Namespace -> RunRecord] /\ run'[ns] = r
      /\ \A o \in Namespace \ {ns} : run'[o] = run[o]
  BY RunsMove
<1>2. GroupTyped'
  BY <1>t, <1>1 DEF GroupTyped
<1>3. \A o \in Namespace : (RunOk(run[o]) /\ Manned(o))'
  BY RunsMove
<1>4. PublishedInv'
  <2>1. ASSUME NEW s \in published
        PROVE  s.gen <= run'[s.ns].gen /\ (s.gen = run'[s.ns].gen => run'[s.ns].pc = "none")
    <3>1. /\ s.gen \in Nat /\ s.ns \in Namespace /\ s.gen <= run[s.ns].gen
          /\ s.gen = run[s.ns].gen => run[s.ns].pc = "none"
      BY <1>t, <2>1 DEF GroupTyped, Snapshot, PublishedInv
    <3>2. CASE s.ns # ns
      BY <1>1, <3>1, <3>2
    <3>3. CASE s.ns = ns
      <4>1. run[ns].gen \in Nat
        BY <1>t DEF RunRecord
      <4>2. QED
        BY <1>1, <3>1, <3>3, <4>1 DEF Moved
    <3>4. QED
      BY <3>2, <3>3
  <2>2. QED
    BY <1>t, <2>1 DEF PublishedInv
<1>5. QED
  BY <1>2, <1>3, <1>4, ReadersStay DEF GroupInv

-----------------------------------------------------------------------------
(* The steps of a refresh.                                                 *)

(* A refresh that is over.                                                 *)
LEMMA NoRunOk ==
  ASSUME CachesInv, NEW g \in Nat, NEW r, r = [NoRun EXCEPT !.gen = g]
  PROVE  r \in RunRecord /\ RunOk(r) /\ r.pc = "none" /\ r.gen = g
<1>1. clock \in Nat /\ 0 \in Time /\ AtOnce \in Nat /\ Cardinality({}) = 0
  BY Times, AtOnceAssumption, FS_EmptySet DEF CachesInv, CachesTyped
<1>2. /\ r.pc = "none" /\ r.gen = g /\ r.started = 0 /\ r.live = {}
      /\ r \in RunRecord
  BY <1>1 DEF NoRun, RunRecord
<1>3. r.started <= clock /\ Cardinality(r.live) <= AtOnce
  BY <1>1, <1>2
<1>4. QED
  BY <1>2, <1>3 DEF RunOk

(* The job starts.                                                         *)
LEMMA StartRunKeeps ==
  ASSUME IInv, NEW ns \in Namespace, StartRun(ns)
  PROVE  CachesKept /\ GroupInv'
<1>t. CachesInv /\ GroupInv /\ run[ns].gen \in Nat /\ clock \in Time
  BY DEF IInv, GroupInv, GroupTyped, RunRecord, CachesInv, CachesTyped
<1>1. UNCHANGED <<clock, stored, settings, query, ranking, reader, published>> /\ Spend("runs")
  BY DEF StartRun
<1>2. CachesKept
  BY <1>t, <1>1, Spends, AskersChange DEF CachesInv, CachesTyped
<1>3. PICK members \in SUBSET Player :
        Run(ns, [NoRun EXCEPT !.pc = "caches", !.gen = run[ns].gen + 1, !.started = clock,
                              !.members = members, !.todo = members])
  BY DEF StartRun
<1>4. PICK r : r = [NoRun EXCEPT !.pc = "caches", !.gen = run[ns].gen + 1, !.started = clock,
                                 !.members = members, !.todo = members]
  OBVIOUS
<1>5. /\ r.pc = "caches" /\ r.gen = run[ns].gen + 1 /\ r.started = clock /\ r.members = members
      /\ r.todo = members /\ r.pending = {} /\ r.live = {} /\ r.entries = {} /\ r.skipped = 0
      /\ r \in RunRecord
  <2>1. /\ {"caches", "none"} \subseteq {"none", "caches", "joining", "spawning"}
        /\ run[ns].gen + 1 \in Nat /\ {} \in SUBSET Player /\ {} \in SUBSET Entry
    BY <1>t
  <2>2. r = [pc |-> "caches", gen |-> run[ns].gen + 1, started |-> clock, members |-> members,
             todo |-> members, pending |-> {}, live |-> {}, entries |-> {}, skipped |-> 0,
             processed |-> 0]
    BY <1>4 DEF NoRun
  <2>3. QED
    BY <1>t, <2>1, <2>2 DEF RunRecord
<1>6. Cardinality({}) = 0 /\ Cardinality(members) \in Nat /\ IsFiniteSet({})
  BY PlayersCount, FS_EmptySet
<1>7. Counted(r)
  BY <1>5, <1>6 DEF Counted, QQs
<1>8. RunOk(r)
  <2>1. clock \in Nat /\ run[ns].gen + 1 # 0 /\ AtOnce \in Nat
    BY <1>t, Times, AtOnceAssumption
  <2>2. QED
    BY <1>5, <1>6, <1>7, <2>1 DEF RunOk
<1>9. Moved(ns, r)
  BY <1>1, <1>3, <1>4, <1>5, <1>8 DEF Moved
<1>10. QED
  BY <1>t, <1>1, <1>2, <1>9, RunMoves

(* A refresh fails.                                                        *)
LEMMA RunFailsKeeps ==
  ASSUME IInv, NEW ns \in Namespace, RunFails(ns)
  PROVE  CachesKept /\ GroupInv'
<1>t. CachesInv /\ GroupInv /\ run[ns].gen \in Nat
  BY DEF IInv, GroupInv, GroupTyped, RunRecord
<1>1. UNCHANGED <<cacheVars, ranking, reader, published>>
  BY DEF RunFails
<1>2. CachesKept /\ WorkersKept /\ UNCHANGED <<clock, query>>
  BY <1>t, <1>1, CachesStay DEF cacheVars
<1>3. PICK r : r = [NoRun EXCEPT !.gen = run[ns].gen]
  OBVIOUS
<1>4. r \in RunRecord /\ RunOk(r) /\ r.pc = "none" /\ r.gen = run[ns].gen
  BY <1>t, <1>3, NoRunOk
<1>5. Moved(ns, r)
  BY <1>2, <1>3, <1>4 DEF Moved, RunFails
<1>6. QED
  BY <1>t, <1>1, <1>2, <1>5, RunMoves

(* A worker whose refresh is over is dropped.                              *)
LEMMA DropWorkerKeeps ==
  ASSUME IInv, NEW ns \in Namespace, NEW p \in Player, DropWorker(ns, p)
  PROVE  CachesKept /\ GroupInv'
<1>t. CachesInv /\ GroupInv /\ run[ns] \in RunRecord /\ RunOk(run[ns]) /\ run \in [Namespace -> RunRecord]
  BY DEF IInv, GroupInv, GroupTyped
<1>1. /\ UNCHANGED <<clock, stored, settings, budget, run, ranking, reader, published>>
      /\ run[ns].pc = "none" /\ query' = [query EXCEPT ![<<ns, p>>] = NoQuery] /\ <<ns, p>> \in Worker
  BY DEF DropWorker, groupVars, Worker
<1>2. /\ query' \in [Asker -> Query] /\ \A a \in Asker : \E u \in Query : query'[a] = u /\ Sound(u)
      /\ \A o \in Worker : o # <<ns, p>> => query'[o] = query[o]
  BY <1>t, <1>1, WorkerEnds
<1>3. CachesKept
  BY <1>t, <1>1, <1>2, AskersChange DEF CachesInv, CachesTyped
<1>4. Moved(ns, run[ns])
  BY <1>t, <1>1, <1>2 DEF Moved, Run, Worker
<1>5. QED
  BY <1>t, <1>1, <1>3, <1>4, RunMoves

(* What a cache has of a member is from after the reset before the refresh.*)
LEMMA CachedIsFresh ==
  ASSUME CachesInv, NEW ns \in Namespace, run[ns].started \in Time, NEW p \in Player, Cached(ns, p)
  PROVE  CachedSeen(ns, p) \in Time /\ Latest(run[ns].started) <= CachedSeen(ns, p)
<1> DEFINE fresh == Latest(run[ns].started)
<1>t. b50[p] \in B50 \cup {None} /\ B50Inv(p) /\ (full[p] = NoScores \/ Whole(full[p]))
  BY DEF CachesInv, CachesTyped, FullInv
<1>n. fresh \in Int /\ \A t \in Time : t \in Int
  <2>1. Time \subseteq Nat /\ \A t \in Nat : Latest(t) \in Int
    BY Times
  <2>2. run[ns].started \in Nat
    BY <2>1
  <2>3. Latest(run[ns].started) \in Int
    BY <2>1, <2>2
  <2>4. \A t \in Time : t \in Int
    BY <2>1
  <2>5. QED
    BY <2>3, <2>4
<1> HIDE DEF fresh
<1>1. CASE ns = "b50"
  <2>1. B50Hit(p, fresh) /\ CachedSeen(ns, p) = b50[p].seen
    BY <1>1 DEF Cached, CachedSeen, fresh
  <2>2. b50[p] \in B50 /\ fresh <= b50[p].stamp /\ b50[p].stamp <= b50[p].seen
    BY <1>t, <1>n, <2>1 DEF B50Hit, B50Inv, B50
  <2>3. b50[p].stamp \in Time /\ b50[p].seen \in Time
    BY <2>2 DEF B50
  <2>4. b50[p].seen \in Time /\ fresh <= b50[p].seen
    <3>1. b50[p].stamp \in Int /\ b50[p].seen \in Int /\ b50[p].seen \in Time
      BY <1>n, <2>3
    <3>2. ASSUME NEW x \in Int, NEW y \in Int, NEW z \in Int, x <= y, y <= z PROVE x <= z
      BY <3>2
    <3>3. QED
      BY <1>n, <2>2, <3>1, <3>2
  <2>5. QED
    BY <2>1, <2>4 DEF fresh
<1>2. CASE ns # "b50"
  <2>1. FullHit(p, "diving_fish", fresh)
    BY <1>2 DEF Cached, fresh
  <2>2. Whole(full[p]) /\ fresh <= full[p].marker.stamp /\ full[p].marker.stamp \in Time
    <3>1. full[p].marker # None
      BY <2>1 DEF FullHit
    <3>2. Whole(full[p])
      BY <1>t, <3>1 DEF NoScores
    <3>3. QED
      BY <1>n, <2>1, <3>2 DEF FullHit, Whole, Marker
  <2>3. CASE full[p].records = {}
    BY <1>2, <2>2, <2>3 DEF CachedSeen, fresh
  <2>4. CASE full[p].records # {}
    <3>1. PICK t : t = CachedSeen(ns, p)
      OBVIOUS
    <3>2. t \in {r.seen : r \in full[p].records}
      BY <1>2, <2>4, <3>1 DEF CachedSeen
    <3>3. PICK r \in full[p].records : t = r.seen
      BY <3>2
    <3>4. r.seen \in Time /\ r.stamp = full[p].marker.stamp /\ r.stamp <= r.seen
      BY <2>2, <3>3 DEF Whole, Record
    <3>5. t \in Time /\ fresh <= t
      BY <1>n, <2>2, <3>3, <3>4
    <3>6. QED
      BY <3>1, <3>5 DEF fresh
  <2>5. QED
    BY <2>3, <2>4
<1>3. QED
  BY <1>1, <1>2

(* A member is looked for in the caches.                                   *)
LEMMA LookInCacheKeeps ==
  ASSUME IInv, NEW ns \in Namespace, NEW p \in Player, LookInCache(ns, p)
  PROVE  CachesKept /\ GroupInv'
<1> DEFINE r == run[ns]
<1>t. CachesInv /\ GroupInv /\ r \in RunRecord /\ RunOk(r)
  BY DEF IInv, GroupInv, GroupTyped
<1>1. /\ UNCHANGED <<cacheVars, ranking, reader, published>>
      /\ r.pc = "caches" /\ p \in r.todo /\ r.live = {}
  BY <1>t DEF LookInCache, RunOk
<1>2. CachesKept /\ WorkersKept /\ UNCHANGED <<clock, query>>
  BY <1>t, <1>1, CachesStay DEF cacheVars
<1>3. /\ Counted(r) /\ IsFiniteSet(r.entries) /\ (\A e \in r.entries : Latest(r.started) <= e.seen)
      /\ r.started \in Time
  BY <1>t, <1>1 DEF RunOk, RunRecord
<1>4. CASE Cached(ns, p)
  <2> DEFINE seen == CachedSeen(ns, p)
  <2>1. seen \in Time /\ Latest(r.started) <= seen
    BY <1>t, <1>3, <1>4, CachedIsFresh
  <2>2. Run(ns, [r EXCEPT !.todo = @ \ {p}, !.processed = @ + 1,
                          !.entries = @ \cup {[qq |-> p, seen |-> seen, hit |-> TRUE]}])
    BY <1>4 DEF LookInCache
  <2> HIDE DEF seen
  <2>3. PICK u : u = [r EXCEPT !.todo = @ \ {p}, !.processed = @ + 1,
                               !.entries = @ \cup {[qq |-> p, seen |-> seen, hit |-> TRUE]}]
    OBVIOUS
  <2>4. /\ u.pc = r.pc /\ u.gen = r.gen /\ u.started = r.started /\ u.members = r.members
        /\ u.todo = r.todo \ {p} /\ u.pending = r.pending /\ u.live = r.live /\ u.skipped = r.skipped
        /\ u.entries = r.entries \cup {[qq |-> p, seen |-> seen, hit |-> TRUE]}
        /\ u \in RunRecord
    <3>1. [qq |-> p, seen |-> seen, hit |-> TRUE] \in Entry
      BY <2>1 DEF Entry
    <3>2. r.entries \in SUBSET Entry /\ r.processed \in Nat /\ r.todo \in SUBSET Player
      BY <1>t DEF RunRecord
    <3>3. /\ r.entries \cup {[qq |-> p, seen |-> seen, hit |-> TRUE]} \in SUBSET Entry
          /\ r.processed + 1 \in Nat /\ r.todo \ {p} \in SUBSET Player
      <4>1. \A S \in SUBSET Entry, e \in Entry : S \cup {e} \in SUBSET Entry
        OBVIOUS
      <4>2. r.entries \cup {[qq |-> p, seen |-> seen, hit |-> TRUE]} \in SUBSET Entry
        BY <3>1, <3>2, <4>1
      <4>3. QED
        BY <3>2, <4>2
    <3>4. QED
      BY <1>t, <2>3, <3>3 DEF RunRecord
  <2>5. Counted(u) /\ IsFiniteSet(u.entries)
    BY <1>t, <1>1, <1>3, <2>1, <2>4, EntryCounts
  <2>6. \A e \in u.entries : Latest(u.started) <= e.seen
    BY <1>3, <2>1, <2>4
  <2>7. RunOk(u)
    BY <1>t, <1>1, <2>4, <2>5, <2>6 DEF RunOk
  <2>8. Moved(ns, u)
    BY <1>1, <1>2, <2>2, <2>3, <2>4, <2>7 DEF Moved
  <2>9. QED
    BY <1>t, <1>1, <1>2, <2>8, RunMoves
<1>5. CASE ~Cached(ns, p)
  <2>2. Run(ns, [r EXCEPT !.todo = @ \ {p}, !.pending = @ \cup {p}])
    BY <1>5 DEF LookInCache
  <2>3. PICK u : u = [r EXCEPT !.todo = @ \ {p}, !.pending = @ \cup {p}]
    OBVIOUS
  <2>4. /\ u.pc = r.pc /\ u.gen = r.gen /\ u.started = r.started /\ u.members = r.members
        /\ u.todo = r.todo \ {p} /\ u.pending = r.pending \cup {p} /\ u.live = r.live
        /\ u.skipped = r.skipped /\ u.entries = r.entries /\ u \in RunRecord
    BY <1>t, <2>3 DEF RunRecord
  <2>5. Counted(u)
    BY <1>t, <1>1, <1>3, <2>4, MemberCounts
  <2>6. RunOk(u)
    BY <1>t, <1>1, <1>3, <2>4, <2>5 DEF RunOk
  <2>7. Moved(ns, u)
    BY <1>1, <1>2, <2>2, <2>3, <2>4, <2>6 DEF Moved
  <2>8. QED
    BY <1>t, <1>1, <1>2, <2>7, RunMoves
<1>6. QED
  BY <1>4, <1>5

(* The first workers are spawned.                                          *)
LEMMA SpawnFirstKeeps ==
  ASSUME IInv, NEW ns \in Namespace, SpawnFirst(ns)
  PROVE  CachesKept /\ GroupInv'
<1> DEFINE r == run[ns]
<1>t. CachesInv /\ GroupInv /\ r \in RunRecord /\ RunOk(r)
  BY DEF IInv, GroupInv, GroupTyped
<1>1. /\ UNCHANGED <<clock, stored, settings, budget, ranking, reader, published>>
      /\ r.pc = "caches" /\ r.todo = {} /\ r.live = {}
  BY <1>t DEF SpawnFirst, RunOk
<1>2. /\ Counted(r) /\ IsFiniteSet(r.entries) /\ (\A e \in r.entries : Latest(r.started) <= e.seen)
      /\ r.started <= clock /\ r.gen # 0
  BY <1>t, <1>1 DEF RunOk
<1>3. PICK first \in SUBSET r.pending :
        /\ Cardinality(first) = IF Cardinality(r.pending) < AtOnce THEN Cardinality(r.pending) ELSE AtOnce
        /\ Run(ns, [r EXCEPT !.pc = "joining", !.pending = @ \ first, !.live = first])
        /\ Spawned(ns, first)
  BY DEF SpawnFirst
<1>4. PICK u : u = [r EXCEPT !.pc = "joining", !.pending = @ \ first, !.live = first]
  OBVIOUS
<1>5. /\ u.pc = "joining" /\ u.gen = r.gen /\ u.started = r.started /\ u.members = r.members
      /\ u.todo = r.todo /\ u.pending = r.pending \ first /\ u.live = first
      /\ u.skipped = r.skipped /\ u.entries = r.entries /\ u \in RunRecord /\ first \in SUBSET Player
  BY <1>t, <1>4 DEF RunRecord
<1>6. Counted(u) /\ Cardinality(u.live) <= AtOnce /\ (u.pending = {} \/ u.live # {})
  BY <1>t, <1>1, <1>2, <1>3, <1>5, FirstCounts
<1>7. RunOk(u)
  BY <1>1, <1>2, <1>5, <1>6 DEF RunOk
<1>8. /\ query' \in [Asker -> Query] /\ \A a \in Asker : \E q \in Query : query'[a] = q /\ Sound(q)
      /\ \A p \in first : Asks(query'[<<ns, p>>], r)
      /\ \A w \in Worker : w \notin {ns} \X first => query'[w] = query[w]
  BY <1>t, <1>2, <1>3, <1>5, SpawnedAsk
<1>9. CachesKept
  BY <1>t, <1>1, <1>8, AskersChange DEF CachesInv, CachesTyped
<1>10. Moved(ns, u)
  BY <1>1, <1>3, <1>4, <1>5, <1>7, <1>8 DEF Moved, Asks, Worker
<1>11. QED
  BY <1>t, <1>1, <1>9, <1>10, RunMoves

(* The next worker is spawned.                                             *)
LEMMA SpawnNextKeeps ==
  ASSUME IInv, NEW ns \in Namespace, SpawnNext(ns)
  PROVE  CachesKept /\ GroupInv'
<1> DEFINE r == run[ns]
<1>t. CachesInv /\ GroupInv /\ r \in RunRecord /\ RunOk(r) /\ Manned(ns)
  BY DEF IInv, GroupInv, GroupTyped
<1>1. UNCHANGED <<clock, stored, settings, budget, ranking, reader, published>> /\ r.pc = "spawning"
  BY DEF SpawnNext
<1>2. /\ Counted(r) /\ IsFiniteSet(r.entries) /\ (\A e \in r.entries : Latest(r.started) <= e.seen)
      /\ r.started <= clock /\ r.gen # 0 /\ r.todo = {} /\ Cardinality(r.live) < AtOnce
  BY <1>t, <1>1 DEF RunOk
<1>3. PICK p \in r.pending :
        /\ Run(ns, [r EXCEPT !.pc = "joining", !.pending = @ \ {p}, !.live = @ \cup {p}])
        /\ Spawned(ns, {p})
  BY DEF SpawnNext
<1>4. PICK u : u = [r EXCEPT !.pc = "joining", !.pending = @ \ {p}, !.live = @ \cup {p}]
  OBVIOUS
<1>5. /\ u.pc = "joining" /\ u.gen = r.gen /\ u.started = r.started /\ u.members = r.members
      /\ u.todo = r.todo /\ u.pending = r.pending \ {p} /\ u.live = r.live \cup {p}
      /\ u.skipped = r.skipped /\ u.entries = r.entries /\ u \in RunRecord /\ p \in Player
      /\ r.live \in SUBSET Player
  BY <1>t, <1>4 DEF RunRecord
<1>6. Counted(u)
  BY <1>t, <1>2, <1>3, <1>5, MemberCounts
<1>7. Cardinality(u.live) <= AtOnce
  <2>1. p \notin r.live
    BY <1>2, <1>3 DEF Counted
  <2>2. Cardinality(u.live) = Cardinality(r.live) + 1 /\ Cardinality(r.live) \in Nat
    BY <1>5, <2>1, PlayersCount
  <2>3. QED
    BY <1>2, <2>2, AtOnceAssumption
<1>8. RunOk(u)
  BY <1>2, <1>5, <1>6, <1>7 DEF RunOk
<1>9. /\ query' \in [Asker -> Query] /\ \A a \in Asker : \E q \in Query : query'[a] = q /\ Sound(q)
      /\ \A o \in {p} : Asks(query'[<<ns, o>>], r)
      /\ \A w \in Worker : w \notin {ns} \X {p} => query'[w] = query[w]
  BY <1>t, <1>2, <1>3, <1>5, SpawnedAsk
<1>10. CachesKept
  BY <1>t, <1>1, <1>9, AskersChange DEF CachesInv, CachesTyped
<1>11. \A o \in u.live : Asks(query'[<<ns, o>>], u)
  <2>1. SUFFICES ASSUME NEW o \in u.live, o # p PROVE Asks(query'[<<ns, o>>], u)
    BY <1>5, <1>9 DEF Asks
  <2>2. o \in r.live /\ <<ns, o>> \in Worker /\ Asks(query[<<ns, o>>], r)
    BY <1>t, <1>1, <1>5, <2>1 DEF Manned, Worker
  <2>3. QED
    BY <1>5, <1>9, <2>1, <2>2 DEF Asks
<1>12. Moved(ns, u)
  BY <1>1, <1>3, <1>4, <1>5, <1>8, <1>9, <1>11 DEF Moved, Worker
<1>13. QED
  BY <1>t, <1>1, <1>10, <1>12, RunMoves

(* A worker is joined.                                                     *)
LEMMA JoinKeeps ==
  ASSUME IInv, NEW ns \in Namespace, NEW p \in Player, Join(ns, p)
  PROVE  CachesKept /\ GroupInv'
<1> DEFINE r == run[ns]
           q == query[<<ns, p>>]
<1>t. CachesInv /\ GroupInv /\ r \in RunRecord /\ RunOk(r) /\ Manned(ns) /\ <<ns, p>> \in Worker
  BY DEF IInv, GroupInv, GroupTyped, Worker
<1>1. /\ UNCHANGED <<clock, stored, settings, budget, ranking, reader, published>>
      /\ r.pc = "joining" /\ p \in r.live /\ query' = [query EXCEPT ![<<ns, p>>] = NoQuery]
  BY DEF Join
<1>2. /\ Counted(r) /\ IsFiniteSet(r.entries) /\ (\A e \in r.entries : Latest(r.started) <= e.seen)
      /\ r.started <= clock /\ r.gen # 0 /\ r.todo = {} /\ Cardinality(r.live) <= AtOnce
      /\ r.started \in Time /\ r.live \in SUBSET Player
  BY <1>t, <1>1 DEF RunOk, RunRecord
<1>3. /\ query' \in [Asker -> Query] /\ \A a \in Asker : \E u \in Query : query'[a] = u /\ Sound(u)
      /\ \A o \in Worker : o # <<ns, p>> => query'[o] = query[o]
  BY <1>t, <1>1, WorkerEnds
<1>4. CachesKept
  BY <1>t, <1>1, <1>3, AskersChange DEF CachesInv, CachesTyped
<1>5. /\ Cardinality(r.live \ {p}) < AtOnce /\ Cardinality(r.live \ {p}) <= AtOnce
  <2>1. Cardinality(r.live \ {p}) = Cardinality(r.live) - 1 /\ Cardinality(r.live) \in Nat
    BY <1>1, <1>2, PlayersCount
  <2>2. QED
    BY <1>2, <2>1, AtOnceAssumption
<1>6. NextAfter(ns, q.pc) = (IF r.pending # {} THEN "spawning" ELSE "joining")
  BY DEF NextAfter
(* What both ways to be joined have in common.                             *)
<1>7. ASSUME NEW u \in RunRecord, Run(ns, u), Counted(u), IsFiniteSet(u.entries),
             \A e \in u.entries : Latest(u.started) <= e.seen,
             u.pc = NextAfter(ns, q.pc), u.gen = r.gen, u.started = r.started,
             u.todo = r.todo, u.pending = r.pending, u.live = r.live \ {p}
      PROVE  GroupInv'
  <2>1. RunOk(u)
    BY <1>2, <1>5, <1>6, <1>7 DEF RunOk
  <2>2. \A o \in u.live : Asks(query'[<<ns, o>>], u)
    BY <1>t, <1>1, <1>2, <1>3, <1>7 DEF Manned, Asks, Worker
  <2>3. Moved(ns, u)
    BY <1>1, <1>3, <1>7, <2>1, <2>2 DEF Moved, Worker
  <2>4. QED
    BY <1>t, <1>1, <2>3, RunMoves
<1>8. CASE q.pc = "answered" /\ Run(ns, [r EXCEPT !.pc = NextAfter(ns, q.pc), !.live = @ \ {p},
             !.processed = @ + 1,
             !.entries = @ \cup {[qq |-> p, seen |-> q.seen, hit |-> FALSE]}])
  <2> DEFINE seen == q.seen
  <2>1. seen \in Time /\ Latest(r.started) <= seen
    <3>1. q \in Query /\ Sound(q) /\ Asks(q, r)
      BY <1>t, <1>1, Queries DEF CachesInv, CachesTyped, Manned
    <3>2. q.seen \in Time /\ r.started <= q.seen
      BY <1>8, <3>1 DEF Query, Sound, Asks
    <3>3. r.started \in Nat /\ q.seen \in Nat
      BY <1>2, <3>2, Times
    <3>4. Latest(r.started) <= r.started /\ Latest(r.started) \in Int
      BY <3>3, Times
    <3>5. QED
      BY <3>2, <3>3, <3>4
  <2> HIDE DEF seen
  <2>2. PICK u : u = [r EXCEPT !.pc = NextAfter(ns, q.pc), !.live = @ \ {p}, !.processed = @ + 1,
                               !.entries = @ \cup {[qq |-> p, seen |-> seen, hit |-> FALSE]}]
    OBVIOUS
  <2>3. /\ u.pc = NextAfter(ns, q.pc) /\ u.gen = r.gen /\ u.started = r.started /\ u.members = r.members
        /\ u.todo = r.todo /\ u.pending = r.pending /\ u.live = r.live \ {p} /\ u.skipped = r.skipped
        /\ u.entries = r.entries \cup {[qq |-> p, seen |-> seen, hit |-> FALSE]}
    BY <1>t, <2>2 DEF RunRecord
  <2>4. u \in RunRecord
    <3>1. [qq |-> p, seen |-> seen, hit |-> FALSE] \in Entry
      BY <2>1 DEF Entry
    <3>2. r.entries \in SUBSET Entry /\ r.processed \in Nat /\ r.live \in SUBSET Player
      BY <1>t DEF RunRecord
    <3>3. /\ r.entries \cup {[qq |-> p, seen |-> seen, hit |-> FALSE]} \in SUBSET Entry
          /\ r.processed + 1 \in Nat /\ r.live \ {p} \in SUBSET Player
          /\ NextAfter(ns, q.pc) \in {"none", "caches", "joining", "spawning"}
      <4>1. \A S \in SUBSET Entry, e \in Entry : S \cup {e} \in SUBSET Entry
        OBVIOUS
      <4>2. r.entries \cup {[qq |-> p, seen |-> seen, hit |-> FALSE]} \in SUBSET Entry
        BY <3>1, <3>2, <4>1
      <4>3. QED
        BY <1>6, <3>2, <4>2
    <3>4. QED
      BY <1>t, <2>2, <3>3 DEF RunRecord
  <2>5. Counted(u) /\ IsFiniteSet(u.entries)
    BY <1>t, <1>1, <1>2, <2>1, <2>3, <2>4, EntryCounts
  <2>6. \A e \in u.entries : Latest(u.started) <= e.seen
    BY <1>2, <2>1, <2>3
  <2>7. Run(ns, u)
    BY <1>8, <2>2 DEF seen
  <2>8. QED
    BY <1>4, <1>7, <2>3, <2>4, <2>5, <2>6, <2>7
<1>9. CASE Run(ns, [r EXCEPT !.pc = NextAfter(ns, q.pc), !.live = @ \ {p}, !.processed = @ + 1, !.skipped = @ + 1])
  <2>2. PICK u : u = [r EXCEPT !.pc = NextAfter(ns, q.pc), !.live = @ \ {p}, !.processed = @ + 1, !.skipped = @ + 1]
    OBVIOUS
  <2>3. /\ u.pc = NextAfter(ns, q.pc) /\ u.gen = r.gen /\ u.started = r.started /\ u.members = r.members
        /\ u.todo = r.todo /\ u.pending = r.pending /\ u.live = r.live \ {p} /\ u.skipped = r.skipped + 1
        /\ u.entries = r.entries
    BY <1>t, <2>2 DEF RunRecord
  <2>4. u \in RunRecord
    <3>1. /\ r.skipped + 1 \in Nat /\ r.processed + 1 \in Nat /\ r.live \ {p} \in SUBSET Player
          /\ NextAfter(ns, q.pc) \in {"none", "caches", "joining", "spawning"}
      BY <1>t, <1>6 DEF RunRecord
    <3>2. QED
      BY <1>t, <2>2, <3>1 DEF RunRecord
  <2>5. Counted(u)
    BY <1>t, <1>1, <1>2, <2>3, <2>4, MemberCounts
  <2>6. Run(ns, u)
    BY <1>9, <2>2
  <2>7. QED
    BY <1>2, <1>4, <1>7, <2>3, <2>4, <2>5, <2>6
<1>10. QED
  BY <1>8, <1>9 DEF Join

(* The ranking is completed: its snapshot accounts for the members.        *)
LEMMA CompleteKeeps ==
  ASSUME IInv, NEW ns \in Namespace, Complete(ns)
  PROVE  CachesKept /\ GroupInv'
<1> DEFINE r == run[ns]
           new == [gen |-> r.gen, ns |-> ns, fetched |-> clock, started |-> r.started,
                   entries |-> r.entries, members |-> Cardinality(r.members),
                   success |-> Cardinality(r.entries), skipped |-> r.skipped, hits |-> Hits(r.entries)]
<1>t. /\ CachesInv /\ GroupInv /\ r \in RunRecord /\ RunOk(r) /\ GroupTyped /\ PublishedInv
      /\ clock \in Time /\ run \in [Namespace -> RunRecord]
  BY DEF IInv, GroupInv, GroupTyped, CachesInv, CachesTyped
<1>1. UNCHANGED <<cacheVars, reader>> /\ r.pc = "joining" /\ r.live = {}
  BY DEF Complete
<1>2. CachesKept /\ WorkersKept /\ UNCHANGED <<clock, query>>
  BY <1>t, <1>1, CachesStay DEF cacheVars
<1>3. /\ Counted(r) /\ IsFiniteSet(r.entries) /\ (\A e \in r.entries : Latest(r.started) <= e.seen)
      /\ r.gen # 0 /\ r.todo = {} /\ r.pending = {}
  BY <1>t, <1>1 DEF RunOk
<1>4. PICK s : s = new
  OBVIOUS
<1>5. ranking' = [ranking EXCEPT ![ns] = s] /\ published' = published \cup {s}
  BY <1>4 DEF Complete
<1>6. /\ s.gen = r.gen /\ s.ns = ns /\ s.started = r.started /\ s.entries = r.entries
      /\ s.success + s.skipped = s.members /\ s.hits <= s.success /\ s \in Snapshot
  <2>1. Cardinality(r.members) = Cardinality(r.entries) + r.skipped /\ Cardinality(r.entries) \in Nat
        /\ Cardinality(r.members) \in Nat /\ r.skipped \in Nat
    <3>1. Cardinality(r.entries) \in Nat /\ Cardinality(r.members) \in Nat /\ r.skipped \in Nat /\ Cardinality({}) = 0
      BY <1>t, <1>3, PlayersCount, EntriesCount DEF RunRecord
    <3>2. QED
      BY <1>1, <1>3, <3>1 DEF Counted
  <2>2. Hits(r.entries) \in Nat /\ Hits(r.entries) <= Cardinality(r.entries)
    <3>1. {e \in r.entries : e.hit} \subseteq r.entries
      OBVIOUS
    <3>2. QED
      BY <1>3, <3>1, FS_Subset, FS_CardinalityType DEF Hits
  <2>3. r.gen \in Nat \ {0} /\ r.started \in Time /\ r.entries \in SUBSET Entry
    BY <1>t, <1>3 DEF RunRecord
  <2>4. s \in Snapshot
    BY <1>t, <1>4, <2>1, <2>2, <2>3 DEF Snapshot
  <2>5. QED
    BY <1>4, <2>1, <2>2, <2>4
<1> HIDE DEF new
<1>7. PICK u : u = [NoRun EXCEPT !.gen = r.gen]
  OBVIOUS
<1>8. u \in RunRecord /\ RunOk(u) /\ u.pc = "none" /\ u.gen = r.gen /\ r.gen \in Nat
  BY <1>t, <1>7, NoRunOk DEF RunRecord
<1>9. Moved(ns, u)
  BY <1>2, <1>7, <1>8 DEF Moved, Complete
<1>10. /\ run' \in [Namespace -> RunRecord] /\ run'[ns] = u
       /\ \A o \in Namespace \ {ns} : run'[o] = run[o]
       /\ \A o \in Namespace : (RunOk(run[o]) /\ Manned(o))'
  BY <1>t, <1>2, <1>9, RunsMove
<1>11. \A t \in published : ~(t.ns = ns /\ t.gen = s.gen)
  BY <1>t, <1>1, <1>6 DEF PublishedInv
<1>12. ASSUME NEW o \in Namespace PROVE ranking'[o] = (IF o = ns THEN s ELSE ranking[o])
  BY <1>t, <1>5 DEF GroupTyped
<1>13. GroupTyped'
  <2>1. published' \subseteq Snapshot /\ reader' = reader
    BY <1>t, <1>1, <1>5, <1>6 DEF GroupTyped
  <2>2. ranking' \in [Namespace -> published' \cup {NoRanking}]
    BY <1>t, <1>5 DEF GroupTyped
  <2>3. QED
    BY <1>t, <1>10, <2>1, <2>2 DEF GroupTyped
<1>14. PublishedInv'
  <2>1. ASSUME NEW t \in published'
        PROVE  /\ t.gen <= run'[t.ns].gen /\ (t.gen = run'[t.ns].gen => run'[t.ns].pc = "none")
               /\ t.success + t.skipped = t.members /\ t.hits <= t.success
               /\ \A e \in t.entries : Latest(t.started) <= e.seen
    <3>1. CASE t = s
      BY <1>3, <1>6, <1>8, <1>10, <3>1
    <3>2. CASE t \in published
      <4>1. /\ t.gen <= run[t.ns].gen /\ (t.gen = run[t.ns].gen => run[t.ns].pc = "none")
            /\ t.success + t.skipped = t.members /\ t.hits <= t.success
            /\ \A e \in t.entries : Latest(t.started) <= e.seen
            /\ t.ns \in Namespace
        BY <1>t, <3>2 DEF PublishedInv, GroupTyped, Snapshot
      <4>2. QED
        BY <1>8, <1>10, <4>1
    <3>3. QED
      BY <1>5, <2>1, <3>1, <3>2
  <2>2. ASSUME NEW t \in published', NEW v \in published', t.ns = v.ns, t.gen = v.gen PROVE t = v
    BY <1>t, <1>5, <1>6, <1>11, <2>2 DEF PublishedInv
  <2>3. ASSUME NEW o \in Namespace, ranking'[o] # NoRanking PROVE ranking'[o].ns = o
    BY <1>t, <1>6, <1>12, <2>3 DEF PublishedInv
  <2>4. QED
    BY <2>1, <2>2, <2>3 DEF PublishedInv
<1>15. \A o \in Namespace, t \in published : ranking'[o] = t => ranking[o] = t
  BY <1>6, <1>11, <1>12
<1>16. QED
  BY <1>t, <1>1, <1>2, <1>5, <1>10, <1>13, <1>14, <1>15, ReadersStay DEF GroupInv

(* A ranking is cleared.                                                   *)
LEMMA ClearRankingKeeps ==
  ASSUME IInv, NEW ns \in Namespace, ClearRanking(ns)
  PROVE  CachesKept /\ GroupInv'
<1>t. CachesInv /\ GroupInv /\ GroupTyped /\ PublishedInv
  BY DEF IInv, GroupInv
<1>1. UNCHANGED <<cacheVars, run, reader, published>> /\ ranking' = [ranking EXCEPT ![ns] = NoRanking]
  BY DEF ClearRanking
<1>2. CachesKept /\ WorkersKept /\ UNCHANGED <<clock, query>>
  BY <1>t, <1>1, CachesStay DEF cacheVars
<1>3. \A o \in Namespace : ranking'[o] = (IF o = ns THEN NoRanking ELSE ranking[o])
  BY <1>t, <1>1 DEF GroupTyped
<1>4. GroupTyped'
  BY <1>t, <1>1 DEF GroupTyped
<1>5. \A o \in Namespace : (RunOk(run[o]) /\ Manned(o))'
  BY <1>t, <1>1, <1>2 DEF GroupInv, RunOk, Manned, Asks
<1>6. PublishedInv'
  BY <1>t, <1>1, <1>3 DEF PublishedInv
<1>7. NoRanking \notin published
  <2>1. \A s \in Snapshot : s.gen # 0
    BY DEF Snapshot
  <2>2. NoRanking.gen = 0
    BY DEF NoRanking
  <2>3. QED
    BY <1>t, <2>1, <2>2 DEF GroupTyped
<1>8. \A o \in Namespace, s \in published : ranking'[o] = s => ranking[o] = s
  BY <1>3, <1>7
<1>9. QED
  BY <1>t, <1>1, <1>2, <1>4, <1>5, <1>6, <1>8, ReadersStay DEF GroupInv

(* A step of a refresh.                                                    *)
LEMMA RunStepKeeps ==
  ASSUME IInv, NEW ns \in Namespace, RunStep(ns)
  PROVE  CachesKept /\ GroupInv'
  BY StartRunKeeps, SpawnFirstKeeps, SpawnNextKeeps, CompleteKeeps, RunFailsKeeps, ClearRankingKeeps,
     LookInCacheKeeps, JoinKeeps, DropWorkerKeeps DEF RunStep

-----------------------------------------------------------------------------
(* Reports.                                                                *)

(* The statements of a report, each of its own table.                      *)
LEMMA StatementsAre ==
  ASSUME NEW ns \in Namespace
  PROVE  /\ ns = "b50" => /\ Len(Statements(ns)) = 4 /\ Statements(ns)[1] = "members"
                          /\ Statements(ns)[2] = "charts" /\ Statements(ns)[3] = "entries"
                          /\ Statements(ns)[4] = "fit"
         /\ ns # "b50" => /\ Len(Statements(ns)) = 2 /\ Statements(ns)[1] = "members"
                          /\ Statements(ns)[2] = "entries"
         /\ Len(Statements(ns)) \in Nat
         /\ \A i \in 1..Len(Statements(ns)) : Statements(ns)[i] \in Names
         /\ \A i, j \in 1..Len(Statements(ns)) : Statements(ns)[i] = Statements(ns)[j] => i = j
<1>1. CASE ns = "b50"
  <2>1. Statements(ns) = <<"members", "charts", "entries", "fit">>
    BY <1>1 DEF Statements
  <2>2. QED
    BY <1>1, <2>1 DEF Names
<1>2. CASE ns # "b50"
  <2>1. Statements(ns) = <<"members", "entries">>
    BY <1>2 DEF Statements
  <2>2. QED
    BY <1>2, <2>1 DEF Names
<1>3. QED
  BY <1>1, <1>2

(* What ReportIsOneSnapshot says of one report.                            *)
OneSnapshot(rd) ==
  \E s \in published :
    /\ s.ns = rd.ns /\ s.gen = rd.gen
    /\ QQs(rd.report) = QQs(s.entries)
    /\ \A l \in rd.report :
         /\ \A row \in l.from : row.gen = s.gen /\ \E e \in s.entries : e.qq = row.qq /\ e.seen = row.seen
         /\ s.ns = "b50" => l.charts

(* A report that has moved on is all that has changed.                     *)
LEMMA ReaderMoves ==
  ASSUME GroupInv, NEW r \in Reader, NEW rec \in Report, Reads(r, rec),
         UNCHANGED <<clock, query, run, ranking, published>>,
         rec.pc = "read" => rec.at # 0 /\ \E s \in published : ReadOf(rec, s),
         rec.pc = "report" /\ rec.report # {} => OneSnapshot(rec)
  PROVE  GroupInv'
<1>t. GroupTyped /\ (\A x \in Reader : ReaderInv(x)) /\ ReportIsOneSnapshot
  BY DEF GroupInv
<1>1. reader' \in [Reader -> Report] /\ reader'[r] = rec /\ \A x \in Reader \ {r} : reader'[x] = reader[x]
  BY <1>t DEF GroupTyped, Reads
<1>2. GroupTyped'
  BY <1>t, <1>1 DEF GroupTyped
<1>3. ASSUME NEW x \in Reader PROVE (ReaderInv(x))'
  <2>1. CASE x = r
    BY <1>1, <2>1 DEF ReaderInv, ReadOf
  <2>2. CASE x # r
    <3>1. reader'[x] = reader[x] /\ ReaderInv(x)
      BY <1>t, <1>1, <2>2
    <3>2. QED
      BY <3>1 DEF ReaderInv, ReadOf
  <2>3. QED
    BY <2>1, <2>2
<1>4. ReportIsOneSnapshot'
  <2>1. SUFFICES ASSUME NEW x \in Reader, reader'[x].pc = "report" /\ reader'[x].report # {}
                 PROVE  \E s \in published :
                          /\ s.ns = reader'[x].ns /\ s.gen = reader'[x].gen
                          /\ QQs(reader'[x].report) = QQs(s.entries)
                          /\ \A l \in reader'[x].report :
                               /\ \A row \in l.from : row.gen = s.gen /\ \E e \in s.entries :
                                                        e.qq = row.qq /\ e.seen = row.seen
                               /\ s.ns = "b50" => l.charts
    BY DEF ReportIsOneSnapshot
  <2>2. CASE x = r
    BY <1>1, <2>1, <2>2 DEF OneSnapshot
  <2>3. CASE x # r
    <3>1. reader'[x] = reader[x]
      BY <1>1, <2>3
    <3>2. QED
      BY <1>t, <2>1, <3>1 DEF ReportIsOneSnapshot
  <2>4. QED
    BY <2>2, <2>3
<1>5. (\A ns \in Namespace : RunOk(run[ns]) /\ Manned(ns))' /\ PublishedInv'
  BY DEF GroupInv, RunOk, Manned, Asks, PublishedInv
<1>6. QED
  BY <1>2, <1>3, <1>4, <1>5 DEF GroupInv

(* A report that has read nothing.                                         *)
LEMMA NoReaderIs ==
  /\ NoReader \in Report /\ NoReader.pc = "idle" /\ NoReader.got = NoRead
  /\ NoRead \in [Names -> SUBSET Row] /\ \A n \in Names : NoRead[n] = {}
<1>1. NoRead \in [Names -> SUBSET Row] /\ \A n \in Names : NoRead[n] = {}
  BY DEF NoRead, Names
<1>2. QED
  BY <1>1 DEF NoReader, Report, Namespace

(* A report is opened.                                                     *)
LEMMA OpenReportKeeps ==
  ASSUME IInv, NEW r \in Reader, NEW ns \in Namespace, OpenReport(r, ns)
  PROVE  CachesKept /\ GroupInv'
<1>t. CachesInv /\ GroupInv /\ GroupTyped /\ PublishedInv
  BY DEF IInv, GroupInv
<1>1. UNCHANGED <<clock, stored, settings, query, run, ranking, published>> /\ Spend("reads")
  BY DEF OpenReport
<1>2. CachesKept
  BY <1>t, <1>1, Spends, AskersChange DEF CachesInv, CachesTyped
<1>3. PICK rec : rec = [NoReader EXCEPT !.ns = ns, !.at = 1, !.gen = ranking[ns].gen,
                                        !.pc = IF ranking[ns] = NoRanking THEN "absent" ELSE "read"]
  OBVIOUS
<1>4. ranking[ns].gen \in Nat /\ (ranking[ns] # NoRanking => ranking[ns] \in published /\ ranking[ns].ns = ns)
  BY <1>t DEF GroupTyped, PublishedInv, Snapshot, NoRanking
<1>5. /\ rec.ns = ns /\ rec.at = 1 /\ rec.gen = ranking[ns].gen /\ rec.got = NoRead
      /\ rec.pc = (IF ranking[ns] = NoRanking THEN "absent" ELSE "read") /\ rec \in Report
  BY <1>3, <1>4, NoReaderIs DEF NoReader, Report
<1>6. ASSUME rec.pc = "read" PROVE \E s \in published : ReadOf(rec, s)
  <2>1. ranking[ns] \in published /\ ranking[ns].ns = ns
    BY <1>4, <1>5, <1>6
  <2>2. \A i \in 1..Len(Statements(ns)) : ~(i < 1)
    BY StatementsAre
  <2>3. ReadOf(rec, ranking[ns])
    BY <1>5, <2>1, <2>2, NoReaderIs DEF ReadOf
  <2>4. QED
    BY <2>1, <2>3
<1>7. Reads(r, rec)
  BY <1>3 DEF OpenReport
<1>8. QED
  BY <1>t, <1>1, <1>2, <1>5, <1>6, <1>7, ReaderMoves

(* A report is closed.                                                     *)
LEMMA CloseReportKeeps ==
  ASSUME IInv, NEW r \in Reader, CloseReport(r)
  PROVE  CachesKept /\ GroupInv'
<1>1. CachesKept /\ GroupInv /\ UNCHANGED <<clock, query, run, ranking, published>>
  BY CachesStay DEF IInv, CloseReport, cacheVars
<1>2. QED
  BY <1>1, NoReaderIs, ReaderMoves DEF CloseReport

(* The rows of a snapshot are rows.                                        *)
LEMMA SnapshotRows ==
  ASSUME NEW s \in Snapshot
  PROVE  /\ RowsOf(s) \in SUBSET Row /\ QQs(RowsOf(s)) = QQs(s.entries)
         /\ \A row \in RowsOf(s) : row.gen = s.gen /\ \E e \in s.entries : e.qq = row.qq /\ e.seen = row.seen
<1> DEFINE row(e) == [qq |-> e.qq, seen |-> e.seen, gen |-> s.gen]
<1>1. ASSUME NEW e \in s.entries
      PROVE  row(e) \in Row /\ row(e).qq = e.qq /\ row(e).seen = e.seen /\ row(e).gen = s.gen
  <2>1. e \in Entry /\ s.gen \in Nat
    BY DEF Snapshot
  <2>2. e.qq \in Player /\ e.seen \in Time
    BY <2>1 DEF Entry
  <2>3. QED
    BY <2>1, <2>2 DEF Row
<1>2. RowsOf(s) = {row(e) : e \in s.entries}
  BY DEF RowsOf
<1> HIDE DEF row
<1>3. QQs(RowsOf(s)) = QQs(s.entries)
  <2>1. QQs(RowsOf(s)) \subseteq QQs(s.entries)
    BY <1>1, <1>2 DEF QQs
  <2>2. QQs(s.entries) \subseteq QQs(RowsOf(s))
    BY <1>1, <1>2 DEF QQs
  <2>3. QED
    BY <2>1, <2>2
<1>4. QED
  BY <1>1, <1>2, <1>3

(* A statement finds all rows of the snapshot that is read, or none.       *)
LEMMA RowsAre ==
  ASSUME GroupTyped, PublishedInv, NEW s \in published
  PROVE  Rows(s.ns, s.gen) = IF ranking[s.ns] = s THEN RowsOf(s) ELSE {}
<1>1. s \in Snapshot /\ s.ns \in Namespace /\ s.gen # 0
  BY DEF GroupTyped, Snapshot
<1>2. CASE ranking[s.ns] = s
  <2>1. ranking[s.ns] # NoRanking
    BY <1>1, <1>2 DEF NoRanking
  <2>2. QED
    BY <1>2, <2>1 DEF Rows, RowsOf
<1>3. CASE ranking[s.ns] # s
  <2>1. ranking[s.ns] = NoRanking \/ (ranking[s.ns] \in published /\ ranking[s.ns].ns = s.ns)
    BY <1>1 DEF GroupTyped, PublishedInv
  <2>2. ranking[s.ns] = NoRanking \/ ranking[s.ns].gen # s.gen
    BY <1>3, <2>1 DEF PublishedInv
  <2>3. QED
    BY <1>3, <2>2 DEF Rows
<1>4. QED
  BY <1>2, <1>3

(* The next statement of a report.                                         *)
LEMMA ReadRowsKeeps ==
  ASSUME IInv, NEW r \in Reader, ReadRows(r)
  PROVE  CachesKept /\ GroupInv'
<1> DEFINE rd == reader[r]
           st == Statements(rd.ns)
           rows == Rows(rd.ns, rd.gen)
<1>t. CachesInv /\ GroupInv /\ GroupTyped /\ PublishedInv /\ ReaderInv(r) /\ rd \in Report
  BY DEF IInv, GroupInv, GroupTyped
<1>1. CachesKept /\ UNCHANGED <<clock, query, run, ranking, published>>
  BY <1>t, CachesStay DEF ReadRows, cacheVars
<1>2. rd.pc = "read" /\ rd.at <= Len(st) /\ rd.at # 0 /\ rd.at \in Nat /\ rd.ns \in Namespace
  BY <1>t DEF ReadRows, ReaderInv, Report
<1>3. PICK s \in published : ReadOf(rd, s)
  BY <1>t, <1>2 DEF ReaderInv
<1>4. s.ns = rd.ns /\ s.gen = rd.gen /\ s \in Snapshot
  BY <1>t, <1>3 DEF ReadOf, GroupTyped
<1>5. rows = (IF ranking[rd.ns] = s THEN RowsOf(s) ELSE {}) /\ rows \in SUBSET Row
  BY <1>t, <1>4, RowsAre, SnapshotRows
<1>6. Reads(r, [rd EXCEPT !.at = @ + 1, !.got[st[rd.at]] = rows])
  BY DEF ReadRows
<1>7. /\ Len(st) \in Nat /\ rd.at \in 1..Len(st) /\ (\A i \in 1..Len(st) : st[i] \in Names)
      /\ \A i, j \in 1..Len(st) : st[i] = st[j] => i = j
  <2>1. /\ Len(st) \in Nat /\ (\A i \in 1..Len(st) : st[i] \in Names)
        /\ \A i, j \in 1..Len(st) : st[i] = st[j] => i = j
    BY <1>2, StatementsAre
  <2>2. rd.at \in 1..Len(st)
    <3>1. PICK n : n = Len(st)
      OBVIOUS
    <3>2. n \in Nat /\ rd.at \in Nat /\ rd.at # 0 /\ rd.at <= n
      BY <1>2, <2>1, <3>1
    <3>3. QED
      BY <3>1, <3>2
  <2>3. QED
    BY <2>1, <2>2
<1> HIDE DEF rows, st
<1>8. PICK rec : rec = [rd EXCEPT !.at = @ + 1, !.got[st[rd.at]] = rows]
  OBVIOUS
<1>9. /\ rec.pc = "read" /\ rec.ns = rd.ns /\ rec.gen = rd.gen /\ rec.at = rd.at + 1
      /\ rec.got = [rd.got EXCEPT ![st[rd.at]] = rows]
  BY <1>t, <1>2, <1>8 DEF Report
<1>10. rec.got \in [Names -> SUBSET Row] /\ rd.got \in [Names -> SUBSET Row]
  BY <1>t, <1>5, <1>7, <1>9 DEF Report
<1>11. rec \in Report
  <2>1. PICK got : got = rec.got
    OBVIOUS
  <2>2. rec = [rd EXCEPT !.at = @ + 1, !.got = got]
    BY <1>t, <1>8, <1>9, <2>1 DEF Report
  <2>3. got \in [Names -> SUBSET Row] /\ rd.at + 1 \in Nat
    BY <1>2, <1>10, <2>1
  <2>4. QED
    BY <1>t, <2>2, <2>3 DEF Report
<1>12. \A i \in 1..Len(st) : rec.got[st[i]] = (IF i = rd.at THEN rows ELSE rd.got[st[i]])
  BY <1>7, <1>9, <1>10
<1>13. /\ \A i \in 1..Len(st) : i < rd.at => rd.got[st[i]] \in {{}, RowsOf(s)}
       /\ \A i, j \in 1..Len(st) : i < j /\ j < rd.at /\ rd.got[st[j]] # {} => rd.got[st[i]] = RowsOf(s)
       /\ ranking[rd.ns] = s => \A i \in 1..Len(st) : i < rd.at => rd.got[st[i]] = RowsOf(s)
       /\ \A n \in Names : (\A i \in 1..Len(st) : i < rd.at => st[i] # n) => rd.got[n] = {}
  BY <1>3 DEF ReadOf, st
<1>14. ReadOf(rec, s)
  <2>1. \A i \in 1..Len(st) : i < rec.at => i = rd.at \/ i < rd.at
    BY <1>7, <1>9
  <2>2. \A i \in 1..Len(st) : i < rec.at => rec.got[st[i]] \in {{}, RowsOf(s)}
    BY <1>5, <1>12, <1>13, <2>1
  <2>3. ASSUME NEW i \in 1..Len(st), NEW j \in 1..Len(st), i < j, j < rec.at, rec.got[st[j]] # {}
        PROVE  rec.got[st[i]] = RowsOf(s)
    <3>1. i < rd.at /\ rec.got[st[i]] = rd.got[st[i]] /\ (j = rd.at \/ j < rd.at)
      BY <1>7, <1>9, <1>12, <2>3
    <3>2. CASE j = rd.at
      <4>1. ranking[rd.ns] = s
        BY <1>5, <1>12, <2>3, <3>2
      <4>2. QED
        BY <1>13, <3>1, <4>1
    <3>3. CASE j < rd.at
      <4>1. rd.got[st[j]] # {}
        BY <1>7, <1>12, <2>3, <3>3
      <4>2. QED
        BY <1>13, <2>3, <3>1, <3>3, <4>1
    <3>4. QED
      BY <3>1, <3>2, <3>3
  <2>4. ranking[rd.ns] = s => \A i \in 1..Len(st) : i < rec.at => rec.got[st[i]] = RowsOf(s)
    BY <1>5, <1>12, <1>13, <2>1
  <2>5. ASSUME NEW n \in Names, \A i \in 1..Len(st) : i < rec.at => st[i] # n PROVE rec.got[n] = {}
    <3>1. n # st[rd.at] /\ \A i \in 1..Len(st) : i < rd.at => st[i] # n
      BY <1>7, <1>9, <2>5
    <3>2. QED
      BY <1>9, <1>10, <1>13, <3>1
  <2>6. QED
    BY <1>4, <1>9, <2>2, <2>3, <2>4, <2>5 DEF ReadOf, st
<1>15. rec.at # 0
  BY <1>2, <1>9
<1>16. QED
  BY <1>t, <1>1, <1>3, <1>6, <1>8, <1>9, <1>11, <1>14, <1>15, ReaderMoves

(* The rows are put together.                                              *)
LEMMA PutTogetherKeeps ==
  ASSUME IInv, NEW r \in Reader, PutTogether(r)
  PROVE  CachesKept /\ GroupInv'
<1> DEFINE rd == reader[r]
           got == rd.got
           line(row) == [qq |-> row.qq, from |-> {row} \cup Of(got["members"], row.qq)
                                                  \cup Of(got["charts"], row.qq)
                                                  \cup Of(got["fit"], row.qq),
                         charts |-> Of(got["charts"], row.qq) # {}]
           needed == IF rd.ns = "b50" THEN QQs(got["members"]) \cap QQs(got["fit"]) ELSE QQs(got["entries"])
           shown == {e \in got["entries"] : e.qq \in QQs(got["members"])}
<1>t. CachesInv /\ GroupInv /\ GroupTyped /\ PublishedInv /\ ReaderInv(r) /\ rd \in Report
  BY DEF IInv, GroupInv, GroupTyped
<1>1. CachesKept /\ UNCHANGED <<clock, query, run, ranking, published>>
  BY <1>t, CachesStay DEF PutTogether, cacheVars
<1>2. /\ rd.pc = "read" /\ rd.at > Len(Statements(rd.ns)) /\ rd.at # 0 /\ rd.at \in Nat /\ rd.ns \in Namespace
      /\ got \in [Names -> SUBSET Row]
  BY <1>t DEF PutTogether, ReaderInv, Report
<1>3. PICK s \in published : ReadOf(rd, s)
  BY <1>t, <1>2 DEF ReaderInv
<1>4. s.ns = rd.ns /\ s.gen = rd.gen /\ s \in Snapshot
  BY <1>t, <1>3 DEF ReadOf, GroupTyped
<1>5. {"members", "charts", "entries", "fit"} \subseteq Names
  BY DEF Names
<1>6. /\ \A n \in Names : got[n] \in SUBSET RowsOf(s)
      /\ got["entries"] # {} => /\ got["members"] = RowsOf(s) /\ got["entries"] = RowsOf(s)
                                /\ rd.ns = "b50" => got["charts"] = RowsOf(s)
  <2> DEFINE st == Statements(rd.ns)
  <2>1. Len(st) \in Nat /\ \A i \in 1..Len(st) : i < rd.at
    BY <1>2, StatementsAre
  <2>2. \A i \in 1..Len(st) : got[st[i]] \in {{}, RowsOf(s)}
    BY <1>3, <2>1 DEF ReadOf
  <2>3. \A i, j \in 1..Len(st) : i < j /\ got[st[j]] # {} => got[st[i]] = RowsOf(s)
    BY <1>3, <2>1 DEF ReadOf
  <2>4. \A n \in Names : (\A i \in 1..Len(st) : st[i] # n) => got[n] = {}
    BY <1>3, <2>1 DEF ReadOf
  <2>5. ASSUME NEW n \in Names PROVE got[n] \in SUBSET RowsOf(s)
    BY <2>2, <2>4, <2>5
  <2>6. ASSUME got["entries"] # {}
        PROVE  /\ got["members"] = RowsOf(s) /\ got["entries"] = RowsOf(s)
               /\ rd.ns = "b50" => got["charts"] = RowsOf(s)
    <3>1. CASE rd.ns = "b50"
      <4>1. /\ Len(st) = 4 /\ st[1] = "members" /\ st[2] = "charts" /\ st[3] = "entries"
            /\ {1, 2, 3} \subseteq 1..Len(st)
        BY <1>2, <3>1, StatementsAre
      <4> HIDE DEF st
      <4>2. got[st[3]] # {} /\ 1 < 3 /\ 2 < 3 /\ {1, 2, 3} \subseteq 1..Len(st)
        BY <2>6, <4>1
      <4>3. got[st[1]] = RowsOf(s) /\ got[st[2]] = RowsOf(s)
        BY <2>3, <4>2
      <4>4. got[st[3]] = RowsOf(s)
        BY <2>2, <4>2
      <4>5. QED
        BY <4>1, <4>3, <4>4
    <3>2. CASE rd.ns # "b50"
      <4>1. Len(st) = 2 /\ st[1] = "members" /\ st[2] = "entries" /\ {1, 2} \subseteq 1..Len(st)
        BY <1>2, <3>2, StatementsAre
      <4> HIDE DEF st
      <4>2. got[st[2]] # {} /\ 1 < 2 /\ {1, 2} \subseteq 1..Len(st)
        BY <2>6, <4>1
      <4>3. got[st[1]] = RowsOf(s)
        BY <2>3, <4>2
      <4>4. got[st[2]] = RowsOf(s)
        BY <2>2, <4>2
      <4>5. QED
        BY <3>2, <4>1, <4>3, <4>4
    <3>3. QED
      BY <3>1, <3>2
  <2>7. QED
    BY <2>5, <2>6
<1>7. /\ RowsOf(s) \in SUBSET Row /\ QQs(RowsOf(s)) = QQs(s.entries)
      /\ \A row \in RowsOf(s) : row.gen = s.gen /\ \E e \in s.entries : e.qq = row.qq /\ e.seen = row.seen
  BY <1>4, SnapshotRows
<1>8. ASSUME NEW row \in RowsOf(s)
      PROVE  /\ line(row) \in Line /\ line(row).qq = row.qq /\ line(row).from \subseteq RowsOf(s)
             /\ got["charts"] = RowsOf(s) => line(row).charts
  <2> DEFINE from == {row} \cup Of(got["members"], row.qq) \cup Of(got["charts"], row.qq)
                           \cup Of(got["fit"], row.qq)
             charts == Of(got["charts"], row.qq) # {}
  <2>1. from \subseteq RowsOf(s) /\ from \in SUBSET Row /\ row.qq \in Player
    <3>1. row \in Row
      BY <1>7, <1>8
    <3>2. row.qq \in Player
      BY <3>1 DEF Row
    <3>3. \A n \in Names : Of(got[n], row.qq) \subseteq RowsOf(s)
      BY <1>6 DEF Of
    <3>4. from \subseteq RowsOf(s)
      BY <1>5, <1>8, <3>3
    <3>5. QED
      BY <1>7, <3>2, <3>4
  <2>2. got["charts"] = RowsOf(s) => charts
    BY <1>8 DEF Of
  <2>3. charts \in BOOLEAN /\ line(row) = [qq |-> row.qq, from |-> from, charts |-> charts]
    OBVIOUS
  <2> HIDE DEF from, charts, line
  <2>4. QED
    BY <2>1, <2>2, <2>3 DEF Line
<1>9. shown \subseteq RowsOf(s) /\ (shown # {} => got["entries"] # {} /\ shown = RowsOf(s))
  <2>1. shown \subseteq RowsOf(s)
    BY <1>5, <1>6
  <2>2. got["entries"] # {} => shown = RowsOf(s)
    BY <1>6 DEF QQs
  <2>3. QED
    BY <2>1, <2>2
<1>10. Reads(r, IF QQs(got["entries"]) \subseteq needed
                THEN [rd EXCEPT !.pc = "report", !.report = {line(row) : row \in shown}]
                ELSE [rd EXCEPT !.pc = "invalid"])
  BY DEF PutTogether
<1> HIDE DEF line, shown, needed
<1>11. PICK report : report = {line(row) : row \in shown}
  OBVIOUS
<1>12. report \in SUBSET Line
  BY <1>8, <1>9, <1>11
<1>13. CASE Reads(r, [rd EXCEPT !.pc = "report", !.report = report])
  <2>1. PICK rec : rec = [rd EXCEPT !.pc = "report", !.report = report]
    OBVIOUS
  <2>2. rec.pc = "report" /\ rec.report = report /\ rec.ns = rd.ns /\ rec.gen = rd.gen /\ rec \in Report
    BY <1>t, <1>12, <2>1 DEF Report
  <2>3. ASSUME report # {} PROVE OneSnapshot(rec)
    <3>1. shown = RowsOf(s) /\ (rd.ns = "b50" => got["charts"] = RowsOf(s))
      BY <1>6, <1>9, <1>11, <2>3
    <3>2. QQs(report) = QQs(s.entries)
      <4>1. QQs(report) \subseteq QQs(RowsOf(s))
        BY <1>8, <1>11, <3>1 DEF QQs
      <4>2. QQs(RowsOf(s)) \subseteq QQs(report)
        BY <1>8, <1>11, <3>1 DEF QQs
      <4>3. QED
        BY <1>7, <4>1, <4>2
    <3>3. ASSUME NEW l \in report
          PROVE  /\ \A row \in l.from : row.gen = s.gen /\ \E e \in s.entries : e.qq = row.qq /\ e.seen = row.seen
                 /\ s.ns = "b50" => l.charts
      <4>1. PICK row \in RowsOf(s) : l = line(row)
        BY <1>11, <3>1, <3>3
      <4>2. l.from \subseteq RowsOf(s) /\ (rd.ns = "b50" => l.charts)
        BY <1>8, <3>1, <4>1
      <4>3. QED
        BY <1>4, <1>7, <4>2
    <3>4. QED
      BY <1>4, <2>2, <3>2, <3>3 DEF OneSnapshot
  <2>4. QED
    BY <1>t, <1>1, <1>13, <2>1, <2>2, <2>3, ReaderMoves
<1>14. CASE Reads(r, [rd EXCEPT !.pc = "invalid"])
  <2>1. PICK rec : rec = [rd EXCEPT !.pc = "invalid"]
    OBVIOUS
  <2>2. rec.pc = "invalid" /\ rec \in Report
    BY <1>t, <2>1 DEF Report
  <2>3. QED
    BY <1>t, <1>1, <1>14, <2>1, <2>2, ReaderMoves
<1>15. QED
  BY <1>10, <1>11, <1>13, <1>14

(* A step of a report.                                                     *)
LEMMA ReportStepKeeps ==
  ASSUME IInv, NEW r \in Reader, ReportStep(r)
  PROVE  CachesKept /\ GroupInv'
  BY OpenReportKeeps, ReadRowsKeeps, PutTogetherKeeps, CloseReportKeeps DEF ReportStep

-----------------------------------------------------------------------------
(* The theorems.                                                           *)

(* Nothing is stored and nobody asks at the start.                         *)
LEMMA InitIInv == Init => IInv
<1> SUFFICES ASSUME Init PROVE IInv
  OBVIOUS
<1>1. /\ clock = 0 /\ budget \in Budgets /\ token \in BOOLEAN /\ b50 = [p \in Player |-> None]
      /\ full = [p \in Player |-> NoScores] /\ prefs = [p \in Player |-> "none"]
      /\ query = [a \in Asker |-> NoQuery] /\ run = [ns \in Namespace |-> NoRun]
      /\ ranking = [ns \in Namespace |-> NoRanking] /\ reader = [r \in Reader |-> NoReader]
      /\ published = {}
  BY DEF Init, CachesInit
<1>2. clock \in Time /\ 0 <= clock /\ NoQuery \in Query /\ "none" \in SourceOrNone
  BY <1>1, Times, Queries DEF SourceOrNone
<1>3. CachesTyped
  BY <1>1, <1>2, BudgetAssumption DEF CachesTyped
<1>4. \A a \in Asker : Sound(query[a])
  BY <1>1, <1>2 DEF Sound, NoQuery
<1>5. CachesInv
  BY <1>1, <1>3, <1>4 DEF CachesInv, B50Inv, FullInv
<1>6. ASSUME NEW ns \in Namespace PROVE run[ns] \in RunRecord /\ RunOk(run[ns]) /\ Manned(ns)
  <2>1. PICK r : r = [NoRun EXCEPT !.gen = 0]
    OBVIOUS
  <2>2. r = NoRun
    BY <2>1 DEF NoRun
  <2>3. r \in RunRecord /\ RunOk(r) /\ r.pc = "none"
    BY <1>5, <2>1, NoRunOk
  <2>4. QED
    BY <1>1, <2>2, <2>3 DEF Manned
<1>7. GroupTyped
  BY <1>1, <1>6, NoReaderIs DEF GroupTyped
<1>8. PublishedInv /\ (\A r \in Reader : ReaderInv(r)) /\ ReportIsOneSnapshot
  BY <1>1, NoReaderIs DEF PublishedInv, ReaderInv, ReportIsOneSnapshot
<1>9. QED
  BY <1>5, <1>6, <1>7, <1>8 DEF IInv, GroupInv

(* Every step keeps the invariant and lets no full scores go back.         *)
LEMMA NextKeeps ==
  ASSUME IInv, [Next]_vars
  PROVE  IInv' /\ CachesKept
<1>t. CachesInv /\ GroupInv
  BY DEF IInv
<1>1. CASE CachesNext /\ UNCHANGED groupVars
  BY <1>t, <1>1, CachesStep, GroupStays DEF IInv, CachesKept
<1>2. ASSUME NEW ns \in Namespace, RunStep(ns) PROVE IInv' /\ CachesKept
  BY <1>2, RunStepKeeps DEF IInv, CachesKept
<1>3. ASSUME NEW r \in Reader, ReportStep(r) PROVE IInv' /\ CachesKept
  BY <1>3, ReportStepKeeps DEF IInv, CachesKept
<1>4. CASE UNCHANGED vars
  <2>1. UNCHANGED cacheVars /\ UNCHANGED groupVars
    BY <1>4 DEF vars
  <2>2. QED
    BY <1>t, <2>1, CachesStay, GroupStays DEF IInv, CachesKept
<1>5. QED
  BY <1>1, <1>2, <1>3, <1>4 DEF Next

(* The invariant of the caches, the refreshes and the reports, whatever    *)
(* the players, calls, days and bounds.                                    *)
THEOREM Invariance == Spec => []IInv
<1>1. IInv /\ [Next]_vars => IInv'
  BY NextKeeps
<1>2. QED
  BY <1>1, InitIInv, PTL DEF Spec

(* Every variable stays in its domain, and no more workers run at once     *)
(* than max_concurrency allows.                                            *)
THEOREM TypeCorrect == Spec => []TypeOK
<1>1. IInv => TypeOK
  <2>1. SUFFICES ASSUME IInv PROVE TypeOK
    OBVIOUS
  <2>2. CachesInv /\ GroupInv /\ CachesTyped /\ GroupTyped
    BY <2>1 DEF IInv, CachesInv, GroupInv
  <2>3. ASSUME NEW p \in Player
        PROVE  /\ full[p].marker \in Marker \cup {None} /\ full[p].profile \in Time \cup {None.stamp}
               /\ full[p].records \subseteq Record
    <3>1. full[p] = NoScores \/ Whole(full[p])
      BY <2>2 DEF CachesInv, FullInv
    <3>2. CASE full[p] = NoScores
      BY <3>2 DEF NoScores
    <3>3. CASE Whole(full[p])
      BY <3>3 DEF Whole, Marker
    <3>4. QED
      BY <3>1, <3>2, <3>3
  <2>4. ASSUME NEW a \in Asker
        PROVE  /\ query[a].pc \in Pc /\ query[a].kind \in Kind /\ query[a].who \in Lookup
               /\ query[a].now <= clock /\ query[a].seen <= clock /\ query[a].charts \subseteq Chart
    BY <2>2, <2>4 DEF CachesInv, CachesTyped, Query, Sound
  <2>5. CachesTypeOK
    BY <2>2, <2>3, <2>4 DEF CachesTypeOK, CachesTyped, SourceOrNone
  <2>6. ASSUME NEW ns \in Namespace
        PROVE  /\ run[ns].pc \in {"none", "caches", "joining", "spawning"} /\ run[ns].gen \in Nat
               /\ run[ns].started <= clock /\ run[ns].members \subseteq Player
               /\ run[ns].pending \cap run[ns].live = {}
               /\ Cardinality(run[ns].live) <= AtOnce
               /\ run[ns].entries \subseteq Entry
               /\ ranking[ns].gen \in 0..run[ns].gen
    <3>1. run[ns] \in RunRecord /\ RunOk(run[ns])
      BY <2>2 DEF GroupInv, GroupTyped
    <3>2. ranking[ns].gen \in 0..run[ns].gen
      BY <2>2, <3>1 DEF GroupInv, GroupTyped, PublishedInv, Snapshot, NoRanking, RunRecord
    <3>3. QED
      BY <3>1, <3>2 DEF RunRecord, RunOk, Counted
  <2>7. GroupTypeOK
    BY <2>2, <2>6 DEF GroupTypeOK, GroupTyped, Report
  <2>8. QED
    BY <2>5, <2>7 DEF TypeOK
<1>2. QED
  BY <1>1, Invariance, PTL

(* FullScoresWhole: the full scores of a player are what exactly one       *)
(* request wrote, so that full_score_snapshot never finds a fresh snapshot *)
(* that it must throw away.                                                *)
THEOREM FullScoresWholeHolds == Spec => []FullScoresWhole
<1>1. IInv => FullScoresWhole
  <2>1. SUFFICES ASSUME IInv, NEW p \in Player
                 PROVE  /\ Cardinality({r.seen : r \in full[p].records}) <= 1
                        /\ full[p].marker # None => FullHit(p, full[p].marker.source, full[p].marker.stamp)
    BY DEF FullScoresWhole
  <2>2. full[p] = NoScores \/ Whole(full[p])
    BY <2>1 DEF IInv, CachesInv, FullInv
  <2>3. full[p].marker # None => FullHit(p, full[p].marker.source, full[p].marker.stamp)
    <3>1. SUFFICES ASSUME full[p].marker # None PROVE FullHit(p, full[p].marker.source, full[p].marker.stamp)
      OBVIOUS
    <3>2. Whole(full[p])
      BY <2>2, <3>1 DEF NoScores
    <3>3. full[p].marker.stamp \in Time
      BY <3>2 DEF Whole, Marker
    <3>4. full[p].marker.stamp \in Int
      BY <3>3, BoundsAssumption DEF Time
    <3>5. QED
      BY <3>1, <3>2, <3>4 DEF Whole, FullHit
  <2>4. CASE full[p].records = {}
    <3>1. {r.seen : r \in full[p].records} = {}
      BY <2>4
    <3>2. QED
      BY <2>2, <2>3, <3>1, FS_EmptySet
  <2>5. CASE full[p].records # {}
    <3>1. Whole(full[p])
      BY <2>2, <2>5 DEF NoScores
    <3>2. PICK r \in full[p].records : TRUE
      BY <2>5
    <3>3. {s.seen : s \in full[p].records} = {r.seen}
      BY <3>1, <3>2 DEF Whole
    <3>4. Cardinality({r.seen}) = 1
      BY FS_Singleton
    <3>5. QED
      BY <2>3, <3>3, <3>4
  <2>6. QED
    BY <2>3, <2>4, <2>5
<1>2. QED
  BY <1>1, Invariance, PTL

(* FullNeverGoesBack: replace_player_score_snapshot never puts an earlier  *)
(* request's scores in the place of a later one's.                         *)
THEOREM FullNeverGoesBackHolds == Spec => FullNeverGoesBack
<1>1. IInv /\ [Next]_vars => [\A p \in Player : full'[p].marker.stamp >= full[p].marker.stamp]_cacheVars
  BY NextKeeps DEF CachesKept
<1>2. QED
  BY <1>1, Invariance, PTL DEF Spec, FullNeverGoesBack

(* RankingAccountsForMembers: whatever the order in which caches and       *)
(* workers answered, a ranking has an entry or a skip for every member,    *)
(* and no entry from before the reset before its refresh.                  *)
THEOREM RankingAccountsForMembersHolds == Spec => []RankingAccountsForMembers
<1>1. IInv => RankingAccountsForMembers
  <2>1. SUFFICES ASSUME IInv, NEW s \in published
                 PROVE  /\ s.success + s.skipped = s.members /\ s.hits <= s.success
                        /\ \A e \in s.entries : e.seen >= Latest(s.started)
    BY DEF RankingAccountsForMembers
  <2>2. PublishedInv
    BY <2>1 DEF IInv, GroupInv
  <2>3. QED
    BY <2>1, <2>2 DEF PublishedInv
<1>2. QED
  BY <1>1, Invariance, PTL

(* ReportIsOneSnapshot: a report that is read in several statements while  *)
(* the ranking is replaced or cleared is one snapshot, or has no lines.    *)
THEOREM ReportIsOneSnapshotHolds == Spec => []ReportIsOneSnapshot
<1>1. IInv => ReportIsOneSnapshot
  BY DEF IInv, GroupInv
<1>2. QED
  BY <1>1, Invariance, PTL

=============================================================================
