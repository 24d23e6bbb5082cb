----------------------------- MODULE GroupScores -----------------------------
(***************************************************************************)
(* The refresh of a group's rankings and those who read them, above the    *)
(* caches and queries of ScoreCaches. RankingJobs has the life of the job; *)
(* here is its work: the pass over the caches, the queries that run side   *)
(* by side for the rest, and the snapshot they end in; and                 *)
(* StateStore::ranking_cache, which reads a snapshot in several statements *)
(* while the next one is written.                                          *)
(***************************************************************************)
EXTENDS ScoreCaches, Sequences

CONSTANTS
  Reader,    \* concurrent reports
  AtOnce     \* max_concurrency of a refresh

ASSUME AtOnceAssumption == AtOnce \in Nat \ {0}

VARIABLES
  run,        \* per namespace, the refresh under way
  ranking,    \* ranking_snapshots and its rows, per namespace
  reader,     \* reports under way
  published   \* snapshots ever committed (history)

groupVars == <<run, ranking, reader, published>>
vars == <<cacheVars, groupVars>>

-----------------------------------------------------------------------------
(* Values. An entry is a member whose scores were found, in a cache or by  *)
(* a worker. The rows of a snapshot carry its generation.                  *)

Entry == [qq : Player, seen : Time, hit : BOOLEAN]
NoRun == [pc |-> "none", gen |-> 0, started |-> 0, members |-> {}, todo |-> {}, pending |-> {},
          live |-> {}, entries |-> {}, skipped |-> 0, processed |-> 0]

NoRanking == [gen |-> 0]
Hits(entries) == Cardinality({e \in entries : e.hit})

(* The statements of ranking_cache, in order. *)
Statements(ns) == IF ns = "b50" THEN <<"members", "charts", "entries", "fit">>
                                ELSE <<"members", "entries">>
NoRead   == [n \in {"members", "charts", "entries", "fit"} |-> {}]
NoReader == [pc |-> "idle", ns |-> "b50", at |-> 0, gen |-> 0, got |-> NoRead, report |-> {}]

GroupTypeOK ==
  /\ \A ns \in Namespace :
       /\ run[ns].pc \in {"none", "caches", "joining", "spawning"} /\ run[ns].gen \in Nat
       /\ run[ns].started <= clock /\ run[ns].members \subseteq Player
       /\ run[ns].pending \cap run[ns].live = {}
       /\ Cardinality(run[ns].live) <= AtOnce
       /\ run[ns].entries \subseteq Entry
       /\ ranking[ns].gen \in 0..run[ns].gen
  /\ \A r \in Reader : reader[r].pc \in {"idle", "read", "report", "absent", "invalid"}

TypeOK == CachesTypeOK /\ GroupTypeOK

Init ==
  /\ CachesInit
  /\ run = [ns \in Namespace |-> NoRun]
  /\ ranking = [ns \in Namespace |-> NoRanking]
  /\ reader = [r \in Reader |-> NoReader]
  /\ published = {}

-----------------------------------------------------------------------------
(* The refresh.                                                            *)

Run(ns, rec) == run' = [run EXCEPT ![ns] = rec]
Spawned(ns, who) == query' = [a \in Asker |->
  IF a \in {ns} \X who THEN WorkerQuery(a, run[ns].started) ELSE query[a]]

(* The job starts, with the now of the call that started it, and reads the *)
(* group's members.                                                        *)
StartRun(ns) ==
  /\ run[ns].pc = "none" /\ Spend("runs")
  /\ \A p \in Player : At(<<ns, p>>, "idle")
  /\ \E members \in SUBSET Player :
       Run(ns, [NoRun EXCEPT !.pc = "caches", !.gen = run[ns].gen + 1, !.started = clock,
                             !.members = members, !.todo = members])
  /\ UNCHANGED <<clock, stored, settings, query, ranking, reader, published>>

(* What the cache has of a member for this refresh. *)
Cached(ns, p) ==
  IF ns = "b50" THEN B50Hit(p, Latest(run[ns].started))
                ELSE FullHit(p, "diving_fish", Latest(run[ns].started))
CachedSeen(ns, p) ==
  IF ns = "b50" THEN b50[p].seen
  ELSE IF full[p].records = {} THEN full[p].marker.stamp
  ELSE CHOOSE t \in {r.seen : r \in full[p].records} : TRUE

(* A member in the cache is an entry; one that is not, or whose cache      *)
(* cannot be read, is left to the workers.                                 *)
LookInCache(ns, p) ==
  /\ run[ns].pc = "caches" /\ p \in run[ns].todo
  /\ IF Cached(ns, p)
     THEN Run(ns, [run[ns] EXCEPT
            !.todo = @ \ {p}, !.processed = @ + 1,
            !.entries = @ \cup {[qq |-> p, seen |-> CachedSeen(ns, p), hit |-> TRUE]}])
     ELSE Run(ns, [run[ns] EXCEPT !.todo = @ \ {p}, !.pending = @ \cup {p}])
  /\ UNCHANGED <<cacheVars, ranking, reader, published>>

(* The first workers, as many as may run at once. *)
SpawnFirst(ns) ==
  /\ run[ns].pc = "caches" /\ run[ns].todo = {}
  /\ \E first \in SUBSET run[ns].pending :
       /\ Cardinality(first) = IF Cardinality(run[ns].pending) < AtOnce
                               THEN Cardinality(run[ns].pending) ELSE AtOnce
       /\ Run(ns, [run[ns] EXCEPT !.pc = "joining", !.pending = @ \ first, !.live = first])
       /\ Spawned(ns, first)
  /\ UNCHANGED <<clock, stored, settings, budget, ranking, reader, published>>

(* is_skippable: what a refresh passes over. *)
Skippable(ns) == IF ns = "b50" THEN {"unavailable", "rejected"} ELSE {"rejected"}

(* Mutant: a place is refilled only after an answer. *)
NextAfterAnswer(ns, pc) ==
  IF run[ns].pending # {} /\ pc = "answered" THEN "spawning" ELSE "joining"

(* A worker that is over makes place for the next member. *)
NextAfter(ns, pc) == IF run[ns].pending # {} THEN "spawning" ELSE "joining"

(* A worker is joined: its member is an entry or is skipped. *)
Join(ns, p) ==
  LET q == query[<<ns, p>>] IN
  /\ run[ns].pc = "joining" /\ p \in run[ns].live
  /\ \/ /\ q.pc = "answered"
        /\ Run(ns, [run[ns] EXCEPT !.pc = NextAfter(ns, q.pc), !.live = @ \ {p},
                      !.processed = @ + 1,
                      !.entries = @ \cup {[qq |-> p, seen |-> q.seen, hit |-> FALSE]}])
     \/ /\ q.pc \in Skippable(ns)
        /\ Run(ns, [run[ns] EXCEPT !.pc = NextAfter(ns, q.pc), !.live = @ \ {p},
                      !.processed = @ + 1, !.skipped = @ + 1])
  /\ query' = [query EXCEPT ![<<ns, p>>] = NoQuery]
  /\ UNCHANGED <<clock, stored, settings, budget, ranking, reader, published>>

SpawnNext(ns) ==
  /\ run[ns].pc = "spawning"
  /\ \E p \in run[ns].pending :
       /\ Run(ns, [run[ns] EXCEPT !.pc = "joining", !.pending = @ \ {p}, !.live = @ \cup {p}])
       /\ Spawned(ns, {p})
  /\ UNCHANGED <<clock, stored, settings, budget, ranking, reader, published>>

(* complete_b50_ranking, complete_song_ranking: one transaction drops the  *)
(* snapshot there was, with its rows, and writes the new one.              *)
Complete(ns) ==
  /\ run[ns].pc = "joining" /\ run[ns].live = {}
  /\ LET snapshot == [gen |-> run[ns].gen, ns |-> ns, fetched |-> clock,
                      started |-> run[ns].started, entries |-> run[ns].entries,
                      members |-> Cardinality(run[ns].members),
                      success |-> Cardinality(run[ns].entries),
                      skipped |-> run[ns].skipped, hits |-> Hits(run[ns].entries)]
     IN /\ ranking' = [ranking EXCEPT ![ns] = snapshot]
        /\ published' = published \cup {snapshot}
  /\ Run(ns, [NoRun EXCEPT !.gen = run[ns].gen])
  /\ UNCHANGED <<cacheVars, reader>>

(* Anything that fails ends the refresh: the members, an identity or the   *)
(* progress cannot be stored, the job is no longer running, a worker       *)
(* failed. The workers are dropped with it (DropWorker).                   *)
RunFails(ns) ==
  /\ run[ns].pc # "none"
  /\ Run(ns, [NoRun EXCEPT !.gen = run[ns].gen])
  /\ UNCHANGED <<cacheVars, ranking, reader, published>>

(* A worker whose refresh is over is aborted at an await, if it is not     *)
(* through before.                                                         *)
DropWorker(ns, p) ==
  /\ run[ns].pc = "none" /\ ~At(<<ns, p>>, "idle")
  /\ query' = [query EXCEPT ![<<ns, p>>] = NoQuery]
  /\ UNCHANGED <<clock, stored, settings, budget, groupVars>>

ClearRanking(ns) ==
  /\ ranking[ns] # NoRanking
  /\ ranking' = [ranking EXCEPT ![ns] = NoRanking]
  /\ UNCHANGED <<cacheVars, run, reader, published>>

RunStep(ns) ==
  \/ StartRun(ns) \/ SpawnFirst(ns) \/ SpawnNext(ns) \/ Complete(ns)
  \/ RunFails(ns) \/ ClearRanking(ns)
  \/ \E p \in Player : LookInCache(ns, p) \/ Join(ns, p) \/ DropWorker(ns, p)

-----------------------------------------------------------------------------
(* A report. Each statement selects the rows of the generation that the    *)
(* first statement found, which are all there or all gone.                 *)

Reads(r, rec) == reader' = [reader EXCEPT ![r] = rec]

OpenReport(r, ns) ==
  /\ reader[r].pc = "idle" /\ Spend("reads")
  /\ Reads(r, [NoReader EXCEPT !.ns = ns, !.at = 1, !.gen = ranking[ns].gen,
                               !.pc = IF ranking[ns] = NoRanking THEN "absent" ELSE "read"])
  /\ UNCHANGED <<clock, stored, settings, query, run, ranking, published>>

(* Mutant: the rows are selected by namespace and group alone. *)
AnyRows(ns, gen) ==
  IF ranking[ns] = NoRanking THEN {}
  ELSE {[qq |-> e.qq, seen |-> e.seen, gen |-> ranking[ns].gen] : e \in ranking[ns].entries}

Rows(ns, gen) ==
  IF ranking[ns] = NoRanking \/ ranking[ns].gen # gen THEN {}
  ELSE {[qq |-> e.qq, seen |-> e.seen, gen |-> gen] : e \in ranking[ns].entries}

ReadRows(r) ==
  /\ reader[r].pc = "read" /\ reader[r].at <= Len(Statements(reader[r].ns))
  /\ Reads(r, [reader[r] EXCEPT !.at = @ + 1,
                 !.got[Statements(reader[r].ns)[reader[r].at]] =
                    Rows(reader[r].ns, reader[r].gen)])
  /\ UNCHANGED <<cacheVars, run, ranking, published>>

Of(rows, p) == {row \in rows : row.qq = p}
QQs(rows)   == {row.qq : row \in rows}

(* The rows are put together. A B50 entry needs its member and its fit     *)
(* sections, or the report fails; its charts may be missing. A song's      *)
(* records need their member, or are left out.                             *)
PutTogether(r) ==
  LET got == reader[r].got
      needed == IF reader[r].ns = "b50" THEN QQs(got["members"]) \cap QQs(got["fit"])
                                        ELSE QQs(got["entries"])
      line(row) == [qq |-> row.qq, from |-> {row} \cup Of(got["members"], row.qq)
                                             \cup Of(got["charts"], row.qq)
                                             \cup Of(got["fit"], row.qq),
                    charts |-> Of(got["charts"], row.qq) # {}]
  IN
  /\ reader[r].pc = "read" /\ reader[r].at > Len(Statements(reader[r].ns))
  /\ Reads(r, IF QQs(got["entries"]) \subseteq needed
              THEN [reader[r] EXCEPT !.pc = "report",
                      !.report = {line(row) : row \in {e \in got["entries"] :
                                                 e.qq \in QQs(got["members"])}}]
              ELSE [reader[r] EXCEPT !.pc = "invalid"])
  /\ UNCHANGED <<cacheVars, run, ranking, published>>

CloseReport(r) ==
  /\ reader[r].pc \in {"report", "absent", "invalid"}
  /\ Reads(r, NoReader)
  /\ UNCHANGED <<cacheVars, run, ranking, published>>

ReportStep(r) ==
  \/ \E ns \in Namespace : OpenReport(r, ns)
  \/ ReadRows(r) \/ PutTogether(r) \/ CloseReport(r)

-----------------------------------------------------------------------------
Next ==
  \/ CachesNext /\ UNCHANGED groupVars
  \/ \E ns \in Namespace : RunStep(ns)
  \/ \E r \in Reader : ReportStep(r)

Spec == Init /\ [][Next]_vars

-----------------------------------------------------------------------------
(* Properties.                                                             *)

(* A ranking accounts for every member of its refresh: an entry or a skip  *)
(* for each, whatever the order in which caches and workers answered; and  *)
(* no entry is older than the reset before its refresh, wherever it came   *)
(* from.                                                                   *)
RankingAccountsForMembers ==
  \A s \in published :
    /\ s.success + s.skipped = s.members
    /\ s.hits <= s.success
    /\ \A e \in s.entries : e.seen >= Latest(s.started)

(* A report that is read while the ranking is replaced or cleared is one   *)
(* snapshot, whole, or has no lines at all; it never mixes two, and never  *)
(* has part of the members.                                                *)
ReportIsOneSnapshot ==
  \A r \in Reader : reader[r].pc = "report" /\ reader[r].report # {} =>
    \E s \in published :
      /\ s.ns = reader[r].ns /\ s.gen = reader[r].gen
      /\ QQs(reader[r].report) = QQs(s.entries)
      /\ \A l \in reader[r].report :
           /\ \A row \in l.from : row.gen = s.gen /\ \E e \in s.entries :
                                    e.qq = row.qq /\ e.seen = row.seen
           /\ s.ns = "b50" => l.charts

=============================================================================
