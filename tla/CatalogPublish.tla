---------------------------- MODULE CatalogPublish ----------------------------
(***************************************************************************)
(* The catalog files of one process and the snapshot it serves from them:  *)
(* a refresh that replaces the files of one source after the other and     *)
(* rolls a failed bundle back, tools that edit the alias document, the     *)
(* reload that both end with, and a crash between any two renames.         *)
(*                                                                         *)
(* The refresh holds refresh_lock, reloads and alias edits hold            *)
(* reload_lock; publishing a bundle takes only the former.  A step is one  *)
(* file operation another thread may see.                                  *)
(***************************************************************************)
EXTENDS Integers, Sequences, SequencesExt

CONSTANTS
  Setups,      \* how the process may be set up: the enabled sources, the files a
               \* snapshot is built from in reading order, and the bounds refreshes,
               \* edits (of the alias document) and faults (operations that fail)
  Targets,     \* the files of each source, in the order they are replaced
  Optional,    \* files that need not exist when the process starts
  Tagged,      \* the source with an entity tag (DivingFish), or none of them
  EtagFile,    \* its sidecar
  Doc,         \* the alias document
  Alias,       \* aliases the tools add and delete
  Caller,      \* concurrent alias tool calls
  MaxVersion,  \* bound: versions a source publishes upstream
  MaxCrashes   \* bound: kills

(* The bundles are disjoint, one source at most has a tag, and a file that  *)
(* need not exist is all its source has.                                   *)
ASSUME TargetsAssumption ==
  /\ \A s \in DOMAIN Targets :
       /\ Targets[s] \in Seq(ToSet(Targets[s])) /\ Len(Targets[s]) > 0 /\ IsInjective(Targets[s])
       /\ \A t \in DOMAIN Targets \ {s} : ToSet(Targets[s]) \cap ToSet(Targets[t]) = {}
       /\ {Doc, EtagFile} \cap ToSet(Targets[s]) = {}
       /\ ToSet(Targets[s]) \cap Optional # {} => Len(Targets[s]) = 1 /\ s \notin Tagged
  /\ Doc # EtagFile /\ \A s, t \in Tagged : s = t
  /\ \A x \in Setups : x.sources \subseteq DOMAIN Targets /\ Doc \in ToSet(x.loaded)
                     /\ x.loaded \in Seq(ToSet(x.loaded))
ASSUME CallerAssumption == Caller \cap {"free", "refresh"} = {}

VARIABLES
  setup,     \* the setup of this process, which never changes
  disk,      \* every file: its bytes and its revision (size and mtime)
  served,    \* the published snapshot: bytes and revision of every file
  upstream,  \* what each source currently offers
  clock,     \* the last revision handed out: a later file has a later mtime
  horizon,   \* revisions up to this one are older than the TTL
  life,      \* whether the process is up
  lock,      \* holder of reload_lock
  load,      \* the build_snapshot in progress
  ref,       \* the refresh in progress
  alias,     \* the alias calls in flight
  acked,     \* what the last successful call told of an alias (history)
  torn,      \* sources a crash or a failed rollback left half replaced (history)
  count      \* what is left of the bounds

fileVars == <<disk, clock>>
vars == <<setup, fileVars, served, upstream, horizon, life, lock, load, ref, alias, acked, torn, count>>

-----------------------------------------------------------------------------
(* Values.                                                                 *)

Source == setup.sources   \* the enabled catalog sources
Loaded == setup.loaded    \* the files of a snapshot

Missing == -1   \* the bytes of a file that is not there
Absent  == 0    \* and its revision
File    == (UNION {ToSet(Targets[s]) : s \in Source}) \cup ToSet(Loaded) \cup {EtagFile}
BytesOf(fs) == [f \in fs |-> disk[f].bytes]

(* Mutant: the entity tag is replaced before the documents. *)
TagFirst(s, tag) == IF tag THEN <<EtagFile>> \o Targets[s] ELSE Targets[s]

(* The files of a bundle in the order publish_updated prepares them; an    *)
(* answer without an entity tag leaves the sidecar as it is.               *)
Prepared(s, tag) == IF tag THEN Append(Targets[s], EtagFile) ELSE Targets[s]

(* What status calls expired: a target is missing or older than the TTL.   *)
Expired(s) == \E f \in ToSet(Targets[s]) :
                disk[f].bytes = Missing \/ disk[f].stamp <= horizon

Snapshot == ToSet(Loaded)
NoLoad == [pc |-> "idle", i |-> 1, before |-> <<>>, seen |-> <<>>, instant |-> <<>>]
NoRef  == [pc |-> "idle", left |-> {}, got |-> <<>>, same |-> {}, start |-> 0,
           now |-> {}, files |-> <<>>, i |-> 1, stamp |-> 0, prev |-> <<>>,
           changed |-> FALSE, unsafe |-> {}]
NoCall == [pc |-> "idle", op |-> "in", what |-> {}]

Spend(what) == count' = [count EXCEPT ![what] = @ - 1]
Can(what) == life = "up" /\ count[what] > 0 /\ UNCHANGED setup
Fault == Can("faults") /\ Spend("faults")
Fine  == life = "up" /\ UNCHANGED <<setup, count>>

(* What starts out: one version of every source, complete or absent, and a *)
(* snapshot of exactly these files.                                        *)
Init ==
  \E x \in Setups, gone \in SUBSET Optional, tagged \in BOOLEAN :
    /\ setup = x
    /\ gone \subseteq File /\ (tagged => Source \cap Tagged # {})
    /\ disk = [f \in File |->
                 [bytes |-> IF f = Doc THEN {} ELSE
                            IF f \in gone \/ (f = EtagFile /\ ~tagged) THEN Missing ELSE 0,
                  stamp |-> IF f \in gone THEN Absent ELSE 1]]
    /\ served = [bytes |-> BytesOf(Snapshot), rev |-> [f \in Snapshot |-> disk[f].stamp]]
    /\ clock = 1 /\ horizon = 0
    /\ upstream = [s \in Source |-> 0]
    /\ life = "up" /\ lock = "free"
    /\ load = NoLoad /\ ref = NoRef
    /\ alias = [c \in Caller |-> NoCall]
    /\ acked = [a \in Alias |-> "unknown"] /\ torn = {}
    /\ count = [refreshes |-> x.refreshes, edits |-> x.edits, faults |-> x.faults,
                crashes |-> MaxCrashes]

-----------------------------------------------------------------------------
(* The world: a source offers a new version, files grow older than the TTL. *)
(* Both are looked at once in a refresh, when it plans and fetches, so they *)
(* move between refreshes.                                                  *)

UpstreamMoves(s) ==
  /\ ref.pc = "idle" /\ upstream[s] < MaxVersion
  /\ upstream' = [upstream EXCEPT ![s] = @ + 1]
  /\ UNCHANGED <<setup, fileVars, served, horizon, life, lock, load, ref, alias, acked, torn, count>>

TimePasses ==
  /\ ref.pc = "idle" /\ horizon < clock
  /\ horizon' = clock
  /\ UNCHANGED <<setup, fileVars, served, upstream, life, lock, load, ref, alias, acked, torn, count>>

-----------------------------------------------------------------------------
(* The refresh.                                                            *)

RefreshStep == UNCHANGED <<served, upstream, horizon, life, lock, load, alias, acked>>
Settled(s) == [ref EXCEPT !.left = @ \ {s}, !.now = {}]

(* What plan_at finds due.                                                 *)
Due(force) == {s \in Source : force \/ Expired(s)}

(* A tag on disk that still names the offered version is answered with     *)
(* "not modified".                                                         *)
Unmodified(s) == s \in Tagged /\ disk[EtagFile].bytes = upstream[s]

(* The refresh plans and fetches what is due; a fetch may fail.            *)
Plan ==
  /\ ref.pc = "idle" /\ Can("refreshes")
  /\ \E force \in BOOLEAN, failed \in SUBSET Source :
       /\ Due(force) # {} /\ failed \subseteq Due(force)
       /\ ref' = [NoRef EXCEPT !.pc = "source", !.left = Due(force) \ failed,
            !.got = upstream, !.start = clock + 1,
            !.same = {s \in Due(force) : Unmodified(s)}]
  /\ clock' = clock + 1
  /\ Spend("refreshes")
  /\ RefreshStep /\ UNCHANGED <<disk, torn>>

(* prepare_document, prepare_etag and backup: temporary files only.  A     *)
(* restored backup is a new file with the old bytes.                       *)
Prepare(s) ==
  /\ ref.pc = "source" /\ s \in ref.left \ ref.same
  /\ \/ /\ Fine
        /\ \E tag \in BOOLEAN : LET files == Prepared(s, tag) IN
             /\ tag => s \in Tagged
             /\ ref' = [ref EXCEPT !.pc = "persist", !.left = @ \ {s}, !.now = {s},
                  !.files = files, !.i = 1, !.stamp = clock + 1,
                  !.prev = [f \in ToSet(files) |->
                              [bytes |-> disk[f].bytes,
                               stamp |-> IF disk[f].bytes = Missing THEN Absent ELSE clock + 2]]]
        /\ clock' = clock + 2
     \/ /\ Fault
        /\ ref' = Settled(s)
        /\ UNCHANGED clock
  /\ RefreshStep /\ UNCHANGED <<disk, torn>>

(* One rename of persist_all.                                              *)
Persist(s) ==
  /\ ref.pc = "persist" /\ ref.now = {s}
  /\ \/ /\ Fine
        /\ disk' = [disk EXCEPT ![ref.files[ref.i]] = [bytes |-> ref.got[s], stamp |-> ref.stamp]]
        /\ ref' = [ref EXCEPT !.i = @ + 1,
                              !.pc = IF ref.i = Len(ref.files) THEN "sync" ELSE "persist"]
     \/ /\ Fault
        /\ ref' = IF ref.i = 1 THEN [ref EXCEPT !.pc = "source"]
                  ELSE [ref EXCEPT !.pc = "rollback"]
        /\ UNCHANGED disk
  /\ RefreshStep /\ UNCHANGED <<clock, torn>>

(* The directories are synced: the bundle is published or taken back.      *)
SyncParents(s) ==
  /\ ref.pc = "sync" /\ ref.now = {s}
  /\ \/ /\ Fine
        /\ ref' = [ref EXCEPT !.pc = "source", !.changed = TRUE]
        /\ torn' = torn \ {s}
     \/ /\ Fault
        /\ ref' = [ref EXCEPT !.pc = "rollback"]
        /\ UNCHANGED torn
  /\ RefreshStep /\ UNCHANGED fileVars

(* Mutant: the file replaced last is not restored. *)
RestoreAllButLast(s) ==
  /\ ref.i > 1 /\ Fine
  /\ IF ref.i - 1 = Len(ref.files) THEN UNCHANGED disk
     ELSE LET f == ref.files[ref.i - 1] IN disk' = [disk EXCEPT ![f] = ref.prev[f]]
  /\ ref' = [ref EXCEPT !.i = @ - 1]
  /\ UNCHANGED torn

(* One step of rollback, the last file first.                              *)
RestoreFile(s) ==
  /\ ref.i > 1 /\ Fine
  /\ LET f == ref.files[ref.i - 1] IN disk' = [disk EXCEPT ![f] = ref.prev[f]]
  /\ ref' = [ref EXCEPT !.i = @ - 1]
  /\ UNCHANGED torn

(* rollback stops at the first error; its last step syncs the directories. *)
Rollback(s) ==
  /\ ref.pc = "rollback" /\ ref.now = {s}
  /\ \/ RestoreFile(s)
     \/ /\ ref.i = 1 /\ Fine
        /\ ref' = [ref EXCEPT !.pc = "source"]
        /\ UNCHANGED <<disk, torn>>
     \/ /\ Fault
        /\ ref' = [ref EXCEPT !.pc = "source", !.unsafe = @ \cup {s}]
        /\ torn' = torn \cup {s}
        /\ UNCHANGED disk
  /\ RefreshStep /\ UNCHANGED clock

(* publish_not_modified: the tag is written again, then the mtime of every *)
(* target becomes the start of the refresh.                                *)
Touch(s) ==
  /\ ref.pc = "source" /\ s \in ref.left \cap ref.same
  /\ \/ /\ Fine
        /\ disk' = [f \in File |-> IF f \in ToSet(Targets[s])
                                   THEN [disk[f] EXCEPT !.stamp = ref.start] ELSE disk[f]]
        /\ ref' = [Settled(s) EXCEPT !.changed = TRUE]
     \/ /\ Fault
        /\ \E tagged \in SUBSET {s} : ref' = [Settled(s) EXCEPT !.unsafe = @ \cup tagged]
        /\ UNCHANGED disk
  /\ RefreshStep /\ UNCHANGED <<clock, torn>>

(* Every due source is through: reload, unless nothing changed or the disk *)
(* is unsafe.                                                              *)
Conclude ==
  /\ ref.pc = "source" /\ ref.left = {} /\ Fine
  /\ ref' = [ref EXCEPT !.pc = IF ref.changed /\ ref.unsafe = {} THEN "reload" ELSE "idle"]
  /\ RefreshStep /\ UNCHANGED <<fileVars, torn>>

-----------------------------------------------------------------------------
(* build_snapshot under reload_lock: the revision of every file, the bytes *)
(* of every file, the revisions again.                                     *)

Begun == [NoLoad EXCEPT !.pc = "before"]

(* reload: the refresh takes reload_lock.                                  *)
Reload ==
  /\ ref.pc = "reload" /\ lock = "free" /\ Fine
  /\ lock' = "refresh" /\ load' = Begun
  /\ ref' = [ref EXCEPT !.pc = "loading"]
  /\ UNCHANGED <<fileVars, served, upstream, horizon, life, alias, acked, torn>>

(* The guard is dropped and whoever held it learns how the load went.  An  *)
(* alias call that succeeds has told its caller that the alias is in or    *)
(* out.                                                                    *)
Release(ok) ==
  /\ lock' = "free" /\ load' = NoLoad
  /\ ref' = IF lock = "refresh" THEN [ref EXCEPT !.pc = "idle"] ELSE ref
  /\ alias' = [c \in Caller |-> IF c = lock THEN NoCall ELSE alias[c]]
  /\ acked' = [a \in Alias |-> IF ok /\ lock \in Caller /\ a \in alias[lock].what
                               THEN alias[lock].op ELSE acked[a]]

Step(next) == IF load.i < Len(Loaded) THEN [load EXCEPT !.i = @ + 1]
              ELSE [load EXCEPT !.pc = next, !.i = 1]
LoadStep == UNCHANGED <<fileVars, served, upstream, horizon, life, torn>>
Continue(to) == load' = to /\ Fine /\ UNCHANGED <<lock, ref, alias, acked>>

ReadRevision ==
  LET f == Loaded[load.i] IN
  /\ load.pc = "before"
  /\ Continue([Step("read") EXCEPT !.before = Append(@, disk[f].stamp),
                                   !.instant = BytesOf(Snapshot)])
  /\ LoadStep

(* A document that does not parse fails the load.                          *)
ReadBytes ==
  LET f == Loaded[load.i] IN
  /\ load.pc = "read"
  /\ \/ Continue([Step("after") EXCEPT !.seen = Append(@, disk[f].bytes)])
     \/ Fault /\ Release(FALSE)
  /\ LoadStep

(* Mutant: the revision is not read a second time. *)
NeverCompare == load.pc = "after" /\ Continue(Step("publish")) /\ LoadStep

(* The comparison of before and after, file by file.                       *)
CompareRevision ==
  LET f == Loaded[load.i] IN
  /\ load.pc = "after"
  /\ IF load.before[load.i] = disk[f].stamp THEN Continue(Step("publish"))
                                            ELSE Fine /\ Release(FALSE)
  /\ LoadStep

(* The new snapshot replaces the old one in one store.                     *)
PublishSnapshot ==
  LET at(f) == CHOOSE i \in DOMAIN Loaded : Loaded[i] = f IN
  /\ load.pc = "publish" /\ Fine
  /\ served' = [bytes |-> [f \in Snapshot |-> load.seen[at(f)]],
                rev   |-> [f \in Snapshot |-> load.before[at(f)]]]
  /\ Release(TRUE)
  /\ UNCHANGED <<fileVars, upstream, horizon, life, torn>>

-----------------------------------------------------------------------------
(* add_alias and delete_alias.                                             *)

AliasStep == UNCHANGED <<served, upstream, horizon, life, torn>>

(* Mutant: the call does not wait for the lock. *)
BeginAliasUnlocked(c) ==
  /\ alias[c].pc = "idle"
  /\ Can("edits") /\ Spend("edits")
  /\ lock' = c
  /\ \E a \in Alias, op \in {"in", "out"} :
       alias' = [alias EXCEPT ![c] = [pc |-> "edit", op |-> op, what |-> {a}]]
  /\ AliasStep /\ UNCHANGED <<fileVars, load, ref, acked>>

(* The call queues for reload_lock and gets it.                            *)
BeginAlias(c) ==
  /\ alias[c].pc = "idle" /\ lock = "free"
  /\ Can("edits") /\ Spend("edits")
  /\ lock' = c
  /\ \E a \in Alias, op \in {"in", "out"} :
       alias' = [alias EXCEPT ![c] = [pc |-> "edit", op |-> op, what |-> {a}]]
  /\ AliasStep /\ UNCHANGED <<fileVars, load, ref, acked>>

Edited(c) == IF alias[c].op = "in" THEN disk[Doc].bytes \cup alias[c].what
                                   ELSE disk[Doc].bytes \ alias[c].what

(* The document is read, changed and replaced.  Adding what is there and   *)
(* removing what is not leave it alone; the replacement may fail before    *)
(* its rename, or only when the directory is synced.                       *)
Edit(c) ==
  /\ alias[c].pc = "edit" /\ lock = c
  /\ IF Edited(c) = disk[Doc].bytes
     THEN /\ Fine
          /\ IF alias[c].op = "in"
             THEN /\ alias' = [alias EXCEPT ![c].pc = "check"]
                  /\ UNCHANGED <<lock, load, ref, acked>>
             ELSE Release(FALSE)
          /\ UNCHANGED fileVars
     ELSE \/ Fault /\ Release(FALSE) /\ UNCHANGED fileVars
          \/ /\ clock' = clock + 1
             /\ disk' = [disk EXCEPT ![Doc] = [bytes |-> Edited(c), stamp |-> clock + 1]]
             /\ \/ /\ Fine
                   /\ alias' = [alias EXCEPT ![c].pc = "load"]
                   /\ load' = Begun
                   /\ UNCHANGED <<lock, ref>>
                \/ /\ Fault
                   /\ lock' = "free" /\ alias' = [alias EXCEPT ![c] = NoCall]
                   /\ UNCHANGED <<load, ref>>
             /\ acked' = [a \in Alias |-> IF a \in alias[c].what THEN "unknown" ELSE acked[a]]
  /\ AliasStep

(* Mutant: an alias that was there already is answered at once. *)
AnswerUnchecked(c) ==
  /\ alias[c].pc = "check" /\ Fine
  /\ Release(TRUE)
  /\ AliasStep /\ UNCHANGED fileVars

(* An alias that was there already is answered without a reload, if the    *)
(* snapshot is the one of these files.                                     *)
Check(c) ==
  /\ alias[c].pc = "check" /\ Fine
  /\ IF \A f \in Snapshot : served.rev[f] = disk[f].stamp
     THEN Release(TRUE)
     ELSE /\ alias' = [alias EXCEPT ![c].pc = "load"]
          /\ load' = Begun /\ UNCHANGED <<lock, ref, acked>>
  /\ AliasStep /\ UNCHANGED fileVars

-----------------------------------------------------------------------------
(* The process is killed, and started again on the files it left.          *)

Crash ==
  /\ Can("crashes") /\ Spend("crashes")
  /\ life' = "down" /\ lock' = "free"
  /\ load' = NoLoad /\ ref' = NoRef
  /\ alias' = [c \in Caller |-> NoCall]
  /\ torn' = torn \cup (IF ref.pc \in {"persist", "sync", "rollback"} THEN ref.now ELSE {})
  /\ UNCHANGED <<fileVars, served, upstream, horizon, acked>>

(* CatalogStore::load, before anything else runs.                          *)
Start ==
  /\ life = "down" /\ life' = "up"
  /\ served' = [bytes |-> BytesOf(Snapshot), rev |-> [f \in Snapshot |-> disk[f].stamp]]
  /\ UNCHANGED <<setup, fileVars, upstream, horizon, lock, load, ref, alias, acked, torn, count>>

Publication == \E s \in Source : Prepare(s) \/ Persist(s) \/ SyncParents(s) \/ Rollback(s) \/ Touch(s)
Refresh == Plan \/ Publication \/ Conclude \/ Reload
Load == ReadRevision \/ ReadBytes \/ CompareRevision \/ PublishSnapshot
AliasCall == \E c \in Caller : BeginAlias(c) \/ Edit(c) \/ Check(c)
World == TimePasses \/ (\E s \in Source : UpstreamMoves(s)) \/ Crash \/ Start

(* Nothing is in flight. *)
Quiet == life = "up" /\ ref.pc = "idle" /\ lock = "free" /\ UNCHANGED vars

Next == Refresh \/ Load \/ AliasCall \/ World \/ Quiet
Spec == Init /\ [][Next]_vars

-----------------------------------------------------------------------------
(* Properties.                                                             *)

(* A snapshot is a state the catalog directory really had at one instant:  *)
(* however publications and edits overlap build_snapshot, its second look  *)
(* at the revisions throws away a mixture of two states.  The exception is *)
(* a file that both looks miss: it may have been there in between.         *)
ServedWasOnDisk ==
  [][served' # served /\ life = "up" =>
       \A f \in Snapshot : served'.rev[f] # Absent => served'.bytes[f] = load.instant[f]]_vars

(* The entity tag on disk never names a newer version than the document    *)
(* beside it, so a crash or a failure half way through a bundle cannot     *)
(* make every later request answer "not modified" for a document that was  *)
(* never stored.                                                           *)
EtagNeverAhead ==
  \A s \in Source \cap Tagged : \A f \in ToSet(Targets[s]) :
    disk[EtagFile].bytes <= disk[f].bytes

(* Outside its publication all files of a source are of one version,       *)
(* unless a kill or a failed rollback tore it and it was not replaced      *)
(* since: persist_all with its rollback is all or nothing.                 *)
FilesAgree ==
  \A s \in Source \ torn :
    \/ s \in ref.now /\ ref.pc \in {"persist", "sync", "rollback"}
    \/ \A f, g \in ToSet(Targets[s]) : disk[f].bytes = disk[g].bytes

(* A bundle is published whole or not at all, and its tag comes last.      *)
BundlesWhole == FilesAgree /\ EtagNeverAhead

(* The reload that ends a refresh is never disturbed: nobody changes a     *)
(* file under it, so it cannot fail with FilesChangedDuringLoad and leave  *)
(* published sources pending.                                              *)
RefreshReloadUndisturbed ==
  ref.pc = "loading" =>
    \A i \in DOMAIN load.before : load.before[i] = disk[Loaded[i]].stamp

(* A success told to the caller of an alias tool holds for the files and   *)
(* for what the process serves, also after later edits, failed ones,       *)
(* refreshes and restarts.                                                 *)
AckedAliasServed ==
  life = "up" => \A a \in Alias :
    /\ acked[a] = "in"  => a \in disk[Doc].bytes /\ a \in served.bytes[Doc]
    /\ acked[a] = "out" => a \notin disk[Doc].bytes /\ a \notin served.bytes[Doc]
=============================================================================
