-------------------------- MODULE CatalogRefreshJobs --------------------------
(***************************************************************************)
(* The background catalog refresh of one state database: the job table,    *)
(* the OS owner lock, and in every process the coordinator                 *)
(* (CatalogRefreshJobs), its one background task with the progress channel *)
(* and the blocking file publisher, the tool calls that start and poll     *)
(* jobs, shutdown, crash and restart.                                      *)
(*                                                                         *)
(* A step of this module is the code between two points where another      *)
(* thread, process or the scheduler can get in: an await, a transaction,   *)
(* a mutex section.                                                        *)
(***************************************************************************)
EXTENDS Integers, Sequences

CONSTANTS
  Proc,       \* processes that may open the database
  NoProc,     \* the owner lock when no process holds it
  Caller,     \* concurrent tool calls of one process
  Source,     \* enabled catalog sources
  MaxJobs,    \* bound: jobs ever created
  MaxFaults,  \* bound: database statements that fail
  MaxCrashes  \* bound: processes killed

ASSUME BoundsAssumption ==
  /\ MaxJobs \in Nat \ {0}
  /\ MaxFaults \in Nat
  /\ MaxCrashes \in Nat
ASSUME NoProcAssumption == NoProc \notin Proc

VARIABLES
  status,   \* catalog_refresh_jobs.status, "absent" before the insert
  outcome,  \* catalog_refresh_jobs.outcome
  rows,     \* catalog_refresh_job_sources.status of every job and source
  owner,    \* holder of the advisory file lock
  life,     \* where a process is between open and exit
  victim,   \* the active job that shutdown read
  active,   \* runtime.active: the job whose task handle is kept
  slot,     \* runtime.pending_terminal
  task,     \* the background task run_job
  call,     \* the tool calls in flight
  refresh,  \* holder of the process-wide refresh_lock
  writers,  \* blocking publishers that are writing catalog files
  direct,   \* a foreground refresh (background = false)
  faults,   \* failed statements so far
  crashes   \* kills so far

dbVars    == <<status, outcome, rows>>
procVars  == <<active, slot, task, call, refresh, writers, direct>>
vars      == <<dbVars, owner, life, victim, procVars, faults, crashes>>

-----------------------------------------------------------------------------
(* Values.                                                                 *)

JobId    == 1..MaxJobs
NoJob    == 0
Active   == {"queued", "running"}
Terminal == {"completed", "failed", "interrupted"}
Status   == {"absent"} \cup Active \cup Terminal
Outcome  == {"none", "success", "partial_failure", "failed", "interrupted"}

Succeeded == {"updated", "not_modified", "skipped"}
Completed == Succeeded \cup {"failed", "disk_updated_pending_reload"}
RowStatus == {"none", "queued", "pending"} \cup Completed

(* A progress message: the row statuses it writes, "keep" for the others.  *)
Patch == [Source -> RowStatus \cup {"keep"}]

(* PendingTerminal: a terminal state that could not be written yet.        *)
Pending   == [kind: {"none", "finish", "fail"}, id: {NoJob} \cup JobId,
              to: Terminal, outcome: Outcome]
NoPending == [kind |-> "none", id |-> NoJob, to |-> "failed", outcome |-> "failed"]
Finish(id, to, out) == [kind |-> "finish", id |-> id, to |-> to, outcome |-> out]
FailActive(id) == [NoPending EXCEPT !.kind = "fail", !.id = id]

Working == {"marking", "locking", "publishing", "writing", "draining",
            "syncing", "finishing"}
TaskPc  == {"none", "finished", "panicked"} \cup Working
Task    == [pc: TaskPc, id: {NoJob} \cup JobId,
            left: SUBSET Source,               \* due sources not published yet
            now: SUBSET Source,                \* the one being written
            ops: [Source -> {"none"} \cup Completed],  \* operation summaries
            dirty: BOOLEAN,                    \* unsafe_disk_state
            ok: BOOLEAN,                       \* refresh_reporting returned Ok
            lost: BOOLEAN,                     \* progress_failed
            queue: Seq(Patch)]                 \* the unbounded progress channel
NoTask  == [pc |-> "none", id |-> NoJob, left |-> {}, now |-> {},
            ops |-> [s \in Source |-> "none"], dirty |-> FALSE, ok |-> TRUE,
            lost |-> FALSE, queue |-> <<>>]

CallPc == {"idle", "reap", "reaped", "take", "persist", "plan", "insert",
           "reread", "spawn"}
Call   == [pc: CallPc, op: {"start", "status"}, id: {NoJob} \cup JobId,
           hand: Pending]
NoCall == [pc |-> "idle", op |-> "status", id |-> NoJob, hand |-> NoPending]

Stopping == {"aborting", "flushing", "reading", "interrupting", "releasing",
             "closing"}
Life     == {"down", "opening", "up", "closed"} \cup Stopping

TypeOK ==
  /\ status  \in [JobId -> Status]
  /\ outcome \in [JobId -> Outcome]
  /\ rows    \in [JobId -> [Source -> RowStatus]]
  /\ owner   \in Proc \cup {NoProc}
  /\ life    \in [Proc -> Life]
  /\ victim  \in [Proc -> {NoJob} \cup JobId]
  /\ active  \in [Proc -> {NoJob} \cup JobId]
  /\ slot    \in [Proc -> Pending]
  /\ task    \in [Proc -> Task]
  /\ call    \in [Proc -> [Caller -> Call]]
  /\ refresh \in [Proc -> {"free", "job", "direct"}]
  /\ writers \in [Proc -> SUBSET {"job", "direct"}]
  /\ direct  \in [Proc -> {"idle", "waiting", "writing"}]
  /\ faults  \in 0..MaxFaults
  /\ crashes \in 0..MaxCrashes

-----------------------------------------------------------------------------
(* The job store.                                                          *)

Written(p) == life[p] # "closed" /\ UNCHANGED faults

(* A statement fails: the pool is closed, or SQLite reports an error.      *)
Failed(p) ==
  \/ life[p] = "closed" /\ UNCHANGED faults
  \/ life[p] # "closed" /\ faults < MaxFaults /\ faults' = faults + 1

ActiveJobs == {j \in JobId : status[j] \in Active}
Absent     == {j \in JobId : status[j] = "absent"}
Requested(j) == {s \in Source : rows[j][s] # "none"}

Patched(j, patch) ==
  [rows EXCEPT ![j] = [s \in Source |-> IF patch[s] = "keep" THEN @[s] ELSE patch[s]]]

PlanPatch(asked, due) ==
  [s \in Source |-> IF s \in due THEN "pending"
                    ELSE IF s \in asked THEN "skipped" ELSE "keep"]
SourcePatch(s, st) == [r \in Source |-> IF r = s THEN st ELSE "keep"]

(* The row condition of finish and fail_active.                            *)
Accepts(t) ==
  IF t.kind = "finish" THEN status[t.id] = "running" ELSE status[t.id] \in Active

SetTerminal(t) ==
  /\ status'  = [status EXCEPT ![t.id] = t.to]
  /\ outcome' = [outcome EXCEPT ![t.id] = t.outcome]
  /\ UNCHANGED rows

(* Mutant: the job UPDATE forgets its status condition. *)
InterruptSettledJobs(RowsOf, Jobs) ==
  LET hit == Jobs \ Absent IN
  /\ status'  = [j \in JobId |-> IF j \in hit THEN "interrupted" ELSE status[j]]
  /\ outcome' = [j \in JobId |-> IF j \in hit THEN "interrupted" ELSE outcome[j]]
  /\ rows'    = [j \in JobId |-> [s \in Source |->
                   IF j \in RowsOf /\ rows[j][s] \in {"queued", "pending"}
                   THEN "failed" ELSE rows[j][s]]]

(* interrupt_jobs: one transaction over the source rows in RowsOf and over *)
(* the active jobs among Jobs.                                             *)
InterruptJobs(RowsOf, Jobs) ==
  LET hit == Jobs \cap ActiveJobs IN
  /\ status'  = [j \in JobId |-> IF j \in hit THEN "interrupted" ELSE status[j]]
  /\ outcome' = [j \in JobId |-> IF j \in hit THEN "interrupted" ELSE outcome[j]]
  /\ rows'    = [j \in JobId |-> [s \in Source |->
                   IF j \in RowsOf /\ rows[j][s] \in {"queued", "pending"}
                   THEN "failed" ELSE rows[j][s]]]

-----------------------------------------------------------------------------
(* Process lifetime.                                                       *)

Fresh(p) ==
  /\ victim'  = [victim EXCEPT ![p] = NoJob]
  /\ active'  = [active EXCEPT ![p] = NoJob]
  /\ slot'    = [slot EXCEPT ![p] = NoPending]
  /\ task'    = [task EXCEPT ![p] = NoTask]
  /\ call'    = [call EXCEPT ![p] = [c \in Caller |-> NoCall]]
  /\ refresh' = [refresh EXCEPT ![p] = "free"]
  /\ writers' = [writers EXCEPT ![p] = {}]
  /\ direct'  = [direct EXCEPT ![p] = "idle"]

ReleaseOwner(p) == owner' = IF owner = p THEN NoProc ELSE owner

(* open, first half: claim_owner.  A claim of a held lock changes nothing: *)
(* the process reports AlreadyRunning and leaves.                          *)
Claim(p) ==
  /\ life[p] = "down" /\ owner = NoProc
  /\ owner' = p
  /\ life' = [life EXCEPT ![p] = "opening"]
  /\ UNCHANGED <<dbVars, victim, procVars, faults, crashes>>

(* Mutant: the new owner serves without interrupting abandoned jobs. *)
RecoverNothing(p) ==
  /\ life[p] = "opening"
  /\ life' = [life EXCEPT ![p] = "up"]
  /\ UNCHANGED <<dbVars, owner, victim, procVars, faults, crashes>>

(* open, second half: interrupt what the last owner abandoned, or give the *)
(* lock back.                                                              *)
Recover(p) ==
  /\ life[p] = "opening"
  /\ \/ /\ Written(p)
        /\ InterruptJobs(ActiveJobs, JobId)
        /\ life' = [life EXCEPT ![p] = "up"]
        /\ UNCHANGED owner
     \/ /\ Failed(p)
        /\ ReleaseOwner(p)
        /\ life' = [life EXCEPT ![p] = "down"]
        /\ UNCHANGED dbVars
  /\ UNCHANGED <<victim, procVars, crashes>>

(* The kernel drops the lock and every thread of a killed process.         *)
Crash(p) ==
  /\ life[p] # "down" /\ crashes < MaxCrashes
  /\ crashes' = crashes + 1
  /\ life' = [life EXCEPT ![p] = "down"]
  /\ ReleaseOwner(p) /\ Fresh(p)
  /\ UNCHANGED <<dbVars, faults>>

(* After run_public returns, dropping the runtime waits for the blocking   *)
(* threads that already run and drops every async task.                    *)
Exit(p) ==
  /\ life[p] = "closed" /\ writers[p] = {}
  /\ life' = [life EXCEPT ![p] = "down"]
  /\ Fresh(p)
  /\ UNCHANGED <<dbVars, owner, faults, crashes>>

-----------------------------------------------------------------------------
(* The background task run_job.                                            *)

Done(id) == [NoTask EXCEPT !.pc = "finished", !.id = id]

(* The outcomes of persist_pending and of the last write of run_job.       *)
Landed(p, t) == Written(p) /\ Accepts(t) /\ SetTerminal(t)
NotLanded(p, t) ==
  /\ IF Accepts(t) THEN Failed(p) ELSE Failed(p) \/ Written(p)
  /\ UNCHANGED dbVars

MarkRunning(p) ==
  LET t == task[p]
      queued == status[t.id] = "queued" IN
  /\ t.pc = "marking"
  /\ \/ /\ Written(p)
        /\ status' = IF queued THEN [status EXCEPT ![t.id] = "running"] ELSE status
        /\ task' = [task EXCEPT ![p] = IF queued THEN [t EXCEPT !.pc = "locking"]
                                       ELSE Done(t.id)]
        /\ UNCHANGED <<outcome, rows, slot>>
     \/ /\ Failed(p)
        /\ slot' = [slot EXCEPT ![p] = FailActive(t.id)]
        /\ task' = [task EXCEPT ![p] = Done(t.id)]
        /\ UNCHANGED dbVars
  /\ UNCHANGED <<owner, life, victim, active, call, refresh, writers, direct, crashes>>

TaskStep(p) ==
  UNCHANGED <<owner, life, victim, active, call, direct, crashes>>

(* refresh_with_progress takes refresh_lock and plans again; what is due   *)
(* depends on file ages and need not be what start planned.                *)
Plan(p) ==
  LET t == task[p] IN
  /\ t.pc = "locking" /\ refresh[p] = "free"
  /\ \/ \E due \in SUBSET Requested(t.id) :
          /\ task' = [task EXCEPT ![p] =
               [t EXCEPT !.pc = IF due = {} THEN "draining" ELSE "publishing",
                         !.left = due,
                         !.queue = Append(@, PlanPatch(Requested(t.id), due))]]
          /\ refresh' = IF due = {} THEN refresh ELSE [refresh EXCEPT ![p] = "job"]
     \/ /\ task' = [task EXCEPT ![p] = [t EXCEPT !.pc = "draining", !.ok = FALSE]]
        /\ UNCHANGED refresh
  /\ TaskStep(p) /\ UNCHANGED <<dbVars, slot, writers, faults>>

Report(t, s, op) ==
  [t EXCEPT !.pc = "publishing", !.now = {}, !.left = @ \ {s}, !.ops[s] = op,
            !.queue = Append(@, SourcePatch(s, op))]

(* The stored etag cannot be read, or a fetch task panics: the refresh     *)
(* returns an error after it announced its plan, before any publication.   *)
PrepareFails(p) ==
  LET t == task[p] IN
  /\ t.pc = "publishing" /\ \A s \in Source : t.ops[s] = "none"
  /\ task' = [task EXCEPT ![p] = [t EXCEPT !.pc = "draining", !.ok = FALSE]]
  /\ refresh' = [refresh EXCEPT ![p] = "free"]
  /\ TaskStep(p) /\ UNCHANGED <<dbVars, slot, writers, faults>>

(* The fetch of s failed, timed out or returned another source's bundle.   *)
FetchFailed(p) ==
  LET t == task[p] IN
  /\ t.pc = "publishing"
  /\ \E s \in t.left : task' = [task EXCEPT ![p] = Report(t, s, "failed")]
  /\ TaskStep(p) /\ UNCHANGED <<dbVars, slot, refresh, writers, faults>>

(* spawn_blocking(publish): from here the closure runs to its end whatever *)
(* happens to the task that waits for it.                                  *)
PublishBegin(p) ==
  LET t == task[p] IN
  /\ t.pc = "publishing"
  /\ \E s \in t.left : task' = [task EXCEPT ![p] = [t EXCEPT !.pc = "writing", !.now = {s}]]
  /\ writers' = [writers EXCEPT ![p] = @ \cup {"job"}]
  /\ TaskStep(p) /\ UNCHANGED <<dbVars, slot, refresh, faults>>

(* The publisher returns: published, failed and rolled back, failed with   *)
(* the files left changed, or panicked (the refresh returns Err(Join)).    *)
PublishEnd(p) ==
  LET t == task[p] IN
  /\ t.pc = "writing"
  /\ writers' = [writers EXCEPT ![p] = @ \ {"job"}]
  /\ \/ \E s \in t.now, op \in {"updated", "not_modified", "failed"}, dirty \in BOOLEAN :
          /\ dirty => op = "failed"
          /\ task' = [task EXCEPT ![p] = [Report(t, s, op) EXCEPT !.dirty = @ \/ dirty]]
          /\ UNCHANGED refresh
     \/ /\ task' = [task EXCEPT ![p] = [t EXCEPT !.pc = "draining", !.ok = FALSE, !.now = {}]]
        /\ refresh' = [refresh EXCEPT ![p] = "free"]
  /\ TaskStep(p) /\ UNCHANGED <<dbVars, slot, faults>>

Published == {"updated", "not_modified"}
MarkPendingReload(ops) ==
  [s \in Source |-> IF ops[s] \in Published THEN "disk_updated_pending_reload" ELSE ops[s]]

(* Every due source is through: reload the catalog unless the disk is      *)
(* unsafe or unchanged, read the source ages again, drop refresh_lock.     *)
Reload(p) ==
  LET t == task[p]
      changed == \E s \in Source : t.ops[s] \in Published IN
  /\ t.pc = "publishing" /\ t.left = {}
  /\ \E reloaded, read \in BOOLEAN :
       task' = [task EXCEPT ![p] =
         [t EXCEPT !.pc = "draining", !.ok = read,
                   !.ops = IF t.dirty \/ (changed /\ ~reloaded)
                           THEN MarkPendingReload(@) ELSE @]]
  /\ refresh' = [refresh EXCEPT ![p] = "free"]
  /\ TaskStep(p) /\ UNCHANGED <<dbVars, slot, writers, faults>>

(* The progress half of the join: one message, one transaction.            *)
PersistProgress(p) ==
  LET t == task[p] IN
  /\ t.pc \in Working /\ t.queue # <<>>
  /\ \/ /\ Written(p) /\ status[t.id] = "running"
        /\ rows' = Patched(t.id, Head(t.queue))
        /\ task' = [task EXCEPT ![p].queue = Tail(@)]
     \/ /\ Failed(p)
        /\ task' = [task EXCEPT ![p] = [t EXCEPT !.queue = Tail(@), !.lost = TRUE]]
        /\ UNCHANGED rows
  /\ TaskStep(p) /\ UNCHANGED <<status, outcome, slot, refresh, writers>>

(* Mutant: the final sync of the source rows is skipped. *)
DrainedUnsynced(p) ==
  LET t == task[p] IN
  /\ t.pc = "draining" /\ t.queue = <<>>
  /\ task' = [task EXCEPT ![p] = [t EXCEPT !.pc = "finishing", !.left = {}]]
  /\ TaskStep(p) /\ UNCHANGED <<dbVars, slot, refresh, writers, faults>>

Drained(p) ==
  LET t == task[p] IN
  /\ t.pc = "draining" /\ t.queue = <<>>
  /\ task' = [task EXCEPT ![p] =
       IF t.ok /\ ~t.lost THEN [t EXCEPT !.pc = "syncing", !.left = Requested(t.id)]
       ELSE [t EXCEPT !.pc = "finishing", !.left = {}]]
  /\ TaskStep(p) /\ UNCHANGED <<dbVars, slot, refresh, writers, faults>>

(* sync_final_sources: one transaction per requested source.               *)
SyncSource(p) ==
  LET t == task[p] IN
  /\ t.pc = "syncing"
  /\ \E s \in t.left :
       \/ /\ Written(p) /\ status[t.id] = "running"
          /\ rows' = Patched(t.id, SourcePatch(s,
                       IF t.ops[s] = "none" THEN "skipped" ELSE t.ops[s]))
          /\ task' = [task EXCEPT ![p] =
               [t EXCEPT !.left = @ \ {s},
                         !.pc = IF t.left = {s} THEN "finishing" ELSE "syncing"]]
       \/ /\ Failed(p)
          /\ task' = [task EXCEPT ![p] = [t EXCEPT !.pc = "finishing", !.lost = TRUE]]
          /\ UNCHANGED rows
  /\ TaskStep(p) /\ UNCHANGED <<status, outcome, slot, refresh, writers>>

(* terminal_from_result, storage_failed_terminal and the Err arm.          *)
ResultOutcome(ops) ==
  IF \A s \in Source : ops[s] \notin {"failed", "disk_updated_pending_reload"} THEN "success"
  ELSE IF \E s \in Source : ops[s] \in Published THEN "partial_failure" ELSE "failed"
TerminalOf(t) ==
  IF t.ok /\ ~t.lost THEN Finish(t.id, "completed", ResultOutcome(t.ops))
  ELSE Finish(t.id, "failed", "failed")

(* Mutant: a failed terminal write is not recorded for a retry. *)
FinishJobOnce(p) ==
  LET t == task[p]
      terminal == TerminalOf(t) IN
  /\ t.pc = "finishing"
  /\ Landed(p, terminal) \/ NotLanded(p, terminal)
  /\ task' = [task EXCEPT ![p] = Done(t.id)]
  /\ TaskStep(p) /\ UNCHANGED <<slot, refresh, writers>>

FinishJob(p) ==
  LET t == task[p]
      terminal == TerminalOf(t) IN
  /\ t.pc = "finishing"
  /\ \/ Landed(p, terminal) /\ UNCHANGED slot
     \/ NotLanded(p, terminal) /\ slot' = [slot EXCEPT ![p] = terminal]
  /\ task' = [task EXCEPT ![p] = Done(t.id)]
  /\ TaskStep(p) /\ UNCHANGED <<refresh, writers>>

(* The refresh itself panics; unwinding drops the refresh_lock guard.      *)
TaskPanics(p) ==
  LET t == task[p] IN
  /\ t.pc \in {"locking", "publishing"}
  /\ task' = [task EXCEPT ![p] = [NoTask EXCEPT !.pc = "panicked", !.id = t.id]]
  /\ refresh' = [refresh EXCEPT ![p] = IF @ = "job" THEN "free" ELSE @]
  /\ TaskStep(p) /\ UNCHANGED <<dbVars, slot, writers, faults>>

(* A publisher whose task was aborted by shutdown comes to its end.        *)
OrphanPublishEnd(p) ==
  /\ "job" \in writers[p] /\ task[p].pc # "writing"
  /\ writers' = [writers EXCEPT ![p] = @ \ {"job"}]
  /\ TaskStep(p) /\ UNCHANGED <<dbVars, slot, task, refresh, faults>>

-----------------------------------------------------------------------------
(* Tool calls: start and status, both of which run maintain first.         *)

(* The lifecycle mutex: start holds it from the insert to the spawn,       *)
(* shutdown to its end.                                                    *)
LifecycleFree(p) ==
  /\ life[p] \in {"up", "closed"}
  /\ \A c \in Caller : call[p][c].pc \notin {"insert", "reread", "spawn"}

To(p, c, pc) == call' = [call EXCEPT ![p][c].pc = pc]
Return(p, c) == call' = [call EXCEPT ![p][c] = NoCall]
CallStep(p)  == UNCHANGED <<owner, life, victim, refresh, writers, direct, crashes>>

(* stdin is open, so a request may arrive.  Bound: a start is only issued  *)
(* while a job id is left.                                                 *)
CallBegin(p, c) ==
  /\ life[p] = "up" /\ call[p][c].pc = "idle"
  /\ \E op \in {"start", "status"} :
       /\ op = "start" => Absent # {}
       /\ call' = [call EXCEPT ![p][c] = [NoCall EXCEPT !.pc = "reap", !.op = op]]
  /\ CallStep(p) /\ UNCHANGED <<dbVars, active, slot, task, faults>>

(* maintain: take the handle of a task that has ended.                     *)
Reap(p, c) ==
  LET t == task[p]
      ended == active[p] # NoJob /\ t.pc \in {"finished", "panicked"} IN
  /\ call[p][c].pc = "reap"
  /\ active' = IF ended THEN [active EXCEPT ![p] = NoJob] ELSE active
  /\ task'   = IF ended THEN [task EXCEPT ![p] = NoTask] ELSE task
  /\ call'   = [call EXCEPT ![p][c] =
                 IF ended /\ t.pc = "panicked"
                 THEN [@ EXCEPT !.pc = "reaped", !.hand = FailActive(t.id)]
                 ELSE [@ EXCEPT !.pc = "take"]]
  /\ CallStep(p) /\ UNCHANGED <<dbVars, slot, faults>>

PersistReaped(p, c) ==
  LET hand == call[p][c].hand IN
  /\ call[p][c].pc = "reaped"
  /\ \/ Landed(p, hand) /\ UNCHANGED slot
     \/ NotLanded(p, hand) /\ slot' = [slot EXCEPT ![p] = hand]
  /\ call' = [call EXCEPT ![p][c] = [@ EXCEPT !.pc = "take", !.hand = NoPending]]
  /\ CallStep(p) /\ UNCHANGED <<active, task>>

AfterMaintain(p, c) ==
  IF call[p][c].op = "start" THEN [call[p][c] EXCEPT !.pc = "plan", !.hand = NoPending]
  ELSE NoCall

(* Mutant: the recorded state is cloned, not taken. *)
ClonePending(p, c) ==
  /\ call[p][c].pc = "take"
  /\ call' = [call EXCEPT ![p][c] = IF slot[p] = NoPending THEN AfterMaintain(p, c)
                 ELSE [@ EXCEPT !.pc = "persist", !.hand = slot[p]]]
  /\ CallStep(p) /\ UNCHANGED <<dbVars, active, slot, task, faults>>

TakePending(p, c) ==
  /\ call[p][c].pc = "take"
  /\ IF slot[p] = NoPending
     THEN /\ call' = [call EXCEPT ![p][c] = AfterMaintain(p, c)]
          /\ UNCHANGED slot
     ELSE /\ call' = [call EXCEPT ![p][c] = [@ EXCEPT !.pc = "persist", !.hand = slot[p]]]
          /\ slot' = [slot EXCEPT ![p] = NoPending]
  /\ CallStep(p) /\ UNCHANGED <<dbVars, active, task, faults>>

(* The retry of a terminal write.  When it fails or is rejected the call   *)
(* reports the error and the next one tries again.                         *)
PersistPending(p, c) ==
  LET hand == call[p][c].hand IN
  /\ call[p][c].pc = "persist"
  /\ \/ /\ Landed(p, hand)
        /\ call' = [call EXCEPT ![p][c] = AfterMaintain(p, c)]
        /\ UNCHANGED slot
     \/ /\ NotLanded(p, hand)
        /\ slot' = [slot EXCEPT ![p] = hand]
        /\ Return(p, c)
  /\ CallStep(p) /\ UNCHANGED <<active, task>>

(* start_with: the plan is made, now the lifecycle mutex; after a shutdown *)
(* the call ends with ShuttingDown.                                        *)
LockLifecycle(p, c) ==
  /\ call[p][c].pc = "plan" /\ LifecycleFree(p)
  /\ IF life[p] = "up" THEN To(p, c, "insert") ELSE Return(p, c)
  /\ CallStep(p) /\ UNCHANGED <<dbVars, active, slot, task, faults>>

NewRows(asked, due) ==
  [s \in Source |-> IF s \in due THEN "queued"
                    ELSE IF s \in asked THEN "skipped" ELSE "none"]

(* Mutant: the insert does not look for an active job. *)
InsertAnotherJob(p, c) ==
  /\ call[p][c].pc = "insert"
  /\ IF Absent = {} THEN Return(p, c) /\ UNCHANGED dbVars
     ELSE \E j \in Absent, due \in SUBSET Source :
            /\ \A i \in Absent : j <= i
            /\ status' = [status EXCEPT ![j] = "queued"]
            /\ rows' = [rows EXCEPT ![j] = NewRows(Source, due)]
            /\ call' = [call EXCEPT ![p][c] = [@ EXCEPT !.pc = "reread", !.id = j]]
            /\ UNCHANGED outcome
  /\ Written(p) /\ CallStep(p) /\ UNCHANGED <<active, slot, task>>

(* start_catalog_refresh_job, the transaction: an active row is returned   *)
(* as AlreadyRunning, otherwise the job and its sources are inserted.      *)
(* Bound: no insert when every job id is used.                             *)
InsertJob(p, c) ==
  /\ call[p][c].pc = "insert"
  /\ \/ /\ Written(p) /\ (ActiveJobs # {} \/ Absent = {})
        /\ Return(p, c)
        /\ UNCHANGED dbVars
     \/ /\ Written(p) /\ ActiveJobs = {}
        /\ \E j \in Absent, asked \in (SUBSET Source) \ {{}} : \E due \in SUBSET asked :
             /\ \A i \in Absent : j <= i
             /\ status' = [status EXCEPT ![j] = "queued"]
             /\ rows' = [rows EXCEPT ![j] = NewRows(asked, due)]
             /\ call' = [call EXCEPT ![p][c] = [@ EXCEPT !.pc = "reread", !.id = j]]
        /\ UNCHANGED outcome
     \/ Failed(p) /\ Return(p, c) /\ UNCHANGED dbVars
  /\ CallStep(p) /\ UNCHANGED <<active, slot, task>>

(* start_catalog_refresh_job, after its commit: the row is read back, and  *)
(* a failed read is returned as a failed start.                            *)
ReadBack(p, c) ==
  /\ call[p][c].pc = "reread"
  /\ \/ Written(p) /\ To(p, c, "spawn")
     \/ Failed(p) /\ Return(p, c)
  /\ CallStep(p) /\ UNCHANGED <<dbVars, active, slot, task>>

(* The task is spawned and its handle kept, still under the mutex.         *)
Spawn(p, c) ==
  LET id == call[p][c].id IN
  /\ call[p][c].pc = "spawn"
  /\ task' = [task EXCEPT ![p] = [NoTask EXCEPT !.pc = "marking", !.id = id]]
  /\ active' = [active EXCEPT ![p] = id]
  /\ Return(p, c)
  /\ CallStep(p) /\ UNCHANGED <<dbVars, slot, faults>>

-----------------------------------------------------------------------------
(* A foreground refresh: the same refresh_lock, no job.                    *)

DirectStep(p) == UNCHANGED <<dbVars, owner, life, victim, active, slot, task, call,
                             faults, crashes>>
DirectBegin(p) ==
  /\ life[p] = "up" /\ direct[p] = "idle"
  /\ direct' = [direct EXCEPT ![p] = "waiting"]
  /\ DirectStep(p) /\ UNCHANGED <<refresh, writers>>
DirectPublish(p) ==
  /\ direct[p] = "waiting" /\ refresh[p] = "free"
  /\ direct'  = [direct EXCEPT ![p] = "writing"]
  /\ refresh' = [refresh EXCEPT ![p] = "direct"]
  /\ writers' = [writers EXCEPT ![p] = @ \cup {"direct"}]
  /\ DirectStep(p)
DirectEnd(p) ==
  /\ direct[p] = "writing"
  /\ direct'  = [direct EXCEPT ![p] = "idle"]
  /\ refresh' = [refresh EXCEPT ![p] = "free"]
  /\ writers' = [writers EXCEPT ![p] = @ \ {"direct"}]
  /\ DirectStep(p)

-----------------------------------------------------------------------------
(* shutdown, under the lifecycle mutex from its first step to its last.    *)

ShutdownBegin(p) ==
  /\ life[p] = "up" /\ LifecycleFree(p)
  /\ life' = [life EXCEPT ![p] = "aborting"]
  /\ active' = [active EXCEPT ![p] = NoJob]
  /\ UNCHANGED <<dbVars, owner, victim, slot, task, call, refresh, writers, direct,
                 faults, crashes>>

(* Mutant: shutdown does not abort the task it took. *)
AbortNothing(p) ==
  /\ life[p] = "aborting"
  /\ life' = [life EXCEPT ![p] = "flushing"]
  /\ UNCHANGED <<dbVars, owner, victim, procVars, faults, crashes>>

(* abort().await: the task is gone, its refresh_lock guard dropped, the    *)
(* blocking publisher it waited for is not.                                *)
AbortTask(p) ==
  /\ life[p] = "aborting"
  /\ life' = [life EXCEPT ![p] = "flushing"]
  /\ task' = [task EXCEPT ![p] = NoTask]
  /\ refresh' = [refresh EXCEPT ![p] = IF @ = "job" THEN "free" ELSE @]
  /\ UNCHANGED <<dbVars, owner, victim, active, slot, call, writers, direct,
                 faults, crashes>>

ShutdownStep(p) == UNCHANGED <<active, task, call, refresh, writers, direct, crashes>>

(* persist_recorded_pending: one attempt, not recorded again.              *)
FlushPending(p) ==
  /\ life[p] = "flushing"
  /\ life' = [life EXCEPT ![p] = "reading"]
  /\ slot' = [slot EXCEPT ![p] = NoPending]
  /\ IF slot[p] = NoPending THEN UNCHANGED <<dbVars, faults>>
     ELSE Landed(p, slot[p]) \/ NotLanded(p, slot[p])
  /\ ShutdownStep(p) /\ UNCHANGED <<owner, victim>>

ReadActive(p) ==
  /\ life[p] = "reading"
  /\ \/ /\ Written(p) /\ ActiveJobs # {}
        /\ \E j \in ActiveJobs : victim' = [victim EXCEPT ![p] = j]
        /\ life' = [life EXCEPT ![p] = "interrupting"]
     \/ /\ (Written(p) /\ ActiveJobs = {}) \/ Failed(p)
        /\ life' = [life EXCEPT ![p] = "releasing"]
        /\ UNCHANGED victim
  /\ ShutdownStep(p) /\ UNCHANGED <<dbVars, owner, slot>>

Interrupt(p) ==
  /\ life[p] = "interrupting"
  /\ life' = [life EXCEPT ![p] = "releasing"]
  /\ \/ Written(p) /\ InterruptJobs({victim[p]}, {victim[p]})
     \/ Failed(p) /\ UNCHANGED dbVars
  /\ victim' = [victim EXCEPT ![p] = NoJob]
  /\ ShutdownStep(p) /\ UNCHANGED <<owner, slot>>

Release(p) ==
  /\ life[p] = "releasing"
  /\ life' = [life EXCEPT ![p] = "closing"]
  /\ ReleaseOwner(p)
  /\ ShutdownStep(p) /\ UNCHANGED <<dbVars, victim, slot, faults>>

ClosePool(p) ==
  /\ life[p] = "closing"
  /\ life' = [life EXCEPT ![p] = "closed"]
  /\ ShutdownStep(p) /\ UNCHANGED <<dbVars, owner, victim, slot, faults>>

-----------------------------------------------------------------------------
Init ==
  /\ status  = [j \in JobId |-> "absent"]
  /\ outcome = [j \in JobId |-> "none"]
  /\ rows    = [j \in JobId |-> [s \in Source |-> "none"]]
  /\ owner   = NoProc
  /\ life    = [p \in Proc |-> "down"]
  /\ victim  = [p \in Proc |-> NoJob]
  /\ active  = [p \in Proc |-> NoJob]
  /\ slot    = [p \in Proc |-> NoPending]
  /\ task    = [p \in Proc |-> NoTask]
  /\ call    = [p \in Proc |-> [c \in Caller |-> NoCall]]
  /\ refresh = [p \in Proc |-> "free"]
  /\ writers = [p \in Proc |-> {}]
  /\ direct  = [p \in Proc |-> "idle"]
  /\ faults  = 0
  /\ crashes = 0

RunTask(p) ==
  \/ MarkRunning(p) \/ Plan(p) \/ PrepareFails(p) \/ FetchFailed(p) \/ PublishBegin(p)
  \/ PublishEnd(p) \/ Reload(p) \/ Drained(p) \/ SyncSource(p) \/ FinishJob(p)

RunCall(p, c) ==
  \/ Reap(p, c) \/ PersistReaped(p, c) \/ TakePending(p, c) \/ PersistPending(p, c)
  \/ LockLifecycle(p, c) \/ InsertJob(p, c) \/ ReadBack(p, c) \/ Spawn(p, c)

RunShutdown(p) ==
  \/ AbortTask(p) \/ FlushPending(p) \/ ReadActive(p) \/ Interrupt(p)
  \/ Release(p) \/ ClosePool(p)

Boot(p) == Claim(p) \/ Recover(p)

Step(p) ==
  \/ Boot(p) \/ Crash(p) \/ Exit(p)
  \/ RunTask(p) \/ PersistProgress(p) \/ TaskPanics(p) \/ OrphanPublishEnd(p)
  \/ \E c \in Caller : CallBegin(p, c) \/ RunCall(p, c)
  \/ DirectBegin(p) \/ DirectPublish(p) \/ DirectEnd(p)
  \/ ShutdownBegin(p) \/ RunShutdown(p)

Next == \E p \in Proc : Step(p)

Spec == Init /\ [][Next]_vars

(***************************************************************************)
(* What the scheduler owes: ready tasks, the shutdown sequence, blocking   *)
(* threads and issued calls advance; tokio's mutexes are first come, first *)
(* served (SF); a restarted server opens its database; a client keeps      *)
(* calling the tools, which is how the contract of                         *)
(* refresh_maimai_sources_job_status has it follow a job.  Nobody owes a   *)
(* crash, a fault, a panic, a foreground refresh or a shutdown.            *)
(***************************************************************************)
Fairness ==
  \A p \in Proc :
    /\ WF_vars(Boot(p)) /\ WF_vars(Exit(p)) /\ WF_vars(RunShutdown(p))
    /\ WF_vars(RunTask(p)) /\ SF_vars(Plan(p)) /\ WF_vars(PersistProgress(p))
    /\ WF_vars(OrphanPublishEnd(p)) /\ WF_vars(DirectEnd(p))
    /\ \A c \in Caller : /\ WF_vars(CallBegin(p, c)) /\ WF_vars(RunCall(p, c))
                         /\ SF_vars(LockLifecycle(p, c))

FairSpec == Spec /\ Fairness

-----------------------------------------------------------------------------
(* Safety.                                                                 *)

(* Two starts that race, in one process or across a restart, never leave   *)
(* two jobs queued or running (start_catalog_refresh_job, single-active    *)
(* index).                                                                 *)
SingleActiveJob ==
  \A i, j \in ActiveJobs : i = j

(* A background task runs only while its process holds the owner lock, so  *)
(* the recovery of a new owner never interrupts a job somebody is running  *)
(* (shutdown aborts before it releases; the kernel releases with the kill).*)
TaskRunsUnderLock ==
  \A p \in Proc : task[p].pc \in Working => owner = p

(* Who in process p will still settle job j.                               *)
AttendedBy(p, j) ==
  \/ task[p].id = j /\ task[p].pc \in Working
  \/ task[p].id = j /\ task[p].pc = "panicked" /\ active[p] = j
  \/ slot[p].kind # "none" /\ slot[p].id = j
  \/ \E c \in Caller : call[p][c].hand.kind # "none" /\ call[p][c].hand.id = j

(* A running job is never forgotten: while its process serves calls some   *)
(* agent holds what will settle it - the task, the handle of a panicked    *)
(* task, a recorded terminal state, a call that is writing one.            *)
RunningJobAttended ==
  \A j \in JobId : status[j] = "running" =>
    owner = NoProc \/ life[owner] # "up" \/ AttendedBy(owner, j)

(* A terminal state that waits for its retry is one the row still accepts. *)
(* maintain records a rejected one again, so a stale one would make every  *)
(* later start and status fail with TransitionRejected.                    *)
RecordedTerminalFits ==
  \A p \in Proc : life[p] = "up" =>
    /\ slot[p].kind # "none" => Accepts(slot[p])
    /\ \A c \in Caller : call[p][c].hand.kind # "none" => Accepts(call[p][c].hand)

(* What a settled job reports agrees with its source rows, although rows   *)
(* are written by asynchronous progress, by the final sync and by          *)
(* interruption, and operations change meaning when the reload fails.      *)
OutcomeMatchesRows ==
  \A j \in JobId :
    LET has(S) == \E s \in Source : rows[j][s] \in S
        bad  == has({"failed", "disk_updated_pending_reload"})
        good == has(Published) IN
    /\ status[j] \in {"completed", "interrupted"} => ~has({"queued", "pending"})
    /\ status[j] = "completed" =>
         outcome[j] = IF ~bad THEN "success" ELSE IF good THEN "partial_failure" ELSE "failed"
    /\ status[j] \in {"failed", "interrupted"} => outcome[j] = status[j]

-----------------------------------------------------------------------------
(* Refinement: the job table is the abstract job lifecycle.                *)

Lifecycle == INSTANCE RefreshJobLifecycle

(* No interleaving of tasks, calls, shutdown, crash and recovery moves a   *)
(* job against its life cycle or changes a settled one.                    *)
ImplementsLifecycle == Lifecycle!Spec

-----------------------------------------------------------------------------
(* Liveness.                                                               *)

(* Every job that started running is settled, by its task, by a retry in a *)
(* later call, by shutdown or by the next owner (run_job, maintain,        *)
(* shutdown, open).                                                        *)
RunningJobSettles ==
  \A j \in JobId : status[j] = "running" ~> status[j] \in Terminal

(* Every accepted job is settled: what the tests wait for ("job did not    *)
(* become terminal").                                                      *)
EveryJobSettles ==
  \A j \in JobId : status[j] = "queued" ~> status[j] \in Terminal
=============================================================================
