----------------------- MODULE CatalogRefreshJobsProofs -----------------------
(***************************************************************************)
(* Theorems about CatalogRefreshJobs, for any set of processes, calls and  *)
(* sources and any bounds: types, the owner lock and the job life cycle;   *)
(* then who settles a job: a running job always has exactly one agent in   *)
(* the process that serves it, what that agent recorded still fits the     *)
(* row, and what the job reports in the end agrees with its source rows.   *)
(***************************************************************************)
EXTENDS CatalogRefreshJobs, TLAPS

-----------------------------------------------------------------------------
(* Types.                                                                  *)

(* The messages of a job are patches. *)
LEMMA PatchTypes ==
  /\ \A asked, due \in SUBSET Source : PlanPatch(asked, due) \in Patch
  /\ \A s \in Source, st \in RowStatus : SourcePatch(s, st) \in Patch
  BY DEF PlanPatch, SourcePatch, Patch, RowStatus, Completed, Succeeded

(* A patch leaves the rows of the sources in their set. *)
LEMMA PatchedType ==
  ASSUME rows \in [JobId -> [Source -> RowStatus]],
         NEW j \in JobId, NEW patch \in Patch
  PROVE  Patched(j, patch) \in [JobId -> [Source -> RowStatus]]
  BY DEF Patched, Patch, RowStatus

(* The records a step writes are of their types. *)
LEMMA RecordTypes ==
  /\ NoTask \in Task
  /\ NoPending \in Pending
  /\ NoCall \in Call
  /\ \A id \in {NoJob} \cup JobId : FailActive(id) \in Pending
  /\ \A id \in {NoJob} \cup JobId : Done(id) \in Task
  /\ \A id \in {NoJob} \cup JobId, to \in Terminal, out \in Outcome : Finish(id, to, out) \in Pending
<1>1. NoTask \in Task
  BY DEF NoTask, Task, TaskPc
<1>2. NoPending \in Pending
  BY DEF NoPending, Pending, Terminal, Outcome
<1>3. NoCall \in Call
  BY <1>2 DEF NoCall, Call, CallPc
<1>4. \A id \in {NoJob} \cup JobId : FailActive(id) \in Pending
  BY <1>2 DEF FailActive, Pending
<1>5. \A id \in {NoJob} \cup JobId : Done(id) \in Task
  BY <1>1 DEF Done, Task, TaskPc
<1>6. \A id \in {NoJob} \cup JobId, to \in Terminal, out \in Outcome : Finish(id, to, out) \in Pending
  BY DEF Finish, Pending
<1>7. QED
  BY <1>1, <1>2, <1>3, <1>4, <1>5, <1>6

(* The statements of the store keep the types of its tables. *)
LEMMA StoreTypes ==
  ASSUME TypeOK
  PROVE  /\ \A t \in Pending : SetTerminal(t) =>
              /\ status'  \in [JobId -> Status]
              /\ outcome' \in [JobId -> Outcome]
              /\ rows'    \in [JobId -> [Source -> RowStatus]]
         /\ \A R, J \in SUBSET JobId : InterruptJobs(R, J) =>
              /\ status'  \in [JobId -> Status]
              /\ outcome' \in [JobId -> Outcome]
              /\ rows'    \in [JobId -> [Source -> RowStatus]]
         /\ \A p \in Proc : Written(p) \/ Failed(p) => faults' \in 0..MaxFaults
<1>1. ASSUME NEW t \in Pending, SetTerminal(t)
      PROVE  /\ status'  \in [JobId -> Status]
             /\ outcome' \in [JobId -> Outcome]
             /\ rows'    \in [JobId -> [Source -> RowStatus]]
  BY <1>1 DEF SetTerminal, Pending, TypeOK, Status
<1>2. ASSUME NEW R \in SUBSET JobId, NEW J \in SUBSET JobId, InterruptJobs(R, J)
      PROVE  /\ status'  \in [JobId -> Status]
             /\ outcome' \in [JobId -> Outcome]
             /\ rows'    \in [JobId -> [Source -> RowStatus]]
  <2>1. status' \in [JobId -> Status]
    BY <1>2 DEF InterruptJobs, TypeOK, Status, Terminal
  <2>2. outcome' \in [JobId -> Outcome]
    BY <1>2 DEF InterruptJobs, TypeOK, Outcome
  <2>3. rows' \in [JobId -> [Source -> RowStatus]]
    BY <1>2 DEF InterruptJobs, TypeOK, RowStatus, Completed
  <2>4. QED
    BY <2>1, <2>2, <2>3
<1>3. ASSUME NEW p \in Proc, Written(p) \/ Failed(p)
      PROVE  faults' \in 0..MaxFaults
  BY <1>3, BoundsAssumption DEF Written, Failed, TypeOK
<1>4. QED
  BY <1>1, <1>2, <1>3

(* The updates that the task and its progress channel go through. *)
LEMMA TaskUpdates ==
  ASSUME NEW t \in Task
  PROVE  /\ t.id \in {NoJob} \cup JobId
         /\ \A pc \in TaskPc : [t EXCEPT !.pc = pc] \in Task
         /\ \A pc \in TaskPc, ok \in BOOLEAN : [t EXCEPT !.pc = pc, !.ok = ok] \in Task
         /\ \A pc \in TaskPc, due \in SUBSET Source, m \in Patch :
              [t EXCEPT !.pc = pc, !.left = due, !.queue = Append(@, m)] \in Task
         /\ \A pc \in TaskPc, due \in SUBSET Source : [t EXCEPT !.pc = pc, !.left = due] \in Task
         /\ \A s \in Source, op \in Completed : Report(t, s, op) \in Task
<1>1. \A m \in Patch : Append(t.queue, m) \in Seq(Patch)
  BY DEF Task
<1>2. \A s \in Source, op \in Completed : SourcePatch(s, op) \in Patch
  BY PatchTypes DEF RowStatus
<1>3. \A s \in Source, op \in Completed : Report(t, s, op) \in Task
  BY <1>1, <1>2 DEF Report, Task, TaskPc, Working
<1>4. \A pc \in TaskPc, due \in SUBSET Source, m \in Patch :
        [t EXCEPT !.pc = pc, !.left = due, !.queue = Append(@, m)] \in Task
  BY <1>1 DEF Task
<1>5. QED
  BY <1>3, <1>4 DEF Task

(* Every step of the lifetime of a process keeps every variable in its type. *)
LEMMA LifeKeepsTypes ==
  ASSUME TypeOK, NEW p \in Proc, Boot(p) \/ Crash(p) \/ Exit(p)
  PROVE  TypeOK'
<1> USE DEF procVars, dbVars
<1>claim. CASE Claim(p)
  BY <1>claim DEF Claim, TypeOK, Life
<1>recover. CASE Recover(p)
  <2>1. CASE Written(p) /\ InterruptJobs(ActiveJobs, JobId) /\ life' = [life EXCEPT ![p] = "up"] /\ UNCHANGED owner
    BY <1>recover, <2>1, StoreTypes DEF Recover, TypeOK, Life, ActiveJobs
  <2>2. CASE Failed(p) /\ ReleaseOwner(p) /\ life' = [life EXCEPT ![p] = "down"] /\ UNCHANGED dbVars
    BY <1>recover, <2>2, StoreTypes DEF Recover, TypeOK, Life, ReleaseOwner
  <2>3. QED
    BY <1>recover, <2>1, <2>2 DEF Recover
<1>fresh. ASSUME Fresh(p)
          PROVE  /\ victim'  \in [Proc -> {NoJob} \cup JobId]
                 /\ active'  \in [Proc -> {NoJob} \cup JobId]
                 /\ slot'    \in [Proc -> Pending]
                 /\ task'    \in [Proc -> Task]
                 /\ call'    \in [Proc -> [Caller -> Call]]
                 /\ refresh' \in [Proc -> {"free", "job", "direct"}]
                 /\ writers' \in [Proc -> SUBSET {"job", "direct"}]
                 /\ direct'  \in [Proc -> {"idle", "waiting", "writing"}]
  BY <1>fresh, RecordTypes DEF Fresh, TypeOK
<1>crash. CASE Crash(p)
  <2>1. crashes' \in 0..MaxCrashes
    BY <1>crash, BoundsAssumption DEF Crash, TypeOK
  <2>2. life' \in [Proc -> Life] /\ owner' \in Proc \cup {NoProc}
    BY <1>crash DEF Crash, ReleaseOwner, TypeOK, Life
  <2>3. Fresh(p) /\ UNCHANGED <<status, outcome, rows, faults>>
    BY <1>crash DEF Crash
  <2>4. QED
    BY <1>fresh, <2>1, <2>2, <2>3 DEF TypeOK
<1>exit. CASE Exit(p)
  BY <1>exit, <1>fresh DEF Exit, TypeOK, Life
<1>q. QED
  BY <1>claim, <1>recover, <1>crash, <1>exit DEF Boot

(* Every step of the background task keeps every variable in its type. *)
LEMMA TaskKeepsTypes ==
  ASSUME TypeOK, NEW p \in Proc,
         RunTask(p) \/ PersistProgress(p) \/ TaskPanics(p) \/ OrphanPublishEnd(p)
  PROVE  TypeOK'
<1> USE DEF procVars, dbVars, TaskStep
<1> DEFINE t == task[p]
<1>t. t \in Task /\ task \in [Proc -> Task] /\ slot \in [Proc -> Pending] /\ t.id \in {NoJob} \cup JobId
  BY DEF TypeOK, Task
<1>pcs. TaskPc = {"none", "finished", "panicked"} \cup Working
  BY DEF TaskPc
<1>set. \A x \in Task : [task EXCEPT ![p] = x] \in [Proc -> Task]
  BY <1>t
<1>rec. \A x \in Pending : [slot EXCEPT ![p] = x] \in [Proc -> Pending]
  BY <1>t
<1>done. Done(t.id) \in Task /\ FailActive(t.id) \in Pending
  BY <1>t, RecordTypes
<1>asked. Requested(t.id) \in SUBSET Source
  BY DEF Requested
<1>mark. CASE MarkRunning(p)
  <2>1. faults' \in 0..MaxFaults
    BY <1>mark, StoreTypes DEF MarkRunning
  <2>2. status' \in [JobId -> Status]
    BY <1>mark DEF MarkRunning, TypeOK, Status, Active
  <2>3. [t EXCEPT !.pc = "locking"] \in Task
    BY <1>t, TaskUpdates DEF TaskPc, Working
  <2>4. task' \in [Proc -> Task]
    BY <1>mark, <1>set, <1>done, <2>3 DEF MarkRunning
  <2>5. slot' \in [Proc -> Pending]
    BY <1>mark, <1>t, <1>rec, <1>done DEF MarkRunning
  <2>6. QED
    BY <1>mark, <2>1, <2>2, <2>4, <2>5 DEF MarkRunning, TypeOK
<1>plan. CASE Plan(p)
  <2>1. task' \in [Proc -> Task]
    <3>1. ASSUME NEW due \in SUBSET Requested(t.id),
                 task' = [task EXCEPT ![p] =
                   [t EXCEPT !.pc = IF due = {} THEN "draining" ELSE "publishing",
                             !.left = due,
                             !.queue = Append(@, PlanPatch(Requested(t.id), due))]]
          PROVE  task' \in [Proc -> Task]
      <4>1. due \in SUBSET Source /\ PlanPatch(Requested(t.id), due) \in Patch
        BY <1>asked, PatchTypes
      <4>2. (IF due = {} THEN "draining" ELSE "publishing") \in TaskPc
        BY DEF TaskPc, Working
      <4>3. QED
        BY <3>1, <4>1, <4>2, <1>t, <1>set, TaskUpdates
    <3>2. [t EXCEPT !.pc = "draining", !.ok = FALSE] \in Task
      BY <1>t, TaskUpdates DEF TaskPc, Working
    <3>3. QED
      BY <1>plan, <1>set, <3>1, <3>2 DEF Plan
  <2>2. refresh' \in [Proc -> {"free", "job", "direct"}]
    BY <1>plan DEF Plan, TypeOK
  <2>3. QED
    BY <1>plan, <2>1, <2>2 DEF Plan, TypeOK
<1>prep. CASE PrepareFails(p)
  <2>1. [t EXCEPT !.pc = "draining", !.ok = FALSE] \in Task
    BY <1>t, TaskUpdates DEF TaskPc, Working
  <2>2. task' \in [Proc -> Task]
    BY <1>prep, <1>set, <2>1 DEF PrepareFails
  <2>3. QED
    BY <1>prep, <2>2 DEF PrepareFails, TypeOK
<1>fetch. CASE FetchFailed(p)
  <2>1. \A s \in t.left : Report(t, s, "failed") \in Task
    BY <1>t, TaskUpdates DEF Task, Completed
  <2>2. task' \in [Proc -> Task]
    BY <1>fetch, <1>set, <2>1 DEF FetchFailed
  <2>3. QED
    BY <1>fetch, <2>2 DEF FetchFailed, TypeOK
<1>begin. CASE PublishBegin(p)
  <2>1. \A s \in t.left : [t EXCEPT !.pc = "writing", !.now = {s}] \in Task
    BY <1>t DEF Task, TaskPc, Working
  <2>2. task' \in [Proc -> Task]
    BY <1>begin, <1>set, <2>1 DEF PublishBegin
  <2>3. writers' \in [Proc -> SUBSET {"job", "direct"}]
    BY <1>begin DEF PublishBegin, TypeOK
  <2>4. QED
    BY <1>begin, <2>2, <2>3 DEF PublishBegin, TypeOK
<1>end. CASE PublishEnd(p)
  <2>1. \A s \in t.now, op \in {"updated", "not_modified", "failed"}, dirty \in BOOLEAN :
          [Report(t, s, op) EXCEPT !.dirty = @ \/ dirty] \in Task
    <3>1. ASSUME NEW s \in t.now, NEW op \in {"updated", "not_modified", "failed"}, NEW dirty \in BOOLEAN
          PROVE  [Report(t, s, op) EXCEPT !.dirty = @ \/ dirty] \in Task
      <4>1. Report(t, s, op) \in Task
        <5>1. s \in Source /\ op \in Completed
          BY <1>t DEF Task, Completed, Succeeded
        <5>2. QED
          BY <1>t, <5>1, TaskUpdates
      <4>2. \A x \in Task, b \in BOOLEAN : [x EXCEPT !.dirty = b] \in Task
        BY DEF Task
      <4>3. DEFINE r == Report(t, s, op)
      <4>4. r.dirty \/ dirty \in BOOLEAN
        OBVIOUS
      <4>5. [r EXCEPT !.dirty = r.dirty \/ dirty] \in Task
        BY <4>1, <4>2, <4>4, Zenon
      <4>6. QED
        BY <4>5
    <3>2. QED
      BY <3>1
  <2>2. [t EXCEPT !.pc = "draining", !.ok = FALSE, !.now = {}] \in Task
    BY <1>t DEF Task, TaskPc, Working
  <2>3. task' \in [Proc -> Task]
    BY <1>end, <1>set, <2>1, <2>2 DEF PublishEnd
  <2>4. /\ writers' \in [Proc -> SUBSET {"job", "direct"}]
        /\ refresh' \in [Proc -> {"free", "job", "direct"}]
    BY <1>end DEF PublishEnd, TypeOK
  <2>5. QED
    BY <1>end, <2>3, <2>4 DEF PublishEnd, TypeOK
<1>reload. CASE Reload(p)
  <2>1. t.ops \in [Source -> {"none"} \cup Completed]
    BY <1>t DEF Task
  <2>2. MarkPendingReload(t.ops) \in [Source -> {"none"} \cup Completed]
    BY <2>1 DEF MarkPendingReload, Completed
  <2>3. \A read \in BOOLEAN, ops \in [Source -> {"none"} \cup Completed] :
          [t EXCEPT !.pc = "draining", !.ok = read, !.ops = ops] \in Task
    BY <1>t DEF Task, TaskPc, Working
  <2>4. task' \in [Proc -> Task]
    <3>1. PICK reloaded \in BOOLEAN, read \in BOOLEAN :
            task' = [task EXCEPT ![p] =
              [t EXCEPT !.pc = "draining", !.ok = read,
                        !.ops = IF t.dirty \/ ((\E s \in Source : t.ops[s] \in Published) /\ ~reloaded)
                                THEN MarkPendingReload(t.ops) ELSE t.ops]]
      BY <1>reload DEF Reload
    <3>2. CASE t.dirty \/ ((\E s \in Source : t.ops[s] \in Published) /\ ~reloaded)
      BY <3>1, <3>2, <1>set, <2>2, <2>3
    <3>3. CASE ~(t.dirty \/ ((\E s \in Source : t.ops[s] \in Published) /\ ~reloaded))
      BY <3>1, <3>3, <1>set, <2>1, <2>3
    <3>4. QED
      BY <3>2, <3>3
  <2>5. refresh' \in [Proc -> {"free", "job", "direct"}]
    BY <1>reload DEF Reload, TypeOK
  <2>6. QED
    BY <1>reload, <2>4, <2>5 DEF Reload, TypeOK
<1>prog. CASE PersistProgress(p)
  <2>1. t.queue \in Seq(Patch) /\ t.queue # <<>>
    BY <1>prog, <1>t DEF Task, PersistProgress
  <2>2. Head(t.queue) \in Patch /\ Tail(t.queue) \in Seq(Patch)
    BY <2>1
  <2>3. /\ [t EXCEPT !.queue = Tail(t.queue)] \in Task
        /\ [t EXCEPT !.queue = Tail(t.queue), !.lost = TRUE] \in Task
    BY <1>t, <2>2 DEF Task
  <2>4. task' \in [Proc -> Task]
    BY <1>prog, <1>t, <1>set, <2>3 DEF PersistProgress
  <2>5. rows' \in [JobId -> [Source -> RowStatus]]
    <3>1. Patched(t.id, Head(t.queue)) \in [JobId -> [Source -> RowStatus]]
      BY <2>2 DEF Patched, Patch, TypeOK, RowStatus
    <3>2. QED
      BY <1>prog, <3>1 DEF PersistProgress, TypeOK
  <2>6. faults' \in 0..MaxFaults
    BY <1>prog, StoreTypes DEF PersistProgress
  <2>7. QED
    BY <1>prog, <2>4, <2>5, <2>6 DEF PersistProgress, TypeOK
<1>drain. CASE Drained(p)
  <2>1. /\ [t EXCEPT !.pc = "syncing", !.left = Requested(t.id)] \in Task
        /\ [t EXCEPT !.pc = "finishing", !.left = {}] \in Task
    BY <1>t, <1>asked, TaskUpdates DEF TaskPc, Working
  <2>2. task' \in [Proc -> Task]
    BY <1>drain, <1>set, <2>1 DEF Drained
  <2>3. QED
    BY <1>drain, <2>2 DEF Drained, TypeOK
<1>sync. CASE SyncSource(p)
  <2>1. \A s \in t.left :
          /\ [t EXCEPT !.left = t.left \ {s},
                       !.pc = IF t.left = {s} THEN "finishing" ELSE "syncing"] \in Task
          /\ [t EXCEPT !.pc = "finishing", !.lost = TRUE] \in Task
    BY <1>t DEF Task, TaskPc, Working
  <2>2. task' \in [Proc -> Task]
    BY <1>sync, <1>set, <2>1 DEF SyncSource
  <2>3. rows' \in [JobId -> [Source -> RowStatus]]
    <3>1. \A s \in t.left :
            Patched(t.id, SourcePatch(s, IF t.ops[s] = "none" THEN "skipped" ELSE t.ops[s]))
              \in [JobId -> [Source -> RowStatus]]
      <4>1. ASSUME NEW s \in t.left
            PROVE  SourcePatch(s, IF t.ops[s] = "none" THEN "skipped" ELSE t.ops[s]) \in Patch
        BY <4>1, <1>t, PatchTypes DEF Task, RowStatus, Completed, Succeeded
      <4>2. \A x \in Patch : Patched(t.id, x) \in [JobId -> [Source -> RowStatus]]
        BY DEF Patched, Patch, TypeOK, RowStatus
      <4>3. QED
        BY <4>1, <4>2
    <3>2. QED
      BY <1>sync, <3>1 DEF SyncSource, TypeOK
  <2>4. faults' \in 0..MaxFaults
    BY <1>sync, StoreTypes DEF SyncSource
  <2>5. QED
    BY <1>sync, <2>2, <2>3, <2>4 DEF SyncSource, TypeOK
<1>finish. CASE FinishJob(p)
  <2>1. TerminalOf(t) \in Pending
    <3>1. ResultOutcome(t.ops) \in Outcome
      BY DEF ResultOutcome, Outcome
    <3>2. QED
      BY <1>t, <3>1, RecordTypes DEF TerminalOf, Terminal, Outcome
  <2>2. /\ status'  \in [JobId -> Status]
        /\ outcome' \in [JobId -> Outcome]
        /\ rows'    \in [JobId -> [Source -> RowStatus]]
        /\ faults'  \in 0..MaxFaults
    <3>1. CASE Landed(p, TerminalOf(t))
      BY <3>1, <2>1, StoreTypes DEF Landed
    <3>2. CASE NotLanded(p, TerminalOf(t))
      <4>1. Written(p) \/ Failed(p)
        BY <3>2 DEF NotLanded
      <4>2. QED
        BY <3>2, <4>1, StoreTypes DEF NotLanded, TypeOK
    <3>3. QED
      BY <1>finish, <3>1, <3>2 DEF FinishJob
  <2>3. slot' \in [Proc -> Pending]
    BY <1>finish, <1>t, <1>rec, <2>1 DEF FinishJob
  <2>4. task' \in [Proc -> Task]
    BY <1>finish, <1>set, <1>done DEF FinishJob
  <2>5. QED
    BY <1>finish, <2>2, <2>3, <2>4 DEF FinishJob, TypeOK
<1>panic. CASE TaskPanics(p)
  <2>1. [NoTask EXCEPT !.pc = "panicked", !.id = t.id] \in Task
    BY <1>t, RecordTypes DEF Task, TaskPc
  <2>2. task' \in [Proc -> Task]
    BY <1>panic, <1>set, <2>1 DEF TaskPanics
  <2>3. refresh' \in [Proc -> {"free", "job", "direct"}]
    BY <1>panic DEF TaskPanics, TypeOK
  <2>4. QED
    BY <1>panic, <2>2, <2>3 DEF TaskPanics, TypeOK
<1>orphan. CASE OrphanPublishEnd(p)
  BY <1>orphan DEF OrphanPublishEnd, TypeOK
<1>q. QED
  BY <1>mark, <1>plan, <1>prep, <1>fetch, <1>begin, <1>end, <1>reload, <1>prog,
     <1>drain, <1>sync, <1>finish, <1>panic, <1>orphan DEF RunTask

(* Every step of a tool call keeps every variable in its type. *)
LEMMA CallKeepsTypes ==
  ASSUME TypeOK, NEW p \in Proc, NEW c \in Caller, CallBegin(p, c) \/ RunCall(p, c)
  PROVE  TypeOK'
<1> USE DEF dbVars, CallStep
<1> DEFINE k == call[p][c]
<1>t. /\ k \in Call /\ k.hand \in Pending /\ k.op \in {"start", "status"}
      /\ call \in [Proc -> [Caller -> Call]]
      /\ slot \in [Proc -> Pending] /\ task \in [Proc -> Task]
      /\ task[p] \in Task /\ task[p].id \in {NoJob} \cup JobId /\ slot[p] \in Pending
  BY DEF TypeOK, Call, Task
<1>set. \A x \in Call : [call EXCEPT ![p][c] = x] \in [Proc -> [Caller -> Call]]
  BY <1>t
<1>rec. \A x \in Pending : [slot EXCEPT ![p] = x] \in [Proc -> Pending]
  BY <1>t
<1>to. \A pc \in CallPc : To(p, c, pc) => call' \in [Proc -> [Caller -> Call]]
  <2>1. \A pc \in CallPc : [k EXCEPT !.pc = pc] \in Call
    BY <1>t DEF Call
  <2>2. QED
    BY <1>t, <2>1 DEF To
<1>return. Return(p, c) => call' \in [Proc -> [Caller -> Call]]
  BY <1>set, RecordTypes DEF Return
<1>after. AfterMaintain(p, c) \in Call
  BY <1>t, RecordTypes DEF AfterMaintain, Call, CallPc
<1>store. ASSUME NEW t \in Pending, Landed(p, t) \/ NotLanded(p, t)
          PROVE  /\ status'  \in [JobId -> Status]
                 /\ outcome' \in [JobId -> Outcome]
                 /\ rows'    \in [JobId -> [Source -> RowStatus]]
                 /\ faults'  \in 0..MaxFaults
  <2>1. CASE Landed(p, t)
    BY <2>1, StoreTypes DEF Landed
  <2>2. CASE NotLanded(p, t)
    <3>1. Written(p) \/ Failed(p)
      BY <2>2 DEF NotLanded
    <3>2. QED
      BY <2>2, <3>1, StoreTypes DEF NotLanded, TypeOK
  <2>3. QED
    BY <1>store, <2>1, <2>2
<1>begin. CASE CallBegin(p, c)
  <2>1. \A op \in {"start", "status"} : [NoCall EXCEPT !.pc = "reap", !.op = op] \in Call
    BY RecordTypes DEF Call, CallPc
  <2>2. call' \in [Proc -> [Caller -> Call]]
    <3>1. PICK op \in {"start", "status"} :
            call' = [call EXCEPT ![p][c] = [NoCall EXCEPT !.pc = "reap", !.op = op]]
      BY <1>begin DEF CallBegin
    <3>2. call' = [call EXCEPT ![p] = [call[p] EXCEPT ![c] = [NoCall EXCEPT !.pc = "reap", !.op = op]]]
      BY <3>1
    <3>3. QED
      BY <1>t, <2>1, <3>2
  <2>3. QED
    BY <1>begin, <2>2 DEF CallBegin, TypeOK
<1>reap. CASE Reap(p, c)
  <2>1. /\ \A h \in Pending : [k EXCEPT !.pc = "reaped", !.hand = h] \in Call
        /\ [k EXCEPT !.pc = "take"] \in Call
    BY <1>t DEF Call, CallPc
  <2>2. FailActive(task[p].id) \in Pending
    BY <1>t, RecordTypes
  <2>3. call' \in [Proc -> [Caller -> Call]]
    BY <1>reap, <1>set, <2>1, <2>2 DEF Reap
  <2>4. active' \in [Proc -> {NoJob} \cup JobId]
    BY <1>reap DEF Reap, TypeOK
  <2>5. task' \in [Proc -> Task]
    BY <1>reap, <1>t, RecordTypes DEF Reap
  <2>6. QED
    BY <1>reap, <2>3, <2>4, <2>5 DEF Reap, TypeOK
<1>reaped. CASE PersistReaped(p, c)
  <2>1. [k EXCEPT !.pc = "take", !.hand = NoPending] \in Call
    BY <1>t, RecordTypes DEF Call, CallPc
  <2>2. call' \in [Proc -> [Caller -> Call]]
    BY <1>reaped, <1>set, <2>1 DEF PersistReaped
  <2>3. slot' \in [Proc -> Pending]
    BY <1>reaped, <1>t, <1>rec DEF PersistReaped
  <2>4. QED
    BY <1>reaped, <1>t, <1>store, <2>2, <2>3 DEF PersistReaped, TypeOK
<1>take. CASE TakePending(p, c)
  <2>1. [k EXCEPT !.pc = "persist", !.hand = slot[p]] \in Call
    BY <1>t DEF Call, CallPc
  <2>2. call' \in [Proc -> [Caller -> Call]]
    BY <1>take, <1>set, <1>after, <2>1 DEF TakePending
  <2>3. slot' \in [Proc -> Pending]
    BY <1>take, <1>t, <1>rec, RecordTypes DEF TakePending
  <2>4. QED
    BY <1>take, <2>2, <2>3 DEF TakePending, TypeOK
<1>persist. CASE PersistPending(p, c)
  <2>1. call' \in [Proc -> [Caller -> Call]]
    BY <1>persist, <1>set, <1>after, <1>return DEF PersistPending
  <2>2. slot' \in [Proc -> Pending]
    BY <1>persist, <1>t, <1>rec DEF PersistPending
  <2>3. QED
    BY <1>persist, <1>t, <1>store, <2>1, <2>2 DEF PersistPending, TypeOK
<1>lock. CASE LockLifecycle(p, c)
  <2>1. call' \in [Proc -> [Caller -> Call]]
    BY <1>lock, <1>to, <1>return DEF LockLifecycle, CallPc
  <2>2. QED
    BY <1>lock, <2>1 DEF LockLifecycle, TypeOK
<1>insert. CASE InsertJob(p, c)
  <2>1. faults' \in 0..MaxFaults
    BY <1>insert, StoreTypes DEF InsertJob
  <2>2. CASE Return(p, c) /\ UNCHANGED dbVars
    BY <1>insert, <1>return, <2>1, <2>2 DEF InsertJob, TypeOK
  <2>3. ASSUME NEW j \in Absent, NEW asked \in SUBSET Source, NEW due \in SUBSET asked,
               status' = [status EXCEPT ![j] = "queued"],
               rows' = [rows EXCEPT ![j] = NewRows(asked, due)],
               call' = [call EXCEPT ![p][c] = [@ EXCEPT !.pc = "reread", !.id = j]],
               UNCHANGED outcome
        PROVE  TypeOK'
    <3>1. j \in JobId
      BY DEF Absent
    <3>2. [k EXCEPT !.pc = "reread", !.id = j] \in Call
      BY <1>t, <3>1 DEF Call, CallPc
    <3>3. call' \in [Proc -> [Caller -> Call]]
      <4>1. call' = [call EXCEPT ![p] = [call[p] EXCEPT ![c] = [k EXCEPT !.pc = "reread", !.id = j]]]
        BY <2>3
      <4>2. QED
        BY <1>t, <3>2, <4>1
    <3>4. status' \in [JobId -> Status]
      BY <2>3, <3>1 DEF TypeOK, Status, Active
    <3>5. NewRows(asked, due) \in [Source -> RowStatus]
      BY DEF NewRows, RowStatus, Completed, Succeeded
    <3>6. rows' \in [JobId -> [Source -> RowStatus]]
      BY <2>3, <3>1, <3>5 DEF TypeOK
    <3>7. QED
      BY <1>insert, <2>1, <2>3, <3>3, <3>4, <3>6 DEF InsertJob, TypeOK
  <2>4. QED
    BY <1>insert, <2>2, <2>3 DEF InsertJob
<1>read. CASE ReadBack(p, c)
  <2>1. call' \in [Proc -> [Caller -> Call]]
    BY <1>read, <1>to, <1>return DEF ReadBack, CallPc
  <2>2. faults' \in 0..MaxFaults
    BY <1>read, StoreTypes DEF ReadBack
  <2>3. QED
    BY <1>read, <2>1, <2>2 DEF ReadBack, TypeOK
<1>spawn. CASE Spawn(p, c)
  <2>1. k.id \in {NoJob} \cup JobId
    BY <1>t DEF Call
  <2>2. [NoTask EXCEPT !.pc = "marking", !.id = k.id] \in Task
    BY <2>1, RecordTypes DEF Task, TaskPc, Working
  <2>3. task' \in [Proc -> Task] /\ active' \in [Proc -> {NoJob} \cup JobId]
    BY <1>spawn, <1>t, <2>1, <2>2 DEF Spawn, TypeOK
  <2>4. call' \in [Proc -> [Caller -> Call]]
    BY <1>spawn, <1>return DEF Spawn
  <2>5. QED
    BY <1>spawn, <2>3, <2>4 DEF Spawn, TypeOK
<1>q. QED
  BY <1>begin, <1>reap, <1>reaped, <1>take, <1>persist, <1>lock, <1>insert, <1>read,
     <1>spawn DEF RunCall

(* Every step of a foreground refresh and of shutdown keeps every variable *)
(* in its type.                                                            *)
LEMMA ShutdownKeepsTypes ==
  ASSUME TypeOK, NEW p \in Proc,
         \/ DirectBegin(p) \/ DirectPublish(p) \/ DirectEnd(p)
         \/ ShutdownBegin(p) \/ RunShutdown(p)
  PROVE  TypeOK'
<1> USE DEF dbVars, procVars, ShutdownStep, Life, Stopping
<1>dbegin. CASE DirectBegin(p)
  BY <1>dbegin DEF DirectBegin, DirectStep, TypeOK
<1>dpub. CASE DirectPublish(p)
  BY <1>dpub DEF DirectPublish, DirectStep, TypeOK
<1>dend. CASE DirectEnd(p)
  BY <1>dend DEF DirectEnd, DirectStep, TypeOK
<1>sbegin. CASE ShutdownBegin(p)
  BY <1>sbegin DEF ShutdownBegin, TypeOK
<1>abort. CASE AbortTask(p)
  BY <1>abort, RecordTypes DEF AbortTask, TypeOK
<1>flush. CASE FlushPending(p)
  <2>1. /\ status'  \in [JobId -> Status]
        /\ outcome' \in [JobId -> Outcome]
        /\ rows'    \in [JobId -> [Source -> RowStatus]]
        /\ faults'  \in 0..MaxFaults
    <3>1. slot[p] \in Pending
      BY DEF TypeOK
    <3>2. CASE Landed(p, slot[p])
      BY <3>1, <3>2, StoreTypes DEF Landed
    <3>3. CASE NotLanded(p, slot[p])
      <4>1. Written(p) \/ Failed(p)
        BY <3>3 DEF NotLanded
      <4>2. QED
        BY <3>3, <4>1, StoreTypes DEF NotLanded, TypeOK
    <3>4. CASE slot[p] = NoPending
      BY <1>flush, <3>4 DEF FlushPending, TypeOK
    <3>5. QED
      BY <1>flush, <3>2, <3>3, <3>4 DEF FlushPending
  <2>2. slot' \in [Proc -> Pending]
    BY <1>flush, RecordTypes DEF FlushPending, TypeOK
  <2>3. QED
    BY <1>flush, <2>1, <2>2 DEF FlushPending, TypeOK
<1>read. CASE ReadActive(p)
  <2>1. faults' \in 0..MaxFaults
    BY <1>read, StoreTypes DEF ReadActive
  <2>2. life' \in [Proc -> Life]
    BY <1>read DEF ReadActive, TypeOK
  <2>3. victim' \in [Proc -> {NoJob} \cup JobId]
    <3>1. victim \in [Proc -> {NoJob} \cup JobId] /\ ActiveJobs \subseteq JobId
      BY DEF TypeOK, ActiveJobs
    <3>2. \/ \E j \in ActiveJobs : victim' = [victim EXCEPT ![p] = j]
          \/ victim' = victim
      BY <1>read, Zenon DEF ReadActive
    <3>3. QED
      BY <3>1, <3>2
  <2>4. QED
    BY <1>read, <2>1, <2>2, <2>3 DEF ReadActive, TypeOK
<1>intr. CASE Interrupt(p)
  <2>1. /\ status'  \in [JobId -> Status]
        /\ outcome' \in [JobId -> Outcome]
        /\ rows'    \in [JobId -> [Source -> RowStatus]]
        /\ faults'  \in 0..MaxFaults
    <3>1. CASE Written(p) /\ InterruptJobs({victim[p]} \cap JobId, {victim[p]} \cap JobId)
      BY <3>1, StoreTypes
    <3>2. InterruptJobs({victim[p]}, {victim[p]})
            => InterruptJobs({victim[p]} \cap JobId, {victim[p]} \cap JobId)
      BY DEF InterruptJobs, ActiveJobs
    <3>3. CASE Failed(p) /\ UNCHANGED dbVars
      BY <3>3, StoreTypes DEF TypeOK
    <3>4. QED
      BY <1>intr, <3>1, <3>2, <3>3 DEF Interrupt
  <2>2. QED
    BY <1>intr, <2>1 DEF Interrupt, TypeOK
<1>rel. CASE Release(p)
  BY <1>rel DEF Release, ReleaseOwner, TypeOK
<1>close. CASE ClosePool(p)
  BY <1>close DEF ClosePool, TypeOK
<1>q. QED
  BY <1>dbegin, <1>dpub, <1>dend, <1>sbegin, <1>abort, <1>flush, <1>read, <1>intr,
     <1>rel, <1>close DEF RunShutdown

(* Every reachable state is well typed: no conversion between the rows, the *)
(* progress messages and the operation summaries leaves its value set.      *)
THEOREM TypeCorrect == Spec => []TypeOK
<1>1. Init => TypeOK
  BY RecordTypes, BoundsAssumption
     DEF Init, TypeOK, Status, Outcome, RowStatus, Life
<1>2. TypeOK /\ [Next]_vars => TypeOK'
  <2> SUFFICES ASSUME TypeOK, [Next]_vars
               PROVE  TypeOK'
    OBVIOUS
  <2>1. CASE UNCHANGED vars
    BY <2>1 DEF vars, dbVars, procVars, TypeOK
  <2>2. ASSUME NEW p \in Proc, Step(p)
        PROVE  TypeOK'
    <3>1. CASE Boot(p) \/ Crash(p) \/ Exit(p)
      BY <3>1, LifeKeepsTypes
    <3>2. CASE RunTask(p) \/ PersistProgress(p) \/ TaskPanics(p) \/ OrphanPublishEnd(p)
      BY <3>2, TaskKeepsTypes
    <3>3. CASE \E c \in Caller : CallBegin(p, c) \/ RunCall(p, c)
      BY <3>3, CallKeepsTypes
    <3>4. CASE \/ DirectBegin(p) \/ DirectPublish(p) \/ DirectEnd(p)
               \/ ShutdownBegin(p) \/ RunShutdown(p)
      BY <3>4, ShutdownKeepsTypes
    <3>5. QED
      BY <2>2, <3>1, <3>2, <3>3, <3>4 DEF Step
  <2>3. QED
    BY <2>1, <2>2 DEF Next
<1>3. QED
  BY <1>1, <1>2, PTL DEF Spec

-----------------------------------------------------------------------------
(* The owner lock.                                                         *)

Holding == {"opening", "up"} \cup (Stopping \ {"closing"})

(* TaskRunsUnderLock is not inductive: a task starts to work in a call     *)
(* that spawns it, the call got there under the lifecycle mutex, and a     *)
(* process holds the lock from its claim to its release.                   *)
LockInv ==
  /\ \A p \in Proc : life[p] \in Holding => owner = p
  /\ \A p \in Proc : task[p].pc \in Working => life[p] \in {"up", "aborting"}
  /\ \A p \in Proc, c \in Caller :
       call[p][c].pc \in {"insert", "reread", "spawn"} => life[p] = "up"

(* The lifetime of a process keeps the lock discipline. *)
LEMMA LifeKeepsLock ==
  ASSUME TypeOK, LockInv, NEW p \in Proc, Boot(p) \/ Crash(p) \/ Exit(p)
  PROVE  LockInv'
<1> USE DEF procVars, Holding, Stopping, Working
<1>types. /\ life \in [Proc -> Life] /\ owner \in Proc \cup {NoProc}
          /\ task \in [Proc -> Task] /\ call \in [Proc -> [Caller -> Call]]
  BY DEF TypeOK
<1>fresh. ASSUME Fresh(p)
          PROVE  /\ task' = [task EXCEPT ![p] = NoTask]
                 /\ call' = [call EXCEPT ![p] = [c \in Caller |-> NoCall]]
  BY <1>fresh DEF Fresh
<1>claim. CASE Claim(p)
  BY <1>claim, <1>types, NoProcAssumption DEF Claim, LockInv
<1>recover. CASE Recover(p)
  <2>1. UNCHANGED <<task, call>> /\ life[p] = "opening" /\ owner = p
    BY <1>recover DEF Recover, LockInv
  <2>2. CASE life' = [life EXCEPT ![p] = "up"] /\ UNCHANGED owner
    BY <1>types, <2>1, <2>2 DEF LockInv
  <2>3. CASE life' = [life EXCEPT ![p] = "down"] /\ ReleaseOwner(p)
    BY <1>types, <2>1, <2>3, NoProcAssumption DEF LockInv, ReleaseOwner
  <2>4. QED
    BY <1>recover, <2>2, <2>3 DEF Recover
<1>crash. CASE Crash(p)
  <2>1. /\ life' = [life EXCEPT ![p] = "down"]
        /\ owner' = IF owner = p THEN NoProc ELSE owner
    BY <1>crash DEF Crash, ReleaseOwner
  <2>2. \A q \in Proc : life'[q] \in Holding => owner' = q
    BY <1>types, <2>1 DEF LockInv
  <2>3. \A q \in Proc : task'[q].pc \in Working => life'[q] \in {"up", "aborting"}
    BY <1>crash, <1>types, <1>fresh, <2>1 DEF LockInv, Crash, NoTask
  <2>4. \A q \in Proc, c \in Caller :
          call'[q][c].pc \in {"insert", "reread", "spawn"} => life'[q] = "up"
    BY <1>crash, <1>types, <1>fresh, <2>1 DEF LockInv, Crash, NoCall
  <2>5. QED
    BY <2>2, <2>3, <2>4 DEF LockInv
<1>exit. CASE Exit(p)
  <2>1. /\ life' = [life EXCEPT ![p] = "down"] /\ UNCHANGED owner
        /\ life[p] = "closed"
    BY <1>exit DEF Exit
  <2>2. \A q \in Proc : life'[q] \in Holding => owner' = q
    BY <1>types, <2>1 DEF LockInv
  <2>3. \A q \in Proc : task'[q].pc \in Working => life'[q] \in {"up", "aborting"}
    BY <1>exit, <1>types, <1>fresh, <2>1 DEF LockInv, Exit, NoTask
  <2>4. \A q \in Proc, c \in Caller :
          call'[q][c].pc \in {"insert", "reread", "spawn"} => life'[q] = "up"
    BY <1>exit, <1>types, <1>fresh, <2>1 DEF LockInv, Exit, NoCall
  <2>5. QED
    BY <2>2, <2>3, <2>4 DEF LockInv
<1>q. QED
  BY <1>claim, <1>recover, <1>crash, <1>exit DEF Boot

(* No step of the background task makes an idle task work. *)
LEMMA TaskStepsStayPut ==
  ASSUME TypeOK, NEW p \in Proc,
         RunTask(p) \/ PersistProgress(p) \/ TaskPanics(p) \/ OrphanPublishEnd(p)
  PROVE  /\ UNCHANGED <<owner, life, call>>
         /\ \A q \in Proc : task'[q].pc \in Working => task[q].pc \in Working
<1> USE DEF TaskStep, Working
<1>types. task \in [Proc -> Task] /\ task[p] \in Task
  BY DEF TypeOK
<1>1. ASSUME NEW x, task' = [task EXCEPT ![p] = x],
             task[p].pc \in Working
      PROVE  \A q \in Proc : task'[q].pc \in Working => task[q].pc \in Working
  BY <1>1, <1>types
<1>mark. CASE MarkRunning(p)
  BY <1>mark, <1>1 DEF MarkRunning
<1>plan. CASE Plan(p)
  BY <1>plan, <1>1 DEF Plan
<1>prep. CASE PrepareFails(p)
  BY <1>prep, <1>1 DEF PrepareFails
<1>fetch. CASE FetchFailed(p)
  BY <1>fetch, <1>1 DEF FetchFailed
<1>begin. CASE PublishBegin(p)
  BY <1>begin, <1>1 DEF PublishBegin
<1>end. CASE PublishEnd(p)
  BY <1>end, <1>1 DEF PublishEnd
<1>reload. CASE Reload(p)
  BY <1>reload, <1>1 DEF Reload
<1>prog. CASE PersistProgress(p)
  BY <1>prog, <1>1 DEF PersistProgress
<1>drain. CASE Drained(p)
  BY <1>drain, <1>1 DEF Drained
<1>sync. CASE SyncSource(p)
  BY <1>sync, <1>1 DEF SyncSource
<1>finish. CASE FinishJob(p)
  BY <1>finish, <1>1 DEF FinishJob
<1>panic. CASE TaskPanics(p)
  BY <1>panic, <1>1 DEF TaskPanics
<1>orphan. CASE OrphanPublishEnd(p)
  BY <1>orphan DEF OrphanPublishEnd
<1>q. QED
  BY <1>mark, <1>plan, <1>prep, <1>fetch, <1>begin, <1>end, <1>reload, <1>prog,
     <1>drain, <1>sync, <1>finish, <1>panic, <1>orphan DEF RunTask

(* Tool calls keep the lock discipline: they take the mutex while the      *)
(* process is up and spawn the task before they give it back.              *)
LEMMA CallKeepsLock ==
  ASSUME TypeOK, LockInv, NEW p \in Proc, NEW c \in Caller, CallBegin(p, c) \/ RunCall(p, c)
  PROVE  LockInv'
<1> USE DEF CallStep
<1> DEFINE Mutex == {"insert", "reread", "spawn"}
<1>types. /\ life \in [Proc -> Life] /\ task \in [Proc -> Task]
          /\ call \in [Proc -> [Caller -> Call]]
  BY DEF TypeOK
<1>1. UNCHANGED <<owner, life>>
  BY DEF CallBegin, RunCall, Reap, PersistReaped, TakePending, PersistPending,
         LockLifecycle, InsertJob, ReadBack, Spawn
<1>2. ASSUME NEW x, call' = [call EXCEPT ![p][c] = x], x.pc \in Mutex => life[p] = "up"
      PROVE  \A q \in Proc, d \in Caller : call'[q][d].pc \in Mutex => life[q] = "up"
  <2>1. \A q \in Proc, d \in Caller : call'[q][d] = IF q = p /\ d = c THEN x ELSE call[q][d]
    BY <1>2, <1>types
  <2>2. QED
    BY <1>2, <2>1 DEF LockInv
<1>3. ASSUME NEW pc, To(p, c, pc), pc \in Mutex => life[p] = "up"
      PROVE  \A q \in Proc, d \in Caller : call'[q][d].pc \in Mutex => life[q] = "up"
  <2>1. call' = [call EXCEPT ![p][c] = [call[p][c] EXCEPT !.pc = pc]]
    BY <1>3 DEF To
  <2>2. call[p][c] \in Call
    BY <1>types
  <2>3. [call[p][c] EXCEPT !.pc = pc].pc = pc
    BY <2>2 DEF Call
  <2>4. QED
    BY <1>2, <1>3, <2>1, <2>3
<1>4. Return(p, c) => \A q \in Proc, d \in Caller : call'[q][d].pc \in Mutex => life[q] = "up"
  BY <1>2 DEF Return, NoCall
<1>5. AfterMaintain(p, c).pc \notin Mutex
  <2>1. call[p][c] \in Call
    BY <1>types
  <2>2. QED
    BY <2>1 DEF AfterMaintain, NoCall, Call
<1>calls. \A q \in Proc, d \in Caller : call'[q][d].pc \in Mutex => life[q] = "up"
  <2> DEFINE k == call[p][c]
  <2>k. k \in Call
    BY <1>types
  <2>begin. CASE CallBegin(p, c)
    <3>1. \A op : [NoCall EXCEPT !.pc = "reap", !.op = op].pc \notin Mutex
      BY DEF NoCall
    <3>2. QED
      BY <1>2, <2>begin, <3>1 DEF CallBegin
  <2>reap. CASE Reap(p, c)
    <3>1. /\ \A h : [k EXCEPT !.pc = "reaped", !.hand = h].pc \notin Mutex
          /\ [k EXCEPT !.pc = "take"].pc \notin Mutex
      BY <2>k DEF Call
    <3>2. QED
      BY <1>2, <2>reap, <3>1 DEF Reap
  <2>reaped. CASE PersistReaped(p, c)
    <3>1. [k EXCEPT !.pc = "take", !.hand = NoPending].pc \notin Mutex
      BY <2>k DEF Call
    <3>2. QED
      BY <1>2, <2>reaped, <3>1 DEF PersistReaped
  <2>take. CASE TakePending(p, c)
    <3>1. [k EXCEPT !.pc = "persist", !.hand = slot[p]].pc \notin Mutex
      BY <2>k DEF Call
    <3>2. QED
      BY <1>2, <1>5, <2>take, <3>1 DEF TakePending
  <2>persist. CASE PersistPending(p, c)
    BY <1>2, <1>4, <1>5, <2>persist DEF PersistPending
  <2>lock. CASE LockLifecycle(p, c)
    BY <1>3, <1>4, <2>lock DEF LockLifecycle
  <2>insert. CASE InsertJob(p, c)
    <3>1. life[p] = "up"
      BY <2>insert DEF InsertJob, LockInv
    <3>2. CASE Return(p, c)
      BY <1>4, <3>2
    <3>3. CASE \E j \in Absent : call' = [call EXCEPT ![p][c] = [k EXCEPT !.pc = "reread", !.id = j]]
      BY <1>2, <3>1, <3>3
    <3>4. QED
      BY <2>insert, <3>2, <3>3 DEF InsertJob
  <2>read. CASE ReadBack(p, c)
    <3>1. life[p] = "up"
      BY <2>read DEF ReadBack, LockInv
    <3>2. QED
      BY <1>3, <1>4, <2>read, <3>1 DEF ReadBack
  <2>spawn. CASE Spawn(p, c)
    BY <1>4, <2>spawn DEF Spawn
  <2>q. QED
    BY <2>begin, <2>reap, <2>reaped, <2>take, <2>persist, <2>lock, <2>insert,
       <2>read, <2>spawn DEF RunCall
<1>tasks. \A q \in Proc : task'[q].pc \in Working => life[q] \in {"up", "aborting"}
  <2>reap. CASE Reap(p, c)
    BY <1>types, <2>reap DEF Reap, LockInv, NoTask, Working
  <2>spawn. CASE Spawn(p, c)
    <3>1. life[p] = "up"
      BY <2>spawn DEF Spawn, LockInv
    <3>2. QED
      BY <1>types, <2>spawn, <3>1 DEF Spawn, LockInv
  <2>other. CASE UNCHANGED task
    BY <2>other DEF LockInv
  <2>q. QED
    BY <2>reap, <2>spawn, <2>other
       DEF CallBegin, RunCall, PersistReaped, TakePending, PersistPending,
           LockLifecycle, InsertJob, ReadBack
<1>q. QED
  BY <1>1, <1>calls, <1>tasks DEF LockInv

(* Shutdown keeps the lock discipline: it aborts the task before it        *)
(* releases the lock.                                                      *)
LEMMA ShutdownKeepsLock ==
  ASSUME TypeOK, LockInv, NEW p \in Proc,
         \/ DirectBegin(p) \/ DirectPublish(p) \/ DirectEnd(p)
         \/ ShutdownBegin(p) \/ RunShutdown(p)
  PROVE  LockInv'
<1> USE DEF procVars, ShutdownStep, Holding, Stopping
<1>types. life \in [Proc -> Life] /\ task \in [Proc -> Task]
  BY DEF TypeOK
<1>direct. CASE DirectBegin(p) \/ DirectPublish(p) \/ DirectEnd(p)
  BY <1>direct DEF DirectBegin, DirectPublish, DirectEnd, DirectStep, LockInv
<1>sbegin. CASE ShutdownBegin(p)
  BY <1>sbegin, <1>types DEF ShutdownBegin, LifecycleFree, LockInv
<1>abort. CASE AbortTask(p)
  BY <1>abort, <1>types DEF AbortTask, LockInv, NoTask, Working
<1>steps. CASE FlushPending(p) \/ ReadActive(p) \/ Interrupt(p)
  BY <1>steps, <1>types DEF FlushPending, ReadActive, Interrupt, LockInv
<1>rel. CASE Release(p)
  BY <1>rel, <1>types DEF Release, ReleaseOwner, LockInv
<1>close. CASE ClosePool(p)
  BY <1>close, <1>types DEF ClosePool, LockInv
<1>q. QED
  BY <1>direct, <1>sbegin, <1>abort, <1>steps, <1>rel, <1>close DEF RunShutdown

(* The lock discipline is an invariant. *)
THEOREM LockDiscipline == Spec => []LockInv
<1>1. Init => LockInv
  BY DEF Init, LockInv, NoTask, NoCall, Holding, Stopping, Working
<1>2. TypeOK /\ LockInv /\ [Next]_vars => LockInv'
  <2> SUFFICES ASSUME TypeOK, LockInv, [Next]_vars
               PROVE  LockInv'
    OBVIOUS
  <2>1. CASE UNCHANGED vars
    BY <2>1 DEF vars, procVars, LockInv
  <2>2. ASSUME NEW p \in Proc, Step(p)
        PROVE  LockInv'
    <3>1. CASE Boot(p) \/ Crash(p) \/ Exit(p)
      BY <3>1, LifeKeepsLock
    <3>2. CASE RunTask(p) \/ PersistProgress(p) \/ TaskPanics(p) \/ OrphanPublishEnd(p)
      BY <3>2, TaskStepsStayPut DEF LockInv
    <3>3. CASE \E c \in Caller : CallBegin(p, c) \/ RunCall(p, c)
      BY <3>3, CallKeepsLock
    <3>4. CASE \/ DirectBegin(p) \/ DirectPublish(p) \/ DirectEnd(p)
               \/ ShutdownBegin(p) \/ RunShutdown(p)
      BY <3>4, ShutdownKeepsLock
    <3>5. QED
      BY <2>2, <3>1, <3>2, <3>3, <3>4 DEF Step
  <2>3. QED
    BY <2>1, <2>2 DEF Next
<1>3. QED
  BY <1>1, <1>2, TypeCorrect, PTL DEF Spec

(* A background task works only while its process holds the owner lock, so *)
(* the recovery in open never interrupts a job that somebody is running.   *)
THEOREM TaskRunsUnderLockHolds == Spec => []TaskRunsUnderLock
<1>1. LockInv => TaskRunsUnderLock
  BY DEF LockInv, TaskRunsUnderLock, Holding, Stopping
<1>2. QED
  BY <1>1, LockDiscipline, PTL

-----------------------------------------------------------------------------
(* The job table implements the abstract job life cycle.                   *)

(* A terminal state in hand has an outcome that goes with it.              *)
Fits(t) ==
  \/ /\ t.kind = "finish" /\ t.to = "completed"
     /\ t.outcome \in {"success", "partial_failure", "failed"}
  \/ t.to = "failed" /\ t.outcome = "failed"
FitInv ==
  /\ \A p \in Proc : Fits(slot[p])
  /\ \A p \in Proc, c \in Caller : Fits(call[p][c].hand)

(* The records the code makes out of nothing are ones a terminal write can *)
(* store.                                                                  *)
LEMMA KnownFits ==
  /\ Fits(NoPending) /\ Fits(NoCall.hand)
  /\ \A id : Fits(FailActive(id))
  /\ \A t : Fits(TerminalOf(t))
<1>1. Fits(NoPending) /\ Fits(NoCall.hand)
  BY DEF Fits, NoPending, NoCall
<1>2. \A id : Fits(FailActive(id))
  BY DEF Fits, NoPending, FailActive
<1>3. \A t : Fits(TerminalOf(t))
  BY DEF Fits, TerminalOf, Finish, ResultOutcome
<1>4. QED
  BY <1>1, <1>2, <1>3

(* No step records a terminal state whose outcome does not go with it. *)
LEMMA StepKeepsFit ==
  ASSUME TypeOK, FitInv, NEW p \in Proc, Step(p)
  PROVE  FitInv'
<1> USE DEF procVars, TaskStep, CallStep, ShutdownStep
<1>types. /\ slot \in [Proc -> Pending] /\ call \in [Proc -> [Caller -> Call]]
  BY DEF TypeOK
<1>slot. ASSUME NEW x, Fits(x), slot' = [slot EXCEPT ![p] = x]
         PROVE  \A q \in Proc : Fits(slot'[q])
  BY <1>slot, <1>types DEF FitInv
<1>same. ASSUME UNCHANGED slot PROVE \A q \in Proc : Fits(slot'[q])
  BY <1>same DEF FitInv
<1>hand. ASSUME NEW c \in Caller, NEW x, Fits(x.hand), call' = [call EXCEPT ![p][c] = x]
         PROVE  \A q \in Proc, d \in Caller : Fits(call'[q][d].hand)
  <2>1. \A q \in Proc, d \in Caller : call'[q][d] = IF q = p /\ d = c THEN x ELSE call[q][d]
    BY <1>hand, <1>types
  <2>2. QED
    BY <1>hand, <2>1 DEF FitInv
<1>calm. ASSUME UNCHANGED call PROVE \A q \in Proc, d \in Caller : Fits(call'[q][d].hand)
  BY <1>calm DEF FitInv
<1>boot. CASE Boot(p)
  BY <1>boot DEF Boot, Claim, Recover, FitInv
<1>fresh. CASE Crash(p) \/ Exit(p)
  <2>1. Fresh(p)
    BY <1>fresh DEF Crash, Exit
  <2>2. \A q \in Proc : Fits(slot'[q])
    BY <2>1, <1>slot, KnownFits DEF Fresh
  <2>3. \A q \in Proc, d \in Caller : Fits(call'[q][d].hand)
    BY <2>1, <1>types, KnownFits DEF Fresh, FitInv
  <2>4. QED
    BY <2>2, <2>3 DEF FitInv
<1>task. CASE RunTask(p) \/ PersistProgress(p) \/ TaskPanics(p) \/ OrphanPublishEnd(p)
  <2>1. UNCHANGED call
    BY <1>task, TaskStepsStayPut
  <2>2. CASE MarkRunning(p)
    BY <2>1, <2>2, <1>slot, <1>same, <1>calm, KnownFits DEF MarkRunning, FitInv
  <2>3. CASE FinishJob(p)
    BY <2>1, <2>3, <1>slot, <1>same, <1>calm, KnownFits DEF FinishJob, FitInv
  <2>4. CASE UNCHANGED slot
    BY <2>1, <2>4, <1>same, <1>calm DEF FitInv
  <2>5. QED
    BY <1>task, <2>2, <2>3, <2>4
       DEF RunTask, Plan, PrepareFails, FetchFailed, PublishBegin, PublishEnd, Reload,
           Drained, SyncSource, PersistProgress, TaskPanics, OrphanPublishEnd
<1>call. ASSUME NEW c \in Caller, CallBegin(p, c) \/ RunCall(p, c)
         PROVE  FitInv'
  <2> DEFINE k == call[p][c]
  <2>k. k \in Call /\ Fits(k.hand) /\ Fits(slot[p])
    BY <1>types DEF FitInv
  <2>return. Return(p, c) => \A q \in Proc, d \in Caller : Fits(call'[q][d].hand)
    BY <1>hand, KnownFits DEF Return
  <2>to. ASSUME NEW pc, To(p, c, pc)
         PROVE  \A q \in Proc, d \in Caller : Fits(call'[q][d].hand)
    <3>1. call' = [call EXCEPT ![p][c] = [k EXCEPT !.pc = pc]]
      BY <2>to DEF To
    <3>2. [k EXCEPT !.pc = pc].hand = k.hand
      BY <2>k DEF Call
    <3>3. QED
      BY <1>hand, <2>k, <3>1, <3>2
  <2>after. Fits(AfterMaintain(p, c).hand)
    <3>1. [k EXCEPT !.pc = "plan", !.hand = NoPending].hand = NoPending
      BY <2>k DEF Call
    <3>2. QED
      BY <3>1, KnownFits DEF AfterMaintain
  <2>begin. CASE CallBegin(p, c)
    <3>1. \A op : Fits([NoCall EXCEPT !.pc = "reap", !.op = op].hand)
      BY KnownFits DEF NoCall
    <3>2. QED
      BY <2>begin, <1>hand, <1>same, <3>1 DEF CallBegin, FitInv
  <2>reap. CASE Reap(p, c)
    <3>1. /\ \A h \in Pending : [k EXCEPT !.pc = "reaped", !.hand = h].hand = h
          /\ [k EXCEPT !.pc = "take"].hand = k.hand
          /\ FailActive(task[p].id) \in Pending
      BY <2>k, RecordTypes DEF Call, TypeOK, Task
    <3>2. QED
      BY <2>reap, <2>k, <1>hand, <1>same, <3>1, KnownFits DEF Reap, FitInv
  <2>reaped. CASE PersistReaped(p, c)
    <3>1. [k EXCEPT !.pc = "take", !.hand = NoPending].hand = NoPending
      BY <2>k DEF Call
    <3>2. QED
      BY <2>reaped, <2>k, <1>hand, <1>slot, <1>same, <3>1, KnownFits DEF PersistReaped, FitInv
  <2>take. CASE TakePending(p, c)
    <3>1. [k EXCEPT !.pc = "persist", !.hand = slot[p]].hand = slot[p]
      BY <2>k DEF Call
    <3>2. QED
      BY <2>take, <2>k, <2>after, <1>hand, <1>slot, <1>same, <3>1, KnownFits
         DEF TakePending, FitInv
  <2>persist. CASE PersistPending(p, c)
    BY <2>persist, <2>k, <2>after, <2>return, <1>hand, <1>slot, <1>same DEF PersistPending, FitInv
  <2>lock. CASE LockLifecycle(p, c)
    BY <2>lock, <2>to, <2>return, <1>same DEF LockLifecycle, FitInv
  <2>insert. CASE InsertJob(p, c)
    <3>1. \A j : [k EXCEPT !.pc = "reread", !.id = j].hand = k.hand
      BY <2>k DEF Call
    <3>2. CASE Return(p, c)
      BY <2>insert, <2>return, <1>same, <3>2 DEF InsertJob, FitInv
    <3>3. CASE \E j \in Absent : call' = [call EXCEPT ![p][c] = [k EXCEPT !.pc = "reread", !.id = j]]
      <4>1. PICK j \in Absent : call' = [call EXCEPT ![p][c] = [k EXCEPT !.pc = "reread", !.id = j]]
        BY <3>3
      <4>2. \A q \in Proc, d \in Caller : Fits(call'[q][d].hand)
        BY <2>k, <1>hand, <3>1, <4>1
      <4>3. QED
        BY <2>insert, <1>same, <4>2 DEF InsertJob, FitInv
    <3>4. QED
      BY <2>insert, <3>2, <3>3 DEF InsertJob
  <2>read. CASE ReadBack(p, c)
    BY <2>read, <2>to, <2>return, <1>same DEF ReadBack, FitInv
  <2>spawn. CASE Spawn(p, c)
    BY <2>spawn, <2>return, <1>same DEF Spawn, FitInv
  <2>q. QED
    BY <1>call, <2>begin, <2>reap, <2>reaped, <2>take, <2>persist, <2>lock, <2>insert,
       <2>read, <2>spawn DEF RunCall
<1>direct. CASE DirectBegin(p) \/ DirectPublish(p) \/ DirectEnd(p)
  BY <1>direct DEF DirectBegin, DirectPublish, DirectEnd, DirectStep, FitInv
<1>down. CASE ShutdownBegin(p) \/ RunShutdown(p)
  <2>1. UNCHANGED call
    BY <1>down DEF ShutdownBegin, RunShutdown, AbortTask, FlushPending, ReadActive,
                   Interrupt, Release, ClosePool
  <2>2. \A q \in Proc : Fits(slot'[q])
    BY <1>down, <1>slot, <1>same, KnownFits
       DEF ShutdownBegin, RunShutdown, AbortTask, FlushPending, ReadActive, Interrupt,
           Release, ClosePool
  <2>3. QED
    BY <1>calm, <2>1, <2>2 DEF FitInv
<1>q. QED
  BY <1>boot, <1>fresh, <1>task, <1>call, <1>direct, <1>down DEF Step

(* A guarded terminal write settles one job or changes no job. *)
LEMMA TerminalWrite ==
  ASSUME TypeOK, NEW p, NEW t \in Pending, Fits(t), Landed(p, t) \/ NotLanded(p, t)
  PROVE  [Lifecycle!Next]_<<status, outcome>>
<1>types. status \in [JobId -> Status] /\ outcome \in [JobId -> Outcome]
  BY DEF TypeOK
<1>1. CASE Landed(p, t) /\ t.id \in JobId
  <2>1. status[t.id] \in Active /\ (t.to = "completed" => status[t.id] = "running")
    BY <1>1 DEF Landed, Accepts, Fits, Active
  <2>2. QED
    BY <1>1, <2>1 DEF Landed, SetTerminal, Fits, Lifecycle!Next, Lifecycle!Settle,
       Lifecycle!ran, Active
<1>2. CASE Landed(p, t) /\ t.id \notin JobId
  BY <1>2, <1>types DEF Landed, SetTerminal
<1>3. CASE NotLanded(p, t)
  BY <1>3 DEF NotLanded, dbVars
<1>4. QED
  BY <1>1, <1>2, <1>3

(* Interrupting jobs while at most one is active settles that one or none. *)
LEMMA InterruptWrite ==
  ASSUME TypeOK, SingleActiveJob, NEW R, NEW J, InterruptJobs(R, J)
  PROVE  [Lifecycle!Next]_<<status, outcome>>
<1>types. status \in [JobId -> Status] /\ outcome \in [JobId -> Outcome]
  BY DEF TypeOK
<1> DEFINE hit == J \cap ActiveJobs
<1>1. /\ status'  = [j \in JobId |-> IF j \in hit THEN "interrupted" ELSE status[j]]
      /\ outcome' = [j \in JobId |-> IF j \in hit THEN "interrupted" ELSE outcome[j]]
  BY DEF InterruptJobs
<1>2. CASE hit = {}
  BY <1>1, <1>2, <1>types
<1>3. ASSUME NEW j \in hit
      PROVE  Lifecycle!Next
  <2>1. j \in JobId /\ status[j] \in {"queued", "running"} /\ hit = {j}
    BY <1>3 DEF ActiveJobs, Active, SingleActiveJob
  <2>2. /\ status'  = [status EXCEPT ![j] = "interrupted"]
        /\ outcome' = [outcome EXCEPT ![j] = "interrupted"]
    BY <1>1, <1>types, <2>1
  <2>3. QED
    BY <2>1, <2>2 DEF Lifecycle!Next, Lifecycle!Settle
<1>4. QED
  BY <1>2, <1>3

(* Every step of the system is a step of the job life cycle or leaves the  *)
(* job table's status and outcome alone.                                   *)
LEMMA StepImplements ==
  ASSUME TypeOK, FitInv, SingleActiveJob, NEW p \in Proc, Step(p)
  PROVE  [Lifecycle!Next]_<<status, outcome>>
<1> USE DEF dbVars, TaskStep, CallStep, ShutdownStep
<1>types. /\ status \in [JobId -> Status] /\ slot \in [Proc -> Pending]
          /\ call \in [Proc -> [Caller -> Call]] /\ task[p] \in Task
  BY DEF TypeOK
<1>boot. CASE Boot(p)
  BY <1>boot, InterruptWrite DEF Boot, Claim, Recover
<1>fresh. CASE Crash(p) \/ Exit(p)
  BY <1>fresh DEF Crash, Exit
<1>task. CASE RunTask(p) \/ PersistProgress(p) \/ TaskPanics(p) \/ OrphanPublishEnd(p)
  <2>mark. CASE MarkRunning(p)
    <3> DEFINE id == task[p].id
    <3>1. CASE status' = [status EXCEPT ![id] = "running"] /\ UNCHANGED outcome
               /\ status[id] = "queued" /\ id \in JobId
      BY <3>1 DEF Lifecycle!Next, Lifecycle!Begin
    <3>2. CASE status' = [status EXCEPT ![id] = "running"] /\ UNCHANGED outcome /\ id \notin JobId
      BY <3>2, <1>types
    <3>3. CASE UNCHANGED <<status, outcome>>
      BY <3>3
    <3>4. QED
      BY <2>mark, <3>1, <3>2, <3>3 DEF MarkRunning
  <2>finish. CASE FinishJob(p)
    <3>1. TerminalOf(task[p]) \in Pending
      <4>1. task[p].id \in {NoJob} \cup JobId /\ ResultOutcome(task[p].ops) \in Outcome
        BY <1>types DEF Task, ResultOutcome, Outcome
      <4>2. QED
        BY <4>1, RecordTypes DEF TerminalOf, Terminal, Outcome
    <3>2. QED
      BY <2>finish, <3>1, KnownFits, TerminalWrite DEF FinishJob
  <2>other. CASE UNCHANGED <<status, outcome>>
    BY <2>other
  <2>q. QED
    BY <1>task, <2>mark, <2>finish, <2>other
       DEF RunTask, Plan, PrepareFails, FetchFailed, PublishBegin, PublishEnd, Reload,
           Drained, SyncSource, PersistProgress, TaskPanics, OrphanPublishEnd
<1>call. ASSUME NEW c \in Caller, CallBegin(p, c) \/ RunCall(p, c)
         PROVE  [Lifecycle!Next]_<<status, outcome>>
  <2>hand. call[p][c].hand \in Pending /\ Fits(call[p][c].hand)
    BY <1>types DEF Call, FitInv
  <2>reaped. CASE PersistReaped(p, c)
    BY <2>reaped, <2>hand, TerminalWrite DEF PersistReaped
  <2>persist. CASE PersistPending(p, c)
    BY <2>persist, <2>hand, TerminalWrite DEF PersistPending
  <2>insert. CASE InsertJob(p, c)
    <3>1. CASE ActiveJobs = {} /\ \E j \in Absent : status' = [status EXCEPT ![j] = "queued"]
               /\ UNCHANGED outcome
      BY <3>1 DEF ActiveJobs, Active, Absent, Lifecycle!Next, Lifecycle!Accept
    <3>2. CASE UNCHANGED dbVars
      BY <3>2
    <3>3. QED
      BY <2>insert, <3>1, <3>2 DEF InsertJob
  <2>other. CASE UNCHANGED dbVars
    BY <2>other
  <2>q. QED
    BY <1>call, <2>reaped, <2>persist, <2>insert, <2>other
       DEF CallBegin, RunCall, Reap, TakePending, LockLifecycle, ReadBack, Spawn
<1>direct. CASE DirectBegin(p) \/ DirectPublish(p) \/ DirectEnd(p)
  BY <1>direct DEF DirectBegin, DirectPublish, DirectEnd, DirectStep
<1>down. CASE ShutdownBegin(p) \/ RunShutdown(p)
  <2>flush. CASE FlushPending(p)
    <3>1. slot[p] \in Pending /\ Fits(slot[p])
      BY <1>types DEF FitInv
    <3>2. QED
      BY <2>flush, <3>1, TerminalWrite DEF FlushPending
  <2>intr. CASE Interrupt(p)
    BY <2>intr, InterruptWrite DEF Interrupt
  <2>other. CASE UNCHANGED dbVars
    BY <2>other
  <2>q. QED
    BY <1>down, <2>flush, <2>intr, <2>other
       DEF ShutdownBegin, RunShutdown, AbortTask, ReadActive, Release, ClosePool
<1>q. QED
  BY <1>boot, <1>fresh, <1>task, <1>call, <1>direct, <1>down DEF Step

(* A step of the life cycle never makes a second job active. *)
LEMMA LifecycleKeepsSingle ==
  ASSUME TypeOK, SingleActiveJob, [Lifecycle!Next]_<<status, outcome>>
  PROVE  SingleActiveJob'
<1>types. status \in [JobId -> Status]
  BY DEF TypeOK
<1> USE DEF SingleActiveJob, ActiveJobs, Active
<1>1. ASSUME NEW j \in JobId, Lifecycle!Accept(j)
      PROVE  SingleActiveJob'
  BY <1>1, <1>types DEF Lifecycle!Accept
<1>2. ASSUME NEW j \in JobId, Lifecycle!Begin(j)
      PROVE  SingleActiveJob'
  BY <1>2, <1>types DEF Lifecycle!Begin
<1>3. ASSUME NEW j \in JobId, NEW to, NEW out, Lifecycle!Settle(j, to, out),
             to \notin Active
      PROVE  SingleActiveJob'
  BY <1>3, <1>types DEF Lifecycle!Settle
<1>4. CASE UNCHANGED <<status, outcome>>
  BY <1>4
<1>5. QED
  BY <1>1, <1>2, <1>3, <1>4 DEF Lifecycle!Next

(* The invariant on which the refinement rests. *)
JobInv == TypeOK /\ FitInv /\ SingleActiveJob

(* The invariant of jobs, records and the single active job. *)
LEMMA JobInvariant == Spec => []JobInv
<1>1. Init => FitInv /\ SingleActiveJob
  BY KnownFits DEF Init, FitInv, SingleActiveJob, ActiveJobs, Active
<1>2. TypeOK /\ FitInv /\ SingleActiveJob /\ [Next]_vars => FitInv' /\ SingleActiveJob'
  <2> SUFFICES ASSUME TypeOK, FitInv, SingleActiveJob, [Next]_vars
               PROVE  FitInv' /\ SingleActiveJob'
    OBVIOUS
  <2>1. CASE UNCHANGED vars
    BY <2>1 DEF vars, dbVars, procVars, FitInv, SingleActiveJob, ActiveJobs
  <2>2. ASSUME NEW p \in Proc, Step(p)
        PROVE  FitInv' /\ SingleActiveJob'
    BY <2>2, StepKeepsFit, StepImplements, LifecycleKeepsSingle
  <2>3. QED
    BY <2>1, <2>2 DEF Next
<1>3. QED
  BY <1>1, <1>2, TypeCorrect, PTL DEF Spec, JobInv

(* However starts race, within one process or across restarts, at most one *)
(* job of the table is queued or running.                                  *)
THEOREM SingleActiveJobHolds == Spec => []SingleActiveJob
<1>1. JobInv => SingleActiveJob
  BY DEF JobInv
<1>2. QED
  BY <1>1, JobInvariant, PTL

(* The job table with every task, call, shutdown, crash and recovery that  *)
(* writes it implements the abstract job life cycle: jobs are accepted one *)
(* at a time and settled once, with an outcome that fits.                  *)
THEOREM Implementation == Spec => ImplementsLifecycle
<1>1. Init => Lifecycle!Init
  BY DEF Init, Lifecycle!Init
<1>2. JobInv /\ [Next]_vars => [Lifecycle!Next]_<<status, outcome>>
  <2>1. JobInv /\ UNCHANGED vars => UNCHANGED <<status, outcome>>
    BY DEF vars, dbVars
  <2>2. JobInv /\ Next => [Lifecycle!Next]_<<status, outcome>>
    BY StepImplements DEF JobInv, Next
  <2>3. QED
    BY <2>1, <2>2
<1>3. QED
  BY <1>1, <1>2, JobInvariant, PTL DEF Spec, ImplementsLifecycle, Lifecycle!Spec

-----------------------------------------------------------------------------
(* The agents of a process.                                                *)

(* Calls are answered and the task has not been aborted yet.               *)
Serving == {"up", "aborting"}

TaskActs(p) ==
  task[p].pc \in Working \/ (task[p].pc = "panicked" /\ active[p] # NoJob)
CallActs(p, c) ==
  call[p][c].hand.kind # "none" \/ call[p][c].pc \in {"reread", "spawn"}

(* A call holds a terminal state exactly while it is about to write it.    *)
Hands(p) ==
  /\ slot[p].kind = "none" => slot[p] = NoPending
  /\ \A c \in Caller :
       call[p][c].hand.kind # "none" <=> call[p][c].pc \in {"reaped", "persist"}

(* A process that has not opened its database yet has no agent.            *)
Rests(p) ==
  life[p] \in {"down", "opening"} =>
    /\ slot[p].kind = "none" /\ task[p].pc = "none"
    /\ \A c \in Caller : call[p][c].pc = "idle"

(* The handle that is kept is the handle of the task that was spawned.     *)
Handle(p) ==
  /\ active[p] # NoJob => life[p] = "up" /\ active[p] = task[p].id
  /\ life[p] = "up" /\ task[p].pc \in Working => active[p] = task[p].id

(* A recorded terminal state is about a job that was inserted.             *)
Inserted(t) == t.kind # "none" => t.id \in JobId /\ status[t.id] # "absent"
Known(p) == Inserted(slot[p]) /\ \A c \in Caller : Inserted(call[p][c].hand)

(* Whatever an agent is about to do, the row of its job still allows it.   *)
Duty(p) ==
  life[p] \in Serving =>
    /\ TaskActs(p) =>
         /\ task[p].id \in JobId
         /\ status[task[p].id] = IF task[p].pc = "marking" THEN "queued" ELSE "running"
    /\ slot[p].kind # "none" => Accepts(slot[p])
    /\ \A c \in Caller :
         /\ call[p][c].hand.kind # "none" => Accepts(call[p][c].hand)
         /\ call[p][c].pc \in {"reread", "spawn"} =>
              call[p][c].id \in JobId /\ status[call[p][c].id] = "queued"

(* At most one agent at a time.                                            *)
Sole(p) ==
  life[p] \in Serving =>
    /\ TaskActs(p) => slot[p].kind = "none"
    /\ \A c \in Caller : CallActs(p, c) => ~TaskActs(p) /\ slot[p].kind = "none"
    /\ \A c, d \in Caller : CallActs(p, c) /\ CallActs(p, d) => c = d

(* RunningJobAttended, of one process.                                     *)
Attended(p) ==
  life[p] = "up" => \A j \in JobId : status[j] = "running" => AttendedBy(p, j)

(* What a process that lost the lock still has in hand is about a job that *)
(* the recovery of the next owner settled.                                 *)
Settled(t) == t.kind # "none" => t.id \in JobId /\ status[t.id] \in Terminal
Stranger(p, q) ==
  life[q] \in Serving => Settled(slot[p]) /\ \A c \in Caller : Settled(call[p][c].hand)

Own(p) ==
  Hands(p) /\ Rests(p) /\ Handle(p) /\ Known(p) /\ Duty(p) /\ Sole(p) /\ Attended(p)
AgentInv ==
  /\ \A p \in Proc : Own(p)
  /\ \A p, q \in Proc : p # q => Stranger(p, q)

-----------------------------------------------------------------------------
(* A step of one process leaves the memory of the others alone. *)
LEMMA StepIsLocal ==
  ASSUME TypeOK, NEW p \in Proc, Step(p), NEW q \in Proc, q # p
  PROVE  /\ life'[q] = life[q] /\ active'[q] = active[q] /\ slot'[q] = slot[q]
         /\ task'[q] = task[q] /\ call'[q] = call[q]
<1> USE DEF dbVars, procVars, TypeOK
<1>life. CASE Boot(p) \/ Crash(p) \/ Exit(p)
  BY <1>life DEF Boot, Claim, Recover, Crash, Exit, Fresh
<1>task. CASE RunTask(p) \/ PersistProgress(p) \/ TaskPanics(p) \/ OrphanPublishEnd(p)
  <2> USE DEF TaskStep
  <2>1. CASE MarkRunning(p) \/ FinishJob(p)
    BY <2>1 DEF MarkRunning, FinishJob
  <2>2. CASE Plan(p) \/ PrepareFails(p) \/ FetchFailed(p)
    BY <2>2 DEF Plan, PrepareFails, FetchFailed
  <2>3. CASE PublishBegin(p) \/ PublishEnd(p) \/ Reload(p)
    BY <2>3 DEF PublishBegin, PublishEnd, Reload
  <2>4. CASE Drained(p) \/ SyncSource(p) \/ PersistProgress(p)
    BY <2>4 DEF Drained, SyncSource, PersistProgress
  <2>5. CASE TaskPanics(p) \/ OrphanPublishEnd(p)
    BY <2>5 DEF TaskPanics, OrphanPublishEnd
  <2>6. QED
    BY <1>task, <2>1, <2>2, <2>3, <2>4, <2>5 DEF RunTask
<1>call. ASSUME NEW c \in Caller, CallBegin(p, c) \/ RunCall(p, c)
         PROVE  /\ life'[q] = life[q] /\ active'[q] = active[q] /\ slot'[q] = slot[q]
                /\ task'[q] = task[q] /\ call'[q] = call[q]
  <2> USE DEF CallStep, Return, To
  <2>1. CASE CallBegin(p, c) \/ Reap(p, c)
    BY <2>1 DEF CallBegin, Reap
  <2>2. CASE PersistReaped(p, c) \/ TakePending(p, c) \/ PersistPending(p, c)
    BY <2>2 DEF PersistReaped, TakePending, PersistPending
  <2>3. CASE LockLifecycle(p, c) \/ InsertJob(p, c) \/ ReadBack(p, c) \/ Spawn(p, c)
    BY <2>3 DEF LockLifecycle, InsertJob, ReadBack, Spawn
  <2>4. QED
    BY <1>call, <2>1, <2>2, <2>3 DEF RunCall
<1>direct. CASE DirectBegin(p) \/ DirectPublish(p) \/ DirectEnd(p)
  BY <1>direct DEF DirectBegin, DirectPublish, DirectEnd, DirectStep
<1>down. CASE ShutdownBegin(p) \/ RunShutdown(p)
  BY <1>down DEF ShutdownBegin, RunShutdown, AbortTask, FlushPending, ReadActive, Interrupt,
                 Release, ClosePool, ShutdownStep
<1>q. QED
  BY <1>life, <1>task, <1>call, <1>direct, <1>down DEF Step

(* A job never loses its row, and a settled one stays settled. *)
LEMMA JobsMoveOn ==
  ASSUME TypeOK, [Lifecycle!Next]_<<status, outcome>>, NEW j \in JobId
  PROVE  /\ status[j] # "absent" => status'[j] # "absent"
         /\ status[j] \in Terminal => status'[j] = status[j] /\ outcome'[j] = outcome[j]
<1> USE DEF TypeOK, Terminal, Lifecycle!Accept, Lifecycle!Begin, Lifecycle!Settle
<1>1. CASE Lifecycle!Next
  BY <1>1 DEF Lifecycle!Next
<1>2. CASE UNCHANGED <<status, outcome>>
  BY <1>2
<1>3. QED
  BY <1>1, <1>2

(* While a process serves calls no other process writes the job table: an  *)
(* action property of which the single-owner rule is the reason.           *)
LEMMA StrangersWriteNothing ==
  ASSUME TypeOK, LockInv, AgentInv, NEW p \in Proc, Step(p),
         NEW q \in Proc, q # p, life[q] \in Serving
  PROVE  UNCHANGED dbVars
<1>owner. owner = q /\ life[p] \notin Holding
  BY DEF LockInv, Holding, Stopping, Serving
<1>task. task[p].pc \notin Working
  BY <1>owner DEF LockInv, Holding, Stopping
<1>mutex. \A c \in Caller : call[p][c].pc \notin {"insert", "reread", "spawn"}
  BY <1>owner DEF LockInv, Holding
<1>dead. /\ Settled(slot[p]) /\ \A c \in Caller : Settled(call[p][c].hand)
         /\ \A c \in Caller : call[p][c].pc \in {"reaped", "persist"} => call[p][c].hand.kind # "none"
  BY DEF AgentInv, Own, Hands, Stranger
<1>refused. \A t : t.kind # "none" /\ Settled(t) => ~Landed(p, t)
  BY DEF Settled, Landed, Accepts, Active, Terminal
<1> USE DEF TaskStep, CallStep, ShutdownStep
<1>1. CASE Boot(p) \/ Crash(p) \/ Exit(p)
  BY <1>1, <1>owner DEF Boot, Claim, Recover, Crash, Exit, Holding
<1>2. CASE RunTask(p) \/ PersistProgress(p) \/ TaskPanics(p) \/ OrphanPublishEnd(p)
  BY <1>2, <1>task DEF RunTask, MarkRunning, FinishJob, Plan, PrepareFails, FetchFailed,
     PublishBegin, PublishEnd, Reload, Drained, SyncSource, PersistProgress, TaskPanics,
     OrphanPublishEnd, Working
<1>3. ASSUME NEW c \in Caller, CallBegin(p, c) \/ RunCall(p, c)
      PROVE  UNCHANGED dbVars
  <2>1. CASE PersistReaped(p, c) \/ PersistPending(p, c)
    BY <2>1, <1>dead, <1>refused DEF PersistReaped, PersistPending, NotLanded
  <2>2. CASE UNCHANGED dbVars
    BY <2>2
  <2>3. QED
    BY <1>3, <1>mutex, <2>1, <2>2
       DEF CallBegin, RunCall, Reap, TakePending, LockLifecycle, InsertJob, ReadBack, Spawn
<1>4. CASE DirectBegin(p) \/ DirectPublish(p) \/ DirectEnd(p)
  BY <1>4 DEF DirectBegin, DirectPublish, DirectEnd, DirectStep
<1>5. CASE ShutdownBegin(p) \/ RunShutdown(p)
  BY <1>5, <1>owner DEF ShutdownBegin, RunShutdown, AbortTask, FlushPending, ReadActive,
     Interrupt, Release, ClosePool, Holding, Stopping
<1>q. QED
  BY <1>1, <1>2, <1>3, <1>4, <1>5 DEF Step

-----------------------------------------------------------------------------
(* The steps of a process, seen from its own agents.                       *)

(* Every step of the refresh itself leaves the task at work on its job. *)
LEMMA TaskWorksOn ==
  ASSUME TypeOK, NEW p \in Proc,
         \/ Plan(p) \/ PrepareFails(p) \/ FetchFailed(p) \/ PublishBegin(p) \/ PublishEnd(p)
         \/ Reload(p) \/ Drained(p) \/ SyncSource(p) \/ PersistProgress(p)
  PROVE  /\ UNCHANGED <<status, outcome, owner, life, active, slot, call>>
         /\ task[p].pc \in Working /\ task'[p].pc \in Working
         /\ task'[p].id = task[p].id
         /\ task'[p].pc = "marking" <=> task[p].pc = "marking"
<1> USE DEF TaskStep, Working, dbVars
<1>t. task \in [Proc -> Task] /\ task[p] \in Task
  BY DEF TypeOK
<1>frame. UNCHANGED <<status, outcome, owner, life, active, slot, call>>
  BY DEF Plan, PrepareFails, FetchFailed, PublishBegin, PublishEnd, Reload, Drained, SyncSource,
         PersistProgress
<1>set. ASSUME NEW x, task' = [task EXCEPT ![p] = x], x.pc \in Working, x.id = task[p].id,
               task[p].pc \in Working, x.pc = "marking" <=> task[p].pc = "marking"
        PROVE  /\ task[p].pc \in Working /\ task'[p].pc \in Working
               /\ task'[p].id = task[p].id
               /\ task'[p].pc = "marking" <=> task[p].pc = "marking"
  BY <1>t, <1>set
<1> DEFINE t == task[p]
<1>plan. CASE Plan(p)
  <2>1. ASSUME NEW due, task' = [task EXCEPT ![p] =
                 [t EXCEPT !.pc = IF due = {} THEN "draining" ELSE "publishing", !.left = due,
                           !.queue = Append(@, PlanPatch(Requested(t.id), due))]]
        PROVE  task'[p].pc \in Working \ {"marking"} /\ task'[p].id = t.id
    <3> DEFINE q == Append(t.queue, PlanPatch(Requested(t.id), due))
    <3>1. task'[p] = [t EXCEPT !.pc = IF due = {} THEN "draining" ELSE "publishing", !.left = due, !.queue = q]
      BY <1>t, <2>1
    <3> HIDE DEF q
    <3>2. QED
      BY <1>t, <3>1 DEF Task
  <2>2. ASSUME task' = [task EXCEPT ![p] = [t EXCEPT !.pc = "draining", !.ok = FALSE]]
        PROVE  task'[p].pc \in Working \ {"marking"} /\ task'[p].id = t.id
    BY <1>t, <2>2 DEF Task
  <2>3. task'[p].pc \in Working \ {"marking"} /\ task'[p].id = t.id
    BY <1>plan, <2>1, <2>2 DEF Plan
  <2>4. QED
    BY <1>plan, <1>frame, <2>3 DEF Plan
<1>prep. CASE PrepareFails(p)
  <2>1. \A pc, ok : LET x == [t EXCEPT !.pc = pc, !.ok = ok] IN x.pc = pc /\ x.id = t.id
    BY <1>t DEF Task
  <2>2. QED
    BY <1>prep, <1>set, <1>frame, <2>1 DEF PrepareFails
<1>report. \A s, op : Report(t, s, op).pc = "publishing" /\ Report(t, s, op).id = t.id
  BY <1>t DEF Task, Report
<1>fetch. CASE FetchFailed(p)
  BY <1>fetch, <1>set, <1>frame, <1>report DEF FetchFailed
<1>begin. CASE PublishBegin(p)
  <2>1. PICK s \in t.left : task' = [task EXCEPT ![p] = [t EXCEPT !.pc = "writing", !.now = {s}]]
    BY <1>begin DEF PublishBegin
  <2>2. task'[p] = [t EXCEPT !.pc = "writing", !.now = {s}]
    BY <1>t, <2>1
  <2>3. QED
    BY <1>begin, <1>t, <1>frame, <2>2 DEF PublishBegin, Task
<1>end. CASE PublishEnd(p)
  <2>1. ASSUME NEW s, NEW op, NEW b,
               task' = [task EXCEPT ![p] = [Report(t, s, op) EXCEPT !.dirty = @ \/ b]]
        PROVE  task'[p].pc = "publishing" /\ task'[p].id = t.id
    BY <1>t, <2>1 DEF Task, Report
  <2>2. ASSUME task' = [task EXCEPT ![p] = [t EXCEPT !.pc = "draining", !.ok = FALSE, !.now = {}]]
        PROVE  task'[p].pc = "draining" /\ task'[p].id = t.id
    BY <1>t, <2>2 DEF Task
  <2>3. task'[p].pc \in {"publishing", "draining"} /\ task'[p].id = t.id
    BY <1>end, <2>1, <2>2 DEF PublishEnd
  <2>4. QED
    BY <1>end, <1>frame, <2>3 DEF PublishEnd
<1>reload. CASE Reload(p)
  <2>1. ASSUME NEW ok, NEW ops, task' = [task EXCEPT ![p] = [t EXCEPT !.pc = "draining", !.ok = ok, !.ops = ops]]
        PROVE  task'[p].pc = "draining" /\ task'[p].id = t.id
    BY <1>t, <2>1 DEF Task
  <2>2. task'[p].pc = "draining" /\ task'[p].id = t.id
    BY <1>reload, <2>1 DEF Reload
  <2>3. QED
    BY <1>reload, <1>frame, <2>2 DEF Reload
<1>drain. CASE Drained(p)
  <2>1. \A pc, left : LET x == [t EXCEPT !.pc = pc, !.left = left] IN x.pc = pc /\ x.id = t.id
    BY <1>t DEF Task
  <2>2. QED
    BY <1>drain, <1>set, <1>frame, <2>1 DEF Drained
<1>sync. CASE SyncSource(p)
  <2>1. ASSUME NEW s \in t.left,
               task' = [task EXCEPT ![p] =
                 [t EXCEPT !.left = @ \ {s}, !.pc = IF t.left = {s} THEN "finishing" ELSE "syncing"]]
        PROVE  task'[p].pc \in {"syncing", "finishing"} /\ task'[p].id = t.id
    BY <1>t, <2>1 DEF Task
  <2>2. ASSUME task' = [task EXCEPT ![p] = [t EXCEPT !.pc = "finishing", !.lost = TRUE]]
        PROVE  task'[p].pc = "finishing" /\ task'[p].id = t.id
    BY <1>t, <2>2 DEF Task
  <2>3. task'[p].pc \in {"syncing", "finishing"} /\ task'[p].id = t.id
    BY <1>sync, <2>1, <2>2 DEF SyncSource
  <2>4. QED
    BY <1>sync, <1>frame, <2>3 DEF SyncSource
<1>progress. CASE PersistProgress(p)
  <2>1. ASSUME NEW q, task' = [task EXCEPT ![p].queue = q]
        PROVE  task'[p].pc = t.pc /\ task'[p].id = t.id
    BY <1>t, <2>1 DEF Task
  <2>2. ASSUME NEW q, task' = [task EXCEPT ![p] = [t EXCEPT !.queue = q, !.lost = TRUE]]
        PROVE  task'[p].pc = t.pc /\ task'[p].id = t.id
    BY <1>t, <2>2 DEF Task
  <2>3. task'[p].pc = t.pc /\ task'[p].id = t.id
    BY <1>progress, <2>1, <2>2 DEF PersistProgress
  <2>4. QED
    BY <1>progress, <1>frame, <2>3 DEF PersistProgress
<1>q. QED
  BY <1>plan, <1>prep, <1>fetch, <1>begin, <1>end, <1>reload, <1>drain, <1>sync, <1>progress

(* The agents of a process are untouched as long as its memory and the     *)
(* statuses are.                                                           *)
LEMMA OwnStays ==
  ASSUME NEW p \in Proc, Own(p), UNCHANGED status,
         life'[p] = life[p], active'[p] = active[p], slot'[p] = slot[p], task'[p] = task[p],
         call'[p] = call[p]
  PROVE  Own(p)'
  BY DEF Own, Hands, Rests, Handle, Known, Inserted, Duty, Sole, Attended, AttendedBy, TaskActs,
         CallActs, Accepts

(* The background task hands its job on, or over, without losing it. *)
LEMMA TaskKeepsOwn ==
  ASSUME TypeOK, LockInv, SingleActiveJob, NEW p \in Proc, Own(p),
         RunTask(p) \/ PersistProgress(p) \/ TaskPanics(p) \/ OrphanPublishEnd(p)
  PROVE  Own(p)'
<1> USE DEF TaskStep, dbVars
<1> DEFINE t == task[p]
<1>t. /\ t \in Task /\ task \in [Proc -> Task] /\ slot \in [Proc -> Pending] /\ slot[p] \in Pending
      /\ status \in [JobId -> Status] /\ NoJob \notin JobId
  BY BoundsAssumption DEF TypeOK, JobId, NoJob
<1>own. Hands(p) /\ Rests(p) /\ Handle(p) /\ Known(p) /\ Duty(p) /\ Sole(p) /\ Attended(p)
  BY DEF Own
<1>serves. t.pc \in Working => life[p] \in Serving
  BY DEF LockInv, Serving
<1>works. CASE \/ Plan(p) \/ PrepareFails(p) \/ FetchFailed(p) \/ PublishBegin(p) \/ PublishEnd(p)
               \/ Reload(p) \/ Drained(p) \/ SyncSource(p) \/ PersistProgress(p)
  <2>1. /\ UNCHANGED <<status, outcome, owner, life, active, slot, call>>
        /\ task[p].pc \in Working /\ task'[p].pc \in Working
        /\ task'[p].id = task[p].id
        /\ task'[p].pc = "marking" <=> task[p].pc = "marking"
    BY <1>works, TaskWorksOn
  <2>2. QED
    BY <2>1, <1>own, <1>serves DEF Own, Hands, Rests, Handle, Known, Inserted, Duty, Sole, Attended, AttendedBy,
       TaskActs, CallActs, Accepts, Serving
<1>mark. CASE MarkRunning(p)
  <2>1. t.pc = "marking" /\ life[p] \in Serving /\ t.id \in JobId /\ status[t.id] = "queued"
        /\ slot[p].kind = "none" /\ \A c \in Caller : ~CallActs(p, c)
    BY <1>mark, <1>own, <1>serves DEF MarkRunning, Working, Duty, Sole, TaskActs
  <2>2. CASE status' = [status EXCEPT ![t.id] = "running"] /\ task' = [task EXCEPT ![p] = [t EXCEPT !.pc = "locking"]]
    <3>1. task'[p].pc = "locking" /\ task'[p].id = t.id /\ UNCHANGED <<life, active, slot, call>>
      <4>1. [t EXCEPT !.pc = "locking"].pc = "locking" /\ [t EXCEPT !.pc = "locking"].id = t.id
        BY <1>t DEF Task
      <4>2. QED
        BY <1>mark, <1>t, <2>1, <2>2, <4>1 DEF MarkRunning
    <3>2. status'[t.id] = "running" /\ \A j \in JobId : j # t.id => status'[j] = status[j] /\ status[j] # "running"
      BY <1>t, <2>1, <2>2 DEF SingleActiveJob, ActiveJobs, Active
    <3>3. QED
      BY <1>own, <2>1, <3>1, <3>2 DEF Own, Hands, Rests, Handle, Known, Inserted, Duty, Sole, Attended, AttendedBy,
         TaskActs, CallActs, Working, Serving
  <2>3. CASE slot' = [slot EXCEPT ![p] = FailActive(t.id)] /\ task' = [task EXCEPT ![p] = Done(t.id)] /\ UNCHANGED status
    <3>1. task'[p].pc = "finished" /\ task'[p].id = t.id /\ slot'[p].kind = "fail" /\ slot'[p].id = t.id
          /\ UNCHANGED <<life, active, call>>
      BY <1>mark, <1>t, <2>3 DEF MarkRunning, Done, NoTask, FailActive, NoPending
    <3>2. \A j \in JobId : status[j] # "running"
      BY <2>1 DEF SingleActiveJob, ActiveJobs, Active
    <3>3. QED
      BY <1>own, <2>1, <2>3, <3>1, <3>2 DEF Own, Hands, Rests, Handle, Known, Inserted, Duty, Sole, Attended, AttendedBy,
         TaskActs, CallActs, Accepts, Active, Working, Serving
  <2>4. QED
    BY <1>mark, <2>1, <2>2, <2>3 DEF MarkRunning
<1>finish. CASE FinishJob(p)
  <2> DEFINE x == TerminalOf(t)
  <2>1. t.pc = "finishing" /\ life[p] \in Serving /\ t.id \in JobId /\ status[t.id] = "running"
        /\ slot[p].kind = "none" /\ \A c \in Caller : ~CallActs(p, c)
    BY <1>finish, <1>own, <1>serves DEF FinishJob, Working, Duty, Sole, TaskActs
  <2>2. x.kind = "finish" /\ x.id = t.id /\ x.to \in {"completed", "failed"}
    BY DEF TerminalOf, Finish
  <2>3. task'[p].pc = "finished" /\ task'[p].id = t.id /\ UNCHANGED <<life, active, call>>
    BY <1>finish, <1>t DEF FinishJob, Done, NoTask
  <2>4. CASE Landed(p, x) /\ UNCHANGED slot
    <3>1. status' = [status EXCEPT ![t.id] = x.to]
      BY <2>2, <2>4 DEF Landed, SetTerminal
    <3>2. \A j \in JobId : status'[j] # "running"
      BY <1>t, <2>1, <2>2, <3>1 DEF SingleActiveJob, ActiveJobs, Active
    <3>3. \A j \in JobId : status[j] # "absent" => status'[j] # "absent"
      BY <1>t, <2>1, <2>2, <3>1
    <3>4. QED
      BY <1>own, <2>1, <2>3, <2>4, <3>2, <3>3 DEF Own, Hands, Rests, Handle, Known, Inserted, Duty, Sole, Attended,
         TaskActs, CallActs, Working, Serving
  <2>5. CASE NotLanded(p, x) /\ slot' = [slot EXCEPT ![p] = x]
    <3>1. slot'[p] = x /\ UNCHANGED status
      BY <1>t, <2>5 DEF NotLanded
    <3>2. \A j \in JobId : status[j] = "running" => j = t.id
      BY <2>1 DEF SingleActiveJob, ActiveJobs, Active
    <3>3. QED
      BY <1>own, <2>1, <2>2, <2>3, <3>1, <3>2 DEF Own, Hands, Rests, Handle, Known, Inserted, Duty, Sole, Attended, AttendedBy,
         TaskActs, CallActs, Accepts, Working, Serving
  <2>6. QED
    BY <1>finish, <2>4, <2>5 DEF FinishJob
<1>panic. CASE TaskPanics(p)
  <2>1. task[p].pc \in Working /\ task[p].pc # "marking" /\ task'[p].pc = "panicked" /\ task'[p].id = t.id
        /\ UNCHANGED <<life, active, slot, call, status>>
    BY <1>panic, <1>t DEF TaskPanics, Working, NoTask
  <2>2. life[p] \in Serving /\ TaskActs(p) /\ t.id \in JobId
    BY <1>own, <1>serves, <2>1 DEF Duty, TaskActs
  <2>3. QED
    BY <1>t, <1>own, <2>1, <2>2 DEF Own, Hands, Rests, Handle, Known, Inserted, Duty, Sole, Attended, AttendedBy,
       TaskActs, CallActs, Accepts, Working, Serving
<1>orphan. CASE OrphanPublishEnd(p)
  BY <1>orphan, OwnStays DEF OrphanPublishEnd
<1>q. QED
  BY <1>works, <1>mark, <1>finish, <1>panic, <1>orphan DEF RunTask

(* A tool call takes its agent over, or leaves the one there is alone. *)
LEMMA CallKeepsOwn ==
  ASSUME TypeOK, LockInv, FitInv, SingleActiveJob, NEW p \in Proc, NEW c \in Caller, Own(p),
         [Lifecycle!Next]_<<status, outcome>>, CallBegin(p, c) \/ RunCall(p, c)
  PROVE  Own(p)'
<1> USE DEF CallStep, dbVars
<1> DEFINE k == call[p][c]
<1>t. /\ k \in Call /\ k.hand \in Pending /\ slot[p] \in Pending
      /\ task \in [Proc -> Task] /\ slot \in [Proc -> Pending] /\ active \in [Proc -> {NoJob} \cup JobId]
      /\ call \in [Proc -> [Caller -> Call]] /\ status \in [JobId -> Status] /\ NoJob \notin JobId
  BY BoundsAssumption DEF TypeOK, Call, JobId, NoJob
<1>own. Hands(p) /\ Rests(p) /\ Handle(p) /\ Known(p) /\ Duty(p) /\ Sole(p) /\ Attended(p)
  BY DEF Own
<1>life. UNCHANGED life
  BY DEF CallBegin, RunCall, Reap, PersistReaped, TakePending, PersistPending, LockLifecycle, InsertJob,
         ReadBack, Spawn
<1>set. \A x : call' = [call EXCEPT ![p][c] = x] =>
          call'[p][c] = x /\ \A d \in Caller : d # c => call'[p][d] = call[p][d]
  BY <1>t
<1>grow. \A j \in JobId : status[j] # "absent" => status'[j] # "absent"
  BY JobsMoveOn
<1>idle. NoCall.pc = "idle" /\ NoCall.hand = NoPending /\ NoPending.kind = "none"
  BY DEF NoCall, NoPending
(* A step that neither takes an agent nor gives one up. *)
<1>calm. ASSUME UNCHANGED <<status, active, slot, task>>, NEW x, call' = [call EXCEPT ![p][c] = x],
                k.hand.kind = "none", k.pc \notin {"reread", "spawn"}, life[p] \notin {"down", "opening"},
                x.hand.kind = "none", x.pc \notin {"reaped", "persist", "reread", "spawn"}
         PROVE  Own(p)'
  BY <1>own, <1>life, <1>set, <1>calm DEF Own, Hands, Rests, Handle, Known, Inserted, Duty, Sole, Attended, AttendedBy,
     TaskActs, CallActs, Accepts
<1>begin. CASE CallBegin(p, c)
  <2>1. PICK op \in {"start", "status"} : call' = [call EXCEPT ![p][c] = [NoCall EXCEPT !.pc = "reap", !.op = op]]
    BY <1>begin DEF CallBegin
  <2>2. [NoCall EXCEPT !.pc = "reap", !.op = op].hand.kind = "none" /\ [NoCall EXCEPT !.pc = "reap", !.op = op].pc = "reap"
    BY DEF NoCall, NoPending
  <2>3. k.hand.kind = "none" /\ k.pc = "idle" /\ life[p] = "up" /\ UNCHANGED <<status, active, slot, task>>
    BY <1>begin, <1>own DEF CallBegin, Hands
  <2>4. QED
    BY <1>calm, <2>1, <2>2, <2>3
<1>up. ~CallBegin(p, c) => life[p] \notin {"down", "opening"}
  BY <1>own DEF Rests, RunCall, Reap, PersistReaped, TakePending, PersistPending, LockLifecycle, InsertJob,
         ReadBack, Spawn
<1>reap. CASE Reap(p, c)
  <2>1. k.pc = "reap" /\ k.hand.kind = "none" /\ UNCHANGED <<status, slot>>
    BY <1>reap, <1>own DEF Reap, Hands
  <2>2. CASE active[p] # NoJob /\ task[p].pc = "panicked"
    <3>1. active'[p] = NoJob /\ task'[p].pc = "none"
      BY <1>t, <1>reap, <2>2 DEF Reap, NoTask
    <3>2. call' = [call EXCEPT ![p][c] = [k EXCEPT !.pc = "reaped", !.hand = FailActive(task[p].id)]]
      BY <1>reap, <2>2 DEF Reap
    <3>3. call'[p][c].pc = "reaped" /\ call'[p][c].hand = FailActive(task[p].id)
          /\ \A d \in Caller : d # c => call'[p][d] = call[p][d]
      BY <1>t, <1>set, <3>2 DEF Call
    <3>4. FailActive(task[p].id).kind = "fail" /\ FailActive(task[p].id).id = task[p].id
      BY DEF FailActive, NoPending
    <3>5. TaskActs(p) /\ life[p] = "up" /\ active[p] = task[p].id
      BY <2>2, <1>own DEF TaskActs, Handle
    <3>6. task[p].id \in JobId /\ status[task[p].id] = "running" /\ slot[p].kind = "none" /\ \A d \in Caller : ~CallActs(p, d)
      BY <2>2, <3>5, <1>own DEF Duty, Sole, Serving
    <3>7. \A j \in JobId : status[j] = "running" => j = task[p].id
      BY <3>6 DEF SingleActiveJob, ActiveJobs, Active
    <3>8. QED
      BY <1>own, <1>life, <2>1, <3>1, <3>3, <3>4, <3>5, <3>6, <3>7 DEF Own, Hands, Rests, Handle, Known, Inserted, Duty, Sole,
         Attended, AttendedBy, TaskActs, CallActs, Accepts, Active, Working
  <2>3. CASE active[p] # NoJob /\ task[p].pc = "finished"
    <3>1. active'[p] = NoJob /\ task'[p].pc = "none"
      BY <1>t, <1>reap, <2>3 DEF Reap, NoTask
    <3>2. call'[p][c].pc = "take" /\ call'[p][c].hand = k.hand
          /\ \A d \in Caller : d # c => call'[p][d] = call[p][d]
      <4>1. call' = [call EXCEPT ![p][c] = [k EXCEPT !.pc = "take"]]
        BY <1>reap, <2>3 DEF Reap
      <4>2. QED
        BY <1>t, <1>set, <4>1 DEF Call
    <3>3. QED
      BY <1>own, <1>life, <1>up, <2>1, <2>3, <3>1, <3>2 DEF Own, Hands, Rests, Handle, Known, Inserted, Duty, Sole,
         Attended, AttendedBy, TaskActs, CallActs, Accepts, Active, Working
  <2>4. CASE ~(active[p] # NoJob /\ task[p].pc \in {"finished", "panicked"})
    <3>1. call' = [call EXCEPT ![p][c] = [k EXCEPT !.pc = "take"]] /\ UNCHANGED <<active, task>>
      BY <1>reap, <2>4 DEF Reap
    <3>2. [k EXCEPT !.pc = "take"].pc = "take" /\ [k EXCEPT !.pc = "take"].hand = k.hand
      BY <1>t DEF Call
    <3>3. life[p] \notin {"down", "opening"}
      BY <1>own, <2>1 DEF Rests
    <3>4. QED
      BY <1>calm, <2>1, <3>1, <3>2, <3>3
  <2>5. QED
    BY <2>2, <2>3, <2>4
(* A call that writes what it holds is the only agent; so either no job is *)
(* active afterwards, or the slot holds what the call held.                *)
<1>writes. ASSUME k.pc \in {"reaped", "persist"}
           PROVE  /\ k.hand.kind # "none" /\ k.hand.id \in JobId /\ k.hand.to \in Terminal
                  /\ life[p] \in Serving =>
                       /\ ~TaskActs(p) /\ slot[p].kind = "none" /\ Accepts(k.hand)
                       /\ \A d \in Caller : d # c => ~CallActs(p, d)
                       /\ Landed(p, k.hand) => \A j \in JobId : status'[j] \notin Active
  <2>1. k.hand.kind # "none" /\ k.hand.id \in JobId /\ k.hand.to \in Terminal
    BY <1>writes, <1>t, <1>own DEF Hands, Known, Inserted, Pending
  <2>2. ASSUME life[p] \in Serving
        PROVE  /\ ~TaskActs(p) /\ slot[p].kind = "none" /\ Accepts(k.hand)
               /\ \A d \in Caller : d # c => ~CallActs(p, d)
    BY <2>1, <2>2, <1>own DEF Duty, Sole, CallActs
  <2>3. ASSUME Accepts(k.hand), Landed(p, k.hand)
        PROVE  \A j \in JobId : status'[j] \notin Active
    <3>1. status' = [status EXCEPT ![k.hand.id] = k.hand.to]
      BY <2>3 DEF Landed, SetTerminal
    <3>2. status[k.hand.id] \in Active
      BY <2>3 DEF Accepts, Active
    <3>3. QED
      BY <1>t, <2>1, <3>1, <3>2 DEF SingleActiveJob, ActiveJobs, Active, Terminal
  <2>4. QED
    BY <2>1, <2>2, <2>3
<1>reaped. CASE PersistReaped(p, c)
  <2>1. k.pc = "reaped" /\ UNCHANGED <<active, task>>
    BY <1>reaped DEF PersistReaped
  <2>2. call'[p][c].pc = "take" /\ call'[p][c].hand = NoPending
        /\ \A d \in Caller : d # c => call'[p][d] = call[p][d]
    <3>1. call' = [call EXCEPT ![p][c] = [k EXCEPT !.pc = "take", !.hand = NoPending]]
      BY <1>reaped DEF PersistReaped
    <3>2. QED
      BY <1>t, <1>set, <3>1 DEF Call
  <2>3. CASE Landed(p, k.hand) /\ UNCHANGED slot
    BY <1>own, <1>life, <1>grow, <1>idle, <1>up, <1>reaped, <1>writes, <2>1, <2>2, <2>3
       DEF Own, Hands, Rests, Handle, Known, Inserted, Duty, Sole, Attended, TaskActs, CallActs, Serving, Active, RunCall
  <2>4. CASE NotLanded(p, k.hand) /\ slot' = [slot EXCEPT ![p] = k.hand]
    <3>1. slot'[p] = k.hand /\ UNCHANGED status
      BY <1>t, <2>4 DEF NotLanded
    <3>2. \A j \in JobId : life[p] \in Serving /\ status[j] = "running" => j = k.hand.id
      BY <1>writes, <2>1 DEF SingleActiveJob, ActiveJobs, Active, Accepts
    <3>3. QED
      BY <1>own, <1>life, <1>idle, <1>writes, <2>1, <2>2, <3>1, <3>2
         DEF Own, Hands, Rests, Handle, Known, Inserted, Duty, Sole, Attended, AttendedBy, TaskActs, CallActs, Accepts, Serving
  <2>5. QED
    BY <1>reaped, <2>3, <2>4 DEF PersistReaped
<1>after. k.pc \in {"take", "persist"} =>
            /\ AfterMaintain(p, c).pc \in {"plan", "idle"} /\ AfterMaintain(p, c).hand = NoPending
  BY <1>t, <1>idle DEF AfterMaintain, Call
<1>take. CASE TakePending(p, c)
  <2>1. k.pc = "take" /\ k.hand.kind = "none" /\ UNCHANGED <<status, active, task>>
    BY <1>take, <1>own DEF TakePending, Hands
  <2>2. CASE slot[p] = NoPending
    <3>1. call' = [call EXCEPT ![p][c] = AfterMaintain(p, c)] /\ UNCHANGED slot
      BY <1>take, <2>2 DEF TakePending
    <3>2. life[p] \notin {"down", "opening"}
      BY <1>own, <2>1 DEF Rests
    <3>3. QED
      BY <1>calm, <1>after, <1>idle, <2>1, <3>1, <3>2
  <2>3. CASE slot[p] # NoPending
    <3>1. slot'[p] = NoPending /\ slot[p].kind # "none"
      BY <1>t, <1>take, <1>own, <2>3 DEF TakePending, Hands
    <3>2. call'[p][c].pc = "persist" /\ call'[p][c].hand = slot[p]
          /\ \A d \in Caller : d # c => call'[p][d] = call[p][d]
      <4>1. call' = [call EXCEPT ![p][c] = [k EXCEPT !.pc = "persist", !.hand = slot[p]]]
        BY <1>take, <2>3 DEF TakePending
      <4>2. QED
        BY <1>t, <1>set, <4>1 DEF Call
    <3>3. QED
      BY <1>own, <1>life, <1>idle, <2>1, <3>1, <3>2
         DEF Own, Hands, Rests, Handle, Known, Inserted, Duty, Sole, Attended, AttendedBy, TaskActs, CallActs, Accepts, Serving
  <2>4. QED
    BY <2>2, <2>3
<1>persist. CASE PersistPending(p, c)
  <2>1. k.pc = "persist" /\ UNCHANGED <<active, task>>
    BY <1>persist DEF PersistPending
  <2>2. call'[p][c].pc \in {"plan", "idle"} /\ call'[p][c].hand = NoPending
        /\ \A d \in Caller : d # c => call'[p][d] = call[p][d]
    BY <1>persist, <1>set, <1>after, <1>idle, <2>1 DEF PersistPending, Return
  <2>3. CASE Landed(p, k.hand) /\ UNCHANGED slot
    BY <1>own, <1>life, <1>grow, <1>idle, <1>writes, <2>1, <2>2, <2>3
       DEF Own, Hands, Rests, Handle, Known, Inserted, Duty, Sole, Attended, TaskActs, CallActs, Serving, Active
  <2>4. CASE NotLanded(p, k.hand) /\ slot' = [slot EXCEPT ![p] = k.hand]
    <3>1. slot'[p] = k.hand /\ UNCHANGED status
      BY <1>t, <2>4 DEF NotLanded
    <3>2. \A j \in JobId : life[p] \in Serving /\ status[j] = "running" => j = k.hand.id
      BY <1>writes, <2>1 DEF SingleActiveJob, ActiveJobs, Active, Accepts
    <3>3. QED
      BY <1>own, <1>life, <1>idle, <1>writes, <2>1, <2>2, <3>1, <3>2
         DEF Own, Hands, Rests, Handle, Known, Inserted, Duty, Sole, Attended, AttendedBy, TaskActs, CallActs, Accepts, Serving
  <2>5. QED
    BY <1>persist, <2>3, <2>4 DEF PersistPending
<1>lock. CASE LockLifecycle(p, c)
  <2>1. k.pc = "plan" /\ k.hand.kind = "none" /\ UNCHANGED <<status, active, slot, task>> /\ life[p] \in {"up", "closed"}
    BY <1>lock, <1>own DEF LockLifecycle, LifecycleFree, Hands
  <2>2. CASE To(p, c, "insert")
    <3>1. call' = [call EXCEPT ![p][c] = [k EXCEPT !.pc = "insert"]]
      BY <2>2 DEF To
    <3>2. [k EXCEPT !.pc = "insert"].pc = "insert" /\ [k EXCEPT !.pc = "insert"].hand = k.hand
      BY <1>t DEF Call
    <3>3. QED
      BY <1>calm, <2>1, <3>1, <3>2
  <2>3. CASE Return(p, c)
    BY <1>calm, <1>idle, <2>1, <2>3 DEF Return
  <2>4. QED
    BY <1>lock, <2>2, <2>3 DEF LockLifecycle
<1>insert. CASE InsertJob(p, c)
  <2>1. k.pc = "insert" /\ k.hand.kind = "none" /\ UNCHANGED <<active, slot, task>> /\ life[p] = "up"
    BY <1>insert, <1>own DEF InsertJob, Hands, LockInv
  <2>2. CASE Return(p, c) /\ UNCHANGED status
    BY <1>calm, <1>idle, <2>1, <2>2 DEF Return
  <2>3. ASSUME ActiveJobs = {}, NEW j \in Absent, status' = [status EXCEPT ![j] = "queued"],
               call' = [call EXCEPT ![p][c] = [k EXCEPT !.pc = "reread", !.id = j]]
        PROVE  Own(p)'
    <3>1. call'[p][c].pc = "reread" /\ call'[p][c].hand = k.hand /\ call'[p][c].id = j
          /\ \A d \in Caller : d # c => call'[p][d] = call[p][d]
      BY <1>t, <1>set, <2>3 DEF Call
    <3>2. \A i \in JobId : status[i] \notin Active
      BY <2>3 DEF ActiveJobs
    <3>3. ~TaskActs(p) /\ slot[p].kind = "none" /\ \A d \in Caller : ~CallActs(p, d)
      BY <1>own, <2>1, <3>2 DEF Duty, Known, Inserted, Serving, TaskActs, CallActs, Accepts, Active
    <3>4. j \in JobId /\ status'[j] = "queued" /\ \A i \in JobId : status'[i] # "running"
      BY <1>t, <2>3, <3>2 DEF Absent, Active
    <3>5. QED
      BY <1>own, <1>life, <1>grow, <2>1, <3>1, <3>3, <3>4
         DEF Own, Hands, Rests, Handle, Known, Inserted, Duty, Sole, Attended, TaskActs, CallActs, Serving
  <2>4. QED
    BY <1>insert, <2>2, <2>3 DEF InsertJob
<1>read. CASE ReadBack(p, c)
  <2>1. k.pc = "reread" /\ k.hand.kind = "none" /\ UNCHANGED <<status, active, slot, task>> /\ life[p] = "up"
    BY <1>read, <1>own DEF ReadBack, Hands, LockInv
  <2>2. /\ call'[p][c].hand.kind = "none"
        /\ \/ call'[p][c].pc = "spawn" /\ call'[p][c].id = k.id
           \/ call'[p][c].pc = "idle"
        /\ \A d \in Caller : d # c => call'[p][d] = call[p][d]
    <3>1. CASE To(p, c, "spawn")
      <4>1. call' = [call EXCEPT ![p][c] = [k EXCEPT !.pc = "spawn"]]
        BY <3>1 DEF To
      <4>2. QED
        BY <1>t, <1>set, <2>1, <4>1 DEF Call
    <3>2. CASE Return(p, c)
      BY <1>set, <1>idle, <3>2 DEF Return
    <3>3. QED
      BY <1>read, <3>1, <3>2 DEF ReadBack
  <2>3. QED
    BY <1>own, <1>life, <2>1, <2>2
       DEF Own, Hands, Rests, Handle, Known, Inserted, Duty, Sole, Attended, AttendedBy, TaskActs, CallActs, Accepts, Serving
<1>spawn. CASE Spawn(p, c)
  <2>1. k.pc = "spawn" /\ k.hand.kind = "none" /\ UNCHANGED <<status, slot>> /\ life[p] = "up"
    BY <1>spawn, <1>own DEF Spawn, Hands, LockInv
  <2>2. task'[p].pc = "marking" /\ task'[p].id = k.id /\ active'[p] = k.id
    BY <1>t, <1>spawn DEF Spawn, NoTask
  <2>3. call'[p][c].pc = "idle" /\ call'[p][c].hand.kind = "none"
        /\ \A d \in Caller : d # c => call'[p][d] = call[p][d]
    BY <1>spawn, <1>set, <1>idle DEF Spawn, Return
  <2>4. k.id \in JobId /\ status[k.id] = "queued" /\ slot[p].kind = "none" /\ \A d \in Caller : d # c => ~CallActs(p, d)
    BY <1>own, <2>1 DEF Duty, Sole, Serving, CallActs
  <2>5. \A j \in JobId : status[j] # "running"
    BY <2>4 DEF SingleActiveJob, ActiveJobs, Active
  <2>6. QED
    BY <1>own, <1>life, <2>1, <2>2, <2>3, <2>4, <2>5
       DEF Own, Hands, Rests, Handle, Known, Inserted, Duty, Sole, Attended, TaskActs, CallActs, Serving, Working
<1>q. QED
  BY <1>begin, <1>reap, <1>reaped, <1>take, <1>persist, <1>lock, <1>insert, <1>read, <1>spawn DEF RunCall

(* A process that opens, dies, refreshes in the foreground or stops has no *)
(* agent that could miss its job.                                          *)
LEMMA LifeKeepsOwn ==
  ASSUME TypeOK, LockInv, NEW p \in Proc, Own(p), [Lifecycle!Next]_<<status, outcome>>,
         \/ Boot(p) \/ Crash(p) \/ Exit(p) \/ DirectBegin(p) \/ DirectPublish(p) \/ DirectEnd(p)
         \/ ShutdownBegin(p) \/ RunShutdown(p)
  PROVE  Own(p)'
<1> USE DEF dbVars, procVars
<1>t. /\ task \in [Proc -> Task] /\ slot \in [Proc -> Pending] /\ active \in [Proc -> {NoJob} \cup JobId]
      /\ call \in [Proc -> [Caller -> Call]] /\ status \in [JobId -> Status] /\ life \in [Proc -> Life]
  BY DEF TypeOK
<1>own. Hands(p) /\ Rests(p) /\ Handle(p) /\ Known(p) /\ Duty(p) /\ Sole(p) /\ Attended(p)
  BY DEF Own
<1>grow. \A j \in JobId : status[j] # "absent" => status'[j] # "absent"
  BY JobsMoveOn
<1>idle. NoCall.pc = "idle" /\ NoCall.hand = NoPending /\ NoPending.kind = "none" /\ NoTask.pc = "none"
  BY DEF NoCall, NoPending, NoTask
(* A step after which the process does not serve. *)
<1>leaves. ASSUME life'[p] \notin Serving \cup {"down", "opening"}, active'[p] = NoJob,
                  slot'[p] \in {slot[p], NoPending}, UNCHANGED call
           PROVE  Own(p)'
  BY <1>own, <1>idle, <1>grow, <1>leaves
     DEF Own, Hands, Rests, Handle, Known, Inserted, Duty, Sole, Attended, Serving
<1>claim. CASE Claim(p)
  <2>1. life[p] = "down" /\ life'[p] = "opening"
    BY <1>claim, <1>t DEF Claim
  <2>2. QED
    BY <1>claim, <1>own, <2>1
       DEF Claim, Own, Hands, Rests, Handle, Known, Inserted, Duty, Sole, Attended, Serving
<1>recover. CASE Recover(p)
  <2>1. life[p] = "opening" /\ UNCHANGED <<active, slot, task, call>>
    BY <1>recover DEF Recover
  <2>2. slot[p].kind = "none" /\ task[p].pc = "none" /\ active[p] = NoJob
        /\ \A c \in Caller : call[p][c].pc = "idle" /\ call[p][c].hand.kind = "none"
    BY <2>1, <1>own DEF Rests, Hands, Handle
  <2>3. CASE life' = [life EXCEPT ![p] = "up"] /\ InterruptJobs(ActiveJobs, JobId)
    <3>1. life'[p] = "up" /\ \A j \in JobId : status'[j] # "running"
      BY <1>t, <2>3 DEF InterruptJobs, ActiveJobs, Active
    <3>2. QED
      BY <1>own, <2>1, <2>2, <3>1
         DEF Own, Hands, Rests, Handle, Known, Inserted, Duty, Sole, Attended, TaskActs, CallActs, Working
  <2>4. CASE life' = [life EXCEPT ![p] = "down"] /\ UNCHANGED status
    <3>1. life'[p] = "down"
      BY <1>t, <2>4
    <3>2. QED
      BY <1>own, <2>1, <2>2, <2>4, <3>1
         DEF Own, Hands, Rests, Handle, Known, Inserted, Duty, Sole, Attended, Serving
  <2>5. QED
    BY <1>recover, <2>3, <2>4 DEF Recover
<1>fresh. CASE Crash(p) \/ Exit(p)
  <2>1. /\ life'[p] = "down" /\ active'[p] = NoJob /\ slot'[p] = NoPending /\ task'[p] = NoTask
        /\ \A c \in Caller : call'[p][c] = NoCall
    BY <1>fresh, <1>t DEF Crash, Exit, Fresh
  <2>2. QED
    BY <1>idle, <2>1 DEF Own, Hands, Rests, Handle, Known, Inserted, Duty, Sole, Attended, Serving
<1>direct. CASE DirectBegin(p) \/ DirectPublish(p) \/ DirectEnd(p)
  BY <1>direct, OwnStays DEF DirectBegin, DirectPublish, DirectEnd, DirectStep
<1>begin. CASE ShutdownBegin(p)
  <2>1. life[p] = "up" /\ life'[p] = "aborting" /\ active'[p] = NoJob /\ UNCHANGED <<status, slot, task, call>>
    BY <1>begin, <1>t DEF ShutdownBegin
  <2>2. QED
    BY <1>own, <2>1
       DEF Own, Hands, Rests, Handle, Known, Inserted, Duty, Sole, Attended, TaskActs, CallActs, Accepts, Serving
<1> USE DEF ShutdownStep
<1>gone. life[p] # "up" => active[p] = NoJob
  BY <1>own DEF Handle
<1>abort. CASE AbortTask(p)
  <2>1. life'[p] = "flushing" /\ active'[p] = NoJob /\ UNCHANGED <<slot, call>>
    BY <1>abort, <1>t, <1>gone DEF AbortTask
  <2>2. QED
    BY <1>leaves, <2>1 DEF Serving
<1>flush. CASE FlushPending(p)
  <2>1. life'[p] = "reading" /\ active'[p] = NoJob /\ slot'[p] = NoPending /\ UNCHANGED call
    BY <1>flush, <1>t, <1>gone DEF FlushPending
  <2>2. QED
    BY <1>leaves, <2>1 DEF Serving
<1>read. CASE ReadActive(p)
  <2>1. life'[p] \in {"interrupting", "releasing"} /\ active'[p] = NoJob /\ UNCHANGED <<slot, call>>
    BY <1>read, <1>t, <1>gone DEF ReadActive
  <2>2. QED
    BY <1>leaves, <2>1 DEF Serving
<1>intr. CASE Interrupt(p)
  <2>1. life'[p] = "releasing" /\ active'[p] = NoJob /\ UNCHANGED <<slot, call>>
    BY <1>intr, <1>t, <1>gone DEF Interrupt
  <2>2. QED
    BY <1>leaves, <2>1 DEF Serving
<1>rel. CASE Release(p)
  <2>1. life'[p] = "closing" /\ active'[p] = NoJob /\ UNCHANGED <<slot, call>>
    BY <1>rel, <1>t, <1>gone DEF Release
  <2>2. QED
    BY <1>leaves, <2>1 DEF Serving
<1>close. CASE ClosePool(p)
  <2>1. life'[p] = "closed" /\ active'[p] = NoJob /\ UNCHANGED <<slot, call>>
    BY <1>close, <1>t, <1>gone DEF ClosePool
  <2>2. QED
    BY <1>leaves, <2>1 DEF Serving
<1>q. QED
  BY <1>claim, <1>recover, <1>fresh, <1>direct, <1>begin, <1>abort, <1>flush, <1>read, <1>intr, <1>rel,
     <1>close DEF Boot, RunShutdown

(* What the actor may hold after a step: what it held before, the failure  *)
(* of a task it spawned, or the result of its task that could not be       *)
(* written.                                                                *)
Sourced(p, x) ==
  \/ x.kind = "none" \/ x = slot[p] \/ \E c \in Caller : x = call[p][c].hand
  \/ x.kind = "fail" /\ x.to = "failed" /\ (task[p].pc \in Working \/ active[p] # NoJob)
  \/ FinishJob(p) /\ NotLanded(p, x) /\ x = TerminalOf(task[p])

(* Every terminal record a step leaves was there before, is a failure of an*)
(* active job, or is what a task ended with.                               *)
LEMMA RecordSources ==
  ASSUME TypeOK, NEW p \in Proc, Step(p)
  PROVE  Sourced(p, slot'[p]) /\ \A c \in Caller : Sourced(p, call'[p][c].hand)
<1> USE DEF dbVars, procVars
<1> DEFINE Goal == Sourced(p, slot'[p]) /\ \A c \in Caller : Sourced(p, call'[p][c].hand)
<1>t. /\ slot \in [Proc -> Pending] /\ call \in [Proc -> [Caller -> Call]]
  BY DEF TypeOK
<1>idle. NoCall.hand = NoPending /\ NoPending.kind = "none"
  BY DEF NoCall, NoPending
<1>fails. \A id : FailActive(id).kind = "fail" /\ FailActive(id).to = "failed"
  BY DEF FailActive, NoPending
<1>same. ASSUME slot'[p] = slot[p], call'[p] = call[p] PROVE Goal
  BY <1>same DEF Sourced
<1>life. CASE Boot(p) \/ Crash(p) \/ Exit(p)
  <2>1. CASE Boot(p)
    BY <2>1, <1>same DEF Boot, Claim, Recover
  <2>2. CASE Crash(p) \/ Exit(p)
    BY <2>2, <1>t, <1>idle DEF Crash, Exit, Fresh, Sourced
  <2>3. QED
    BY <1>life, <2>1, <2>2
<1>task. CASE RunTask(p) \/ PersistProgress(p) \/ TaskPanics(p) \/ OrphanPublishEnd(p)
  <2>calls. UNCHANGED call
    BY <1>task, TaskStepsStayPut
  <2>1. CASE MarkRunning(p)
    BY <2>1, <2>calls, <1>t, <1>fails DEF MarkRunning, Sourced, Working
  <2>2. CASE FinishJob(p)
    <3>1. slot' = slot \/ (NotLanded(p, TerminalOf(task[p])) /\ slot' = [slot EXCEPT ![p] = TerminalOf(task[p])])
      BY <2>2 DEF FinishJob
    <3>2. QED
      BY <2>2, <2>calls, <1>t, <3>1 DEF Sourced
  <2>3. CASE UNCHANGED slot
    BY <2>calls, <2>3, <1>same
  <2>4. QED
    BY <1>task, <2>1, <2>2, <2>3 DEF RunTask, Plan, PrepareFails, FetchFailed, PublishBegin, PublishEnd, Reload,
       Drained, SyncSource, PersistProgress, TaskPanics, OrphanPublishEnd, TaskStep
<1>call. ASSUME NEW c \in Caller, CallBegin(p, c) \/ RunCall(p, c)
         PROVE  Goal
  <2> DEFINE k == call[p][c]
  <2>k. k \in Call
    BY <1>t
  <2>set. ASSUME NEW x, call' = [call EXCEPT ![p][c] = x], Sourced(p, x.hand), slot'[p] \in {slot[p], k.hand, NoPending}
          PROVE  Goal
    BY <1>t, <1>idle, <2>set DEF Sourced
  <2>kept. /\ \A pc : Sourced(p, [k EXCEPT !.pc = pc].hand)
           /\ \A pc, id : Sourced(p, [k EXCEPT !.pc = pc, !.id = id].hand)
           /\ Sourced(p, NoCall.hand) /\ Sourced(p, AfterMaintain(p, c).hand)
    BY <2>k, <1>idle DEF Sourced, AfterMaintain, Call
  <2>begin. CASE CallBegin(p, c)
    <3>1. \A op : [NoCall EXCEPT !.pc = "reap", !.op = op].hand = NoPending
      BY <1>idle DEF NoCall
    <3>2. \E op : call' = [call EXCEPT ![p][c] = [NoCall EXCEPT !.pc = "reap", !.op = op]]
      BY <2>begin DEF CallBegin
    <3>3. UNCHANGED slot
      BY <2>begin DEF CallBegin
    <3>4. PICK op : call' = [call EXCEPT ![p][c] = [NoCall EXCEPT !.pc = "reap", !.op = op]]
      BY <3>2
    <3>5. Sourced(p, [NoCall EXCEPT !.pc = "reap", !.op = op].hand)
      BY <3>1, <1>idle DEF Sourced
    <3>6. QED
      BY <2>set, <3>3, <3>4, <3>5
  <2>reap. CASE Reap(p, c)
    <3>1. UNCHANGED slot
      BY <2>reap DEF Reap
    <3>2. CASE active[p] # NoJob /\ task[p].pc = "panicked"
      <4>1. call' = [call EXCEPT ![p][c] = [k EXCEPT !.pc = "reaped", !.hand = FailActive(task[p].id)]]
        BY <2>reap, <3>2 DEF Reap
      <4>2. Sourced(p, [k EXCEPT !.pc = "reaped", !.hand = FailActive(task[p].id)].hand)
        BY <2>k, <1>fails, <3>2 DEF Sourced, Call
      <4>3. QED
        BY <2>set, <3>1, <4>1, <4>2
    <3>3. CASE ~(active[p] # NoJob /\ task[p].pc = "panicked")
      <4>1. call' = [call EXCEPT ![p][c] = [k EXCEPT !.pc = "take"]]
        BY <2>reap, <3>3 DEF Reap
      <4>2. QED
        BY <2>set, <2>kept, <3>1, <4>1
    <3>4. QED
      BY <3>2, <3>3
  <2>reaped. CASE PersistReaped(p, c)
    <3>1. call' = [call EXCEPT ![p][c] = [k EXCEPT !.pc = "take", !.hand = NoPending]]
      BY <2>reaped DEF PersistReaped
    <3>2. Sourced(p, [k EXCEPT !.pc = "take", !.hand = NoPending].hand)
      BY <2>k, <1>idle DEF Sourced, Call
    <3>3. slot' = slot \/ slot' = [slot EXCEPT ![p] = k.hand]
      BY <2>reaped DEF PersistReaped
    <3>4. QED
      BY <1>t, <2>set, <3>1, <3>2, <3>3
  <2>take. CASE TakePending(p, c)
    <3>1. Sourced(p, [k EXCEPT !.pc = "persist", !.hand = slot[p]].hand)
      BY <2>k DEF Sourced, Call
    <3>2. slot' = slot \/ slot' = [slot EXCEPT ![p] = NoPending]
      BY <2>take DEF TakePending
    <3>3. QED
      BY <1>t, <2>set, <2>kept, <2>take, <3>1, <3>2 DEF TakePending
  <2>persist. CASE PersistPending(p, c)
    <3>1. slot' = slot \/ slot' = [slot EXCEPT ![p] = k.hand]
      BY <2>persist DEF PersistPending
    <3>2. call' = [call EXCEPT ![p][c] = AfterMaintain(p, c)] \/ Return(p, c)
      BY <2>persist DEF PersistPending
    <3>3. QED
      BY <1>t, <2>set, <2>kept, <3>1, <3>2 DEF Return
  <2>lock. CASE LockLifecycle(p, c) \/ ReadBack(p, c) \/ Spawn(p, c)
    <3>1. UNCHANGED slot /\ (Return(p, c) \/ \E pc : To(p, c, pc))
      BY <2>lock DEF LockLifecycle, ReadBack, Spawn
    <3>2. QED
      BY <2>set, <2>kept, <3>1 DEF Return, To
  <2>insert. CASE InsertJob(p, c)
    <3>1. UNCHANGED slot /\ (Return(p, c) \/ \E j : call' = [call EXCEPT ![p][c] = [k EXCEPT !.pc = "reread", !.id = j]])
      BY <2>insert DEF InsertJob
    <3>2. QED
      BY <2>set, <2>kept, <3>1 DEF Return
  <2>q. QED
    BY <1>call, <2>begin, <2>reap, <2>reaped, <2>take, <2>persist, <2>lock, <2>insert DEF RunCall
<1>direct. CASE DirectBegin(p) \/ DirectPublish(p) \/ DirectEnd(p)
  BY <1>direct, <1>same DEF DirectBegin, DirectPublish, DirectEnd, DirectStep
<1>down. CASE ShutdownBegin(p) \/ RunShutdown(p)
  <2>1. CASE FlushPending(p)
    BY <2>1, <1>t, <1>idle DEF FlushPending, ShutdownStep, Sourced
  <2>2. CASE UNCHANGED <<slot, call>>
    BY <2>2, <1>same
  <2>3. QED
    BY <1>down, <2>1, <2>2 DEF ShutdownBegin, RunShutdown, AbortTask, ReadActive, Interrupt, Release, ClosePool,
       ShutdownStep
<1>q. QED
  BY <1>life, <1>task, <1>call, <1>direct, <1>down DEF Step

(* A process starts to serve by a recovery, which leaves no job active. *)
LEMMA ServesAfterRecovery ==
  ASSUME TypeOK, NEW p \in Proc, Step(p), life[p] \notin Serving, life'[p] \in Serving
  PROVE  InterruptJobs(ActiveJobs, JobId)
<1> USE DEF Serving, procVars, dbVars
<1>t. life \in [Proc -> Life]
  BY DEF TypeOK
<1>1. CASE Boot(p)
  BY <1>1, <1>t DEF Boot, Claim, Recover
<1>2. CASE Crash(p) \/ Exit(p)
  BY <1>2, <1>t DEF Crash, Exit
<1>3. CASE RunTask(p) \/ PersistProgress(p) \/ TaskPanics(p) \/ OrphanPublishEnd(p)
  BY <1>3, TaskStepsStayPut
<1>4. CASE \E c \in Caller : CallBegin(p, c) \/ RunCall(p, c)
  BY <1>4 DEF CallBegin, RunCall, Reap, PersistReaped, TakePending, PersistPending, LockLifecycle, InsertJob,
     ReadBack, Spawn, CallStep
<1>5. CASE DirectBegin(p) \/ DirectPublish(p) \/ DirectEnd(p)
  BY <1>5 DEF DirectBegin, DirectPublish, DirectEnd, DirectStep
<1>6. CASE ShutdownBegin(p) \/ RunShutdown(p)
  BY <1>6, <1>t DEF ShutdownBegin, RunShutdown, AbortTask, FlushPending, ReadActive, Interrupt, Release, ClosePool
<1>q. QED
  BY <1>1, <1>2, <1>3, <1>4, <1>5, <1>6 DEF Step

(* No step of any process breaks the discipline of the agents. *)
LEMMA StepKeepsAgents ==
  ASSUME TypeOK, LockInv, FitInv, SingleActiveJob, AgentInv, NEW p \in Proc, Step(p)
  PROVE  AgentInv'
<1>moves. [Lifecycle!Next]_<<status, outcome>>
  BY StepImplements
<1>grow. \A j \in JobId : /\ status[j] # "absent" => status'[j] # "absent"
                          /\ status[j] \in Terminal => status'[j] = status[j]
  BY <1>moves, JobsMoveOn
<1>local. \A q \in Proc : q # p =>
            /\ life'[q] = life[q] /\ active'[q] = active[q] /\ slot'[q] = slot[q]
            /\ task'[q] = task[q] /\ call'[q] = call[q]
  BY StepIsLocal
<1>own. \A q \in Proc : Own(q)
  BY DEF AgentInv
<1>1. Own(p)'
  <2>1. CASE RunTask(p) \/ PersistProgress(p) \/ TaskPanics(p) \/ OrphanPublishEnd(p)
    BY <2>1, <1>own, TaskKeepsOwn
  <2>2. CASE \E c \in Caller : CallBegin(p, c) \/ RunCall(p, c)
    BY <2>2, <1>own, <1>moves, CallKeepsOwn
  <2>3. CASE \/ Boot(p) \/ Crash(p) \/ Exit(p) \/ DirectBegin(p) \/ DirectPublish(p) \/ DirectEnd(p)
             \/ ShutdownBegin(p) \/ RunShutdown(p)
    BY <2>3, <1>own, <1>moves, LifeKeepsOwn
  <2>4. QED
    BY <2>1, <2>2, <2>3 DEF Step
<1>2. ASSUME NEW q \in Proc, q # p PROVE Own(q)'
  <2>1. CASE life[q] \in Serving
    <3>1. UNCHANGED status
      BY <1>2, <2>1, StrangersWriteNothing DEF dbVars
    <3>2. QED
      BY <1>2, <1>own, <1>local, <3>1, OwnStays
  <2>2. CASE life[q] \notin Serving
    BY <1>2, <1>own, <1>local, <1>grow, <2>2
       DEF Own, Hands, Rests, Handle, Known, Inserted, Duty, Sole, Attended, Serving
  <2>3. QED
    BY <2>1, <2>2
<1>3. ASSUME NEW r \in Proc, NEW q \in Proc, r # q, life'[q] \in Serving
      PROVE  (Settled(slot[r]))' /\ \A c \in Caller : (Settled(call[r][c].hand))'
  <2>1. CASE r = p
    <3>1. life[q] \in Serving /\ Settled(slot[p]) /\ \A c \in Caller : Settled(call[p][c].hand)
      BY <1>3, <1>local, <2>1 DEF AgentInv, Stranger
    <3>2. life[p] \notin Serving
      BY <1>3, <2>1, <3>1 DEF LockInv, Holding, Stopping, Serving
    <3>3. task[p].pc \notin Working /\ active[p] = NoJob /\ ~FinishJob(p)
      BY <1>own, <3>2 DEF LockInv, Own, Handle, Serving, FinishJob, Working
    <3>4. Sourced(p, slot'[p]) /\ \A c \in Caller : Sourced(p, call'[p][c].hand)
      BY RecordSources
    <3>5. \A x : Sourced(p, x) =>
            x.kind = "none" \/ (x.id \in JobId /\ status'[x.id] \in Terminal)
      BY <3>1, <3>3, <1>grow DEF Sourced, Settled
    <3>6. QED
      BY <2>1, <3>4, <3>5 DEF Settled
  <2>2. CASE r # p /\ (q # p \/ life[q] \in Serving)
    <3>1. Settled(slot[r]) /\ \A c \in Caller : Settled(call[r][c].hand)
      BY <1>3, <1>local, <2>2 DEF AgentInv, Stranger
    <3>2. QED
      BY <1>local, <2>2, <3>1, <1>grow DEF Settled
  <2>3. CASE r # p /\ q = p /\ life[q] \notin Serving
    <3>1. InterruptJobs(ActiveJobs, JobId)
      BY <1>3, <2>3, ServesAfterRecovery
    <3>2. status \in [JobId -> Status] /\ \A j \in JobId : status[j] # "absent" => status'[j] \in Terminal
      BY <3>1 DEF TypeOK, InterruptJobs, ActiveJobs, Status, Terminal
    <3>3. Known(r)
      BY <1>own DEF Own
    <3>4. QED
      BY <1>local, <2>3, <3>2, <3>3 DEF Known, Inserted, Settled
  <2>4. QED
    BY <2>1, <2>2, <2>3
<1>4. QED
  BY <1>1, <1>2, <1>3 DEF AgentInv, Stranger

(* The discipline of the agents is an invariant. *)
THEOREM AgentInvariant == Spec => []AgentInv
<1>1. Init => AgentInv
  BY DEF Init, AgentInv, Own, Hands, Rests, Handle, Known, Inserted, Duty, Sole, Attended, Stranger, Settled,
     Serving, NoTask, NoCall, NoPending
<1>2. TypeOK /\ LockInv /\ JobInv /\ AgentInv /\ [Next]_vars => AgentInv'
  <2> SUFFICES ASSUME TypeOK, LockInv, JobInv, AgentInv, [Next]_vars
               PROVE  AgentInv'
    OBVIOUS
  <2>1. CASE UNCHANGED vars
    BY <2>1 DEF vars, dbVars, procVars, AgentInv, Own, Hands, Rests, Handle, Known, Inserted, Duty, Sole, Attended,
       AttendedBy, Stranger, Settled, TaskActs, CallActs, Accepts
  <2>2. ASSUME NEW p \in Proc, Step(p) PROVE AgentInv'
    BY <2>2, StepKeepsAgents DEF JobInv
  <2>3. QED
    BY <2>1, <2>2 DEF Next
<1>3. QED
  BY <1>1, <1>2, TypeCorrect, LockDiscipline, JobInvariant, PTL DEF Spec

(* Between the insert of a job and its terminal row no panic, failed write *)
(* or interleaved call loses track of it: while its process serves calls   *)
(* some agent holds what will settle it.                                   *)
THEOREM RunningJobAttendedHolds == Spec => []RunningJobAttended
<1>1. TypeOK /\ AgentInv => RunningJobAttended
  BY DEF TypeOK, AgentInv, Own, Attended, RunningJobAttended
<1>2. QED
  BY <1>1, AgentInvariant, TypeCorrect, PTL

(* A terminal state that waits for its retry is always one its row still   *)
(* accepts, so no stale record makes every later call fail.                *)
THEOREM RecordedTerminalFitsHolds == Spec => []RecordedTerminalFits
<1>1. AgentInv => RecordedTerminalFits
  BY DEF AgentInv, Own, Duty, Serving, RecordedTerminalFits
<1>2. QED
  BY <1>1, AgentInvariant, PTL

(* While one process serves calls, no step of another one - a publisher    *)
(* that outlived its shutdown, a call that outlived its server - writes    *)
(* the job table.                                                          *)
OnlyTheServerWrites ==
  [][\A p, q \in Proc : Step(p) /\ q # p /\ life[q] \in Serving => UNCHANGED dbVars]_vars

(* No step of another process writes the job table while one serves. *)
THEOREM OnlyTheServerWritesHolds == Spec => OnlyTheServerWrites
<1>1. TypeOK /\ LockInv /\ AgentInv /\ [Next]_vars =>
        [\A p, q \in Proc : Step(p) /\ q # p /\ life[q] \in Serving => UNCHANGED dbVars]_vars
  BY StrangersWriteNothing
<1>2. QED
  BY <1>1, TypeCorrect, LockDiscipline, AgentInvariant, PTL DEF Spec, OnlyTheServerWrites

-----------------------------------------------------------------------------
(* What a settled job reports and its source rows.                         *)

(* A progress message about the requested sources only. *)
Touches(m, asked) == \A s \in Source : m[s] # "keep" => m[s] # "none" /\ s \in asked
Final(op) == IF op = "none" THEN "skipped" ELSE op

(* The operation summaries, the queue and the rows of the job on which the *)
(* task of p works.  Only after the queue has drained and the last sync of *)
(* a source is its row bound to its summary.                               *)
TaskRows(p) ==
  task[p].pc \in Working =>
    LET t == task[p]
        asked == Requested(t.id) IN
    /\ t.left \subseteq asked /\ t.now \subseteq asked
    /\ \A s \in Source : t.ops[s] # "none" => s \in asked
    /\ \A i \in 1..Len(t.queue) : Touches(t.queue[i], asked)
    /\ t.pc = "syncing" => t.ok /\ ~t.lost
    /\ t.pc \in {"syncing", "finishing"} => t.queue = <<>>
    /\ t.pc \in {"syncing", "finishing"} /\ t.ok /\ ~t.lost =>
         \A s \in asked \ t.left : rows[t.id][s] = Final(t.ops[s])
    /\ t.pc = "finishing" /\ t.ok /\ ~t.lost => t.left = {}

(* An outcome that agrees with the rows of j. *)
MatchesRows(out, j) ==
  LET has(S) == \E s \in Source : rows[j][s] \in S
      bad  == has({"failed", "disk_updated_pending_reload"})
      good == has(Published) IN
  /\ ~has({"queued", "pending"})
  /\ out = IF ~bad THEN "success" ELSE IF good THEN "partial_failure" ELSE "failed"

(* A recorded success is about rows that will not change before it lands.  *)
RecordRows(t) ==
  t.kind # "none" /\ t.to = "completed" /\ status[t.id] = "running" => MatchesRows(t.outcome, t.id)

JobRows(j) ==
  /\ status[j] = "completed" => MatchesRows(outcome[j], j)
  /\ status[j] = "interrupted" => \A s \in Source : rows[j][s] \notin {"queued", "pending"}
  /\ status[j] \in {"failed", "interrupted"} => outcome[j] = status[j]

RowsInv ==
  /\ \A p \in Proc : TaskRows(p) /\ RecordRows(slot[p]) /\ \A c \in Caller : RecordRows(call[p][c].hand)
  /\ \A j \in JobId : JobRows(j)

(* A queue of messages about requested sources stays one when it grows or  *)
(* shrinks.                                                                *)
LEMMA QueueSteps ==
  ASSUME NEW asked, NEW q \in Seq(Patch), \A i \in 1..Len(q) : Touches(q[i], asked)
  PROVE  /\ \A m \in Patch : Touches(m, asked) =>
              \A i \in 1..Len(Append(q, m)) : Touches(Append(q, m)[i], asked)
         /\ q # <<>> => /\ Head(q) \in Patch /\ Touches(Head(q), asked)
                       /\ Tail(q) \in Seq(Patch)
                       /\ \A i \in 1..Len(Tail(q)) : Touches(Tail(q)[i], asked)
<1>1. ASSUME NEW m \in Patch, Touches(m, asked), NEW i \in 1..Len(Append(q, m))
      PROVE  Touches(Append(q, m)[i], asked)
  <2>1. (Append(q, m)[i] = q[i] /\ i \in 1..Len(q)) \/ Append(q, m)[i] = m
    BY <1>1
  <2>2. QED
    BY <1>1, <2>1
<1>2. ASSUME q # <<>>
      PROVE  /\ Head(q) \in Patch /\ Touches(Head(q), asked)
             /\ Tail(q) \in Seq(Patch)
             /\ \A i \in 1..Len(Tail(q)) : Touches(Tail(q)[i], asked)
  <2>1. Head(q) = q[1] /\ 1 \in 1..Len(q) /\ Head(q) \in Patch /\ Tail(q) \in Seq(Patch)
    BY <1>2
  <2>2. ASSUME NEW i \in 1..Len(Tail(q)) PROVE Tail(q)[i] = q[i + 1] /\ i + 1 \in 1..Len(q)
    BY <1>2
  <2>3. QED
    BY <2>1, <2>2
<1>3. QED
  BY <1>1, <1>2

(* A message that touches requested sources only leaves the set of         *)
(* requested sources, and every other job, as it was.                      *)
LEMMA PatchSteps ==
  ASSUME TypeOK, NEW j \in JobId, NEW m \in Patch, Touches(m, Requested(j)), rows' = Patched(j, m)
  PROVE  /\ {s \in Source : rows'[j][s] # "none"} = Requested(j)
         /\ \A s \in Source : rows'[j][s] = IF m[s] = "keep" THEN rows[j][s] ELSE m[s]
         /\ \A i \in JobId : i # j => rows'[i] = rows[i]
<1>1. /\ \A s \in Source : rows'[j][s] = IF m[s] = "keep" THEN rows[j][s] ELSE m[s]
      /\ \A i \in JobId : i # j => rows'[i] = rows[i]
  BY DEF Patched, TypeOK
<1>2. QED
  BY <1>1 DEF Touches, Requested

(* The messages of a job are about the sources it was asked for. *)
LEMMA PlansTouch ==
  /\ \A asked, due : due \subseteq asked => Touches(PlanPatch(asked, due), asked)
  /\ \A asked, s, st : s \in asked /\ st # "none" => Touches(SourcePatch(s, st), asked)
  BY DEF Touches, PlanPatch, SourcePatch

(* The work of the task keeps its rows, its messages and its summaries     *)
(* about the requested sources, and ends with rows that are its summaries. *)
LEMMA TaskKeepsTaskRows ==
  ASSUME TypeOK, NEW p \in Proc, TaskRows(p), task[p].pc \in Working => task[p].id \in JobId,
         RunTask(p) \/ PersistProgress(p) \/ TaskPanics(p) \/ OrphanPublishEnd(p)
  PROVE  TaskRows(p)'
<1> USE DEF dbVars, TaskStep
<1> DEFINE t == task[p]
           asked == Requested(t.id)
           u == task'[p]
<1>t. /\ t \in Task /\ task \in [Proc -> Task] /\ t.queue \in Seq(Patch)
      /\ t.left \subseteq Source /\ t.now \subseteq Source
      /\ t.ops \in [Source -> {"none"} \cup Completed]
      /\ t.ok \in BOOLEAN /\ t.lost \in BOOLEAN
  BY DEF TypeOK, Task
<1>asked. asked \subseteq Source
  BY DEF Requested
<1>idle. ASSUME u.pc \notin Working PROVE TaskRows(p)'
  BY <1>idle DEF TaskRows
<1>grows. ASSUME t.pc \in Working, NEW m \in Patch, Touches(m, asked)
          PROVE  \A i \in 1..Len(Append(t.queue, m)) : Touches(Append(t.queue, m)[i], asked)
  <2>1. \A i \in 1..Len(t.queue) : Touches(t.queue[i], asked)
    BY <1>grows DEF TaskRows
  <2>2. QED
    BY <1>t, <1>grows, <2>1, QueueSteps
(* The steps before the queue has drained write no row.                    *)
<1>early. ASSUME t.pc \in Working, UNCHANGED rows, u.id = t.id, u.pc \notin {"syncing", "finishing"},
                 u.left \subseteq asked, u.now \subseteq asked, \A s \in Source : u.ops[s] # "none" => s \in asked,
                 \A i \in 1..Len(u.queue) : Touches(u.queue[i], asked)
          PROVE  TaskRows(p)'
  BY <1>early DEF TaskRows, Requested
<1>mark. CASE MarkRunning(p)
  <2>1. CASE task' = [task EXCEPT ![p] = [t EXCEPT !.pc = "locking"]]
    <3>1. u = [t EXCEPT !.pc = "locking"]
      BY <1>t, <2>1
    <3>2. u.pc = "locking" /\ u.id = t.id /\ u.left = t.left /\ u.now = t.now /\ u.ops = t.ops /\ u.queue = t.queue
      BY <1>t, <3>1 DEF Task
    <3>3. t.pc \in Working /\ UNCHANGED rows
      BY <1>mark DEF MarkRunning, Working
    <3>4. QED
      BY <1>early, <3>2, <3>3 DEF TaskRows
  <2>2. CASE task' = [task EXCEPT ![p] = Done(t.id)]
    BY <1>t, <1>idle, <2>2 DEF Done, NoTask, Working
  <2>3. QED
    BY <1>mark, <2>1, <2>2 DEF MarkRunning
<1>plan. CASE Plan(p)
  <2>1. ASSUME NEW due \in SUBSET asked,
               task' = [task EXCEPT ![p] =
                 [t EXCEPT !.pc = IF due = {} THEN "draining" ELSE "publishing", !.left = due,
                           !.queue = Append(@, PlanPatch(asked, due))]]
        PROVE  TaskRows(p)'
    <3> DEFINE m == PlanPatch(asked, due)
               q == Append(t.queue, m)
    <3>1. m \in Patch /\ Touches(m, asked)
      BY <1>asked, PatchTypes, PlansTouch
    <3>2. t.pc \in Working /\ UNCHANGED rows
      BY <1>plan DEF Plan, Working
    <3>3. \A i \in 1..Len(q) : Touches(q[i], asked)
      BY <1>grows, <3>1, <3>2
    <3>4. u = [t EXCEPT !.pc = IF due = {} THEN "draining" ELSE "publishing", !.left = due, !.queue = q]
      BY <1>t, <2>1
    <3> HIDE DEF q, m
    <3>5. u.pc \in {"draining", "publishing"} /\ u.id = t.id /\ u.left = due /\ u.now = t.now /\ u.ops = t.ops /\ u.queue = q
      BY <1>t, <3>4 DEF Task
    <3>6. QED
      BY <1>early, <3>2, <3>3, <3>5 DEF TaskRows
  <2>2. CASE task' = [task EXCEPT ![p] = [t EXCEPT !.pc = "draining", !.ok = FALSE]]
    <3>1. u.pc = "draining" /\ u.id = t.id /\ u.left = t.left /\ u.now = t.now /\ u.ops = t.ops /\ u.queue = t.queue
      BY <1>t, <2>2 DEF Task
    <3>2. t.pc \in Working /\ UNCHANGED rows
      BY <1>plan DEF Plan, Working
    <3>3. QED
      BY <1>early, <3>1, <3>2 DEF TaskRows
  <2>3. QED
    BY <1>plan, <2>1, <2>2 DEF Plan
<1>prep. CASE PrepareFails(p)
  <2>1. u = [t EXCEPT !.pc = "draining", !.ok = FALSE] /\ t.pc \in Working /\ UNCHANGED rows
    BY <1>t, <1>prep DEF PrepareFails, Working
  <2>2. u.pc = "draining" /\ u.id = t.id /\ u.left = t.left /\ u.now = t.now /\ u.ops = t.ops /\ u.queue = t.queue
    BY <1>t, <2>1 DEF Task
  <2>3. QED
    BY <1>early, <2>1, <2>2 DEF TaskRows
<1>report. ASSUME t.pc \in Working, UNCHANGED rows, NEW s \in asked, NEW op \in Completed,
                  LET r == Report(t, s, op) IN
                  u.pc = r.pc /\ u.id = r.id /\ u.left = r.left /\ u.now = r.now /\ u.ops = r.ops /\ u.queue = r.queue
           PROVE  TaskRows(p)'
  <2> DEFINE m == SourcePatch(s, op)
             q == Append(t.queue, m)
  <2>1. m \in Patch /\ Touches(m, asked)
    BY <1>asked, PatchTypes, PlansTouch DEF Completed, Succeeded, RowStatus
  <2>2. \A i \in 1..Len(q) : Touches(q[i], asked)
    BY <1>grows, <1>report, <2>1
  <2>3. Report(t, s, op) = [t EXCEPT !.pc = "publishing", !.now = {}, !.left = t.left \ {s},
                                     !.ops = [t.ops EXCEPT ![s] = op], !.queue = q]
    BY DEF Report
  <2> HIDE DEF q, m
  <2>4. u.pc = "publishing" /\ u.id = t.id /\ u.left = t.left \ {s} /\ u.now = {}
        /\ u.ops = [t.ops EXCEPT ![s] = op] /\ u.queue = q
    BY <1>t, <1>report, <2>3 DEF Task
  <2>5. \A r \in Source : u.ops[r] # "none" => r \in asked
    BY <1>t, <1>report, <2>4 DEF TaskRows
  <2>6. QED
    BY <1>early, <1>report, <2>2, <2>4, <2>5 DEF TaskRows
<1>fetch. CASE FetchFailed(p)
  <2>1. PICK s \in t.left : task' = [task EXCEPT ![p] = Report(t, s, "failed")]
    BY <1>fetch DEF FetchFailed
  <2>2. t.pc \in Working /\ UNCHANGED rows /\ s \in asked /\ u = Report(t, s, "failed")
    BY <1>t, <1>fetch, <2>1 DEF FetchFailed, Working, TaskRows
  <2>3. "failed" \in Completed
    BY DEF Completed
  <2>4. QED
    BY <1>report, <2>2, <2>3
<1>begin. CASE PublishBegin(p)
  <2>1. PICK s \in t.left : task' = [task EXCEPT ![p] = [t EXCEPT !.pc = "writing", !.now = {s}]]
    BY <1>begin DEF PublishBegin
  <2>2. t.pc \in Working /\ UNCHANGED rows /\ s \in asked /\ u = [t EXCEPT !.pc = "writing", !.now = {s}]
    BY <1>t, <1>begin, <2>1 DEF PublishBegin, Working, TaskRows
  <2>3. u.pc = "writing" /\ u.id = t.id /\ u.left = t.left /\ u.now = {s} /\ u.ops = t.ops /\ u.queue = t.queue
    BY <1>t, <2>2 DEF Task
  <2>4. QED
    BY <1>early, <2>2, <2>3 DEF TaskRows
<1>end. CASE PublishEnd(p)
  <2>1. t.pc \in Working /\ UNCHANGED rows
    BY <1>end DEF PublishEnd, Working
  <2>2. ASSUME NEW s \in t.now, NEW op \in {"updated", "not_modified", "failed"}, NEW b,
               task' = [task EXCEPT ![p] = [Report(t, s, op) EXCEPT !.dirty = @ \/ b]]
        PROVE  TaskRows(p)'
    <3> DEFINE r == Report(t, s, op)
    <3>1. s \in asked /\ op \in Completed
      BY <2>1 DEF TaskRows, Completed, Succeeded
    <3>2. r \in Task
      BY <1>t, <1>asked, <3>1, TaskUpdates
    <3>3. u = [r EXCEPT !.dirty = r.dirty \/ b]
      BY <1>t, <2>2
    <3> HIDE DEF r
    <3>4. u.pc = r.pc /\ u.id = r.id /\ u.left = r.left /\ u.now = r.now /\ u.ops = r.ops /\ u.queue = r.queue
      BY <3>2, <3>3 DEF Task
    <3>5. QED
      BY <1>report, <2>1, <3>1, <3>4 DEF r
  <2>3. CASE task' = [task EXCEPT ![p] = [t EXCEPT !.pc = "draining", !.ok = FALSE, !.now = {}]]
    <3>1. u.pc = "draining" /\ u.id = t.id /\ u.left = t.left /\ u.now = {} /\ u.ops = t.ops /\ u.queue = t.queue
      BY <1>t, <2>3 DEF Task
    <3>2. QED
      BY <1>early, <2>1, <3>1 DEF TaskRows
  <2>4. QED
    BY <1>end, <2>2, <2>3 DEF PublishEnd
<1>reload. CASE Reload(p)
  <2>1. t.pc \in Working /\ UNCHANGED rows
    BY <1>reload DEF Reload, Working
  <2>2. ASSUME NEW ok, NEW ops \in {t.ops, MarkPendingReload(t.ops)},
               task' = [task EXCEPT ![p] = [t EXCEPT !.pc = "draining", !.ok = ok, !.ops = ops]]
        PROVE  TaskRows(p)'
    <3>1. u.pc = "draining" /\ u.id = t.id /\ u.left = t.left /\ u.now = t.now /\ u.ops = ops /\ u.queue = t.queue
      BY <1>t, <2>2 DEF Task
    <3>2. \A s \in Source : ops[s] # "none" => t.ops[s] # "none"
      BY <2>2 DEF MarkPendingReload, Published
    <3>3. QED
      BY <1>early, <2>1, <3>1, <3>2 DEF TaskRows
  <2>3. QED
    BY <1>reload, <2>2 DEF Reload
<1>drain. CASE Drained(p)
  <2>1. t.pc \in Working /\ UNCHANGED rows /\ t.queue = <<>>
    BY <1>drain DEF Drained, Working
  <2>2. CASE t.ok /\ ~t.lost
    <3>1. u = [t EXCEPT !.pc = "syncing", !.left = asked]
      BY <1>t, <1>drain, <2>2 DEF Drained
    <3>2. u.pc = "syncing" /\ u.id = t.id /\ u.left = asked /\ u.now = t.now /\ u.ops = t.ops /\ u.queue = t.queue
          /\ u.ok = t.ok /\ u.lost = t.lost
      BY <1>t, <3>1 DEF Task
    <3>3. QED
      BY <2>1, <2>2, <3>2 DEF TaskRows, Requested
  <2>3. CASE ~(t.ok /\ ~t.lost)
    <3>1. u = [t EXCEPT !.pc = "finishing", !.left = {}]
      BY <1>t, <1>drain, <2>3 DEF Drained
    <3>2. u.pc = "finishing" /\ u.id = t.id /\ u.left = {} /\ u.now = t.now /\ u.ops = t.ops /\ u.queue = t.queue
          /\ u.ok = t.ok /\ u.lost = t.lost
      BY <1>t, <3>1 DEF Task
    <3>3. QED
      BY <2>1, <2>3, <3>2 DEF TaskRows, Requested
  <2>4. QED
    BY <2>2, <2>3
<1>sync. CASE SyncSource(p)
  <2>1. t.pc = "syncing" /\ t.pc \in Working /\ t.id \in JobId
    BY <1>sync DEF SyncSource, Working
  <2>2. ASSUME NEW s \in t.left,
               rows' = Patched(t.id, SourcePatch(s, IF t.ops[s] = "none" THEN "skipped" ELSE t.ops[s])),
               task' = [task EXCEPT ![p] =
                 [t EXCEPT !.left = @ \ {s}, !.pc = IF t.left = {s} THEN "finishing" ELSE "syncing"]]
        PROVE  TaskRows(p)'
    <3>1. s \in asked /\ s \in Source /\ t.queue = <<>> /\ t.ok /\ ~t.lost
      BY <1>t, <2>1 DEF TaskRows
    <3> DEFINE st == Final(t.ops[s])
    <3>2. st \in RowStatus \ {"none", "keep"} /\ rows' = Patched(t.id, SourcePatch(s, st))
      BY <1>t, <2>2, <3>1 DEF Final, RowStatus, Completed, Succeeded
    <3>3. SourcePatch(s, st) \in Patch /\ Touches(SourcePatch(s, st), asked)
      BY <3>1, <3>2, PatchTypes, PlansTouch
    <3>4. {r \in Source : rows'[t.id][r] # "none"} = asked /\ rows'[t.id][s] = st /\ \A r \in Source : r # s => rows'[t.id][r] = rows[t.id][r]
      BY <2>1, <3>1, <3>2, <3>3, PatchSteps DEF SourcePatch
    <3>5. u.pc = (IF t.left = {s} THEN "finishing" ELSE "syncing") /\ u.id = t.id /\ u.left = t.left \ {s} /\ u.now = t.now
          /\ u.ops = t.ops /\ u.queue = t.queue /\ u.ok = t.ok /\ u.lost = t.lost
      BY <1>t, <2>2 DEF Task
    <3>6. {r \in Source : rows'[u.id][r] # "none"} = asked
      BY <3>4, <3>5
    <3>7. \A r \in asked \ u.left : rows'[u.id][r] = Final(u.ops[r])
      BY <1>asked, <2>1, <3>1, <3>4, <3>5 DEF TaskRows
    <3>8. QED
      BY <2>1, <2>2, <3>1, <3>5, <3>6, <3>7 DEF TaskRows, Requested
  <2>3. CASE task' = [task EXCEPT ![p] = [t EXCEPT !.pc = "finishing", !.lost = TRUE]] /\ UNCHANGED rows
    <3>1. u.pc = "finishing" /\ u.id = t.id /\ u.left = t.left /\ u.now = t.now /\ u.ops = t.ops /\ u.queue = t.queue
          /\ u.ok = t.ok /\ u.lost = TRUE
      BY <1>t, <2>3 DEF Task
    <3>2. QED
      BY <2>1, <2>3, <3>1 DEF TaskRows, Requested
  <2>4. QED
    BY <1>sync, <2>2, <2>3 DEF SyncSource
<1>progress. CASE PersistProgress(p)
  <2>1. t.pc \in Working /\ t.queue # <<>> /\ t.id \in JobId /\ t.pc \notin {"syncing", "finishing"}
    BY <1>progress DEF PersistProgress, TaskRows
  <2>2. /\ Head(t.queue) \in Patch /\ Touches(Head(t.queue), asked)
        /\ \A i \in 1..Len(Tail(t.queue)) : Touches(Tail(t.queue)[i], asked)
    BY <1>t, <2>1, QueueSteps DEF TaskRows
  <2>3. {s \in Source : rows'[t.id][s] # "none"} = asked
    <3>1. CASE rows' = Patched(t.id, Head(t.queue))
      BY <2>1, <2>2, <3>1, PatchSteps
    <3>2. CASE UNCHANGED rows
      BY <3>2 DEF Requested
    <3>3. QED
      BY <1>progress, <3>1, <3>2 DEF PersistProgress
  <2>4. u.pc = t.pc /\ u.id = t.id /\ u.left = t.left /\ u.now = t.now /\ u.ops = t.ops /\ u.queue = Tail(t.queue)
    <3>1. CASE task' = [task EXCEPT ![p].queue = Tail(t.queue)]
      BY <1>t, <3>1 DEF Task
    <3>2. CASE task' = [task EXCEPT ![p] = [t EXCEPT !.queue = Tail(t.queue), !.lost = TRUE]]
      BY <1>t, <3>2 DEF Task
    <3>3. QED
      BY <1>progress, <3>1, <3>2 DEF PersistProgress
  <2>5. {s \in Source : rows'[u.id][s] # "none"} = asked
    BY <2>3, <2>4
  <2>6. QED
    BY <2>1, <2>2, <2>4, <2>5 DEF TaskRows, Requested
<1>finish. CASE FinishJob(p)
  BY <1>t, <1>idle, <1>finish DEF FinishJob, Done, NoTask, Working
<1>panic. CASE TaskPanics(p)
  BY <1>t, <1>idle, <1>panic DEF TaskPanics, NoTask, Working
<1>orphan. CASE OrphanPublishEnd(p)
  BY <1>orphan DEF OrphanPublishEnd, TaskRows, Requested
<1>q. QED
  BY <1>mark, <1>plan, <1>prep, <1>fetch, <1>begin, <1>end, <1>reload, <1>drain, <1>sync, <1>progress,
     <1>finish, <1>panic, <1>orphan DEF RunTask

(* A refresh that ends well ends with rows that agree with its outcome. *)
LEMMA ResultMatches ==
  ASSUME TypeOK, NEW p \in Proc, TaskRows(p), task[p].pc = "finishing", task[p].id \in JobId,
         TerminalOf(task[p]).to = "completed"
  PROVE  MatchesRows(TerminalOf(task[p]).outcome, task[p].id)
<1> DEFINE t == task[p]
           j == t.id
<1>1. t.ok /\ ~t.lost /\ TerminalOf(t).outcome = ResultOutcome(t.ops)
  BY DEF TerminalOf, Finish
<1>2. t.pc \in Working /\ t.ops \in [Source -> {"none"} \cup Completed] /\ rows[j] \in [Source -> RowStatus]
  BY DEF TypeOK, Task, Working
<1>3. \A s \in Source : \/ rows[j][s] = "none" /\ t.ops[s] = "none"
                       \/ rows[j][s] = Final(t.ops[s])
  BY <1>1, <1>2 DEF TaskRows, Requested
<1> DEFINE bad == {"failed", "disk_updated_pending_reload"}
<1>4. ASSUME NEW s \in Source
      PROVE  /\ rows[j][s] \notin {"queued", "pending"}
             /\ (rows[j][s] \in Published) = (t.ops[s] \in Published)
             /\ (rows[j][s] \in bad) = (t.ops[s] \in bad)
  <2>1. t.ops[s] \in {"none", "updated", "not_modified", "skipped", "failed", "disk_updated_pending_reload"}
    BY <1>2 DEF Completed, Succeeded
  <2>2. QED
    BY <1>3, <2>1 DEF Final, Published
<1>5. /\ (\E s \in Source : rows[j][s] \in Published) = (\E s \in Source : t.ops[s] \in Published)
      /\ (\E s \in Source : rows[j][s] \in bad) = ~(\A s \in Source : t.ops[s] \notin bad)
      /\ ~\E s \in Source : rows[j][s] \in {"queued", "pending"}
  <2> HIDE DEF t, j, bad
  <2>1. QED
    BY <1>4
<1>6. QED
  BY <1>1, <1>5 DEF MatchesRows, ResultOutcome

(* The ways in which a step changes the job table, and what they leave of  *)
(* an outcome that agrees with its rows.                                   *)
LEMMA InterruptKeepsRows ==
  ASSUME TypeOK, NEW R \in SUBSET JobId, NEW J \in SUBSET JobId, J \cap ActiveJobs \subseteq R, InterruptJobs(R, J),
         \A j \in JobId : JobRows(j)
  PROVE  /\ \A j \in JobId : JobRows(j)'
         /\ \A x \in Pending : x.id \in JobId /\ RecordRows(x) => (RecordRows(x))'
<1>1. ASSUME NEW j \in JobId
      PROVE  /\ status'[j] = IF j \in J /\ status[j] \in Active THEN "interrupted" ELSE status[j]
             /\ outcome'[j] = IF j \in J /\ status[j] \in Active THEN "interrupted" ELSE outcome[j]
             /\ \A s \in Source : rows'[j][s] = IF j \in R /\ rows[j][s] \in {"queued", "pending"} THEN "failed" ELSE rows[j][s]
  BY <1>1 DEF InterruptJobs, ActiveJobs
<1>2. ASSUME NEW j \in JobId PROVE JobRows(j)'
  <2>1. CASE j \in J /\ status[j] \in Active
    BY <1>1, <2>1 DEF JobRows, ActiveJobs
  <2>2. CASE ~(j \in J /\ status[j] \in Active)
    <3>1. JobRows(j) /\ status'[j] = status[j] /\ outcome'[j] = outcome[j]
      BY <1>1, <2>2
    <3>2. CASE status[j] \in {"completed", "interrupted"}
      <4>1. \A s \in Source : rows[j][s] \notin {"queued", "pending"}
        BY <3>1, <3>2 DEF JobRows, MatchesRows
      <4>2. \A s \in Source : rows'[j][s] = rows[j][s]
        BY <1>1, <4>1
      <4>3. QED
        BY <3>1, <4>1, <4>2 DEF JobRows, MatchesRows
    <3>3. CASE status[j] \notin {"completed", "interrupted"}
      BY <3>1, <3>3 DEF JobRows
    <3>4. QED
      BY <3>2, <3>3
  <2>3. QED
    BY <2>1, <2>2
<1>3. ASSUME NEW x \in Pending, x.id \in JobId, RecordRows(x) PROVE (RecordRows(x))'
  <2>1. SUFFICES ASSUME x.kind # "none", x.to = "completed", status'[x.id] = "running"
                 PROVE  MatchesRows(x.outcome, x.id)'
    BY DEF RecordRows
  <2>2. status[x.id] = "running" /\ x.id \notin J
    BY <1>1, <1>3, <2>1 DEF Active
  <2>3. MatchesRows(x.outcome, x.id)
    BY <1>3, <2>1, <2>2 DEF RecordRows
  <2>4. \A s \in Source : rows'[x.id][s] = rows[x.id][s]
    BY <1>1, <1>3, <2>3 DEF MatchesRows
  <2>5. QED
    BY <2>3, <2>4 DEF MatchesRows
<1>4. QED
  BY <1>2, <1>3

(* A terminal record that lands leaves rows that match its outcome. *)
LEMMA LandingKeepsRows ==
  ASSUME TypeOK, NEW p, NEW t \in Pending, t.id \in JobId, Fits(t), Landed(p, t),
         t.to = "completed" => MatchesRows(t.outcome, t.id), \A j \in JobId : JobRows(j)
  PROVE  /\ \A j \in JobId : JobRows(j)'
         /\ \A x \in Pending : x.id \in JobId /\ RecordRows(x) => (RecordRows(x))'
<1>1. /\ status' = [status EXCEPT ![t.id] = t.to] /\ outcome' = [outcome EXCEPT ![t.id] = t.outcome] /\ UNCHANGED rows
      /\ t.to \in {"completed", "failed"}
  BY DEF Landed, SetTerminal, Fits
<1>2. ASSUME NEW j \in JobId PROVE JobRows(j)'
  <2>1. CASE j = t.id
    <3>1. status'[j] = t.to /\ outcome'[j] = t.outcome
      BY <1>1, <2>1 DEF TypeOK
    <3>2. QED
      BY <1>1, <2>1, <3>1 DEF JobRows, MatchesRows, Fits
  <2>2. CASE j # t.id
    <3>1. status'[j] = status[j] /\ outcome'[j] = outcome[j] /\ JobRows(j)
      BY <1>1, <2>2
    <3>2. QED
      BY <1>1, <3>1 DEF JobRows, MatchesRows
  <2>3. QED
    BY <2>1, <2>2
<1>3. ASSUME NEW x \in Pending, x.id \in JobId, RecordRows(x) PROVE (RecordRows(x))'
  <2>1. status'[x.id] = "running" => status[x.id] = "running"
    BY <1>1, <1>3 DEF TypeOK
  <2>2. QED
    BY <1>1, <1>3, <2>1 DEF RecordRows, MatchesRows
<1>4. QED
  BY <1>2, <1>3

(* Inserting a job, starting it and writing one of its rows while it runs  *)
(* touch no other job.                                                     *)
LEMMA WorkKeepsRows ==
  ASSUME TypeOK, NEW j \in JobId, UNCHANGED outcome, status[j] \in {"absent", "queued", "running"},
         status'[j] \in {"absent", "queued", "running"},
         \A i \in JobId : i # j => status'[i] = status[i] /\ rows'[i] = rows[i],
         \A i \in JobId : JobRows(i)
  PROVE  /\ \A i \in JobId : JobRows(i)'
         /\ \A x \in Pending : x.id \in JobId \ {j} /\ RecordRows(x) => (RecordRows(x))'
<1>1. ASSUME NEW i \in JobId PROVE JobRows(i)'
  <2>1. CASE i = j
    BY <2>1 DEF JobRows
  <2>2. CASE i # j
    <3>1. status'[i] = status[i] /\ rows'[i] = rows[i] /\ JobRows(i)
      BY <2>2
    <3>2. QED
      BY <3>1 DEF JobRows, MatchesRows
  <2>3. QED
    BY <2>1, <2>2
<1>2. ASSUME NEW x \in Pending, x.id \in JobId \ {j}, RecordRows(x) PROVE (RecordRows(x))'
  BY <1>2 DEF RecordRows, MatchesRows
<1>3. QED
  BY <1>1, <1>2

(* A terminal state that somebody keeps. *)
Held(x) == \E p \in Proc : x = slot[p] \/ \E c \in Caller : x = call[p][c].hand

(* Whatever a step writes to the job table, what settled jobs report and   *)
(* what waits to be reported still agrees with the rows.                   *)
LEMMA TableKeepsRows ==
  ASSUME TypeOK, LockInv, FitInv, AgentInv, RowsInv, NEW p \in Proc, Step(p)
  PROVE  /\ \A j \in JobId : JobRows(j)'
         /\ \A x : Held(x) /\ RecordRows(x) => (RecordRows(x))'
<1> USE DEF procVars, TaskStep, CallStep, ShutdownStep
<1> DEFINE Goal == /\ \A j \in JobId : JobRows(j)'
                   /\ \A x : Held(x) /\ RecordRows(x) => (RecordRows(x))'
           t == task[p]
<1>rows. \A j \in JobId : JobRows(j)
  BY DEF RowsInv
<1>held. \A x : Held(x) => x \in Pending /\ Fits(x) /\ RecordRows(x) /\ (x.kind # "none" => x.id \in JobId /\ status[x.id] # "absent")
  <2>1. ASSUME NEW q \in Proc
        PROVE  /\ slot[q] \in Pending /\ Fits(slot[q]) /\ RecordRows(slot[q]) /\ Inserted(slot[q])
               /\ \A c \in Caller : /\ call[q][c].hand \in Pending /\ Fits(call[q][c].hand)
                                    /\ RecordRows(call[q][c].hand) /\ Inserted(call[q][c].hand)
    BY DEF TypeOK, Call, FitInv, RowsInv, AgentInv, Own, Known
  <2>2. QED
    BY <2>1 DEF Held, Inserted
<1>same. ASSUME UNCHANGED dbVars PROVE Goal
  BY <1>same, <1>rows DEF dbVars, JobRows, RecordRows, MatchesRows
<1>lands. ASSUME NEW x \in Pending, x.id \in JobId, Fits(x), Landed(p, x), x.to = "completed" => MatchesRows(x.outcome, x.id)
          PROVE  Goal
  <2>1. /\ \A j \in JobId : JobRows(j)'
        /\ \A y \in Pending : y.id \in JobId /\ RecordRows(y) => (RecordRows(y))'
    BY <1>lands, <1>rows, LandingKeepsRows
  <2>2. \A y : y.kind = "none" => (RecordRows(y))'
    BY DEF RecordRows
  <2>3. QED
    BY <1>held, <2>1, <2>2
<1>kept. ASSUME NEW x, Held(x), x.kind # "none", Landed(p, x) PROVE Goal
  <2>1. x \in Pending /\ Fits(x) /\ RecordRows(x) /\ x.id \in JobId
    BY <1>held, <1>kept
  <2>2. x.to = "completed" => status[x.id] = "running"
    BY <1>kept, <2>1 DEF Landed, Accepts, Fits
  <2>3. x.to = "completed" => MatchesRows(x.outcome, x.id)
    BY <1>kept, <2>1, <2>2 DEF RecordRows
  <2>4. QED
    BY <1>kept, <1>lands, <2>1, <2>3
<1>stops. ASSUME NEW R \in SUBSET JobId, NEW J \in SUBSET JobId, J \cap ActiveJobs \subseteq R, InterruptJobs(R, J)
          PROVE  Goal
  <2>1. /\ \A j \in JobId : JobRows(j)'
        /\ \A y \in Pending : y.id \in JobId /\ RecordRows(y) => (RecordRows(y))'
    BY <1>stops, <1>rows, InterruptKeepsRows
  <2>2. \A y : y.kind = "none" => (RecordRows(y))'
    BY DEF RecordRows
  <2>3. QED
    BY <1>held, <2>1, <2>2
<1>works. ASSUME NEW j \in JobId, UNCHANGED outcome, status[j] \in {"absent", "queued", "running"},
                 status'[j] \in {"absent", "queued", "running"},
                 \A i \in JobId : i # j => status'[i] = status[i] /\ rows'[i] = rows[i],
                 \A x : Held(x) /\ x.kind # "none" => x.id # j
          PROVE  Goal
  <2>1. /\ \A i \in JobId : JobRows(i)'
        /\ \A y \in Pending : y.id \in JobId \ {j} /\ RecordRows(y) => (RecordRows(y))'
    BY <1>works, <1>rows, WorkKeepsRows
  <2>2. \A y : y.kind = "none" => (RecordRows(y))'
    BY DEF RecordRows
  <2>3. QED
    BY <1>held, <1>works, <2>1, <2>2
(* The job on which the task works is nobody else's.                       *)
<1>mine. ASSUME t.pc \in Working
         PROVE  /\ t.id \in JobId /\ status[t.id] = IF t.pc = "marking" THEN "queued" ELSE "running"
                /\ \A x : Held(x) /\ x.kind # "none" => x.id # t.id
  <2>1. life[p] \in Serving /\ TaskActs(p) /\ Own(p)
    BY <1>mine DEF LockInv, Serving, TaskActs, AgentInv
  <2>2. t.id \in JobId /\ status[t.id] = IF t.pc = "marking" THEN "queued" ELSE "running"
    BY <2>1 DEF Own, Duty
  <2>3. slot[p].kind = "none" /\ \A c \in Caller : call[p][c].hand.kind = "none"
    BY <2>1 DEF Own, Sole, CallActs
  <2>4. \A q \in Proc : q # p => Settled(slot[q]) /\ \A c \in Caller : Settled(call[q][c].hand)
    BY <2>1 DEF AgentInv, Stranger
  <2>5. ASSUME NEW x, Held(x), x.kind # "none" PROVE Settled(x)
    BY <2>3, <2>4, <2>5 DEF Held
  <2>6. QED
    BY <2>2, <2>5 DEF Settled, Terminal
<1>patch. ASSUME NEW m, t.pc \in Working \ {"marking"}, rows' = Patched(t.id, m), UNCHANGED <<status, outcome>> PROVE Goal
  <2>1. t.id \in JobId /\ status[t.id] = "running" /\ \A x : Held(x) /\ x.kind # "none" => x.id # t.id
    BY <1>mine, <1>patch
  <2>2. \A i \in JobId : i # t.id => status'[i] = status[i] /\ rows'[i] = rows[i]
    BY <1>patch DEF Patched, TypeOK
  <2>3. UNCHANGED outcome /\ status'[t.id] = "running"
    BY <1>patch, <2>1
  <2>4. QED
    BY <1>works, <2>1, <2>2, <2>3
<1>life. CASE Boot(p) \/ Crash(p) \/ Exit(p)
  <2>1. CASE Recover(p)
    <3>1. InterruptJobs(ActiveJobs, JobId) \/ UNCHANGED dbVars
      BY <2>1 DEF Recover
    <3>2. ActiveJobs \subseteq JobId
      BY DEF ActiveJobs
    <3>3. QED
      BY <1>same, <1>stops, <3>1, <3>2
  <2>2. CASE UNCHANGED dbVars
    BY <2>2, <1>same
  <2>3. QED
    BY <1>life, <2>1, <2>2 DEF Boot, Claim, Crash, Exit
<1>task. CASE RunTask(p) \/ PersistProgress(p) \/ TaskPanics(p) \/ OrphanPublishEnd(p)
  <2>1. CASE MarkRunning(p)
    <3>1. t.id \in JobId /\ status[t.id] = "queued" /\ \A x : Held(x) /\ x.kind # "none" => x.id # t.id
      BY <2>1, <1>mine DEF MarkRunning, Working
    <3>2. UNCHANGED dbVars \/ (status' = [status EXCEPT ![t.id] = "running"] /\ UNCHANGED <<outcome, rows>>)
      BY <2>1, <3>1 DEF MarkRunning
    <3>3. ASSUME status' = [status EXCEPT ![t.id] = "running"], UNCHANGED <<outcome, rows>> PROVE Goal
      <4>1. status'[t.id] = "running" /\ \A i \in JobId : i # t.id => status'[i] = status[i] /\ rows'[i] = rows[i]
        BY <3>1, <3>3 DEF TypeOK
      <4>2. QED
        BY <1>works, <3>1, <3>3, <4>1
    <3>4. QED
      BY <1>same, <3>2, <3>3
  <2>2. CASE SyncSource(p) \/ PersistProgress(p)
    <3>1. UNCHANGED <<status, outcome>> /\ t.pc \in Working
          /\ (UNCHANGED rows \/ (status[t.id] = "running" /\ \E m : rows' = Patched(t.id, m)))
      BY <2>2 DEF SyncSource, PersistProgress, Working
    <3>2. status[t.id] = "running" => t.pc # "marking"
      BY <1>mine, <3>1
    <3>3. QED
      BY <1>same, <1>patch, <3>1, <3>2 DEF dbVars
  <2>3. CASE FinishJob(p)
    <3>1. t.pc = "finishing" /\ t.id \in JobId /\ t \in Task /\ TaskRows(p)
      BY <2>3, <1>mine DEF FinishJob, Working, TypeOK, RowsInv
    <3>2. TerminalOf(t) \in Pending /\ TerminalOf(t).id = t.id /\ Fits(TerminalOf(t))
      <4>1. TerminalOf(t).id = t.id /\ Fits(TerminalOf(t))
        BY KnownFits DEF TerminalOf, Finish
      <4>2. TerminalOf(t) \in Pending
        BY <3>1, RecordTypes DEF TerminalOf, ResultOutcome, Terminal, Outcome
      <4>3. QED
        BY <4>1, <4>2
    <3>3. TerminalOf(t).to = "completed" => MatchesRows(TerminalOf(t).outcome, t.id)
      BY <3>1, ResultMatches
    <3>4. Landed(p, TerminalOf(t)) \/ UNCHANGED dbVars
      BY <2>3 DEF FinishJob, NotLanded
    <3>5. QED
      BY <1>same, <1>lands, <3>1, <3>2, <3>3, <3>4
  <2>4. CASE UNCHANGED dbVars
    BY <2>4, <1>same
  <2>5. QED
    BY <1>task, <2>1, <2>2, <2>3, <2>4
       DEF RunTask, Plan, PrepareFails, FetchFailed, PublishBegin, PublishEnd, Reload, Drained, TaskPanics, OrphanPublishEnd
<1>call. ASSUME NEW c \in Caller, CallBegin(p, c) \/ RunCall(p, c) PROVE Goal
  <2> DEFINE hand == call[p][c].hand
  <2>held. Held(hand)
    BY DEF Held
  <2>1. CASE PersistReaped(p, c) \/ PersistPending(p, c)
    <3>1. hand.kind # "none"
      BY <2>1 DEF PersistReaped, PersistPending, AgentInv, Own, Hands
    <3>2. Landed(p, hand) \/ UNCHANGED dbVars
      BY <2>1 DEF PersistReaped, PersistPending, NotLanded
    <3>3. QED
      BY <1>same, <1>kept, <2>held, <3>1, <3>2
  <2>2. CASE InsertJob(p, c)
    <3>1. ASSUME NEW j \in Absent, UNCHANGED outcome, NEW r, rows' = [rows EXCEPT ![j] = r],
                 status' = [status EXCEPT ![j] = "queued"]
          PROVE  Goal
      <4>1. j \in JobId /\ status[j] = "absent"
        BY <3>1 DEF Absent
      <4>2. status'[j] = "queued" /\ \A i \in JobId : i # j => status'[i] = status[i] /\ rows'[i] = rows[i]
        BY <3>1, <4>1 DEF TypeOK
      <4>3. \A x : Held(x) /\ x.kind # "none" => x.id # j
        BY <1>held, <4>1
      <4>4. QED
        BY <1>works, <3>1, <4>1, <4>2, <4>3
    <3>2. UNCHANGED dbVars \/
          \E j \in Absent : \E r : UNCHANGED outcome /\ rows' = [rows EXCEPT ![j] = r] /\ status' = [status EXCEPT ![j] = "queued"]
      BY <2>2 DEF InsertJob
    <3>3. QED
      BY <1>same, <3>1, <3>2
  <2>3. CASE UNCHANGED dbVars
    BY <2>3, <1>same
  <2>4. QED
    BY <1>call, <2>1, <2>2, <2>3 DEF CallBegin, RunCall, Reap, TakePending, LockLifecycle, ReadBack, Spawn
<1>direct. CASE DirectBegin(p) \/ DirectPublish(p) \/ DirectEnd(p)
  BY <1>direct, <1>same DEF DirectBegin, DirectPublish, DirectEnd, DirectStep
<1>down. CASE ShutdownBegin(p) \/ RunShutdown(p)
  <2>1. CASE FlushPending(p)
    <3>1. Held(slot[p])
      BY DEF Held
    <3>2. UNCHANGED dbVars \/ (slot[p] # NoPending /\ Landed(p, slot[p]))
      BY <2>1 DEF FlushPending, NotLanded
    <3>3. slot[p] # NoPending => slot[p].kind # "none"
      BY DEF AgentInv, Own, Hands
    <3>4. QED
      BY <1>same, <1>kept, <3>1, <3>2, <3>3
  <2>2. CASE Interrupt(p)
    <3> DEFINE R == {victim[p]} \cap JobId
    <3>1. InterruptJobs({victim[p]}, {victim[p]}) => InterruptJobs(R, R)
      BY DEF InterruptJobs, ActiveJobs
    <3>2. R \in SUBSET JobId /\ R \cap ActiveJobs \subseteq R
      OBVIOUS
    <3>3. InterruptJobs(R, R) \/ UNCHANGED dbVars
      BY <2>2, <3>1 DEF Interrupt
    <3> HIDE DEF R
    <3>4. QED
      BY <1>same, <1>stops, <3>2, <3>3
  <2>3. CASE UNCHANGED dbVars
    BY <2>3, <1>same
  <2>4. QED
    BY <1>down, <2>1, <2>2, <2>3 DEF ShutdownBegin, RunShutdown, AbortTask, ReadActive, Release, ClosePool
<1>q. QED
  BY <1>life, <1>task, <1>call, <1>direct, <1>down DEF Step

(* No step breaks the agreement of the task, its messages and its rows. *)
LEMMA StepKeepsRows ==
  ASSUME TypeOK, LockInv, FitInv, AgentInv, RowsInv, NEW p \in Proc, Step(p)
  PROVE  RowsInv'
<1>t. task \in [Proc -> Task]
  BY DEF TypeOK
<1>own. \A q \in Proc : Own(q) /\ TaskRows(q) /\ (task[q].pc \in Working => life[q] \in Serving)
  BY DEF AgentInv, RowsInv, LockInv, Serving
<1>table. /\ \A j \in JobId : JobRows(j)'
          /\ \A x : Held(x) /\ RecordRows(x) => (RecordRows(x))'
  BY TableKeepsRows
<1>local. \A q \in Proc : q # p => slot'[q] = slot[q] /\ task'[q] = task[q] /\ call'[q] = call[q]
  BY StepIsLocal
<1>1. TaskRows(p)'
  <2>idle. ASSUME task'[p].pc \notin Working PROVE TaskRows(p)'
    BY <2>idle DEF TaskRows
  <2>same. ASSUME UNCHANGED rows, task'[p] = task[p] PROVE TaskRows(p)'
    BY <2>same, <1>own DEF TaskRows, Requested
  <2>1. CASE RunTask(p) \/ PersistProgress(p) \/ TaskPanics(p) \/ OrphanPublishEnd(p)
    <3>1. task[p].pc \in Working => task[p].id \in JobId
      BY <1>own DEF Own, Duty, TaskActs
    <3>2. QED
      BY <2>1, <3>1, <1>own, TaskKeepsTaskRows
  <2>2. ASSUME NEW c \in Caller, CallBegin(p, c) \/ RunCall(p, c) PROVE TaskRows(p)'
    <3>1. CASE Spawn(p, c)
      <4>1. task'[p] = [NoTask EXCEPT !.pc = "marking", !.id = call[p][c].id]
        BY <3>1, <1>t DEF Spawn
      <4>2. task'[p].pc = "marking" /\ task'[p].left = {} /\ task'[p].now = {} /\ task'[p].queue = <<>>
            /\ \A s \in Source : task'[p].ops[s] = "none"
        BY <4>1 DEF NoTask
      <4>3. QED
        BY <4>2 DEF TaskRows
    <3>2. CASE Reap(p, c)
      <4>1. UNCHANGED rows /\ (task' = task \/ task' = [task EXCEPT ![p] = NoTask])
        BY <3>2 DEF Reap, dbVars
      <4>2. QED
        BY <1>t, <4>1, <2>idle, <2>same DEF NoTask, Working
    <3>3. CASE ~Spawn(p, c) /\ ~Reap(p, c)
      <4>1. UNCHANGED task
        BY <2>2, <3>3 DEF CallBegin, RunCall, PersistReaped, TakePending, PersistPending, LockLifecycle, InsertJob, ReadBack
      <4>2. ASSUME task[p].pc \in Working PROVE UNCHANGED rows
        <5>1. /\ ~CallActs(p, c) /\ TaskActs(p) /\ life[p] \in Serving
              /\ task[p].id \in JobId /\ status[task[p].id] \in Active
          BY <1>own, <4>2 DEF Own, Sole, Duty, TaskActs, Active
        <5>2. ActiveJobs # {}
          BY <5>1 DEF ActiveJobs
        <5>3. call[p][c].pc \notin {"reaped", "persist"}
          BY <1>own, <5>1 DEF CallActs, Own, Hands
        <5>4. QED
          BY <2>2, <5>2, <5>3 DEF dbVars, CallBegin, RunCall, Reap, PersistReaped, TakePending, PersistPending,
             LockLifecycle, InsertJob, ReadBack, Spawn
      <4>3. QED
        BY <4>1, <4>2, <2>idle, <2>same
    <3>4. QED
      BY <3>1, <3>2, <3>3
  <2>3. CASE DirectBegin(p) \/ DirectPublish(p) \/ DirectEnd(p)
    BY <2>3, <2>same DEF DirectBegin, DirectPublish, DirectEnd, DirectStep, dbVars
  <2>4. CASE Boot(p) \/ Crash(p) \/ Exit(p) \/ ShutdownBegin(p) \/ RunShutdown(p)
    <3>1. CASE Crash(p) \/ Exit(p) \/ AbortTask(p)
      BY <3>1, <1>t, <2>idle DEF Crash, Exit, Fresh, AbortTask, NoTask, Working
    <3>2. CASE Boot(p)
      BY <3>2, <1>own, <2>idle DEF Boot, Claim, Recover, procVars, Own, Rests, Working
    <3>3. CASE ShutdownBegin(p)
      BY <3>3, <2>same DEF ShutdownBegin, dbVars
    <3>4. CASE FlushPending(p) \/ ReadActive(p) \/ Interrupt(p) \/ Release(p) \/ ClosePool(p)
      BY <3>4, <1>own, <2>idle
         DEF FlushPending, ReadActive, Interrupt, Release, ClosePool, ShutdownStep, Serving
    <3>5. QED
      BY <2>4, <3>1, <3>2, <3>3, <3>4 DEF RunShutdown
  <2>5. QED
    BY <2>1, <2>2, <2>3, <2>4 DEF Step
<1>2. ASSUME NEW q \in Proc, q # p PROVE TaskRows(q)'
  <2>1. CASE task[q].pc \in Working
    <3>1. UNCHANGED rows
      BY <1>2, <2>1, <1>own, StrangersWriteNothing DEF dbVars
    <3>2. TaskRows(q) /\ task'[q] = task[q]
      BY <1>2, <1>own, <1>local
    <3>3. QED
      BY <3>1, <3>2 DEF TaskRows, Requested
  <2>2. CASE task[q].pc \notin Working
    BY <1>2, <1>local, <2>2 DEF TaskRows
  <2>3. QED
    BY <2>1, <2>2
<1>held. \A x : Held(x) => (RecordRows(x))'
  <2>1. \A x : Held(x) => RecordRows(x)
    BY DEF Held, RowsInv
  <2>2. QED
    BY <1>table, <2>1
<1>3. ASSUME NEW q \in Proc, q # p
      PROVE  (RecordRows(slot[q]))' /\ \A c \in Caller : (RecordRows(call[q][c].hand))'
  <2>1. Held(slot[q]) /\ \A c \in Caller : Held(call[q][c].hand)
    BY DEF Held
  <2>2. slot'[q] = slot[q] /\ call'[q] = call[q]
    BY <1>3, <1>local
  <2>3. QED
    BY <1>held, <2>1, <2>2 DEF RecordRows, MatchesRows
<1>4. ASSUME NEW x, Sourced(p, x) PROVE (RecordRows(x))'
  <2>1. CASE FinishJob(p) /\ NotLanded(p, x) /\ x = TerminalOf(task[p])
    <3>1. task[p].pc = "finishing" /\ task[p].id \in JobId /\ TaskRows(p) /\ x.id = task[p].id
      BY <2>1, <1>own DEF FinishJob, Working, Own, Duty, TaskActs, TerminalOf, Finish
    <3>2. x.to = "completed" => MatchesRows(x.outcome, x.id)
      BY <2>1, <3>1, ResultMatches
    <3>3. UNCHANGED dbVars
      BY <2>1 DEF NotLanded
    <3>4. QED
      BY <3>2, <3>3 DEF RecordRows, MatchesRows, dbVars
  <2>2. CASE x.kind = "none" \/ x.to = "failed"
    BY <2>2 DEF RecordRows
  <2>3. CASE Held(x)
    BY <2>3, <1>held
  <2>4. QED
    BY <1>4, <2>1, <2>2, <2>3 DEF Sourced, Held
<1>5. (RecordRows(slot[p]))' /\ \A c \in Caller : (RecordRows(call[p][c].hand))'
  <2>1. Sourced(p, slot'[p]) /\ \A c \in Caller : Sourced(p, call'[p][c].hand)
    BY RecordSources
  <2>2. QED
    BY <1>4, <2>1 DEF RecordRows, MatchesRows
<1>6. QED
  BY <1>table, <1>1, <1>2, <1>3, <1>5 DEF RowsInv

(* The rows agree with what the task, the recorded states and the settled  *)
(* jobs say about them, at all times.                                      *)
THEOREM RowsInvariant == Spec => []RowsInv
<1>1. Init => RowsInv
  BY DEF Init, RowsInv, TaskRows, RecordRows, JobRows, NoTask, NoCall, NoPending, Working
<1>2. TypeOK /\ LockInv /\ JobInv /\ AgentInv /\ RowsInv /\ [Next]_vars => RowsInv'
  <2> SUFFICES ASSUME TypeOK, LockInv, JobInv, AgentInv, RowsInv, [Next]_vars
               PROVE  RowsInv'
    OBVIOUS
  <2>1. CASE UNCHANGED vars
    <3>1. UNCHANGED <<status, outcome, rows, task, slot, call>>
      BY <2>1 DEF vars, dbVars, procVars
    <3>2. \A p \in Proc : TaskRows(p)'
      BY <3>1 DEF RowsInv, TaskRows, Requested
    <3>3. \A x : (RecordRows(x))' = RecordRows(x)
      BY <3>1 DEF RecordRows, MatchesRows
    <3>4. \A j \in JobId : JobRows(j)'
      BY <3>1 DEF RowsInv, JobRows, MatchesRows
    <3>5. QED
      BY <3>1, <3>2, <3>3, <3>4 DEF RowsInv
  <2>2. ASSUME NEW p \in Proc, Step(p) PROVE RowsInv'
    BY <2>2, StepKeepsRows DEF JobInv
  <2>3. QED
    BY <2>1, <2>2 DEF Next
<1>3. QED
  BY <1>1, <1>2, TypeCorrect, LockDiscipline, JobInvariant, AgentInvariant, PTL DEF Spec

(* What a settled job reports agrees with its source rows, whatever the    *)
(* order of progress messages, final sync, retries and interruptions.      *)
THEOREM OutcomeMatchesRowsHolds == Spec => []OutcomeMatchesRows
<1>1. RowsInv => OutcomeMatchesRows
  BY DEF RowsInv, JobRows, MatchesRows, OutcomeMatchesRows
<1>2. QED
  BY <1>1, RowsInvariant, PTL
=============================================================================
