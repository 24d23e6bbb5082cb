------------------------------ MODULE RankingJobs ------------------------------
(***************************************************************************)
(* The background refresh of group rankings: one job row and one snapshot  *)
(* per key (a namespace and a group), the tasks that fetch and publish     *)
(* them, and the coordinator's two maps, from a key to the handle of its   *)
(* task and to a terminal error that could not be stored.                  *)
(*                                                                         *)
(* Tool calls and shutdown are actors: they hold the coordinator's lock    *)
(* for single steps and wait for tasks and statements in between.          *)
(***************************************************************************)
EXTENDS Naturals

CONSTANTS
  Key,        \* namespace and group
  Call,       \* concurrent tool calls
  Shutdown,   \* the actor that stops the service
  MaxGen,     \* bound: jobs per key
  MaxFaults,  \* bound: statements that fail and tasks that panic
  MaxStarts   \* bound: starts of the process after the first

ASSUME ShutdownAssumption == Shutdown \notin Call
ASSUME KeyAssumption == Key # {}
ASSUME MaxGenAssumption == MaxGen \in Nat

VARIABLES
  job,        \* ranking_jobs: generation and status per key
  snap,       \* ranking_snapshots: generation per key, 0 for none
  mode,       \* the process: serving, draining, closed (the store), down
  recovered,  \* the recovery cell is set
  active,     \* the map of handles: a generation, 0 for none
  errors,     \* the map of terminal errors: whose it is, 0 for none
  task,       \* per key and generation, what the task is at
  actor,      \* tool calls and shutdown
  dropped,    \* tasks whose handle or error made place for another (history)
  count       \* what the bounds count

rows     == <<job, snap>>
process  == <<mode, recovered>>
maps     == <<active, errors>>
history  == <<dropped, count>>
vars     == <<rows, process, maps, task, actor, history>>

-----------------------------------------------------------------------------
(* Values.                                                                 *)

Gen    == 1..MaxGen
Gen0   == 0..MaxGen
Actor  == Call \cup {Shutdown}
Status == {"none", "running", "completed", "failed", "interrupted"}

AtWork   == {"work", "failing", "leaving"}
Finished == {"ok", "err", "panic"}
Phase    == {"none"} \cup AtWork \cup Finished

Pc == {"idle", "reap", "settle", "joinRead", "joinFail", "recover", "copy", "retry",
       "fail", "forget", "check", "start", "insert"}

(* What an actor knows: its call, the handles it took, its copy of the     *)
(* errors, and the key, job and task it is busy with.                      *)
Local == [pc : Pc, kind : {"status", "ensure"}, key : Key, settle : SUBSET (Key \X Gen),
          copy : [Key -> Gen0], at : Key, gen : Gen0, origin : Gen0, failed : BOOLEAN]

NoErrors == [k \in Key |-> 0]
NoTasks  == [k \in Key |-> [g \in Gen |-> "none"]]
NoActor  == [pc |-> "idle", kind |-> "status", key |-> CHOOSE k \in Key : TRUE,
             settle |-> {}, copy |-> NoErrors, at |-> CHOOSE k \in Key : TRUE, gen |-> 0,
             origin |-> 0, failed |-> FALSE]

(* Every variable holds a value of its kind; a handle and an error belong  *)
(* to a task that was started, and an error to one that is over.           *)
Typed ==
  /\ job \in [Key -> [gen : Gen0, status : Status]]
  /\ snap \in [Key -> Gen0]
  /\ mode \in {"serving", "draining", "closed", "down"} /\ recovered \in BOOLEAN
  /\ active \in [Key -> Gen0] /\ errors \in [Key -> Gen0]
  /\ task \in [Key -> [Gen -> Phase]]
  /\ actor \in [Actor -> Local]
  /\ dropped \subseteq Key \X Gen
  /\ count \in [{"faults", "starts"} -> Nat]

Entered ==
  \A k \in Key :
    /\ active[k] # 0 => task[k][active[k]] # "none"
    /\ errors[k] # 0 => task[k][errors[k]] \in Finished \cup {"leaving"}
    /\ \A g \in Gen : task[k][g] # "none" => g <= job[k].gen

TypeOK == Typed /\ Entered

Init ==
  /\ job = [k \in Key |-> [gen |-> 0, status |-> "none"]]
  /\ snap = [k \in Key |-> 0]
  /\ mode = "serving" /\ recovered = FALSE
  /\ active = NoErrors /\ errors = NoErrors
  /\ task = NoTasks /\ actor = [a \in Actor |-> NoActor]
  /\ dropped = {} /\ count = [what \in {"faults", "starts"} |-> 0]

(* A statement is carried out, or fails: by chance, or since the store is  *)
(* closed.                                                                 *)
Fine == mode # "closed" /\ UNCHANGED count
Fault ==
  \/ mode = "closed" /\ UNCHANGED count
  \/ mode # "closed" /\ count.faults < MaxFaults /\ count' = [count EXCEPT !.faults = @ + 1]

Running(k, g) == job[k] = [gen |-> g, status |-> "running"]
Settled(k, status) == job' = [job EXCEPT ![k].status = status]

Now(a, local) == actor' = [actor EXCEPT ![a] = local]
To(a, pc) == Now(a, [actor[a] EXCEPT !.pc = pc])
Leave(a)  == Now(a, NoActor)
At(a, pc) == actor[a].pc = pc

(* What makes place in a map when a key gets g or, with its own g, leaves.  *)
Displaces(map, k, g) ==
  dropped' = IF map[k] \in {0, g} THEN dropped ELSE dropped \cup {<<k, map[k]>>}
Remember(k, g) == errors' = [errors EXCEPT ![k] = g] /\ Displaces(errors, k, g)

-----------------------------------------------------------------------------
(* The background task of a job.                                           *)

Task(k, g, phase) == task' = [task EXCEPT ![k][g] = phase]

(* Mutant: the guard on the job is checked after the snapshot's commit. *)
PublishUnguarded(k, g) ==
  /\ task[k][g] = "work" /\ Fine
  /\ snap' = [snap EXCEPT ![k] = g]
  /\ IF Running(k, g) THEN Settled(k, "completed") /\ Task(k, g, "ok")
                      ELSE UNCHANGED job /\ Task(k, g, "failing")
  /\ UNCHANGED <<process, maps, actor, dropped>>

(* complete_b50_ranking, complete_song_ranking: the snapshot is dropped   *)
(* and the job completed in one transaction, if the job is still this one. *)
Publish(k, g) ==
  /\ task[k][g] = "work" /\ Fine
  /\ IF Running(k, g)
     THEN /\ snap' = [snap EXCEPT ![k] = g]
          /\ Settled(k, "completed") /\ Task(k, g, "ok")
     ELSE Task(k, g, "failing") /\ UNCHANGED rows
  /\ UNCHANGED <<process, maps, actor, dropped>>

(* A provider, a statement or a progress update fails, or the task panics. *)
WorkFails(k, g) ==
  /\ task[k][g] = "work"
  /\ \/ Task(k, g, "failing") /\ UNCHANGED count
     \/ mode # "closed" /\ Fault /\ Task(k, g, "panic")
  /\ UNCHANGED <<rows, process, maps, actor, dropped>>

(* run_background stores the failure; what it cannot store it remembers.   *)
StoreFailure(k, g) ==
  /\ task[k][g] = "failing"
  /\ \/ /\ Fine
        /\ IF Running(k, g) THEN Settled(k, "failed") /\ Task(k, g, "ok")
                            ELSE UNCHANGED job /\ Task(k, g, "err")
        /\ UNCHANGED <<errors, dropped>>
     \/ /\ Fault
        /\ Remember(k, g) /\ Task(k, g, "leaving")
        /\ UNCHANGED job
  /\ UNCHANGED <<snap, process, active, actor>>

ReturnError(k, g) ==
  /\ task[k][g] = "leaving" /\ Task(k, g, "err")
  /\ UNCHANGED <<rows, process, maps, actor, history>>

-----------------------------------------------------------------------------
(* initialize: every call reaps finished tasks, recovers once and retries  *)
(* the terminal errors.                                                    *)

Begin(c) ==
  /\ At(c, "idle") /\ mode = "serving"
  /\ \E kind \in {"status", "ensure"}, k \in Key :
       Now(c, [NoActor EXCEPT !.pc = "reap", !.kind = kind, !.key = k])
  /\ UNCHANGED <<rows, process, maps, task, history>>

(* reap_finished takes the finished handles, shutdown all of them.         *)
Take(a, keys) ==
  /\ Now(a, [actor[a] EXCEPT !.pc = "settle", !.settle = {<<k, active[k]>> : k \in keys}])
  /\ active' = [k \in Key |-> IF k \in keys THEN 0 ELSE active[k]]
  /\ UNCHANGED <<rows, recovered, errors, task, history>>

Reap(c) ==
  /\ At(c, "reap") /\ UNCHANGED mode
  /\ Take(c, {k \in Key : active[k] # 0 /\ task[k][active[k]] \in Finished})

Drain ==
  /\ mode = "serving" /\ mode' = "draining"
  /\ Take(Shutdown, {k \in Key : active[k] # 0})

(* Mutant: the error of a task is not remembered. *)
SettleForgetful(a, k, g) ==
  /\ At(a, "settle") /\ <<k, g>> \in actor[a].settle /\ task[k][g] \in Finished
  /\ Now(a, [actor[a] EXCEPT !.settle = @ \ {<<k, g>>}])
  /\ UNCHANGED <<rows, process, maps, task, history>>

(* Mutant: the task is not waited for. *)
SettleAtOnce(a, k, g) ==
  /\ At(a, "settle") /\ <<k, g>> \in actor[a].settle
  /\ Now(a, [actor[a] EXCEPT !.settle = @ \ {<<k, g>>}])
  /\ UNCHANGED <<rows, process, maps, task, history>>

(* settle_task waits for the task and looks at how it ended.               *)
Settle(a, k, g) ==
  /\ At(a, "settle") /\ <<k, g>> \in actor[a].settle /\ task[k][g] \in Finished
  /\ LET rest == [actor[a] EXCEPT !.settle = @ \ {<<k, g>>}] IN
     Now(a, IF task[k][g] = "panic" THEN [rest EXCEPT !.pc = "joinRead", !.at = k, !.origin = g]
                                    ELSE rest)
  /\ IF task[k][g] = "err" THEN Remember(k, g) ELSE UNCHANGED <<errors, dropped>>
  /\ UNCHANGED <<rows, process, active, task, count>>

Keep == UNCHANGED <<rows, process, maps, task, dropped>>
Back(a, pc, failed) ==
  Now(a, [actor[a] EXCEPT !.pc = pc, !.gen = 0, !.origin = 0, !.failed = @ \/ failed])
Resume(a, pc) == Back(a, pc, FALSE)
Failed(a, pc) == Back(a, pc, TRUE)

(* persist_join_failure fails the running job of the key, whichever it is. *)
JoinRead(a) ==
  LET k == actor[a].at IN
  /\ At(a, "joinRead")
  /\ \/ /\ Fine /\ UNCHANGED <<errors, dropped>>
        /\ IF job[k].status = "running"
           THEN Now(a, [actor[a] EXCEPT !.pc = "joinFail", !.gen = job[k].gen])
           ELSE Resume(a, "settle")
     \/ Fault /\ Remember(k, actor[a].origin) /\ Failed(a, "settle")
  /\ UNCHANGED <<rows, process, active, task>>

JoinFail(a) ==
  LET k == actor[a].at  mine == Running(k, actor[a].gen) IN
  /\ At(a, "joinFail")
  /\ \/ Fine /\ mine /\ Settled(k, "failed") /\ Resume(a, "settle") /\ UNCHANGED <<errors, dropped>>
     \/ Fine /\ ~mine /\ Remember(k, actor[a].origin) /\ Resume(a, "settle") /\ UNCHANGED job
     \/ Fault /\ Remember(k, actor[a].origin) /\ Failed(a, "settle") /\ UNCHANGED job
  /\ UNCHANGED <<snap, process, active, task>>

(* What was taken is settled: a failure ends the call, not shutdown.       *)
Reaped(a) ==
  /\ At(a, "settle") /\ actor[a].settle = {}
  /\ IF a # Shutdown /\ actor[a].failed THEN Leave(a)
                                        ELSE To(a, IF a = Shutdown THEN "copy" ELSE "recover")
  /\ Keep /\ UNCHANGED count

(* Mutant: every call recovers. *)
RecoverAgain(c) ==
  /\ At(c, "recover") /\ Fine
  /\ job' = [k \in Key |-> IF job[k].status = "running"
                           THEN [job[k] EXCEPT !.status = "interrupted"] ELSE job[k]]
  /\ recovered' = TRUE /\ To(c, "copy")
  /\ UNCHANGED <<snap, mode, maps, task, dropped>>

(* The first call of the process interrupts what an earlier one left.      *)
Recover(c) ==
  /\ At(c, "recover")
  /\ \/ recovered /\ To(c, "copy") /\ UNCHANGED <<job, recovered, count>>
     \/ /\ ~recovered /\ Fine
        /\ job' = [k \in Key |-> IF job[k].status = "running"
                                 THEN [job[k] EXCEPT !.status = "interrupted"] ELSE job[k]]
        /\ recovered' = TRUE /\ To(c, "copy")
     \/ ~recovered /\ Fault /\ Leave(c) /\ UNCHANGED <<job, recovered>>
  /\ UNCHANGED <<snap, mode, maps, task, dropped>>

(* retry_terminal_errors works on a copy of the map.                       *)
CopyErrors(a) ==
  /\ At(a, "copy")
  /\ Now(a, [actor[a] EXCEPT !.pc = "retry", !.copy = errors])
  /\ Keep /\ UNCHANGED count

(* retry_terminal_error: the job of the key is read, failed if it runs,    *)
(* and the error forgotten.                                                *)
RetryRead(a, k) ==
  /\ At(a, "retry") /\ actor[a].copy[k] # 0
  /\ LET next == [actor[a] EXCEPT !.copy[k] = 0, !.at = k, !.origin = actor[a].copy[k]] IN
     \/ Fine /\ Now(a, IF job[k].status = "running"
                       THEN [next EXCEPT !.pc = "fail", !.gen = job[k].gen]
                       ELSE [next EXCEPT !.pc = "forget"])
     \/ Fault /\ Now(a, [actor[a] EXCEPT !.copy[k] = 0, !.failed = TRUE])
  /\ Keep

RetryFail(a) ==
  LET k == actor[a].at  mine == Running(k, actor[a].gen) IN
  /\ At(a, "fail")
  /\ \/ Fine /\ mine /\ Settled(k, "failed") /\ To(a, "forget")
     \/ Fine /\ ~mine /\ Resume(a, "retry") /\ UNCHANGED job
     \/ Fault /\ Failed(a, "retry") /\ UNCHANGED job
  /\ UNCHANGED <<snap, process, maps, task, dropped>>

Forget(a) ==
  LET k == actor[a].at IN
  /\ At(a, "forget") /\ Resume(a, "retry")
  /\ errors' = [errors EXCEPT ![k] = 0]
  /\ Displaces(errors, k, actor[a].origin)
  /\ UNCHANGED <<rows, process, active, task, count>>

(* initialize is done; shutdown goes on to close the store.                *)
Initialized(a) ==
  /\ At(a, "retry") /\ actor[a].copy = NoErrors
  /\ IF a = Shutdown
     THEN mode' = "closed" /\ Leave(a)
     ELSE /\ UNCHANGED mode
          /\ IF actor[a].failed \/ actor[a].kind = "status" THEN Leave(a) ELSE To(a, "check")
  /\ UNCHANGED <<rows, recovered, maps, task, history>>

-----------------------------------------------------------------------------
(* ensure_cache after initialize, and clear_cache.                         *)

(* A snapshot may be fresh, and is then refreshed only by force: whether   *)
(* the call goes on is left open, save that what is missing is fetched.    *)
Check(c) ==
  /\ At(c, "check")
  /\ \/ Fine /\ To(c, "start")
     \/ Fine /\ snap[actor[c].key] # 0 /\ Leave(c)
     \/ Fault /\ Leave(c)
  /\ Keep

(* start_ranking_job leaves a running job alone; a started one gets a task *)
(* at once and its handle a place in the map when the lock is free.        *)
Start(c) ==
  LET k == actor[c].key  g == job[k].gen + 1 IN
  /\ At(c, "start")
  /\ \/ /\ Fine /\ job[k].status # "running" /\ g <= MaxGen
        /\ job' = [job EXCEPT ![k] = [gen |-> g, status |-> "running"]]
        /\ Task(k, g, "work")
        /\ Now(c, [actor[c] EXCEPT !.pc = "insert", !.gen = g])
     \/ Fine /\ job[k].status = "running" /\ Leave(c) /\ UNCHANGED <<job, task>>
     \/ Fault /\ Leave(c) /\ UNCHANGED <<job, task>>
  /\ UNCHANGED <<snap, process, maps, dropped>>

Insert(c) ==
  LET k == actor[c].key IN
  /\ At(c, "insert")
  /\ active' = [active EXCEPT ![k] = actor[c].gen]
  /\ Displaces(active, k, actor[c].gen)
  /\ Leave(c)
  /\ UNCHANGED <<rows, process, errors, task, count>>

ClearCache(k) ==
  /\ mode \in {"serving", "draining"} /\ snap[k] # 0
  /\ snap' = [snap EXCEPT ![k] = 0]
  /\ UNCHANGED <<job, process, maps, task, actor, history>>

-----------------------------------------------------------------------------
(* The process ends, killed or after shutdown, and starts again.           *)

End ==
  /\ mode # "down" /\ mode' = "down" /\ recovered' = FALSE
  /\ active' = NoErrors /\ errors' = NoErrors
  /\ task' = NoTasks /\ actor' = [a \in Actor |-> NoActor] /\ dropped' = {}
  /\ UNCHANGED <<rows, count>>

Open ==
  /\ mode = "down" /\ count.starts < MaxStarts
  /\ mode' = "serving" /\ count' = [count EXCEPT !.starts = @ + 1]
  /\ UNCHANGED <<rows, recovered, maps, task, actor, dropped>>

(* The last run is over.                                                   *)
Quiet == mode = "down" /\ count.starts = MaxStarts /\ UNCHANGED vars

Background(k, g) == Publish(k, g) \/ WorkFails(k, g) \/ StoreFailure(k, g) \/ ReturnError(k, g)
Coordinator(a) ==
  \/ \E k \in Key, g \in Gen : Settle(a, k, g)
  \/ JoinRead(a) \/ JoinFail(a) \/ Reaped(a) \/ CopyErrors(a)
  \/ \E k \in Key : RetryRead(a, k)
  \/ RetryFail(a) \/ Forget(a) \/ Initialized(a)

Next ==
  \/ \E k \in Key, g \in Gen : Background(k, g)
  \/ \E a \in Actor : Coordinator(a)
  \/ \E c \in Call : Begin(c) \/ Reap(c) \/ Recover(c) \/ Check(c) \/ Start(c) \/ Insert(c)
  \/ \E k \in Key : ClearCache(k)
  \/ Drain \/ End \/ Open \/ Quiet

Spec == Init /\ [][Next]_vars

-----------------------------------------------------------------------------
(* Properties.                                                             *)

(* A snapshot is what its own job completed with: a task whose job was     *)
(* failed, interrupted or superseded meanwhile publishes nothing.          *)
SnapshotIsCompleted ==
  \A k \in Key : snap[k] # 0 =>
    /\ snap[k] <= job[k].gen
    /\ snap[k] = job[k].gen => job[k].status = "completed"

(* Recovery interrupts what an earlier process left, never a job whose     *)
(* task works in this one.                                                 *)
InterruptedHasNoTask ==
  \A k \in Key : job[k].status = "interrupted" => task[k][job[k].gen] \notin AtWork

(* An actor has the task in hand and will settle it, or is about to put    *)
(* its handle into the map.                                                *)
InHand(k, g) ==
  \E a \in Actor :
    \/ <<k, g>> \in actor[a].settle
    \/ actor[a].pc \in {"joinRead", "joinFail"} /\ actor[a].at = k
    \/ actor[a].pc = "insert" /\ actor[a].key = k /\ actor[a].gen = g

(* No running job is forgotten: once the process has recovered, its task   *)
(* is at work, its handle waits to be reaped, or an error waits to be      *)
(* stored. Excepted is a task whose handle or error another task of the    *)
(* group pushed out of its map: with three calls a job can be lost so.     *)
RunningJobAttended ==
  mode = "serving" /\ recovered => \A k \in Key : job[k].status = "running" =>
    LET g == job[k].gen IN
    \/ task[k][g] \in AtWork \/ active[k] = g \/ errors[k] # 0 \/ InHand(k, g)
    \/ <<k, g>> \in dropped

(* shutdown drains what it finds: when it closes the store, a task still   *)
(* at work was started or entered by a call that ran beside the shutdown,  *)
(* or had lost its place in the map.                                       *)
ShutdownDrains ==
  mode = "closed" => \A k \in Key, g \in Gen : task[k][g] \in AtWork =>
    active[k] = g \/ <<k, g>> \in dropped \/ \E c \in Call : At(c, "insert") /\ actor[c].gen = g
=============================================================================
