--------------------------- MODULE RankingJobsProofs ---------------------------
(* Theorems about RankingJobs, for any keys, calls, faults and restarts.     *)
EXTENDS RankingJobs, TLAPS

(* Past the recovery cell, where a call may start tasks.                     *)
Recovered == {"copy", "retry", "fail", "forget", "check", "start", "insert"}

(* What an actor holds on to is there: a panicked task while its failure is  *)
(* being stored, a started one until its handle is entered.                  *)
HoldsTask(a) ==
  /\ actor[a].pc \in {"joinRead", "joinFail"} =>
       actor[a].origin # 0 /\ task[actor[a].at][actor[a].origin] = "panic"
  /\ actor[a].pc = "insert" =>
       actor[a].gen # 0 /\ task[actor[a].key][actor[a].gen] # "none"

(* A call comes past recovery, and a task into being, once it is done.       *)
AfterRecovery ==
  /\ \A c \in Call : actor[c].pc \in Recovered => recovered
  /\ \A k \in Key, g \in Gen : task[k][g] # "none" => recovered

HoldInv == \A a \in Actor : HoldsTask(a)

FirstJob == \A k \in Key : job[k].gen = 0 => job[k].status = "none"

IInv == TypeOK /\ HoldInv /\ AfterRecovery /\ FirstJob /\ SnapshotIsCompleted /\ InterruptedHasNoTask

-----------------------------------------------------------------------------
(* Types.                                                                    *)

(* Generations are positive numbers. *)
LEMMA GenTypes == Gen \subseteq Nat /\ Gen0 \subseteq Nat /\ Gen0 = Gen \cup {0} /\ 0 \notin Gen
  BY MaxGenAssumption DEF Gen, Gen0

(* An actor that does nothing is of the type of actors. *)
LEMMA NoActorType == NoActor \in Local
  BY KeyAssumption, GenTypes DEF NoActor, Local, Pc, NoErrors

(* What an update of one entry keeps. *)
LEMMA EntryTypes ==
  ASSUME Typed, NEW k \in Key
  PROVE  /\ \A f \in [Key -> Gen0], g \in Gen0 : [f EXCEPT ![k] = g] \in [Key -> Gen0]
         /\ \A s \in Status : Settled(k, s) => job' \in [Key -> [gen : Gen0, status : Status]]
         /\ \A g \in Gen, ph \in Phase : Task(k, g, ph) => task' \in [Key -> [Gen -> Phase]]
<1>1. \A f \in [Key -> Gen0], g \in Gen0 : [f EXCEPT ![k] = g] \in [Key -> Gen0]
  OBVIOUS
<1>2. \A s \in Status : Settled(k, s) => job' \in [Key -> [gen : Gen0, status : Status]]
  BY SMTT(30) DEF Settled, Typed
<1>3. ASSUME NEW g \in Gen, NEW ph \in Phase, Task(k, g, ph)
      PROVE  task' \in [Key -> [Gen -> Phase]]
  <2>1. task[k] \in [Gen -> Phase]
    BY DEF Typed
  <2>2. [task[k] EXCEPT ![g] = ph] \in [Gen -> Phase]
    BY <2>1
  <2>3. QED
    BY <1>3, <2>2 DEF Task, Typed
<1>4. QED
  BY <1>1, <1>2, <1>3

(* What makes place in a map is a task, and no other handle or error goes.   *)
LEMMA DisplacedTypes ==
  ASSUME Typed, NEW map \in [Key -> Gen0], NEW k \in Key, NEW g \in Gen0, Displaces(map, k, g)
  PROVE  /\ dropped' \subseteq Key \X Gen /\ dropped \subseteq dropped'
         /\ \A h \in Gen : map[k] = h => h = g \/ <<k, h>> \in dropped'
<1>1. map[k] \in Gen0
  OBVIOUS
<1>2. QED
  BY <1>1, GenTypes DEF Displaces, Typed

(* What is left of the bounds stays a number. *)
LEMMA CountTypes ==
  ASSUME Typed
  PROVE  Fine \/ Fault => count' \in [{"faults", "starts"} -> Nat]
  BY DEF Typed, Fine, Fault

(* Every step of a background task keeps every variable in its set. *)
LEMMA BackgroundTyped ==
  ASSUME Typed, NEW k \in Key, NEW g \in Gen, Background(k, g)
  PROVE  Typed'
<1>1. {"ok", "err", "failing", "leaving", "panic"} \subseteq Phase
  BY DEF Phase, AtWork, Finished
<1>2. {"completed", "failed"} \subseteq Status
  BY DEF Status
<1>3. CASE Publish(k, g)
  <2>1. CASE Running(k, g)
    <3>1. snap' = [snap EXCEPT ![k] = g] /\ Settled(k, "completed") /\ Task(k, g, "ok")
      BY <1>3, <2>1 DEF Publish
    <3>2. snap' \in [Key -> Gen0]
      BY <3>1, EntryTypes, GenTypes DEF Typed
    <3>3. QED
      BY <1>1, <1>2, <1>3, <3>1, <3>2, EntryTypes, CountTypes DEF Publish, Typed, process, maps
  <2>2. CASE ~Running(k, g)
    BY <1>1, <1>3, <2>2, EntryTypes, CountTypes DEF Publish, Typed, process, maps, rows
  <2>3. QED
    BY <2>1, <2>2
<1>4. CASE WorkFails(k, g)
  BY <1>1, <1>4, EntryTypes, CountTypes DEF WorkFails, Typed, process, maps, rows
<1>5. CASE StoreFailure(k, g)
  <2>1. task' \in [Key -> [Gen -> Phase]]
    BY <1>1, <1>5, EntryTypes DEF StoreFailure
  <2>2. job' \in [Key -> [gen : Gen0, status : Status]]
    BY <1>2, <1>5, EntryTypes DEF StoreFailure, Typed
  <2>3. errors' \in [Key -> Gen0] /\ dropped' \subseteq Key \X Gen
    <3>1. CASE UNCHANGED <<errors, dropped>>
      BY <3>1 DEF Typed
    <3>2. CASE Remember(k, g)
      BY <3>2, EntryTypes, DisplacedTypes, GenTypes DEF Remember, Typed
    <3>3. QED
      BY <1>5, <3>1, <3>2 DEF StoreFailure
  <2>4. QED
    BY <1>5, <2>1, <2>2, <2>3, CountTypes DEF StoreFailure, Typed, process
<1>6. CASE ReturnError(k, g)
  BY <1>1, <1>6, EntryTypes DEF ReturnError, Typed, process, maps, rows, history
<1>7. QED
  BY <1>3, <1>4, <1>5, <1>6 DEF Background

(* What an actor's record keeps when single fields of it change. *)
LEMMA LocalTypes ==
  ASSUME NEW l \in Local
  PROVE  /\ \A pc \in Pc : [l EXCEPT !.pc = pc] \in Local
         /\ \A pc \in Pc, k \in Key, o \in Gen0 :
              [l EXCEPT !.pc = pc, !.at = k, !.origin = o] \in Local
         /\ \A pc \in Pc, g \in Gen0 : [l EXCEPT !.pc = pc, !.gen = g] \in Local
         /\ \A pc \in Pc, failed \in BOOLEAN :
              [l EXCEPT !.pc = pc, !.gen = 0, !.origin = 0, !.failed = @ \/ failed] \in Local
         /\ \A kind \in {"status", "ensure"}, k \in Key :
              [l EXCEPT !.pc = "reap", !.kind = kind, !.key = k] \in Local
         /\ \A taken \in SUBSET (Key \X Gen) :
              /\ [l EXCEPT !.settle = @ \ taken] \in Local
              /\ [l EXCEPT !.pc = "settle", !.settle = taken] \in Local
         /\ \A copy \in [Key -> Gen0] : [l EXCEPT !.pc = "retry", !.copy = copy] \in Local
         /\ \A k \in Key :
              /\ [l EXCEPT !.copy[k] = 0] \in Local
              /\ [l EXCEPT !.copy[k] = 0, !.failed = TRUE] \in Local
<1>1. /\ \A pc \in Pc : [l EXCEPT !.pc = pc] \in Local
      /\ \A pc \in Pc, k \in Key, o \in Gen0 :
           [l EXCEPT !.pc = pc, !.at = k, !.origin = o] \in Local
      /\ \A pc \in Pc, g \in Gen0 : [l EXCEPT !.pc = pc, !.gen = g] \in Local
      /\ \A pc \in Pc, failed \in BOOLEAN :
           [l EXCEPT !.pc = pc, !.gen = 0, !.origin = 0, !.failed = @ \/ failed] \in Local
  BY GenTypes DEF Local
<1>2. \A kind \in {"status", "ensure"}, k \in Key :
        [l EXCEPT !.pc = "reap", !.kind = kind, !.key = k] \in Local
  BY DEF Local, Pc
<1>3. \A taken \in SUBSET (Key \X Gen) :
        /\ [l EXCEPT !.settle = @ \ taken] \in Local
        /\ [l EXCEPT !.pc = "settle", !.settle = taken] \in Local
  BY DEF Local, Pc
<1>4. \A copy \in [Key -> Gen0] : [l EXCEPT !.pc = "retry", !.copy = copy] \in Local
  BY DEF Local, Pc
<1>5. \A k \in Key : [l.copy EXCEPT ![k] = 0] \in [Key -> Gen0]
  BY GenTypes DEF Local
<1>6. \A k \in Key :
        /\ [l EXCEPT !.copy[k] = 0] \in Local
        /\ [l EXCEPT !.copy[k] = 0, !.failed = TRUE] \in Local
  BY <1>5 DEF Local
<1>7. QED
  BY <1>1, <1>2, <1>3, <1>4, <1>6

(* What an actor does next is of the type of actors. *)
LEMMA ActorTypes ==
  ASSUME Typed, NEW a \in Actor
  PROVE  /\ actor[a] \in Local
         /\ \A l \in Local : Now(a, l) => actor' \in [Actor -> Local]
         /\ \A pc \in Pc : To(a, pc) => actor' \in [Actor -> Local]
         /\ Leave(a) => actor' \in [Actor -> Local]
         /\ \A pc \in Pc, failed \in BOOLEAN : Back(a, pc, failed) => actor' \in [Actor -> Local]
<1>1. \A l \in Local : Now(a, l) => actor' \in [Actor -> Local]
  BY DEF Now, Typed
<1>2. actor[a] \in Local
  BY DEF Typed
<1>3. \A pc \in Pc : To(a, pc) => actor' \in [Actor -> Local]
  BY <1>1, <1>2, LocalTypes DEF To
<1>4. Leave(a) => actor' \in [Actor -> Local]
  BY <1>1, NoActorType DEF Leave
<1>5. ASSUME NEW pc \in Pc, NEW failed \in BOOLEAN, Back(a, pc, failed)
      PROVE  actor' \in [Actor -> Local]
  BY <1>1, <1>2, <1>5, LocalTypes DEF Back
<1>6. QED
  BY <1>1, <1>2, <1>3, <1>4, <1>5

(* So does every step that settles tasks and stores what failed. *)
LEMMA CoordinatorTyped ==
  ASSUME Typed, HoldInv, NEW a \in Actor, Coordinator(a)
  PROVE  Typed'
<1> DEFINE A == actor' \in [Actor -> Local]
<1>1. actor[a] \in Local /\ \A pc \in Pc : To(a, pc) \/ Resume(a, pc) \/ Failed(a, pc) => A
  BY ActorTypes DEF Resume, Failed
<1>2. /\ actor[a].at \in Key /\ actor[a].gen \in Gen0 /\ actor[a].origin \in Gen0
      /\ actor[a].settle \subseteq Key \X Gen
  BY <1>1 DEF Local
<1>3. \A k \in Key, g \in Gen0 :
        Remember(k, g) \/ UNCHANGED <<errors, dropped>> => errors' \in [Key -> Gen0] /\ dropped' \subseteq Key \X Gen
  BY EntryTypes, DisplacedTypes DEF Remember, Typed
<1>4. \A k \in Key : Settled(k, "failed") => job' \in [Key -> [gen : Gen0, status : Status]]
  BY EntryTypes DEF Status
<1>settle. ASSUME NEW k \in Key, NEW g \in Gen, Settle(a, k, g)
           PROVE  Typed'
  <2> DEFINE rest == [actor[a] EXCEPT !.settle = @ \ {<<k, g>>}]
  <2>1. rest \in Local
    <3>1. {<<k, g>>} \in SUBSET (Key \X Gen)
      OBVIOUS
    <3>2. QED
      BY <1>1, <3>1, LocalTypes
  <2>2. [rest EXCEPT !.pc = "joinRead", !.at = k, !.origin = g] \in Local
    BY <2>1, LocalTypes, GenTypes DEF Pc
  <2>3. A
    BY <1>settle, <2>1, <2>2, ActorTypes DEF Settle
  <2>4. errors' \in [Key -> Gen0] /\ dropped' \subseteq Key \X Gen
    BY <1>settle, <1>3, GenTypes DEF Settle
  <2>5. QED
    BY <1>settle, <2>3, <2>4 DEF Settle, Typed, rows, process
<1>joinRead. CASE JoinRead(a)
  <2>1. A
    <3>1. \A k \in Key : job[k].gen \in Gen0
      BY DEF Typed
    <3>2. [actor[a] EXCEPT !.pc = "joinFail", !.gen = job[actor[a].at].gen] \in Local
      BY <1>1, <1>2, <3>1, LocalTypes DEF Pc
    <3>3. QED
      BY <1>joinRead, <1>1, <3>2, ActorTypes DEF JoinRead, Pc
  <2>2. errors' \in [Key -> Gen0] /\ dropped' \subseteq Key \X Gen
    BY <1>joinRead, <1>2, <1>3 DEF JoinRead
  <2>3. QED
    BY <1>joinRead, <2>1, <2>2, CountTypes DEF JoinRead, Typed, rows, process
<1>joinFail. CASE JoinFail(a)
  <2>1. A
    BY <1>joinFail, <1>1 DEF JoinFail, Pc
  <2>2. errors' \in [Key -> Gen0] /\ dropped' \subseteq Key \X Gen
    BY <1>joinFail, <1>2, <1>3 DEF JoinFail
  <2>3. job' \in [Key -> [gen : Gen0, status : Status]]
    BY <1>joinFail, <1>2, <1>4 DEF JoinFail, Typed
  <2>4. QED
    BY <1>joinFail, <2>1, <2>2, <2>3, CountTypes DEF JoinFail, Typed, process
<1>reaped. CASE Reaped(a)
  <2>1. A
    BY <1>reaped, <1>1, ActorTypes DEF Reaped, Pc
  <2>2. QED
    BY <1>reaped, <2>1 DEF Reaped, Keep, Typed, rows, process, maps
<1>copy. CASE CopyErrors(a)
  <2>1. [actor[a] EXCEPT !.pc = "retry", !.copy = errors] \in Local
    BY <1>1, LocalTypes DEF Typed
  <2>2. QED
    BY <1>copy, <2>1, ActorTypes DEF CopyErrors, Keep, Typed, rows, process, maps
<1>retry. ASSUME NEW k \in Key, RetryRead(a, k)
          PROVE  Typed'
  <2> DEFINE next == [actor[a] EXCEPT !.copy[k] = 0, !.at = k, !.origin = actor[a].copy[k]]
  <2>1. actor[a].copy \in [Key -> Gen0] /\ job[k].gen \in Gen0
    BY <1>1 DEF Local, Typed
  <2>2. next \in Local
    <3>1. [actor[a].copy EXCEPT ![k] = 0] \in [Key -> Gen0]
      BY <2>1, GenTypes
    <3>2. QED
      BY <1>1, <2>1, <3>1 DEF Local
  <2>3. /\ [next EXCEPT !.pc = "fail", !.gen = job[k].gen] \in Local
        /\ [next EXCEPT !.pc = "forget"] \in Local
        /\ [actor[a] EXCEPT !.copy[k] = 0, !.failed = TRUE] \in Local
    BY <1>1, <2>1, <2>2, LocalTypes DEF Pc
  <2>4. A
    BY <1>retry, <2>3, ActorTypes DEF RetryRead
  <2>5. QED
    BY <1>retry, <2>4, CountTypes DEF RetryRead, Keep, Typed, rows, process, maps
<1>retryFail. CASE RetryFail(a)
  <2>1. A
    BY <1>retryFail, <1>1 DEF RetryFail, Pc
  <2>2. job' \in [Key -> [gen : Gen0, status : Status]]
    BY <1>retryFail, <1>2, <1>4 DEF RetryFail, Typed
  <2>3. QED
    BY <1>retryFail, <2>1, <2>2, CountTypes DEF RetryFail, Typed, process, maps
<1>forget. CASE Forget(a)
  <2>1. A
    BY <1>forget, <1>1 DEF Forget, Pc
  <2>2. errors' \in [Key -> Gen0]
    BY <1>forget, <1>2, GenTypes, EntryTypes DEF Forget, Typed
  <2>3. dropped' \subseteq Key \X Gen
    BY <1>forget, <1>2, DisplacedTypes DEF Forget, Typed
  <2>4. QED
    BY <1>forget, <2>1, <2>2, <2>3 DEF Forget, Typed, rows, process
<1>initialized. CASE Initialized(a)
  <2>1. A
    BY <1>initialized, <1>1, ActorTypes DEF Initialized, Pc
  <2>2. QED
    BY <1>initialized, <2>1 DEF Initialized, Typed, rows, maps, history
<1>q. QED
  BY <1>settle, <1>joinRead, <1>joinFail, <1>reaped, <1>copy, <1>retry, <1>retryFail,
     <1>forget, <1>initialized DEF Coordinator

(* Taking handles out of the map: what is taken was started. *)
LEMMA TakeTypes ==
  ASSUME Typed, NEW a \in Actor, NEW keys \in SUBSET Key, Take(a, keys),
         \A k \in keys : active[k] # 0
  PROVE  actor' \in [Actor -> Local] /\ active' \in [Key -> Gen0]
<1>1. {<<k, active[k]>> : k \in keys} \subseteq Key \X Gen
  BY GenTypes DEF Typed
<1>2. actor' \in [Actor -> Local]
  BY <1>1, ActorTypes, LocalTypes DEF Take
<1>3. active' \in [Key -> Gen0]
  BY GenTypes DEF Take, Typed
<1>4. QED
  BY <1>2, <1>3

(* So does every other step of a tool call. *)
LEMMA CallTyped ==
  ASSUME Typed, NEW c \in Call,
         Begin(c) \/ Reap(c) \/ Recover(c) \/ Check(c) \/ Start(c) \/ Insert(c)
  PROVE  Typed'
<1> DEFINE A == actor' \in [Actor -> Local]
<1>1. c \in Actor
  BY DEF Actor
<1>2. actor[c] \in Local /\ (\A pc \in Pc : To(c, pc) => A) /\ (Leave(c) => A)
  BY <1>1, ActorTypes
<1>3. actor[c].key \in Key /\ actor[c].gen \in Gen0
  BY <1>2 DEF Local
<1>begin. CASE Begin(c)
  <2>1. A
    BY <1>begin, <1>1, NoActorType, LocalTypes, ActorTypes DEF Begin
  <2>2. QED
    BY <1>begin, <2>1 DEF Begin, Typed, rows, process, maps, history
<1>reap. CASE Reap(c)
  <2> DEFINE keys == {k \in Key : active[k] # 0 /\ task[k][active[k]] \in Finished}
  <2>1. A /\ active' \in [Key -> Gen0]
    <3>1. keys \in SUBSET Key /\ Take(c, keys) /\ \A k \in keys : active[k] # 0
      BY <1>reap DEF Reap
    <3>2. QED
      BY ONLY Typed, <1>1, <3>1, TakeTypes
  <2>2. QED
    BY <1>reap, <2>1 DEF Reap, Take, Typed, rows, history
<1>recover. CASE Recover(c)
  <2>1. A
    BY <1>recover, <1>2 DEF Recover, Pc
  <2>2. job' \in [Key -> [gen : Gen0, status : Status]]
    <3>1. \A k \in Key : [job[k] EXCEPT !.status = "interrupted"] \in [gen : Gen0, status : Status]
      BY DEF Typed, Status
    <3>2. QED
      BY <1>recover, <3>1 DEF Recover, Typed
  <2>3. QED
    BY <1>recover, <2>1, <2>2, CountTypes DEF Recover, Typed, maps
<1>check. CASE Check(c)
  <2>1. A
    BY <1>check, <1>2 DEF Check, Pc
  <2>2. QED
    BY <1>check, <2>1, CountTypes DEF Check, Keep, Typed, rows, process, maps
<1>start. CASE Start(c)
  <2> DEFINE k == actor[c].key  g == job[k].gen + 1
  <2>1. CASE /\ Fine /\ job[k].status # "running" /\ g <= MaxGen
             /\ job' = [job EXCEPT ![k] = [gen |-> g, status |-> "running"]]
             /\ Task(k, g, "work")
             /\ Now(c, [actor[c] EXCEPT !.pc = "insert", !.gen = g])
             /\ UNCHANGED <<snap, process, maps, dropped>>
    <3>1. job[k].gen \in Gen0
      BY <1>3 DEF Typed
    <3>2. g \in Gen
      BY <2>1, <3>1, MaxGenAssumption DEF Gen, Gen0
    <3>3. A
      BY <1>1, <1>2, <2>1, <3>2, LocalTypes, ActorTypes, GenTypes DEF Pc
    <3>4. [gen |-> g, status |-> "running"] \in [gen : Gen0, status : Status]
      BY <3>2, GenTypes DEF Status
    <3>5. job' \in [Key -> [gen : Gen0, status : Status]]
      BY <2>1, <3>4 DEF Typed
    <3>6. task' \in [Key -> [Gen -> Phase]]
      BY <1>3, <2>1, <3>2, EntryTypes DEF Phase, AtWork
    <3>7. QED
      BY <2>1, <3>3, <3>5, <3>6, CountTypes DEF Typed, process, maps
  <2>2. CASE /\ (Fine \/ Fault) /\ Leave(c)
             /\ UNCHANGED <<job, task, snap, process, maps, dropped>>
    BY <1>2, <2>2, CountTypes DEF Typed, process, maps
  <2>3. QED
    BY <1>start, <2>1, <2>2 DEF Start
<1>insert. CASE Insert(c)
  <2>1. active' \in [Key -> Gen0]
    BY <1>insert, <1>3, EntryTypes DEF Insert, Typed
  <2>2. dropped' \subseteq Key \X Gen
    BY <1>insert, <1>3, DisplacedTypes DEF Insert, Typed
  <2>3. QED
    BY <1>insert, <1>2, <2>1, <2>2 DEF Insert, Typed, rows, process
<1>q. QED
  BY <1>begin, <1>reap, <1>recover, <1>check, <1>start, <1>insert

(* So does every step of the process. *)
LEMMA ProcessTyped ==
  ASSUME Typed, (\E k \in Key : ClearCache(k)) \/ Drain \/ End \/ Open \/ UNCHANGED vars
  PROVE  Typed'
<1> USE GenTypes DEF Typed, process, maps, rows, history
<1>clear. ASSUME NEW k \in Key, ClearCache(k)
          PROVE  Typed'
  BY <1>clear DEF ClearCache
<1>drain. CASE Drain
  <2> DEFINE keys == {k \in Key : active[k] # 0}
  <2>1. actor' \in [Actor -> Local] /\ active' \in [Key -> Gen0]
    <3>1. keys \in SUBSET Key /\ Take(Shutdown, keys) /\ \A k \in keys : active[k] # 0
      BY <1>drain DEF Drain
    <3>2. Shutdown \in Actor
      BY DEF Actor
    <3>3. QED
      BY ONLY Typed, <3>1, <3>2, TakeTypes
  <2>2. QED
    BY <1>drain, <2>1 DEF Drain, Take, Typed, rows, history
<1>end. CASE End
  BY <1>end, NoActorType DEF End, NoErrors, NoTasks, Phase
<1>open. CASE Open
  BY <1>open DEF Open
<1>same. CASE UNCHANGED vars
  BY <1>same DEF vars
<1>q. QED
  BY <1>clear, <1>drain, <1>end, <1>open, <1>same

(* Every step keeps the types. *)
LEMMA NextTyped ==
  ASSUME Typed, HoldInv, [Next]_vars
  PROVE  Typed'
  BY BackgroundTyped, CoordinatorTyped, CallTyped, ProcessTyped DEF Next, Quiet

-----------------------------------------------------------------------------
(* What a step of the running process does to tasks, jobs and snapshots.     *)

(* A task starts with its job, in a process that has recovered, never works  *)
(* again once it is over, and is not forgotten.                              *)
TaskMoves ==
  \A k \in Key, g \in Gen :
    /\ task[k][g] \in Finished => task'[k][g] = task[k][g]
    /\ task[k][g] = "leaving" => task'[k][g] \in {"leaving", "err"}
    /\ task[k][g] # "none" => task'[k][g] # "none"
    /\ task[k][g] = "none" /\ task'[k][g] # "none" =>
         job'[k] = [gen |-> g, status |-> "running"] /\ recovered
    /\ task'[k][g] \in AtWork => task[k][g] \in AtWork \cup {"none"}

(* A job is settled once, while it runs, or restarted as the next one.       *)
JobMoves ==
  \A k \in Key :
    \/ job'[k] = job[k]
    \/ /\ job[k].status = "running"
       /\ job'[k].gen = job[k].gen
       /\ job'[k].status \in {"completed", "failed", "interrupted"}
       /\ job'[k].status = "interrupted" => ~recovered
    \/ job'[k].gen = job[k].gen + 1 /\ job'[k].status = "running"

(* A snapshot comes with the completion of its job.                          *)
SnapMoves ==
  \A k \in Key :
    \/ snap'[k] \in {0, snap[k]}
    \/ snap'[k] = job[k].gen /\ job'[k] = [gen |-> job[k].gen, status |-> "completed"]

Moves == TaskMoves /\ JobMoves /\ SnapMoves /\ (recovered => recovered')

(* Settled, and a job that is left alone, are such moves of the jobs.        *)
LEMMA SettledMoves ==
  ASSUME Typed, NEW k \in Key, NEW s \in {"completed", "failed"},
         job[k].status = "running", Settled(k, s)
  PROVE  JobMoves
  BY DEF Typed, Settled, JobMoves

(* What does not change moves as it may. *)
LEMMA StayMoves ==
  /\ UNCHANGED job => JobMoves
  /\ UNCHANGED snap => SnapMoves
  /\ UNCHANGED task => TaskMoves
  BY DEF JobMoves, SnapMoves, TaskMoves, AtWork

(* A task goes on from work to its end and never back. *)
LEMMA TaskAdvances ==
  ASSUME Typed, NEW k \in Key, NEW g \in Gen, NEW to \in AtWork \cup Finished, Task(k, g, to),
         \/ task[k][g] \in {"work", "failing"}
         \/ task[k][g] = "leaving" /\ to = "err"
  PROVE  TaskMoves
<1>1. \A l \in Key, h \in Gen : task'[l][h] = IF l = k /\ h = g THEN to ELSE task[l][h]
  BY DEF Task, Typed
<1>2. QED
  BY <1>1 DEF TaskMoves, AtWork, Finished

(* A background task moves only its own job, snapshot and handle. *)
LEMMA BackgroundMoves ==
  ASSUME Typed, NEW k \in Key, NEW g \in Gen, Background(k, g)
  PROVE  Moves
<1>1. {"failing", "leaving", "ok", "err", "panic"} \subseteq AtWork \cup Finished
  BY DEF AtWork, Finished
<1>2. Running(k, g) => job[k].status = "running" /\ job[k].gen = g
  BY DEF Running
<1>3. CASE Publish(k, g)
  <2>1. TaskMoves /\ recovered' = recovered
    BY <1>1, <1>3, TaskAdvances DEF Publish, process
  <2>2. CASE Running(k, g)
    <3>1. snap' = [snap EXCEPT ![k] = g] /\ Settled(k, "completed")
      BY <1>3, <2>2 DEF Publish
    <3>2. job'[k] = [gen |-> job[k].gen, status |-> "completed"]
      BY <3>1 DEF Settled, Typed
    <3>3. SnapMoves
      BY <1>2, <2>2, <3>1, <3>2 DEF SnapMoves, Typed
    <3>4. QED
      BY <1>2, <2>1, <2>2, <3>1, <3>3, SettledMoves DEF Moves
  <2>3. CASE ~Running(k, g)
    BY <1>3, <2>1, <2>3, StayMoves DEF Publish, rows, Moves
  <2>4. QED
    BY <2>2, <2>3
<1>4. CASE WorkFails(k, g)
  BY <1>1, <1>4, TaskAdvances, StayMoves DEF WorkFails, rows, process, Moves
<1>5. CASE StoreFailure(k, g)
  <2>1. TaskMoves /\ recovered' = recovered /\ SnapMoves
    BY <1>1, <1>5, TaskAdvances, StayMoves DEF StoreFailure, process
  <2>2. JobMoves
    BY <1>2, <1>5, SettledMoves, StayMoves DEF StoreFailure
  <2>3. QED
    BY <2>1, <2>2 DEF Moves
<1>6. CASE ReturnError(k, g)
  BY <1>1, <1>6, TaskAdvances, StayMoves DEF ReturnError, rows, process, Moves
<1>7. QED
  BY <1>3, <1>4, <1>5, <1>6 DEF Background

(* The coordinator moves a job only by the rules of jobs. *)
LEMMA CoordinatorMoves ==
  ASSUME Typed, NEW a \in Actor, Coordinator(a)
  PROVE  Moves
<1>1. actor[a].at \in Key
  BY DEF Typed, Local
<1>2. \A k \in Key : Running(k, actor[a].gen) => job[k].status = "running"
  BY DEF Running
<1>3. UNCHANGED <<snap, recovered, task>> => SnapMoves /\ TaskMoves /\ (recovered => recovered')
  BY StayMoves
<1>joinFail. CASE JoinFail(a)
  BY <1>1, <1>2, <1>3, <1>joinFail, SettledMoves, StayMoves DEF JoinFail, process, Moves
<1>retryFail. CASE RetryFail(a)
  BY <1>1, <1>2, <1>3, <1>retryFail, SettledMoves, StayMoves DEF RetryFail, process, Moves
<1>other. CASE UNCHANGED <<rows, recovered, task>>
  BY <1>3, <1>other, StayMoves DEF rows, Moves
<1>q. QED
  BY <1>joinFail, <1>retryFail, <1>other
  DEF Coordinator, Settle, JoinRead, Reaped, CopyErrors, RetryRead, Forget, Initialized, Keep, process

(* A call moves jobs and tasks only by their rules. *)
LEMMA CallMoves ==
  ASSUME TypeOK, AfterRecovery, NEW c \in Call,
         Begin(c) \/ Reap(c) \/ Recover(c) \/ Check(c) \/ Start(c) \/ Insert(c)
  PROVE  Moves
<1>1. actor[c].key \in Key
  BY DEF TypeOK, Typed, Local, Actor
<1>recover. CASE Recover(c)
  <2>1. CASE UNCHANGED job
    BY <1>recover, <2>1, StayMoves DEF Recover, Moves
  <2>2. CASE /\ ~recovered
             /\ job' = [k \in Key |-> IF job[k].status = "running"
                                      THEN [job[k] EXCEPT !.status = "interrupted"] ELSE job[k]]
    <3>1. JobMoves
      BY <2>2 DEF JobMoves, TypeOK, Typed
    <3>2. QED
      BY <1>recover, <2>2, <3>1, StayMoves DEF Recover, Moves
  <2>3. QED
    BY <1>recover, <2>1, <2>2 DEF Recover
<1>start. CASE Start(c)
  <2> DEFINE k == actor[c].key  g == job[k].gen + 1
  <2>1. CASE /\ g <= MaxGen
             /\ job' = [job EXCEPT ![k] = [gen |-> g, status |-> "running"]]
             /\ Task(k, g, "work")
             /\ UNCHANGED <<snap, process>>
    <3>1. g \in Gen
      BY <1>1, <2>1, MaxGenAssumption DEF TypeOK, Typed, Gen, Gen0
    <3>2. \A l \in Key, h \in Gen : task'[l][h] = IF l = k /\ h = g THEN "work" ELSE task[l][h]
      BY <1>1, <2>1, <3>1 DEF Task, TypeOK, Typed
    <3>3. recovered
      BY <1>start DEF Start, At, AfterRecovery, Recovered
    <3>4. JobMoves
      BY <1>1, <2>1, SMTT(30) DEF JobMoves, TypeOK, Typed
    <3>5. job'[k] = [gen |-> g, status |-> "running"]
      BY <1>1, <2>1 DEF TypeOK, Typed
    <3>6. task[k][g] = "none"
      BY <1>1, <3>1, MaxGenAssumption DEF TypeOK, Typed, Entered, Gen, Gen0
    <3>7. TaskMoves
      BY <3>2, <3>3, <3>5, <3>6 DEF TaskMoves, AtWork, Finished
    <3>8. QED
      BY <2>1, <3>4, <3>7, StayMoves DEF process, Moves
  <2>2. CASE UNCHANGED <<job, task, snap, process>>
    BY <2>2, StayMoves DEF process, Moves
  <2>3. QED
    BY <1>start, <2>1, <2>2 DEF Start
<1>other. CASE UNCHANGED <<rows, recovered, task>>
  BY <1>other, StayMoves DEF rows, Moves
<1>q. QED
  BY <1>recover, <1>start, <1>other DEF Begin, Reap, Take, Check, Insert, Keep, process, rows

(* Clearing a cache, draining and opening move them by their rules. *)
LEMMA ProcessMoves ==
  ASSUME Typed, (\E k \in Key : ClearCache(k)) \/ Drain \/ Open \/ UNCHANGED vars
  PROVE  Moves
<1>clear. ASSUME NEW k \in Key, ClearCache(k)
          PROVE  Moves
  <2>1. SnapMoves
    BY <1>clear DEF ClearCache, SnapMoves, Typed
  <2>2. QED
    BY <1>clear, <2>1, StayMoves DEF ClearCache, process, Moves
<1>other. CASE UNCHANGED <<rows, recovered, task>>
  BY <1>other, StayMoves DEF rows, Moves
<1>q. QED
  BY <1>clear, <1>other DEF Drain, Take, Open, vars, process, rows

-----------------------------------------------------------------------------
(* What a step does to the maps and to the actors.                           *)

(* A handle that enters the map, and an error, belong to a task.             *)
MapMoves ==
  \A k \in Key :
    /\ \/ active'[k] \in {0, active[k]}
       \/ active'[k] \in Gen /\ task[k][active'[k]] # "none"
    /\ \/ errors'[k] \in {0, errors[k]}
       \/ errors'[k] \in Gen /\ task'[k][errors'[k]] \in Finished \cup {"leaving"}

(* An actor turns to a task that it has found or has started.                *)
TurnsToTask(a) ==
  \/ actor'[a] = actor[a]
  \/ actor'[a].pc \notin {"joinRead", "joinFail", "insert"}
  \/ /\ actor'[a].pc = "joinRead"
     /\ actor'[a].origin \in Gen /\ task[actor'[a].at][actor'[a].origin] = "panic"
  \/ /\ actor'[a].pc = "joinFail" /\ actor[a].pc = "joinRead"
     /\ actor'[a].at = actor[a].at /\ actor'[a].origin = actor[a].origin
  \/ /\ actor'[a].pc = "insert"
     /\ actor'[a].gen \in Gen /\ task'[actor'[a].key][actor'[a].gen] # "none"

PassesRecovery(a) ==
  a \in Call /\ actor'[a].pc \in Recovered => actor[a].pc \in Recovered \/ recovered'

ActorMoves == \A a \in Actor : TurnsToTask(a) /\ PassesRecovery(a)

(* Where one actor steps, only its own move is in question.                  *)
LEMMA OneActorMoves ==
  ASSUME Typed, NEW a \in Actor, NEW l, Now(a, l)
  PROVE  /\ actor'[a] = l
         /\ TurnsToTask(a) /\ PassesRecovery(a) => ActorMoves
<1>1. \A b \in Actor : actor'[b] = IF b = a THEN l ELSE actor[b]
  BY DEF Now, Typed
<1>2. \A b \in Actor \ {a} : TurnsToTask(b) /\ PassesRecovery(b)
  BY <1>1 DEF TurnsToTask, PassesRecovery
<1>3. QED
  BY <1>1, <1>2 DEF ActorMoves

(* Actors and maps that do not change move as they may. *)
LEMMA QuietMoves ==
  /\ UNCHANGED actor => ActorMoves
  /\ UNCHANGED maps => MapMoves
  BY DEF ActorMoves, TurnsToTask, PassesRecovery, maps, MapMoves

(* A step that leads an actor to an ordinary place, past recovery only from  *)
(* there.                                                                    *)
LEMMA OrdinaryMove ==
  ASSUME Typed, NEW a \in Actor, NEW l \in Local, Now(a, l),
         l.pc \notin {"joinRead", "joinFail", "insert"},
         a \in Call /\ l.pc \in Recovered => actor[a].pc \in Recovered \/ recovered'
  PROVE  ActorMoves
  BY OneActorMoves DEF TurnsToTask, PassesRecovery

(* Leaving, going on and going back lead to places with no duty. *)
LEMMA OrdinaryPlaces ==
  ASSUME Typed, NEW a \in Actor
  PROVE  /\ Leave(a) => ActorMoves
         /\ \A pc \in Pc \ {"joinRead", "joinFail", "insert"}, failed \in BOOLEAN :
              /\ a \in Call /\ pc \in Recovered => actor[a].pc \in Recovered \/ recovered'
              /\ To(a, pc) \/ Back(a, pc, failed)
              => ActorMoves
<1>1. Leave(a) => ActorMoves
  BY NoActorType, OrdinaryMove DEF Leave, NoActor, Recovered
<1>2. ASSUME NEW pc \in Pc \ {"joinRead", "joinFail", "insert"}, NEW failed \in BOOLEAN,
             a \in Call /\ pc \in Recovered => actor[a].pc \in Recovered \/ recovered',
             To(a, pc) \/ Back(a, pc, failed)
      PROVE  ActorMoves
  <2>1. actor[a] \in Local
    BY DEF Typed
  <2>2. CASE To(a, pc)
    <3> DEFINE l == [actor[a] EXCEPT !.pc = pc]
    <3>1. l \in Local
      BY <2>1, LocalTypes
    <3>2. l.pc = pc
      BY <2>1 DEF Local
    <3>3. Now(a, l)
      BY <2>2 DEF To
    <3> HIDE DEF l
    <3>4. QED
      BY <1>2, <3>1, <3>2, <3>3, OrdinaryMove
  <2>3. CASE Back(a, pc, failed)
    <3> DEFINE l == [actor[a] EXCEPT !.pc = pc, !.gen = 0, !.origin = 0, !.failed = @ \/ failed]
    <3>1. l \in Local
      BY <2>1, LocalTypes
    <3>2. l.pc = pc
      BY <2>1 DEF Local
    <3>3. Now(a, l)
      BY <2>3 DEF Back
    <3> HIDE DEF l
    <3>4. QED
      BY <1>2, <3>1, <3>2, <3>3, OrdinaryMove
  <2>4. QED
    BY <1>2, <2>2, <2>3
<1>3. QED
  BY <1>1, <1>2

(* A background task leaves maps and actors as they may be. *)
LEMMA BackgroundHolds ==
  ASSUME Typed, NEW k \in Key, NEW g \in Gen, Background(k, g)
  PROVE  MapMoves /\ ActorMoves
<1>1. UNCHANGED actor
  BY DEF Background, Publish, WorkFails, StoreFailure, ReturnError
<1>2. CASE UNCHANGED maps
  BY <1>1, <1>2, QuietMoves
<1>3. CASE /\ errors' = [errors EXCEPT ![k] = g] /\ UNCHANGED active
           /\ Task(k, g, "leaving")
  BY <1>1, <1>3, QuietMoves DEF MapMoves, Task, Typed
<1>4. QED
  BY <1>2, <1>3 DEF Background, Publish, WorkFails, StoreFailure, ReturnError, Remember, maps

(* The coordinator leaves maps and actors as they may be. *)
LEMMA CoordinatorHolds ==
  ASSUME Typed, HoldInv, NEW a \in Actor, Coordinator(a)
  PROVE  MapMoves /\ ActorMoves
<1>1. actor[a] \in Local
  BY DEF Typed
<1>2. actor[a].at \in Key /\ actor[a].origin \in Gen0
  BY <1>1 DEF Local
<1>3. \A pc \in Pc \ {"joinRead", "joinFail", "insert"} :
        /\ a \in Call /\ pc \in Recovered => actor[a].pc \in Recovered
        /\ To(a, pc) \/ Resume(a, pc) \/ Failed(a, pc)
        => ActorMoves
  BY OrdinaryPlaces DEF Resume, Failed
<1>4. \A pc \in Pc \ {"joinRead", "joinFail", "insert"} :
        pc \notin Recovered /\ (To(a, pc) \/ Resume(a, pc) \/ Failed(a, pc)) => ActorMoves
  BY <1>3
<1>settle. ASSUME NEW k \in Key, NEW g \in Gen, Settle(a, k, g)
           PROVE  MapMoves /\ ActorMoves
  <2> DEFINE rest == [actor[a] EXCEPT !.settle = @ \ {<<k, g>>}]
             join == [rest EXCEPT !.pc = "joinRead", !.at = k, !.origin = g]
             next == IF task[k][g] = "panic" THEN join ELSE rest
  <2>1. rest.pc = "settle" /\ join.pc = "joinRead" /\ join.at = k /\ join.origin = g
    BY <1>1, <1>settle DEF Settle, At, Local
  <2>2. Now(a, next)
    BY <1>settle DEF Settle
  <2>3. actor'[a] = next
    BY <2>2, OneActorMoves
  <2>4. TurnsToTask(a) /\ PassesRecovery(a)
    <3> HIDE DEF rest, join
    <3>1. QED
      BY <2>1, <2>3 DEF TurnsToTask, PassesRecovery, Recovered
  <2>5. ActorMoves
    <3> HIDE DEF next
    <3>1. QED
      BY <2>2, <2>4, OneActorMoves
  <2>6. MapMoves
    <3>1. CASE task[k][g] = "err" /\ errors' = [errors EXCEPT ![k] = g] /\ UNCHANGED <<active, task>>
      BY <3>1 DEF MapMoves, Typed, Finished
    <3>2. QED
      BY <1>settle, <3>1, QuietMoves DEF Settle, Remember, maps
  <2>7. QED
    BY <2>5, <2>6
<1>remember. ASSUME At(a, "joinRead") \/ At(a, "joinFail"), UNCHANGED <<active, task>>,
                    Remember(actor[a].at, actor[a].origin)
             PROVE  MapMoves
  <2>1. /\ actor[a].origin \in Gen
        /\ task'[actor[a].at][actor[a].origin] = "panic"
    BY <1>2, <1>remember, GenTypes DEF At, HoldInv, HoldsTask
  <2>2. QED
    BY <1>2, <1>remember, <2>1 DEF MapMoves, Remember, Typed, Finished
<1>joinRead. CASE JoinRead(a)
  <2>1. MapMoves
    BY <1>joinRead, <1>remember, QuietMoves DEF JoinRead, maps
  <2>2. CASE Now(a, [actor[a] EXCEPT !.pc = "joinFail", !.gen = job[actor[a].at].gen])
    <3> DEFINE l == [actor[a] EXCEPT !.pc = "joinFail", !.gen = job[actor[a].at].gen]
    <3>1. l.pc = "joinFail" /\ l.at = actor[a].at /\ l.origin = actor[a].origin
      BY <1>1 DEF Local
    <3>2. Now(a, l)
      BY <2>2
    <3> HIDE DEF l
    <3>3. actor'[a] = l
      BY <3>2, OneActorMoves
    <3>4. TurnsToTask(a) /\ PassesRecovery(a)
      BY <1>joinRead, <3>1, <3>3 DEF JoinRead, At, TurnsToTask, PassesRecovery, Recovered
    <3>5. QED
      BY <2>1, <3>2, <3>4, OneActorMoves
  <2>3. CASE Resume(a, "settle") \/ Failed(a, "settle")
    BY <1>4, <2>1, <2>3 DEF Pc, Recovered
  <2>4. QED
    BY <1>joinRead, <2>2, <2>3 DEF JoinRead
<1>joinFail. CASE JoinFail(a)
  <2>1. MapMoves
    BY <1>joinFail, <1>remember, QuietMoves DEF JoinFail, maps
  <2>2. QED
    BY <1>4, <1>joinFail, <2>1 DEF JoinFail, Pc, Recovered
<1>reaped. CASE Reaped(a)
  <2>1. MapMoves
    BY <1>reaped, QuietMoves DEF Reaped, Keep
  <2>2. CASE Leave(a)
    BY <2>1, <2>2, OrdinaryPlaces
  <2>3. CASE a = Shutdown /\ To(a, "copy")
    BY <1>3, <2>1, <2>3, ShutdownAssumption DEF Pc
  <2>4. CASE To(a, "recover")
    BY <1>4, <2>1, <2>4 DEF Pc, Recovered
  <2>5. QED
    BY <1>reaped, <2>2, <2>3, <2>4 DEF Reaped
<1>past. actor[a].pc \in Recovered => \A pc \in Pc \ {"joinRead", "joinFail", "insert"} :
           To(a, pc) \/ Resume(a, pc) \/ Failed(a, pc) => ActorMoves
  BY <1>3
<1>pastNow. ASSUME NEW l \in Local, Now(a, l), actor[a].pc \in Recovered,
                   l.pc \notin {"joinRead", "joinFail", "insert"}
            PROVE  ActorMoves
  BY <1>pastNow, OrdinaryMove
<1>copy. CASE CopyErrors(a)
  <2> DEFINE l == [actor[a] EXCEPT !.pc = "retry", !.copy = errors]
  <2>1. l \in Local
    BY <1>1, LocalTypes DEF Typed
  <2>2. l.pc = "retry"
    BY <1>1 DEF Local
  <2>3. Now(a, l) /\ actor[a].pc \in Recovered
    BY <1>copy DEF CopyErrors, At, Recovered
  <2> HIDE DEF l
  <2>4. ActorMoves
    BY <1>pastNow, <2>1, <2>2, <2>3
  <2>5. QED
    BY <1>copy, <2>4, QuietMoves DEF CopyErrors, Keep
<1>retry. ASSUME NEW k \in Key, RetryRead(a, k)
          PROVE  MapMoves /\ ActorMoves
  <2> DEFINE next == [actor[a] EXCEPT !.copy[k] = 0, !.at = k, !.origin = actor[a].copy[k]]
             fail == [next EXCEPT !.pc = "fail", !.gen = job[k].gen]
             forget == [next EXCEPT !.pc = "forget"]
             again == [actor[a] EXCEPT !.copy[k] = 0, !.failed = TRUE]
  <2>1. actor[a].pc = "retry" /\ actor[a].pc \in Recovered
    BY <1>retry DEF RetryRead, At, Recovered
  <2>2. fail.pc = "fail" /\ forget.pc = "forget" /\ again.pc = "retry"
    BY <1>1, <2>1 DEF Local
  <2>3. Now(a, fail) \/ Now(a, forget) \/ Now(a, again)
    BY <1>retry DEF RetryRead
  <2> HIDE DEF fail, forget, again
  <2>4. ASSUME NEW l, Now(a, l), l.pc \in {"fail", "forget", "retry"}
        PROVE  ActorMoves
    BY <2>1, <2>4, OneActorMoves DEF TurnsToTask, PassesRecovery
  <2>5. ActorMoves
    BY <2>2, <2>3, <2>4
  <2>6. QED
    BY <1>retry, <2>5, QuietMoves DEF RetryRead, Keep
<1>retryFail. CASE RetryFail(a)
  <2>1. actor[a].pc \in Recovered
    BY <1>retryFail DEF RetryFail, At, Recovered
  <2>2. QED
    BY <1>past, <1>retryFail, <2>1, QuietMoves DEF RetryFail, Pc
<1>forget. CASE Forget(a)
  <2>1. actor[a].pc \in Recovered
    BY <1>forget DEF Forget, At, Recovered
  <2>2. MapMoves
    BY <1>2, <1>forget DEF Forget, MapMoves, Typed
  <2>3. QED
    BY <1>past, <1>forget, <2>1, <2>2 DEF Forget, Pc
<1>initialized. CASE Initialized(a)
  <2>1. actor[a].pc \in Recovered
    BY <1>initialized DEF Initialized, At, Recovered
  <2>2. ActorMoves
    BY <1>past, <1>initialized, <2>1, OrdinaryPlaces DEF Initialized, Pc
  <2>3. QED
    BY <1>initialized, <2>2, QuietMoves DEF Initialized
<1>q. QED
  BY <1>settle, <1>joinRead, <1>joinFail, <1>reaped, <1>copy, <1>retry, <1>retryFail,
     <1>forget, <1>initialized DEF Coordinator

(* A call leaves maps and actors as they may be. *)
LEMMA CallHolds ==
  ASSUME TypeOK, AfterRecovery, HoldInv, Moves, NEW c \in Call,
         Begin(c) \/ Reap(c) \/ Recover(c) \/ Check(c) \/ Start(c) \/ Insert(c)
  PROVE  MapMoves /\ ActorMoves
<1>1. Typed /\ c \in Actor
  BY DEF TypeOK, Actor
<1>2. actor[c] \in Local /\ actor[c].key \in Key
  BY <1>1 DEF Typed, Local
<1>3. /\ Leave(c) => ActorMoves
      /\ \A pc \in Pc \ {"joinRead", "joinFail", "insert"} :
           (pc \in Recovered => actor[c].pc \in Recovered \/ recovered') /\ To(c, pc) => ActorMoves
  BY <1>1, OrdinaryPlaces
<1>4. ASSUME NEW l, Now(c, l), l.pc \in {"reap", "settle"}
      PROVE  ActorMoves
  BY <1>1, <1>4, OneActorMoves DEF TurnsToTask, PassesRecovery, Recovered
<1>begin. CASE Begin(c)
  <2>1. PICK kind \in {"status", "ensure"}, k \in Key :
          Now(c, [NoActor EXCEPT !.pc = "reap", !.kind = kind, !.key = k])
    BY <1>begin DEF Begin
  <2>2. [NoActor EXCEPT !.pc = "reap", !.kind = kind, !.key = k].pc = "reap"
    BY DEF NoActor
  <2>3. QED
    BY <1>begin, <1>4, <2>1, <2>2, QuietMoves DEF Begin
<1>reap. CASE Reap(c)
  <2> DEFINE taken == {k \in Key : active[k] # 0 /\ task[k][active[k]] \in Finished}
             l == [actor[c] EXCEPT !.pc = "settle", !.settle = {<<k, active[k]>> : k \in taken}]
  <2>1. Now(c, l) /\ l.pc = "settle"
    BY <1>2, <1>reap DEF Reap, Take, Local
  <2>2. MapMoves
    BY <1>reap DEF Reap, Take, MapMoves
  <2> HIDE DEF l
  <2>3. QED
    BY <1>4, <2>1, <2>2
<1>recover. CASE Recover(c)
  <2>1. Leave(c) \/ (recovered' /\ To(c, "copy"))
    BY <1>recover DEF Recover
  <2>2. QED
    BY <1>3, <1>recover, <2>1, QuietMoves DEF Recover, Pc
<1>check. CASE Check(c)
  <2>1. actor[c].pc \in Recovered /\ (Leave(c) \/ To(c, "start"))
    BY <1>check DEF Check, At, Recovered
  <2>2. QED
    BY <1>3, <1>check, <2>1, QuietMoves DEF Check, Keep, Pc
<1>start. CASE Start(c)
  <2> DEFINE k == actor[c].key  g == job[k].gen + 1  l == [actor[c] EXCEPT !.pc = "insert", !.gen = g]
  <2>1. CASE g <= MaxGen /\ Task(k, g, "work") /\ Now(c, l)
    <3>1. g \in Gen
      BY <1>1, <1>2, <2>1, MaxGenAssumption DEF Typed, Gen, Gen0
    <3>2. task'[k][g] = "work"
      BY <1>1, <1>2, <2>1, <3>1 DEF Task, Typed
    <3>3. l.pc = "insert" /\ l.key = k /\ l.gen = g
      BY <1>2 DEF Local
    <3>4. Now(c, l) /\ actor[c].pc \in Recovered
      BY <1>start, <2>1 DEF Start, At, Recovered
    <3> HIDE DEF l, g, k
    <3>5. TurnsToTask(c) /\ PassesRecovery(c)
      <4>1. actor'[c] = l
        BY <1>1, <3>4, OneActorMoves
      <4>2. QED
        BY <3>1, <3>2, <3>3, <3>4, <4>1 DEF TurnsToTask, PassesRecovery
    <3>6. ActorMoves
      BY <1>1, <3>4, <3>5, OneActorMoves
    <3>7. QED
      BY <1>start, <3>6, QuietMoves DEF Start
  <2>2. CASE Leave(c)
    BY <1>3, <1>start, <2>2, QuietMoves DEF Start
  <2>3. QED
    BY <1>start, <2>1, <2>2 DEF Start
<1>insert. CASE Insert(c)
  <2>1. actor[c].gen \in Gen /\ task[actor[c].key][actor[c].gen] # "none"
    BY <1>1, <1>2, <1>insert, GenTypes DEF Insert, At, HoldInv, HoldsTask, Local
  <2>2. MapMoves
    BY <1>1, <1>2, <1>insert, <2>1 DEF Insert, MapMoves, Typed
  <2>3. QED
    BY <1>3, <1>insert, <2>2 DEF Insert
<1>q. QED
  BY <1>begin, <1>reap, <1>recover, <1>check, <1>start, <1>insert

(* Clearing, draining and opening leave maps and actors as they may be. *)
LEMMA ProcessHolds ==
  ASSUME Typed, (\E k \in Key : ClearCache(k)) \/ Drain \/ Open \/ UNCHANGED vars
  PROVE  MapMoves /\ ActorMoves
<1>drain. CASE Drain
  <2> DEFINE keys == {k \in Key : active[k] # 0}
             l == [actor[Shutdown] EXCEPT !.pc = "settle", !.settle = {<<k, active[k]>> : k \in keys}]
  <2>1. Shutdown \in Actor
    BY DEF Actor
  <2>2. l.pc = "settle"
    BY <2>1 DEF Typed, Local
  <2>3. Now(Shutdown, l)
    BY <1>drain DEF Drain, Take
  <2> HIDE DEF l
  <2>4. ActorMoves
    BY <2>1, <2>2, <2>3, OneActorMoves DEF TurnsToTask, PassesRecovery, Recovered
  <2>5. MapMoves
    BY <1>drain DEF Drain, Take, MapMoves
  <2>6. QED
    BY <2>4, <2>5
<1>other. CASE UNCHANGED <<maps, actor>>
  BY <1>other, QuietMoves
<1>q. QED
  BY <1>drain, <1>other DEF ClearCache, Open, vars, maps

-----------------------------------------------------------------------------
(* The inductive invariant.                                                  *)

(* The invariant holds at the start. *)
LEMMA InitInvariant == Init => IInv
<1> SUFFICES ASSUME Init PROVE IInv
  OBVIOUS
<1>1. Typed
  BY NoActorType, GenTypes DEF Init, Typed, Status, NoErrors, NoTasks, Phase
<1>2. Entered
  BY DEF Init, Entered, NoErrors, NoTasks
<1>3. HoldInv /\ AfterRecovery
  BY DEF Init, HoldInv, HoldsTask, AfterRecovery, NoActor, NoTasks, Recovered, Actor
<1>4. FirstJob /\ SnapshotIsCompleted /\ InterruptedHasNoTask
  BY DEF Init, FirstJob, SnapshotIsCompleted, InterruptedHasNoTask
<1>5. QED
  BY <1>1, <1>2, <1>3, <1>4 DEF IInv, TypeOK

(* Steps of the running process.                                             *)
LEMMA MovesInvariant ==
  ASSUME IInv, Typed', Moves, MapMoves, ActorMoves
  PROVE  IInv'
<1>1. Typed
  BY DEF IInv, TypeOK
<1>2. Entered'
  <2>1. ASSUME NEW k \in Key, NEW g \in Gen, task'[k][g] # "none"
        PROVE  g <= job'[k].gen
    <3>1. job[k].gen \in Nat /\ g \in Nat
      <4>1. job[k] \in [gen : Gen0, status : Status]
        BY <1>1 DEF Typed
      <4>2. QED
        BY <4>1, GenTypes
    <3>2. job'[k].gen \in {job[k].gen, job[k].gen + 1}
      BY DEF Moves, JobMoves
    <3>3. CASE task[k][g] # "none"
      BY <3>1, <3>2, <3>3 DEF IInv, TypeOK, Entered
    <3>4. CASE task[k][g] = "none"
      <4>1. job'[k] = [gen |-> g, status |-> "running"]
        BY <2>1, <3>4 DEF Moves, TaskMoves
      <4>2. QED
        BY <3>1, <4>1
    <3>5. QED
      BY <3>3, <3>4
  <2>2. ASSUME NEW k \in Key, active'[k] # 0
        PROVE  task'[k][active'[k]] # "none"
    <3>1. active'[k] \in Gen /\ task[k][active'[k]] # "none"
      BY <1>1, <2>2, GenTypes DEF MapMoves, IInv, TypeOK, Entered, Typed
    <3>2. QED
      BY <3>1 DEF Moves, TaskMoves
  <2>3. ASSUME NEW k \in Key, errors'[k] # 0
        PROVE  task'[k][errors'[k]] \in Finished \cup {"leaving"}
    <3>1. CASE errors'[k] = errors[k]
      <4>1. errors[k] \in Gen /\ task[k][errors[k]] \in Finished \cup {"leaving"}
        BY <1>1, <2>3, <3>1, GenTypes DEF IInv, TypeOK, Entered, Typed
      <4>2. PICK g \in Gen : g = errors[k]
        BY <4>1
      <4>3. CASE task[k][g] = "leaving"
        <5>1. task'[k][g] \in {"leaving", "err"}
          BY <4>3 DEF Moves, TaskMoves
        <5>2. QED
          BY ONLY <3>1, <4>2, <5>1 DEF Finished
      <4>4. CASE task[k][g] \in Finished
        <5>1. task'[k][g] = task[k][g]
          BY <4>4 DEF Moves, TaskMoves
        <5>2. QED
          BY ONLY <3>1, <4>2, <4>4, <5>1
      <4>5. QED
        BY <4>1, <4>2, <4>3, <4>4
    <3>2. QED
      BY <2>3, <3>1 DEF MapMoves
  <2>4. QED
    BY <2>1, <2>2, <2>3 DEF Entered
<1>3. HoldInv'
  <2> SUFFICES ASSUME NEW a \in Actor PROVE HoldsTask(a)'
    BY DEF HoldInv
  <2>1. actor[a] \in Local /\ HoldsTask(a) /\ TurnsToTask(a)
    BY <1>1 DEF Typed, IInv, HoldInv, ActorMoves
  <2>2. actor[a].at \in Key /\ actor[a].key \in Key /\ actor'[a].at \in Key /\ actor'[a].key \in Key
    BY <2>1 DEF Local, Typed
  <2>3. actor[a].origin \in Gen0 /\ actor[a].gen \in Gen0
    BY <2>1 DEF Local
  <2>4. \A k \in Key, g \in Gen :
          /\ task[k][g] = "panic" => task'[k][g] = "panic"
          /\ task[k][g] # "none" => task'[k][g] # "none"
    BY DEF Moves, TaskMoves, Finished
  <2>held. ASSUME actor[a].pc \in {"joinRead", "joinFail"}
           PROVE  actor[a].origin # 0 /\ task'[actor[a].at][actor[a].origin] = "panic"
    <3>1. actor[a].origin \in Gen /\ task[actor[a].at][actor[a].origin] = "panic"
      BY <2>1, <2>3, <2>held, GenTypes DEF HoldsTask
    <3>2. task'[actor[a].at][actor[a].origin] = "panic"
      BY ONLY <2>2, <2>4, <3>1
    <3>3. QED
      BY <3>1, <3>2, GenTypes
  <2>entering. ASSUME actor[a].pc = "insert"
               PROVE  actor[a].gen # 0 /\ task'[actor[a].key][actor[a].gen] # "none"
    <3>1. actor[a].gen \in Gen /\ task[actor[a].key][actor[a].gen] # "none"
      BY <2>1, <2>3, <2>entering, GenTypes DEF HoldsTask
    <3>2. task'[actor[a].key][actor[a].gen] # "none"
      BY ONLY <2>2, <2>4, <3>1
    <3>3. QED
      BY <3>1, <3>2, GenTypes
  <2>5. CASE actor'[a] = actor[a]
    BY <2>5, <2>held, <2>entering DEF HoldsTask
  <2>6. CASE actor'[a].pc \notin {"joinRead", "joinFail", "insert"}
    BY <2>6 DEF HoldsTask
  <2>7. CASE /\ actor'[a].pc = "joinRead"
             /\ actor'[a].origin \in Gen /\ task[actor'[a].at][actor'[a].origin] = "panic"
    <3>1. task'[actor'[a].at][actor'[a].origin] = "panic"
      BY ONLY <2>2, <2>4, <2>7
    <3>2. QED
      BY <2>7, <3>1, GenTypes DEF HoldsTask
  <2>8. CASE /\ actor'[a].pc = "joinFail" /\ actor[a].pc = "joinRead"
             /\ actor'[a].at = actor[a].at /\ actor'[a].origin = actor[a].origin
    BY <2>8, <2>held DEF HoldsTask
  <2>9. CASE /\ actor'[a].pc = "insert"
             /\ actor'[a].gen \in Gen /\ task'[actor'[a].key][actor'[a].gen] # "none"
    BY <2>9, GenTypes DEF HoldsTask
  <2>10. QED
    BY <2>1, <2>5, <2>6, <2>7, <2>8, <2>9 DEF TurnsToTask
<1>4. AfterRecovery'
  <2>1. \A c \in Call : actor'[c].pc \in Recovered => recovered'
    BY DEF IInv, AfterRecovery, ActorMoves, PassesRecovery, Moves, Actor
  <2>2. \A k \in Key, g \in Gen : task'[k][g] # "none" => recovered'
    BY DEF IInv, AfterRecovery, Moves, TaskMoves
  <2>3. QED
    BY <2>1, <2>2 DEF AfterRecovery
<1>5. SnapshotIsCompleted'
  <2> SUFFICES ASSUME NEW k \in Key, snap'[k] # 0
               PROVE  /\ snap'[k] <= job'[k].gen
                      /\ snap'[k] = job'[k].gen => job'[k].status = "completed"
    BY DEF SnapshotIsCompleted
  <2>1. snap[k] \in Nat /\ job[k].gen \in Nat
    BY <1>1, GenTypes DEF Typed
  <2>2. CASE snap'[k] = job[k].gen /\ job'[k] = [gen |-> job[k].gen, status |-> "completed"]
    BY <2>1, <2>2
  <2>3. CASE snap'[k] = snap[k]
    <3>1. snap[k] <= job[k].gen /\ (snap[k] = job[k].gen => job[k].status = "completed")
      BY <2>3 DEF IInv, SnapshotIsCompleted
    <3>2. QED
      BY <2>1, <2>3, <3>1 DEF Moves, JobMoves
  <2>4. QED
    BY <2>2, <2>3 DEF Moves, SnapMoves
<1>6. InterruptedHasNoTask'
  <2> SUFFICES ASSUME NEW k \in Key, job'[k].status = "interrupted"
               PROVE  task'[k][job'[k].gen] \notin AtWork
    BY DEF InterruptedHasNoTask
  <2>1. job'[k].gen = job[k].gen
    BY DEF Moves, JobMoves
  <2>2. CASE job[k].gen \notin Gen
    <3>1. job[k].status = "none"
      BY <1>1, <2>2, GenTypes DEF Typed, IInv, FirstJob
    <3>2. QED
      BY <2>1, <3>1 DEF Moves, JobMoves
  <2>3. CASE job[k].gen \in Gen
    <3>1. job'[k] # [gen |-> job[k].gen, status |-> "running"]
      OBVIOUS
    <3>2. task'[k][job[k].gen] \in AtWork => task[k][job[k].gen] \in AtWork
      BY <2>3, <3>1 DEF Moves, TaskMoves, AtWork
    <3>3. CASE job'[k] = job[k]
      BY <2>1, <3>2, <3>3 DEF IInv, InterruptedHasNoTask
    <3>4. CASE ~recovered
      BY <2>1, <2>3, <3>2, <3>4 DEF IInv, AfterRecovery, AtWork
    <3>5. QED
      BY <3>3, <3>4 DEF Moves, JobMoves
  <2>4. QED
    BY <2>2, <2>3
<1>7. FirstJob'
  <2> SUFFICES ASSUME NEW k \in Key, job'[k].gen = 0 PROVE job'[k].status = "none"
    BY DEF FirstJob
  <2>1. job[k] \in [gen : Gen0, status : Status]
    BY <1>1 DEF Typed
  <2>2. job[k].gen \in Nat /\ (job[k].gen = 0 => job[k].status = "none")
    BY <2>1, GenTypes DEF IInv, FirstJob
  <2>3. QED
    BY <2>2 DEF Moves, JobMoves
<1>8. QED
  BY <1>2, <1>3, <1>4, <1>5, <1>6, <1>7 DEF IInv, TypeOK

(* The end of the process leaves the rows alone, and nothing to hold.         *)
LEMMA EndInvariant ==
  ASSUME IInv, End
  PROVE  IInv'
<1>1. Typed'
  BY ProcessTyped DEF IInv, TypeOK
<1>2. UNCHANGED <<job, snap>> /\ task' = NoTasks /\ active' = NoErrors /\ errors' = NoErrors
  BY DEF End, rows
<1>3. \A a \in Actor : actor'[a] = NoActor
  BY DEF End
<1>4. Entered'
  BY <1>2 DEF Entered, NoTasks, NoErrors
<1>5. HoldInv' /\ AfterRecovery'
  <2>1. NoActor.pc = "idle"
    BY DEF NoActor
  <2>2. HoldInv'
    BY <1>3, <2>1 DEF HoldInv, HoldsTask
  <2>3. AfterRecovery'
    BY <1>2, <1>3, <2>1 DEF AfterRecovery, NoTasks, Recovered, Actor
  <2>4. QED
    BY <2>2, <2>3
<1>6. SnapshotIsCompleted' /\ FirstJob'
  BY <1>2 DEF IInv, SnapshotIsCompleted, FirstJob
<1>7. InterruptedHasNoTask'
  <2> SUFFICES ASSUME NEW k \in Key, job'[k].status = "interrupted"
               PROVE  task'[k][job'[k].gen] \notin AtWork
    BY DEF InterruptedHasNoTask
  <2>1. job[k].gen \in Gen
    <3>1. job[k] \in [gen : Gen0, status : Status]
      BY DEF IInv, TypeOK, Typed
    <3>2. QED
      BY <1>2, <3>1, GenTypes DEF IInv, FirstJob
  <2>2. QED
    BY <1>2, <2>1 DEF NoTasks, AtWork
<1>8. QED
  BY <1>1, <1>4, <1>5, <1>6, <1>7 DEF IInv, TypeOK

(* Every step keeps the invariant. *)
LEMMA NextInvariant == IInv /\ [Next]_vars => IInv'
<1> SUFFICES ASSUME IInv, [Next]_vars PROVE IInv'
  OBVIOUS
<1>1. TypeOK /\ Typed /\ HoldInv /\ AfterRecovery
  BY DEF IInv, TypeOK
<1>2. Typed'
  BY <1>1, NextTyped
<1>3. ASSUME NEW k \in Key, NEW g \in Gen, Background(k, g) PROVE IInv'
  BY <1>1, <1>2, <1>3, BackgroundMoves, BackgroundHolds, MovesInvariant
<1>4. ASSUME NEW a \in Actor, Coordinator(a) PROVE IInv'
  BY <1>1, <1>2, <1>4, CoordinatorMoves, CoordinatorHolds, MovesInvariant
<1>5. ASSUME NEW c \in Call,
             Begin(c) \/ Reap(c) \/ Recover(c) \/ Check(c) \/ Start(c) \/ Insert(c)
      PROVE  IInv'
  BY <1>1, <1>2, <1>5, CallMoves, CallHolds, MovesInvariant
<1>6. CASE (\E k \in Key : ClearCache(k)) \/ Drain \/ Open \/ UNCHANGED vars
  BY <1>1, <1>2, <1>6, ProcessMoves, ProcessHolds, MovesInvariant
<1>7. CASE End
  BY <1>7, EndInvariant
<1>8. QED
  BY <1>3, <1>4, <1>5, <1>6, <1>7 DEF Next, Quiet

(* The invariant of jobs, snapshots, tasks, maps and actors holds in every *)
(* reachable state.                                                        *)
THEOREM Invariance == Spec => []IInv
<1>1. Init => IInv
  BY InitInvariant
<1>2. IInv /\ [Next]_vars => IInv'
  BY NextInvariant
<1>3. QED
  BY <1>1, <1>2, PTL DEF Spec

(* Every reachable state is well typed, and every handle and every error in  *)
(* the coordinator's maps belongs to a task that was started.                *)
THEOREM TypeCorrect == Spec => []TypeOK
<1>1. IInv => TypeOK
  BY DEF IInv
<1>2. QED
  BY <1>1, Invariance, PTL

(* However calls, tasks, failures and restarts interleave, a snapshot is     *)
(* what its own job completed with (complete_b50_ranking and                 *)
(* complete_song_ranking, one transaction with complete_job_in_transaction). *)
THEOREM SnapshotIsCompletedHolds == Spec => []SnapshotIsCompleted
<1>1. IInv => SnapshotIsCompleted
  BY DEF IInv
<1>2. QED
  BY <1>1, Invariance, PTL

(* Recovery never interrupts a job whose task works in the same process: the *)
(* recovery cell comes before every start.                                   *)
THEOREM InterruptedHasNoTaskHolds == Spec => []InterruptedHasNoTask
<1>1. IInv => InterruptedHasNoTask
  BY DEF IInv
<1>2. QED
  BY <1>1, Invariance, PTL
-----------------------------------------------------------------------------
(* Who attends to a task: its handle is in the map, taken or about to enter, *)
(* or it was pushed out of a map.                                            *)
Mine(l, k, g) ==
  \/ <<k, g>> \in l.settle
  \/ l.pc = "insert" /\ l.key = k /\ l.gen = g
Held(k, g) == active[k] = g \/ <<k, g>> \in dropped \/ \E a \in Actor : Mine(actor[a], k, g)

(* An actor stores the failure of a task that panicked.                      *)
Joining(l, k, g) == l.pc \in {"joinRead", "joinFail"} /\ l.at = k /\ l.origin = g
Joined(k, g) == \E a \in Actor : Joining(actor[a], k, g)

(* What an actor knows stays true: only handles it still has to settle, and  *)
(* finished ones unless it shuts the service down; errors of jobs that were  *)
(* started; the job that failed is the one it read, or a later one; an error *)
(* is forgotten when its job is settled.                                     *)
ActorDuty(a) ==
  LET l == actor[a] IN
  /\ l.pc \in {"settle", "joinRead", "joinFail"} \/ l.settle = {}
  /\ a # Shutdown => \A k \in Key, g \in Gen : <<k, g>> \in l.settle => task[k][g] \in Finished
  /\ \A k \in Key : l.copy[k] <= job[k].gen
  /\ l.pc = "joinFail" => l.origin <= l.gen /\ l.gen <= job[l.at].gen
  /\ l.pc \in {"fail", "forget"} => l.origin <= job[l.at].gen
  /\ l.pc = "forget" => ~Running(l.at, l.origin)
  /\ l.pc = "insert" => a # Shutdown

DutyInv ==
  /\ \A a \in Actor : ActorDuty(a)
  /\ mode # "draining" => actor[Shutdown].pc = "idle"
  /\ \A k \in Key, g \in Gen :
       /\ task[k][g] = "ok" => ~Running(k, g)
       /\ task[k][g] \in AtWork => Held(k, g)
       /\ recovered /\ Running(k, g) => Held(k, g) \/ errors[k] = g \/ Joined(k, g)

-----------------------------------------------------------------------------
(* What a step leaves of that: a handle is given up only when its task ended *)
(* well or its failure is known, a failure only when it is stored.           *)
Kept ==
  /\ \A k \in Key, g \in Gen :
       /\ Held(k, g) => \/ (Held(k, g))'
                        \/ /\ task[k][g] \in Finished
                           /\ task[k][g] = "ok" \/ errors'[k] = g \/ (Joined(k, g))'
       /\ Joined(k, g) => (Joined(k, g))' \/ errors'[k] = g \/ ~(Running(k, g))'
       /\ errors[k] = g => errors'[k] = g \/ (Held(k, g))' \/ ~(Running(k, g))'
       /\ task[k][g] = "none" /\ task'[k][g] # "none" => (Held(k, g))'
       /\ (Running(k, g))' => (Running(k, g) /\ recovered = recovered') \/ (Held(k, g))'
       /\ task'[k][g] = "ok" => task[k][g] = "ok" \/ ~(Running(k, g))'
  /\ mode' # "draining" => actor'[Shutdown].pc = "idle"

(* A job that is settled or superseded never runs again.                     *)
LEMMA RunsOnce ==
  ASSUME Typed, Moves, NEW k \in Key, NEW g \in Gen0, g <= job[k].gen, ~Running(k, g)
  PROVE  g <= job'[k].gen /\ ~(Running(k, g))'
<1>1. job[k] \in [gen : Gen0, status : Status] /\ g \in Nat
  BY GenTypes DEF Typed
<1>2. job[k].gen \in Nat /\ job[k] = [gen |-> job[k].gen, status |-> job[k].status]
  BY <1>1, GenTypes
<1>3. \/ job'[k] = job[k]
      \/ job'[k].gen = job[k].gen /\ job'[k].status # "running"
      \/ job'[k].gen = job[k].gen + 1
  BY DEF Moves, JobMoves
<1>4. QED
  BY <1>1, <1>2, <1>3 DEF Running

(* The jobs' generations only grow.                                          *)
LEMMA GenerationsGrow ==
  ASSUME Typed, Moves, NEW k \in Key
  PROVE  job[k].gen \in Nat /\ job'[k].gen \in Nat /\ job[k].gen <= job'[k].gen
<1>1. job[k].gen \in Nat
  BY GenTypes DEF Typed
<1>2. QED
  BY <1>1 DEF Moves, JobMoves

(* An actor that does not move keeps what it knows.                          *)
LEMMA DutyStays ==
  ASSUME Typed, Moves, NEW a \in Actor, ActorDuty(a), actor'[a] = actor[a]
  PROVE  (ActorDuty(a))'
<1> DEFINE l == actor[a]
<1>1. l.at \in Key /\ l.gen \in Gen0 /\ l.origin \in Gen0 /\ l.copy \in [Key -> Gen0] /\ Gen0 \subseteq Nat
  BY GenTypes DEF Typed, Local
<1>2. a # Shutdown => \A k \in Key, g \in Gen : <<k, g>> \in l.settle => task'[k][g] \in Finished
  BY DEF ActorDuty, Moves, TaskMoves
<1>3. \A k \in Key : l.copy[k] <= job'[k].gen
  <2> SUFFICES ASSUME NEW k \in Key PROVE l.copy[k] <= job'[k].gen
    OBVIOUS
  <2>1. l.copy[k] \in Nat /\ l.copy[k] <= job[k].gen
    BY <1>1 DEF ActorDuty
  <2>2. QED
    BY <2>1, GenerationsGrow
<1>4. l.pc = "joinFail" => l.origin <= l.gen /\ l.gen <= job'[l.at].gen
  <2>1. PICK k \in Key : k = l.at
    BY <1>1
  <2>2. l.gen \in Nat /\ job[k].gen \in Nat /\ job'[k].gen \in Nat /\ job[k].gen <= job'[k].gen
    BY <1>1, GenerationsGrow
  <2>3. l.pc = "joinFail" => l.origin <= l.gen /\ l.gen <= job[k].gen
    BY <2>1 DEF ActorDuty
  <2>4. QED
    BY <2>1, <2>2, <2>3
<1>5. /\ l.pc \in {"fail", "forget"} => l.origin <= job'[l.at].gen
      /\ l.pc = "forget" => ~(Running(l.at, l.origin))'
  <2>1. PICK k \in Key, g \in Gen0 : k = l.at /\ g = l.origin
    BY <1>1
  <2>2. /\ l.pc \in {"fail", "forget"} => g <= job[k].gen
        /\ l.pc = "forget" => g <= job[k].gen /\ ~Running(k, g)
    BY <2>1 DEF ActorDuty
  <2>3. l.pc = "forget" => ~(Running(k, g))'
    BY <2>2, RunsOnce
  <2>4. g \in Nat /\ job[k].gen \in Nat /\ job'[k].gen \in Nat /\ job[k].gen <= job'[k].gen
    BY <1>1, GenerationsGrow
  <2>5. QED
    BY <2>1, <2>2, <2>3, <2>4 DEF Running
<1>6. QED
  BY <1>2, <1>3, <1>4, <1>5 DEF ActorDuty

(* A step that keeps what is held keeps the invariant.                       *)
LEMMA KeptDuty ==
  ASSUME Typed, Entered, Moves, DutyInv, Kept, \A a \in Actor : (ActorDuty(a))'
  PROVE  DutyInv'
<1>1. ASSUME NEW k \in Key, NEW g \in Gen
      PROVE  /\ task'[k][g] = "ok" => ~(Running(k, g))'
             /\ task'[k][g] \in AtWork => (Held(k, g))'
             /\ recovered' /\ (Running(k, g))' => (Held(k, g))' \/ errors'[k] = g \/ (Joined(k, g))'
  <2>1. g \in Gen0 /\ (task[k][g] # "none" => g <= job[k].gen)
    BY GenTypes DEF Entered
  <2>2. task[k][g] = "ok" => ~Running(k, g) /\ ~(Running(k, g))'
    BY <2>1, RunsOnce DEF DutyInv
  <2>3. task'[k][g] = "ok" => ~(Running(k, g))'
    BY <2>2 DEF Kept
  <2>4. task'[k][g] \in AtWork => (Held(k, g))'
    BY DEF Kept, DutyInv, Moves, TaskMoves, AtWork, Finished
  <2>5. recovered' /\ (Running(k, g))' => (Held(k, g))' \/ errors'[k] = g \/ (Joined(k, g))'
    BY <2>2 DEF Kept, DutyInv
  <2>6. QED
    BY <2>3, <2>4, <2>5
<1>2. QED
  BY <1>1 DEF DutyInv, Kept

-----------------------------------------------------------------------------
(* One actor steps: what it holds is all that can go.                        *)
LEMMA OneActorHolds ==
  ASSUME Typed, NEW a \in Actor, NEW l, Now(a, l), NEW k \in Key, NEW g \in Gen
  PROVE  /\ Mine(l, k, g) \/ active'[k] = g \/ <<k, g>> \in dropped' => (Held(k, g))'
         /\ Held(k, g) => \/ active[k] = g \/ <<k, g>> \in dropped
                          \/ Mine(actor[a], k, g)
                          \/ (Held(k, g))'
         /\ Joining(l, k, g) => (Joined(k, g))'
         /\ Joined(k, g) => Joining(actor[a], k, g) \/ (Joined(k, g))'
<1>1. \A b \in Actor : actor'[b] = IF b = a THEN l ELSE actor[b]
  BY DEF Now, Typed
<1>2. Mine(l, k, g) => \E b \in Actor : Mine(actor'[b], k, g)
  BY <1>1
<1>3. ASSUME NEW b \in Actor, Mine(actor[b], k, g)
      PROVE  Mine(actor[a], k, g) \/ \E c \in Actor : Mine(actor'[c], k, g)
  BY <1>1, <1>3
<1>4. Joining(l, k, g) => \E b \in Actor : Joining(actor'[b], k, g)
  BY <1>1
<1>5. ASSUME NEW b \in Actor, Joining(actor[b], k, g)
      PROVE  Joining(actor[a], k, g) \/ \E c \in Actor : Joining(actor'[c], k, g)
  BY <1>1, <1>5
<1>6. /\ (Held(k, g))' <=> active'[k] = g \/ <<k, g>> \in dropped' \/ \E b \in Actor : Mine(actor'[b], k, g)
      /\ (Joined(k, g))' <=> \E b \in Actor : Joining(actor'[b], k, g)
  BY DEF Held, Joined, Mine, Joining
<1>7. QED
  BY <1>2, <1>3, <1>4, <1>5, <1>6 DEF Held, Joined

(* What it holds is passed on, and what else the step gives up as well.      *)
LEMMA OneActorKeeps ==
  ASSUME Typed, DutyInv, NEW a \in Actor, NEW l, Now(a, l), dropped \subseteq dropped',
         \A k \in Key, g \in Gen :
           /\ active[k] = g => active'[k] = g \/ <<k, g>> \in dropped' \/ Mine(l, k, g)
           /\ Mine(actor[a], k, g) => \/ active'[k] = g \/ Mine(l, k, g)
                                      \/ /\ task[k][g] \in Finished
                                         /\ task[k][g] = "ok" \/ errors'[k] = g \/ Joining(l, k, g)
           /\ Joining(actor[a], k, g) => Joining(l, k, g) \/ errors'[k] = g \/ ~(Running(k, g))'
           /\ errors[k] = g => errors'[k] = g \/ <<k, g>> \in dropped' \/ ~(Running(k, g))'
           /\ task[k][g] = "none" /\ task'[k][g] # "none" => Mine(l, k, g)
           /\ (Running(k, g))' => (Running(k, g) /\ recovered = recovered') \/ Mine(l, k, g)
           /\ task'[k][g] = "ok" => task[k][g] = "ok",
         mode' = mode \/ (a = Shutdown /\ l.pc = "idle") \/ mode' = "draining",
         a = Shutdown => l.pc = "idle" \/ actor[a].pc # "idle" \/ mode' = "draining"
  PROVE  Kept
<1>1. ASSUME NEW k \in Key, NEW g \in Gen
      PROVE  /\ Held(k, g) => \/ (Held(k, g))'
                              \/ /\ task[k][g] \in Finished
                                 /\ task[k][g] = "ok" \/ errors'[k] = g \/ (Joined(k, g))'
             /\ Joined(k, g) => (Joined(k, g))' \/ errors'[k] = g \/ ~(Running(k, g))'
             /\ errors[k] = g => errors'[k] = g \/ (Held(k, g))' \/ ~(Running(k, g))'
             /\ Mine(l, k, g) => (Held(k, g))'
  BY OneActorHolds
<1>2. mode' # "draining" => actor'[Shutdown].pc = "idle"
  <2>1. Shutdown \in Actor /\ \A b \in Actor : actor'[b] = IF b = a THEN l ELSE actor[b]
    BY DEF Now, Typed, Actor
  <2>2. QED
    BY <2>1 DEF DutyInv
<1>3. QED
  BY <1>1, <1>2 DEF Kept

(* An actor that holds nothing goes on and leaves maps and tasks alone.      *)
LEMMA IdleKeeps ==
  ASSUME Typed, DutyInv, NEW a \in Actor, NEW l, Now(a, l), UNCHANGED <<task, maps, dropped>>,
         actor[a].pc \notin {"joinRead", "joinFail", "insert"}, actor[a].settle = {},
         \A k \in Key, g \in Gen : (Running(k, g))' => Running(k, g) /\ recovered = recovered',
         mode' = mode \/ (a = Shutdown /\ l.pc = "idle"),
         a = Shutdown => actor[a].pc # "idle"
  PROVE  Kept
<1>1. \A k \in Key, g \in Gen : ~Mine(actor[a], k, g) /\ ~Joining(actor[a], k, g)
  BY DEF Mine, Joining
<1>2. UNCHANGED <<task, active, errors, dropped>>
  BY DEF maps
<1>3. QED
  BY <1>1, <1>2, OneActorKeeps

(* What one actor is to know after its step.                                 *)
LEMMA OneActorDuty ==
  ASSUME Typed, Moves, \A b \in Actor : ActorDuty(b), NEW a \in Actor, NEW l, Now(a, l),
         l.pc \in {"settle", "joinRead", "joinFail"} \/ l.settle = {},
         a # Shutdown => \A k \in Key, g \in Gen : <<k, g>> \in l.settle => task'[k][g] \in Finished,
         \A k \in Key : l.copy[k] <= job'[k].gen,
         l.pc = "joinFail" => l.origin <= l.gen /\ l.gen <= job'[l.at].gen,
         l.pc \in {"fail", "forget"} => l.origin <= job'[l.at].gen,
         l.pc = "forget" => job'[l.at] # [gen |-> l.origin, status |-> "running"],
         l.pc = "insert" => a # Shutdown
  PROVE  \A b \in Actor : (ActorDuty(b))'
<1>1. \A b \in Actor : actor'[b] = IF b = a THEN l ELSE actor[b]
  BY DEF Now, Typed
<1>2. ASSUME NEW b \in Actor, b # a PROVE (ActorDuty(b))'
  BY <1>1, <1>2, DutyStays
<1>3. (ActorDuty(a))'
  <2>1. actor'[a] = l
    BY <1>1
  <2>2. QED
    BY <2>1 DEF ActorDuty, Running
<1>4. QED
  BY <1>2, <1>3

(* A step to an ordinary place: fewer handles to settle, fewer errors known. *)
LEMMA PlainDuty ==
  ASSUME Typed, Moves, \A b \in Actor : ActorDuty(b), NEW a \in Actor, NEW l, Now(a, l),
         l.pc \notin {"joinFail", "fail", "forget", "insert"},
         l.pc \in {"settle", "joinRead"} \/ l.settle = {}, l.settle \subseteq actor[a].settle,
         \A k \in Key : l.copy[k] \in {0, actor[a].copy[k]}
  PROVE  \A b \in Actor : (ActorDuty(b))'
<1>1. actor[a].copy \in [Key -> Gen0] /\ Gen0 \subseteq Nat
  BY GenTypes DEF Typed, Local
<1>2. \A k \in Key : l.copy[k] <= job'[k].gen
  <2> SUFFICES ASSUME NEW k \in Key PROVE l.copy[k] <= job'[k].gen
    OBVIOUS
  <2>1. actor[a].copy[k] \in Nat /\ actor[a].copy[k] <= job[k].gen
    BY <1>1 DEF ActorDuty
  <2>2. QED
    BY <2>1, GenerationsGrow
<1>3. a # Shutdown => \A k \in Key, g \in Gen : <<k, g>> \in l.settle => task'[k][g] \in Finished
  BY DEF ActorDuty, Moves, TaskMoves
<1>4. QED
  BY <1>2, <1>3, OneActorDuty

(* Leaving, going on and going back.                                         *)
LEMMA PlacesDuty ==
  ASSUME Typed, Moves, \A b \in Actor : ActorDuty(b), NEW a \in Actor
  PROVE  /\ Leave(a) => \A b \in Actor : (ActorDuty(b))'
         /\ \A pc \in Pc \ {"joinFail", "fail", "forget", "insert"}, failed \in BOOLEAN :
              /\ pc \in {"settle", "joinRead"} \/ actor[a].settle = {}
              /\ To(a, pc) \/ Back(a, pc, failed)
              => \A b \in Actor : (ActorDuty(b))'
<1>1. actor[a] \in Local
  BY DEF Typed
<1>2. NoActor.settle = {} /\ NoActor.pc = "idle" /\ \A k \in Key : NoActor.copy[k] = 0
  BY DEF NoActor, NoErrors
<1>3. Leave(a) => \A b \in Actor : (ActorDuty(b))'
  BY <1>2, PlainDuty DEF Leave
<1>4. ASSUME NEW pc \in Pc \ {"joinFail", "fail", "forget", "insert"}, NEW failed \in BOOLEAN,
             pc \in {"settle", "joinRead"} \/ actor[a].settle = {},
             To(a, pc) \/ Back(a, pc, failed)
      PROVE  \A b \in Actor : (ActorDuty(b))'
  <2>1. \E l : Now(a, l) /\ l.pc = pc /\ l.settle = actor[a].settle /\ l.copy = actor[a].copy
    <3> DEFINE m == [actor[a] EXCEPT !.pc = pc]
               n == [actor[a] EXCEPT !.pc = pc, !.gen = 0, !.origin = 0, !.failed = @ \/ failed]
    <3>1. m.pc = pc /\ m.settle = actor[a].settle /\ m.copy = actor[a].copy
      BY <1>1 DEF Local
    <3>2. n.pc = pc /\ n.settle = actor[a].settle /\ n.copy = actor[a].copy
      BY <1>1 DEF Local
    <3>3. Now(a, m) \/ Now(a, n)
      BY <1>4 DEF To, Back
    <3> HIDE DEF m, n
    <3>4. QED
      BY <3>1, <3>2, <3>3
  <2>2. QED
    BY <1>4, <2>1, PlainDuty
<1>5. QED
  BY <1>3, <1>4

-----------------------------------------------------------------------------
(* Every step keeps it.                                                      *)

(* A settled job does not run, and none starts to.                           *)
LEMMA SettledRuns ==
  ASSUME Typed, NEW k \in Key, NEW status \in {"completed", "failed"}, Settled(k, status)
  PROVE  \A j \in Key, g \in Gen0 : (Running(j, g))' => Running(j, g) /\ j # k
<1>1. job[k] \in [gen : Gen0, status : Status]
  BY DEF Typed
<1>2. job'[k].status = status /\ \A j \in Key \ {k} : job'[j] = job[j]
  BY <1>1 DEF Settled, Typed
<1>3. QED
  BY <1>2 DEF Running

(* A background task pushes at most another error out of its map, and ends   *)
(* well only when its job is settled.                                        *)
LEMMA BackgroundDuty ==
  ASSUME Typed, DutyInv, Moves, NEW k \in Key, NEW g \in Gen, Background(k, g)
  PROVE  Kept /\ \A b \in Actor : (ActorDuty(b))'
<1>1. UNCHANGED <<actor, active, mode, recovered>>
  BY DEF Background, Publish, WorkFails, StoreFailure, ReturnError, process, maps
<1>2. \A b \in Actor : (ActorDuty(b))'
  BY <1>1, DutyStays DEF DutyInv
<1>3. dropped \subseteq dropped' /\ \A j \in Key, h \in Gen :
        errors[j] = h => errors'[j] = h \/ <<j, h>> \in dropped'
  <2>1. CASE UNCHANGED <<errors, dropped>>
    BY <2>1
  <2>2. CASE Remember(k, g)
    <3>1. errors \in [Key -> Gen0] /\ g \in Gen0 /\ Displaces(errors, k, g) /\ errors' = [errors EXCEPT ![k] = g]
      BY <2>2, GenTypes DEF Typed, Remember
    <3>2. dropped \subseteq dropped' /\ \A h \in Gen : errors[k] = h => h = g \/ <<k, h>> \in dropped'
      BY <3>1, DisplacedTypes
    <3>3. QED
      BY <3>1, <3>2
  <2>3. QED
    BY <2>1, <2>2 DEF Background, Publish, WorkFails, StoreFailure, ReturnError, maps, history
<1>4. /\ \A j \in Key, h \in Gen : task'[j][h] = task[j][h] \/ (j = k /\ h = g)
      /\ task[k][g] # "none"
  BY DEF Background, Publish, WorkFails, StoreFailure, ReturnError, Task, Typed
<1>5. UNCHANGED job \/ \E status \in {"completed", "failed"} : Settled(k, status)
  BY DEF Background, Publish, WorkFails, StoreFailure, ReturnError, rows
<1>6. \A j \in Key, h \in Gen : (Running(j, h))' => Running(j, h)
  BY <1>5, SettledRuns, GenTypes DEF Running
<1>7. task'[k][g] = "ok" => ~(Running(k, g))'
  <2>1. task'[k][g] = "ok" => \E status \in {"completed", "failed"} : Settled(k, status)
    <3>1. ASSUME NEW ph \in {"failing", "leaving", "err", "panic"}, Task(k, g, ph) PROVE task'[k][g] # "ok"
      BY <3>1 DEF Task, Typed
    <3>2. QED
      BY <3>1 DEF Background, Publish, WorkFails, StoreFailure, ReturnError
  <2>2. QED
    BY <2>1, SettledRuns, GenTypes
<1>8. \A j \in Key, h \in Gen :
        /\ Held(j, h) \/ <<j, h>> \in dropped' => (Held(j, h))'
        /\ Joined(j, h) => (Joined(j, h))'
  BY <1>1, <1>3 DEF Held, Mine, Joined, Joining
<1>9. mode' # "draining" => actor'[Shutdown].pc = "idle"
  BY <1>1 DEF DutyInv
<1>10. QED
  BY <1>1, <1>2, <1>3, <1>4, <1>6, <1>7, <1>8, <1>9 DEF Kept

(* What a step of the process leaves alone stays.                            *)
LEMMA StillDuty ==
  ASSUME Typed, DutyInv, Moves, UNCHANGED <<job, task, maps, actor, dropped, recovered>>,
         mode' = mode \/ mode = "down"
  PROVE  Kept /\ \A b \in Actor : (ActorDuty(b))'
<1>1. \A b \in Actor : (ActorDuty(b))'
  BY DutyStays DEF DutyInv
<1>2. \A j \in Key, h \in Gen :
        /\ (Held(j, h))' <=> Held(j, h)
        /\ (Joined(j, h))' <=> Joined(j, h)
        /\ (Running(j, h))' <=> Running(j, h)
  BY DEF Held, Mine, Joined, Joining, Running, maps
<1>3. mode' # "draining" => actor'[Shutdown].pc = "idle"
  BY DEF DutyInv
<1>4. QED
  BY <1>1, <1>2, <1>3 DEF Kept, maps

(* Handles are taken out of the map into one actor's hands.                  *)
LEMMA TakeDuty ==
  ASSUME Typed, DutyInv, Moves, NEW a \in Actor, NEW keys \in SUBSET Key, Take(a, keys),
         actor[a].pc \in {"idle", "reap"},
         a # Shutdown => \A k \in keys : active[k] # 0 /\ task[k][active[k]] \in Finished,
         a = Shutdown => mode' = "draining", a # Shutdown => mode' = mode
  PROVE  Kept /\ \A b \in Actor : (ActorDuty(b))'
<1> DEFINE taken == {<<k, active[k]>> : k \in keys}
           l == [actor[a] EXCEPT !.pc = "settle", !.settle = taken]
<1>1. actor[a] \in Local
  BY DEF Typed
<1>2. l.pc = "settle" /\ l.settle = taken /\ l.copy = actor[a].copy
  BY <1>1 DEF Local
<1>3. Now(a, l) /\ UNCHANGED <<job, recovered, errors, task, dropped>>
  BY DEF Take, rows, history
<1>4. \A k \in Key : active'[k] = IF k \in keys THEN 0 ELSE active[k]
  BY DEF Take
<1> HIDE DEF l
<1>5. \A k \in Key, g \in Gen : ~Mine(actor[a], k, g) /\ ~Joining(actor[a], k, g)
  BY DEF DutyInv, ActorDuty, Mine, Joining
<1>6. Kept
  <2>1. \A k \in Key, g \in Gen : active[k] = g => active'[k] = g \/ Mine(l, k, g)
    BY <1>2, <1>4 DEF Mine
  <2>2. \A k \in Key, g \in Gen : (Running(k, g))' <=> Running(k, g)
    BY <1>3 DEF Running
  <2>3. QED
    BY <1>3, <1>5, <2>1, <2>2, OneActorKeeps
<1>7. \A b \in Actor : (ActorDuty(b))'
  <2>1. a # Shutdown => \A k \in Key, g \in Gen : <<k, g>> \in l.settle => task'[k][g] \in Finished
    BY <1>2, <1>3
  <2>2. \A k \in Key : l.copy[k] <= job'[k].gen
    BY <1>2, <1>3 DEF DutyInv, ActorDuty
  <2>3. QED
    BY <1>2, <1>3, <2>1, <2>2, OneActorDuty DEF DutyInv
<1>8. QED
  BY <1>6, <1>7

(* The coordinator settles what it took, stores failures or remembers them,  *)
(* and forgets only what is stored.                                          *)
LEMMA CoordinatorDuty ==
  ASSUME Typed, Entered, HoldInv, DutyInv, Moves, NEW a \in Actor, Coordinator(a)
  PROVE  Kept /\ \A b \in Actor : (ActorDuty(b))'
<1> DEFINE Goal == Kept /\ \A b \in Actor : (ActorDuty(b))'
<1>1. actor[a] \in Local /\ ActorDuty(a) /\ HoldsTask(a)
  BY DEF Typed, DutyInv, HoldInv
<1>2. /\ actor[a].at \in Key /\ actor[a].gen \in Gen0 /\ actor[a].origin \in Gen0
      /\ actor[a].copy \in [Key -> Gen0] /\ Gen0 \subseteq Nat /\ \A k \in Key : job[k].gen \in Nat
  BY <1>1, GenTypes DEF Local, Typed
<1>3. /\ Leave(a) => \A b \in Actor : (ActorDuty(b))'
      /\ \A pc \in Pc \ {"joinFail", "fail", "forget", "insert"} :
           /\ pc \in {"settle", "joinRead"} \/ actor[a].settle = {}
           /\ To(a, pc) \/ Resume(a, pc) \/ Failed(a, pc)
           => \A b \in Actor : (ActorDuty(b))'
  BY PlacesDuty DEF DutyInv, Resume, Failed
<1>4. \A j \in Key, h \in Gen : UNCHANGED job => ((Running(j, h))' <=> Running(j, h))
  BY DEF Running
<1>remembered. ASSUME NEW k \in Key, NEW g \in Gen0, Remember(k, g)
               PROVE  /\ dropped \subseteq dropped' /\ errors'[k] = g
                      /\ \A j \in Key, h \in Gen : errors[j] = h => errors'[j] = h \/ <<j, h>> \in dropped'
  <2>1. errors \in [Key -> Gen0] /\ errors' = [errors EXCEPT ![k] = g] /\ Displaces(errors, k, g)
    BY <1>remembered DEF Remember, Typed
  <2>2. dropped \subseteq dropped' /\ \A h \in Gen : errors[k] = h => h = g \/ <<k, h>> \in dropped'
    BY <2>1, DisplacedTypes
  <2>3. QED
    BY <2>1, <2>2
<1>settle. ASSUME NEW k \in Key, NEW g \in Gen, Settle(a, k, g)
           PROVE  Goal
  <2> DEFINE rest == [actor[a] EXCEPT !.settle = @ \ {<<k, g>>}]
             join == [rest EXCEPT !.pc = "joinRead", !.at = k, !.origin = g]
             l == IF task[k][g] = "panic" THEN join ELSE rest
  <2>1. /\ actor[a].pc = "settle" /\ <<k, g>> \in actor[a].settle /\ task[k][g] \in Finished
        /\ Now(a, l) /\ UNCHANGED <<job, task, active, mode, recovered>>
    BY <1>settle DEF Settle, At, rows, process
  <2>2. /\ l.settle = actor[a].settle \ {<<k, g>>} /\ l.copy = actor[a].copy
        /\ l.pc \in {"settle", "joinRead"}
        /\ task[k][g] = "panic" => Joining(l, k, g)
    BY <1>1, <2>1 DEF Local, Joining
  <2> HIDE DEF l
  <2>3. /\ dropped \subseteq dropped'
        /\ \A j \in Key, h \in Gen : errors[j] = h => errors'[j] = h \/ <<j, h>> \in dropped'
        /\ task[k][g] = "err" => errors'[k] = g
    <3>1. CASE Remember(k, g) /\ task[k][g] = "err"
      BY <1>remembered, <3>1, GenTypes
    <3>2. CASE UNCHANGED <<errors, dropped>> /\ task[k][g] # "err"
      BY <3>2
    <3>3. QED
      BY <1>settle, <3>1, <3>2 DEF Settle
  <2>4. \A j \in Key, h \in Gen :
          Mine(actor[a], j, h) => \/ Mine(l, j, h)
                                  \/ /\ task[j][h] \in Finished
                                     /\ task[j][h] = "ok" \/ errors'[j] = h \/ Joining(l, j, h)
    <3> SUFFICES ASSUME NEW j \in Key, NEW h \in Gen, Mine(actor[a], j, h), ~(j = k /\ h = g)
                 PROVE  Mine(l, j, h)
      BY <2>1, <2>2, <2>3 DEF Finished
    <3>1. QED
      BY <2>1, <2>2 DEF Mine
  <2>5. \A j \in Key, h \in Gen : ~Joining(actor[a], j, h)
    BY <2>1 DEF Joining
  <2>6. Kept
    BY <1>4, <2>1, <2>3, <2>4, <2>5, OneActorKeeps
  <2>7. QED
    BY <2>1, <2>2, <2>6, PlainDuty DEF DutyInv
<1>joined. ASSUME At(a, "joinRead") \/ At(a, "joinFail"), Resume(a, "settle") \/ Failed(a, "settle"),
                  UNCHANGED <<task, active, mode, recovered>>,
                  dropped \subseteq dropped',
                  \A j \in Key, h \in Gen : errors[j] = h => errors'[j] = h \/ <<j, h>> \in dropped',
                  \A j \in Key, h \in Gen : (Running(j, h))' => Running(j, h),
                  \A j \in Key, h \in Gen : Joining(actor[a], j, h) => errors'[j] = h \/ ~(Running(j, h))'
           PROVE  Goal
  <2>1. PICK l : Now(a, l) /\ l.pc = "settle" /\ l.settle = actor[a].settle
    <3> DEFINE m(failed) == [actor[a] EXCEPT !.pc = "settle", !.gen = 0, !.origin = 0, !.failed = @ \/ failed]
    <3>1. \A failed \in BOOLEAN : m(failed).pc = "settle" /\ m(failed).settle = actor[a].settle
      BY <1>1 DEF Local
    <3>2. \E failed \in BOOLEAN : Now(a, m(failed))
      BY <1>joined DEF Resume, Failed, Back
    <3> HIDE DEF m
    <3>3. QED
      BY <3>1, <3>2
  <2>2. \A j \in Key, h \in Gen : Mine(actor[a], j, h) => Mine(l, j, h)
    BY <1>joined, <2>1 DEF Mine, At
  <2>4. Kept
    BY <1>joined, <2>1, <2>2, OneActorKeeps DEF At
  <2>5. QED
    BY <1>3, <1>joined, <2>4 DEF Pc
<1>joinRead. CASE JoinRead(a)
  <2>1. At(a, "joinRead") /\ UNCHANGED <<job, task, active, mode, recovered>>
    BY <1>joinRead DEF JoinRead, rows, process
  <2>2. CASE /\ job[actor[a].at].status = "running" /\ UNCHANGED <<errors, dropped>>
             /\ Now(a, [actor[a] EXCEPT !.pc = "joinFail", !.gen = job[actor[a].at].gen])
    <3> DEFINE l == [actor[a] EXCEPT !.pc = "joinFail", !.gen = job[actor[a].at].gen]
    <3>1. /\ l.pc = "joinFail" /\ l.at = actor[a].at /\ l.origin = actor[a].origin
          /\ l.settle = actor[a].settle /\ l.copy = actor[a].copy /\ l.gen = job[actor[a].at].gen
      BY <1>1 DEF Local
    <3>2. Now(a, l)
      BY <2>2
    <3> HIDE DEF l
    <3>3. actor[a].origin \in Gen /\ task[actor[a].at][actor[a].origin] = "panic"
      BY <1>1, <1>2, <2>1, GenTypes DEF HoldsTask, At
    <3>4. actor[a].origin <= job[actor[a].at].gen
      BY <1>2, <3>3 DEF Entered
    <3>5. \A j \in Key, h \in Gen :
            /\ Mine(actor[a], j, h) => Mine(l, j, h)
            /\ Joining(actor[a], j, h) => Joining(l, j, h)
      BY <2>1, <3>1 DEF Mine, Joining, At
    <3>6. Kept
      BY <1>4, <2>1, <2>2, <3>1, <3>2, <3>5, OneActorKeeps DEF At
    <3>7. \A b \in Actor : (ActorDuty(b))'
      <4>1. l.gen <= job'[l.at].gen /\ l.origin <= l.gen
        BY <1>2, <2>1, <3>1, <3>4
      <4>2. \A k \in Key : l.copy[k] <= job'[k].gen
        BY <1>1, <2>1, <3>1 DEF ActorDuty
      <4>3. a # Shutdown => \A k \in Key, g \in Gen : <<k, g>> \in l.settle => task'[k][g] \in Finished
        BY <1>1, <2>1, <3>1 DEF ActorDuty
      <4>4. QED
        BY <3>1, <3>2, <4>1, <4>2, <4>3, OneActorDuty DEF DutyInv
    <3>8. QED
      BY <3>6, <3>7
  <2>3. CASE job[actor[a].at].status # "running" /\ UNCHANGED <<errors, dropped>> /\ Resume(a, "settle")
    <3>1. \A j \in Key, h \in Gen : Joining(actor[a], j, h) => ~(Running(j, h))'
      BY <2>1, <2>3 DEF Joining, Running
    <3>2. QED
      BY <1>4, <1>joined, <2>1, <2>3, <3>1
  <2>4. CASE Remember(actor[a].at, actor[a].origin) /\ Failed(a, "settle")
    <3>1. \A j \in Key, h \in Gen : Joining(actor[a], j, h) => errors'[j] = h
      BY <1>2, <1>remembered, <2>4 DEF Joining
    <3>2. QED
      BY <1>2, <1>4, <1>joined, <1>remembered, <2>1, <2>4, <3>1
  <2>5. QED
    BY <1>joinRead, <2>2, <2>3, <2>4 DEF JoinRead
<1>joinFail. CASE JoinFail(a)
  <2>1. At(a, "joinFail") /\ UNCHANGED <<task, active, mode, recovered>>
    BY <1>joinFail DEF JoinFail, process
  <2>2. CASE Settled(actor[a].at, "failed") /\ Resume(a, "settle") /\ UNCHANGED <<errors, dropped>>
    <3>1. \A j \in Key, h \in Gen0 : (Running(j, h))' => Running(j, h) /\ j # actor[a].at
      BY <1>2, <2>2, SettledRuns
    <3>2. \A j \in Key, h \in Gen : Joining(actor[a], j, h) => ~(Running(j, h))'
      BY <3>1, GenTypes DEF Joining
    <3>3. QED
      BY <1>joined, <2>1, <2>2, <3>1, <3>2, GenTypes
  <2>3. CASE /\ Remember(actor[a].at, actor[a].origin) /\ UNCHANGED job
             /\ Resume(a, "settle") \/ Failed(a, "settle")
    <3>1. \A j \in Key, h \in Gen : Joining(actor[a], j, h) => errors'[j] = h
      BY <1>2, <1>remembered, <2>3 DEF Joining
    <3>2. QED
      BY <1>2, <1>4, <1>joined, <1>remembered, <2>1, <2>3, <3>1
  <2>4. QED
    BY <1>joinFail, <2>2, <2>3 DEF JoinFail
<1>idle. ASSUME actor[a].settle = {}, actor[a].pc \notin {"idle", "joinRead", "joinFail", "insert"},
                NEW l, Now(a, l), UNCHANGED <<task, maps, dropped, recovered>>,
                \A j \in Key, h \in Gen : (Running(j, h))' => Running(j, h),
                mode' = mode \/ (a = Shutdown /\ l.pc = "idle")
         PROVE  Kept
  BY <1>idle, IdleKeeps
<1>reaped. CASE Reaped(a)
  <2>1. /\ actor[a].pc = "settle" /\ actor[a].settle = {}
        /\ UNCHANGED <<job, task, maps, dropped, recovered, mode>>
        /\ Leave(a) \/ \E pc \in {"copy", "recover"} : To(a, pc)
    BY <1>reaped DEF Reaped, At, Keep, rows, process
  <2>2. \E l : Now(a, l)
    BY <2>1 DEF Leave, To
  <2>3. Kept
    BY <1>4, <1>idle, <2>1, <2>2
  <2>4. QED
    BY <1>3, <2>1, <2>3 DEF Pc
<1>free. actor[a].pc \in {"copy", "retry", "fail", "forget"} => actor[a].settle = {}
  BY <1>1 DEF ActorDuty
<1>copy. CASE CopyErrors(a)
  <2> DEFINE l == [actor[a] EXCEPT !.pc = "retry", !.copy = errors]
  <2>1. /\ actor[a].pc = "copy" /\ actor[a].settle = {} /\ Now(a, l)
        /\ UNCHANGED <<job, task, maps, dropped, recovered, mode>>
    BY <1>copy, <1>free DEF CopyErrors, At, Keep, rows, process
  <2>2. l.pc = "retry" /\ l.settle = actor[a].settle /\ l.copy = errors
    BY <1>1 DEF Local
  <2> HIDE DEF l
  <2>3. Kept
    BY <1>4, <1>idle, <2>1
  <2>4. \A k \in Key : errors[k] <= job'[k].gen
    <3> SUFFICES ASSUME NEW k \in Key PROVE errors[k] <= job[k].gen
      BY <2>1
    <3>1. errors[k] \in Gen0
      BY DEF Typed
    <3>2. PICK g \in Gen0 : g = errors[k]
      BY <3>1
    <3>3. g # 0 => g \in Gen /\ task[k][g] # "none"
      BY <3>2, GenTypes DEF Entered, Finished
    <3>4. QED
      BY <1>2, <3>2, <3>3 DEF Entered
  <2>5. QED
    BY <2>1, <2>2, <2>3, <2>4, OneActorDuty DEF DutyInv
<1>retry. ASSUME NEW k \in Key, RetryRead(a, k)
          PROVE  Goal
  <2> DEFINE next == [actor[a] EXCEPT !.copy[k] = 0, !.at = k, !.origin = actor[a].copy[k]]
             fail == [next EXCEPT !.pc = "fail", !.gen = job[k].gen]
             forget == [next EXCEPT !.pc = "forget"]
             again == [actor[a] EXCEPT !.copy[k] = 0, !.failed = TRUE]
  <2>1. /\ actor[a].pc = "retry" /\ actor[a].settle = {}
        /\ UNCHANGED <<job, task, maps, dropped, recovered, mode>>
    BY <1>retry, <1>free DEF RetryRead, At, Keep, rows, process
  <2>2. /\ fail.pc = "fail" /\ forget.pc = "forget" /\ again.pc = "retry"
        /\ \A l \in {fail, forget, again} : l.settle = {} /\ \A j \in Key : l.copy[j] \in {0, actor[a].copy[j]}
        /\ \A l \in {fail, forget} : l.at = k /\ l.origin = actor[a].copy[k]
    BY <1>1, <1>2, <2>1 DEF Local
  <2>3. Now(a, fail) \/ (Now(a, forget) /\ job[k].status # "running") \/ Now(a, again)
    BY <1>retry DEF RetryRead
  <2> HIDE DEF fail, forget, again
  <2>4. Kept
    BY <1>4, <1>idle, <2>1, <2>3
  <2>5. actor[a].copy[k] <= job[k].gen /\ \A j \in Key : actor[a].copy[j] \in Nat /\ actor[a].copy[j] <= job[j].gen
    BY <1>1, <1>2 DEF ActorDuty
  <2>6. CASE Now(a, again)
    BY <2>1, <2>2, <2>4, <2>6, PlainDuty DEF DutyInv
  <2>7. ASSUME NEW l \in {fail, forget}, Now(a, l), l.pc = "forget" => job[k].status # "running"
        PROVE  Goal
    <3>1. l.pc \in {"fail", "forget"} /\ l.settle = {} /\ l.at = k /\ l.origin = actor[a].copy[k]
      BY <2>2
    <3>2. \A j \in Key : l.copy[j] <= job'[j].gen
      BY <1>2, <2>1, <2>2, <2>5
    <3>3. l.origin <= job'[l.at].gen
      BY <2>1, <2>5, <3>1
    <3>4. l.pc = "forget" => job'[l.at] # [gen |-> l.origin, status |-> "running"]
      BY <2>1, <2>7, <3>1
    <3>5. QED
      BY <2>4, <2>7, <3>1, <3>2, <3>3, <3>4, OneActorDuty DEF DutyInv
  <2>8. QED
    BY <2>2, <2>3, <2>6, <2>7
<1>retryFail. CASE RetryFail(a)
  <2>1. /\ actor[a].pc = "fail" /\ actor[a].settle = {}
        /\ UNCHANGED <<task, maps, dropped, recovered, mode>>
    BY <1>retryFail, <1>free DEF RetryFail, At, process
  <2>2. CASE UNCHANGED job /\ (Resume(a, "retry") \/ Failed(a, "retry"))
    <3>1. \E l : Now(a, l)
      BY <2>2 DEF Resume, Failed, Back
    <3>2. Kept
      BY <1>4, <1>idle, <2>1, <2>2, <3>1
    <3>3. QED
      BY <1>3, <2>1, <2>2, <3>2 DEF Pc
  <2>3. CASE Settled(actor[a].at, "failed") /\ To(a, "forget")
    <3> DEFINE l == [actor[a] EXCEPT !.pc = "forget"]
    <3>1. Now(a, l)
      BY <2>3 DEF To
    <3>2. /\ l.pc = "forget" /\ l.settle = {} /\ l.copy = actor[a].copy
          /\ l.at = actor[a].at /\ l.origin = actor[a].origin
      BY <1>1, <2>1 DEF Local
    <3> HIDE DEF l
    <3>3. \A j \in Key, h \in Gen0 : (Running(j, h))' => Running(j, h) /\ j # actor[a].at
      BY <1>2, <2>3, SettledRuns
    <3>4. Kept
      BY <1>idle, <2>1, <3>1, <3>3, GenTypes
    <3>5. \A k \in Key : job'[k].gen = job[k].gen
      BY <1>2, <2>3 DEF Settled, Typed
    <3>6. l.origin <= job'[l.at].gen /\ \A k \in Key : l.copy[k] <= job'[k].gen
      BY <1>1, <1>2, <2>1, <3>2, <3>5 DEF ActorDuty
    <3>7. job'[l.at] # [gen |-> l.origin, status |-> "running"]
      <4>1. PICK k \in Key, g \in Gen0 : k = actor[a].at /\ g = actor[a].origin
        BY <1>2
      <4>2. ~(Running(k, g))'
        BY <3>3, <4>1
      <4>3. QED
        BY <3>2, <4>1, <4>2 DEF Running
    <3>8. QED
      BY <3>1, <3>2, <3>4, <3>6, <3>7, OneActorDuty DEF DutyInv
  <2>4. QED
    BY <1>retryFail, <2>2, <2>3 DEF RetryFail
<1>forget. CASE Forget(a)
  <2> DEFINE m == [actor[a] EXCEPT !.pc = "retry", !.gen = 0, !.origin = 0, !.failed = @ \/ FALSE]
  <2>1. /\ actor[a].pc = "forget" /\ actor[a].settle = {} /\ Resume(a, "retry")
        /\ UNCHANGED <<job, task, active, recovered, mode>>
        /\ errors' = [errors EXCEPT ![actor[a].at] = 0] /\ Displaces(errors, actor[a].at, actor[a].origin)
    BY <1>forget, <1>free DEF Forget, At, rows, process
  <2>2. Now(a, m) /\ m.pc = "retry"
    BY <1>1, <2>1 DEF Resume, Back, Local
  <2> HIDE DEF m
  <2>3. PICK k \in Key, g \in Gen0 : k = actor[a].at /\ g = actor[a].origin
    BY <1>2
  <2>4. errors \in [Key -> Gen0] /\ ~Running(k, g)
    BY <1>1, <2>1, <2>3 DEF Typed, ActorDuty
  <2>5. dropped \subseteq dropped' /\ \A h \in Gen : errors[k] = h => h = g \/ <<k, h>> \in dropped'
    BY <2>1, <2>3, <2>4, DisplacedTypes
  <2>6. \A j \in Key, h \in Gen : errors[j] = h => errors'[j] = h \/ <<j, h>> \in dropped' \/ ~(Running(j, h))'
    BY <1>4, <2>1, <2>3, <2>4, <2>5
  <2>7. \A j \in Key, h \in Gen : ~Mine(actor[a], j, h) /\ ~Joining(actor[a], j, h)
    BY <2>1 DEF Mine, Joining
  <2>8. Kept
    BY <1>4, <2>1, <2>2, <2>5, <2>6, <2>7, OneActorKeeps
  <2>9. QED
    BY <1>3, <2>1, <2>8 DEF Pc
<1>initialized. CASE Initialized(a)
  <2>1. /\ actor[a].pc = "retry" /\ actor[a].settle = {}
        /\ UNCHANGED <<job, task, maps, dropped, recovered>>
        /\ \/ Leave(a) /\ (mode' = mode \/ a = Shutdown)
           \/ To(a, "check") /\ mode' = mode
    BY <1>initialized, <1>free DEF Initialized, At, rows, history
  <2>2. \E l : Now(a, l) /\ (mode' = mode \/ (a = Shutdown /\ l.pc = "idle"))
    BY <2>1 DEF Leave, To, NoActor
  <2>3. Kept
    BY <1>4, <1>idle, <2>1, <2>2
  <2>4. QED
    BY <1>3, <2>1, <2>3 DEF Pc
<1>q. QED
  BY <1>settle, <1>joinRead, <1>joinFail, <1>reaped, <1>copy, <1>retry, <1>retryFail,
     <1>forget, <1>initialized DEF Coordinator

(* A call takes finished handles, recovers when nothing can run yet, and     *)
(* enters the handle of what it started.                                     *)
LEMMA CallDuty ==
  ASSUME Typed, HoldInv, DutyInv, Moves, NEW c \in Call,
         Begin(c) \/ Reap(c) \/ Recover(c) \/ Check(c) \/ Start(c) \/ Insert(c)
  PROVE  Kept /\ \A b \in Actor : (ActorDuty(b))'
<1> DEFINE Goal == Kept /\ \A b \in Actor : (ActorDuty(b))'
<1>1. c \in Actor /\ c # Shutdown
  BY ShutdownAssumption DEF Actor
<1>2. actor[c] \in Local /\ ActorDuty(c) /\ HoldsTask(c)
  BY <1>1 DEF Typed, DutyInv, HoldInv
<1>3. actor[c].key \in Key /\ actor[c].gen \in Gen0 /\ Gen0 \subseteq Nat /\ \A k \in Key : job[k] \in [gen : Gen0, status : Status]
  BY <1>2, GenTypes DEF Local, Typed
<1>4. /\ Leave(c) => \A b \in Actor : (ActorDuty(b))'
      /\ \A pc \in Pc \ {"joinFail", "fail", "forget", "insert"} :
           actor[c].settle = {} /\ To(c, pc) => \A b \in Actor : (ActorDuty(b))'
  BY <1>1, PlacesDuty DEF DutyInv
<1>5. \A j \in Key, h \in Gen : UNCHANGED job => ((Running(j, h))' <=> Running(j, h))
  BY DEF Running
<1>6. actor[c].pc \notin {"settle", "joinRead", "joinFail"} => actor[c].settle = {}
  BY <1>2 DEF ActorDuty
<1>idle. ASSUME actor[c].settle = {}, actor[c].pc \notin {"joinRead", "joinFail", "insert"},
                Leave(c) \/ \E pc \in Pc : To(c, pc), UNCHANGED <<task, maps, dropped, mode>>,
                \A j \in Key, h \in Gen : (Running(j, h))' => Running(j, h) /\ recovered = recovered'
         PROVE  Kept
  <2>1. \E l : Now(c, l)
    BY <1>idle DEF Leave, To
  <2>2. QED
    BY <1>1, <1>idle, <2>1, IdleKeeps
<1>begin. CASE Begin(c)
  <2>1. PICK kind \in {"status", "ensure"}, k \in Key :
          Now(c, [NoActor EXCEPT !.pc = "reap", !.kind = kind, !.key = k])
    BY <1>begin DEF Begin
  <2> DEFINE l == [NoActor EXCEPT !.pc = "reap", !.kind = kind, !.key = k]
  <2>2. l.pc = "reap" /\ l.settle = {} /\ \A j \in Key : l.copy[j] = 0
    BY DEF NoActor, NoErrors
  <2>3. Now(c, l)
    BY <2>1
  <2> HIDE DEF l
  <2>4. actor[c].pc = "idle" /\ UNCHANGED <<job, task, maps, dropped, mode, recovered>>
    BY <1>begin DEF Begin, At, rows, process, history
  <2>5. Kept
    BY <1>1, <1>5, <1>6, <2>3, <2>4, IdleKeeps
  <2>6. QED
    BY <1>1, <2>2, <2>3, <2>5, PlainDuty DEF DutyInv
<1>reap. CASE Reap(c)
  <2> DEFINE keys == {k \in Key : active[k] # 0 /\ task[k][active[k]] \in Finished}
  <2>1. keys \in SUBSET Key /\ Take(c, keys) /\ \A k \in keys : active[k] # 0 /\ task[k][active[k]] \in Finished
    BY <1>reap DEF Reap
  <2>2. actor[c].pc = "reap" /\ mode' = mode
    BY <1>reap DEF Reap, At
  <2> HIDE DEF keys
  <2>3. QED
    BY <1>1, <2>1, <2>2, TakeDuty
<1>recover. CASE Recover(c)
  <2>1. /\ actor[c].pc = "recover" /\ UNCHANGED <<task, maps, dropped, mode>>
        /\ Leave(c) \/ To(c, "copy")
    BY <1>recover DEF Recover, At
  <2>2. \A j \in Key, h \in Gen : (Running(j, h))' => Running(j, h) /\ recovered = recovered'
    <3>1. CASE UNCHANGED <<job, recovered>>
      BY <1>5, <3>1
    <3>2. CASE job' = [k \in Key |-> IF job[k].status = "running"
                                     THEN [job[k] EXCEPT !.status = "interrupted"] ELSE job[k]]
      <4>1. \A j \in Key : job'[j].status # "running"
        BY <1>3, <3>2
      <4>2. QED
        BY <4>1 DEF Running
    <3>3. QED
      BY <1>recover, <3>1, <3>2 DEF Recover
  <2>3. "copy" \in Pc \ {"joinFail", "fail", "forget", "insert"}
    BY DEF Pc
  <2>4. Kept
    BY <1>6, <1>idle, <2>1, <2>2, <2>3
  <2>5. QED
    BY <1>4, <1>6, <2>1, <2>3, <2>4
<1>check. CASE Check(c)
  <2>1. /\ actor[c].pc = "check" /\ UNCHANGED <<job, task, maps, dropped, mode, recovered>>
        /\ Leave(c) \/ To(c, "start")
    BY <1>check DEF Check, At, Keep, rows, process
  <2>2. "start" \in Pc \ {"joinFail", "fail", "forget", "insert"}
    BY DEF Pc
  <2>3. Kept
    BY <1>5, <1>6, <1>idle, <2>1, <2>2
  <2>4. QED
    BY <1>4, <1>6, <2>1, <2>2, <2>3
<1>start. CASE Start(c)
  <2> DEFINE k == actor[c].key  g == job[k].gen + 1  l == [actor[c] EXCEPT !.pc = "insert", !.gen = g]
  <2>1. actor[c].pc = "start" /\ actor[c].settle = {} /\ UNCHANGED <<maps, dropped, mode, recovered>>
    BY <1>6, <1>start DEF Start, At, process
  <2>2. CASE Leave(c) /\ UNCHANGED <<job, task>>
    BY <1>4, <1>5, <1>idle, <2>1, <2>2
  <2>3. CASE /\ job' = [job EXCEPT ![k] = [gen |-> g, status |-> "running"]]
             /\ Task(k, g, "work") /\ Now(c, l)
    <3>1. /\ l.pc = "insert" /\ l.key = k /\ l.gen = g /\ l.settle = {} /\ l.copy = actor[c].copy
      BY <1>2, <2>1 DEF Local
    <3>2. \A j \in Key, h \in Gen : (Running(j, h))' => Running(j, h) \/ Mine(l, j, h)
      <4> SUFFICES ASSUME NEW j \in Key, NEW h \in Gen, (Running(j, h))', j = k PROVE Mine(l, j, h)
        BY <2>3 DEF Running
      <4>1. job'[k] = [gen |-> g, status |-> "running"]
        BY <1>3, <2>3 DEF Typed
      <4>2. h = g
        BY <4>1 DEF Running
      <4>3. QED
        BY <3>1, <4>2 DEF Mine
    <3>3. \A j \in Key, h \in Gen : task'[j][h] = task[j][h] \/ (task'[j][h] = "work" /\ Mine(l, j, h))
      BY <1>3, <2>3, <3>1 DEF Task, Typed, Mine
    <3>4. \A j \in Key, h \in Gen : ~Mine(actor[c], j, h) /\ ~Joining(actor[c], j, h)
      BY <2>1 DEF Mine, Joining
    <3>5. UNCHANGED <<active, errors>> /\ Now(c, l)
      BY <2>1, <2>3 DEF maps
    <3> HIDE DEF l, g, k
    <3>6. Kept
      BY <1>1, <2>1, <3>2, <3>3, <3>4, <3>5, OneActorKeeps
    <3>7. \A j \in Key : l.copy[j] <= job'[j].gen
      <4> SUFFICES ASSUME NEW j \in Key PROVE actor[c].copy[j] <= job'[j].gen
        BY <3>1
      <4>1. actor[c].copy[j] \in Nat /\ actor[c].copy[j] <= job[j].gen
        BY <1>2, <1>3 DEF ActorDuty, Local
      <4>2. QED
        BY <4>1, GenerationsGrow
    <3>8. QED
      BY <1>1, <3>1, <3>5, <3>6, <3>7, OneActorDuty DEF DutyInv
  <2>4. QED
    BY <1>start, <2>2, <2>3 DEF Start
<1>insert. CASE Insert(c)
  <2>1. PICK k \in Key, g \in Gen0 : k = actor[c].key /\ g = actor[c].gen
    BY <1>3
  <2>2. /\ actor[c].pc = "insert" /\ UNCHANGED <<job, task, errors, mode, recovered>> /\ Leave(c)
        /\ active' = [active EXCEPT ![k] = g] /\ Displaces(active, k, g)
    BY <1>insert, <2>1 DEF Insert, At, rows, process
  <2>3. Now(c, NoActor) /\ active \in [Key -> Gen0]
    BY <2>2 DEF Leave, Typed
  <2>4. dropped \subseteq dropped' /\ \A h \in Gen : active[k] = h => h = g \/ <<k, h>> \in dropped'
    BY <2>2, <2>3, DisplacedTypes
  <2>5. \A j \in Key, h \in Gen : /\ active[j] = h => active'[j] = h \/ <<j, h>> \in dropped'
                                  /\ Mine(actor[c], j, h) => active'[j] = h
                                  /\ ~Joining(actor[c], j, h)
    <3>1. active'[k] = g /\ \A j \in Key \ {k} : active'[j] = active[j]
      BY <2>2, <2>3
    <3>2. \A j \in Key, h \in Gen : Mine(actor[c], j, h) => j = k /\ h = g
      BY <1>6, <2>1, <2>2 DEF Mine
    <3>3. QED
      BY <2>2, <2>4, <3>1, <3>2 DEF Joining
  <2>6. Kept
    BY <1>1, <1>5, <2>2, <2>3, <2>4, <2>5, OneActorKeeps
  <2>7. QED
    BY <1>4, <2>2, <2>6
<1>q. QED
  BY <1>begin, <1>reap, <1>recover, <1>check, <1>start, <1>insert

(* Every step of the process keeps it.                                       *)
LEMMA NextDutyInv ==
  ASSUME IInv, IInv', DutyInv, [Next]_vars
  PROVE  DutyInv'
<1>1. Typed /\ Entered /\ TypeOK /\ HoldInv /\ AfterRecovery /\ Typed'
  BY DEF IInv, TypeOK
<1>2. ASSUME Moves, Kept /\ \A b \in Actor : (ActorDuty(b))'
      PROVE  DutyInv'
  BY <1>1, <1>2, KeptDuty
<1>3. ASSUME NEW k \in Key, NEW g \in Gen, Background(k, g) PROVE DutyInv'
  BY <1>1, <1>2, <1>3, BackgroundMoves, BackgroundDuty
<1>4. ASSUME NEW a \in Actor, Coordinator(a) PROVE DutyInv'
  BY <1>1, <1>2, <1>4, CoordinatorMoves, CoordinatorDuty
<1>5. ASSUME NEW c \in Call,
             Begin(c) \/ Reap(c) \/ Recover(c) \/ Check(c) \/ Start(c) \/ Insert(c)
      PROVE  DutyInv'
  BY <1>1, <1>2, <1>5, CallMoves, CallDuty
<1>6. CASE (\E k \in Key : ClearCache(k)) \/ Open \/ UNCHANGED vars
  <2>1. UNCHANGED <<job, task, maps, actor, dropped, recovered>> /\ (mode' = mode \/ mode = "down")
    BY <1>6 DEF ClearCache, Open, vars, rows, process, history
  <2>2. QED
    BY <1>1, <1>2, <1>6, <2>1, ProcessMoves, StillDuty
<1>7. CASE Drain
  <2> DEFINE keys == {k \in Key : active[k] # 0}
  <2>1. /\ keys \in SUBSET Key /\ Take(Shutdown, keys) /\ mode' = "draining"
        /\ mode = "serving" /\ Shutdown \in Actor
    BY <1>7 DEF Drain, Actor
  <2>2. actor[Shutdown].pc = "idle"
    BY <2>1 DEF DutyInv
  <2> HIDE DEF keys
  <2>3. QED
    BY <1>1, <1>2, <1>7, <2>1, <2>2, ProcessMoves, TakeDuty
<1>8. CASE End
  <2>1. /\ \A a \in Actor : actor'[a] = NoActor
        /\ task' = NoTasks /\ recovered' = FALSE /\ Shutdown \in Actor
    BY <1>8 DEF End, Actor
  <2>2. NoActor.pc = "idle" /\ NoActor.settle = {} /\ \A k \in Key : NoActor.copy[k] = 0
    BY DEF NoActor, NoErrors
  <2>3. \A k \in Key : 0 <= job'[k].gen
    <3>1. job' \in [Key -> [gen : Gen0, status : Status]]
      BY <1>1 DEF Typed
    <3>2. \A k \in Key : job'[k].gen \in Gen0
      BY <3>1
    <3>3. \A n \in Gen0 : 0 <= n
      BY GenTypes
    <3>4. QED
      BY <3>2, <3>3
  <2>4. \A a \in Actor : (ActorDuty(a))'
    BY <2>1, <2>2, <2>3 DEF ActorDuty
  <2>5. \A k \in Key, g \in Gen : task'[k][g] = "none"
    BY <2>1 DEF NoTasks
  <2>6. QED
    BY <2>1, <2>2, <2>4, <2>5 DEF DutyInv, AtWork
<1>9. QED
  BY <1>3, <1>4, <1>5, <1>6, <1>7, <1>8 DEF Next, Quiet

(* Who attends to what, in every reachable state.                            *)
THEOREM DutyInvariant == Spec => []DutyInv
<1>1. Init => DutyInv
  <2> SUFFICES ASSUME Init PROVE DutyInv
    OBVIOUS
  <2>1. Typed /\ Shutdown \in Actor
    BY InitInvariant DEF IInv, TypeOK, Actor
  <2>2. NoActor.pc = "idle" /\ NoActor.settle = {} /\ \A k \in Key : NoActor.copy[k] = 0
    BY DEF NoActor, NoErrors
  <2>3. \A a \in Actor : ActorDuty(a)
    BY <2>1, <2>2, GenTypes DEF Init, ActorDuty, Typed
  <2>4. \A k \in Key, g \in Gen : task[k][g] = "none"
    BY DEF Init, NoTasks
  <2>5. QED
    BY <2>1, <2>2, <2>3, <2>4 DEF Init, DutyInv, AtWork
<1>2. QED
  BY <1>1, NextDutyInv, Invariance, PTL DEF Spec

(* Once the process has recovered, no running job is forgotten: its task is  *)
(* at work, its handle or its error waits, or was pushed out of a map by     *)
(* another one of the same key (settle_task, retry_terminal_error).          *)
THEOREM RunningJobAttendedHolds == Spec => []RunningJobAttended
<1>1. IInv /\ DutyInv => RunningJobAttended
  <2> SUFFICES ASSUME IInv, DutyInv, recovered, NEW k \in Key, job[k].status = "running"
               PROVE  LET g == job[k].gen IN
                      \/ task[k][g] \in AtWork \/ active[k] = g \/ errors[k] # 0 \/ InHand(k, g)
                      \/ <<k, g>> \in dropped
    BY DEF RunningJobAttended
  <2>1. job[k] \in [gen : Gen0, status : Status]
    BY DEF IInv, TypeOK, Typed
  <2>2. PICK g \in Gen0 : g = job[k].gen
    BY <2>1
  <2>3. g \in Gen /\ Running(k, g)
    BY <2>1, <2>2, GenTypes DEF IInv, FirstJob, Running
  <2>4. g # 0 /\ (Held(k, g) \/ errors[k] = g \/ Joined(k, g))
    BY <2>3, GenTypes DEF DutyInv
  <2>5. QED
    BY <2>2, <2>4 DEF Held, Joined, Mine, Joining, InHand
<1>2. QED
  BY <1>1, Invariance, DutyInvariant, PTL

(* When shutdown closes the store, it has waited for every task that was in  *)
(* the map when it drained it.                                               *)
THEOREM ShutdownDrainsHolds == Spec => []ShutdownDrains
<1>1. DutyInv => ShutdownDrains
  <2> SUFFICES ASSUME DutyInv, mode = "closed", NEW k \in Key, NEW g \in Gen, task[k][g] \in AtWork
               PROVE  \/ active[k] = g \/ <<k, g>> \in dropped
                      \/ \E c \in Call : At(c, "insert") /\ actor[c].gen = g
    BY DEF ShutdownDrains
  <2>1. Held(k, g) /\ task[k][g] \notin Finished
    BY DEF DutyInv, AtWork, Finished
  <2>2. ASSUME NEW a \in Actor, Mine(actor[a], k, g)
        PROVE  a \in Call /\ At(a, "insert") /\ actor[a].gen = g
    <3>1. ActorDuty(a)
      BY DEF DutyInv
    <3>2. a = Shutdown => actor[a].settle = {}
      BY <3>1 DEF DutyInv, ActorDuty
    <3>3. <<k, g>> \notin actor[a].settle
      BY <2>1, <3>1, <3>2 DEF ActorDuty
    <3>4. QED
      BY <2>2, <3>1, <3>3 DEF Mine, ActorDuty, At, Actor
  <2>3. QED
    BY <2>1, <2>2 DEF Held
<1>2. QED
  BY <1>1, DutyInvariant, PTL

=============================================================================
