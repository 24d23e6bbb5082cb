------------------------------ MODULE IdentityJobs ------------------------------
(***************************************************************************)
(* The refresh of the QQ identity directory: one job row, one snapshot and *)
(* one shared flight.  A tool call starts a background job, or refreshes   *)
(* directly and leads a flight that later calls follow; every call first   *)
(* recovers, reaps a finished flight and retries a terminal state that     *)
(* could not be stored.                                                    *)
(*                                                                         *)
(* refresh_state is a mutex held for single steps, save by a call that     *)
(* starts a job: it keeps it from its look at the cache to the spawn.      *)
(***************************************************************************)
EXTENDS Naturals

CONSTANTS
  Call,        \* concurrent tool calls
  Requests,    \* what each of them may ask for
  Shutdown,    \* the actor that stops the service
  MaxFlights,  \* bound: flights of one process
  MaxGen,      \* bound: jobs
  MaxDay,      \* bound: daily resets
  MaxFaults    \* bound: statements that fail and flights that panic

ASSUME ShutdownAssumption == Shutdown \notin Call
ASSUME BoundsAssumption == {MaxFlights, MaxFaults} \subseteq Nat /\ {MaxGen, MaxDay} \subseteq Nat \ {0}

VARIABLES
  row,        \* identity_refresh_job: generation and status
  snap,       \* identity_metadata.fetched_at: a day, 0 before the first snapshot
  day,        \* the resets that have passed
  mode,       \* the process: serving, draining, closed (the store), down
  recovered,  \* RefreshState.recovered
  active,     \* RefreshState.active: a flight, 0 for none
  pending,    \* RefreshState.pending_terminal
  flight,     \* the refresh tasks
  actor,      \* tool calls and shutdown
  faults      \* how many there have been

process == <<mode, recovered>>
shared  == <<active, pending>>
vars    == <<row, snap, day, process, shared, flight, actor, faults>>

-----------------------------------------------------------------------------
(* Values.                                                                 *)

Flight  == 1..MaxFlights
Flight0 == 0..MaxFlights
Gen0    == 0..MaxGen
Day0    == 0..MaxDay
Actor   == Call \cup {Shutdown}
Status  == {"none", "running", "completed", "failed", "interrupted"}
Result  == {"ok", "failed"}

(* PendingTerminalWrite: what a job is to be settled as; no job, nothing.  *)
Terminal == [gen : Gen0, to : {"completed", "failed"}]
Nothing  == [gen |-> 0, to |-> "failed"]
Fail(g)  == [gen |-> g, to |-> "failed"]

(* A flight of generation 0 is a direct refresh.  In "leave" its outcome   *)
(* is sent, known to those who wait for it, and the task about to end.     *)
AtWork   == {"spawned", "work", "terminal", "record"}
Finished == {"ok", "err", "panic"}
Task     == [pc : {"none", "leave"} \cup AtWork \cup Finished, gen : Gen0, fetched : Day0,
             result : Result, err : BOOLEAN]
NoTask   == [pc |-> "none", gen |-> 0, fetched |-> 0, result |-> "failed", err |-> FALSE]

Pc == {"idle", "recover", "reap", "look", "fail", "record", "retry", "persist", "putBack",
       "start", "insert", "board", "wait", "reapOwn", "join", "told", "drain", "check"}
Op == {"status", "refresh", "force", "ifStale"}
ASSUME RequestsAssumption == Requests \in [Call -> SUBSET Op]

(* What an actor knows: its request and the time it needs, the flight it   *)
(* waits for or has taken, and the terminal state in its hand.             *)
Local   == [pc : Pc, op : Op, at : Day0, on : Flight0, lead : BOOLEAN, hand : Terminal]
NoActor == [pc |-> "idle", op |-> "status", at |-> 0, on |-> 0, lead |-> FALSE,
            hand |-> Nothing]

(* The row's generation counts the jobs; a flight has one only if it runs  *)
(* a job that was started; who waits, waits for a flight.                  *)
TypeOK ==
  /\ row \in [gen : Gen0, status : Status] /\ snap \in Day0 /\ day \in 1..MaxDay
  /\ mode \in {"serving", "draining", "closed", "down"} /\ recovered \in BOOLEAN
  /\ active \in Flight0 /\ pending \in Terminal
  /\ flight \in [Flight -> Task] /\ actor \in [Actor -> Local]
  /\ faults \in 0..MaxFaults
  /\ active # 0 => flight[active].pc # "none"
  /\ \A f \in Flight : flight[f].gen <= row.gen
  /\ \A a \in Actor : actor[a].pc \in {"wait", "join", "drain"} => flight[actor[a].on].pc # "none"

(* The database is new, or a killed process left it with a running job.    *)
Init ==
  /\ row \in {[gen |-> 0, status |-> "none"], [gen |-> 1, status |-> "running"]}
  /\ snap = 0 /\ day = 1
  /\ mode = "serving" /\ recovered = FALSE
  /\ active = 0 /\ pending = Nothing
  /\ flight = [f \in Flight |-> NoTask] /\ actor = [a \in Actor |-> NoActor]
  /\ faults = 0

(* A statement is carried out, or fails: by chance, or since the store is  *)
(* closed.                                                                 *)
Fine == mode # "closed" /\ UNCHANGED faults
Fault ==
  \/ mode = "closed" /\ UNCHANGED faults
  \/ mode # "closed" /\ faults < MaxFaults /\ faults' = faults + 1

At(a, pc)     == actor[a].pc = pc
Now(a, local) == actor' = [actor EXCEPT ![a] = local]
To(a, pc)     == Now(a, [actor[a] EXCEPT !.pc = pc])
Leave(a)      == Now(a, NoActor)
LockFree      == \A c \in Call : ~At(c, "insert")
Fly(f, task)  == flight' = [flight EXCEPT ![f] = task]

(* complete_identity_job, fail_identity_job and what persist_terminal      *)
(* makes of a statement that matched no row.                               *)
Running(g)   == row = [gen |-> g, status |-> "running"]
Landed(t)    == Fine /\ Running(t.gen) /\ row' = [row EXCEPT !.status = t.to]
NotLanded(t) == (Fault \/ (Fine /\ ~Running(t.gen))) /\ UNCHANGED row

-----------------------------------------------------------------------------
(* The task of a flight.                                                   *)

Departs(f) == flight[f].pc = "none" /\ \A g \in Flight : g < f => flight[g].pc # "none"
Sent(t)    == t.pc = "leave" \/ t.pc \in Finished
Outcome(t) == IF t.pc = "panic" THEN "failed" ELSE t.result

TaskOnly == UNCHANGED <<day, process, actor>>

(* run_background_refresh takes its time when it is first polled.          *)
SetOff(f) ==
  /\ flight[f].pc = "spawned"
  /\ Fly(f, [flight[f] EXCEPT !.pc = "work", !.fetched = day])
  /\ TaskOnly /\ UNCHANGED <<row, snap, shared, faults>>

(* perform_refresh: friends and groups are fetched, then the snapshot is   *)
(* replaced in one transaction; any call or statement of it may fail, and  *)
(* the task may panic.                                                     *)
Work(f) ==
  LET t == flight[f]
      Go(pc, result) == Fly(f, [t EXCEPT !.pc = pc, !.result = result, !.fetched = 0])
      then == IF t.gen = 0 THEN "leave" ELSE "terminal" IN
  /\ t.pc = "work"
  /\ \/ Fine /\ snap' = t.fetched /\ Go(then, "ok")
     \/ UNCHANGED <<snap, faults>> /\ Go(then, "failed")
     \/ mode # "closed" /\ Fault /\ UNCHANGED snap /\ Go("panic", "failed")
  /\ TaskOnly /\ UNCHANGED <<row, shared>>

TerminalOf(t) == [gen |-> t.gen, to |-> IF t.result = "ok" THEN "completed" ELSE "failed"]

Settle(f) ==
  LET t == flight[f] IN
  /\ t.pc = "terminal"
  /\ \/ Landed(TerminalOf(t)) /\ Fly(f, [t EXCEPT !.pc = "leave"])
     \/ NotLanded(TerminalOf(t)) /\ Fly(f, [t EXCEPT !.pc = "record"])
  /\ TaskOnly /\ UNCHANGED <<snap, shared>>

(* Mutant: what could not be stored is only reported.                      *)
RecordNothing(f) ==
  LET t == flight[f] IN
  /\ t.pc = "record" /\ LockFree
  /\ Fly(f, [t EXCEPT !.pc = "leave", !.result = "failed", !.err = TRUE])
  /\ TaskOnly /\ UNCHANGED <<row, snap, shared, faults>>

(* What could not be stored is recorded, and those who wait hear of a      *)
(* failure even if the snapshot is there.                                  *)
RecordTerminal(f) ==
  LET t == flight[f] IN
  /\ t.pc = "record" /\ LockFree
  /\ pending' = TerminalOf(t)
  /\ Fly(f, [t EXCEPT !.pc = "leave", !.result = "failed", !.err = TRUE])
  /\ TaskOnly /\ UNCHANGED <<row, snap, active, faults>>

Return(f) ==
  /\ flight[f].pc = "leave"
  /\ Fly(f, [flight[f] EXCEPT !.pc = IF flight[f].err THEN "err" ELSE "ok"])
  /\ TaskOnly /\ UNCHANGED <<row, snap, shared, faults>>

-----------------------------------------------------------------------------
(* initialize_identity_jobs, which every call runs first, and shutdown,    *)
(* which takes the same steps.                                             *)

CallOnly == UNCHANGED <<snap, day, mode, flight>>

Begin(c) ==
  /\ At(c, "idle") /\ mode = "serving"
  /\ \E op \in Requests[c] :
       Now(c, [NoActor EXCEPT !.pc = "recover", !.op = op,
                              !.at = IF op \in {"refresh", "ifStale"} THEN day ELSE 0])
  /\ CallOnly /\ UNCHANGED <<row, recovered, shared, faults>>

(* Mutant: every call recovers. *)
RecoverAgain(c) ==
  /\ At(c, "recover") /\ LockFree /\ Fine
  /\ row' = IF row.status = "running" THEN [row EXCEPT !.status = "interrupted"] ELSE row
  /\ recovered' = TRUE /\ To(c, "reap")
  /\ CallOnly /\ UNCHANGED shared

(* recover_if_needed: the first call of the process interrupts what an     *)
(* earlier one left.                                                       *)
Recover(c) ==
  /\ At(c, "recover") /\ LockFree
  /\ \/ recovered /\ To(c, "reap") /\ UNCHANGED <<row, recovered, faults>>
     \/ /\ ~recovered /\ Fine
        /\ row' = IF row.status = "running" THEN [row EXCEPT !.status = "interrupted"] ELSE row
        /\ recovered' = TRUE /\ To(c, "reap")
     \/ ~recovered /\ Fault /\ Leave(c) /\ UNCHANGED <<row, recovered>>
  /\ CallOnly /\ UNCHANGED shared

(* What initialize goes on with: shutdown ends, a call does its own work.  *)
GoOn(a) ==
  LET next == IF a = Shutdown THEN "check"
              ELSE IF actor[a].op = "refresh" THEN "board" ELSE "start" IN
  IF a # Shutdown /\ actor[a].op = "status" THEN Leave(a)
  ELSE Now(a, [actor[a] EXCEPT !.pc = next, !.hand = Nothing])

(* An error ends a call; shutdown keeps it and goes on.                    *)
GiveUp(a, pc) == IF a = Shutdown THEN Now(a, [actor[a] EXCEPT !.pc = pc, !.hand = Nothing])
                 ELSE Leave(a)

(* How the task of a flight that was taken ended.                          *)
SeeTask(a, t) ==
  CASE t.pc = "ok"  -> To(a, "retry")
    [] t.pc = "err" -> To(a, "look")
    [] OTHER        -> IF t.gen = 0 THEN GiveUp(a, "retry")
                       ELSE Now(a, [actor[a] EXCEPT !.pc = "fail", !.hand = Fail(t.gen)])

(* Mutant: a handle is taken whether or not its task is over. *)
ReapAny(c) ==
  /\ At(c, "reap") /\ LockFree
  /\ active' = 0 /\ To(c, "retry")
  /\ CallOnly /\ UNCHANGED <<row, recovered, pending, faults>>

(* reap_background_task.                                                   *)
Reap(c) ==
  /\ At(c, "reap") /\ LockFree
  /\ IF active # 0 /\ flight[active].pc \in Finished
     THEN active' = 0 /\ SeeTask(c, flight[active])
     ELSE To(c, "retry") /\ UNCHANGED active
  /\ CallOnly /\ UNCHANGED <<row, recovered, pending, faults>>

(* The task said its terminal state is recorded: unless another call has   *)
(* taken it meanwhile, it is retried next.                                 *)
Look(a) ==
  /\ At(a, "look") /\ LockFree
  /\ IF pending = Nothing THEN GiveUp(a, "retry") ELSE To(a, "retry")
  /\ CallOnly /\ UNCHANGED <<row, recovered, shared, faults>>

(* A job whose task panicked is failed in its place.                       *)
StorePanic(a) ==
  /\ At(a, "fail")
  /\ \/ Landed(actor[a].hand) /\ GiveUp(a, "retry")
     \/ NotLanded(actor[a].hand) /\ To(a, "record")
  /\ CallOnly /\ UNCHANGED <<recovered, shared>>

RecordPanic(a) ==
  /\ At(a, "record") /\ LockFree
  /\ pending' = actor[a].hand /\ GiveUp(a, "retry")
  /\ CallOnly /\ UNCHANGED <<row, recovered, active, faults>>

(* Mutant: the recorded state is cloned, not taken. *)
RetryCopy(a) ==
  /\ At(a, "retry") /\ LockFree
  /\ IF pending = Nothing THEN GoOn(a)
     ELSE Now(a, [actor[a] EXCEPT !.pc = "persist", !.hand = pending])
  /\ CallOnly /\ UNCHANGED <<row, recovered, shared, faults>>

(* retry_pending_terminal.                                                 *)
Retry(a) ==
  /\ At(a, "retry") /\ LockFree
  /\ pending' = Nothing
  /\ IF pending = Nothing THEN GoOn(a)
     ELSE Now(a, [actor[a] EXCEPT !.pc = "persist", !.hand = pending])
  /\ CallOnly /\ UNCHANGED <<row, recovered, active, faults>>

Persist(a) ==
  /\ At(a, "persist")
  /\ \/ Landed(actor[a].hand) /\ GoOn(a)
     \/ NotLanded(actor[a].hand) /\ To(a, "putBack")
  /\ CallOnly /\ UNCHANGED <<recovered, shared>>

PutBack(a) ==
  /\ At(a, "putBack") /\ LockFree
  /\ pending' = IF pending = Nothing THEN actor[a].hand ELSE pending
  /\ GiveUp(a, "check")
  /\ CallOnly /\ UNCHANGED <<row, recovered, active, faults>>

-----------------------------------------------------------------------------
(* start_refresh_job, under the mutex from the look at the cache on.       *)

Fresh(c) == snap >= actor[c].at

(* Nothing is started while a refresh is in flight, nor, unless forced,    *)
(* when the cache is fresh.                                                *)
Start(c) ==
  LET needless == active # 0 \/ (actor[c].op = "ifStale" /\ Fresh(c)) IN
  /\ At(c, "start") /\ LockFree
  /\ \/ Fine /\ needless /\ Leave(c)
     \/ Fine /\ ~needless /\ To(c, "insert")
     \/ Fault /\ Leave(c)
  /\ CallOnly /\ UNCHANGED <<row, recovered, shared>>

Launch(f, task) == Departs(f) /\ Fly(f, task) /\ active' = f
FlightsLeft == \E f \in Flight : Departs(f)

(* start_identity_job leaves a running job alone; a started one gets its   *)
(* flight before the mutex is free.  Bounds: MaxGen, MaxFlights.           *)
Insert(c) ==
  LET g == row.gen + 1
      startable == row.status # "running" /\ g <= MaxGen /\ FlightsLeft IN
  /\ At(c, "insert") /\ Leave(c)
  /\ \/ /\ Fine /\ startable
        /\ row' = [gen |-> g, status |-> "running"]
        /\ \E f \in Flight : Launch(f, [NoTask EXCEPT !.pc = "spawned", !.gen = g])
     \/ Fine /\ ~startable /\ UNCHANGED <<row, active, flight>>
     \/ Fault /\ UNCHANGED <<row, active, flight>>
  /\ UNCHANGED <<snap, day, process, pending>>

-----------------------------------------------------------------------------
(* refresh: lead a flight, or follow the one there is.                     *)

(* Bound: MaxFlights.                                                      *)
BeginFlight(c) ==
  /\ At(c, "board") /\ LockFree
  /\ \/ /\ active # 0 /\ Now(c, [actor[c] EXCEPT !.pc = "wait", !.on = active, !.at = 0])
        /\ UNCHANGED <<active, flight>>
     \/ /\ active = 0
        /\ \E f \in Flight :
             /\ Launch(f, [NoTask EXCEPT !.pc = "work", !.fetched = actor[c].at])
             /\ Now(c, [actor[c] EXCEPT !.pc = "wait", !.on = f, !.at = 0, !.lead = TRUE])
     \/ active = 0 /\ ~FlightsLeft /\ Leave(c) /\ UNCHANGED <<active, flight>>
  /\ UNCHANGED <<row, snap, day, process, pending, faults>>

(* Mutant: the sender of a task that panicked is not dropped. *)
HearSent(c) ==
  LET t == flight[actor[c].on] IN
  /\ At(c, "wait") /\ Sent(t) /\ t.pc # "panic"
  /\ Now(c, [actor[c] EXCEPT !.pc = IF actor[c].lead THEN "reapOwn" ELSE "told",
                             !.lead = FALSE])
  /\ CallOnly /\ UNCHANGED <<row, recovered, shared, faults>>

(* wait_for_refresh: the outcome was sent, or its sender is gone.          *)
Hear(c) ==
  LET t == flight[actor[c].on] IN
  /\ At(c, "wait") /\ Sent(t)
  /\ Now(c, [actor[c] EXCEPT !.pc = IF actor[c].lead THEN "reapOwn" ELSE "told",
                             !.lead = FALSE])
  /\ CallOnly /\ UNCHANGED <<row, recovered, shared, faults>>

(* The caller drops the call: nobody reaps a flight that lost its leader   *)
(* before the next call.                                                   *)
Abandon(c) ==
  /\ At(c, "wait") /\ Leave(c)
  /\ CallOnly /\ UNCHANGED <<row, recovered, shared, faults>>

(* reap_direct_refresh: the leader clears the flight, unless another call  *)
(* has reaped it.                                                          *)
ReapOwn(c) ==
  /\ At(c, "reapOwn") /\ LockFree
  /\ IF active = actor[c].on THEN active' = 0 /\ To(c, "join")
                             ELSE To(c, "told") /\ UNCHANGED active
  /\ CallOnly /\ UNCHANGED <<row, recovered, pending, faults>>

Join(c) ==
  /\ At(c, "join") /\ flight[actor[c].on].pc \in Finished /\ To(c, "told")
  /\ CallOnly /\ UNCHANGED <<row, recovered, shared, faults>>

Answered(c) ==
  /\ At(c, "told") /\ Leave(c)
  /\ CallOnly /\ UNCHANGED <<row, recovered, shared, faults>>

-----------------------------------------------------------------------------
(* shutdown, and the life of the process.                                  *)

Drain ==
  /\ mode = "serving" /\ LockFree /\ mode' = "draining"
  /\ active' = 0
  /\ Now(Shutdown, [NoActor EXCEPT !.pc = IF active = 0 THEN "retry" ELSE "drain", !.on = active])
  /\ UNCHANGED <<row, snap, day, recovered, pending, flight, faults>>

Drained ==
  LET t == flight[actor[Shutdown].on] IN
  /\ At(Shutdown, "drain") /\ t.pc \in Finished /\ SeeTask(Shutdown, t)
  /\ CallOnly /\ UNCHANGED <<row, recovered, shared, faults>>

(* SharedLifecycle.shutdown closes the store behind the services.          *)
CloseStore ==
  /\ At(Shutdown, "check") /\ LockFree /\ mode' = "closed" /\ Leave(Shutdown)
  /\ UNCHANGED <<row, snap, day, recovered, shared, flight, faults>>

(* The process is killed, or exits after shutdown.                         *)
End ==
  /\ mode # "down" /\ mode' = "down" /\ recovered' = FALSE
  /\ active' = 0 /\ pending' = Nothing
  /\ flight' = [f \in Flight |-> NoTask] /\ actor' = [a \in Actor |-> NoActor]
  /\ UNCHANGED <<row, snap, day, faults>>

Tick ==
  /\ day < MaxDay /\ day' = day + 1
  /\ UNCHANGED <<row, snap, process, shared, flight, actor, faults>>

(* The next process starts in Init.                                        *)
Quiet == mode = "down" /\ UNCHANGED vars

-----------------------------------------------------------------------------
RunFlight(f) == SetOff(f) \/ Work(f) \/ Settle(f) \/ RecordTerminal(f) \/ Return(f)

Attend(a) ==
  Look(a) \/ StorePanic(a) \/ RecordPanic(a) \/ Retry(a) \/ Persist(a) \/ PutBack(a)
RunCall(c) ==
  \/ Recover(c) \/ Reap(c) \/ Start(c) \/ Insert(c)
  \/ BeginFlight(c) \/ Hear(c) \/ ReapOwn(c) \/ Join(c) \/ Answered(c)

Next ==
  \/ \E f \in Flight : RunFlight(f)
  \/ \E a \in Actor : Attend(a)
  \/ \E c \in Call : Begin(c) \/ RunCall(c) \/ Abandon(c)
  \/ Drain \/ Drained \/ CloseStore \/ End \/ Tick \/ Quiet

Spec == Init /\ [][Next]_vars

(***************************************************************************)
(* What the scheduler owes: tasks, issued calls and shutdown advance (the  *)
(* provider client bounds every request with a timeout), strongly since    *)
(* the mutex is first come, first served, and a client keeps calling while *)
(* it follows a job, as the answer to a start tells it to.  Nobody owes a  *)
(* fault, a panic, a dropped call or the end of the process.               *)
(***************************************************************************)
Fairness ==
  /\ \A f \in Flight : SF_vars(RunFlight(f))
  /\ \A c \in Call : SF_vars(Begin(c) \/ RunCall(c) \/ Attend(c))
  /\ SF_vars(Attend(Shutdown) \/ Drained \/ CloseStore)

FairSpec == Spec /\ Fairness

-----------------------------------------------------------------------------
(* Safety.                                                                 *)

(* A terminal state that waits for its retry is one the row still accepts: *)
(* a rejected one is put back for ever, and with it every call would fail  *)
(* before it does its own work (retry_pending_terminal).                   *)
PendingFits ==
  /\ pending # Nothing => Running(pending.gen)
  /\ \A a \in Actor : actor[a].hand # Nothing => Running(actor[a].hand.gen)

(* Recovery interrupts what an earlier process left, never a job whose     *)
(* task is in flight in this one (recover_if_needed).                      *)
RecoverySparesFlights ==
  row.status = "interrupted" => \A f \in Flight : flight[f].gen = row.gen => flight[f].pc = "none"

-----------------------------------------------------------------------------
(* Refinement: calls and flights are a shared refresh.                     *)

SeenAs(t) == IF t.pc = "none" THEN "unborn"
             ELSE IF t.pc \in AtWork THEN "flying" ELSE Outcome(t)
Seat(l)   == IF l.pc \in {"wait", "reapOwn", "join"} THEN l.on ELSE 0
Told(l)   == IF l.pc = "told" THEN Outcome(flight[l.on]) ELSE "none"

flights == [f \in Flight |-> SeenAs(flight[f])]
seats   == [c \in Call |-> Seat(actor[c])]
answers == [c \in Call |-> Told(actor[c])]
closing == mode # "serving"

Sharing == INSTANCE SharedRefresh WITH
  Caller <- Call, state <- flights, seat <- seats, told <- answers, closing <- closing

(* One refresh at a time, whoever asked for it; who finds one in flight    *)
(* joins it, and leaders and followers are told how their flight landed,   *)
(* panics and reaping by others included.                                  *)
ImplementsSharing == Sharing!Spec

-----------------------------------------------------------------------------
(* Liveness.                                                               *)

(* Every call returns: nobody waits for ever for a flight that panicked,   *)
(* was reaped by another call or taken by shutdown, or for the mutex.      *)
CallsAnswered == \A c \in Call : actor[c].pc # "idle" ~> actor[c].pc = "idle"

(* While the process serves, a running job is settled.                     *)
RunningJobSettles ==
  \A g \in 1..MaxGen : Running(g) ~> ~Running(g) \/ mode # "serving"
=============================================================================
