--------------------------- MODULE IdentityJobsProofs ---------------------------
(***************************************************************************)
(* IdentityJobs for any calls, requests and bounds: who owes a running job *)
(* its terminal state, why what is recorded always lands, why recovery     *)
(* never meets a live job, and that calls and flights implement the shared *)
(* refresh of SharedRefresh.                                               *)
(***************************************************************************)
EXTENDS IdentityJobs, TLAPS

-----------------------------------------------------------------------------
(* The inductive invariant.                                                *)

(* The steps in which an actor has a terminal state in its hand.           *)
Carrying == {"fail", "record", "persist", "putBack"}
(* The steps in which a call belongs to a flight, and when it has landed.  *)
Aboard   == {"wait", "reapOwn", "join", "told"}
Landing  == {"reapOwn", "join", "told"}

(* Somebody will see how the task of f ends: it is the one of the service, *)
(* or the one that shutdown took.                                          *)
Handled(f) == active = f \/ (At(Shutdown, "drain") /\ actor[Shutdown].on = f)

(* Flight f owes its job a terminal state.                                 *)
Owes(f) ==
  /\ flight[f].gen # 0
  /\ flight[f].pc \in AtWork \/ (flight[f].pc = "panic" /\ Handled(f))

Typed ==
  /\ row \in [gen : Gen0, status : Status] /\ snap \in Day0 /\ day \in 1..MaxDay
  /\ mode \in {"serving", "draining", "closed", "down"} /\ recovered \in BOOLEAN
  /\ active \in Flight0 /\ pending \in Terminal
  /\ flight \in [Flight -> Task] /\ actor \in [Actor -> Local]
  /\ faults \in 0..MaxFaults

(* A job has one flight; whose task is at work is handled; flights depart  *)
(* in order, and that of the service is the last that did.                 *)
FlightInv ==
  /\ \A f \in Flight :
       /\ flight[f].gen <= row.gen
       /\ flight[f].pc = "none" => flight[f].gen = 0
       /\ flight[f].pc \in {"terminal", "record"} => flight[f].gen # 0
       /\ flight[f].pc \in AtWork => Handled(f)
  /\ \A f, g \in Flight :
       /\ flight[f].gen = flight[g].gen => f = g \/ flight[f].gen = 0
       /\ f < g /\ flight[g].pc # "none" => flight[f].pc # "none"
  /\ active # 0 => /\ flight[active].pc # "none"
                   /\ \A g \in Flight : g > active => flight[g].pc = "none"

(* What an actor knows in each step.                                       *)
Knows(a) ==
  LET l == actor[a] IN
  /\ l.hand # Nothing <=> l.pc \in Carrying
  /\ l.pc \in Aboard \cup {"drain"} => l.on \in Flight /\ flight[l.on].pc # "none"
  /\ l.pc \in Landing => Sent(flight[l.on])
  /\ l.lead => l.pc = "wait"
  /\ l.lead \/ l.pc = "reapOwn" => flight[l.on].gen = 0
  /\ IF a = Shutdown THEN l.pc \in Carrying \cup {"idle", "look", "retry", "drain", "check"}
                     ELSE l.pc \notin {"drain", "check"}

(* Who starts a job keeps the mutex until its flight is there; shutdown    *)
(* works while the process drains; before the recovery nothing is started. *)
LifeInv ==
  /\ \A c, d \in Call : At(c, "insert") => active = 0 /\ (At(d, "insert") => c = d)
  /\ mode # "draining" => At(Shutdown, "idle")
  /\ At(Shutdown, "drain") => actor[Shutdown].on # active
  /\ ~recovered =>
       /\ active = 0 /\ pending = Nothing /\ \A f \in Flight : flight[f].pc = "none"
       /\ \A c \in Call : actor[c].pc \in {"idle", "recover"}
       /\ actor[Shutdown].pc \in {"idle", "retry", "check"}

(* The terminal state of a running job is owed by one at a time: the       *)
(* flight, the recorded state, or an actor with that state in its hand.    *)
DebtInv ==
  /\ row.status # "none" => row.gen # 0
  /\ \A f \in Flight : Owes(f) =>
       Running(flight[f].gen) /\ pending = Nothing /\ \A a \in Actor : actor[a].hand = Nothing
  /\ pending # Nothing => Running(pending.gen) /\ \A a \in Actor : actor[a].hand = Nothing
  /\ \A a \in Actor : actor[a].hand # Nothing =>
       Running(actor[a].hand.gen) /\ \A b \in Actor : actor[b].hand # Nothing => a = b

IInv ==
  /\ Typed /\ FlightInv /\ \A a \in Actor : Knows(a)
  /\ LifeInv /\ DebtInv /\ RecoverySparesFlights
-----------------------------------------------------------------------------
(* Values.                                                                 *)

(* The bounds count, and 0 stands for no flight, no job, no day. *)
LEMMA Values ==
  /\ Flight \subseteq Nat /\ 0 \notin Flight /\ Flight0 = Flight \cup {0}
  /\ Gen0 \subseteq Nat /\ 0 \in Gen0 /\ 0 \in Day0 /\ 1..MaxDay \subseteq Day0 /\ 0 \in Flight0
  /\ Shutdown \in Actor /\ Shutdown \notin Call /\ Call \subseteq Actor
  BY BoundsAssumption, ShutdownAssumption DEF Flight, Flight0, Gen0, Day0, Actor

(* The records that stand for nothing are of their types. *)
LEMMA Blanks == NoActor \in Local /\ NoTask \in Task /\ Nothing \in Terminal
  BY Values DEF NoActor, Local, Pc, Op, NoTask, Task, AtWork, Result, Nothing, Terminal

(* A terminal state of a job that was started is not nothing. *)
LEMMA TerminalOfJob ==
  ASSUME NEW t \in Task
  PROVE  /\ TerminalOf(t) \in Terminal /\ TerminalOf(t).gen = t.gen
         /\ Fail(t.gen) \in Terminal /\ Fail(t.gen).gen = t.gen
         /\ t.gen # 0 => TerminalOf(t) # Nothing /\ Fail(t.gen) # Nothing
<1>1. t.gen \in Gen0
  BY DEF Task
<1>2. TerminalOf(t).gen = t.gen /\ Fail(t.gen).gen = t.gen /\ Nothing.gen = 0
  BY DEF TerminalOf, Fail, Nothing
<1>3. QED
  BY <1>1, <1>2 DEF TerminalOf, Fail, Terminal

(* Moving one actor. *)
LEMMA NowMoves ==
  ASSUME actor \in [Actor -> Local], NEW a \in Actor, NEW l \in Local, Now(a, l)
  PROVE  /\ actor' \in [Actor -> Local] /\ actor'[a] = l
         /\ \A b \in Actor \ {a} : actor'[b] = actor[b]
  BY DEF Now

(* Moving one flight. *)
LEMMA FlyMoves ==
  ASSUME flight \in [Flight -> Task], NEW f \in Flight, NEW t \in Task, Fly(f, t)
  PROVE  /\ flight' \in [Flight -> Task] /\ flight'[f] = t
         /\ \A g \in Flight \ {f} : flight'[g] = flight[g]
  BY DEF Fly

(* What initialize goes on with, for shutdown and for a call.                *)
Goes(a, l) ==
  /\ l \in Local /\ l.hand = Nothing /\ (l.lead => actor[a].lead)
  /\ IF a = Shutdown THEN l.pc = "check" ELSE l.pc \in {"idle", "start", "board"}

(* A call goes on with an empty hand, shutdown to its end. *)
LEMMA GoOnMoves ==
  ASSUME actor \in [Actor -> Local], NEW a \in Actor, GoOn(a)
  PROVE  \E l \in Local : Goes(a, l) /\ Now(a, l)
<1>1. actor[a] \in Local
  OBVIOUS
<1>2. CASE a # Shutdown /\ actor[a].op = "status"
  <2>1. NoActor.pc = "idle" /\ NoActor.hand = Nothing /\ ~NoActor.lead
    BY DEF NoActor
  <2>2. QED
    BY <1>2, <2>1, Blanks DEF GoOn, Leave, Goes
<1>3. CASE ~(a # Shutdown /\ actor[a].op = "status")
  <2> DEFINE next == IF a = Shutdown THEN "check" ELSE IF actor[a].op = "refresh" THEN "board" ELSE "start"
             l == [actor[a] EXCEPT !.pc = next, !.hand = Nothing]
  <2>1. Now(a, l)
    BY <1>3 DEF GoOn
  <2>2. next \in Pc /\ (IF a = Shutdown THEN next = "check" ELSE next \in {"idle", "start", "board"})
    BY DEF Pc
  <2> HIDE DEF next
  <2>3. l \in Local /\ l.hand = Nothing /\ l.pc = next /\ l.lead = actor[a].lead
    BY <1>1, <2>2, Blanks DEF Local
  <2>4. QED
    BY <2>1, <2>2, <2>3 DEF Goes
<1>4. QED
  BY <1>2, <1>3

(* An error ends a call, and empties the hand of shutdown. *)
LEMMA GiveUpMoves ==
  ASSUME actor \in [Actor -> Local], NEW a \in Actor, NEW pc \in Pc, GiveUp(a, pc)
  PROVE  \E l \in Local : /\ Now(a, l) /\ l.hand = Nothing /\ (l.lead => actor[a].lead)
                          /\ l.pc = IF a = Shutdown THEN pc ELSE "idle"
<1>1. actor[a] \in Local
  OBVIOUS
<1>2. CASE a = Shutdown
  <2> DEFINE l == [actor[a] EXCEPT !.pc = pc, !.hand = Nothing]
  <2>1. l \in Local /\ l.hand = Nothing /\ l.pc = pc /\ l.lead = actor[a].lead
    BY <1>1, Blanks DEF Local
  <2>2. QED
    BY <1>2, <2>1 DEF GiveUp
<1>3. CASE a # Shutdown
  <2>1. NoActor.pc = "idle" /\ NoActor.hand = Nothing /\ ~NoActor.lead
    BY DEF NoActor
  <2>2. QED
    BY <1>3, <2>1, Blanks DEF GiveUp, Leave
<1>4. QED
  BY <1>2, <1>3

(* Going to another step changes the step only. *)
LEMMA ToMoves ==
  ASSUME actor \in [Actor -> Local], NEW a \in Actor, NEW pc \in Pc, To(a, pc)
  PROVE  \E l \in Local : /\ Now(a, l) /\ l.pc = pc /\ l.hand = actor[a].hand
                          /\ l.on = actor[a].on /\ l.lead = actor[a].lead
<1>1. [actor[a] EXCEPT !.pc = pc] \in Local
  BY DEF Local
<1>2. QED
  BY <1>1 DEF To, Local

(* Who sees a task that panicked has its job to fail; any other end is known *)
(* to the row or recorded.                                                   *)
LEMMA SeeTaskMoves ==
  ASSUME actor \in [Actor -> Local], NEW a \in Actor, NEW t \in Task, t.pc \in Finished,
         actor[a].hand = Nothing, SeeTask(a, t)
  PROVE  \E l \in Local :
           /\ Now(a, l) /\ (l.lead => actor[a].lead)
           /\ IF t.pc = "panic" /\ t.gen # 0
              THEN l.pc = "fail" /\ l.hand = Fail(t.gen)
              ELSE l.hand = Nothing /\ (l.pc \in {"retry", "look"} \/ (a # Shutdown /\ l.pc = "idle"))
<1>p. {"retry", "look", "fail"} \subseteq Pc
  BY DEF Pc
<1>1. CASE t.pc = "ok"
  <2>1. To(a, "retry")
    BY <1>1 DEF SeeTask
  <2>2. QED
    BY <1>1, <1>p, <2>1, ToMoves
<1>2. CASE t.pc = "err"
  <2>1. To(a, "look")
    BY <1>2 DEF SeeTask
  <2>2. QED
    BY <1>2, <1>p, <2>1, ToMoves
<1>3. CASE t.pc = "panic" /\ t.gen = 0
  <2>1. GiveUp(a, "retry")
    BY <1>3 DEF SeeTask
  <2>2. QED
    BY <1>3, <1>p, <2>1, GiveUpMoves
<1>4. CASE t.pc = "panic" /\ t.gen # 0
  <2> DEFINE l == [actor[a] EXCEPT !.pc = "fail", !.hand = Fail(t.gen)]
  <2>1. Now(a, l)
    BY <1>4 DEF SeeTask
  <2>2. l \in Local /\ l.pc = "fail" /\ l.hand = Fail(t.gen) /\ l.lead = actor[a].lead
    BY <1>p, TerminalOfJob DEF Local
  <2>3. QED
    BY <1>4, <2>1, <2>2
<1>5. QED
  BY <1>1, <1>2, <1>3, <1>4 DEF Finished

-----------------------------------------------------------------------------
(* Who knows what, while others move.                                      *)

(* A flight that departed stays, keeps its job and, once it was heard of,  *)
(* is known to have landed.                                                *)
Flies ==
  \A f \in Flight : flight[f].pc # "none" =>
    /\ flight'[f].pc # "none" /\ flight'[f].gen = flight[f].gen
    /\ Sent(flight[f]) => Sent(flight'[f])

(* An actor that does not move keeps what it knows. *)
LEMMA KnowsStays ==
  ASSUME Flies, NEW b \in Actor, Knows(b), actor'[b] = actor[b]
  PROVE  (Knows(b))'
<1>1. actor[b].pc \in Aboard \cup {"drain"} =>
        /\ actor[b].on \in Flight /\ flight[actor[b].on].pc # "none"
        /\ flight'[actor[b].on].pc # "none" /\ flight'[actor[b].on].gen = flight[actor[b].on].gen
        /\ Sent(flight[actor[b].on]) => Sent(flight'[actor[b].on])
  BY DEF Knows, Flies
<1>2. actor[b].pc \in Landing => Sent(flight'[actor[b].on])
  BY <1>1 DEF Knows, Landing, Aboard
<1>3. /\ actor[b].lead => actor[b].pc = "wait"
      /\ actor[b].lead \/ actor[b].pc = "reapOwn" => flight'[actor[b].on].gen = 0
  BY <1>1 DEF Knows, Aboard
<1>4. actor'[b].hand # Nothing <=> actor'[b].pc \in Carrying
  BY DEF Knows
<1>5. actor'[b].pc \in Aboard \cup {"drain"} => actor'[b].on \in Flight /\ flight'[actor'[b].on].pc # "none"
  BY <1>1
<1>6. IF b = Shutdown THEN actor'[b].pc \in Carrying \cup {"idle", "look", "retry", "drain", "check"}
                      ELSE actor'[b].pc \notin {"drain", "check"}
  BY DEF Knows
<1>7. QED
  BY <1>2, <1>3, <1>4, <1>5, <1>6 DEF Knows

(* A step of one actor that neither launches a flight nor stops the service. *)
Moved(a, l) ==
  /\ Now(a, l) /\ UNCHANGED <<flight, mode>>
  /\ row'.gen = row.gen
  /\ active' = active \/ (active' = 0 /\ (active # 0 => flight[active].pc \notin AtWork))
  /\ At(a, "drain") => flight[actor[a].on].pc \notin AtWork
  /\ a = Shutdown => ~At(a, "idle")
  /\ l.pc = "insert" => active = 0 /\ LockFree
  /\ \/ recovered'
     \/ /\ recovered' = recovered /\ pending' = pending
        /\ a # Shutdown => l.pc \in {"idle", "recover"}
        /\ a = Shutdown => l.pc \in {"idle", "retry", "check"}

(* What the actor knows after its step. *)
Learned(a, l) ==
  /\ l.hand # Nothing <=> l.pc \in Carrying
  /\ l.pc \in Aboard => l.on \in Flight /\ flight[l.on].pc # "none"
  /\ l.pc \in Landing => Sent(flight[l.on])
  /\ l.lead => l.pc = "wait"
  /\ l.lead \/ l.pc = "reapOwn" => flight[l.on].gen = 0
  /\ IF a = Shutdown THEN l.pc \in Carrying \cup {"idle", "look", "retry", "check"}
                     ELSE l.pc \notin {"drain", "check"}

(* Such a step keeps what everybody knows, the flights and the mutex. *)
LEMMA MovedKeeps ==
  ASSUME Typed, FlightInv, \A b \in Actor : Knows(b), LifeInv,
         NEW a \in Actor, NEW l \in Local, Moved(a, l), Learned(a, l)
  PROVE  FlightInv' /\ LifeInv' /\ \A b \in Actor : (Knows(b))'
<1>1. /\ actor'[a] = l /\ \A b \in Actor \ {a} : actor'[b] = actor[b]
      /\ flight' = flight /\ mode' = mode
  BY NowMoves DEF Typed, Moved
<1>2. \A b \in Actor : (Knows(b))'
  <2>1. Flies
    BY <1>1 DEF Flies
  <2>2. ASSUME NEW b \in Actor, b # a PROVE (Knows(b))'
    BY <1>1, <2>1, <2>2, KnowsStays
  <2>3. (Knows(a))'
    <3>1. l.pc # "drain"
      BY DEF Learned, Carrying
    <3>2. QED
      BY <1>1, <3>1 DEF Learned, Knows
  <2>4. QED
    BY <2>2, <2>3
<1>3. FlightInv'
  <2>1. ASSUME NEW f \in Flight, flight[f].pc \in AtWork PROVE (Handled(f))'
    <3>1. CASE active = f
      <4>1. active' = active
        BY <2>1, <3>1, Values DEF Moved
      <4>2. QED
        BY <3>1, <4>1 DEF Handled
    <3>2. CASE At(Shutdown, "drain") /\ actor[Shutdown].on = f
      <4>1. a # Shutdown
        BY <2>1, <3>2 DEF Moved
      <4>2. actor'[Shutdown] = actor[Shutdown]
        BY <1>1, <4>1, Values
      <4>3. QED
        BY <3>2, <4>2 DEF Handled, At
    <3>3. QED
      BY <2>1, <3>1, <3>2 DEF FlightInv, Handled
  <2>2. active' = active \/ active' = 0
    BY DEF Moved
  <2>3. \A f \in Flight : /\ flight'[f].gen <= row'.gen
                          /\ flight'[f].pc = "none" => flight'[f].gen = 0
                          /\ flight'[f].pc \in {"terminal", "record"} => flight'[f].gen # 0
                          /\ flight'[f].pc \in AtWork => (Handled(f))'
    BY <1>1, <2>1 DEF FlightInv, Moved
  <2>4. \A f, g \in Flight :
          /\ flight'[f].gen = flight'[g].gen => f = g \/ flight'[f].gen = 0
          /\ f < g /\ flight'[g].pc # "none" => flight'[f].pc # "none"
    BY <1>1 DEF FlightInv
  <2>5. active' # 0 => /\ flight'[active'].pc # "none"
                       /\ \A g \in Flight : g > active' => flight'[g].pc = "none"
    BY <1>1, <2>2 DEF FlightInv
  <2>6. QED
    BY <2>3, <2>4, <2>5 DEF FlightInv
<1>4. LifeInv'
  <2>1. \A c, d \in Call : (At(c, "insert"))' => active' = 0 /\ ((At(d, "insert"))' => c = d)
    <3>1. \A c \in Call : (At(c, "insert"))' => At(c, "insert") \/ (c = a /\ l.pc = "insert")
      BY <1>1, Values DEF At
    <3>2. QED
      BY <3>1 DEF LifeInv, Moved, LockFree
  <2>2. mode' # "draining" => (At(Shutdown, "idle"))'
    <3>1. mode # "draining" => a # Shutdown
      BY DEF Moved, LifeInv
    <3>2. QED
      BY <1>1, <3>1, Values DEF LifeInv, At
  <2>3. ~recovered' =>
          /\ active' = 0 /\ pending' = Nothing /\ \A f \in Flight : flight'[f].pc = "none"
          /\ \A c \in Call : actor'[c].pc \in {"idle", "recover"}
          /\ actor'[Shutdown].pc \in {"idle", "retry", "check"}
    <3>1. SUFFICES ASSUME ~recovered'
                   PROVE  /\ active' = 0 /\ pending' = Nothing /\ \A f \in Flight : flight'[f].pc = "none"
                          /\ \A c \in Call : actor'[c].pc \in {"idle", "recover"}
                          /\ actor'[Shutdown].pc \in {"idle", "retry", "check"}
      OBVIOUS
    <3>2. /\ ~recovered /\ pending' = pending
          /\ a # Shutdown => l.pc \in {"idle", "recover"}
          /\ a = Shutdown => l.pc \in {"idle", "retry", "check"}
      BY <3>1 DEF Moved
    <3>3. active' = 0 /\ pending' = Nothing /\ \A f \in Flight : flight'[f].pc = "none"
      BY <1>1, <3>2 DEF LifeInv, Moved
    <3>4. (\A c \in Call : actor'[c].pc \in {"idle", "recover"}) /\ actor'[Shutdown].pc \in {"idle", "retry", "check"}
      BY <1>1, <3>2, Values DEF LifeInv
    <3>5. QED
      BY <3>3, <3>4
  <2>4. (At(Shutdown, "drain"))' => actor'[Shutdown].on # active'
    <3>1. SUFFICES ASSUME actor'[Shutdown].pc = "drain" PROVE actor'[Shutdown].on # active'
      BY DEF At
    <3>2. l.pc # "drain"
      BY DEF Learned, Carrying
    <3>3. actor'[Shutdown] = actor[Shutdown]
      BY <1>1, <3>1, <3>2, Values
    <3>4. actor[Shutdown].on # active /\ actor[Shutdown].on \in Flight
      BY <3>1, <3>3, Values DEF LifeInv, At, Knows
    <3>5. QED
      BY <3>3, <3>4, Values DEF Moved
  <2>5. QED
    BY <2>1, <2>2, <2>3, <2>4 DEF LifeInv
<1>5. QED
  BY <1>2, <1>3, <1>4

-----------------------------------------------------------------------------
(* Who owes the terminal state of the running job.                         *)

(* Nobody owes anything.                                                   *)
Clear == /\ \A f \in Flight : ~Owes(f)
         /\ pending = Nothing /\ \A a \in Actor : actor[a].hand = Nothing

(* Whoever owes, nobody else does: when that debt is settled none is left. *)
LEMMA OneDebt ==
  ASSUME FlightInv, DebtInv
  PROVE  /\ \A f, g \in Flight : Owes(f) /\ Owes(g) => f = g
         /\ \A f \in Flight : Owes(f) => pending = Nothing /\ \A a \in Actor : actor[a].hand = Nothing
         /\ \A a \in Actor : actor[a].hand # Nothing =>
              /\ pending = Nothing /\ \A f \in Flight : ~Owes(f)
              /\ \A b \in Actor \ {a} : actor[b].hand = Nothing
         /\ pending # Nothing => (\A f \in Flight : ~Owes(f)) /\ \A a \in Actor : actor[a].hand = Nothing
         /\ row.status # "running" => Clear
<1>1. \A f \in Flight : Owes(f) => Running(flight[f].gen) /\ flight[f].gen # 0
  BY DEF DebtInv, Owes
<1>2. \A f, g \in Flight : Owes(f) /\ Owes(g) => f = g
  <2>1. ASSUME NEW f \in Flight, NEW g \in Flight, Owes(f), Owes(g) PROVE f = g
    <3>1. row.gen = flight[f].gen /\ row.gen = flight[g].gen
      BY <1>1, <2>1 DEF Running
    <3>2. QED
      BY <1>1, <2>1, <3>1 DEF FlightInv
  <2>2. QED
    BY <2>1
<1>3. row.status # "running" => Clear
  BY <1>1 DEF DebtInv, Running, Clear
<1>4. QED
  BY <1>2, <1>3 DEF DebtInv

(* Debts that are the same or fewer. *)
LEMMA DebtsKept ==
  ASSUME DebtInv, row' = row, pending' \in {pending, Nothing},
         \A f \in Flight : (Owes(f))' => Owes(f) /\ flight'[f].gen = flight[f].gen,
         \A a \in Actor : actor'[a].hand \in {actor[a].hand, Nothing}
  PROVE  DebtInv'
<1>1. ASSUME NEW f \in Flight, (Owes(f))'
      PROVE  /\ (Running(flight[f].gen))' /\ pending' = Nothing /\ \A a \in Actor : actor'[a].hand = Nothing
  BY <1>1 DEF DebtInv, Running
<1>2. pending' # Nothing => (Running(pending.gen))' /\ \A a \in Actor : actor'[a].hand = Nothing
  BY DEF DebtInv, Running
<1>3. ASSUME NEW a \in Actor, actor'[a].hand # Nothing
      PROVE  (Running(actor[a].hand.gen))' /\ \A b \in Actor : actor'[b].hand # Nothing => a = b
  <2>1. actor'[a].hand = actor[a].hand
    BY <1>3
  <2>2. Running(actor[a].hand.gen) /\ \A b \in Actor : actor[b].hand # Nothing => a = b
    BY <1>3, <2>1 DEF DebtInv
  <2>3. QED
    BY <2>1, <2>2 DEF Running
<1>4. QED
  BY <1>1, <1>2, <1>3 DEF DebtInv

(* No debts at all. *)
LEMMA DebtsCleared ==
  ASSUME row'.status # "none" => row'.gen # 0, Clear'
  PROVE  DebtInv'
  BY DEF DebtInv, Clear

(* The one debt is in the hand of an actor. *)
LEMMA DebtInHand ==
  ASSUME row'.status # "none" => row'.gen # 0, NEW a \in Actor, NEW t \in Terminal,
         row' = [gen |-> t.gen, status |-> "running"], pending' = Nothing,
         \A f \in Flight : ~(Owes(f))',
         actor'[a].hand = t, \A b \in Actor \ {a} : actor'[b].hand = Nothing
  PROVE  DebtInv'
<1>1. (Running(t.gen))'
  BY DEF Running
<1>2. \A b \in Actor : actor'[b].hand # Nothing => b = a
  OBVIOUS
<1>3. \A b \in Actor : actor'[b].hand # Nothing => (Running(actor[b].hand.gen))' /\ \A d \in Actor : actor'[d].hand # Nothing => b = d
  BY <1>1, <1>2 DEF Running
<1>4. QED
  BY <1>3 DEF DebtInv

(* The one debt is recorded. *)
LEMMA DebtRecorded ==
  ASSUME row'.status # "none" => row'.gen # 0, NEW t \in Terminal,
         row' = [gen |-> t.gen, status |-> "running"], pending' = t,
         \A f \in Flight : ~(Owes(f))', \A b \in Actor : actor'[b].hand = Nothing
  PROVE  DebtInv'
<1>1. (Running(pending.gen))'
  BY DEF Running
<1>2. QED
  BY <1>1 DEF DebtInv

-----------------------------------------------------------------------------
(* The steps of a flight.                                                  *)

(* What the task of a flight may do to its own record.                     *)
TaskSteps(t, u) ==
  /\ u \in Task /\ u.gen = t.gen /\ t.pc \notin {"none", "panic"} /\ u.pc # "none"
  /\ u.pc \in AtWork => t.pc \in AtWork
  /\ u.pc \in {"terminal", "record"} => t.gen # 0
  /\ u.pc = "panic" => t.pc \in AtWork
  /\ Sent(t) => Sent(u) /\ u.result = t.result

(* Every step of a task moves its record on, and nobody else's.            *)
LEMMA FlightSteps ==
  ASSUME Typed, FlightInv, NEW f \in Flight, RunFlight(f)
  PROVE  /\ \E u \in Task : Fly(f, u) /\ TaskSteps(flight[f], u)
         /\ UNCHANGED <<day, process, actor, active>> /\ snap' \in Day0 /\ faults' \in 0..MaxFaults
<1>t. flight[f] \in Task /\ flight[f].gen \in Gen0 /\ flight[f].fetched \in Day0 /\ day \in Day0
  BY Values DEF Typed, Task
<1>p. {"none", "leave", "spawned", "work", "terminal", "record", "ok", "err", "panic"} =
        {"none", "leave"} \cup AtWork \cup Finished
  BY DEF AtWork, Finished
<1>1. CASE SetOff(f)
  <2> DEFINE u == [flight[f] EXCEPT !.pc = "work", !.fetched = day]
  <2>1. u \in Task /\ u.pc = "work" /\ u.gen = flight[f].gen
    BY <1>t, <1>p DEF Task
  <2>2. TaskSteps(flight[f], u)
    BY <1>1, <2>1 DEF SetOff, TaskSteps, AtWork, Sent, Finished
  <2>3. QED
    BY <1>1, <2>1, <2>2 DEF SetOff, TaskOnly, shared, Typed
<1>2. CASE Work(f)
  <2>1. PICK pc \in {"leave", "terminal", "panic"}, result \in Result :
          /\ Fly(f, [flight[f] EXCEPT !.pc = pc, !.result = result, !.fetched = 0])
          /\ pc = "terminal" => flight[f].gen # 0
    BY <1>2 DEF Work, Result
  <2> DEFINE u == [flight[f] EXCEPT !.pc = pc, !.result = result, !.fetched = 0]
  <2>2. u \in Task /\ u.pc = pc /\ u.gen = flight[f].gen
    BY <1>t, <1>p, Values DEF Task
  <2>3. TaskSteps(flight[f], u)
    BY <1>2, <2>1, <2>2 DEF Work, TaskSteps, AtWork, Sent, Finished
  <2>4. snap' \in Day0 /\ faults' \in 0..MaxFaults
    BY <1>2, <1>t, BoundsAssumption DEF Work, Fine, Fault, Typed
  <2>5. QED
    BY <1>2, <2>1, <2>2, <2>3, <2>4 DEF Work, TaskOnly, shared
<1>3. CASE Settle(f)
  <2>1. PICK pc \in {"leave", "record"} : Fly(f, [flight[f] EXCEPT !.pc = pc])
    BY <1>3 DEF Settle
  <2> DEFINE u == [flight[f] EXCEPT !.pc = pc]
  <2>2. u \in Task /\ u.pc = pc /\ u.gen = flight[f].gen
    BY <1>t, <1>p DEF Task
  <2>3. TaskSteps(flight[f], u)
    BY <1>3, <2>1, <2>2 DEF Settle, TaskSteps, AtWork, Sent, Finished, FlightInv
  <2>4. faults' \in 0..MaxFaults
    BY <1>3, BoundsAssumption DEF Settle, Landed, NotLanded, Fine, Fault, Typed
  <2>5. QED
    BY <1>3, <2>1, <2>2, <2>3, <2>4 DEF Settle, TaskOnly, shared, Typed
<1>4. CASE RecordTerminal(f)
  <2> DEFINE u == [flight[f] EXCEPT !.pc = "leave", !.result = "failed", !.err = TRUE]
  <2>1. u \in Task /\ u.pc = "leave" /\ u.gen = flight[f].gen
    BY <1>t, <1>p DEF Task, Result
  <2>2. TaskSteps(flight[f], u)
    BY <1>4, <2>1 DEF RecordTerminal, TaskSteps, AtWork, Sent, Finished
  <2>3. QED
    BY <1>4, <2>1, <2>2 DEF RecordTerminal, TaskOnly, Typed
<1>5. CASE Return(f)
  <2>1. PICK pc \in {"ok", "err"} : Fly(f, [flight[f] EXCEPT !.pc = pc])
    BY <1>5 DEF Return
  <2> DEFINE u == [flight[f] EXCEPT !.pc = pc]
  <2>2. u \in Task /\ u.pc = pc /\ u.gen = flight[f].gen
    BY <1>t, <1>p DEF Task
  <2>3. TaskSteps(flight[f], u)
    BY <1>5, <2>1, <2>2 DEF Return, TaskSteps, AtWork, Sent, Finished
  <2>4. QED
    BY <1>5, <2>1, <2>2, <2>3 DEF Return, TaskOnly, shared, Typed
<1>6. QED
  BY <1>1, <1>2, <1>3, <1>4, <1>5 DEF RunFlight

(* They keep the flights, the mutex and what the actors know.              *)
LEMMA FlightKeeps ==
  ASSUME Typed, FlightInv, \A b \in Actor : Knows(b), LifeInv,
         NEW f \in Flight, NEW u \in Task, Fly(f, u), TaskSteps(flight[f], u),
         UNCHANGED <<process, actor, active>>, row'.gen = row.gen
  PROVE  FlightInv' /\ LifeInv' /\ \A b \in Actor : (Knows(b))'
<1>1. flight'[f] = u /\ \A g \in Flight \ {f} : flight'[g] = flight[g]
  BY FlyMoves DEF Typed
<1>2. UNCHANGED <<mode, recovered>>
  BY DEF process
<1>3. Flies
  BY <1>1 DEF Flies, TaskSteps
<1>4. \A b \in Actor : (Knows(b))'
  BY <1>3, KnowsStays
<1>5. \A g \in Flight : (Handled(g))' <=> Handled(g)
  BY DEF Handled, At
<1>6. \A g \in Flight : /\ flight'[g].gen = flight[g].gen
                        /\ flight'[g].pc = "none" <=> flight[g].pc = "none"
                        /\ flight'[g].pc \in AtWork => flight[g].pc \in AtWork
                        /\ flight'[g].pc \in {"terminal", "record"} => flight[g].gen # 0
  BY <1>1 DEF TaskSteps, FlightInv
<1>7. FlightInv'
  <2>1. \A g \in Flight : /\ flight'[g].gen <= row'.gen
                          /\ flight'[g].pc = "none" => flight'[g].gen = 0
                          /\ flight'[g].pc \in {"terminal", "record"} => flight'[g].gen # 0
                          /\ flight'[g].pc \in AtWork => (Handled(g))'
    BY <1>5, <1>6 DEF FlightInv
  <2>2. \A g, h \in Flight :
          /\ flight'[g].gen = flight'[h].gen => g = h \/ flight'[g].gen = 0
          /\ g < h /\ flight'[h].pc # "none" => flight'[g].pc # "none"
    BY <1>6 DEF FlightInv
  <2>3. active' # 0 => /\ flight'[active'].pc # "none"
                       /\ \A g \in Flight : g > active' => flight'[g].pc = "none"
    BY <1>6, Values DEF FlightInv, Typed
  <2>4. QED
    BY <2>1, <2>2, <2>3 DEF FlightInv
<1>8. LifeInv'
  <2>1. recovered
    BY DEF LifeInv, TaskSteps
  <2>2. QED
    BY <1>2, <2>1 DEF LifeInv, At
<1>9. QED
  BY <1>4, <1>7, <1>8

(* A flight owes until its terminal state is stored or recorded, and what   *)
(* it stores the row accepts.                                               *)
LEMMA FlightDebts ==
  ASSUME Typed, FlightInv, DebtInv, RecoverySparesFlights, NEW f \in Flight, RunFlight(f)
  PROVE  /\ DebtInv' /\ RecoverySparesFlights' /\ row' \in [gen : Gen0, status : Status]
         /\ row'.gen = row.gen /\ pending' \in Terminal
<1>0. PICK u \in Task : Fly(f, u) /\ TaskSteps(flight[f], u)
  BY FlightSteps
<1>1. /\ flight'[f] = u /\ \A g \in Flight \ {f} : flight'[g] = flight[g]
      /\ UNCHANGED <<actor, active>>
  BY <1>0, FlyMoves, FlightSteps DEF Typed
<1>2. \A g \in Flight : (Handled(g))' <=> Handled(g)
  BY <1>1 DEF Handled, At
<1>3. \A g \in Flight : flight'[g].gen = flight[g].gen /\ ((Owes(g))' => Owes(g))
  BY <1>0, <1>1, <1>2 DEF TaskSteps, Owes, FlightInv
<1>4. flight[f].pc # "none"
  BY <1>0 DEF TaskSteps
<1>5. row'.status # "interrupted" \/ row' = row => RecoverySparesFlights'
  <2>1. ASSUME row' = row, row.status = "interrupted", NEW g \in Flight, flight'[g].gen = row.gen
        PROVE  flight'[g].pc = "none"
    <3>1. flight[g].gen = row.gen
      BY <1>3, <2>1
    <3>2. flight[g].pc = "none" /\ g # f
      BY <1>4, <2>1, <3>1 DEF RecoverySparesFlights
    <3>3. QED
      BY <1>1, <3>2
  <2>2. QED
    BY <2>1 DEF RecoverySparesFlights
<1>6. CASE UNCHANGED <<row, pending>>
  <2>1. DebtInv'
    BY <1>1, <1>3, <1>6, DebtsKept
  <2>2. QED
    BY <1>5, <1>6, <2>1 DEF Typed
<1>7. ASSUME flight[f].pc \in {"terminal", "record"}
      PROVE  /\ Owes(f) /\ Running(flight[f].gen) /\ pending = Nothing /\ flight[f].gen # 0
             /\ \A a \in Actor : actor[a].hand = Nothing
             /\ \A g \in Flight : (Owes(g))' => g = f
  <2>1. flight[f].gen # 0 /\ Owes(f)
    BY <1>7 DEF FlightInv, Owes, AtWork
  <2>2. QED
    BY <1>3, <2>1, OneDebt DEF DebtInv
<1>t. TerminalOf(flight[f]) \in Terminal /\ TerminalOf(flight[f]).gen = flight[f].gen
  BY TerminalOfJob DEF Typed
<1>8. CASE Settle(f) /\ Landed(TerminalOf(flight[f]))
  <2>1. u.pc = "leave" /\ pending' = pending /\ row' = [row EXCEPT !.status = TerminalOf(flight[f]).to]
    <3>1. flight[f].pc = "terminal" /\ Running(flight[f].gen)
      BY <1>8, <1>7 DEF Settle
    <3>2. row' # row
      BY <1>8, <1>t, <3>1 DEF Landed, Running, Terminal, Typed
    <3>3. ~NotLanded(TerminalOf(flight[f]))
      BY <3>2 DEF NotLanded
    <3>4. Fly(f, [flight[f] EXCEPT !.pc = "leave"])
      BY <1>8, <3>3 DEF Settle
    <3>5. flight'[f] = [flight[f] EXCEPT !.pc = "leave"]
      BY <3>4 DEF Fly, Typed
    <3>6. QED
      BY <1>1, <1>8, <3>5 DEF Settle, Landed, shared, Typed, Task
  <2>2. row'.gen = row.gen /\ row'.status \in {"completed", "failed"} /\ row.gen # 0
        /\ row' \in [gen : Gen0, status : Status]
    BY <1>8, <1>t, <1>7, <2>1 DEF Settle, Terminal, Typed, Status, Running
  <2>3. ~(Owes(f))'
    BY <1>1, <2>1 DEF Owes, AtWork
  <2>4. Clear'
    BY <1>1, <1>7, <1>8, <2>1, <2>3 DEF Clear, Settle
  <2>5. QED
    BY <1>5, <2>1, <2>2, <2>4, DebtsCleared DEF Typed
<1>9. CASE RecordTerminal(f)
  <2>1. pending' = TerminalOf(flight[f]) /\ row' = row /\ flight[f].pc = "record"
    BY <1>9 DEF RecordTerminal
  <2>2. flight'[f].pc = "leave"
    BY <1>9 DEF RecordTerminal, Fly, Typed, Task
  <2>3. \A g \in Flight : ~(Owes(g))'
    BY <1>7, <2>1, <2>2 DEF Owes, AtWork
  <2>4. row' = [gen |-> TerminalOf(flight[f]).gen, status |-> "running"] /\ row'.gen # 0
    BY <1>7, <1>t, <2>1 DEF Running
  <2>5. \A b \in Actor : actor'[b].hand = Nothing
    BY <1>1, <1>7, <2>1
  <2>6. DebtInv'
    BY <1>t, <2>1, <2>3, <2>4, <2>5, DebtRecorded
  <2>7. QED
    BY <1>5, <1>t, <2>1, <2>6 DEF Typed
<1>10. QED
  BY <1>6, <1>8, <1>9 DEF RunFlight, SetOff, Work, Settle, Return, NotLanded, shared

-----------------------------------------------------------------------------
(* The steps of an actor.                                                  *)

Kept == FlightInv' /\ LifeInv' /\ (\A b \in Actor : (Knows(b))') /\ DebtInv' /\ RecoverySparesFlights'

(* A moved actor has a hand that is as it was, or empty, and the others    *)
(* owe no more than before.                                                *)
LEMMA PlainStep ==
  ASSUME IInv, NEW a \in Actor, NEW l \in Local, Moved(a, l), Learned(a, l),
         row' = row, pending' = pending, l.hand \in {actor[a].hand, Nothing},
         \A f \in Flight : flight[f].pc = "panic" /\ flight[f].gen # 0 /\ (Handled(f))' => Handled(f)
  PROVE  Kept
<1>1. /\ actor'[a] = l /\ \A b \in Actor \ {a} : actor'[b] = actor[b]
      /\ flight' = flight
  BY NowMoves DEF IInv, Typed, Moved
<1>2. FlightInv' /\ LifeInv' /\ \A b \in Actor : (Knows(b))'
  BY MovedKeeps DEF IInv
<1>3. \A f \in Flight : (Owes(f))' => Owes(f) /\ flight'[f].gen = flight[f].gen
  BY <1>1 DEF Owes
<1>4. DebtInv'
  BY <1>1, <1>3, DebtsKept DEF IInv
<1>5. RecoverySparesFlights'
  BY <1>1 DEF IInv, RecoverySparesFlights
<1>6. QED
  BY <1>2, <1>4, <1>5 DEF Kept

(* An actor that settles what it has in hand settles the last debt.        *)
LEMMA HandLands ==
  ASSUME IInv, NEW a \in Actor, NEW l \in Local, Moved(a, l), Learned(a, l),
         Landed(actor[a].hand), actor[a].hand # Nothing, l.hand = Nothing,
         pending' = pending, active' = active, l.pc # "drain"
  PROVE  Kept /\ row' \in [gen : Gen0, status : Status]
<1>1. /\ actor'[a] = l /\ \A b \in Actor \ {a} : actor'[b] = actor[b]
      /\ flight' = flight
  BY NowMoves DEF IInv, Typed, Moved
<1>2. FlightInv' /\ LifeInv' /\ \A b \in Actor : (Knows(b))'
  BY MovedKeeps DEF IInv
<1>3. /\ pending = Nothing /\ \A f \in Flight : ~Owes(f)
      /\ \A b \in Actor \ {a} : actor[b].hand = Nothing
  BY OneDebt DEF IInv
<1>4. actor[a].hand \in Terminal
  BY DEF IInv, Typed, Local
<1>5. /\ row'.gen = row.gen /\ row'.status \in {"completed", "failed"} /\ row.gen # 0
      /\ row' \in [gen : Gen0, status : Status]
  BY <1>4 DEF Landed, Terminal, IInv, Typed, Status, DebtInv, Running
<1>6. \A f \in Flight : ~(Owes(f))'
  <2>1. \A f \in Flight : (Handled(f))' => Handled(f)
    BY <1>1, Values DEF Handled, At
  <2>2. QED
    BY <1>1, <1>3, <2>1 DEF Owes
<1>7. DebtInv'
  <2>1. Clear'
    BY <1>1, <1>3, <1>6 DEF Clear
  <2>2. QED
    BY <1>5, <2>1, DebtsCleared
<1>8. RecoverySparesFlights'
  BY <1>5 DEF RecoverySparesFlights
<1>9. QED
  BY <1>2, <1>5, <1>7, <1>8 DEF Kept

(* The steps that settle what is owed, of a call or of shutdown. *)
LEMMA AttendKeeps ==
  ASSUME IInv, NEW a \in Actor, Attend(a)
  PROVE  Typed' /\ Kept
<1>t. /\ actor \in [Actor -> Local] /\ actor[a] \in Local /\ pending \in Terminal /\ actor[a].hand \in Terminal
      /\ faults \in 0..MaxFaults
  BY DEF IInv, Typed, Local
<1>p. Carrying \cup {"retry", "check", "idle", "look"} \subseteq Pc
  BY DEF Carrying, Pc
<1>k. /\ actor[a].hand # Nothing <=> actor[a].pc \in Carrying
      /\ IF a = Shutdown THEN actor[a].pc \in Carrying \cup {"idle", "look", "retry", "drain", "check"}
                         ELSE actor[a].pc \notin {"drain", "check"}
  BY DEF IInv, Knows
<1>a. actor[a].pc \in Carrying \cup {"look", "retry"}
  BY DEF Attend, Look, StorePanic, RecordPanic, Retry, Persist, PutBack, At, Carrying
<1>l. ~actor[a].lead
  BY <1>a DEF IInv, Knows, Carrying
<1>r. actor[a].pc \in Carrying \cup {"look"} => recovered
  BY DEF IInv, LifeInv, Actor, Carrying
<1>c. UNCHANGED <<snap, day, mode, flight, active, recovered>> /\ faults' \in 0..MaxFaults
  <2>1. UNCHANGED <<snap, day, mode, flight, active, recovered>>
    BY DEF Attend, Look, StorePanic, RecordPanic, Retry, Persist, PutBack, CallOnly, shared
  <2>2. faults' \in 0..MaxFaults
    BY <1>t, BoundsAssumption
       DEF Attend, Look, StorePanic, RecordPanic, Retry, Persist, PutBack, Landed, NotLanded, Fine, Fault
  <2>3. QED
    BY <2>1, <2>2
<1>h. ASSUME NEW l \in Local, Now(a, l), l.pc # "drain"
      PROVE  /\ actor' \in [Actor -> Local] /\ actor'[a] = l /\ \A b \in Actor \ {a} : actor'[b] = actor[b]
             /\ \A f \in Flight : (Handled(f))' => Handled(f)
  <2>1. actor' \in [Actor -> Local] /\ actor'[a] = l /\ \A b \in Actor \ {a} : actor'[b] = actor[b]
    BY <1>t, <1>h, NowMoves
  <2>2. \A f \in Flight : (Handled(f))' => Handled(f)
    BY <1>c, <1>h, <2>1, Values DEF Handled, At
  <2>3. QED
    BY <2>1, <2>2
<1>m. ASSUME NEW l \in Local, Now(a, l), row'.gen = row.gen,
             IF a = Shutdown THEN l.pc \in Carrying \cup {"look", "retry", "check"}
                             ELSE l.pc \in Carrying \cup {"look", "retry", "idle", "start", "board"},
             l.hand # Nothing <=> l.pc \in Carrying, ~l.lead,
             \/ recovered
             \/ pending' = pending /\ IF a = Shutdown THEN l.pc = "check" ELSE l.pc = "idle"
      PROVE  Moved(a, l) /\ Learned(a, l)
  <2>1. Moved(a, l)
    BY <1>a, <1>c, <1>m DEF Moved, At, Carrying
  <2>2. QED
    BY <1>m, <2>1 DEF Learned, Carrying, Aboard, Landing
<1>g. ASSUME ~recovered PROVE a = Shutdown /\ actor[a].pc = "retry" /\ pending = Nothing
  BY <1>a, <1>g DEF IInv, LifeInv, Actor, Carrying
(* Retry with nothing recorded, and every step that gives a call its way on. *)
<1>1. ASSUME row' = row, pending' = pending, NEW l \in Local, Now(a, l), l.hand = Nothing, ~l.lead,
             \/ Goes(a, l)
             \/ recovered /\ l.pc \in {"retry", "look"}
             \/ recovered /\ a # Shutdown /\ l.pc = "idle"
             \/ recovered /\ a = Shutdown /\ l.pc = "check"
      PROVE  Typed' /\ Kept
  <2>1. IF a = Shutdown THEN l.pc \in {"look", "retry", "check"}
                        ELSE l.pc \in {"look", "retry", "idle", "start", "board"}
    BY <1>1 DEF Goes
  <2>2. l.pc \notin Carrying
    BY <2>1 DEF Carrying
  <2>3. Moved(a, l) /\ Learned(a, l)
    BY <1>1, <1>m, <1>g, <2>1, <2>2 DEF Goes
  <2>4. l.pc # "drain"
    BY <2>1
  <2>5. Kept
    BY <1>1, <1>h, <2>3, <2>4, PlainStep
  <2>6. QED
    BY <1>1, <1>c, <1>h, <2>4, <2>5 DEF IInv, Typed
<1>2. CASE Look(a)
  <2>1. row' = row /\ pending' = pending /\ actor[a].pc = "look" /\ actor[a].hand = Nothing /\ recovered
    BY <1>2, <1>k, <1>r DEF Look, At, shared, Carrying
  <2>2. CASE GiveUp(a, "retry")
    BY <1>1, <1>t, <1>l, <1>p, <2>1, <2>2, GiveUpMoves
  <2>3. CASE To(a, "retry")
    BY <1>1, <1>t, <1>l, <1>p, <2>1, <2>3, ToMoves
  <2>4. QED
    BY <1>2, <2>2, <2>3 DEF Look
<1>3. CASE Retry(a) /\ pending = Nothing
  <2>1. row' = row /\ pending' = pending /\ GoOn(a)
    BY <1>3 DEF Retry
  <2>2. PICK l \in Local : Goes(a, l) /\ Now(a, l)
    BY <1>t, <2>1, GoOnMoves
  <2>3. QED
    BY <1>1, <1>l, <2>1, <2>2 DEF Goes
<1>4. CASE Retry(a) /\ pending # Nothing
  <2> DEFINE l == [actor[a] EXCEPT !.pc = "persist", !.hand = pending]
  <2>1. Now(a, l) /\ row' = row /\ pending' = Nothing /\ recovered
    BY <1>4, <1>g DEF Retry
  <2>2. l \in Local /\ l.pc = "persist" /\ l.hand = pending /\ ~l.lead
    BY <1>t, <1>l, <1>p DEF Local, Carrying
  <2> HIDE DEF l
  <2>3. Moved(a, l) /\ Learned(a, l)
    BY <1>4, <1>m, <2>1, <2>2 DEF Carrying
  <2>4. FlightInv' /\ LifeInv' /\ \A b \in Actor : (Knows(b))'
    BY <2>2, <2>3, MovedKeeps DEF IInv
  <2>5. /\ \A f \in Flight : ~Owes(f)
        /\ \A b \in Actor : actor[b].hand = Nothing
        /\ Running(pending.gen) /\ row.gen # 0
    BY <1>4, OneDebt DEF IInv, DebtInv, Running
  <2>6. /\ \A f \in Flight : ~(Owes(f))' /\ actor' \in [Actor -> Local]
        /\ actor'[a].hand = pending /\ \A b \in Actor \ {a} : actor'[b].hand = Nothing
    BY <1>c, <1>h, <2>1, <2>2, <2>5 DEF Owes
  <2>7. DebtInv'
    <3>1. row' = [gen |-> pending.gen, status |-> "running"] /\ row'.gen # 0
      BY <2>1, <2>5 DEF Running
    <3>2. QED
      BY <1>t, <2>1, <2>6, <3>1, DebtInHand
  <2>8. RecoverySparesFlights'
    BY <1>c, <2>1 DEF IInv, RecoverySparesFlights
  <2>9. actor' \in [Actor -> Local]
    BY <1>h, <2>1, <2>2
  <2>10. QED
    BY <1>c, <2>1, <2>4, <2>7, <2>8, <2>9, Blanks DEF IInv, Typed, Kept
(* What is in hand lands.                                                    *)
<1>5. ASSUME Landed(actor[a].hand), pending' = pending, NEW l \in Local, Now(a, l), l.hand = Nothing, ~l.lead,
             actor[a].pc \in Carrying,
             Goes(a, l) \/ l.pc = "retry" \/ (a # Shutdown /\ l.pc = "idle")
      PROVE  Typed' /\ Kept
  <2>1. IF a = Shutdown THEN l.pc \in {"retry", "check"} ELSE l.pc \in {"retry", "idle", "start", "board"}
    BY <1>5 DEF Goes
  <2>2. l.pc \notin Carrying
    BY <2>1 DEF Carrying
  <2>3. row'.gen = row.gen
    BY <1>5 DEF Landed, IInv, Typed
  <2>4. Moved(a, l) /\ Learned(a, l)
    BY <1>5, <1>m, <1>r, <2>1, <2>2, <2>3
  <2>5. Kept /\ row' \in [gen : Gen0, status : Status]
    BY <1>5, <1>c, <1>k, <2>1, <2>4, HandLands
  <2>6. QED
    BY <1>5, <1>c, <1>h, <2>1, <2>5 DEF IInv, Typed
<1>6. CASE StorePanic(a) /\ Landed(actor[a].hand)
  <2>1. GiveUp(a, "retry") /\ pending' = pending /\ actor[a].pc = "fail"
    <3>1. ~NotLanded(actor[a].hand)
      BY <1>6, <1>t DEF Landed, NotLanded, Terminal, Running, IInv, Typed
    <3>2. QED
      BY <1>6, <3>1 DEF StorePanic, At, shared
  <2>2. QED
    BY <1>5, <1>6, <1>t, <1>l, <1>p, <2>1, GiveUpMoves DEF Carrying
<1>7. CASE Persist(a) /\ Landed(actor[a].hand)
  <2>1. GoOn(a) /\ pending' = pending /\ actor[a].pc = "persist"
    <3>1. ~NotLanded(actor[a].hand)
      BY <1>7, <1>t DEF Landed, NotLanded, Terminal, Running, IInv, Typed
    <3>2. QED
      BY <1>7, <3>1 DEF Persist, At, shared
  <2>2. PICK l \in Local : Goes(a, l) /\ Now(a, l)
    BY <1>t, <2>1, GoOnMoves
  <2>3. l.hand = Nothing /\ ~l.lead /\ actor[a].pc \in Carrying
    BY <1>l, <2>1, <2>2 DEF Goes, Carrying
  <2>4. QED
    BY <1>5, <1>7, <2>1, <2>2, <2>3
(* It does not land: the actor keeps it and goes on to record it.            *)
<1>8. CASE (StorePanic(a) \/ Persist(a)) /\ NotLanded(actor[a].hand)
  <2>1. PICK pc \in {"record", "putBack"} : To(a, pc)
    <3>1. ~Landed(actor[a].hand)
      BY <1>8, <1>t DEF Landed, NotLanded, Terminal, Running, IInv, Typed
    <3>2. QED
      BY <1>8, <3>1 DEF StorePanic, Persist
  <2>2. row' = row /\ pending' = pending /\ actor[a].pc \in Carrying
    BY <1>8 DEF StorePanic, Persist, NotLanded, shared, At, Carrying
  <2>3. PICK l \in Local : Now(a, l) /\ l.pc = pc /\ l.hand = actor[a].hand /\ ~l.lead
    BY <1>t, <1>l, <1>p, <2>1, ToMoves DEF Carrying
  <2>4. Moved(a, l) /\ Learned(a, l)
    BY <1>m, <1>k, <1>r, <2>2, <2>3 DEF Carrying
  <2>5. Kept
    BY <1>h, <2>2, <2>3, <2>4, PlainStep
  <2>6. QED
    BY <1>c, <1>h, <2>2, <2>3, <2>5 DEF IInv, Typed
(* What is in hand is recorded.                                              *)
<1>9. CASE RecordPanic(a) \/ PutBack(a)
  <2>1. actor[a].pc \in {"record", "putBack"} /\ actor[a].hand # Nothing /\ row' = row /\ recovered
    BY <1>9, <1>k, <1>r DEF RecordPanic, PutBack, At, Carrying
  <2>2. /\ pending = Nothing /\ (\A f \in Flight : ~Owes(f))
        /\ \A b \in Actor \ {a} : actor[b].hand = Nothing
    BY <2>1, OneDebt DEF IInv
  <2>3. pending' = actor[a].hand
    BY <1>9, <2>2 DEF RecordPanic, PutBack
  <2>4. PICK pc \in {"retry", "check"} : GiveUp(a, pc)
    BY <1>9 DEF RecordPanic, PutBack
  <2>5. PICK l \in Local : Now(a, l) /\ l.hand = Nothing /\ ~l.lead /\ l.pc = IF a = Shutdown THEN pc ELSE "idle"
    BY <1>t, <1>l, <1>p, <2>4, GiveUpMoves
  <2>6. Moved(a, l) /\ Learned(a, l)
    BY <1>m, <2>1, <2>5 DEF Carrying
  <2>7. FlightInv' /\ LifeInv' /\ \A b \in Actor : (Knows(b))'
    BY <2>6, MovedKeeps DEF IInv
  <2>8. /\ \A f \in Flight : ~(Owes(f))'
        /\ \A b \in Actor : actor'[b].hand = Nothing
    BY <1>c, <1>h, <2>2, <2>5 DEF Owes
  <2>9. row' = [gen |-> actor[a].hand.gen, status |-> "running"] /\ row'.gen # 0
    BY <2>1 DEF IInv, DebtInv, Running
  <2>10. DebtInv'
    BY <1>t, <2>3, <2>8, <2>9, DebtRecorded
  <2>11. RecoverySparesFlights'
    BY <1>c, <2>1 DEF IInv, RecoverySparesFlights
  <2>12. actor' \in [Actor -> Local]
    BY <1>h, <2>5
  <2>13. QED
    BY <1>c, <1>t, <2>1, <2>3, <2>7, <2>10, <2>11, <2>12 DEF IInv, Typed, Kept
<1>10. QED
  BY <1>2, <1>3, <1>4, <1>6, <1>7, <1>8, <1>9 DEF Attend, StorePanic, Persist

(* Steps of a call that change the row, the maps and the flights at most by  *)
(* dropping the handle of a flight that landed.                              *)
PlainCall(c) == Begin(c) \/ Start(c) \/ Hear(c) \/ Abandon(c) \/ ReapOwn(c) \/ Join(c) \/ Answered(c)

(* They owe nothing and keep everything. *)
LEMMA PlainCallKeeps ==
  ASSUME IInv, NEW c \in Call, PlainCall(c)
  PROVE  Typed' /\ Kept
<1>t. /\ actor \in [Actor -> Local] /\ actor[c] \in Local /\ c \in Actor /\ c # Shutdown
      /\ faults \in 0..MaxFaults
  BY Values DEF IInv, Typed
<1>k. /\ actor[c].hand # Nothing <=> actor[c].pc \in Carrying
      /\ actor[c].pc \in Aboard => actor[c].on \in Flight /\ flight[actor[c].on].pc # "none"
      /\ actor[c].pc \in Landing => Sent(flight[actor[c].on])
      /\ actor[c].lead => actor[c].pc = "wait"
      /\ actor[c].lead \/ actor[c].pc = "reapOwn" => flight[actor[c].on].gen = 0
  BY <1>t DEF IInv, Knows
<1>a. actor[c].pc \in {"idle", "start"} \cup Aboard
  BY DEF PlainCall, Begin, Start, Hear, Abandon, ReapOwn, Join, Answered, At, Aboard
<1>e. actor[c].hand = Nothing /\ ~At(c, "drain")
  BY <1>a, <1>k DEF Carrying, Aboard, At
<1>c. UNCHANGED <<row, snap, day, mode, recovered, pending, flight>> /\ faults' \in 0..MaxFaults
  <2>1. UNCHANGED <<row, snap, day, mode, recovered, pending, flight>>
    BY DEF PlainCall, Begin, Start, Hear, Abandon, ReapOwn, Join, Answered, CallOnly, shared
  <2>2. UNCHANGED faults \/ (faults' = faults + 1 /\ faults < MaxFaults)
    <3>1. CASE Start(c)
      BY <3>1 DEF Start, Fine, Fault
    <3>2. CASE Begin(c)
      BY <3>2 DEF Begin
    <3>3. CASE Hear(c) \/ Abandon(c) \/ ReapOwn(c) \/ Join(c) \/ Answered(c)
      BY <3>3 DEF Hear, Abandon, ReapOwn, Join, Answered
    <3>4. QED
      BY <3>1, <3>2, <3>3 DEF PlainCall
  <2>3. faults' \in 0..MaxFaults
    BY <1>t, <2>2, BoundsAssumption
  <2>4. QED
    BY <2>1, <2>3
<1>g. ~recovered => actor[c].pc = "idle"
  BY <1>a DEF IInv, LifeInv, Aboard
<1>s. \A f \in Flight : Sent(flight[f]) => flight[f].pc \notin AtWork
  BY DEF Sent, AtWork, Finished
(* The call, its new step, and the handle it may drop.                       *)
<1>1. ASSUME NEW l \in Local, Now(c, l), l.hand = Nothing, ~l.lead,
             l.pc \in {"idle", "recover", "insert", "reapOwn", "join", "told"},
             l.pc \in {"reapOwn", "join", "told"} => l.on = actor[c].on /\ actor[c].pc \in Aboard /\ Sent(flight[l.on]),
             l.pc = "reapOwn" => flight[l.on].gen = 0,
             l.pc = "insert" => active = 0 /\ LockFree,
             l.pc \in {"idle", "recover"} \/ actor[c].pc # "idle",
             active' = active \/ (active' = 0 /\ active # 0 /\ Sent(flight[active]) /\ flight[active].gen = 0)
      PROVE  Typed' /\ Kept
  <2>1. active' = active \/ (active' = 0 /\ flight[active].pc \notin AtWork)
    BY <1>1, <1>s, Values DEF IInv, Typed
  <2>2. Moved(c, l)
    BY <1>1, <1>t, <1>c, <1>e, <1>g, <2>1 DEF Moved
  <2>3. Learned(c, l)
    BY <1>1, <1>t, <1>k DEF Learned, Carrying, Aboard, Landing
  <2>4. actor' \in [Actor -> Local] /\ \A b \in Actor \ {c} : actor'[b] = actor[b]
    BY <1>1, <1>t, NowMoves
  <2>5. \A f \in Flight : (Handled(f))' => Handled(f)
    BY <1>1, <1>t, <2>4, Values DEF Handled, At
  <2>6. Kept
    BY <1>1, <1>c, <1>e, <1>t, <2>2, <2>3, <2>5, PlainStep
  <2>7. active' \in Flight0
    BY <1>1, Values DEF IInv, Typed
  <2>8. QED
    BY <1>c, <2>4, <2>6, <2>7 DEF IInv, Typed
<1>n. NoActor \in Local /\ NoActor.pc = "idle" /\ NoActor.hand = Nothing /\ ~NoActor.lead
  BY Blanks DEF NoActor
<1>2. CASE Begin(c)
  <2>1. PICK op \in Requests[c] :
          Now(c, [NoActor EXCEPT !.pc = "recover", !.op = op, !.at = IF op \in {"refresh", "ifStale"} THEN day ELSE 0])
    BY <1>2 DEF Begin
  <2> DEFINE at == IF op \in {"refresh", "ifStale"} THEN day ELSE 0
             l == [NoActor EXCEPT !.pc = "recover", !.op = op, !.at = at]
  <2>2. at \in Day0
    BY Values DEF IInv, Typed
  <2>3. op \in Op
    BY <1>t, RequestsAssumption
  <2> HIDE DEF at
  <2>4. l \in Local /\ l.pc = "recover" /\ l.hand = Nothing /\ ~l.lead
    BY <1>n, <2>2, <2>3 DEF Local, Pc
  <2> HIDE DEF l
  <2>5. Now(c, l) /\ active' = active
    BY <1>2, <2>1 DEF Begin, shared, l, at
  <2>6. QED
    BY <1>1, <2>4, <2>5
<1>3. CASE Start(c)
  <2>1. active' = active /\ actor[c].pc = "start"
    BY <1>3 DEF Start, shared, At
  <2>2. CASE Leave(c)
    BY <1>1, <1>n, <2>1, <2>2 DEF Leave
  <2>3. CASE To(c, "insert") /\ active = 0 /\ LockFree
    <3>1. PICK l \in Local : Now(c, l) /\ l.pc = "insert" /\ l.hand = Nothing /\ ~l.lead
      BY <1>t, <1>e, <1>k, <2>1, <2>3, ToMoves DEF Pc
    <3>2. QED
      BY <1>1, <2>1, <2>3, <3>1
  <2>4. QED
    BY <1>3, <2>2, <2>3 DEF Start
<1>4. CASE Hear(c)
  <2>1. PICK pc \in {"reapOwn", "told"} :
          /\ Now(c, [actor[c] EXCEPT !.pc = pc, !.lead = FALSE])
          /\ pc = "reapOwn" => actor[c].lead
    BY <1>4 DEF Hear
  <2> DEFINE l == [actor[c] EXCEPT !.pc = pc, !.lead = FALSE]
  <2>2. l \in Local /\ l.pc = pc /\ l.hand = Nothing /\ l.on = actor[c].on /\ ~l.lead
    BY <1>t, <1>e DEF Local, Pc
  <2>3. actor[c].pc = "wait" /\ Sent(flight[actor[c].on]) /\ active' = active
    BY <1>4 DEF Hear, At, shared
  <2> HIDE DEF l
  <2>4. Now(c, l)
    BY <2>1 DEF l
  <2>5. pc = "reapOwn" => flight[l.on].gen = 0
    BY <1>k, <2>1, <2>2, <2>3
  <2>6. QED
    BY <1>1, <2>2, <2>3, <2>4, <2>5 DEF Aboard
<1>5. CASE Abandon(c) \/ Answered(c)
  <2>1. Leave(c) /\ active' = active
    BY <1>5 DEF Abandon, Answered, shared
  <2>2. QED
    BY <1>1, <1>n, <2>1 DEF Leave
<1>6. CASE ReapOwn(c) \/ Join(c)
  <2>1. PICK pc \in {"join", "told"} : To(c, pc)
    BY <1>6 DEF ReapOwn, Join
  <2>2. PICK l \in Local : Now(c, l) /\ l.pc = pc /\ l.hand = Nothing /\ l.on = actor[c].on /\ ~l.lead
    BY <1>t, <1>e, <1>k, <1>6, <2>1, ToMoves DEF Pc, ReapOwn, Join, At
  <2>3. actor[c].pc \in {"reapOwn", "join"} /\ actor[c].pc \in Aboard /\ Sent(flight[actor[c].on]) /\ actor[c].on # 0
    BY <1>6, <1>k, Values DEF ReapOwn, Join, At, Aboard, Landing
  <2>4. active' = active \/ (active' = 0 /\ active = actor[c].on /\ actor[c].pc = "reapOwn")
    BY <1>6 DEF ReapOwn, Join, shared, At
  <2>5. QED
    BY <1>1, <1>k, <2>2, <2>3, <2>4
<1>7. QED
  BY <1>2, <1>3, <1>4, <1>5, <1>6 DEF PlainCall

(* The call that recovers finds nothing started, and interrupts what an      *)
(* earlier process left.                                                     *)
LEMMA RecoverKeeps ==
  ASSUME IInv, NEW c \in Call, Recover(c)
  PROVE  Typed' /\ Kept
<1>t. /\ actor \in [Actor -> Local] /\ actor[c] \in Local /\ c \in Actor /\ c # Shutdown
      /\ faults \in 0..MaxFaults /\ actor[c].pc = "recover"
      /\ row \in [gen : Gen0, status : Status] /\ recovered \in BOOLEAN
  BY Values DEF IInv, Typed, Recover, At
<1>e. actor[c].hand = Nothing /\ ~actor[c].lead /\ ~At(c, "drain")
  BY <1>t DEF IInv, Knows, Carrying, At
<1>n. NoActor \in Local /\ NoActor.pc = "idle" /\ NoActor.hand = Nothing /\ ~NoActor.lead
  BY Blanks DEF NoActor
<1>c. UNCHANGED <<snap, day, mode, flight, active, pending>> /\ faults' \in 0..MaxFaults
  BY <1>t, BoundsAssumption DEF Recover, CallOnly, shared, Fine, Fault
<1>1. PICK l \in Local : /\ Now(c, l) /\ l.hand = Nothing /\ ~l.lead
                         /\ \/ l.pc = "reap" /\ recovered'
                            \/ l.pc = "idle" /\ recovered' = recovered
  <2>1. CASE To(c, "reap") /\ recovered'
    <3>1. "reap" \in Pc
      BY DEF Pc
    <3>2. PICK l \in Local : Now(c, l) /\ l.pc = "reap" /\ l.hand = actor[c].hand /\ l.lead = actor[c].lead
      BY <1>t, <2>1, <3>1, ToMoves
    <3>3. QED
      BY <1>e, <2>1, <3>2
  <2>2. CASE Leave(c) /\ recovered' = recovered
    BY <1>n, <2>2 DEF Leave
  <2>3. QED
    BY <1>t, <2>1, <2>2 DEF Recover
<1>2. \/ row' = row
      \/ /\ ~recovered /\ row.status = "running" /\ row' = [row EXCEPT !.status = "interrupted"]
  BY DEF Recover
<1>3. row'.gen = row.gen /\ row' \in [gen : Gen0, status : Status] /\ recovered' \in BOOLEAN
  <2>1. row' \in [gen : Gen0, status : Status] /\ row'.gen = row.gen
    BY <1>t, <1>2 DEF Status
  <2>2. QED
    BY <1>t, <1>1, <2>1
<1>4. Moved(c, l)
  BY <1>t, <1>c, <1>e, <1>1, <1>3 DEF Moved
<1>5. Learned(c, l)
  BY <1>t, <1>1 DEF Learned, Carrying, Aboard, Landing
<1>6. actor' \in [Actor -> Local] /\ actor'[c] = l /\ \A b \in Actor \ {c} : actor'[b] = actor[b]
  BY <1>t, <1>1, NowMoves
<1>7. Typed'
  BY <1>c, <1>3, <1>6 DEF IInv, Typed
<1>8. CASE row' = row
  <2>1. \A f \in Flight : (Handled(f))' => Handled(f)
    BY <1>t, <1>c, <1>6, Values DEF Handled, At
  <2>2. Kept
    BY <1>t, <1>c, <1>e, <1>1, <1>4, <1>5, <1>8, <2>1, PlainStep
  <2>3. QED
    BY <1>7, <2>2
<1>9. CASE ~recovered /\ row.status = "running" /\ row' = [row EXCEPT !.status = "interrupted"]
  <2>1. FlightInv' /\ LifeInv' /\ \A b \in Actor : (Knows(b))'
    BY <1>t, <1>4, <1>5, MovedKeeps DEF IInv
  <2>2. /\ \A f \in Flight : flight'[f].pc = "none"
        /\ pending' = Nothing /\ \A b \in Actor : actor[b].pc \in {"idle", "recover", "retry", "check"}
    BY <1>c, <1>9 DEF IInv, LifeInv, Actor
  <2>3. Clear'
    <3>1. \A b \in Actor : actor[b].hand = Nothing
      BY <2>2 DEF IInv, Knows, Carrying
    <3>2. \A b \in Actor : actor'[b].hand = Nothing
      BY <1>1, <1>6, <3>1
    <3>3. \A f \in Flight : ~(Owes(f))'
      BY <2>2 DEF Owes, AtWork
    <3>4. QED
      BY <2>2, <3>2, <3>3 DEF Clear
  <2>4. row'.gen # 0
    BY <1>3, <1>9 DEF IInv, DebtInv
  <2>5. DebtInv' /\ RecoverySparesFlights'
    BY <2>2, <2>3, <2>4, DebtsCleared DEF RecoverySparesFlights
  <2>6. QED
    BY <1>7, <2>1, <2>5 DEF Kept
<1>10. QED
  BY <1>2, <1>8, <1>9

(* Whoever sees how a task ended - a call that takes the handle of the       *)
(* service, or shutdown, which took it - takes over what it owes.            *)
LEMMA SeenTask ==
  ASSUME IInv, NEW a \in Actor, NEW f \in Flight, flight[f].pc \in Finished, SeeTask(a, flight[f]),
         Handled(f), \A b \in Actor : At(b, "drain") => b = Shutdown,
         UNCHANGED <<row, snap, day, mode, recovered, pending, flight, faults>>,
         \/ a # Shutdown /\ active = f /\ active' = 0 /\ At(a, "reap")
         \/ a = Shutdown /\ active' = active /\ At(a, "drain") /\ actor[a].on = f
  PROVE  Typed' /\ Kept
<1>t. /\ actor \in [Actor -> Local] /\ flight[f] \in Task /\ flight[f].gen \in Gen0
      /\ flight[f].pc \notin AtWork /\ flight[f].pc # "none"
  BY DEF IInv, Typed, Task, AtWork, Finished
<1>e. actor[a].hand = Nothing /\ ~actor[a].lead
  BY DEF IInv, Knows, At, Carrying
<1>r. recovered
  BY <1>t DEF IInv, LifeInv
<1>1. PICK l \in Local :
        /\ Now(a, l) /\ ~l.lead
        /\ IF flight[f].pc = "panic" /\ flight[f].gen # 0
           THEN l.pc = "fail" /\ l.hand = Fail(flight[f].gen)
           ELSE l.hand = Nothing /\ (l.pc \in {"retry", "look"} \/ (a # Shutdown /\ l.pc = "idle"))
  BY <1>t, <1>e, SeeTaskMoves
<1>2. actor' \in [Actor -> Local] /\ actor'[a] = l /\ \A b \in Actor \ {a} : actor'[b] = actor[b]
  BY <1>t, <1>1, NowMoves
<1>f. /\ Fail(flight[f].gen) \in Terminal /\ Fail(flight[f].gen).gen = flight[f].gen
      /\ flight[f].gen # 0 => Fail(flight[f].gen) # Nothing
  BY <1>t, TerminalOfJob
<1>3. Moved(a, l)
  <2>1. active' = active \/ (active' = 0 /\ flight[active].pc \notin AtWork)
    BY <1>t
  <2>2. At(a, "drain") => flight[actor[a].on].pc \notin AtWork
    BY <1>t DEF At
  <2>3. a = Shutdown => ~At(a, "idle")
    BY DEF At
  <2>4. l.pc # "insert"
    BY <1>1
  <2>5. QED
    BY <1>r, <1>1, <2>1, <2>2, <2>3, <2>4 DEF Moved
<1>4. Learned(a, l)
  BY <1>1, <1>f DEF Learned, Carrying, Aboard, Landing
<1>5. Typed'
  <2>1. active' \in Flight0
    BY Values DEF IInv, Typed
  <2>2. QED
    BY <1>2, <2>1 DEF IInv, Typed
<1>6. ~(Handled(f))' /\ \A g \in Flight : (Handled(g))' => Handled(g)
  <2>1. l.pc # "drain"
    BY <1>1
  <2>2. At(Shutdown, "drain") => actor[Shutdown].on # active
    BY DEF IInv, LifeInv
  <2>3. CASE a = Shutdown
    <3>1. active # f /\ active' = active /\ ~(At(Shutdown, "drain"))'
      BY <1>2, <2>1, <2>2, <2>3 DEF At
    <3>2. QED
      BY <3>1 DEF Handled
  <2>4. CASE a # Shutdown
    <3>1. active' = 0 /\ actor'[Shutdown] = actor[Shutdown] /\ 0 \notin Flight
      BY <1>2, <2>4, Values
    <3>2. ~(At(Shutdown, "drain") /\ actor[Shutdown].on = f)
      BY <2>2, <2>4
    <3>3. QED
      BY <3>1, <3>2 DEF Handled, At
  <2>5. QED
    BY <2>3, <2>4
<1>7. CASE flight[f].pc = "panic" /\ flight[f].gen # 0
  <2>1. Owes(f)
    BY <1>7 DEF Owes
  <2>2. /\ Running(flight[f].gen) /\ pending = Nothing /\ \A b \in Actor : actor[b].hand = Nothing
        /\ \A g \in Flight : Owes(g) => g = f
    BY <2>1, OneDebt DEF IInv, DebtInv
  <2>3. \A g \in Flight : ~(Owes(g))'
    BY <1>t, <1>6, <2>2 DEF Owes
  <2>4. DebtInv'
    <3>1. row' = [gen |-> Fail(flight[f].gen).gen, status |-> "running"] /\ row'.gen # 0
      BY <1>7, <1>f, <2>2 DEF Running
    <3>2. actor'[a].hand = Fail(flight[f].gen) /\ \A b \in Actor \ {a} : actor'[b].hand = Nothing
      BY <1>1, <1>2, <1>7, <2>2
    <3>3. QED
      BY <1>f, <2>2, <2>3, <3>1, <3>2, DebtInHand
  <2>5. FlightInv' /\ LifeInv' /\ \A b \in Actor : (Knows(b))'
    BY <1>3, <1>4, MovedKeeps DEF IInv
  <2>6. RecoverySparesFlights'
    BY DEF IInv, RecoverySparesFlights
  <2>7. QED
    BY <1>5, <2>4, <2>5, <2>6 DEF Kept
<1>8. CASE ~(flight[f].pc = "panic" /\ flight[f].gen # 0)
  <2>1. l.hand = Nothing
    BY <1>1, <1>8
  <2>2. Kept
    BY <1>3, <1>4, <1>6, <2>1, PlainStep
  <2>3. QED
    BY <1>5, <2>2
<1>9. QED
  BY <1>7, <1>8

(* A call that reaps, and shutdown when the flight it took has landed. *)
LEMMA ReapKeeps ==
  ASSUME IInv, \/ \E c \in Call : Reap(c)
               \/ Drained
  PROVE  Typed' /\ Kept
<1>d. \A b \in Actor : At(b, "drain") => b = Shutdown
  BY DEF IInv, Knows, At
<1>1. CASE Drained
  <2>1. PICK f \in Flight : f = actor[Shutdown].on
    BY <1>1, Values DEF Drained, At, IInv, Knows
  <2>2. /\ flight[f].pc \in Finished /\ SeeTask(Shutdown, flight[f])
        /\ UNCHANGED <<row, snap, day, mode, recovered, pending, flight, faults, active>>
        /\ At(Shutdown, "drain") /\ Handled(f)
    BY <1>1, <2>1 DEF Drained, CallOnly, shared, Handled
  <2>3. QED
    BY <1>d, <2>1, <2>2, Values, SeenTask
<1>2. ASSUME NEW c \in Call, Reap(c), active # 0, flight[active].pc \in Finished PROVE Typed' /\ Kept
  <2>1. PICK f \in Flight : f = active
    BY <1>2, Values DEF IInv, Typed
  <2>2. /\ flight[f].pc \in Finished /\ SeeTask(c, flight[f])
        /\ UNCHANGED <<row, snap, day, mode, recovered, pending, flight, faults>>
        /\ active' = 0 /\ Handled(f) /\ At(c, "reap") /\ c # Shutdown
    BY <1>2, <2>1, Values DEF Reap, CallOnly, Handled
  <2>3. QED
    BY <1>d, <2>1, <2>2, Values, SeenTask
<1>3. ASSUME NEW c \in Call, Reap(c), ~(active # 0 /\ flight[active].pc \in Finished) PROVE Typed' /\ Kept
  <2>t. actor \in [Actor -> Local] /\ c \in Actor /\ c # Shutdown /\ "retry" \in Pc /\ actor[c].pc = "reap"
    BY <1>3, Values DEF IInv, Typed, Pc, Reap, At
  <2>1. To(c, "retry") /\ UNCHANGED <<row, snap, day, mode, recovered, pending, flight, faults, active>>
    BY <1>3 DEF Reap, CallOnly
  <2>e. actor[c].hand = Nothing /\ ~actor[c].lead /\ recovered
    BY <2>t DEF IInv, Knows, Carrying, LifeInv
  <2>2. PICK l \in Local : Now(c, l) /\ l.pc = "retry" /\ l.hand = Nothing /\ ~l.lead
    BY <2>t, <2>e, <2>1, ToMoves
  <2>3. actor' \in [Actor -> Local] /\ \A b \in Actor \ {c} : actor'[b] = actor[b]
    BY <2>t, <2>2, NowMoves
  <2>4. Moved(c, l) /\ Learned(c, l)
    BY <2>t, <2>e, <2>1, <2>2 DEF Moved, Learned, Carrying, Aboard, Landing, At
  <2>5. \A f \in Flight : (Handled(f))' => Handled(f)
    BY <2>t, <2>1, <2>3, Values DEF Handled, At
  <2>6. Kept
    BY <2>t, <2>1, <2>2, <2>4, <2>5, PlainStep
  <2>7. QED
    BY <2>1, <2>3, <2>6 DEF IInv, Typed
<1>4. QED
  BY <1>1, <1>2, <1>3

-----------------------------------------------------------------------------
(* Departures.                                                             *)

(* A departure takes the lowest record that is free, and makes it the       *)
(* flight of the service.                                                   *)
LEMMA LaunchKeeps ==
  ASSUME IInv, NEW c \in Call, NEW l \in Local, Now(c, l),
         NEW f \in Flight, NEW t \in Task, Launch(f, t), t.pc \in {"spawned", "work"},
         active = 0, UNCHANGED <<mode, recovered, pending>>, recovered,
         \A d \in Call \ {c} : ~At(d, "insert"),
         row' \in [gen : Gen0, status : Status],
         \/ row' = row /\ t.gen = 0 /\ l.pc = "wait" /\ l.on = f
         \/ /\ row.status # "running" /\ t.gen = row.gen + 1 /\ l.pc = "idle"
            /\ row' = [gen |-> t.gen, status |-> "running"],
         l.hand = Nothing, actor[c].hand = Nothing, l.lead => l.pc = "wait"
  PROVE  Kept /\ actor' \in [Actor -> Local] /\ flight' \in [Flight -> Task] /\ active' \in Flight0
<1>t. /\ actor \in [Actor -> Local] /\ flight \in [Flight -> Task] /\ c \in Actor /\ c # Shutdown
      /\ row.gen \in Nat /\ f \in Nat /\ f # 0 /\ row'.gen \in Nat
  BY Values DEF IInv, Typed
<1>1. actor' \in [Actor -> Local] /\ actor'[c] = l /\ \A b \in Actor \ {c} : actor'[b] = actor[b]
  BY <1>t, NowMoves
<1>2. /\ flight' \in [Flight -> Task] /\ flight'[f] = t /\ \A g \in Flight \ {f} : flight'[g] = flight[g]
      /\ active' = f /\ flight[f].pc = "none" /\ flight[f].gen = 0
      /\ \A g \in Flight : g < f => flight[g].pc # "none"
  BY <1>t, FlyMoves DEF Launch, Departs, IInv, FlightInv
<1>3. row'.gen >= row.gen /\ t.gen <= row'.gen /\ t.pc \in AtWork /\ t.pc # "none"
  BY <1>t DEF AtWork
<1>4. Flies
  BY <1>2 DEF Flies
<1>5. \A b \in Actor : (Knows(b))'
  <2>1. ASSUME NEW b \in Actor, b # c PROVE (Knows(b))'
    BY <1>1, <1>4, <2>1, KnowsStays DEF IInv
  <2>2. (Knows(c))'
    BY <1>t, <1>1, <1>2, <1>3 DEF Knows, Carrying, Aboard, Landing
  <2>3. QED
    BY <2>1, <2>2
<1>6. actor'[Shutdown] = actor[Shutdown]
  BY <1>t, <1>1, Values
<1>7. \A g \in Flight : Handled(g) => (Handled(g))'
  BY <1>t, <1>6, Values DEF Handled, At
<1>8. FlightInv'
  <2>1. \A g \in Flight : /\ flight'[g].gen <= row'.gen
                          /\ flight'[g].pc = "none" => flight'[g].gen = 0
                          /\ flight'[g].pc \in {"terminal", "record"} => flight'[g].gen # 0
                          /\ flight'[g].pc \in AtWork => (Handled(g))'
    <3>1. ASSUME NEW g \in Flight, g # f
          PROVE  /\ flight'[g].gen <= row'.gen
                 /\ flight'[g].pc = "none" => flight'[g].gen = 0
                 /\ flight'[g].pc \in {"terminal", "record"} => flight'[g].gen # 0
                 /\ flight'[g].pc \in AtWork => (Handled(g))'
      <4>1. flight'[g] = flight[g] /\ flight[g].gen <= row.gen /\ flight[g].gen \in Nat
        BY <1>2, <1>t, <3>1, Values DEF IInv, FlightInv, Task
      <4>2. flight[g].pc = "none" => flight[g].gen = 0
        BY <3>1 DEF IInv, FlightInv
      <4>3. flight[g].pc \in {"terminal", "record"} => flight[g].gen # 0
        BY <3>1 DEF IInv, FlightInv
      <4>4. flight[g].pc \in AtWork => (Handled(g))'
        BY <1>7, <3>1 DEF IInv, FlightInv
      <4>5. flight[g].gen <= row'.gen
        BY <1>3, <1>t, <4>1
      <4>6. QED
        BY <4>1, <4>2, <4>3, <4>4, <4>5
    <3>2. (Handled(f))'
      BY <1>2 DEF Handled
    <3>3. QED
      BY <1>2, <1>3, <3>1, <3>2
  <2>2. \A g, h \in Flight : flight'[g].gen = flight'[h].gen => g = h \/ flight'[g].gen = 0
    <3>1. \A g \in Flight \ {f} : flight'[g].gen = t.gen => t.gen = 0
      <4>1. ASSUME NEW g \in Flight \ {f}, flight'[g].gen = t.gen PROVE t.gen = 0
        <5>1. flight[g].gen = t.gen /\ flight[g].gen <= row.gen
          BY <1>2, <4>1 DEF IInv, FlightInv
        <5>2. QED
          BY <1>t, <5>1
      <4>2. QED
        BY <4>1
    <3>2. \A g, h \in Flight \ {f} : flight'[g].gen = flight'[h].gen => g = h \/ flight'[g].gen = 0
      BY <1>2 DEF IInv, FlightInv
    <3>3. QED
      BY <1>2, <3>1, <3>2
  <2>3. \A g \in Flight : g > f => flight'[g].pc = "none"
    BY <1>t, <1>2, Values DEF IInv, FlightInv
  <2>4. \A g, h \in Flight : g < h /\ flight'[h].pc # "none" => flight'[g].pc # "none"
    <3>1. ASSUME NEW g \in Flight, NEW h \in Flight, g < h, flight'[h].pc # "none" PROVE flight'[g].pc # "none"
      <4>1. CASE g = f
        BY <1>2, <1>3, <4>1
      <4>2. CASE h = f /\ g # f
        BY <1>2, <3>1, <4>2
      <4>3. CASE h # f /\ g # f
        BY <1>2, <3>1, <4>3 DEF IInv, FlightInv
      <4>4. QED
        BY <4>1, <4>2, <4>3
    <3>2. QED
      BY <3>1
  <2>5. QED
    BY <1>2, <1>3, <2>1, <2>2, <2>3, <2>4 DEF FlightInv
<1>9. LifeInv'
  <2>1. ~(At(Shutdown, "drain") /\ actor[Shutdown].on = f)
    BY <1>2 DEF IInv, Knows, At, Aboard, Actor
  <2>2. (At(Shutdown, "drain"))' => actor'[Shutdown].on # active'
    BY <1>2, <1>6, <2>1 DEF At
  <2>3. \A d \in Call : ~(At(d, "insert"))'
    BY <1>1, Values DEF At
  <2>4. mode' # "draining" => (At(Shutdown, "idle"))'
    BY <1>6 DEF IInv, LifeInv, At
  <2>5. QED
    BY <2>2, <2>3, <2>4 DEF LifeInv
<1>10. DebtInv' /\ RecoverySparesFlights'
  <2>1. \A g \in Flight : (Handled(g))' => Handled(g) \/ g = f
    BY <1>2, <1>6 DEF Handled, At
  <2>2. CASE row' = row /\ t.gen = 0
    <3>1. \A g \in Flight : (Owes(g))' => Owes(g) /\ flight'[g].gen = flight[g].gen
      BY <1>2, <2>1, <2>2 DEF Owes
    <3>2. \A b \in Actor : actor'[b].hand = actor[b].hand
      BY <1>1
    <3>3. DebtInv'
      BY <2>2, <3>1, <3>2, DebtsKept DEF IInv
    <3>4. row.status = "interrupted" => row.gen # 0
      BY DEF IInv, DebtInv
    <3>5. RecoverySparesFlights'
      BY <1>2, <2>2, <3>4 DEF IInv, RecoverySparesFlights
    <3>6. QED
      BY <3>3, <3>5
  <2>3. CASE row.status # "running" /\ t.gen = row.gen + 1 /\ row' = [gen |-> t.gen, status |-> "running"]
    <3>1. Clear
      BY <2>3, OneDebt DEF IInv
    <3>2. \A g \in Flight : (Owes(g))' => g = f
      BY <1>2, <2>1, <3>1 DEF Owes, Clear
    <3>3. \A b \in Actor : actor'[b].hand = Nothing
      BY <1>1, <3>1 DEF Clear
    <3>4. (Running(t.gen))' /\ row'.gen # 0 /\ pending' = Nothing
      BY <1>t, <2>3, <3>1 DEF Running, Clear
    <3>5. DebtInv'
      <4>1. \A g \in Flight : (Owes(g))' => (Running(flight[g].gen))'
        BY <1>2, <3>2, <3>4 DEF Running
      <4>2. QED
        BY <3>3, <3>4, <4>1 DEF DebtInv
    <3>6. RecoverySparesFlights'
      BY <2>3 DEF RecoverySparesFlights
    <3>7. QED
      BY <3>5, <3>6
  <2>4. QED
    BY <2>2, <2>3
<1>11. QED
  BY <1>1, <1>2, <1>5, <1>8, <1>9, <1>10, Values DEF Kept


(* A job is started, or the call ends. *)
LEMMA InsertKeeps ==
  ASSUME IInv, NEW c \in Call, Insert(c)
  PROVE  Typed' /\ Kept
<1>t. /\ actor \in [Actor -> Local] /\ c \in Actor /\ c # Shutdown /\ faults \in 0..MaxFaults
      /\ actor[c].pc = "insert" /\ row \in [gen : Gen0, status : Status]
  BY Values DEF IInv, Typed, Insert, At
<1>e. actor[c].hand = Nothing /\ recovered /\ active = 0 /\ \A d \in Call \ {c} : ~At(d, "insert")
  BY <1>t DEF IInv, Knows, Carrying, LifeInv, At
<1>n. NoActor \in Local /\ NoActor.pc = "idle" /\ NoActor.hand = Nothing /\ ~NoActor.lead
  BY Blanks DEF NoActor
<1>1. Now(c, NoActor) /\ UNCHANGED <<snap, day, mode, recovered, pending>>
  BY DEF Insert, Leave, process
<1>2. faults' \in 0..MaxFaults
  <2>1. UNCHANGED faults \/ (faults' = faults + 1 /\ faults < MaxFaults)
    BY DEF Insert, Fine, Fault
  <2>2. QED
    BY <1>t, <2>1, BoundsAssumption
<1>3. CASE UNCHANGED <<row, active, flight>>
  <2>1. Moved(c, NoActor) /\ Learned(c, NoActor)
    BY <1>t, <1>e, <1>n, <1>1, <1>3 DEF Moved, Learned, Carrying, Aboard, Landing, At
  <2>2. actor' \in [Actor -> Local] /\ \A b \in Actor \ {c} : actor'[b] = actor[b]
    BY <1>t, <1>n, <1>1, NowMoves
  <2>3. \A f \in Flight : (Handled(f))' => Handled(f)
    BY <1>t, <1>3, <2>2, Values DEF Handled, At
  <2>4. Kept
    BY <1>t, <1>n, <1>1, <1>3, <2>1, <2>3, PlainStep
  <2>5. QED
    BY <1>1, <1>2, <1>3, <2>2, <2>4 DEF IInv, Typed
<1>4. ASSUME NEW f \in Flight, NEW t, t = [NoTask EXCEPT !.pc = "spawned", !.gen = row.gen + 1], Launch(f, t),
             row.status # "running", row.gen + 1 <= MaxGen,
             row' = [gen |-> row.gen + 1, status |-> "running"]
      PROVE  Typed' /\ Kept
  <2>1. row.gen + 1 \in Gen0 /\ "running" \in Status
    BY <1>t, <1>4, BoundsAssumption DEF Gen0, Status
  <2>2. t \in Task /\ t.pc = "spawned" /\ t.gen = row.gen + 1
    BY <1>4, <2>1, Blanks DEF Task, NoTask, AtWork
  <2>3. row' \in [gen : Gen0, status : Status] /\ row' = [gen |-> t.gen, status |-> "running"]
    BY <1>4, <2>1, <2>2
  <2>4. Kept /\ actor' \in [Actor -> Local] /\ flight' \in [Flight -> Task] /\ active' \in Flight0
    BY <1>t, <1>e, <1>n, <1>1, <1>4, <2>2, <2>3, LaunchKeeps
  <2>5. QED
    BY <1>1, <1>2, <2>3, <2>4 DEF IInv, Typed
<1>5. QED
  BY <1>3, <1>4 DEF Insert

(* A direct refresh leads a flight, or follows the one there is. *)
LEMMA BoardKeeps ==
  ASSUME IInv, NEW c \in Call, BeginFlight(c)
  PROVE  Typed' /\ Kept
<1>t. /\ actor \in [Actor -> Local] /\ c \in Actor /\ c # Shutdown /\ actor[c] \in Local
      /\ actor[c].pc = "board" /\ row \in [gen : Gen0, status : Status] /\ active \in Flight0
  BY Values DEF IInv, Typed, BeginFlight, At
<1>e. actor[c].hand = Nothing /\ recovered /\ \A d \in Call : ~At(d, "insert")
  BY <1>t DEF IInv, Knows, Carrying, LifeInv, BeginFlight, LockFree
<1>n. NoActor \in Local /\ NoActor.pc = "idle" /\ NoActor.hand = Nothing /\ ~NoActor.lead
  BY Blanks DEF NoActor
<1>1. UNCHANGED <<row, snap, day, mode, recovered, pending, faults>>
  BY DEF BeginFlight, process
(* It follows, or there is no room for it.                                   *)
<1>2. ASSUME NEW l \in Local, Now(c, l), UNCHANGED <<active, flight>>, l.hand = Nothing, ~l.lead,
             l.pc = "idle" \/ (l.pc = "wait" /\ l.on = active /\ active # 0)
      PROVE  Typed' /\ Kept
  <2>1. l.pc = "wait" => l.on \in Flight /\ flight[l.on].pc # "none"
    BY <1>2, <1>t, Values DEF IInv, FlightInv
  <2>2. Moved(c, l)
    BY <1>1, <1>2, <1>t, <1>e DEF Moved, At
  <2>3. Learned(c, l)
    BY <1>2, <1>t, <2>1 DEF Learned, Carrying, Aboard, Landing
  <2>4. actor' \in [Actor -> Local] /\ \A b \in Actor \ {c} : actor'[b] = actor[b]
    BY <1>2, <1>t, NowMoves
  <2>5. \A f \in Flight : (Handled(f))' => Handled(f)
    BY <1>t, <1>2, <2>4, Values DEF Handled, At
  <2>6. Kept
    BY <1>t, <1>1, <1>2, <2>2, <2>3, <2>5, PlainStep
  <2>7. QED
    BY <1>1, <1>2, <2>4, <2>6 DEF IInv, Typed
<1>3. CASE active # 0 /\ Now(c, [actor[c] EXCEPT !.pc = "wait", !.on = active, !.at = 0]) /\ UNCHANGED <<active, flight>>
  <2> DEFINE l == [actor[c] EXCEPT !.pc = "wait", !.on = active, !.at = 0]
  <2>1. l \in Local /\ l.pc = "wait" /\ l.on = active /\ l.hand = Nothing /\ l.lead = actor[c].lead
    BY <1>t, <1>e, Values DEF Local, Pc
  <2>2. ~actor[c].lead
    BY <1>t DEF IInv, Knows
  <2>3. QED
    BY <1>2, <1>3, <2>1, <2>2
<1>4. CASE Leave(c) /\ UNCHANGED <<active, flight>>
  BY <1>2, <1>4, <1>n DEF Leave
<1>5. ASSUME active = 0, NEW f \in Flight,
             Launch(f, [NoTask EXCEPT !.pc = "work", !.fetched = actor[c].at]),
             Now(c, [actor[c] EXCEPT !.pc = "wait", !.on = f, !.at = 0, !.lead = TRUE])
      PROVE  Typed' /\ Kept
  <2> DEFINE t == [NoTask EXCEPT !.pc = "work", !.fetched = actor[c].at]
             l == [actor[c] EXCEPT !.pc = "wait", !.on = f, !.at = 0, !.lead = TRUE]
  <2>1. t \in Task /\ t.pc = "work" /\ t.gen = 0
    BY <1>t, Blanks DEF Task, NoTask, AtWork, Local
  <2>2. l \in Local /\ l.pc = "wait" /\ l.on = f /\ l.hand = Nothing
    BY <1>t, <1>e, Values DEF Local, Pc
  <2> HIDE DEF t, l
  <2>3. Launch(f, t) /\ Now(c, l)
    BY <1>5 DEF t, l
  <2>4. Kept /\ actor' \in [Actor -> Local] /\ flight' \in [Flight -> Task] /\ active' \in Flight0
    BY <1>t, <1>e, <1>1, <1>5, <2>1, <2>2, <2>3, LaunchKeeps
  <2>5. QED
    BY <1>1, <2>4 DEF IInv, Typed
<1>6. QED
  BY <1>3, <1>4, <1>5 DEF BeginFlight

-----------------------------------------------------------------------------
(* shutdown, and the life of the process.                                  *)

(* Shutdown takes the flight of the service, whose task is seen then.      *)
LEMMA DrainKeeps ==
  ASSUME IInv, Drain
  PROVE  Typed' /\ Kept
<1> DEFINE l == [NoActor EXCEPT !.pc = IF active = 0 THEN "retry" ELSE "drain", !.on = active]
<1>t. /\ actor \in [Actor -> Local] /\ Shutdown \in Actor /\ active \in Flight0
      /\ actor[Shutdown].pc = "idle" /\ actor[Shutdown].hand = Nothing
  BY Values DEF IInv, Typed, LifeInv, Drain, At, Knows, Carrying
<1>1. /\ l \in Local /\ l.hand = Nothing /\ ~l.lead /\ l.on = active
      /\ l.pc = IF active = 0 THEN "retry" ELSE "drain"
  BY <1>t, Blanks DEF Local, NoActor, Pc
<1>2. Now(Shutdown, l) /\ UNCHANGED <<row, snap, day, recovered, pending, flight, faults>>
  BY DEF Drain
<1>3. /\ mode = "serving" /\ mode' = "draining" /\ active' = 0 /\ \A c \in Call : ~At(c, "insert")
  BY DEF Drain, LockFree
<1> HIDE DEF l
<1>4. /\ actor' \in [Actor -> Local] /\ actor'[Shutdown] = l
      /\ \A b \in Actor \ {Shutdown} : actor'[b] = actor[b]
  BY <1>t, <1>1, <1>2, NowMoves
<1>5. \A b \in Actor : (Knows(b))'
  <2>1. Flies
    BY <1>2 DEF Flies
  <2>2. ASSUME NEW b \in Actor, b # Shutdown PROVE (Knows(b))'
    BY <1>4, <2>1, <2>2, KnowsStays DEF IInv
  <2>3. active # 0 => active \in Flight /\ flight[active].pc # "none"
    BY <1>t, Values DEF IInv, FlightInv
  <2>4. (Knows(Shutdown))'
    BY <1>1, <1>2, <1>4, <2>3 DEF Knows, Carrying, Aboard, Landing
  <2>5. QED
    BY <2>2, <2>4
<1>6. \A f \in Flight : (Handled(f))' <=> Handled(f)
  BY <1>t, <1>1, <1>3, <1>4, Values DEF Handled, At
<1>7. FlightInv'
  BY <1>2, <1>3, <1>6 DEF IInv, FlightInv
<1>8. LifeInv'
  <2>1. \A c \in Call : ~(At(c, "insert"))'
    BY <1>3, <1>4, Values DEF At
  <2>2. (At(Shutdown, "drain"))' => actor'[Shutdown].on # active'
    BY <1>1, <1>3, <1>4 DEF At
  <2>3. ~recovered' =>
          /\ active' = 0 /\ pending' = Nothing /\ \A f \in Flight : flight'[f].pc = "none"
          /\ \A c \in Call : actor'[c].pc \in {"idle", "recover"}
          /\ actor'[Shutdown].pc \in {"idle", "retry", "check"}
    BY <1>1, <1>2, <1>3, <1>4, Values DEF IInv, LifeInv
  <2>4. QED
    BY <1>3, <2>1, <2>2, <2>3 DEF LifeInv
<1>9. DebtInv'
  <2>1. \A f \in Flight : (Owes(f))' => Owes(f) /\ flight'[f].gen = flight[f].gen
    BY <1>2, <1>6 DEF Owes
  <2>2. \A b \in Actor : actor'[b].hand \in {actor[b].hand, Nothing}
    BY <1>1, <1>4
  <2>3. QED
    BY <1>2, <2>1, <2>2, DebtsKept DEF IInv
<1>10. RecoverySparesFlights'
  BY <1>2 DEF IInv, RecoverySparesFlights
<1>11. QED
  BY <1>2, <1>3, <1>4, <1>5, <1>7, <1>8, <1>9, <1>10, Values DEF IInv, Typed, Kept

(* When the store is closed, shutdown has nothing left to do.              *)
LEMMA CloseStoreKeeps ==
  ASSUME IInv, CloseStore
  PROVE  Typed' /\ Kept
<1>n. NoActor \in Local /\ NoActor.pc = "idle" /\ NoActor.hand = Nothing /\ ~NoActor.lead
  BY Blanks DEF NoActor
<1>t. /\ actor \in [Actor -> Local] /\ Shutdown \in Actor /\ actor[Shutdown].pc = "check"
  BY Values DEF IInv, Typed, CloseStore, At
<1>1. /\ Now(Shutdown, NoActor) /\ mode' = "closed"
      /\ UNCHANGED <<row, snap, day, recovered, active, pending, flight, faults>>
  BY DEF CloseStore, Leave, shared
<1>2. /\ actor' \in [Actor -> Local] /\ actor'[Shutdown] = NoActor
      /\ \A b \in Actor \ {Shutdown} : actor'[b] = actor[b]
  BY <1>t, <1>n, <1>1, NowMoves
<1>3. \A b \in Actor : (Knows(b))'
  <2>1. Flies
    BY <1>1 DEF Flies
  <2>2. ASSUME NEW b \in Actor, b # Shutdown PROVE (Knows(b))'
    BY <1>2, <2>1, <2>2, KnowsStays DEF IInv
  <2>3. (Knows(Shutdown))'
    BY <1>n, <1>2 DEF Knows, Carrying, Aboard, Landing
  <2>4. QED
    BY <2>2, <2>3
<1>4. \A f \in Flight : (Handled(f))' <=> Handled(f)
  BY <1>t, <1>n, <1>1, <1>2, Values DEF Handled, At
<1>5. FlightInv'
  BY <1>1, <1>4 DEF IInv, FlightInv
<1>6. LifeInv'
  <2>1. \A c \in Call : actor'[c] = actor[c]
    BY <1>2, Values
  <2>2. QED
    BY <1>n, <1>1, <1>2, <2>1 DEF IInv, LifeInv, At
<1>7. DebtInv'
  <2>1. \A f \in Flight : (Owes(f))' => Owes(f) /\ flight'[f].gen = flight[f].gen
    BY <1>1, <1>4 DEF Owes
  <2>2. \A b \in Actor : actor'[b].hand \in {actor[b].hand, Nothing}
    BY <1>n, <1>2
  <2>3. QED
    BY <1>1, <2>1, <2>2, DebtsKept DEF IInv
<1>8. RecoverySparesFlights'
  BY <1>1 DEF IInv, RecoverySparesFlights
<1>9. QED
  BY <1>1, <1>2, <1>3, <1>5, <1>6, <1>7, <1>8 DEF IInv, Typed, Kept

(* A process in which nothing was started, at its beginning or at its end. *)
LEMMA NothingStarted ==
  ASSUME \A f \in Flight : flight[f] = NoTask, \A a \in Actor : actor[a] = NoActor,
         active = 0, pending = Nothing, row.gen \in Nat, row.status # "none" => row.gen # 0
  PROVE  FlightInv /\ (\A a \in Actor : Knows(a)) /\ LifeInv /\ DebtInv /\ RecoverySparesFlights
<1>1. /\ NoActor.pc = "idle" /\ NoActor.hand = Nothing /\ ~NoActor.lead
      /\ NoTask.pc = "none" /\ NoTask.gen = 0
  BY DEF NoActor, NoTask
<1>2. FlightInv
  BY <1>1 DEF FlightInv, AtWork
<1>3. \A a \in Actor : Knows(a)
  BY <1>1 DEF Knows, Carrying, Aboard, Landing
<1>4. LifeInv
  BY <1>1, Values DEF LifeInv, At
<1>5. DebtInv
  BY <1>1 DEF DebtInv, Owes, AtWork
<1>6. RecoverySparesFlights
  BY <1>1 DEF RecoverySparesFlights
<1>7. QED
  BY <1>2, <1>3, <1>4, <1>5, <1>6

-----------------------------------------------------------------------------
(* Invariance.                                                             *)

(* The process starts in the invariant. *)
LEMMA InitInv == Init => IInv
<1> SUFFICES ASSUME Init PROVE IInv
  OBVIOUS
<1>1. Typed
  <2>1. row \in [gen : Gen0, status : Status]
    <3>1. 0 \in Gen0 /\ 1 \in Gen0 /\ {"none", "running"} \subseteq Status
      BY BoundsAssumption DEF Gen0, Status
    <3>2. QED
      BY <3>1 DEF Init
  <2>2. flight \in [Flight -> Task] /\ actor \in [Actor -> Local] /\ pending \in Terminal
    BY Blanks DEF Init
  <2>3. 1 \in 1..MaxDay /\ 0 \in 0..MaxFaults /\ 0 \in Day0 /\ 0 \in Flight0
    BY Values, BoundsAssumption
  <2>4. QED
    BY <2>1, <2>2, <2>3 DEF Init, Typed
<1>2. FlightInv /\ (\A a \in Actor : Knows(a)) /\ LifeInv /\ DebtInv /\ RecoverySparesFlights
  <2>1. row.gen \in Nat /\ (row.status # "none" => row.gen # 0)
    BY DEF Init
  <2>2. (\A f \in Flight : flight[f] = NoTask) /\ (\A a \in Actor : actor[a] = NoActor) /\ active = 0 /\ pending = Nothing
    BY DEF Init
  <2>3. QED
    BY <2>1, <2>2, NothingStarted
<1>3. QED
  BY <1>1, <1>2 DEF IInv

(* Every step keeps it. *)
LEMMA NextInv == ASSUME IInv, [Next]_vars PROVE IInv'
<1>1. ASSUME Typed', Kept PROVE IInv'
  BY <1>1 DEF Kept, IInv
<1>2. ASSUME NEW f \in Flight, RunFlight(f) PROVE IInv'
  <2>1. PICK u \in Task : Fly(f, u) /\ TaskSteps(flight[f], u)
    BY <1>2, FlightSteps DEF IInv
  <2>2. /\ UNCHANGED <<day, process, actor, active>> /\ snap' \in Day0 /\ faults' \in 0..MaxFaults
        /\ flight' \in [Flight -> Task]
    BY <1>2, <2>1, FlightSteps, FlyMoves DEF IInv, Typed
  <2>3. /\ DebtInv' /\ RecoverySparesFlights' /\ row' \in [gen : Gen0, status : Status]
        /\ row'.gen = row.gen /\ pending' \in Terminal
    BY <1>2, FlightDebts DEF IInv
  <2>4. FlightInv' /\ LifeInv' /\ \A b \in Actor : (Knows(b))'
    BY <2>1, <2>2, <2>3, FlightKeeps DEF IInv
  <2>5. Typed'
    BY <2>2, <2>3 DEF IInv, Typed, process
  <2>6. QED
    BY <2>3, <2>4, <2>5 DEF IInv
<1>3. ASSUME NEW a \in Actor, Attend(a) PROVE IInv'
  BY <1>1, <1>3, AttendKeeps
<1>4. ASSUME NEW c \in Call, Begin(c) \/ RunCall(c) \/ Abandon(c) PROVE IInv'
  <2>1. CASE PlainCall(c)
    BY <1>1, <2>1, PlainCallKeeps
  <2>2. CASE Recover(c)
    BY <1>1, <2>2, RecoverKeeps
  <2>3. CASE Reap(c)
    BY <1>1, <2>3, ReapKeeps
  <2>4. CASE Insert(c)
    BY <1>1, <2>4, InsertKeeps
  <2>5. CASE BeginFlight(c)
    BY <1>1, <2>5, BoardKeeps
  <2>6. QED
    BY <1>4, <2>1, <2>2, <2>3, <2>4, <2>5 DEF RunCall, PlainCall
<1>5. CASE Drain
  BY <1>1, <1>5, DrainKeeps
<1>6. CASE Drained
  BY <1>1, <1>6, ReapKeeps
<1>7. CASE CloseStore
  BY <1>1, <1>7, CloseStoreKeeps
<1>8. CASE End
  <2>1. /\ \A f \in Flight : flight'[f] = NoTask
        /\ \A a \in Actor : actor'[a] = NoActor
        /\ active' = 0 /\ pending' = Nothing /\ row' = row
        /\ flight' \in [Flight -> Task] /\ actor' \in [Actor -> Local]
    BY <1>8, Blanks DEF End
  <2>2. row.gen \in Nat /\ (row.status # "none" => row.gen # 0)
    BY Values DEF IInv, Typed, DebtInv
  <2>3. FlightInv' /\ (\A a \in Actor : (Knows(a))') /\ LifeInv' /\ DebtInv' /\ RecoverySparesFlights'
    <3>1. /\ \A f \in Flight : flight'[f].pc = "none" /\ flight'[f].gen = 0
          /\ \A a \in Actor : actor'[a].pc = "idle" /\ actor'[a].hand = Nothing /\ ~actor'[a].lead
          /\ active' = 0 /\ pending' = Nothing /\ row' = row
      <4>1. /\ NoActor.pc = "idle" /\ NoActor.hand = Nothing /\ ~NoActor.lead
            /\ NoTask.pc = "none" /\ NoTask.gen = 0
        BY DEF NoActor, NoTask
      <4>2. QED
        BY <2>1, <4>1
    <3>2. FlightInv'
      BY <2>2, <3>1 DEF FlightInv, AtWork
    <3>3. \A a \in Actor : (Knows(a))'
      BY <3>1 DEF Knows, Carrying, Aboard, Landing
    <3>4. LifeInv'
      BY <3>1, Values DEF LifeInv, At
    <3>5. DebtInv' /\ RecoverySparesFlights'
      <4>1. \A f \in Flight : ~(Owes(f))'
        BY <3>1 DEF Owes
      <4>2. QED
        BY <2>2, <3>1, <4>1 DEF DebtInv, RecoverySparesFlights
    <3>6. QED
      BY <3>2, <3>3, <3>4, <3>5
  <2>4. Typed'
    BY <1>8, <2>1, Blanks, Values DEF IInv, Typed, End
  <2>5. QED
    BY <2>3, <2>4 DEF IInv
<1>9. CASE Tick \/ UNCHANGED vars
  <2>1. /\ UNCHANGED <<row, snap, mode, recovered, active, pending, flight, actor, faults>>
        /\ day' \in 1..MaxDay
    BY <1>9, BoundsAssumption DEF Tick, vars, process, shared, IInv, Typed
  <2>2. /\ \A a \in Actor : (Knows(a))' <=> Knows(a)
        /\ \A f \in Flight : ((Handled(f))' <=> Handled(f)) /\ ((Owes(f))' <=> Owes(f))
    BY <2>1 DEF Knows, Handled, Owes, At
  <2>3. FlightInv' /\ LifeInv' /\ DebtInv' /\ RecoverySparesFlights'
    BY <2>1, <2>2 DEF IInv, FlightInv, LifeInv, DebtInv, RecoverySparesFlights, At, Running
  <2>4. Typed'
    BY <2>1 DEF IInv, Typed
  <2>5. QED
    BY <2>2, <2>3, <2>4 DEF IInv
<1>10. QED
  BY <1>2, <1>3, <1>4, <1>5, <1>6, <1>7, <1>8, <1>9 DEF Next, Quiet

-----------------------------------------------------------------------------
(* Theorems.                                                               *)

(* IInv is an invariant: whatever fails, panics, is dropped or killed, and  *)
(* however many calls meet, a running job has exactly one debtor.           *)
THEOREM Invariance == Spec => []IInv
<1>1. IInv /\ [Next]_vars => IInv'
  BY NextInv
<1>2. QED
  BY <1>1, InitInv, PTL DEF Spec

(* Rows, tasks and actors have their types; the flight of the service has   *)
(* departed, and nobody waits for one that has not.                         *)
THEOREM TypeCorrect == Spec => []TypeOK
<1>1. IInv => TypeOK
  <2> SUFFICES ASSUME IInv PROVE TypeOK
    OBVIOUS
  <2>1. /\ active # 0 => flight[active].pc # "none"
        /\ \A f \in Flight : flight[f].gen <= row.gen
    BY DEF IInv, FlightInv
  <2>2. \A a \in Actor : actor[a].pc \in {"wait", "join", "drain"} => flight[actor[a].on].pc # "none"
    BY DEF IInv, Knows, Aboard
  <2>3. QED
    BY <2>1, <2>2 DEF IInv, Typed, TypeOK
<1>2. QED
  BY <1>1, Invariance, PTL

(* What waits for its retry, recorded or in hand, is a state of the job     *)
(* that runs: no retry is ever rejected by the row.                         *)
THEOREM PendingFitsHolds == Spec => []PendingFits
<1>1. IInv => PendingFits
  BY DEF IInv, DebtInv, PendingFits
<1>2. QED
  BY <1>1, Invariance, PTL

(* An interrupted job has no flight in this process.                        *)
THEOREM RecoverySparesFlightsHolds == Spec => []RecoverySparesFlights
<1>1. IInv => RecoverySparesFlights
  BY DEF IInv
<1>2. QED
  BY <1>1, Invariance, PTL

-----------------------------------------------------------------------------
(* The refinement: what the callers of the shared refresh see.             *)

seen == <<flights, seats, answers, closing>>

(* When one actor moves, only what it sees may change.                      *)
LEMMA OneMoves ==
  ASSUME Typed, NEW a \in Actor, NEW l, Now(a, l), flight' = flight
  PROVE  /\ flights' = flights /\ actor'[a] = l
         /\ a \notin Call => seats' = seats /\ answers' = answers
         /\ a \in Call => /\ seats' = [seats EXCEPT ![a] = Seat(l)]
                          /\ answers' = [answers EXCEPT ![a] = Told(l)]
<1>1. actor'[a] = l /\ \A b \in Actor \ {a} : actor'[b] = actor[b]
  BY DEF Typed, Now
<1>2. \A c \in Call \ {a} : Seat(actor'[c]) = Seat(actor[c]) /\ (Told(actor[c]))' = Told(actor[c])
  BY <1>1, Values DEF Told
<1>3. (Told(actor[a]))' = Told(l)
  BY <1>1 DEF Told
<1>4. QED
  BY <1>1, <1>2, <1>3 DEF flights, seats, answers, SeenAs

(* An actor that was ashore is so again after its step.                     *)
Ashore(a) == actor[a].pc \notin Aboard /\ \E l : Now(a, l) /\ l.pc \notin Aboard

(* Such a step is not seen.                                                 *)
LEMMA AshoreUnseen ==
  ASSUME Typed, NEW a \in Actor, Ashore(a), flight' = flight, closing' = closing
  PROVE  UNCHANGED seen
<1>1. PICK l : Now(a, l) /\ l.pc \notin Aboard
  BY DEF Ashore
<1>2. Seat(l) = Seat(actor[a]) /\ Told(l) = Told(actor[a])
  BY <1>1 DEF Ashore, Seat, Told, Aboard
<1>3. a \in Call => seats[a] = Seat(actor[a]) /\ answers[a] = Told(actor[a])
  BY DEF seats, answers
<1>4. a \in Call => seats' = seats /\ answers' = answers
  BY <1>1, <1>2, <1>3, OneMoves DEF seats, answers
<1>5. QED
  BY <1>1, <1>4, OneMoves DEF seen

(* The ways in which an actor moves on ashore.                              *)
LEMMA StaysAshore ==
  ASSUME Typed, NEW a \in Actor, actor[a].pc \notin Aboard,
         \/ Leave(a) \/ GoOn(a) \/ GiveUp(a, "retry") \/ GiveUp(a, "check")
         \/ \E pc \in Pc \ Aboard : To(a, pc)
         \/ \E t \in Task : actor[a].hand = Nothing /\ t.pc \in Finished /\ SeeTask(a, t)
         \/ \E l \in Local : Now(a, l) /\ l.pc \notin Aboard
  PROVE  Ashore(a)
<1>t. actor \in [Actor -> Local] /\ actor[a] \in Local
  BY DEF Typed
<1>p. /\ {"idle", "start", "board", "retry", "check", "look", "fail"} \subseteq Pc
      /\ {"idle", "start", "board", "retry", "check", "look", "fail"} \cap Aboard = {}
  BY DEF Pc, Aboard
<1>1. ASSUME NEW l, Now(a, l), l.pc \notin Aboard PROVE Ashore(a)
  BY <1>1 DEF Ashore
<1>2. CASE Leave(a)
  <2>1. NoActor.pc = "idle"
    BY DEF NoActor
  <2>2. QED
    BY <1>p, <1>1, <1>2, <2>1 DEF Leave
<1>3. CASE GoOn(a)
  <2>1. PICK l \in Local : Goes(a, l) /\ Now(a, l)
    BY <1>t, <1>3, GoOnMoves
  <2>2. l.pc \in {"idle", "start", "board", "check"}
    BY <2>1 DEF Goes
  <2>3. QED
    BY <1>p, <1>1, <2>1, <2>2
<1>4. CASE GiveUp(a, "retry") \/ GiveUp(a, "check")
  <2>1. PICK pc \in {"retry", "check"} : GiveUp(a, pc)
    BY <1>4
  <2>2. PICK l \in Local : Now(a, l) /\ l.pc = IF a = Shutdown THEN pc ELSE "idle"
    BY <1>t, <1>p, <2>1, GiveUpMoves
  <2>3. QED
    BY <1>p, <1>1, <2>2
<1>5. CASE \E pc \in Pc \ Aboard : To(a, pc)
  <2>1. PICK pc \in Pc \ Aboard : To(a, pc)
    BY <1>5
  <2>2. PICK l \in Local : Now(a, l) /\ l.pc = pc
    BY <1>t, <2>1, ToMoves
  <2>3. QED
    BY <1>1, <2>1, <2>2
<1>6. CASE \E t \in Task : actor[a].hand = Nothing /\ t.pc \in Finished /\ SeeTask(a, t)
  <2>1. PICK t \in Task : actor[a].hand = Nothing /\ t.pc \in Finished /\ SeeTask(a, t)
    BY <1>6
  <2>2. PICK l \in Local : Now(a, l) /\ l.pc \in {"fail", "retry", "look", "idle"}
    BY <1>t, <2>1, SeeTaskMoves
  <2>3. QED
    BY <1>p, <1>1, <2>2
<1>7. CASE \E l \in Local : Now(a, l) /\ l.pc \notin Aboard
  BY <1>1, <1>7
<1>8. QED
  BY <1>2, <1>3, <1>4, <1>5, <1>6, <1>7

(* Recovery, reaping, retries and the look at the cache are not seen.      *)
LEMMA Unseen ==
  ASSUME IInv, NEW a \in Actor,
         \/ Attend(a)
         \/ a \in Call /\ (Begin(a) \/ Recover(a) \/ Reap(a) \/ Start(a))
         \/ a = Shutdown /\ (Drained \/ CloseStore)
  PROVE  UNCHANGED seen
<1>t. Typed /\ actor[a] \in Local /\ flight \in [Flight -> Task] /\ active \in Flight0
  BY DEF IInv, Typed
<1>p. {"reap", "retry", "persist", "record", "putBack", "insert"} \subseteq Pc \ Aboard
  BY DEF Pc, Aboard
<1>k. actor[a].hand # Nothing <=> actor[a].pc \in Carrying
  BY DEF IInv, Knows
<1>0. flight' = flight /\ closing' = closing
  <2>1. At(Shutdown, "check") => mode # "serving"
    BY DEF IInv, LifeInv, At
  <2>2. QED
    BY <2>1 DEF Attend, Look, StorePanic, RecordPanic, Retry, Persist, PutBack, Begin, Recover, Reap,
           Start, Drained, CloseStore, CallOnly, closing
<1>1. actor[a].pc \notin Aboard
  BY DEF Attend, Look, StorePanic, RecordPanic, Retry, Persist, PutBack, Begin, Recover, Reap, Start,
         Drained, CloseStore, At, Aboard
<1>2. Ashore(a)
  <2>1. CASE Look(a) \/ StorePanic(a) \/ RecordPanic(a) \/ PutBack(a)
    BY <1>t, <1>p, <1>1, <2>1, StaysAshore DEF Look, StorePanic, RecordPanic, PutBack
  <2>2. CASE Retry(a) \/ Persist(a)
    <3>1. CASE GoOn(a) \/ To(a, "putBack")
      BY <1>t, <1>p, <1>1, <3>1, StaysAshore
    <3>2. CASE Now(a, [actor[a] EXCEPT !.pc = "persist", !.hand = pending])
      <4>1. [actor[a] EXCEPT !.pc = "persist", !.hand = pending].pc = "persist"
        BY <1>t DEF Local
      <4>2. QED
        BY <1>p, <1>1, <3>2, <4>1 DEF Ashore
    <3>3. QED
      BY <2>2, <3>1, <3>2 DEF Retry, Persist
  <2>3. CASE Begin(a)
    <3>1. PICK op \in Requests[a] :
            Now(a, [NoActor EXCEPT !.pc = "recover", !.op = op,
                                   !.at = IF op \in {"refresh", "ifStale"} THEN day ELSE 0])
      BY <2>3 DEF Begin
    <3> DEFINE l == [NoActor EXCEPT !.pc = "recover", !.op = op,
                                    !.at = IF op \in {"refresh", "ifStale"} THEN day ELSE 0]
    <3>2. l.pc = "recover"
      BY DEF NoActor
    <3> HIDE DEF l
    <3>3. Now(a, l)
      BY <3>1 DEF l
    <3>4. QED
      BY <1>1, <3>2, <3>3 DEF Ashore, Aboard
  <2>4. CASE a \in Call /\ (Recover(a) \/ Start(a))
    BY <1>t, <1>p, <1>1, <2>4, StaysAshore DEF Recover, Start
  <2>5. CASE Reap(a)
    <3>1. CASE To(a, "retry")
      BY <1>t, <1>p, <1>1, <3>1, StaysAshore
    <3>2. CASE active # 0 /\ flight[active].pc \in Finished /\ SeeTask(a, flight[active])
      <4>1. flight[active] \in Task /\ actor[a].hand = Nothing
        BY <1>t, <1>k, <2>5, <3>2, Values DEF Reap, At, Carrying
      <4>2. QED
        BY <1>t, <1>1, <3>2, <4>1, StaysAshore
    <3>3. QED
      BY <2>5, <3>1, <3>2 DEF Reap
  <2>6. CASE a = Shutdown /\ Drained
    <3>1. flight[actor[Shutdown].on] \in Task /\ actor[a].hand = Nothing
      BY <1>t, <1>k, <2>6 DEF Drained, At, Carrying, IInv, Knows
    <3>2. QED
      BY <1>t, <1>1, <2>6, <3>1, StaysAshore DEF Drained
  <2>7. CASE a = Shutdown /\ CloseStore
    BY <1>t, <1>1, <2>7, StaysAshore DEF CloseStore
  <2>8. QED
    BY <2>1, <2>2, <2>3, <2>4, <2>5, <2>6, <2>7 DEF Attend
<1>3. QED
  BY <1>t, <1>0, <1>2, AshoreUnseen

(* A task that leaves its work lands; its other steps are not seen.        *)
LEMMA FlightSeen ==
  ASSUME IInv, NEW f \in Flight, RunFlight(f)
  PROVE  Sharing!Next \/ UNCHANGED seen
<1>1. PICK u \in Task : Fly(f, u) /\ TaskSteps(flight[f], u)
  BY FlightSteps DEF IInv
<1>2. UNCHANGED <<mode, actor>> /\ flight \in [Flight -> Task]
  BY FlightSteps DEF IInv, Typed, process
<1>3. flight'[f] = u /\ (\A g \in Flight \ {f} : flight'[g] = flight[g]) /\ flight[f] \in Task
  BY <1>1, <1>2, FlyMoves
<1>4. seats' = seats /\ closing' = closing
  BY <1>2 DEF seats, closing
<1>5. Sent(flight[f]) => Outcome(u) = Outcome(flight[f]) /\ SeenAs(u) = SeenAs(flight[f])
  BY <1>1, <1>3 DEF TaskSteps, Sent, Outcome, SeenAs, AtWork, Finished
<1>6. answers' = answers
  <2>1. \A c \in Call : (Told(actor[c]))' = Told(actor[c])
    <3>1. \A c \in Call : actor[c].pc = "told" => actor[c].on \in Flight /\ Sent(flight[actor[c].on])
      BY Values DEF IInv, Knows, Aboard, Landing
    <3>2. QED
      BY <1>2, <1>3, <1>5, <3>1 DEF Told
  <2>2. QED
    BY <2>1 DEF answers
<1>7. flights' = [flights EXCEPT ![f] = SeenAs(u)]
  BY <1>3 DEF flights
<1>8. CASE SeenAs(u) = SeenAs(flight[f])
  BY <1>4, <1>6, <1>7, <1>8 DEF seen, flights
<1>9. CASE SeenAs(u) # SeenAs(flight[f])
  <2>1. flight[f].pc \in AtWork /\ u.pc \notin AtWork /\ u.pc # "none"
    BY <1>1, <1>3, <1>5, <1>9 DEF TaskSteps, Task, Sent, SeenAs
  <2>2. flights[f] = "flying" /\ SeenAs(u) \in Sharing!Outcome
    BY <2>1 DEF flights, SeenAs, AtWork, Sharing!Outcome, Outcome, Task, Result
  <2>3. Sharing!Land(f, SeenAs(u))
    BY <1>4, <1>6, <1>7, <2>2 DEF Sharing!Land
  <2>4. QED
    BY <2>2, <2>3 DEF Sharing!Next
<1>10. QED
  BY <1>8, <1>9

(* Who waits is told how the flight landed, may leave, and gives its answer. *)
LEMMA AboardSeen ==
  ASSUME IInv, NEW c \in Call, Hear(c) \/ Abandon(c) \/ ReapOwn(c) \/ Join(c) \/ Answered(c)
  PROVE  Sharing!Next \/ UNCHANGED seen
<1>t. Typed /\ c \in Actor /\ actor[c] \in Local /\ flight \in [Flight -> Task]
  BY Values DEF IInv, Typed
<1>0. flight' = flight /\ closing' = closing
  BY DEF Hear, Abandon, ReapOwn, Join, Answered, CallOnly, closing
<1>s. /\ seats[c] = Seat(actor[c]) /\ answers[c] = Told(actor[c])
      /\ seats = [d \in Call |-> seats[d]] /\ answers = [d \in Call |-> answers[d]]
  BY DEF seats, answers
<1>k. /\ actor[c].pc \in Aboard => actor[c].on \in Flight
      /\ actor[c].pc \in Landing => Sent(flight[actor[c].on])
  BY <1>t DEF IInv, Knows
<1>m. ASSUME NEW l, Now(c, l)
      PROVE  /\ flights' = flights /\ seats' = [seats EXCEPT ![c] = Seat(l)]
             /\ answers' = [answers EXCEPT ![c] = Told(l)]
  BY <1>t, <1>0, <1>m, OneMoves
(* A step to "told" alights. *)
<1>1. ASSUME NEW l, Now(c, l), l.pc = "told", l.on = actor[c].on, Sent(flight[l.on]),
             actor[c].pc \in {"wait", "reapOwn", "join"}
      PROVE  Sharing!Next
  <2>1. Seat(l) = 0 /\ Told(l) = Outcome(flight[l.on])
    BY <1>1 DEF Seat, Told
  <2>2. l.on \in Flight /\ seats[c] = l.on /\ seats[c] # 0
    BY <1>1, <1>s, <1>k, Values DEF Seat, Aboard
  <2>3. flights[l.on] = Outcome(flight[l.on]) /\ Outcome(flight[l.on]) \in Sharing!Outcome
    BY <1>t, <1>1, <2>2 DEF flights, SeenAs, Sent, AtWork, Finished, Outcome, Sharing!Outcome, Task, Result
  <2>4. Sharing!Alight(c)
    BY <1>0, <1>m, <1>1, <2>1, <2>2, <2>3 DEF Sharing!Alight
  <2>5. QED
    BY <2>4 DEF Sharing!Next
(* A step from one way of waiting to another is not seen. *)
<1>2. ASSUME NEW l, Now(c, l), l.pc \in {"reapOwn", "join"}, l.on = actor[c].on,
             actor[c].pc \in {"wait", "reapOwn", "join"}
      PROVE  UNCHANGED seen
  <2>1. Seat(l) = Seat(actor[c]) /\ Told(l) = Told(actor[c])
    BY <1>2 DEF Seat, Told
  <2>2. QED
    BY <1>0, <1>s, <1>m, <1>2, <2>1 DEF seen
<1>3. ASSUME Now(c, NoActor) PROVE /\ seats' = [seats EXCEPT ![c] = 0] /\ flights' = flights
                                   /\ answers' = [answers EXCEPT ![c] = "none"]
  <2>1. Seat(NoActor) = 0 /\ Told(NoActor) = "none"
    BY DEF NoActor, Seat, Told
  <2>2. QED
    BY <1>m, <1>3, <2>1
<1>4. CASE Hear(c)
  <2> DEFINE pc == IF actor[c].lead THEN "reapOwn" ELSE "told"
             l  == [actor[c] EXCEPT !.pc = pc, !.lead = FALSE]
  <2>1. Now(c, l) /\ actor[c].pc = "wait" /\ Sent(flight[actor[c].on])
    BY <1>4 DEF Hear, At
  <2>2. l.pc = pc /\ l.on = actor[c].on /\ pc \in {"reapOwn", "told"}
    BY <1>t DEF Local
  <2> HIDE DEF l, pc
  <2>3. QED
    BY <1>1, <1>2, <2>1, <2>2
<1>5. CASE ReapOwn(c) \/ Join(c)
  <2>1. PICK pc \in {"join", "told"} : To(c, pc)
    BY <1>5 DEF ReapOwn, Join
  <2>2. actor[c].pc \in {"reapOwn", "join"} /\ Sent(flight[actor[c].on])
    BY <1>5, <1>k DEF ReapOwn, Join, At, Landing
  <2> DEFINE l == [actor[c] EXCEPT !.pc = pc]
  <2>3. Now(c, l) /\ l.pc = pc /\ l.on = actor[c].on
    BY <1>t, <2>1 DEF To, Local
  <2> HIDE DEF l
  <2>4. QED
    BY <1>1, <1>2, <2>1, <2>2, <2>3
<1>6. CASE Answered(c)
  <2>1. Now(c, NoActor) /\ actor[c].pc = "told"
    BY <1>6 DEF Answered, Leave, At
  <2>2. seats[c] = 0
    BY <1>s, <2>1 DEF Seat
  <2>3. Sharing!Leave(c)
    BY <1>0, <1>3, <1>s, <2>1, <2>2 DEF Sharing!Leave
  <2>4. QED
    BY <2>3 DEF Sharing!Next
<1>7. CASE Abandon(c)
  <2>1. Now(c, NoActor) /\ actor[c].pc = "wait"
    BY <1>7 DEF Abandon, Leave, At
  <2>2. answers[c] = "none"
    BY <1>s, <2>1 DEF Told
  <2>3. Sharing!Abandon(c)
    BY <1>0, <1>3, <1>s, <2>1, <2>2 DEF Sharing!Abandon
  <2>4. QED
    BY <2>3 DEF Sharing!Next
<1>8. QED
  BY <1>4, <1>5, <1>6, <1>7

(* A flight departs when none is in the air, or another process takes over. *)
LEMMA LaunchSeen ==
  ASSUME IInv, NEW c \in Call, NEW l, Now(c, l), NEW f \in Flight, NEW t \in Task, Launch(f, t),
         t.pc \in {"spawned", "work"}, active = 0, closing' = closing,
         actor[c].pc \notin Aboard, (l.pc = "wait" /\ l.on = f) \/ l.pc = "idle"
  PROVE  Sharing!Next
<1>t. /\ actor \in [Actor -> Local] /\ flight \in [Flight -> Task] /\ c \in Actor
  BY Values DEF IInv, Typed
<1>1. /\ actor'[c] = l /\ \A b \in Actor \ {c} : actor'[b] = actor[b]
      /\ flight'[f] = t /\ \A g \in Flight \ {f} : flight'[g] = flight[g]
      /\ flight[f].pc = "none" /\ \A g \in Flight : g < f => flight[g].pc # "none"
  BY <1>t, FlyMoves DEF Now, Launch, Departs
<1>2. flights' = [flights EXCEPT ![f] = "flying"]
  BY <1>1 DEF flights, SeenAs, AtWork
<1>3. flights[f] = "unborn" /\ \A g \in Flight : g < f => flights[g] # "unborn"
  BY <1>t, <1>1 DEF flights, SeenAs, Outcome, AtWork, Task, Result
<1>4. (\A g \in Flight : flights[g] # "flying") \/ closing
  <2>1. CASE mode = "serving"
    <3>1. \A g \in Flight : flight[g].pc \notin AtWork
      BY <2>1, Values DEF IInv, LifeInv, FlightInv, Handled, At
    <3>2. QED
      BY <1>t, <3>1 DEF flights, SeenAs, Outcome, Task, Result
  <2>2. QED
    BY <2>1 DEF closing
<1>5. seats[c] = 0 /\ seats' = [seats EXCEPT ![c] = IF l.pc = "wait" THEN f ELSE 0]
  <2>1. Seat(l) = IF l.pc = "wait" THEN f ELSE 0
    BY DEF Seat
  <2>2. QED
    BY <1>1, <2>1, Values DEF seats, Seat, Aboard
<1>6. answers' = answers
  <2>1. \A d \in Call : (Told(actor[d]))' = Told(actor[d])
    <3>1. \A d \in Call : actor[d].pc = "told" => actor[d].on \in Flight /\ flight[actor[d].on].pc # "none"
      BY Values DEF IInv, Knows, Aboard
    <3>2. (Told(actor[c]))' = "none" /\ Told(actor[c]) = "none"
      BY <1>1 DEF Told, Aboard
    <3>3. ASSUME NEW d \in Call, d # c PROVE (Told(actor[d]))' = Told(actor[d])
      BY <1>1, <3>1, <3>3, Values DEF Told
    <3>4. QED
      BY <3>2, <3>3
  <2>2. QED
    BY <2>1 DEF answers
<1>7. Sharing!Depart(c, f, l.pc = "wait")
  BY <1>2, <1>3, <1>4, <1>5, <1>6 DEF Sharing!Depart, Sharing!Free
<1>8. (l.pc = "wait") \in BOOLEAN
  OBVIOUS
<1>9. QED
  BY <1>7, <1>8 DEF Sharing!Next

(* A job that is started and a direct refresh make a flight depart, or the  *)
(* call boards the one there is.                                            *)
LEMMA DepartureSeen ==
  ASSUME IInv, NEW c \in Call, Insert(c) \/ BeginFlight(c)
  PROVE  Sharing!Next \/ UNCHANGED seen
<1>t. /\ Typed /\ c \in Actor /\ actor[c] \in Local /\ active \in Flight0 /\ row.gen \in Gen0
      /\ actor[c].pc \in {"insert", "board"}
  BY Values DEF IInv, Typed, Insert, BeginFlight, At
<1>0. closing' = closing /\ actor[c].pc \notin Aboard
  BY <1>t DEF Insert, BeginFlight, process, closing, Aboard
<1>1. ASSUME NEW f \in Flight, NEW t, Launch(f, t), t.pc \in {"spawned", "work"}, t.gen \in Gen0,
             t.fetched \in Day0, t = [NoTask EXCEPT !.pc = t.pc, !.gen = t.gen, !.fetched = t.fetched],
             NEW l, Now(c, l), active = 0, (l.pc = "wait" /\ l.on = f) \/ l.pc = "idle"
      PROVE  Sharing!Next
  <2>1. t \in Task
    BY <1>1, Blanks DEF Task, NoTask, AtWork
  <2>2. QED
    BY <1>0, <1>1, <2>1, LaunchSeen
<1>2. CASE Leave(c) /\ UNCHANGED flight
  BY <1>t, <1>0, <1>2, StaysAshore, AshoreUnseen
<1>3. CASE Insert(c)
  <2>1. ASSUME NEW f \in Flight, Launch(f, [NoTask EXCEPT !.pc = "spawned", !.gen = row.gen + 1]),
               row.gen + 1 <= MaxGen
        PROVE  Sharing!Next
    <3> DEFINE t == [NoTask EXCEPT !.pc = "spawned", !.gen = row.gen + 1]
    <3>1. /\ t.pc = "spawned" /\ t.gen = row.gen + 1 /\ t.fetched = 0
          /\ t = [NoTask EXCEPT !.pc = t.pc, !.gen = t.gen, !.fetched = t.fetched]
      BY DEF NoTask
    <3>2. row.gen + 1 \in Gen0 /\ 0 \in Day0
      BY <1>t, <2>1, BoundsAssumption, Values DEF Gen0
    <3> HIDE DEF t
    <3>3. Launch(f, t)
      BY <2>1 DEF t
    <3>4. Now(c, NoActor) /\ NoActor.pc = "idle" /\ active = 0
      BY <1>t, <1>3 DEF Insert, Leave, NoActor, IInv, LifeInv
    <3>5. t.pc \in {"spawned", "work"} /\ t.gen \in Gen0 /\ t.fetched \in Day0
      BY <3>1, <3>2
    <3>6. QED
      BY <1>1, <3>1, <3>3, <3>4, <3>5
  <2>2. QED
    BY <1>2, <1>3, <2>1 DEF Insert
<1>4. CASE BeginFlight(c)
  <2>1. CASE active # 0 /\ Now(c, [actor[c] EXCEPT !.pc = "wait", !.on = active, !.at = 0]) /\ UNCHANGED flight
    <3> DEFINE l == [actor[c] EXCEPT !.pc = "wait", !.on = active, !.at = 0]
    <3>1. l.pc = "wait" /\ l.on = active
      BY <1>t DEF Local
    <3> HIDE DEF l
    <3>2. Now(c, l)
      BY <2>1 DEF l
    <3>3. Seat(l) = active /\ Told(l) = "none" /\ Told(actor[c]) = "none" /\ Seat(actor[c]) = 0
      BY <1>t, <3>1 DEF Seat, Told
    <3>4. /\ flights' = flights /\ seats' = [seats EXCEPT ![c] = active] /\ answers' = answers
          /\ seats[c] = 0
      <4>1. answers' = [answers EXCEPT ![c] = "none"] /\ answers[c] = "none"
        BY <1>t, <2>1, <3>2, <3>3, OneMoves DEF answers
      <4>2. answers' = answers
        BY <4>1 DEF answers
      <4>3. QED
        BY <1>t, <2>1, <3>2, <3>3, <4>2, OneMoves DEF seats
    <3>5. active \in Flight /\ flight[active].pc # "none" /\ \A g \in Flight : g > active => flight[g].pc = "none"
      BY <1>t, <2>1, Values DEF IInv, FlightInv
    <3>6. Sharing!Current(active)
      <4>1. \A g \in Flight : g > active => flights[g] = "unborn"
        BY <3>5 DEF flights, SeenAs
      <4>2. flights[active] # "unborn"
        BY <1>t, <3>5 DEF flights, SeenAs, Outcome, Typed, Task, Result
      <4>3. QED
        BY <4>1, <4>2 DEF Sharing!Current
    <3>7. Sharing!Board(c, active)
      BY <1>0, <3>4, <3>6 DEF Sharing!Board
    <3>8. QED
      BY <3>5, <3>7 DEF Sharing!Next
  <2>2. ASSUME active = 0, NEW f \in Flight,
               Launch(f, [NoTask EXCEPT !.pc = "work", !.fetched = actor[c].at]),
               Now(c, [actor[c] EXCEPT !.pc = "wait", !.on = f, !.at = 0, !.lead = TRUE])
        PROVE  Sharing!Next
    <3> DEFINE t == [NoTask EXCEPT !.pc = "work", !.fetched = actor[c].at]
               l == [actor[c] EXCEPT !.pc = "wait", !.on = f, !.at = 0, !.lead = TRUE]
    <3>1. /\ t.pc = "work" /\ t.gen = 0 /\ t.fetched = actor[c].at
          /\ t = [NoTask EXCEPT !.pc = t.pc, !.gen = t.gen, !.fetched = t.fetched]
      BY DEF NoTask
    <3>2. l.pc = "wait" /\ l.on = f /\ actor[c].at \in Day0 /\ 0 \in Gen0
      BY <1>t, Values DEF Local
    <3> HIDE DEF t, l
    <3>3. Launch(f, t) /\ Now(c, l)
      BY <2>2 DEF t, l
    <3>4. t.pc \in {"spawned", "work"} /\ t.gen \in Gen0 /\ t.fetched \in Day0
      BY <3>1, <3>2
    <3>5. QED
      BY <1>1, <2>2, <3>1, <3>2, <3>3, <3>4
  <2>3. QED
    BY <1>2, <1>4, <2>1, <2>2 DEF BeginFlight
<1>5. QED
  BY <1>3, <1>4

(* Shutdown closes the refresh; with the process everybody is gone.         *)
LEMMA LifeSeen ==
  ASSUME IInv, Drain \/ End
  PROVE  Sharing!Next
<1>1. CASE Drain
  <2> DEFINE l == [NoActor EXCEPT !.pc = IF active = 0 THEN "retry" ELSE "drain", !.on = active]
  <2>1. flight' = flight /\ closing' = TRUE /\ Now(Shutdown, l)
    BY <1>1 DEF Drain, closing
  <2> HIDE DEF l
  <2>2. Typed /\ Shutdown \in Actor /\ Shutdown \notin Call
    BY Values DEF IInv
  <2>3. Sharing!Close
    BY <2>1, <2>2, OneMoves DEF Sharing!Close
  <2>4. QED
    BY <2>3 DEF Sharing!Next
<1>2. CASE End
  <2>1. /\ \A f \in Flight : flight'[f] = NoTask
        /\ \A a \in Actor : actor'[a] = NoActor
        /\ closing' = TRUE
    BY <1>2 DEF End, closing
  <2>2. NoActor.pc = "idle" /\ NoTask.pc = "none"
    BY DEF NoActor, NoTask
  <2>3. flights' = [f \in Flight |-> "unborn"]
    BY <2>1, <2>2 DEF flights, SeenAs
  <2>4. seats' = [c \in Call |-> 0] /\ answers' = [c \in Call |-> "none"]
    BY <2>1, <2>2, Values DEF seats, answers, Seat, Told
  <2>5. Sharing!Gone
    BY <2>1, <2>3, <2>4 DEF Sharing!Gone
  <2>6. QED
    BY <2>5 DEF Sharing!Next
<1>3. QED
  BY <1>1, <1>2

(* Tool calls, tasks, reaping, shutdown and kills implement the shared      *)
(* refresh: one flight at a time, and the truth to everybody on board.      *)
THEOREM Implementation == Spec => ImplementsSharing
<1>1. Init => Sharing!Init
  <2> SUFFICES ASSUME Init PROVE Sharing!Init
    OBVIOUS
  <2>1. /\ \A f \in Flight : flight[f].pc = "none"
        /\ \A c \in Call : actor[c].pc = "idle"
    BY Values DEF Init, NoTask, NoActor
  <2>2. flights = [f \in Flight |-> "unborn"]
    BY <2>1 DEF flights, SeenAs
  <2>3. seats = [c \in Call |-> 0] /\ answers = [c \in Call |-> "none"]
    BY <2>1 DEF seats, answers, Seat, Told
  <2>4. closing = FALSE
    BY DEF Init, closing
  <2>5. QED
    BY <2>2, <2>3, <2>4 DEF Sharing!Init
<1>2. IInv /\ [Next]_vars => [Sharing!Next]_seen
  <2> SUFFICES ASSUME IInv, [Next]_vars PROVE Sharing!Next \/ UNCHANGED seen
    OBVIOUS
  <2>1. ASSUME NEW f \in Flight, RunFlight(f) PROVE Sharing!Next \/ UNCHANGED seen
    BY <2>1, FlightSeen
  <2>2. ASSUME NEW a \in Actor, Attend(a) PROVE UNCHANGED seen
    BY <2>2, Unseen
  <2>3. ASSUME NEW c \in Call, Begin(c) \/ RunCall(c) \/ Abandon(c)
        PROVE  Sharing!Next \/ UNCHANGED seen
    <3>1. CASE Begin(c) \/ Recover(c) \/ Reap(c) \/ Start(c)
      BY <3>1, Unseen, Values
    <3>2. CASE Hear(c) \/ Abandon(c) \/ ReapOwn(c) \/ Join(c) \/ Answered(c)
      BY <3>2, AboardSeen
    <3>3. CASE Insert(c) \/ BeginFlight(c)
      BY <3>3, DepartureSeen
    <3>4. QED
      BY <2>3, <3>1, <3>2, <3>3 DEF RunCall
  <2>4. CASE Drained \/ CloseStore
    BY <2>4, Unseen, Values
  <2>5. CASE Drain \/ End
    BY <2>5, LifeSeen
  <2>6. CASE Tick \/ UNCHANGED vars
    <3>1. UNCHANGED <<flight, actor, mode>>
      BY <2>6 DEF Tick, vars, process
    <3>2. QED
      BY <3>1 DEF seen, flights, seats, answers, closing, Told
  <2>7. QED
    BY <2>1, <2>2, <2>3, <2>4, <2>5, <2>6 DEF Next, Quiet
<1>3. QED
  BY <1>1, <1>2, Invariance, PTL DEF Spec, ImplementsSharing, Sharing!Spec, seen

=============================================================================
