------------------------------ MODULE SharedRefresh ------------------------------
(***************************************************************************)
(* What a shared refresh promises its callers: flights depart one at a     *)
(* time, a caller that asks while one is current boards it instead of      *)
(* starting another, and everybody on board is told how it landed, unless  *)
(* they left before.  Once the service is closing only the last promise is *)
(* left.                                                                   *)
(***************************************************************************)
EXTENDS Naturals

CONSTANTS Flight, Caller
VARIABLES state, seat, told, closing

Outcome == {"ok", "failed"}

(* Flights are numbered in the order they depart; 0 is no flight.          *)
Current(f) == state[f] # "unborn" /\ \A g \in Flight : g > f => state[g] = "unborn"
Free == \A f \in Flight : state[f] # "flying"

Init ==
  /\ state = [f \in Flight |-> "unborn"]
  /\ seat = [c \in Caller |-> 0] /\ told = [c \in Caller |-> "none"]
  /\ closing = FALSE

Depart(c, f, aboard) ==
  /\ Free \/ closing
  /\ state[f] = "unborn" /\ \A g \in Flight : g < f => state[g] # "unborn"
  /\ state' = [state EXCEPT ![f] = "flying"]
  /\ seat[c] = 0 /\ seat' = [seat EXCEPT ![c] = IF aboard THEN f ELSE 0]
  /\ UNCHANGED <<told, closing>>

Board(c, f) ==
  /\ seat[c] = 0 /\ Current(f)
  /\ seat' = [seat EXCEPT ![c] = f]
  /\ UNCHANGED <<state, told, closing>>

Land(f, outcome) ==
  /\ state[f] = "flying"
  /\ state' = [state EXCEPT ![f] = outcome]
  /\ UNCHANGED <<seat, told, closing>>

Alight(c) ==
  /\ seat[c] # 0 /\ state[seat[c]] \in Outcome
  /\ told' = [told EXCEPT ![c] = state[seat[c]]]
  /\ seat' = [seat EXCEPT ![c] = 0]
  /\ UNCHANGED <<state, closing>>

Abandon(c) == seat' = [seat EXCEPT ![c] = 0] /\ UNCHANGED <<state, told, closing>>
Leave(c) == told' = [told EXCEPT ![c] = "none"] /\ UNCHANGED <<state, seat, closing>>
Close    == closing' = TRUE /\ UNCHANGED <<state, seat, told>>

(* The process is gone, and everybody waiting with it.                     *)
Gone ==
  /\ state' = [f \in Flight |-> "unborn"]
  /\ seat' = [c \in Caller |-> 0] /\ told' = [c \in Caller |-> "none"]
  /\ closing' = TRUE

Next ==
  \/ \E c \in Caller :
       \/ \E f \in Flight : (\E aboard \in BOOLEAN : Depart(c, f, aboard)) \/ Board(c, f)
       \/ Alight(c) \/ Abandon(c) \/ Leave(c)
  \/ \E f \in Flight, outcome \in Outcome : Land(f, outcome)
  \/ Close \/ Gone

Spec == Init /\ [][Next]_<<state, seat, told, closing>>
=============================================================================
