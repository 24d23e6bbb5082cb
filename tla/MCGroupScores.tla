---------------------------- MODULE MCGroupScores ----------------------------
(* Instances of GroupScores for TLC. *)
EXTENDS GroupScores, TLC

CONSTANTS p1, p2

(* What is asked for: each kind and source, by QQ and by username. *)
SomeRequests ==
  {[kind |-> "b50", who |-> p1, explicit |-> "none"],
   [kind |-> "records", who |-> p1, explicit |-> "none"],
   [kind |-> "song", who |-> p1, explicit |-> "lxns"],
   [kind |-> "records", who |-> "username", explicit |-> "none"]}

(* Queries alone; a refresh after a query; reports during refreshes. *)
SomeBudgets ==
  {[ticks |-> 2, asks |-> 2, settings |-> 1, runs |-> 0, reads |-> 0],
   [ticks |-> 1, asks |-> 1, settings |-> 0, runs |-> 1, reads |-> 0],
   [ticks |-> 0, asks |-> 0, settings |-> 0, runs |-> 2, reads |-> 1]}

Calls == Permutations(Call)
=============================================================================
