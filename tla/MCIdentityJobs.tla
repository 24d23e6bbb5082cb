---------------------------- MODULE MCIdentityJobs ----------------------------
(* Instances of IdentityJobs for TLC. *)
EXTENDS IdentityJobs

CONSTANTS c1, c2

(* Both calls lead and follow flights; one of them starts jobs too.        *)
StartIfStale  == [c \in Call |-> IF c = c1 THEN {"refresh"} ELSE {"refresh", "ifStale"}]
MixedRequests == [c \in Call |-> {"refresh", "force"} \cup IF c = c1 THEN {"status"} ELSE {}]
=============================================================================
