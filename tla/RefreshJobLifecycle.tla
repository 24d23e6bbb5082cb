-------------------------- MODULE RefreshJobLifecycle --------------------------
(***************************************************************************)
(* What the job table promises its readers: jobs are accepted one at a     *)
(* time, may start running, and are settled once, with an outcome that     *)
(* fits the way they ended.                                                *)
(***************************************************************************)
CONSTANT JobId
VARIABLES status, outcome

ran == {"success", "partial_failure", "failed"}

Init ==
  /\ status  = [j \in JobId |-> "absent"]
  /\ outcome = [j \in JobId |-> "none"]

Accept(j) ==
  /\ status[j] = "absent"
  /\ \A i \in JobId : status[i] \notin {"queued", "running"}
  /\ status' = [status EXCEPT ![j] = "queued"]
  /\ UNCHANGED outcome

Begin(j) ==
  /\ status[j] = "queued"
  /\ status' = [status EXCEPT ![j] = "running"]
  /\ UNCHANGED outcome

Settle(j, to, out) ==
  /\ status[j] \in {"queued", "running"}
  /\ to = "completed" => status[j] = "running"
  /\ status'  = [status EXCEPT ![j] = to]
  /\ outcome' = [outcome EXCEPT ![j] = out]

Next ==
  \E j \in JobId :
    \/ Accept(j) \/ Begin(j)
    \/ \E out \in ran : Settle(j, "completed", out)
    \/ Settle(j, "failed", "failed")
    \/ Settle(j, "interrupted", "interrupted")

Spec == Init /\ [][Next]_<<status, outcome>>
=============================================================================
