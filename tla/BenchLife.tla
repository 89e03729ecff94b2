------------------------------ MODULE BenchLife ------------------------------
(***************************************************************************)
(* What a benchmark run promises about its jobs: one job at a time is      *)
(* active, every job that leaves the queue ends exactly once, and an ended *)
(* job is never touched again unless the whole run is started over.        *)
(***************************************************************************)
CONSTANTS Job

VARIABLE status   \* status[j]: where job j is in the run

Ended    == {"ok", "failed", "skipped", "stopped"}
Status   == {"queued", "active"} \cup Ended
Queued   == {j \in Job : status[j] = "queued"}
Active   == {j \in Job : status[j] = "active"}

TypeOK == status \in [Job -> Status]

Init == status = [j \in Job |-> "queued"]

\* A queued job is taken out of the run by the user.
Drop(j) ==
  /\ j \in Queued
  /\ status' = [status EXCEPT ![j] = "skipped"]

\* The runner takes up a queued job when it has none.
Begin(j) ==
  /\ j \in Queued /\ Active = {}
  /\ status' = [status EXCEPT ![j] = "active"]

\* The active job ends, in any of the four ways.
End(j) ==
  /\ j \in Active
  /\ \E e \in Ended : status' = [status EXCEPT ![j] = e]

\* The runner dies with its active job, or starts the whole run over.
Abandon(j) ==
  /\ j \in Active
  /\ status' = [status EXCEPT ![j] = "queued"]
Rerun ==
  /\ Active = {}
  /\ status' = [j \in Job |-> "queued"]

Next ==
  \/ \E j \in Job : Drop(j) \/ Begin(j) \/ End(j) \/ Abandon(j)
  \/ Rerun

Spec == Init /\ [][Next]_status

OneActive == \A j, k \in Active : j = k
=============================================================================
