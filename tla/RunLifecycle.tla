---------------------------- MODULE RunLifecycle ----------------------------
(***************************************************************************)
(* What the Demo Lab promises about its run records, without processes,    *)
(* versions, locks, retries or restarts.  One run is active at a time.  A  *)
(* record moves along the status diagram and ends once: with the result    *)
(* its Runner reported, or given up as interrupted or expired.  A record   *)
(* that has ended never changes again.                                     *)
(***************************************************************************)
CONSTANT Requests          \* runs that may be requested

VARIABLES status,          \* status of each run record
          outcome,         \* outcome of each run record
          report           \* what the Runner's execution ended with, or "none"

runVars == <<status, outcome, report>>

Ongoing == {"queued", "starting", "running", "waiting"}
Reports == {"approved", "denied", "cancelled", "failed"}

\* Moves between statuses of a run that has not ended.
Onward == [queued   |-> {"queued", "starting"},
           starting |-> {"starting", "running", "waiting"},
           running  |-> {"running", "waiting"},
           waiting  |-> {"waiting", "running"}]

StatusOf(result) == CASE result \in {"approved", "denied"} -> "succeeded"
                      [] OTHER -> result

LifecycleInit == /\ status = [r \in Requests |-> "absent"]
                 /\ outcome = [r \in Requests |-> "none"]
                 /\ report = [r \in Requests |-> "none"]

Request(r) == /\ status[r] = "absent"
              /\ \A other \in Requests : status[other] \notin Ongoing
              /\ status' = [status EXCEPT ![r] = "queued"]
              /\ UNCHANGED <<outcome, report>>

Progress(r) == /\ status[r] \in Ongoing
               /\ \E next \in Onward[status[r]] :
                     status' = [status EXCEPT ![r] = next]
               /\ UNCHANGED <<outcome, report>>

Finish(r) == /\ report[r] = "none"
             /\ \E result \in Reports : report' = [report EXCEPT ![r] = result]
             /\ UNCHANGED <<status, outcome>>

Conclude(r) == /\ status[r] \in Ongoing
               /\ report[r] # "none"
               /\ status' = [status EXCEPT ![r] = StatusOf(report[r])]
               /\ outcome' = [outcome EXCEPT ![r] = report[r]]
               /\ UNCHANGED report

GiveUp(r) == /\ status[r] \in Ongoing
             /\ \E end \in {"interrupted"} \cup
                             (IF status[r] = "waiting" THEN {"expired"} ELSE {}) :
                   status' = [status EXCEPT ![r] = end]
             /\ \E why \in {"failed", "cancelled"} :
                   outcome' = [outcome EXCEPT ![r] = why]
             /\ UNCHANGED report

LifecycleNext == \E r \in Requests : \/ Request(r) \/ Progress(r) \/ Finish(r)
                                     \/ Conclude(r) \/ GiveUp(r)

LifecycleSpec == LifecycleInit /\ [][LifecycleNext]_runVars
=============================================================================
