--------------------------------- MODULE Lanes ---------------------------------
(* A scheduler lane: the persistent admission record of one platform or of one  *)
(* account (scheduler/repository.py, table scheduler_lanes).  A lane limits how *)
(* many Jobs of its scope are leased at once, paces their starts and carries a  *)
(* circuit breaker.  The operators below are the repository's lane writes as    *)
(* functions from a lane row (and the Job concerned) to the next row; Scheduler *)
(* applies them to both lanes of a Job inside one transaction.                  *)
(*                                                                              *)
(* Time is reduced to what the guards compare: "paced" is next_start_at <= now, *)
(* "cooled" is circuit_open_until <= now.  The columns revision and updated_at  *)
(* are left out: every writer holds SQLite's writer slot for its whole          *)
(* transaction, so the revision compare-and-set never fails there.              *)
EXTENDS Integers

CONSTANTS NoJob,       \* half_open_job_id IS NULL
          FailureCap   \* the ceiling of consecutive_failures, 2^31-1 in the code

ASSUME FailureCapAssumption == FailureCap \in Nat \ {0}

Circuits == {"closed", "open", "half_open"}

LaneRows(ids, policies) ==
  [circuit  : Circuits,
   failures : 0..FailureCap,
   probe    : ids \cup {NoJob},
   cooled   : BOOLEAN,
   paced    : BOOLEAN,
   policy   : policies]

(* _ensure_lane: a lane is created closed, without failures and startable.      *)
FreshLane(policy) ==
  [circuit |-> "closed", failures |-> 0, probe |-> NoJob,
   cooled |-> TRUE, paced |-> TRUE, policy |-> policy]

Probing(lane, j) == lane.circuit = "half_open" /\ lane.probe = j

(* _lane_allows, with the number of Jobs the lane has leased.                   *)
Allows(lane, j, active) ==
  /\ lane.paced
  /\ active < lane.policy.limit
  /\ \/ lane.circuit = "closed"
     \/ lane.circuit = "open" /\ lane.cooled
     \/ lane.circuit = "half_open" /\ lane.probe \in {NoJob, j}

(* _reserve_lane: the claimed Job starts the next pacing interval and, unless   *)
(* the circuit is closed, becomes its single half-open probe.                   *)
Reserve(lane, j) ==
  LET started == [lane EXCEPT !.paced = ~lane.policy.interval, !.cooled = TRUE]
  IN  IF lane.circuit = "closed"
        THEN [started EXCEPT !.probe = NoJob]
        ELSE [started EXCEPT !.circuit = "half_open", !.probe = j]

Close(lane, failures) ==
  [lane EXCEPT !.circuit = "closed", !.failures = failures,
               !.probe = NoJob, !.cooled = TRUE]

(* _apply_lane_success: only a closed lane or the probe's own lane is reset.    *)
Succeed(lane, j) ==
  IF lane.circuit = "closed" \/ Probing(lane, j) THEN Close(lane, 0) ELSE lane

(* Mutant: the failure counter has no ceiling.                                  *)
CountFailureUncapped(lane, j) ==
  IF lane.circuit = "half_open" /\ lane.probe \notin {NoJob, j} THEN lane
  ELSE [lane EXCEPT !.circuit = "open", !.failures = @ + 1, !.probe = NoJob, !.cooled = FALSE]

(* _apply_lane_failure for a failure that counts: another Job's probe keeps the *)
(* half-open verdict to itself; otherwise the failure is counted and the lane   *)
(* opens at its threshold, or at once when it was not closed.                   *)
CountFailure(lane, j) ==
  LET failures == IF lane.failures < FailureCap THEN lane.failures + 1 ELSE FailureCap
      judged   == lane.circuit = "half_open" /\ lane.probe \notin {NoJob, j}
      trips    == lane.circuit # "closed" \/ failures >= lane.policy.threshold
  IN  IF judged THEN lane
      ELSE IF trips
        THEN [lane EXCEPT !.circuit = "open", !.failures = failures,
                          !.probe = NoJob, !.cooled = FALSE]
        ELSE Close(lane, failures)

(* Mutant: a terminal Job keeps its probe.                                      *)
PassFailureKeepingProbe(lane, j, terminal) == lane

(* _apply_lane_failure for a failure that does not count: a terminal Job gives  *)
(* its probe back, a Job that will run again keeps it.                          *)
PassFailure(lane, j, terminal) ==
  IF terminal /\ Probing(lane, j) THEN Close(lane, lane.failures) ELSE lane

(* _release_lane_probe(reset_all=False)                                         *)
ReleaseProbe(lane, j) ==
  IF Probing(lane, j) THEN Close(lane, lane.failures) ELSE lane
================================================================================
