---------------------------- MODULE SchedulerProofs ----------------------------
(* Proofs about Scheduler for every number of subscriptions, accounts, workers, *)
(* tokens, Runs, attempts and revisions.                                        *)
EXTENDS Scheduler, TLAPS

--------------------------------------------------------------------------------
(* The lane operators *)

(* Every write of a lane row leaves a lane row; in particular the failure       *)
(* counter never passes its ceiling (_apply_lane_failure).                      *)
LEMMA LaneWritesKeepRows ==
  ASSUME NEW ids, NEW policies,
         policies \subseteq [limit : Nat \ {0}, threshold : Nat \ {0}, interval : BOOLEAN],
         NEW row \in LaneRows(ids, policies)
  PROVE  /\ \A j \in ids : Reserve(row, j) \in LaneRows(ids, policies)
         /\ \A n \in 0..FailureCap : Close(row, n) \in LaneRows(ids, policies)
         /\ \A j : /\ Succeed(row, j) \in LaneRows(ids, policies)
                   /\ CountFailure(row, j) \in LaneRows(ids, policies)
                   /\ ReleaseProbe(row, j) \in LaneRows(ids, policies)
         /\ \A j, terminal : PassFailure(row, j, terminal) \in LaneRows(ids, policies)
<1> USE FailureCapAssumption DEF LaneRows, Circuits
<1>1. \A n \in 0..FailureCap : Close(row, n) \in LaneRows(ids, policies)
  BY DEF Close
<1>2. \A j \in ids : Reserve(row, j) \in LaneRows(ids, policies)
  BY DEF Reserve
<1>3. \A j : Succeed(row, j) \in LaneRows(ids, policies)
  BY <1>1 DEF Succeed
<1>4. \A j : CountFailure(row, j) \in LaneRows(ids, policies)
  <2> TAKE j
  <2> DEFINE counted == IF row.failures < FailureCap THEN row.failures + 1 ELSE FailureCap
  <2>1. counted \in 0..FailureCap
    OBVIOUS
  <2>2. [row EXCEPT !.circuit = "open", !.failures = counted,
                    !.probe = NoJob, !.cooled = FALSE] \in LaneRows(ids, policies)
    BY <2>1
  <2>3. Close(row, counted) \in LaneRows(ids, policies)
    BY <1>1, <2>1
  <2> HIDE DEF counted
  <2>4. CountFailure(row, j) \in {row, Close(row, counted),
                                  [row EXCEPT !.circuit = "open", !.failures = counted,
                                              !.probe = NoJob, !.cooled = FALSE]}
    BY DEF CountFailure, counted
  <2> QED BY <2>2, <2>3, <2>4
<1>5. \A j : ReleaseProbe(row, j) \in LaneRows(ids, policies)
  BY <1>1 DEF ReleaseProbe
<1>6. \A j, terminal : PassFailure(row, j, terminal) \in LaneRows(ids, policies)
  BY <1>1 DEF PassFailure
<1> QED BY <1>1, <1>2, <1>3, <1>4, <1>5, <1>6

(* No lane write but a reservation makes a Job the probe of a lane.             *)
LEMMA OnlyReserveProbes ==
  ASSUME NEW row \in LaneRows(JobIds, Policies), NEW i, NEW j
  PROVE  /\ \A n : ~Probing(Close(row, n), i)
         /\ Probing(Succeed(row, j), i) => Probing(row, i)
         /\ Probing(CountFailure(row, j), i) => Probing(row, i)
         /\ Probing(ReleaseProbe(row, j), i) => Probing(row, i)
         /\ \A terminal : Probing(PassFailure(row, j, terminal), i) => Probing(row, i)
         /\ \A p : Probing([row EXCEPT !.policy = p], i) => Probing(row, i)
         /\ Probing(Reserve(row, j), i) => i = j
BY DEF LaneRows, Probing, Close, Succeed, CountFailure, ReleaseProbe, PassFailure, Reserve

--------------------------------------------------------------------------------
(* The effects several transactions share *)

USE SchedulerAssumption DEF SchedulerAssumption

(* A Job belongs to a subscription, and its two lanes exist. *)
LEMMA JobIsOfSub ==
  ASSUME NEW j \in JobIds
  PROVE  /\ SubOf(j) \in Subs
         /\ CycleOf(j) \in Nat
         /\ LanesOf(j) \subseteq LaneIds
BY DEF JobIds, SubOf, CycleOf, LanesOf, LaneIds

(* Writing one Job row. *)
LEMMA SetJobType ==
  ASSUME TypeOK, NEW j \in JobIds, NEW row \in JobRows, SetJob(j, row)
  PROVE  job' \in [JobIds -> JobRows]
BY DEF TypeOK, SetJob

(* Giving a lease up keeps a Job row a Job row. *)
LEMMA UnleasedType ==
  ASSUME NEW row \in JobRows, NEW status \in JobStatuses
  PROVE  Unleased(row, status) \in JobRows
BY DEF Unleased, JobRows

(* An absent and a freshly materialised Job are Job rows. *)
LEMMA NewJobType == /\ NoJobRow \in JobRows
                   /\ [NoJobRow EXCEPT !.status = "queued"] \in JobRows
<1>1. NoJobRow \in JobRows
  BY DEF NoJobRow, JobRows, JobStatuses
<1>2. "queued" \in JobStatuses
  BY DEF JobStatuses, ActiveStatuses
<1> QED BY <1>1, <1>2 DEF JobRows

(* Leasing a Job that has an attempt left counts one attempt within the limit. *)
LEMMA LeasedJobType ==
  ASSUME NEW row \in JobRows, row.attempts \in 0..MaxAttempts - 1, NEW t \in Tokens
  PROVE  [row EXCEPT !.status = "claimed", !.lease = "live", !.token = t, !.attempts = @ + 1]
           \in JobRows
<1>1. "claimed" \in JobStatuses
  BY DEF JobStatuses, ActiveStatuses, WorkStatuses
<1>2. row.attempts + 1 \in 0..MaxAttempts
  OBVIOUS
<1>3. "live" \in {"none", "live", "expired"}
  OBVIOUS
<1> QED BY <1>1, <1>2, <1>3 DEF JobRows

(* Every lane operator of the repository takes a stored lane row to a lane row. *)
LEMMA LaneType ==
  ASSUME TypeOK, NEW l \in LaneIds
  PROVE  /\ lane[l] \in LaneRows(JobIds, Policies)
         /\ \A j \in JobIds : Reserve(lane[l], j) \in LaneRows(JobIds, Policies)
         /\ \A n \in 0..FailureCap : Close(lane[l], n) \in LaneRows(JobIds, Policies)
         /\ \A j : /\ Succeed(lane[l], j) \in LaneRows(JobIds, Policies)
                   /\ CountFailure(lane[l], j) \in LaneRows(JobIds, Policies)
                   /\ ReleaseProbe(lane[l], j) \in LaneRows(JobIds, Policies)
         /\ \A j, terminal : PassFailure(lane[l], j, terminal) \in LaneRows(JobIds, Policies)
<1>1. lane[l] \in LaneRows(JobIds, Policies)
  BY DEF TypeOK
<1> QED BY <1>1, LaneWritesKeepRows

(* Writing the fixed delay keeps the subscription rows. *)
LEMMA FinalizeSubscriptionType ==
  ASSUME TypeOK, NEW j \in JobIds, FinalizeSubscription(j)
  PROVE  sub' \in [Subs -> SubRows]
<1> DEFINE s == SubOf(j)
<1>1. s \in Subs /\ sub \in [Subs -> SubRows]
  BY JobIsOfSub DEF TypeOK
<1>2. [sub[s] EXCEPT !.due = FALSE] \in SubRows
  <2>1. sub[s] \in SubRows
    BY <1>1
  <2> QED BY <2>1 DEF SubRows
<1>3. sub' \in {sub, [sub EXCEPT ![s] = [sub[s] EXCEPT !.due = FALSE]]}
  BY DEF FinalizeSubscription
<1> QED BY <1>1, <1>2, <1>3

(* Completing a Job with its succeeded Run keeps every row well formed. *)
LEMMA CompleteSuccessType ==
  ASSUME TypeOK, NEW j \in JobIds, NEW r \in Runs \cup {NoRun}, CompleteSuccess(j, r)
  PROVE  /\ sub' \in [Subs -> SubRows]
         /\ job' \in [JobIds -> JobRows]
         /\ lane' \in [LaneIds -> LaneRows(JobIds, Policies)]
         /\ run' \in [Runs -> RunStatuses]
         /\ coord' \in [JobIds -> CoordStates]
<1> USE DEF CompleteSuccess
<1>1. sub' \in [Subs -> SubRows]
  BY FinalizeSubscriptionType
<1>2. job' \in [JobIds -> JobRows]
  <2>1. [Unleased(job[j], "succeeded") EXCEPT !.run = r] \in JobRows
    BY UnleasedType DEF TypeOK, JobRows, JobStatuses, TerminalStatuses
  <2> QED BY <2>1, SetJobType
<1>3. lane' \in [LaneIds -> LaneRows(JobIds, Policies)]
  BY LaneType DEF SetLanes
<1>4. run' \in [Runs -> RunStatuses]
  BY DEF TypeOK
<1>5. coord' \in [JobIds -> CoordStates]
  BY DEF EnqueuePipeline, TypeOK, CoordStates
<1> QED BY <1>1, <1>2, <1>3, <1>4, <1>5

(* Completing a Job with an ownership conflict keeps every row well formed. *)
LEMMA CompleteConflictType ==
  ASSUME TypeOK, NEW j \in JobIds, CompleteConflict(j)
  PROVE  /\ sub' \in [Subs -> SubRows]
         /\ job' \in [JobIds -> JobRows]
         /\ lane' \in [LaneIds -> LaneRows(JobIds, Policies)]
         /\ run' \in [Runs -> RunStatuses]
         /\ coord' \in [JobIds -> CoordStates]
<1> USE DEF CompleteConflict
<1>1. sub' \in [Subs -> SubRows]
  BY FinalizeSubscriptionType
<1>2. job' \in [JobIds -> JobRows]
  BY UnleasedType, SetJobType DEF TypeOK, JobStatuses, TerminalStatuses
<1>3. lane' \in [LaneIds -> LaneRows(JobIds, Policies)]
  BY LaneType DEF SetLanes
<1>4. run' \in [Runs -> RunStatuses] /\ coord' \in [JobIds -> CoordStates]
  BY DEF TypeOK
<1> QED BY <1>1, <1>2, <1>3, <1>4

(* Cancelling the attached Run writes a Run status. *)
LEMMA CancelAttachedRunType ==
  ASSUME TypeOK, NEW j \in JobIds, CancelAttachedRun(j)
  PROVE  run' \in [Runs -> RunStatuses]
BY DEF TypeOK, CancelAttachedRun, RunStatuses, TerminalRuns

(* The two ways a worker moves in its own memory. *)
LEMMA WorkerType ==
  ASSUME TypeOK, NEW w \in Workers
  PROVE  /\ Forget(w) => /\ worker' \in [Workers -> WorkerStates]
                         /\ \A v \in Workers : worker'[v].pc # "idle" => worker'[v].job \in JobIds
         /\ \A pc \in Points, r \in Runs \cup {NoRun}, result \in Results :
              Goto(w, pc, r, result) /\ worker[w].pc # "idle"
                => /\ worker' \in [Workers -> WorkerStates]
                   /\ \A v \in Workers : worker'[v].pc # "idle" => worker'[v].job \in JobIds
<1>1. IdleWorker \in WorkerStates
  BY DEF IdleWorker, WorkerStates, Points, Results
<1>2. Forget(w) => /\ worker' \in [Workers -> WorkerStates]
                   /\ \A v \in Workers : worker'[v].pc # "idle" => worker'[v].job \in JobIds
  BY <1>1 DEF Forget, TypeOK, IdleWorker
<1>3. ASSUME NEW pc \in Points, NEW r \in Runs \cup {NoRun}, NEW result \in Results,
             Goto(w, pc, r, result), worker[w].pc # "idle"
      PROVE  /\ worker' \in [Workers -> WorkerStates]
             /\ \A v \in Workers : worker'[v].pc # "idle" => worker'[v].job \in JobIds
  <2> DEFINE moved == [worker[w] EXCEPT !.pc = pc, !.run = r, !.result = result]
  <2>1. worker \in [Workers -> WorkerStates] /\ worker[w].job \in JobIds
    BY <1>3 DEF TypeOK
  <2>2. moved \in WorkerStates /\ moved.job \in JobIds
    BY <2>1 DEF WorkerStates
  <2>3. worker' = [worker EXCEPT ![w] = moved]
    BY <1>3, <2>1 DEF Goto
  <2> HIDE DEF moved
  <2> QED BY <2>1, <2>2, <2>3 DEF TypeOK
<1> QED BY <1>2, <1>3

--------------------------------------------------------------------------------
(* Type correctness *)

(* Materialisation, reclaim and claim keep the types. *)
LEMMA SchedulerStepType ==
  ASSUME TypeOK, SchedulerNext
  PROVE  TypeOK'
<1>1. ASSUME NEW s \in Subs, Materialize(s)
      PROVE  TypeOK'
  <2> USE <1>1 DEF Materialize
  <2>1. sub[s] \in SubRows /\ sub[s].revision \in 0..MaxRevision - 1
    BY DEF TypeOK, SubRows, Revisions
  <2>2. sub' \in [Subs -> SubRows]
    <3>1. [sub[s] EXCEPT !.revision = @ + 1] \in SubRows
      BY <2>1 DEF SubRows, Revisions
    <3> QED BY <3>1 DEF TypeOK
  <2>3. job' \in [JobIds -> JobRows]
    <3>1. <<s, sub[s].revision>> \in JobIds
      BY <2>1 DEF JobIds
    <3>2. [NoJobRow EXCEPT !.status = "queued"] \in JobRows
      BY NewJobType
    <3> QED BY <3>1, <3>2, SetJobType
  <2> QED BY <2>2, <2>3 DEF TypeOK
<1>2. ASSUME NEW j \in JobIds, Reclaim(j)
      PROVE  TypeOK'
  <2>0. job[j] \in JobRows
    BY DEF TypeOK
  <2>1. CASE ReclaimSucceeded(j)
    <3>1. job[j].run \in Runs \cup {NoRun}
      BY <2>0 DEF JobRows
    <3> QED BY <2>1, <3>1, CompleteSuccessType DEF ReclaimSucceeded, TypeOK
  <2>2. CASE ReclaimConflict(j)
    BY <2>2, CompleteConflictType DEF ReclaimConflict, TypeOK
  <2>3. CASE ReclaimLost(j)
    <3> USE <2>3 DEF ReclaimLost
    <3>1. job' \in [JobIds -> JobRows]
      BY <2>0, UnleasedType, SetJobType
      DEF JobStatuses, ActiveStatuses, RequeueStatuses, TerminalStatuses
    <3>2. run' \in [Runs -> RunStatuses]
      BY CancelAttachedRunType
    <3>3. lane' \in [LaneIds -> LaneRows(JobIds, Policies)]
      BY LaneType DEF SetLanes
    <3>4. sub' \in [Subs -> SubRows]
      BY FinalizeSubscriptionType DEF TypeOK
    <3> QED BY <3>1, <3>2, <3>3, <3>4 DEF TypeOK
  <2> QED BY <1>2, <2>1, <2>2, <2>3 DEF Reclaim
<1>3. ASSUME NEW w \in Workers, NEW j \in JobIds, NEW requeued, NEW t \in FreshTokens,
             Claim(w, j, requeued, t)
      PROVE  TypeOK'
  <2> USE <1>3 DEF Claim
  <2>1. t \in Tokens
    BY DEF FreshTokens
  <2>2. job' \in [JobIds -> JobRows]
    <3>1. \A i \in JobIds : job[i] \in JobRows
      BY DEF TypeOK
    <3>2. job[j].attempts \in 0..MaxAttempts - 1
      BY <3>1 DEF Claimable, JobRows
    <3>3. [job[j] EXCEPT !.status = "claimed", !.lease = "live", !.token = t,
                         !.attempts = @ + 1] \in JobRows
      BY <2>1, <3>1, <3>2, LeasedJobType
    <3>4. \A i \in JobIds : [job[i] EXCEPT !.status = "queued"] \in JobRows
      BY <3>1 DEF JobRows, JobStatuses, ActiveStatuses
    <3> QED BY <3>1, <3>3, <3>4
  <2>3. lane' \in [LaneIds -> LaneRows(JobIds, Policies)]
    BY LaneType DEF SetLanes
  <2>4. /\ worker' \in [Workers -> WorkerStates]
        /\ \A v \in Workers : worker'[v].pc # "idle" => worker'[v].job \in JobIds
    <3>1. [IdleWorker EXCEPT !.pc = "claimed", !.job = j, !.token = t] \in WorkerStates
      BY <2>1 DEF IdleWorker, WorkerStates, Points, Results
    <3> QED BY <3>1 DEF TypeOK, IdleWorker
  <2> QED BY <2>2, <2>3, <2>4 DEF TypeOK
<1> QED BY <1>1, <1>2, <1>3
        DEF SchedulerNext, MaterializeDue, MaterializeOne, ClaimNext, ClaimExact

(* What a worker remembers, as far as its type goes. *)
LEMMA MemoryType ==
  ASSUME TypeOK, NEW w \in Workers
  PROVE  /\ worker[w].run \in Runs \cup {NoRun}
         /\ worker[w].result \in Results
         /\ worker[w].pc # "idle"
              => /\ worker[w].job \in JobIds
                 /\ job[worker[w].job] \in JobRows
                 /\ job[worker[w].job].run \in Runs \cup {NoRun}
                 /\ FinalRun(w) \in Runs \cup {NoRun}
BY DEF TypeOK, WorkerStates, JobRows, FinalRun

(* The handler and its heartbeat keep the types. *)
LEMMA HandlerStepType ==
  ASSUME TypeOK, NEW w \in Workers, Start(w) \/ Heartbeat(w) \/ Handle(w) \/ HeartbeatFails(w)
  PROVE  TypeOK'
<1> DEFINE j == worker[w].job
<1>0. /\ \A pc \in {"context", "attempt", "returned"} : pc \in Points /\ pc # "idle"
      /\ {"none", "success"} \cup Failures \subseteq Results
  BY DEF Points, Results
<1>1. CASE Start(w)
  <2> USE <1>1 DEF Start
  <2>1. j \in JobIds /\ job[j] \in JobRows /\ job[j].run \in Runs \cup {NoRun}
    BY MemoryType DEF Owns
  <2>2. [job[j] EXCEPT !.status = "running"] \in JobRows
    BY <2>1 DEF JobRows, JobStatuses, ActiveStatuses, WorkStatuses
  <2>3. job' \in [JobIds -> JobRows]
    BY <2>1, <2>2, SetJobType
  <2>4. /\ worker' \in [Workers -> WorkerStates]
        /\ \A v \in Workers : worker'[v].pc # "idle" => worker'[v].job \in JobIds
    BY <1>0, <2>1, WorkerType
  <2> QED BY <2>3, <2>4 DEF TypeOK
<1>2. CASE Heartbeat(w)
  <2> USE <1>2 DEF Heartbeat
  <2>1. j \in JobIds /\ job[j] \in JobRows
    BY MemoryType
  <2>2. [job[j] EXCEPT !.lease = "live"] \in JobRows
    BY <2>1 DEF JobRows
  <2> QED BY <2>1, <2>2, SetJobType DEF TypeOK
<1>3. ASSUME NEW r \in Runs, CreateAttachedRun(w, r)
      PROVE  TypeOK'
  <2> USE <1>3 DEF CreateAttachedRun
  <2>1. j \in JobIds /\ job[j] \in JobRows
    BY MemoryType
  <2>2. job' \in [JobIds -> JobRows]
    <3>1. [job[j] EXCEPT !.run = r] \in JobRows
      BY <2>1 DEF JobRows
    <3> QED BY <2>1, <3>1, SetJobType
  <2>3. run' \in [Runs -> RunStatuses]
    BY DEF TypeOK, RunStatuses, OpenRuns, TerminalRuns
  <2>4. /\ worker' \in [Workers -> WorkerStates]
        /\ \A v \in Workers : worker'[v].pc # "idle" => worker'[v].job \in JobIds
    BY <1>0, WorkerType
  <2> QED BY <2>2, <2>3, <2>4 DEF TypeOK
<1>4. ASSUME NEW from, NEW to \in RunStatuses, WriteRun(w, from, to)
      PROVE  run' \in [Runs -> RunStatuses]
  BY <1>4 DEF WriteRun, TypeOK
<1>5. CASE SetIngesting(w)
  BY <1>4, <1>5 DEF SetIngesting, WriteRun, TypeOK, RunStatuses, OpenRuns
<1>6. CASE CommitIngestion(w)
  BY <1>4, <1>6 DEF CommitIngestion, WriteRun, TypeOK, RunStatuses, TerminalRuns
<1>7. ASSUME NEW code \in Failures, FailAttempt(w, code)
      PROVE  TypeOK'
  <2> USE <1>7 DEF FailAttempt
  <2>1. RunTarget(code) \in RunStatuses
    BY DEF RunTarget, RunStatuses, OpenRuns, TerminalRuns
  <2>2. run' \in [Runs -> RunStatuses]
    BY <1>4, <2>1
  <2>3. /\ worker' \in [Workers -> WorkerStates]
        /\ \A v \in Workers : worker'[v].pc # "idle" => worker'[v].job \in JobIds
    BY <1>0, WorkerType DEF WriteRun
  <2> QED BY <2>2, <2>3 DEF TypeOK, WriteRun
<1>8. CASE ReturnSuccess(w)
  BY <1>0, <1>8, MemoryType, WorkerType DEF ReturnSuccess, TypeOK
<1>9. ASSUME NEW code \in Failures, NEW keep \in BOOLEAN, ReturnFailure(w, code, keep)
      PROVE  TypeOK'
  <2>1. /\ worker' \in [Workers -> WorkerStates]
        /\ \A v \in Workers : worker'[v].pc # "idle" => worker'[v].job \in JobIds
    BY <1>0, <1>9, MemoryType, WorkerType DEF ReturnFailure
  <2> QED BY <1>9, <2>1 DEF ReturnFailure, TypeOK
<1>10. CASE HeartbeatFails(w)
  <2>1. "terminal" \in Results
    BY DEF Results, Failures
  <2> QED BY <1>0, <1>10, <2>1, WorkerType DEF HeartbeatFails, TypeOK
<1> QED BY <1>1, <1>2, <1>3, <1>5, <1>6, <1>7, <1>8, <1>9, <1>10 DEF Handle

(* The lane writes of a failure keep the lane rows. *)
LEMMA LaneFailureType ==
  ASSUME TypeOK, NEW j, NEW code, NEW terminal, LaneFailure(j, code, terminal)
  PROVE  lane' \in [LaneIds -> LaneRows(JobIds, Policies)]
BY LaneType DEF LaneFailure, SetLanes

(* Every way a worker finalises its Job keeps the types. *)
LEMMA FinalizeStepType ==
  ASSUME TypeOK, NEW w \in Workers, Finalize(w)
  PROVE  TypeOK'
<1> DEFINE j == worker[w].job
           code == worker[w].result
<1>0. /\ j \in JobIds
      /\ job[j] \in JobRows
      /\ FinalRun(w) \in Runs \cup {NoRun}
      /\ worker[w].pc # "idle"
  BY MemoryType
  DEF Finalize, FinalizeConflict, FinalizeSuccess, FinalizeWait, FinalizeRetry,
      FinalizeTerminal, Finalizing
<1>1. \A status \in JobStatuses, avail \in BOOLEAN :
        /\ [Unleased(job[j], status) EXCEPT !.run = FinalRun(w)] \in JobRows
        /\ [Unleased(job[j], status) EXCEPT !.avail = avail, !.run = FinalRun(w)] \in JobRows
  BY <1>0, UnleasedType DEF JobRows
<1>2. CASE FinalizeConflict(w)
  BY <1>0, <1>2, CompleteConflictType, WorkerType DEF FinalizeConflict, TypeOK
<1>3. CASE FinalizeSuccess(w)
  BY <1>0, <1>3, CompleteSuccessType, WorkerType DEF FinalizeSuccess, TypeOK
<1>4. CASE FinalizeWait(w)
  <2> USE <1>4 DEF FinalizeWait
  <2>1. Disposition[code] \in JobStatuses
    BY DEF Waiting, JobStatuses, ActiveStatuses, WaitingStatuses
  <2>2. job' \in [JobIds -> JobRows]
    BY <1>0, <1>1, <2>1, SetJobType
  <2> QED BY <2>2, LaneFailureType, WorkerType DEF TypeOK
<1>5. ASSUME NEW status \in RequeueStatuses, FinalizeRetry(w, status)
      PROVE  TypeOK'
  <2> USE <1>5 DEF FinalizeRetry
  <2>1. status \in JobStatuses
    BY DEF JobStatuses, ActiveStatuses
  <2>2. job' \in [JobIds -> JobRows]
    BY <1>0, <1>1, <2>1, SetJobType
  <2> QED BY <2>2, LaneFailureType, WorkerType DEF TypeOK
<1>6. CASE FinalizeTerminal(w)
  <2> USE <1>6 DEF FinalizeTerminal
  <2>1. "failed_terminal" \in JobStatuses
    BY DEF JobStatuses, TerminalStatuses
  <2>2. job' \in [JobIds -> JobRows]
    BY <1>0, <1>1, <2>1, SetJobType
  <2>3. sub' \in [Subs -> SubRows]
    BY <1>0, FinalizeSubscriptionType
  <2> QED BY <2>2, <2>3, LaneFailureType, WorkerType DEF TypeOK
<1> QED BY <1>2, <1>3, <1>4, <1>5, <1>6 DEF Finalize

(* Every step of a worker keeps the types. *)
LEMMA WorkerStepType ==
  ASSUME TypeOK, WorkerNext
  PROVE  TypeOK'
<1> SUFFICES ASSUME NEW w \in Workers,
                    \/ Validate(w) \/ Raises(w) \/ FailClosed(w) \/ LosesLease(w) \/ Crash(w)
             PROVE  TypeOK'
  BY HandlerStepType, FinalizeStepType DEF WorkerNext
<1>0. /\ \A pc \in {"finalizing", "failclosed", "settling"} : pc \in Points /\ pc # "idle"
      /\ \A result \in {"none", "success", "terminal"} : result \in Results
  BY DEF Points, Results, Failures
<1>1. UNCHANGED <<sub, job, lane, run, coord>>
  BY DEF Validate, Raises, FailClosed, LosesLease, Crash
<1>2. /\ worker' \in [Workers -> WorkerStates]
      /\ \A v \in Workers : worker'[v].pc # "idle" => worker'[v].job \in JobIds
  <2>1. CASE Validate(w)
    BY <1>0, <2>1, MemoryType, WorkerType DEF Validate
  <2>2. CASE Raises(w)
    BY <1>0, <2>2, MemoryType, WorkerType DEF Raises
  <2>3. CASE FailClosed(w)
    BY <1>0, <2>3, MemoryType, WorkerType DEF FailClosed
  <2>4. CASE LosesLease(w) \/ Crash(w)
    BY <2>4, WorkerType DEF LosesLease, Crash
  <2> QED BY <2>1, <2>2, <2>3, <2>4
<1> QED BY <1>1, <1>2 DEF TypeOK

(* A resumed Job is a Job row. *)
LEMMA ResumedType ==
  ASSUME NEW row \in JobRows
  PROVE  Resumed(row) \in JobRows
<1>1. "queued" \in JobStatuses /\ MaxAttempts - 1 \in 0..MaxAttempts
  BY DEF JobStatuses, ActiveStatuses
<1> QED BY <1>1 DEF Resumed, JobRows

(* Cancel keeps the types, whichever truth the Run carries. *)
LEMMA CancelStepType ==
  ASSUME TypeOK, NEW j \in JobIds, Cancel(j) \/ Resume(j)
  PROVE  TypeOK'
<1>0. job[j] \in JobRows /\ (RunSucceeded(j) => job[j].run \in Runs)
  BY DEF TypeOK, JobRows, RunSucceeded, RunOf
<1>1. CASE CancelSucceeded(j)
  BY <1>0, <1>1, CompleteSuccessType DEF CancelSucceeded, TypeOK
<1>2. CASE CancelConflict(j)
  BY <1>2, CompleteConflictType DEF CancelConflict, TypeOK
<1>3. CASE CancelActive(j)
  <2> USE <1>3 DEF CancelActive
  <2>1. job' \in [JobIds -> JobRows]
    BY <1>0, UnleasedType, SetJobType DEF JobStatuses, TerminalStatuses
  <2>2. lane' \in [LaneIds -> LaneRows(JobIds, Policies)]
    BY LaneType DEF SetLanes
  <2> QED BY <2>1, <2>2, CancelAttachedRunType, FinalizeSubscriptionType DEF TypeOK
<1>4. CASE Resume(j)
  <2> USE <1>4 DEF Resume
  <2>1. job' \in [JobIds -> JobRows]
    BY <1>0, ResumedType, SetJobType
  <2>2. lane' \in [LaneIds -> LaneRows(JobIds, Policies)]
    BY LaneType DEF SetLanes
  <2> QED BY <2>1, <2>2 DEF TypeOK
<1> QED BY <1>1, <1>2, <1>3, <1>4 DEF Cancel

(* Removal keeps the types although it rewrites rows of four tables. *)
LEMMA RemoveStepType ==
  ASSUME TypeOK, NEW s \in Subs, Remove(s)
  PROVE  TypeOK'
<1> USE DEF Remove
<1>1. sub' \in [Subs -> SubRows]
  <2>1. sub[s] \in SubRows
    BY DEF TypeOK
  <2>2. \A due \in BOOLEAN :
          [sub[s] EXCEPT !.deleted = TRUE, !.enabled = FALSE, !.due = due] \in SubRows
    BY <2>1 DEF SubRows
  <2>3. \E due \in BOOLEAN :
          sub' = [sub EXCEPT ![s] = [sub[s] EXCEPT !.deleted = TRUE, !.enabled = FALSE,
                                                   !.due = due]]
    BY DEF TypeOK
  <2> QED BY <2>2, <2>3 DEF TypeOK
<1>2. job' \in [JobIds -> JobRows]
  <2>1. {"succeeded", "failed_terminal", "cancelled"} \subseteq JobStatuses
    BY DEF JobStatuses, TerminalStatuses
  <2> QED BY <2>1, UnleasedType DEF TypeOK
<1>3. lane' \in [LaneIds -> LaneRows(JobIds, Policies)]
  BY LaneType
<1>4. coord' \in [JobIds -> CoordStates]
  BY DEF TypeOK, CoordStates
<1> QED BY <1>1, <1>2, <1>3, <1>4 DEF TypeOK

(* An operator's lane write of a lane row keeps the types. *)
LEMMA SetLaneType ==
  ASSUME TypeOK, NEW l \in LaneIds, NEW row \in LaneRows(JobIds, Policies), SetLane(l, row)
  PROVE  TypeOK'
<1>1. lane' \in [LaneIds -> LaneRows(JobIds, Policies)]
  BY DEF SetLane, TypeOK
<1> QED BY <1>1 DEF SetLane, TypeOK

(* Every operator action keeps the types. *)
LEMMA OperatorStepType ==
  ASSUME TypeOK, OperatorNext
  PROVE  TypeOK'
<1>1. ASSUME NEW a \in Accounts, ResumeWaitingAuthForAccount(a)
      PROVE  TypeOK'
  <2> USE <1>1 DEF ResumeWaitingAuthForAccount
  <2>1. job' \in [JobIds -> JobRows]
    BY ResumedType DEF TypeOK
  <2>2. lane' \in [LaneIds -> LaneRows(JobIds, Policies)]
    BY LaneType
  <2> QED BY <2>1, <2>2 DEF TypeOK
<1>2. ASSUME NEW s \in Subs, Pause(s) \/ ResumeSubscription(s) \/ RunNow(s) \/ Restore(s)
      PROVE  TypeOK'
  <2>1. sub[s] \in SubRows
    BY DEF TypeOK
  <2>2. /\ [sub[s] EXCEPT !.enabled = FALSE] \in SubRows
        /\ [sub[s] EXCEPT !.enabled = TRUE] \in SubRows
        /\ [sub[s] EXCEPT !.due = TRUE] \in SubRows
        /\ [sub[s] EXCEPT !.deleted = FALSE, !.enabled = FALSE] \in SubRows
    BY <2>1 DEF SubRows
  <2>3. \A row \in SubRows : SetSchedule(s, row) => TypeOK'
    BY DEF SetSchedule, TypeOK
  <2>4. CASE Restore(s)
    <3>1. sub' = [sub EXCEPT ![s] = [sub[s] EXCEPT !.deleted = FALSE, !.enabled = FALSE]]
      BY <2>4 DEF Restore, TypeOK
    <3>2. sub' \in [Subs -> SubRows]
      BY <2>2, <3>1 DEF TypeOK
    <3> QED BY <2>4, <3>2 DEF Restore, TypeOK
  <2> QED BY <1>2, <2>2, <2>3, <2>4 DEF Pause, ResumeSubscription, RunNow
<1>3. ASSUME NEW l \in LaneIds, ResetLane(l) \/ \E p \in Policies : UpdateLane(l, p)
      PROVE  TypeOK'
  <2>1. lane[l] \in LaneRows(JobIds, Policies) /\ 0 \in 0..FailureCap
    BY FailureCapAssumption DEF TypeOK
  <2>2. \A p \in Policies : [lane[l] EXCEPT !.policy = p] \in LaneRows(JobIds, Policies)
    BY <2>1 DEF LaneRows
  <2>3. Close(lane[l], 0) \in LaneRows(JobIds, Policies)
    BY <2>1, LaneType
  <2> QED BY <1>3, <2>2, <2>3, SetLaneType DEF ResetLane, UpdateLane
<1> QED BY <1>1, <1>2, <1>3, CancelStepType, RemoveStepType DEF OperatorNext

(* Pipeline steps and fired timers keep the types. *)
LEMMA EnvironmentStepType ==
  ASSUME TypeOK, EnvironmentNext
  PROVE  TypeOK'
<1>1. ASSUME NEW j \in JobIds, TakeCoordinator(j) \/ LeaveCoordinator(j)
      PROVE  TypeOK'
  BY <1>1 DEF TypeOK, TakeCoordinator, LeaveCoordinator, CoordStates
<1>2. ASSUME NEW j \in JobIds, ExpireLease(j) \/ RetryDue(j)
      PROVE  TypeOK'
  <2>1. job[j] \in JobRows
    BY DEF TypeOK
  <2>2. /\ [job[j] EXCEPT !.lease = "expired"] \in JobRows
        /\ [job[j] EXCEPT !.avail = TRUE] \in JobRows
    BY <2>1 DEF JobRows
  <2> QED BY <1>2, <2>2, SetJobType DEF ExpireLease, RetryDue, TypeOK
<1>3. ASSUME NEW s \in Subs, FixedDelayOver(s)
      PROVE  TypeOK'
  <2>1. sub \in [Subs -> SubRows]
    BY DEF TypeOK
  <2>2. [sub[s] EXCEPT !.due = TRUE] \in SubRows
    BY <2>1 DEF SubRows
  <2> QED BY <1>3, <2>1, <2>2 DEF FixedDelayOver, TypeOK
<1>4. ASSUME NEW l \in LaneIds, CooldownOver(l) \/ IntervalOver(l)
      PROVE  TypeOK'
  <2>1. lane[l] \in LaneRows(JobIds, Policies)
    BY DEF TypeOK
  <2>2. /\ [lane[l] EXCEPT !.cooled = TRUE] \in LaneRows(JobIds, Policies)
        /\ [lane[l] EXCEPT !.paced = TRUE] \in LaneRows(JobIds, Policies)
    BY <2>1 DEF LaneRows
  <2> QED BY <1>4, <2>2, SetLaneType DEF CooldownOver, IntervalOver
<1> QED BY <1>1, <1>2, <1>3, <1>4 DEF EnvironmentNext

(* The empty database satisfies the types. *)
LEMMA InitType == Init => TypeOK
<1> SUFFICES ASSUME Init PROVE TypeOK
  OBVIOUS
<1>1. [enabled |-> TRUE, deleted |-> FALSE, due |-> TRUE, revision |-> 0] \in SubRows
  BY DEF SubRows, Revisions
<1>2. FreshLane(DefaultPolicy) \in LaneRows(JobIds, Policies)
  BY FailureCapAssumption DEF FreshLane, LaneRows, Circuits
<1>3. IdleWorker \in WorkerStates
  BY DEF IdleWorker, WorkerStates, Points, Results
<1> QED BY <1>1, <1>2, <1>3, NewJobType DEF Init, TypeOK, RunStatuses, CoordStates, IdleWorker

(* No step of the system breaks the types: TypeOK is inductive as it stands. *)
LEMMA StepType == TypeOK /\ [Next]_vars => TypeOK'
<1>1. TypeOK /\ UNCHANGED vars => TypeOK'
  BY DEF TypeOK, vars
<1> QED BY <1>1, SchedulerStepType, WorkerStepType, OperatorStepType, EnvironmentStepType DEF Next

(* Every row keeps its shape whatever the interleaving: attempts stay within    *)
(* max_attempts, a lane's failure counter within its ceiling, the revision      *)
(* within its column, and a busy worker always remembers the Job it claimed     *)
(* (scheduler/repository.py, _claim_eligible, _apply_lane_failure).             *)
THEOREM TypeCorrect == Spec => []TypeOK
BY InitType, StepType, PTL DEF Spec

--------------------------------------------------------------------------------
(* How a step moves the Jobs: only a materialisation opens a cycle or advances  *)
(* a revision, every other write of a status starts from an active Job, and     *)
(* whoever leaves a Job to the scheduler leaves it an attempt.                  *)

ForTheScheduler == {"queued"} \cup RequeueStatuses

JobMoves(j) ==
  \/ job'[j].status = job[j].status /\ job'[j].attempts = job[j].attempts
  \/ /\ job[j].status \in ActiveStatuses
     /\ job'[j].status \in ForTheScheduler => job'[j].attempts < MaxAttempts

RevisionsStay == \A s \in Subs : sub'[s].revision = sub[s].revision

StepKeepsCycles == RevisionsStay /\ \A j \in JobIds : JobMoves(j)

(* Writing the fixed delay moves no schedule revision. *)
LEMMA FinalizeSubscriptionKeepsRevisions ==
  ASSUME TypeOK, NEW j \in JobIds, FinalizeSubscription(j)
  PROVE  RevisionsStay
<1>1. SubOf(j) \in Subs /\ \A s \in Subs : sub[s] \in SubRows
  BY JobIsOfSub DEF TypeOK
<1> QED BY <1>1 DEF FinalizeSubscription, RevisionsStay, SubRows, TypeOK

(* Writing the row of one active Job. *)
LEMMA ActiveJobMoves ==
  ASSUME TypeOK, NEW j \in JobIds, NEW row, SetJob(j, row),
         job[j].status \in ActiveStatuses,
         row.status \in ForTheScheduler => row.attempts < MaxAttempts
  PROVE  \A i \in JobIds : JobMoves(i)
BY DEF TypeOK, SetJob, JobMoves

(* What a Job row is after its lease was given up. *)
LEMMA UnleasedRow ==
  ASSUME NEW row \in JobRows, NEW status
  PROVE  /\ Unleased(row, status).status = status
         /\ Unleased(row, status).attempts = row.attempts
         /\ \A r : /\ [Unleased(row, status) EXCEPT !.run = r].status = status
                   /\ [Unleased(row, status) EXCEPT !.run = r].attempts = row.attempts
         /\ \A r, avail :
              /\ [Unleased(row, status) EXCEPT !.avail = avail, !.run = r].status = status
              /\ [Unleased(row, status) EXCEPT !.avail = avail, !.run = r].attempts = row.attempts
BY DEF Unleased, JobRows

(* Ending or suspending an active Job by giving up its lease is a Job move. *)
LEMMA UnleasedJobMoves ==
  ASSUME TypeOK, NEW j \in JobIds, NEW status, NEW r, NEW avail,
         job[j].status \in ActiveStatuses,
         status \in ForTheScheduler => job[j].attempts < MaxAttempts,
         \/ SetJob(j, Unleased(job[j], status))
         \/ SetJob(j, [Unleased(job[j], status) EXCEPT !.run = r])
         \/ SetJob(j, [Unleased(job[j], status) EXCEPT !.avail = avail, !.run = r])
  PROVE  \A i \in JobIds : JobMoves(i)
<1>1. job[j] \in JobRows
  BY DEF TypeOK
<1> DEFINE Left(row) == row.status = status /\ row.attempts = job[j].attempts
<1>2. /\ Left(Unleased(job[j], status))
      /\ Left([Unleased(job[j], status) EXCEPT !.run = r])
      /\ Left([Unleased(job[j], status) EXCEPT !.avail = avail, !.run = r])
  BY <1>1, UnleasedRow
<1>3. ASSUME NEW row, SetJob(j, row), Left(row)
      PROVE  \A i \in JobIds : JobMoves(i)
  BY <1>3, ActiveJobMoves
<1> HIDE DEF Left
<1> QED BY <1>2, <1>3

(* The two completions that follow the durable truth of a Run keep cycles. *)
LEMMA CompletionKeepsCycles ==
  ASSUME TypeOK, NEW j \in JobIds, job[j].status \in ActiveStatuses,
         CompleteConflict(j) \/ \E r : CompleteSuccess(j, r)
  PROVE  StepKeepsCycles
<1>1. job[j] \in JobRows
  BY DEF TypeOK
<1>2. {"succeeded", "failed_terminal"} \cap ForTheScheduler = {}
  BY DEF ForTheScheduler, RequeueStatuses
<1>3. \A i \in JobIds : JobMoves(i)
  BY <1>2, UnleasedJobMoves DEF CompleteConflict, CompleteSuccess
<1>4. RevisionsStay
  BY FinalizeSubscriptionKeepsRevisions DEF CompleteConflict, CompleteSuccess
<1> QED BY <1>3, <1>4 DEF StepKeepsCycles

(* Reclaim keeps cycles: a lost attempt with none left is terminal. *)
LEMMA ReclaimKeepsCycles ==
  ASSUME TypeOK, NEW j \in JobIds, Reclaim(j)
  PROVE  StepKeepsCycles
<1>1. job[j] \in JobRows /\ job[j].status \in ActiveStatuses
  BY DEF Reclaim, ReclaimSucceeded, ReclaimConflict, ReclaimLost, Expired, ActiveStatuses, TypeOK
<1>2. CASE ReclaimSucceeded(j) \/ ReclaimConflict(j)
  BY <1>1, <1>2, CompletionKeepsCycles DEF ReclaimSucceeded, ReclaimConflict
<1>3. CASE ReclaimLost(j)
  <2> DEFINE status == IF job[j].attempts >= MaxAttempts THEN "failed_terminal"
                                                          ELSE "failed_retryable"
  <2>1. status \in ForTheScheduler => job[j].attempts < MaxAttempts
    BY <1>1 DEF ForTheScheduler, RequeueStatuses, JobRows
  <2>2. SetJob(j, Unleased(job[j], status))
    BY <1>3 DEF ReclaimLost
  <2> HIDE DEF status
  <2>3. \A i \in JobIds : JobMoves(i)
    BY <1>1, <2>1, <2>2, UnleasedJobMoves
  <2>4. RevisionsStay
    BY <1>3, FinalizeSubscriptionKeepsRevisions DEF ReclaimLost, RevisionsStay
  <2> QED BY <2>3, <2>4 DEF StepKeepsCycles
<1> QED BY <1>1, <1>2, <1>3 DEF Reclaim

(* A claim requeues and leases, and opens no cycle. *)
LEMMA ClaimKeepsCycles ==
  ASSUME TypeOK, NEW w \in Workers, NEW j \in JobIds, NEW requeued, NEW t,
         Claim(w, j, requeued, t)
  PROVE  StepKeepsCycles
<1> USE DEF Claim
<1>1. \A i \in JobIds : job[i] \in JobRows
  BY DEF TypeOK
<1>2. JobMoves(j)
  <2>1. job'[j].status = "claimed" /\ "claimed" \notin ForTheScheduler
    BY <1>1 DEF JobRows, ForTheScheduler, RequeueStatuses
  <2>2. job[j].status \in ActiveStatuses
    BY DEF Claimable, Requeueable, ActiveStatuses
  <2> QED BY <2>1, <2>2 DEF JobMoves
<1>3. ASSUME NEW i \in JobIds, i # j
      PROVE  JobMoves(i)
  <2>1. CASE Requeueable(i) /\ i \in requeued
    <3>1. job'[i].attempts = job[i].attempts
      BY <1>1, <1>3, <2>1 DEF JobRows
    <3> QED BY <2>1, <3>1 DEF JobMoves, Requeueable, ActiveStatuses
  <2>2. CASE ~(Requeueable(i) /\ i \in requeued)
    BY <1>3, <2>2 DEF JobMoves
  <2> QED BY <2>1, <2>2
<1> QED BY <1>2, <1>3 DEF StepKeepsCycles, RevisionsStay

(* A worker that owns its lease holds an active Job. *)
LEMMA OwnedJobIsActive ==
  ASSUME NEW w, NEW statuses \in SUBSET WorkStatuses, Owns(w, statuses)
  PROVE  /\ worker[w].job \in JobIds
         /\ job[worker[w].job].status \in ActiveStatuses
BY DEF Owns, ActiveStatuses

(* No step of a worker opens a cycle, reopens one or strands one. *)
LEMMA WorkerKeepsCycles ==
  ASSUME TypeOK, WorkerNext
  PROVE  StepKeepsCycles
<1>1. PICK w \in Workers :
        \/ Start(w) \/ Heartbeat(w) \/ Handle(w) \/ HeartbeatFails(w)
        \/ Validate(w) \/ Finalize(w) \/ Raises(w) \/ FailClosed(w)
        \/ LosesLease(w) \/ Crash(w)
  BY DEF WorkerNext
<1> DEFINE j == worker[w].job
           code == worker[w].result
<1>2. /\ {"claimed"} \in SUBSET WorkStatuses
      /\ {"running"} \in SUBSET WorkStatuses
      /\ FinalStatuses(w) \in SUBSET WorkStatuses
      /\ {"running", "failed_terminal", "waiting_auth", "waiting_user"} \cap ForTheScheduler = {}
  BY DEF WorkStatuses, FinalStatuses, ForTheScheduler, RequeueStatuses
<1>3. j \in JobIds => job[j] \in JobRows
  BY DEF TypeOK
<1>4. CASE Start(w)
  <2>1. j \in JobIds /\ job[j].status \in ActiveStatuses
    BY <1>2, <1>4, OwnedJobIsActive DEF Start
  <2>2. [job[j] EXCEPT !.status = "running"].status = "running"
    BY <1>3, <2>1 DEF JobRows
  <2>3. \A i \in JobIds : JobMoves(i)
    BY <1>2, <1>4, <2>1, <2>2, ActiveJobMoves DEF Start
  <2> QED BY <1>4, <2>3 DEF Start, StepKeepsCycles, RevisionsStay
<1>5. CASE Heartbeat(w) \/ \E r \in Runs : CreateAttachedRun(w, r)
  <2>1. j \in JobIds /\ job[j] \in JobRows
    BY <1>3, <1>5 DEF Heartbeat, CreateAttachedRun, Owns
  <2>2. /\ [job[j] EXCEPT !.lease = "live"].status = job[j].status
        /\ [job[j] EXCEPT !.lease = "live"].attempts = job[j].attempts
        /\ \A r : /\ [job[j] EXCEPT !.run = r].status = job[j].status
                  /\ [job[j] EXCEPT !.run = r].attempts = job[j].attempts
    BY <2>1 DEF JobRows
  <2>3. PICK row : /\ SetJob(j, row)
                   /\ row.status = job[j].status
                   /\ row.attempts = job[j].attempts
    BY <1>5, <2>2 DEF Heartbeat, CreateAttachedRun
  <2>4. \A i \in JobIds : JobMoves(i)
    BY <2>1, <2>3 DEF SetJob, TypeOK, JobMoves
  <2> QED BY <1>5, <2>4 DEF Heartbeat, CreateAttachedRun, StepKeepsCycles, RevisionsStay
<1>6. CASE Finalize(w)
  <2>1. j \in JobIds /\ job[j].status \in ActiveStatuses /\ job[j] \in JobRows
    <3>1. Owns(w, FinalStatuses(w)) \/ Owns(w, {"running"}) \/ Owns(w, WorkStatuses)
      BY <1>6 DEF Finalize, FinalizeConflict, FinalizeSuccess, FinalizeWait, FinalizeRetry,
                  FinalizeTerminal
    <3> QED BY <1>2, <1>3, <3>1, OwnedJobIsActive
  <2>2. CASE FinalizeConflict(w) \/ FinalizeSuccess(w)
    BY <2>1, <2>2, CompletionKeepsCycles DEF FinalizeConflict, FinalizeSuccess
  <2>3. CASE FinalizeWait(w)
    <3>1. Disposition[code] \notin ForTheScheduler
      BY <1>2, <2>3 DEF FinalizeWait, Waiting
    <3>2. \A i \in JobIds : JobMoves(i)
      BY <2>1, <2>3, <3>1, UnleasedJobMoves DEF FinalizeWait
    <3> QED BY <2>3, <3>2 DEF FinalizeWait, StepKeepsCycles, RevisionsStay
  <2>4. ASSUME NEW status \in RequeueStatuses, FinalizeRetry(w, status)
        PROVE  StepKeepsCycles
    <3>1. \A i \in JobIds : JobMoves(i)
      BY <2>1, <2>4, UnleasedJobMoves DEF FinalizeRetry
    <3> QED BY <2>4, <3>1 DEF FinalizeRetry, StepKeepsCycles, RevisionsStay
  <2>5. CASE FinalizeTerminal(w)
    <3>1. \A i \in JobIds : JobMoves(i)
      BY <1>2, <2>1, <2>5, UnleasedJobMoves DEF FinalizeTerminal
    <3>2. RevisionsStay
      BY <2>1, <2>5, FinalizeSubscriptionKeepsRevisions DEF FinalizeTerminal
    <3> QED BY <3>1, <3>2 DEF StepKeepsCycles
  <2> QED BY <1>6, <2>2, <2>3, <2>4, <2>5 DEF Finalize
<1>7. ASSUME UNCHANGED <<sub, job>>
      PROVE  StepKeepsCycles
  BY <1>7 DEF StepKeepsCycles, RevisionsStay, JobMoves
<1>8. CASE \/ SetIngesting(w) \/ CommitIngestion(w) \/ ReturnSuccess(w)
           \/ \E c \in Failures : FailAttempt(w, c)
           \/ \E c \in Failures, keep \in BOOLEAN : ReturnFailure(w, c, keep)
  BY <1>7, <1>8 DEF SetIngesting, CommitIngestion, ReturnSuccess, FailAttempt, ReturnFailure,
                    WriteRun
<1>9. CASE HeartbeatFails(w) \/ Validate(w) \/ Raises(w) \/ FailClosed(w) \/ LosesLease(w) \/ Crash(w)
  BY <1>7, <1>9 DEF HeartbeatFails, Validate, Raises, FailClosed, LosesLease, Crash
<1> QED BY <1>1, <1>4, <1>5, <1>6, <1>8, <1>9 DEF Handle

(* Writes that leave every status and attempt count alone. *)
LEMMA QuietStepKeepsCycles ==
  ASSUME TypeOK, RevisionsStay,
         \A j \in JobIds : /\ job'[j].status = job[j].status
                           /\ job'[j].attempts = job[j].attempts
  PROVE  StepKeepsCycles
BY DEF StepKeepsCycles, JobMoves

(* Resume leaves at least one attempt, however many were used. *)
LEMMA ResumedHasAnAttempt ==
  ASSUME NEW row \in JobRows
  PROVE  Resumed(row).status = "queued" /\ Resumed(row).attempts < MaxAttempts
<1>1. row.attempts \in Nat
  BY DEF JobRows
<1>2. Resumed(row).status = "queued"
  BY DEF Resumed, JobRows
<1>3. Resumed(row).attempts = IF row.attempts >= MaxAttempts THEN MaxAttempts - 1 ELSE row.attempts
  BY DEF Resumed, JobRows
<1> QED BY <1>1, <1>2, <1>3

(* Removal ends the dormant cycle and opens none. *)
LEMMA RemoveKeepsCycles ==
  ASSUME TypeOK, NEW s \in Subs, Remove(s)
  PROVE  StepKeepsCycles
<1>1. RevisionsStay
  <2>1. /\ sub \in [Subs -> SubRows]
        /\ \A i \in Subs : sub[i] \in SubRows
    BY DEF TypeOK
  <2>2. \A i \in Subs : \A due :
          [sub[i] EXCEPT !.deleted = TRUE, !.enabled = FALSE, !.due = due].revision
            = sub[i].revision
    BY <2>1 DEF SubRows
  <2>3. \E due : sub' = [sub EXCEPT ![s] = [sub[s] EXCEPT !.deleted = TRUE, !.enabled = FALSE,
                                                           !.due = due]]
    BY <2>1 DEF Remove
  <2> QED BY <2>1, <2>2, <2>3 DEF RevisionsStay
<1>2. ASSUME NEW j \in JobIds
      PROVE  JobMoves(j)
  <2>1. CASE j \notin ActiveJobs(s)
    BY <2>1 DEF Remove, JobMoves
  <2>2. CASE j \in ActiveJobs(s)
    <3>1. job[j] \in JobRows
      BY DEF TypeOK
    <3>2. job'[j].status \in {"succeeded", "failed_terminal", "cancelled"}
      BY <2>2, <3>1, UnleasedRow DEF Remove
    <3> QED BY <2>2, <3>2 DEF JobMoves, ActiveJobs, ForTheScheduler, RequeueStatuses
  <2> QED BY <2>1, <2>2
<1> QED BY <1>1, <1>2 DEF StepKeepsCycles

(* No operator action opens a cycle, reopens one or strands one. *)
LEMMA OperatorKeepsCycles ==
  ASSUME TypeOK, OperatorNext
  PROVE  StepKeepsCycles
<1>0. \A i \in JobIds : job[i] \in JobRows
  BY DEF TypeOK
<1>1. ASSUME NEW j \in JobIds, CancelSucceeded(j) \/ CancelConflict(j)
      PROVE  StepKeepsCycles
  BY <1>1, CompletionKeepsCycles DEF CancelSucceeded, CancelConflict
<1>2. ASSUME NEW j \in JobIds, CancelActive(j)
      PROVE  StepKeepsCycles
  <2>1. "cancelled" \notin ForTheScheduler
    BY DEF ForTheScheduler, RequeueStatuses
  <2>2. \A i \in JobIds : JobMoves(i)
    BY <1>2, <2>1, UnleasedJobMoves DEF CancelActive
  <2> QED BY <1>2, <2>2, FinalizeSubscriptionKeepsRevisions DEF CancelActive, StepKeepsCycles
<1>3. ASSUME NEW j \in JobIds, Resume(j)
      PROVE  StepKeepsCycles
  <2>1. \A i \in JobIds : JobMoves(i)
    BY <1>0, <1>3, ResumedHasAnAttempt, ActiveJobMoves DEF Resume, ActiveStatuses
  <2> QED BY <1>3, <2>1 DEF Resume, StepKeepsCycles, RevisionsStay
<1>4. ASSUME NEW a \in Accounts, ResumeWaitingAuthForAccount(a)
      PROVE  StepKeepsCycles
  <2>1. ASSUME NEW j \in JobIds
        PROVE  JobMoves(j)
    <3>1. \/ job'[j] = job[j]
          \/ job[j].status = "waiting_auth" /\ job'[j] = Resumed(job[j])
      BY <1>4 DEF ResumeWaitingAuthForAccount
    <3> QED BY <1>0, <3>1, ResumedHasAnAttempt DEF JobMoves, ActiveStatuses, WaitingStatuses
  <2> QED BY <1>4, <2>1 DEF ResumeWaitingAuthForAccount, StepKeepsCycles, RevisionsStay
<1>5. ASSUME NEW s \in Subs, Pause(s) \/ ResumeSubscription(s) \/ RunNow(s) \/ Restore(s)
      PROVE  StepKeepsCycles
  <2>1. sub[s] \in SubRows /\ sub \in [Subs -> SubRows]
    BY DEF TypeOK
  <2>2. PICK row : sub' = [sub EXCEPT ![s] = row] /\ row.revision = sub[s].revision
    <3>1. /\ [sub[s] EXCEPT !.enabled = FALSE].revision = sub[s].revision
          /\ [sub[s] EXCEPT !.enabled = TRUE].revision = sub[s].revision
          /\ [sub[s] EXCEPT !.due = TRUE].revision = sub[s].revision
          /\ [sub[s] EXCEPT !.deleted = FALSE, !.enabled = FALSE].revision = sub[s].revision
      BY <2>1 DEF SubRows
    <3>2. CASE Restore(s)
      <4>1. sub' = [sub EXCEPT ![s] = [sub[s] EXCEPT !.deleted = FALSE, !.enabled = FALSE]]
        BY <2>1, <3>2 DEF Restore
      <4> QED BY <3>1, <4>1
    <3>3. CASE Pause(s) \/ ResumeSubscription(s) \/ RunNow(s)
      BY <3>1, <3>3 DEF Pause, ResumeSubscription, RunNow, SetSchedule
    <3> QED BY <1>5, <3>2, <3>3
  <2>3. RevisionsStay
    BY <2>1, <2>2 DEF RevisionsStay
  <2>4. UNCHANGED job
    BY <1>5 DEF Pause, ResumeSubscription, RunNow, SetSchedule, Restore
  <2> QED BY <2>3, <2>4, QuietStepKeepsCycles
<1>6. ASSUME NEW l \in LaneIds, ResetLane(l) \/ \E p \in Policies : UpdateLane(l, p)
      PROVE  StepKeepsCycles
  BY <1>6, QuietStepKeepsCycles DEF ResetLane, UpdateLane, SetLane, RevisionsStay
<1> QED BY <1>1, <1>2, <1>3, <1>4, <1>5, <1>6, RemoveKeepsCycles DEF OperatorNext, Cancel

(* Pipeline steps and timers leave the cycles alone. *)
LEMMA EnvironmentKeepsCycles ==
  ASSUME TypeOK, EnvironmentNext
  PROVE  StepKeepsCycles
<1>1. ASSUME NEW j \in JobIds, ExpireLease(j) \/ RetryDue(j)
      PROVE  StepKeepsCycles
  <2>1. job[j] \in JobRows /\ job \in [JobIds -> JobRows]
    BY DEF TypeOK
  <2>2. PICK row : /\ job' = [job EXCEPT ![j] = row]
                   /\ row.status = job[j].status
                   /\ row.attempts = job[j].attempts
    <3>1. /\ [job[j] EXCEPT !.lease = "expired"].status = job[j].status
          /\ [job[j] EXCEPT !.lease = "expired"].attempts = job[j].attempts
          /\ [job[j] EXCEPT !.avail = TRUE].status = job[j].status
          /\ [job[j] EXCEPT !.avail = TRUE].attempts = job[j].attempts
      BY <2>1 DEF JobRows
    <3> QED BY <1>1, <3>1 DEF ExpireLease, RetryDue, SetJob
  <2>3. RevisionsStay
    BY <1>1 DEF ExpireLease, RetryDue, RevisionsStay
  <2> QED BY <2>1, <2>2, <2>3, QuietStepKeepsCycles
<1>2. ASSUME NEW s \in Subs, FixedDelayOver(s)
      PROVE  StepKeepsCycles
  BY <1>2, QuietStepKeepsCycles DEF FixedDelayOver, RevisionsStay, TypeOK, SubRows
<1>3. ASSUME UNCHANGED <<sub, job>>
      PROVE  StepKeepsCycles
  BY <1>3, QuietStepKeepsCycles DEF RevisionsStay
<1> QED BY <1>1, <1>2, <1>3
        DEF EnvironmentNext, TakeCoordinator, LeaveCoordinator, CooldownOver, IntervalOver, SetLane

(* Every step but a materialisation keeps cycles. *)
LEMMA StepsKeepCycles ==
  ASSUME TypeOK, Next
  PROVE  StepKeepsCycles \/ \E s \in Subs : Materialize(s)
BY ReclaimKeepsCycles, ClaimKeepsCycles, WorkerKeepsCycles, OperatorKeepsCycles,
   EnvironmentKeepsCycles
DEF Next, SchedulerNext, MaterializeDue, MaterializeOne, ClaimNext, ClaimExact

--------------------------------------------------------------------------------
(* Cycles *)

(* What a materialisation writes. *)
LEMMA MaterializedRows ==
  ASSUME TypeOK, NEW s \in Subs, Materialize(s)
  PROVE  LET opened == <<s, sub[s].revision>>
         IN  /\ opened \in JobIds
             /\ job'[opened].status = "queued"
             /\ job'[opened].attempts = 0
             /\ \A j \in JobIds : j # opened => job'[j] = job[j]
             /\ sub'[s].revision = sub[s].revision + 1
             /\ \A i \in Subs : i # s => sub'[i] = sub[i]
<1>1. /\ sub \in [Subs -> SubRows]
      /\ sub[s] \in SubRows
      /\ sub[s].revision \in 0..MaxRevision - 1
      /\ job \in [JobIds -> JobRows]
  BY DEF TypeOK, SubRows, Revisions, Materialize
<1>2. <<s, sub[s].revision>> \in JobIds
  BY <1>1 DEF JobIds
<1>3. /\ [NoJobRow EXCEPT !.status = "queued"].status = "queued"
      /\ [NoJobRow EXCEPT !.status = "queued"].attempts = 0
  BY DEF NoJobRow
<1> QED BY <1>1, <1>2, <1>3 DEF Materialize, SetJob, SubRows

(* No step breaks ActiveCycleIsCurrent: a materialisation moves the revision
   only when no cycle is active, and no other step makes a Job active again. *)
LEMMA CurrentCycleStep ==
  TypeOK /\ ActiveCycleIsCurrent /\ [Next]_vars => ActiveCycleIsCurrent'
<1> SUFFICES ASSUME TypeOK, ActiveCycleIsCurrent, [Next]_vars
             PROVE  ActiveCycleIsCurrent'
  OBVIOUS
<1>1. ASSUME StepKeepsCycles
      PROVE  ActiveCycleIsCurrent'
  <2>1. \A s \in Subs : ActiveJobs(s)' \subseteq ActiveJobs(s)
    BY <1>1 DEF StepKeepsCycles, JobMoves, ActiveJobs
  <2>2. \A s \in Subs : sub'[s].revision = sub[s].revision
    BY <1>1 DEF StepKeepsCycles, RevisionsStay
  <2> QED BY <2>1, <2>2 DEF ActiveCycleIsCurrent
<1>2. ASSUME NEW s \in Subs, Materialize(s)
      PROVE  ActiveCycleIsCurrent'
  <2> DEFINE opened == <<s, sub[s].revision>>
  <2>1. sub[s].revision \in Nat
    BY DEF TypeOK, SubRows, Revisions
  <2>2. ActiveJobs(s)' \subseteq {opened}
    <3>1. \A j \in JobIds : j # opened => job'[j] = job[j]
      BY <1>2, MaterializedRows
    <3>2. ActiveJobs(s) = {}
      BY <1>2 DEF Materialize
    <3> QED BY <3>1, <3>2 DEF ActiveJobs
  <2>3. sub'[s].revision - 1 = sub[s].revision
    <3>1. sub'[s].revision = sub[s].revision + 1
      BY <1>2, MaterializedRows
    <3> QED BY <2>1, <3>1
  <2>4. ASSUME NEW i \in Subs, i # s
        PROVE  ActiveJobs(i)' \subseteq {<<i, sub'[i].revision - 1>>}
    <3>1. ActiveJobs(i)' = ActiveJobs(i)
      <4>1. \A j \in JobIds : SubOf(j) = i => j # opened
        BY <2>4 DEF SubOf
      <4>2. \A j \in JobIds : j # opened => job'[j] = job[j]
        BY <1>2, MaterializedRows
      <4> QED BY <4>1, <4>2 DEF ActiveJobs
    <3>2. sub'[i].revision = sub[i].revision
      BY <1>2, <2>4, MaterializedRows
    <3> QED BY <3>1, <3>2 DEF ActiveCycleIsCurrent
  <2> QED BY <2>2, <2>3, <2>4 DEF ActiveCycleIsCurrent
<1>3. CASE UNCHANGED vars
  BY <1>3 DEF vars, ActiveCycleIsCurrent, ActiveJobs
<1> QED BY <1>1, <1>2, <1>3, StepsKeepCycles

(* For every number of subscriptions, workers and revisions: the only cycle of  *)
(* a subscription that can be active is the one its schedule revision names,    *)
(* whatever ticks, explicit executions, pauses, removals and restores come in   *)
(* which order (materialize_due, materialize_one).                              *)
THEOREM CurrentCycle == Spec => []ActiveCycleIsCurrent
<1>1. Init => ActiveCycleIsCurrent
  BY DEF Init, ActiveCycleIsCurrent, ActiveJobs, NoJobRow, ActiveStatuses, WorkStatuses,
         RequeueStatuses, WaitingStatuses
<1> QED BY <1>1, TypeCorrect, CurrentCycleStep, PTL DEF Spec

(* No step breaks DormantCycleCanRun: new and resumed Jobs have an attempt, and
   every path back to the queue checks the limit. *)
LEMMA DormantCycleStep ==
  TypeOK /\ DormantCycleCanRun /\ [Next]_vars => DormantCycleCanRun'
<1> SUFFICES ASSUME TypeOK, DormantCycleCanRun, [Next]_vars
             PROVE  DormantCycleCanRun'
  OBVIOUS
<1>1. ASSUME StepKeepsCycles
      PROVE  DormantCycleCanRun'
  BY <1>1 DEF StepKeepsCycles, JobMoves, DormantCycleCanRun, ForTheScheduler
<1>2. ASSUME NEW s \in Subs, Materialize(s)
      PROVE  DormantCycleCanRun'
  <2> DEFINE opened == <<s, sub[s].revision>>
  <2>1. job'[opened].attempts < MaxAttempts
    BY <1>2, MaterializedRows
  <2>2. \A j \in JobIds : j # opened => job'[j] = job[j]
    BY <1>2, MaterializedRows
  <2> QED BY <2>1, <2>2 DEF DormantCycleCanRun
<1>3. CASE UNCHANGED vars
  BY <1>3 DEF vars, DormantCycleCanRun
<1> QED BY <1>1, <1>2, <1>3, StepsKeepCycles

(* For every attempt limit: no cycle is ever left to the scheduler with its     *)
(* attempts used up, so none blocks its subscription for ever                   *)
(* (_reclaim_expired_sync, fail, resume).                                       *)
THEOREM DormantCyclesCanRun == Spec => []DormantCycleCanRun
<1>1. Init => DormantCycleCanRun
  BY DEF Init, DormantCycleCanRun, NoJobRow, RequeueStatuses
<1> QED BY <1>1, TypeCorrect, DormantCycleStep, PTL DEF Spec

--------------------------------------------------------------------------------
(* Probes *)

(* A lane write gives probes back but takes none. *)
GainsNoProbe(row, next) == \A i : Probing(next, i) => Probing(row, i)

(* No step but a claim makes a Job the probe of a lane. *)
NoNewProbes == \A l \in LaneIds : GainsNoProbe(lane[l], lane'[l])

(* A transaction that applies one lane operator other than Reserve to both lanes
   of a Job makes no new probe. *)
LEMMA LaneWritesAddNoProbe ==
  ASSUME TypeOK, NEW l \in LaneIds
  PROVE  /\ GainsNoProbe(lane[l], lane[l])
         /\ \A n : GainsNoProbe(lane[l], Close(lane[l], n))
         /\ \A j : /\ GainsNoProbe(lane[l], Succeed(lane[l], j))
                   /\ GainsNoProbe(lane[l], CountFailure(lane[l], j))
                   /\ GainsNoProbe(lane[l], ReleaseProbe(lane[l], j))
         /\ \A j, terminal : GainsNoProbe(lane[l], PassFailure(lane[l], j, terminal))
         /\ \A p : GainsNoProbe(lane[l], [lane[l] EXCEPT !.policy = p])
<1>1. lane[l] \in LaneRows(JobIds, Policies)
  BY DEF TypeOK
<1> QED BY <1>1, OnlyReserveProbes DEF GainsNoProbe

(* Completing a Job makes no probe. *)
LEMMA CompletionAddsNoProbe ==
  ASSUME TypeOK, NEW j, CompleteConflict(j) \/ \E r : CompleteSuccess(j, r)
  PROVE  NoNewProbes
<1>1. CASE CompleteConflict(j)
  BY <1>1, LaneWritesAddNoProbe DEF CompleteConflict, SetLanes, NoNewProbes
<1>2. ASSUME NEW r, CompleteSuccess(j, r)
      PROVE  NoNewProbes
  BY <1>2, LaneWritesAddNoProbe DEF CompleteSuccess, SetLanes, NoNewProbes
<1> QED BY <1>1, <1>2

(* An operator's or a timer's write of one lane makes no probe. *)
LEMMA SetLaneAddsNoProbe ==
  ASSUME TypeOK, NEW l \in LaneIds, NEW row, SetLane(l, row), GainsNoProbe(lane[l], row)
  PROVE  NoNewProbes
BY LaneWritesAddNoProbe DEF SetLane, NoNewProbes, TypeOK

(* Of the scheduler's own steps only a claim makes a probe. *)
LEMMA SchedulerAddsNoProbe ==
  ASSUME TypeOK, SchedulerNext
  PROVE  \/ NoNewProbes
         \/ \E w \in Workers, j \in JobIds : \E requeued, t : Claim(w, j, requeued, t)
<1>1. ASSUME NEW s \in Subs, Materialize(s)
      PROVE  NoNewProbes
  BY <1>1, LaneWritesAddNoProbe DEF Materialize, NoNewProbes
<1>2. ASSUME NEW j \in JobIds, Reclaim(j)
      PROVE  NoNewProbes
  <2>1. CASE ReclaimLost(j)
    BY <2>1, LaneWritesAddNoProbe DEF ReclaimLost, SetLanes, NoNewProbes
  <2> QED BY <1>2, <2>1, CompletionAddsNoProbe DEF Reclaim, ReclaimSucceeded, ReclaimConflict
<1> QED BY <1>1, <1>2 DEF SchedulerNext, MaterializeDue, MaterializeOne, ClaimNext, ClaimExact

(* No step of a worker makes a probe. *)
LEMMA WorkerAddsNoProbe ==
  ASSUME TypeOK, WorkerNext
  PROVE  NoNewProbes
<1> SUFFICES ASSUME NEW w \in Workers,
                    \/ Start(w) \/ Heartbeat(w) \/ Handle(w) \/ HeartbeatFails(w)
                    \/ Validate(w) \/ Finalize(w) \/ Raises(w) \/ FailClosed(w)
                    \/ LosesLease(w) \/ Crash(w)
             PROVE  NoNewProbes
  BY DEF WorkerNext
<1>1. ASSUME NEW j, NEW code, NEW terminal, LaneFailure(j, code, terminal)
      PROVE  NoNewProbes
  BY <1>1, LaneWritesAddNoProbe DEF LaneFailure, SetLanes, NoNewProbes
<1>2. CASE Finalize(w)
  BY <1>1, <1>2, CompletionAddsNoProbe
  DEF Finalize, FinalizeConflict, FinalizeSuccess, FinalizeWait, FinalizeRetry, FinalizeTerminal
<1>3. ASSUME UNCHANGED lane
      PROVE  NoNewProbes
  BY <1>3, LaneWritesAddNoProbe DEF NoNewProbes
<1>4. CASE Handle(w)
  BY <1>3, <1>4 DEF Handle, CreateAttachedRun, SetIngesting, CommitIngestion, FailAttempt, WriteRun,
                    ReturnSuccess, ReturnFailure
<1> QED BY <1>2, <1>3, <1>4 DEF Start, Heartbeat, HeartbeatFails, Validate, Raises, FailClosed,
                                LosesLease, Crash

(* No operator action makes a probe. *)
LEMMA OperatorAddsNoProbe ==
  ASSUME TypeOK, OperatorNext
  PROVE  NoNewProbes
<1>1. ASSUME NEW j \in JobIds, Cancel(j) \/ Resume(j)
      PROVE  NoNewProbes
  <2>1. CASE CancelActive(j) \/ Resume(j)
    BY <2>1, LaneWritesAddNoProbe DEF CancelActive, Resume, SetLanes, NoNewProbes
  <2> QED BY <1>1, <2>1, CompletionAddsNoProbe DEF Cancel, CancelSucceeded, CancelConflict
<1>2. ASSUME NEW a \in Accounts, ResumeWaitingAuthForAccount(a)
      PROVE  NoNewProbes
  BY <1>2, LaneWritesAddNoProbe DEF ResumeWaitingAuthForAccount, NoNewProbes
<1>3. ASSUME NEW s \in Subs, Remove(s)
      PROVE  NoNewProbes
  BY <1>3, LaneWritesAddNoProbe DEF Remove, NoNewProbes
<1>4. ASSUME NEW s \in Subs, Pause(s) \/ ResumeSubscription(s) \/ RunNow(s) \/ Restore(s)
      PROVE  NoNewProbes
  BY <1>4, LaneWritesAddNoProbe
  DEF Pause, ResumeSubscription, RunNow, SetSchedule, Restore, NoNewProbes
<1>5. ASSUME NEW l \in LaneIds, ResetLane(l) \/ \E p \in Policies : UpdateLane(l, p)
      PROVE  NoNewProbes
  BY <1>5, LaneWritesAddNoProbe, SetLaneAddsNoProbe DEF ResetLane, UpdateLane
<1> QED BY <1>1, <1>2, <1>3, <1>4, <1>5 DEF OperatorNext

(* Pipeline steps and timers make no probe. *)
LEMMA EnvironmentAddsNoProbe ==
  ASSUME TypeOK, EnvironmentNext
  PROVE  NoNewProbes
<1>1. ASSUME NEW l \in LaneIds, CooldownOver(l) \/ IntervalOver(l)
      PROVE  NoNewProbes
  <2>1. lane[l] \in LaneRows(JobIds, Policies)
    BY DEF TypeOK
  <2>2. /\ GainsNoProbe(lane[l], [lane[l] EXCEPT !.cooled = TRUE])
        /\ GainsNoProbe(lane[l], [lane[l] EXCEPT !.paced = TRUE])
    BY <2>1 DEF LaneRows, Probing, GainsNoProbe
  <2> QED BY <1>1, <2>2, SetLaneAddsNoProbe DEF CooldownOver, IntervalOver
<1>2. ASSUME UNCHANGED lane
      PROVE  NoNewProbes
  BY <1>2, LaneWritesAddNoProbe DEF NoNewProbes
<1> QED BY <1>1, <1>2
        DEF EnvironmentNext, TakeCoordinator, LeaveCoordinator, ExpireLease, RetryDue, FixedDelayOver

(* After a claim each lane of the claimed Job is closed or probed by that Job.  *)
LEMMA ClaimedLanesAreOwn ==
  ASSUME TypeOK, NEW w \in Workers, NEW j \in JobIds, NEW requeued, NEW t,
         Claim(w, j, requeued, t)
  PROVE  /\ \A l \in LanesOf(j) : \A i : Probing(lane'[l], i) => i = j
         /\ \A l \in LaneIds \ LanesOf(j) : lane'[l] = lane[l]
<1>1. \A l \in LaneIds : lane'[l] = IF l \in LanesOf(j) THEN Reserve(lane[l], j) ELSE lane[l]
  BY DEF Claim, SetLanes
<1>2. \A l \in LaneIds : lane[l] \in LaneRows(JobIds, Policies)
  BY DEF TypeOK
<1>3. LanesOf(j) \subseteq LaneIds
  BY JobIsOfSub
<1>4. ASSUME NEW l \in LanesOf(j), NEW i, Probing(lane'[l], i)
      PROVE  i = j
  <2>1. Probing(Reserve(lane[l], j), i)
    BY <1>1, <1>3, <1>4
  <2> QED BY <1>2, <1>3, <2>1, OnlyReserveProbes
<1> QED BY <1>1, <1>4

(* No step breaks ProbesNeverCross: only a claim adds probes, and it takes both
   lanes of its Job, neither of which may be another Job's. *)
LEMMA ProbesStep == TypeOK /\ ProbesNeverCross /\ [Next]_vars => ProbesNeverCross'
<1> SUFFICES ASSUME TypeOK, ProbesNeverCross, [Next]_vars,
                    NEW i \in JobIds, NEW j \in JobIds, NEW k \in LaneIds, NEW l \in LaneIds,
                    Probing(lane'[k], i), Probing(lane'[l], j), i # j,
                    l \in LanesOf(i), k \in LanesOf(j)
             PROVE  FALSE
  BY DEF ProbesNeverCross
<1>1. CASE NoNewProbes
  BY <1>1 DEF NoNewProbes, GainsNoProbe, ProbesNeverCross
<1>2. ASSUME NEW w \in Workers, NEW c \in JobIds, NEW requeued, NEW t, Claim(w, c, requeued, t)
      PROVE  FALSE
  <2>1. /\ \A m \in LanesOf(c) : \A x : Probing(lane'[m], x) => x = c
        /\ \A m \in LaneIds \ LanesOf(c) : lane'[m] = lane[m]
    BY <1>2, ClaimedLanesAreOwn
  <2>2. c # i /\ c # j
    BY <2>1
  <2>3. l \notin LanesOf(c) /\ k \notin LanesOf(c)
    BY <2>1, <2>2
  <2>4. Probing(lane[k], i) /\ Probing(lane[l], j)
    BY <2>1, <2>3
  <2> QED BY <2>4 DEF ProbesNeverCross
<1>3. CASE UNCHANGED vars
  BY <1>3 DEF vars, ProbesNeverCross
<1> QED BY <1>1, <1>2, <1>3, SchedulerAddsNoProbe, WorkerAddsNoProbe, OperatorAddsNoProbe,
           EnvironmentAddsNoProbe DEF Next

(* For every set of lanes and Jobs: no two probes wait for each other's lane,   *)
(* because a claim asks and reserves both lanes at once and nothing else makes  *)
(* a Job a probe (_lane_allows, _reserve_lane).                                 *)
THEOREM ProbesDoNotCross == Spec => []ProbesNeverCross
<1>1. Init => ProbesNeverCross
  BY DEF Init, ProbesNeverCross, Probing, FreshLane
<1> QED BY <1>1, TypeCorrect, ProbesStep, PTL DEF Spec

--------------------------------------------------------------------------------
(* Stale workers *)

Rows == <<sub, job, lane, run, coord>>

(* One step of a worker: it moves no other worker, and it writes rows only as   *)
(* the holder of the Job's token.                                               *)
LEMMA WorkerStepIsGuarded ==
  ASSUME TypeOK, NEW w \in Workers,
         \/ Start(w) \/ Heartbeat(w) \/ Handle(w) \/ HeartbeatFails(w)
         \/ Validate(w) \/ Finalize(w) \/ Raises(w) \/ FailClosed(w)
         \/ LosesLease(w) \/ Crash(w)
  PROVE  /\ \A v \in Workers \ {w} : worker'[v] = worker[v]
         /\ \/ UNCHANGED Rows
            \/ job[worker[w].job].token = worker[w].token
<1> USE DEF Rows
<1>1. ASSUME Forget(w) \/ UNCHANGED worker \/ \E pc, r, result : Goto(w, pc, r, result)
      PROVE  \A v \in Workers \ {w} : worker'[v] = worker[v]
  BY <1>1 DEF Forget, Goto, TypeOK
<1>2. CASE Start(w) \/ Heartbeat(w)
  BY <1>1, <1>2 DEF Start, Heartbeat, Owns
<1>3. CASE Handle(w)
  <2>1. CASE \E r \in Runs : CreateAttachedRun(w, r)
    BY <1>1, <2>1 DEF CreateAttachedRun, Owns
  <2>2. CASE SetIngesting(w) \/ CommitIngestion(w)
    BY <1>1, <2>2 DEF SetIngesting, CommitIngestion, WriteRun, Owns
  <2>3. CASE \E code \in Failures : FailAttempt(w, code)
    BY <1>1, <2>3 DEF FailAttempt, WriteRun, Owns
  <2>4. CASE ReturnSuccess(w) \/ \E code \in Failures, keep \in BOOLEAN : ReturnFailure(w, code, keep)
    BY <1>1, <2>4 DEF ReturnSuccess, ReturnFailure
  <2> QED BY <1>3, <2>1, <2>2, <2>3, <2>4 DEF Handle
<1>4. CASE Finalize(w)
  <2>1. Forget(w)
    BY <1>4 DEF Finalize, FinalizeConflict, FinalizeSuccess, FinalizeWait, FinalizeRetry,
                FinalizeTerminal
  <2>2. job[worker[w].job].token = worker[w].token
    BY <1>4 DEF Finalize, FinalizeConflict, FinalizeSuccess, FinalizeWait, FinalizeRetry,
                FinalizeTerminal, Owns
  <2> QED BY <1>1, <2>1, <2>2
<1>5. CASE HeartbeatFails(w) \/ Validate(w) \/ FailClosed(w)
  BY <1>1, <1>5 DEF HeartbeatFails, Validate, FailClosed
<1>6. CASE Raises(w) \/ LosesLease(w) \/ Crash(w)
  BY <1>1, <1>6 DEF Raises, LosesLease, Crash
<1> QED BY <1>2, <1>3, <1>4, <1>5, <1>6

(* Only a claim and a worker's own step change what a worker remembers. *)
LEMMA OthersMoveNoWorker ==
  ASSUME TypeOK, NEW w \in Workers,
         SchedulerNext \/ OperatorNext \/ EnvironmentNext,
         worker'[w] # worker[w]
  PROVE  worker[w].pc = "idle"
<1>1. CASE SchedulerNext
  <2>1. ASSUME NEW v \in Workers, NEW j \in JobIds, NEW requeued, NEW t,
               Claim(v, j, requeued, t)
        PROVE  worker[w].pc = "idle"
    BY <2>1 DEF Claim, TypeOK
  <2>2. ASSUME UNCHANGED worker
        PROVE  FALSE
    BY <2>2
  <2> QED BY <1>1, <2>1, <2>2
          DEF SchedulerNext, MaterializeDue, MaterializeOne, Materialize, Reclaim, ReclaimSucceeded,
              ReclaimConflict, ReclaimLost, ClaimNext, ClaimExact
<1>2. ~OperatorNext
  BY DEF OperatorNext, Cancel, CancelSucceeded, CancelConflict, CancelActive, Resume,
         ResumeWaitingAuthForAccount, Pause, ResumeSubscription, RunNow, SetSchedule, Remove, Restore,
         ResetLane, UpdateLane, SetLane
<1>3. ~EnvironmentNext
  BY DEF EnvironmentNext, TakeCoordinator, LeaveCoordinator, ExpireLease, RetryDue, FixedDelayOver,
         CooldownOver, IntervalOver, SetLane
<1> QED BY <1>1, <1>2, <1>3

(* For every number of workers and tokens: the step of a worker whose Job is    *)
(* held under another token, or under none, changes no row (_owned_update,      *)
(* assert_owned).                                                               *)
THEOREM StaleWorkersAreHarmless == Spec => StaleWorkerIsHarmless
<1>1. ASSUME TypeOK, [Next]_vars, NEW w \in Workers, worker'[w] # worker[w],
             worker[w].pc # "idle", job[worker[w].job].token # worker[w].token
      PROVE  UNCHANGED Rows
  <2>1. WorkerNext
    BY <1>1, OthersMoveNoWorker DEF Next, vars
  <2>2. PICK v \in Workers :
          \/ Start(v) \/ Heartbeat(v) \/ Handle(v) \/ HeartbeatFails(v)
          \/ Validate(v) \/ Finalize(v) \/ Raises(v) \/ FailClosed(v)
          \/ LosesLease(v) \/ Crash(v)
    BY <2>1 DEF WorkerNext
  <2>3. v = w
    BY <1>1, <2>2, WorkerStepIsGuarded
  <2> QED BY <1>1, <2>2, <2>3, WorkerStepIsGuarded
<1>2. TypeOK /\ [Next]_vars
        => [\A w \in Workers :
              /\ worker'[w] # worker[w]
              /\ worker[w].pc # "idle"
              /\ job[worker[w].job].token # worker[w].token
              => UNCHANGED <<sub, job, lane, run, coord>>]_vars
  BY <1>1 DEF Rows
<1> QED BY <1>2, TypeCorrect, PTL DEF Spec, StaleWorkerIsHarmless

================================================================================
