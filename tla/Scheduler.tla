------------------------------- MODULE Scheduler -------------------------------
(* The durable subscription scheduler: scheduler/repository.py (every operation *)
(* is one SQLite writer transaction, so one action), the worker around it       *)
(* (scheduler/service.py, SubscriptionWorker) and the SyncRun writes of the     *)
(* attach-first handler (scheduler/mediacrawler_handler.py).                    *)
(*                                                                              *)
(* A subscription is materialised into at most one active cycle, the Job of its *)
(* current schedule revision.  Workers claim Jobs through two lanes under a     *)
(* lease token, create and attach a SyncRun, ingest into it and finalise the    *)
(* Job in a LATER transaction; a crash, an expiry, an operator or a failed      *)
(* heartbeat may come between any two of those transactions.                    *)
(*                                                                              *)
(* Clocks are reduced to timers that have fired: a lease may be "expired", a    *)
(* retry "avail", a lane "cooled" or "paced", a subscription "due".  A caller   *)
(* reads its clock BEFORE it waits for the writer slot, so an owner may still   *)
(* pass the lease check at a moment another caller already sees it expired:     *)
(* Owns does not look at the timer, LosesLease may.                             *)
EXTENDS Lanes, FailurePolicy, FiniteSets

CONSTANTS Subs, Platforms, Accounts,
          AccountOf,     \* [Subs -> Accounts]      subscriptions.account_id
          PlatformOf,    \* [Accounts -> Platforms] accounts.platform
          Workers, Tokens, Runs,
          NoToken, NoRun,
          Policies,      \* the lane policies an operator may set
          DefaultPolicy,
          MaxAttempts,   \* RetryPolicy.max_attempts, frozen in the Job payload
          MaxRevision,   \* bound of schedule_revision (2_147_483_647 in the code)
          Capacity       \* global_capacity

Revisions == 0..MaxRevision
JobIds    == Subs \X (0..MaxRevision - 1)   \* natural key subscription:<s>:schedule:<n>
LaneIds   == Platforms \cup Accounts

ASSUME SchedulerAssumption ==
  /\ AccountOf \in [Subs -> Accounts]
  /\ PlatformOf \in [Accounts -> Platforms]
  /\ Platforms \cap Accounts = {}
  /\ NoJob \notin JobIds
  /\ NoToken \notin Tokens
  /\ NoRun \notin Runs
  /\ Policies \subseteq [limit : Nat \ {0}, threshold : Nat \ {0}, interval : BOOLEAN]
  /\ DefaultPolicy \in Policies
  /\ MaxAttempts \in Nat \ {0}
  /\ MaxRevision \in Nat \ {0}
  /\ Capacity \in Nat \ {0}

VARIABLES
  sub,      \* the schedule columns of each subscription
  job,      \* one sync.subscription Job per materialised cycle
  lane,     \* one scheduler_lanes row per platform and per account
  run,      \* status of each SyncRun ("conflict": failed_terminal with
            \* error_code content_ownership_conflict)
  coord,    \* the pipeline.subscription coordinator of each sync Job
  worker    \* what each SubscriptionWorker remembers between transactions

vars == <<sub, job, lane, run, coord, worker>>

--------------------------------------------------------------------------------
(* States *)

WorkStatuses     == {"claimed", "running"}
RequeueStatuses  == {"retry_wait", "failed_retryable"}
WaitingStatuses  == {"waiting_auth", "waiting_user"}
ActiveStatuses   == {"queued"} \cup WorkStatuses \cup RequeueStatuses \cup WaitingStatuses
TerminalStatuses == {"succeeded", "failed_terminal", "cancelled"}
JobStatuses      == {"absent"} \cup ActiveStatuses \cup TerminalStatuses

OpenRuns     == {"running", "ingesting", "awaiting_auth", "failed_retryable"}
TerminalRuns == {"succeeded", "failed_terminal", "conflict", "cancelled"}
RunStatuses  == {"absent"} \cup OpenRuns \cup TerminalRuns

CoordStates == {"none", "pending", "running", "ended"}

(* The points between two transactions of SubscriptionWorker._run_claimed.      *)
Points == {"idle", "claimed", "context", "attempt", "returned",
           "finalizing", "failclosed", "settling"}

Results == Failures \cup {"none", "success"}

SubRows == [enabled : BOOLEAN, deleted : BOOLEAN, due : BOOLEAN, revision : Revisions]

JobRows == [status   : JobStatuses,
            attempts : 0..MaxAttempts,
            avail    : BOOLEAN,
            lease    : {"none", "live", "expired"},
            token    : Tokens \cup {NoToken},
            run      : Runs \cup {NoRun}]

WorkerStates == [pc     : Points,
                 job    : JobIds \cup {NoJob},
                 token  : Tokens \cup {NoToken},
                 run    : Runs \cup {NoRun},
                 result : Results]

TypeOK ==
  /\ sub \in [Subs -> SubRows]
  /\ job \in [JobIds -> JobRows]
  /\ lane \in [LaneIds -> LaneRows(JobIds, Policies)]
  /\ run \in [Runs -> RunStatuses]
  /\ coord \in [JobIds -> CoordStates]
  /\ worker \in [Workers -> WorkerStates]
  /\ \A w \in Workers : worker[w].pc # "idle" => worker[w].job \in JobIds

NoJobRow == [status |-> "absent", attempts |-> 0, avail |-> TRUE,
             lease |-> "none", token |-> NoToken, run |-> NoRun]

IdleWorker == [pc |-> "idle", job |-> NoJob, token |-> NoToken, run |-> NoRun,
               result |-> "none"]

Init ==
  /\ sub = [s \in Subs |-> [enabled |-> TRUE, deleted |-> FALSE, due |-> TRUE, revision |-> 0]]
  /\ job = [j \in JobIds |-> NoJobRow]
  /\ lane = [l \in LaneIds |-> FreshLane(DefaultPolicy)]
  /\ run = [r \in Runs |-> "absent"]
  /\ coord = [j \in JobIds |-> "none"]
  /\ worker = [w \in Workers |-> IdleWorker]

--------------------------------------------------------------------------------
(* Reading the state *)

SubOf(j)   == j[1]
CycleOf(j) == j[2]
LanesOf(j) == {AccountOf[SubOf(j)], PlatformOf[AccountOf[SubOf(j)]]}

ActiveJobs(s) == {j \in JobIds : SubOf(j) = s /\ job[j].status \in ActiveStatuses}

Leased == {j \in JobIds : job[j].status \in WorkStatuses}

(* _lane_active_count *)
ActiveIn(l) == Cardinality({j \in Leased : l \in LanesOf(j)})

(* _active_subscription_pipeline_job *)
PipelineActive(s) == \E j \in JobIds : SubOf(j) = s /\ coord[j] \in {"pending", "running"}

RunOf(j) == IF job[j].run = NoRun THEN "none" ELSE run[job[j].run]

(* _get of the attached Run in _reconcile_succeeded_attachment, and             *)
(* _has_ownership_conflict_attachment: the only durable truths a Run carries.   *)
RunSucceeded(j) == RunOf(j) = "succeeded"
RunConflict(j)  == RunOf(j) = "conflict"

(* new_uuid for a lease token and for a SyncRun: a value nobody remembers.      *)
FreshTokens == {t \in Tokens : /\ \A j \in JobIds : job[j].token # t
                               /\ \A w \in Workers : worker[w].token # t}

FreshRuns == {r \in Runs : /\ \A j \in JobIds : job[j].run # r
                           /\ \A w \in Workers : worker[w].run # r}

(* Mutant: ownership without the exact token.                                   *)
OwnsAnyToken(w, statuses) ==
  worker[w].job \in JobIds /\ job[worker[w].job].status \in statuses

(* The WHERE clause of _owned_update, which assert_owned repeats in front of    *)
(* every handler write: exact token, expected status, subscription not removed. *)
Owns(w, statuses) ==
  /\ worker[w].job \in JobIds
  /\ job[worker[w].job].token = worker[w].token
  /\ job[worker[w].job].status \in statuses
  /\ ~sub[SubOf(worker[w].job)].deleted

(* _validated_result_run_id: a result names another Run than the attached one.  *)
ForeignResult(w) ==
  /\ worker[w].run # NoRun
  /\ job[worker[w].job].run \notin {NoRun, worker[w].run}

--------------------------------------------------------------------------------
(* Effects several transactions share *)

Unleased(row, status) ==
  [row EXCEPT !.status = status, !.lease = "none", !.token = NoToken]

SetJob(j, row) == job' = [job EXCEPT ![j] = row]

(* Apply one of the lane operators to both lanes of a Job.                      *)
SetLanes(j, Effect(_)) ==
  lane' = [l \in LaneIds |-> IF l \in LanesOf(j) THEN Effect(lane[l]) ELSE lane[l]]

(* _finalize_subscription: the fixed delay starts now, if this Job is still the *)
(* subscription's current cycle.                                                *)
FinalizeSubscription(j) ==
  sub' = IF sub[SubOf(j)].revision = CycleOf(j) + 1
           THEN [sub EXCEPT ![SubOf(j)].due = FALSE]
           ELSE sub

(* _enqueue_pipeline_for_succeeded_run: one coordinator per sync Job, emitted   *)
(* with the success and only for a durable Run success.                         *)
EnqueuePipeline(j, r) ==
  coord' = IF r # NoRun /\ run[r] = "succeeded" /\ coord[j] = "none"
             THEN [coord EXCEPT ![j] = "pending"]
             ELSE coord

(* _reconcile_succeeded_attachment, and the same writes in succeed().           *)
CompleteSuccess(j, r) ==
  /\ SetJob(j, [Unleased(job[j], "succeeded") EXCEPT !.run = r])
  /\ SetLanes(j, LAMBDA l : Succeed(l, j))
  /\ FinalizeSubscription(j)
  /\ EnqueuePipeline(j, r)
  /\ UNCHANGED run

(* _reconcile_ownership_conflict_attachment: terminal, circuits untouched.      *)
CompleteConflict(j) ==
  /\ SetJob(j, Unleased(job[j], "failed_terminal"))
  /\ SetLanes(j, LAMBDA l : PassFailure(l, j, TRUE))
  /\ FinalizeSubscription(j)
  /\ UNCHANGED <<run, coord>>

(* _cancel_attached_run                                                         *)
CancelAttachedRun(j) ==
  run' = IF RunOf(j) \in OpenRuns
           THEN [run EXCEPT ![job[j].run] = "cancelled"]
           ELSE run

Forget(w) == worker' = [worker EXCEPT ![w] = IdleWorker]

Goto(w, pc, r, result) ==
  worker' = [worker EXCEPT ![w].pc = pc, ![w].run = r, ![w].result = result]

--------------------------------------------------------------------------------
(* Materialisation *)

(* Mutant: no active-cycle fence.                                               *)
MaterializeUnfenced(s) ==
  /\ sub[s].enabled /\ ~sub[s].deleted /\ sub[s].revision < MaxRevision
  /\ sub' = [sub EXCEPT ![s].revision = @ + 1]
  /\ SetJob(<<s, sub[s].revision>>, [NoJobRow EXCEPT !.status = "queued"])
  /\ UNCHANGED <<lane, run, coord, worker>>

(* _materialize_cycle: the revision and active-cycle fences, then the new Job.  *)
Materialize(s) ==
  /\ sub[s].enabled /\ ~sub[s].deleted
  /\ sub[s].revision < MaxRevision
  /\ ActiveJobs(s) = {}
  /\ sub' = [sub EXCEPT ![s].revision = @ + 1]
  /\ SetJob(<<s, sub[s].revision>>, [NoJobRow EXCEPT !.status = "queued"])
  /\ UNCHANGED <<lane, run, coord, worker>>

(* materialize_due: the scheduler's own tick.  A batch is one transaction, but  *)
(* each of its cycles reads and writes only its own subscription's rows.        *)
MaterializeDue(s) == sub[s].due /\ Materialize(s)

(* materialize_one: an explicit execution may run ahead of next_run_at, but     *)
(* never while the previous cycle's pipeline is active.  When the current cycle *)
(* is still active it is returned unchanged.                                    *)
MaterializeOne(s) == ~PipelineActive(s) /\ Materialize(s)

--------------------------------------------------------------------------------
(* Claiming *)

Expired(j) == job[j].status \in WorkStatuses /\ job[j].lease = "expired"

(* Mutant: reclaim succeeds the Job without emitting its coordinator.           *)
ReclaimSucceededSilently(j) ==
  /\ Expired(j) /\ RunSucceeded(j)
  /\ SetJob(j, Unleased(job[j], "succeeded"))
  /\ SetLanes(j, LAMBDA l : Succeed(l, j))
  /\ FinalizeSubscription(j)
  /\ UNCHANGED <<run, coord, worker>>

(* Mutant: reclaim puts a lost attempt straight back into the queue.            *)
ReclaimLostRequeued(j) ==
  /\ Expired(j) /\ ~RunSucceeded(j) /\ ~RunConflict(j) /\ job[j].attempts < MaxAttempts
  /\ SetJob(j, Unleased(job[j], "queued"))
  /\ CancelAttachedRun(j)
  /\ SetLanes(j, LAMBDA l : CountFailure(l, j))
  /\ UNCHANGED <<sub, coord, worker>>

(* _reclaim_expired_sync: durable Run truth first, then a lost attempt, which   *)
(* cancels the attached Run, counts against both circuits and ends the cycle at *)
(* the attempt limit.  claim_next retires every expired lease before it claims; *)
(* here one lease is retired per action and ClaimNext waits until none is left. *)
ReclaimSucceeded(j) ==
  /\ Expired(j) /\ RunSucceeded(j)
  /\ CompleteSuccess(j, job[j].run)
  /\ UNCHANGED worker

ReclaimConflict(j) ==
  /\ Expired(j) /\ RunConflict(j)
  /\ CompleteConflict(j)
  /\ UNCHANGED worker

ReclaimLost(j) ==
  LET exhausted == job[j].attempts >= MaxAttempts
  IN  /\ Expired(j) /\ ~RunSucceeded(j) /\ ~RunConflict(j)
      /\ SetJob(j, Unleased(job[j], IF exhausted THEN "failed_terminal" ELSE "failed_retryable"))
      /\ CancelAttachedRun(j)
      /\ SetLanes(j, LAMBDA l : CountFailure(l, j))
      /\ IF exhausted THEN FinalizeSubscription(j) ELSE UNCHANGED sub
      /\ UNCHANGED <<coord, worker>>

(* _requeue_due_sync on one row.                                                *)
Requeueable(j) ==
  /\ job[j].status \in RequeueStatuses
  /\ job[j].avail
  /\ job[j].attempts < MaxAttempts
  /\ ~RunConflict(j)

(* Mutant: only the account lane is asked.                                      *)
ClaimableByAccount(j) ==
  /\ job[j].status = "queued" \/ Requeueable(j)
  /\ job[j].avail /\ job[j].attempts < MaxAttempts /\ ~sub[SubOf(j)].deleted
  /\ Allows(lane[AccountOf[SubOf(j)]], j, ActiveIn(AccountOf[SubOf(j)]))

(* The candidate query of _claim_eligible after the requeue, with both lanes'   *)
(* verdict and the global capacity.                                             *)
Claimable(j) ==
  /\ job[j].status = "queued" \/ Requeueable(j)
  /\ job[j].avail
  /\ job[j].attempts < MaxAttempts
  /\ ~RunConflict(j)
  /\ ~sub[SubOf(j)].deleted
  /\ Cardinality(Leased) < Capacity
  /\ \A l \in LanesOf(j) : Allows(lane[l], j, ActiveIn(l))

(* Mutant: a Job may run beside the probe of a half-open lane, without a         *)
(* verdict there.                                                               *)
ClaimBesideProbe(w, j, requeued, t) ==
  LET asked == {l \in LanesOf(j) : lane[l].circuit # "half_open" \/ lane[l].probe = j}
  IN  /\ worker[w].pc = "idle"
      /\ job[j].status = "queued" \/ Requeueable(j)
      /\ job[j].avail /\ job[j].attempts < MaxAttempts /\ ~sub[SubOf(j)].deleted
      /\ \A l \in asked : Allows(lane[l], j, ActiveIn(l))
      /\ job' = [i \in JobIds |->
                   IF i = j THEN [job[j] EXCEPT !.status = "claimed", !.lease = "live",
                                                !.token = t, !.attempts = @ + 1]
                   ELSE IF i \in requeued /\ Requeueable(i)
                     THEN [job[i] EXCEPT !.status = "queued"]
                     ELSE job[i]]
      /\ lane' = [l \in LaneIds |-> IF l \in asked THEN Reserve(lane[l], j) ELSE lane[l]]
      /\ worker' = [worker EXCEPT ![w] = [IdleWorker EXCEPT !.pc = "claimed", !.job = j,
                                                             !.token = t]]
      /\ UNCHANGED <<sub, run, coord>>

(* The rest of _claim_eligible: requeue every Job in scope, lease this one      *)
(* under a fresh token and reserve both lanes.                                  *)
Claim(w, j, requeued, t) ==
  /\ worker[w].pc = "idle"
  /\ Claimable(j)
  /\ job' = [i \in JobIds |->
               IF i = j THEN [job[j] EXCEPT !.status = "claimed", !.lease = "live",
                                            !.token = t, !.attempts = @ + 1]
               ELSE IF i \in requeued /\ Requeueable(i)
                 THEN [job[i] EXCEPT !.status = "queued"]
                 ELSE job[i]]
  /\ SetLanes(j, LAMBDA l : Reserve(l, j))
  /\ worker' = [worker EXCEPT ![w] = [IdleWorker EXCEPT !.pc = "claimed", !.job = j,
                                                         !.token = t]]
  /\ UNCHANGED <<sub, run, coord>>

ClaimNext(w, j) ==
  /\ \A i \in JobIds : ~Expired(i)
  /\ \E t \in FreshTokens : Claim(w, j, JobIds, t)

(* claim_exact: only this Job is recovered and only while its subscription is   *)
(* enabled and it is the current cycle.                                         *)
ClaimExact(w, j) ==
  /\ sub[SubOf(j)].enabled
  /\ sub[SubOf(j)].revision = CycleOf(j) + 1
  /\ \E t \in FreshTokens : Claim(w, j, {j}, t)

--------------------------------------------------------------------------------
(* The worker: start, handler transactions, heartbeat *)

(* start, and the context it hands to the handler (current_run_id is the Run    *)
(* the claimed row carried).                                                    *)
Start(w) ==
  LET j == worker[w].job
  IN  /\ worker[w].pc = "claimed"
      /\ Owns(w, {"claimed"})
      /\ SetJob(j, [job[j] EXCEPT !.status = "running"])
      /\ Goto(w, "context", job[j].run, "none")
      /\ UNCHANGED <<sub, lane, run, coord>>

(* heartbeat *)
Heartbeat(w) ==
  LET j == worker[w].job
  IN  /\ worker[w].pc \in {"context", "attempt"}
      /\ Owns(w, {"running"})
      /\ SetJob(j, [job[j] EXCEPT !.lease = "live"])
      /\ UNCHANGED <<sub, lane, run, coord, worker>>

(* _create_attached_run with attach_run: one transaction cancels an open        *)
(* predecessor, creates the Run, attaches it in the place of the Run the        *)
(* context named and moves it to running.                                       *)
CreateAttachedRun(w, r) ==
  LET j == worker[w].job
  IN  /\ worker[w].pc = "context"
      /\ Owns(w, {"running"})
      /\ job[j].run = worker[w].run
      /\ ~RunSucceeded(j)
      /\ r \in FreshRuns
      /\ run' = [i \in Runs |-> IF i = r THEN "running"
                                ELSE IF i = job[j].run /\ run[i] \in OpenRuns THEN "cancelled"
                                ELSE run[i]]
      /\ SetJob(j, [job[j] EXCEPT !.run = r])
      /\ Goto(w, "attempt", r, "none")
      /\ UNCHANGED <<sub, lane, coord>>

(* A guarded write of the handler to its own Run.                               *)
WriteRun(w, from, to) ==
  /\ worker[w].pc = "attempt"
  /\ Owns(w, {"running"})
  /\ run[worker[w].run] \in from
  /\ run' = [run EXCEPT ![worker[w].run] = to]
  /\ UNCHANGED <<sub, job, lane, coord>>

SetIngesting(w) == WriteRun(w, {"running"}, "ingesting") /\ UNCHANGED worker

(* The last ingestion batch publishes content, checkpoint and the Run's success *)
(* in one guarded transaction.                                                  *)
CommitIngestion(w) == WriteRun(w, {"ingesting"}, "succeeded") /\ UNCHANGED worker

RunTarget(code) ==
  IF code = "conflict" THEN "conflict"
  ELSE IF Waiting(code) THEN "awaiting_auth"
  ELSE IF Retryable(code) THEN "failed_retryable"
  ELSE "failed_terminal"

(* _fail_attempt: _set_run_failure, then the failure with this Run's id.  Only  *)
(* ingestion discovers an ownership conflict.                                   *)
FailAttempt(w, code) ==
  /\ worker[w].run \in Runs
  /\ code = "conflict" => run[worker[w].run] = "ingesting"
  /\ WriteRun(w, {"running", "ingesting"}, RunTarget(code))
  /\ Goto(w, "returned", worker[w].run, code)

(* The handler returns its success after reading the committed Run back; a Run  *)
(* that had already succeeded before this attempt is returned as it is.         *)
ReturnSuccess(w) ==
  /\ worker[w].pc \in {"context", "attempt"}
  /\ worker[w].run # NoRun
  /\ Owns(w, {"running"})
  /\ run[worker[w].run] = "succeeded"
  /\ Goto(w, "returned", worker[w].run, "success")
  /\ UNCHANGED <<sub, job, lane, run, coord>>

(* The handler returns a failure without touching a Run: a configuration,       *)
(* credential or QR refusal before it created one, or an exception, an          *)
(* unreadable commit or a blocked cleanup afterwards.  keep says whether the    *)
(* result names the Run.                                                        *)
ReturnFailure(w, code, keep) ==
  /\ \/ worker[w].pc = "context" /\ code # "conflict" /\ ~keep
     \/ worker[w].pc = "attempt" /\ code = "temporary"
  /\ Goto(w, "returned", IF keep THEN worker[w].run ELSE NoRun, code)
  /\ UNCHANGED <<sub, job, lane, run, coord>>

(* _invoke_with_heartbeat: a heartbeat that cannot reach storage cancels the    *)
(* handler where it stands (or after it returned) and fails the attempt with a  *)
(* terminal code and no Run.                                                    *)
HeartbeatFails(w) ==
  /\ worker[w].pc \in {"context", "attempt", "returned"}
  /\ Goto(w, "returned", NoRun, "terminal")
  /\ UNCHANGED <<sub, job, lane, run, coord>>

--------------------------------------------------------------------------------
(* The worker: finalisation *)

(* _validate_result_run: a separate read; a durable success overrides whatever  *)
(* the handler reported about that Run.                                         *)
Validate(w) ==
  LET r == worker[w].run
  IN  /\ worker[w].pc = "returned"
      /\ Goto(w, "finalizing", r,
              IF r # NoRun /\ run[r] = "succeeded" THEN "success" ELSE worker[w].result)
      /\ UNCHANGED <<sub, job, lane, run, coord>>

Finalizing(w) == worker[w].pc \in {"finalizing", "settling"}

(* The statuses succeed(), fail() and wait() accept.                            *)
FinalStatuses(w) == IF worker[w].result = "success" THEN {"running"} ELSE WorkStatuses

(* Mutant: a failure may be finalised over a succeeded Run.                     *)
RejectedForeignOnly(w) == ForeignResult(w)

(* _reject_failure_for_succeeded_run and _validated_result_run_id raise.        *)
Rejected(w) ==
  \/ ForeignResult(w)
  \/ /\ worker[w].result # "success"
     /\ LET r == IF worker[w].run # NoRun THEN worker[w].run ELSE job[worker[w].job].run
        IN  r # NoRun /\ run[r] = "succeeded"

(* The attachment a finalised Job ends with: the result's Run binds when the    *)
(* Job has none.                                                                *)
FinalRun(w) == IF worker[w].run # NoRun THEN worker[w].run ELSE job[worker[w].job].run

FinalizeConflict(w) ==
  LET j == worker[w].job
  IN  /\ Finalizing(w) /\ ~ForeignResult(w)
      /\ Owns(w, FinalStatuses(w))
      /\ RunConflict(j)
      /\ CompleteConflict(j)
      /\ Forget(w)

FinalizeSuccess(w) ==
  LET j == worker[w].job
  IN  /\ Finalizing(w) /\ worker[w].result = "success" /\ ~Rejected(w)
      /\ Owns(w, {"running"})
      /\ ~RunConflict(j)
      /\ CompleteSuccess(j, FinalRun(w))
      /\ Forget(w)

(* Lane effect of a classified failure.                                         *)
LaneFailure(j, code, terminal) ==
  SetLanes(j, LAMBDA l : IF AffectsCircuit(code) THEN CountFailure(l, j)
                         ELSE PassFailure(l, j, terminal))

FinalizeWait(w) ==
  LET j == worker[w].job
      code == worker[w].result
  IN  /\ Finalizing(w) /\ code \in Failures /\ Waiting(code) /\ ~Rejected(w)
      /\ Owns(w, WorkStatuses)
      /\ ~RunConflict(j)
      /\ SetJob(j, [Unleased(job[j], Disposition[code]) EXCEPT !.run = FinalRun(w)])
      /\ LaneFailure(j, code, FALSE)
      /\ Forget(w)
      /\ UNCHANGED <<sub, run, coord>>

(* fail with attempts left: retry_wait until the computed delay is over, or     *)
(* failed_retryable when the delay is nil.                                      *)
FinalizeRetry(w, status) ==
  LET j == worker[w].job
      code == worker[w].result
  IN  /\ Finalizing(w) /\ code \in Failures /\ Retryable(code) /\ ~Rejected(w)
      /\ Owns(w, WorkStatuses)
      /\ ~RunConflict(j)
      /\ job[j].attempts < MaxAttempts
      /\ SetJob(j, [Unleased(job[j], status) EXCEPT !.avail = (status = "failed_retryable"),
                                                    !.run = FinalRun(w)])
      /\ LaneFailure(j, code, FALSE)
      /\ Forget(w)
      /\ UNCHANGED <<sub, run, coord>>

(* fail with a terminal code, or a retryable one at the attempt limit.          *)
FinalizeTerminal(w) ==
  LET j == worker[w].job
      code == worker[w].result
  IN  /\ Finalizing(w) /\ code \in Failures /\ ~Waiting(code) /\ ~Rejected(w)
      /\ Owns(w, WorkStatuses)
      /\ ~RunConflict(j)
      /\ Retryable(code) => job[j].attempts >= MaxAttempts
      /\ SetJob(j, [Unleased(job[j], "failed_terminal") EXCEPT !.run = FinalRun(w)])
      /\ LaneFailure(j, code, TRUE)
      /\ FinalizeSubscription(j)
      /\ Forget(w)
      /\ UNCHANGED <<run, coord>>

(* A transaction of the worker raises something other than lease loss: storage  *)
(* trouble anywhere, or a rejected result.  The first time _fail_closed takes   *)
(* over, the second time the lease is left to reclaim.                          *)
Raises(w) ==
  /\ worker[w].pc \in {"claimed", "context", "returned", "finalizing", "settling"}
  /\ IF worker[w].pc = "settling"
       THEN Forget(w)
       ELSE Goto(w, "failclosed",
                 IF worker[w].pc \in {"returned", "finalizing"} THEN worker[w].run ELSE NoRun,
                 "none")
  /\ UNCHANGED <<sub, job, lane, run, coord>>

(* _fail_closed reads the Job's durable truth (_authoritative_success) and      *)
(* settles with that success, or else with a terminal code.                     *)
FailClosed(w) ==
  LET j == worker[w].job
      r == FinalRun(w)
      authoritative == ~ForeignResult(w) /\ r # NoRun /\ run[r] = "succeeded"
  IN  /\ worker[w].pc = "failclosed"
      /\ IF authoritative THEN Goto(w, "settling", r, "success")
                          ELSE Goto(w, "settling", NoRun, "terminal")
      /\ UNCHANGED <<sub, job, lane, run, coord>>

(* SchedulerLeaseLostError from any guarded transaction, or from a heartbeat:   *)
(* the worker drops the claim without a write.                                  *)
LosesLease(w) ==
  /\ worker[w].pc \notin {"idle", "returned", "failclosed"}
  /\ \/ ~Owns(w, CASE worker[w].pc = "claimed" -> {"claimed"}
                    [] Finalizing(w)           -> FinalStatuses(w)
                    [] OTHER                   -> {"running"})
     \/ job[worker[w].job].lease = "expired"
  /\ Finalizing(w) => ~Rejected(w)
  /\ Forget(w)
  /\ UNCHANGED <<sub, job, lane, run, coord>>

(* The process dies: its memory is gone, its lease stays.                       *)
Crash(w) ==
  /\ worker[w].pc # "idle"
  /\ Forget(w)
  /\ UNCHANGED <<sub, job, lane, run, coord>>

--------------------------------------------------------------------------------
(* Operators *)

(* cancel: durable Run truth wins over the request.                             *)
CancelSucceeded(j) ==
  /\ job[j].status \in ActiveStatuses /\ RunSucceeded(j)
  /\ CompleteSuccess(j, job[j].run)
  /\ UNCHANGED worker

CancelConflict(j) ==
  /\ job[j].status \in ActiveStatuses /\ RunConflict(j)
  /\ CompleteConflict(j)
  /\ UNCHANGED worker

(* Mutant: cancel does not look whether the Job has ended.                      *)
CancelAnyJob(j) ==
  /\ job[j].status # "absent" /\ ~RunSucceeded(j) /\ ~RunConflict(j)
  /\ SetJob(j, Unleased(job[j], "cancelled"))
  /\ CancelAttachedRun(j)
  /\ SetLanes(j, LAMBDA l : ReleaseProbe(l, j))
  /\ FinalizeSubscription(j)
  /\ UNCHANGED <<coord, worker>>

CancelActive(j) ==
  /\ job[j].status \in ActiveStatuses /\ ~RunSucceeded(j) /\ ~RunConflict(j)
  /\ SetJob(j, Unleased(job[j], "cancelled"))
  /\ CancelAttachedRun(j)
  /\ SetLanes(j, LAMBDA l : ReleaseProbe(l, j))
  /\ FinalizeSubscription(j)
  /\ UNCHANGED <<coord, worker>>

(* Mutant: resume keeps an exhausted attempt count.                             *)
ResumedUnclamped(row) == [row EXCEPT !.status = "queued", !.avail = TRUE]

(* resume: a waiting Job is queued again with at least one attempt left.        *)
Resumed(row) ==
  [row EXCEPT !.status = "queued", !.avail = TRUE,
              !.attempts = IF @ >= MaxAttempts THEN MaxAttempts - 1 ELSE @]

Resume(j) ==
  /\ job[j].status \in WaitingStatuses
  /\ ~sub[SubOf(j)].deleted
  /\ ~RunConflict(j)
  /\ SetJob(j, Resumed(job[j]))
  /\ SetLanes(j, LAMBDA l : ReleaseProbe(l, j))
  /\ UNCHANGED <<sub, run, coord, worker>>

(* resume_waiting_auth_for_account, called when the account logs in again.      *)
ResumeWaitingAuthForAccount(a) ==
  LET woken == {j \in JobIds : /\ AccountOf[SubOf(j)] = a
                               /\ job[j].status = "waiting_auth"
                               /\ ~sub[SubOf(j)].deleted
                               /\ ~RunConflict(j)}
  IN  /\ woken # {}
      /\ job' = [j \in JobIds |-> IF j \in woken THEN Resumed(job[j]) ELSE job[j]]
      /\ lane' = [l \in LaneIds |-> IF lane[l].probe \in woken
                                      THEN ReleaseProbe(lane[l], lane[l].probe)
                                      ELSE lane[l]]
      /\ UNCHANGED <<sub, run, coord, worker>>

(* pause_subscription, resume_subscription and run_now write one column.        *)
SetSchedule(s, row) ==
  /\ ~sub[s].deleted
  /\ sub' = [sub EXCEPT ![s] = row]
  /\ UNCHANGED <<job, lane, run, coord, worker>>

Pause(s)              == SetSchedule(s, [sub[s] EXCEPT !.enabled = FALSE])
ResumeSubscription(s) == SetSchedule(s, [sub[s] EXCEPT !.enabled = TRUE])
RunNow(s)             == SetSchedule(s, [sub[s] EXCEPT !.due = TRUE])

(* SubscriptionRemovalService.remove: refused while anything is leased or being *)
(* processed; otherwise the dormant cycle (the partial unique index admits one) *)
(* and the pending coordinators are retired and the subscription disabled.  The *)
(* attached Run is left as it is.                                               *)
Idle(s) ==
  \A j \in JobIds : SubOf(j) = s => j \notin Leased /\ coord[j] # "running"

Remove(s) ==
  LET cycle == ActiveJobs(s)
      won   == {j \in cycle : RunSucceeded(j)}
  IN  /\ ~sub[s].deleted /\ Idle(s)
      /\ job' = [j \in JobIds |->
                   IF j \notin cycle THEN job[j]
                   ELSE Unleased(job[j], IF j \in won THEN "succeeded"
                                         ELSE IF RunConflict(j) THEN "failed_terminal"
                                         ELSE "cancelled")]
      /\ lane' = [l \in LaneIds |->
                    IF \E j \in won : l \in LanesOf(j)
                      THEN Succeed(lane[l], CHOOSE j \in won : l \in LanesOf(j))
                    ELSE IF lane[l].probe \in cycle
                      THEN ReleaseProbe(lane[l], lane[l].probe)
                    ELSE lane[l]]
      /\ coord' = [j \in JobIds |->
                     IF j \in won \/ (SubOf(j) = s /\ coord[j] = "pending")
                       THEN "ended" ELSE coord[j]]
      /\ sub' = [sub EXCEPT ![s].deleted = TRUE, ![s].enabled = FALSE,
                            ![s].due = @ /\ \A j \in cycle : ~RunSucceeded(j) /\ ~RunConflict(j)]
      /\ UNCHANGED <<run, worker>>

(* restore: paused, with the schedule it had.                                   *)
Restore(s) ==
  /\ sub[s].deleted /\ Idle(s)
  /\ sub' = [sub EXCEPT ![s].deleted = FALSE, ![s].enabled = FALSE]
  /\ UNCHANGED <<job, lane, run, coord, worker>>

(* reset_lane and update_lane *)
SetLane(l, row) ==
  /\ lane' = [lane EXCEPT ![l] = row]
  /\ UNCHANGED <<sub, job, run, coord, worker>>

ResetLane(l)     == SetLane(l, Close(lane[l], 0))
UpdateLane(l, p) == SetLane(l, [lane[l] EXCEPT !.policy = p])

--------------------------------------------------------------------------------
(* The rest of the world *)

(* PipelineSubscriptionWorker, seen from here: it takes a coordinator and puts  *)
(* it back for a retry or ends it.                                              *)
TakeCoordinator(j) ==
  /\ coord[j] = "pending"
  /\ coord' = [coord EXCEPT ![j] = "running"]
  /\ UNCHANGED <<sub, job, lane, run, worker>>

LeaveCoordinator(j) ==
  /\ coord[j] = "running"
  /\ \E next \in {"pending", "ended"} : coord' = [coord EXCEPT ![j] = next]
  /\ UNCHANGED <<sub, job, lane, run, worker>>

(* Time passes.                                                                 *)
ExpireLease(j) ==
  /\ job[j].lease = "live"
  /\ SetJob(j, [job[j] EXCEPT !.lease = "expired"])
  /\ UNCHANGED <<sub, lane, run, coord, worker>>

RetryDue(j) ==
  /\ job[j].status = "retry_wait" /\ ~job[j].avail
  /\ SetJob(j, [job[j] EXCEPT !.avail = TRUE])
  /\ UNCHANGED <<sub, lane, run, coord, worker>>

FixedDelayOver(s) ==
  /\ ~sub[s].due
  /\ sub' = [sub EXCEPT ![s].due = TRUE]
  /\ UNCHANGED <<job, lane, run, coord, worker>>

CooldownOver(l) == lane[l].circuit = "open" /\ SetLane(l, [lane[l] EXCEPT !.cooled = TRUE])

IntervalOver(l) == SetLane(l, [lane[l] EXCEPT !.paced = TRUE])

--------------------------------------------------------------------------------
(* The specification *)

Reclaim(j) == ReclaimSucceeded(j) \/ ReclaimConflict(j) \/ ReclaimLost(j)
Cancel(j)  == CancelSucceeded(j) \/ CancelConflict(j) \/ CancelActive(j)

Finalize(w) ==
  \/ FinalizeConflict(w)
  \/ FinalizeSuccess(w)
  \/ FinalizeWait(w)
  \/ \E status \in RequeueStatuses : FinalizeRetry(w, status)
  \/ FinalizeTerminal(w)

Handle(w) ==
  \/ \E r \in Runs : CreateAttachedRun(w, r)
  \/ SetIngesting(w)
  \/ CommitIngestion(w)
  \/ \E code \in Failures : FailAttempt(w, code)
  \/ ReturnSuccess(w)
  \/ \E code \in Failures, keep \in BOOLEAN : ReturnFailure(w, code, keep)

SchedulerNext ==
  \/ \E s \in Subs : MaterializeDue(s) \/ MaterializeOne(s)
  \/ \E j \in JobIds : Reclaim(j)
  \/ \E w \in Workers, j \in JobIds : ClaimNext(w, j) \/ ClaimExact(w, j)

WorkerNext ==
  \E w \in Workers :
    \/ Start(w) \/ Heartbeat(w) \/ Handle(w) \/ HeartbeatFails(w)
    \/ Validate(w) \/ Finalize(w) \/ Raises(w) \/ FailClosed(w)
    \/ LosesLease(w) \/ Crash(w)

OperatorNext ==
  \/ \E j \in JobIds : Cancel(j) \/ Resume(j)
  \/ \E a \in Accounts : ResumeWaitingAuthForAccount(a)
  \/ \E s \in Subs : Pause(s) \/ ResumeSubscription(s) \/ RunNow(s) \/ Remove(s) \/ Restore(s)
  \/ \E l \in LaneIds : ResetLane(l) \/ \E p \in Policies : UpdateLane(l, p)

EnvironmentNext ==
  \/ \E j \in JobIds : TakeCoordinator(j) \/ LeaveCoordinator(j) \/ ExpireLease(j) \/ RetryDue(j)
  \/ \E s \in Subs : FixedDelayOver(s)
  \/ \E l \in LaneIds : CooldownOver(l) \/ IntervalOver(l)

Next == SchedulerNext \/ WorkerNext \/ OperatorNext \/ EnvironmentNext

Spec == Init /\ [][Next]_vars

--------------------------------------------------------------------------------
(* Safety *)

(* The active cycle of a subscription is the one its schedule revision names    *)
(* (materialize_due, materialize_one, resume, restore): two cycles never run    *)
(* side by side and an older one never comes back, so the compare-and-set of    *)
(* _finalize_subscription always finds the revision it expects.                 *)
ActiveCycleIsCurrent ==
  \A s \in Subs : ActiveJobs(s) \subseteq {<<s, sub[s].revision - 1>>}

(* A Job that waits for the scheduler alone has an attempt left: claims demand  *)
(* attempts < max_attempts, so one without would hold its subscription's active *)
(* cycle for ever.                                                              *)
DormantCycleCanRun ==
  \A j \in JobIds : job[j].status \in {"queued"} \cup RequeueStatuses
                      => job[j].attempts < MaxAttempts

(* Ingestion commits the Run and the scheduler commits the Job in different     *)
(* transactions; between them only the running Job may disagree.  A Job never   *)
(* ends, waits or retries against the truth of its attached Run, whatever       *)
(* crash, expiry, heartbeat failure, cancel or rejected result comes between.   *)
RunTruthIsKept ==
  \A j \in JobIds :
    /\ RunSucceeded(j) => job[j].status \in {"running", "succeeded"}
    /\ RunConflict(j) => job[j].status \in {"running", "failed_terminal"}
    /\ job[j].status = "succeeded" => RunSucceeded(j)

(* The coordinator of the next stage exists exactly for the succeeded cycles,   *)
(* whichever of the three transactions completed the Job.                       *)
CoordinatorPerSuccess ==
  \A j \in JobIds : (coord[j] # "none") <=> (job[j].status = "succeeded")

(* A worker that still holds its lease works on the Run its Job is attached to, *)
(* and nobody has ended that Run under it.                                      *)
HolderRunIsItsOwn ==
  \A w \in Workers :
    worker[w].pc = "attempt" /\ Owns(w, {"running"})
      => /\ job[worker[w].job].run = worker[w].run
         /\ run[worker[w].run] \in {"running", "ingesting", "succeeded"}

(* A half-open lane waits for the verdict of one Job; that Job exists, belongs  *)
(* to the lane and has not ended, so the verdict can still come.                *)
ProbeCanReport ==
  \A l \in LaneIds :
    lane[l].circuit = "half_open"
      => /\ lane[l].probe \in JobIds
         /\ l \in LanesOf(lane[l].probe)
         /\ job[lane[l].probe].status \in ActiveStatuses

(* Two dormant probes never wait for each other's lane: a claim takes both      *)
(* lanes at once, but probes are given back lane by lane.                       *)
ProbesNeverCross ==
  \A i, j \in JobIds : \A k, l \in LaneIds :
    /\ Probing(lane[k], i) /\ Probing(lane[l], j) /\ i # j
    /\ l \in LanesOf(i)
    => k \notin LanesOf(j)

--------------------------------------------------------------------------------
(* Action properties *)

(* A worker whose lease was reclaimed, cancelled or taken over may move on in   *)
(* its own memory, but no step of its own changes a row.                        *)
StaleWorkerIsHarmless ==
  [][\A w \in Workers :
       /\ worker'[w] # worker[w]
       /\ worker[w].pc # "idle"
       /\ job[worker[w].job].token # worker[w].token
       => UNCHANGED <<sub, job, lane, run, coord>>]_vars

(* domain/transitions.py, JOB_TRANSITIONS.                                      *)
JobTransitions ==
  ({"absent"} \X {"queued"})
    \cup ({"queued"} \X {"claimed", "cancelled"})
    \cup ({"claimed"} \X (RequeueStatuses \cup WaitingStatuses
                             \cup {"running", "failed_terminal", "cancelled"}))
    \cup ({"running"} \X (RequeueStatuses \cup WaitingStatuses \cup TerminalStatuses))
    \cup ((RequeueStatuses \cup WaitingStatuses) \X {"queued", "cancelled"})

(* The scheduler writes Job.status with its own SQL, past transition_job; every *)
(* write still follows the declared table (a claim may requeue and claim in the *)
(* same transaction).                                                           *)
JobFollowsTransitionTable ==
  [][\A j \in JobIds :
       \/ job'[j].status = job[j].status
       \/ <<job[j].status, job'[j].status>> \in JobTransitions
       \/ job[j].status \in RequeueStatuses /\ job'[j].status = "claimed"]_vars

(* At the moment a Job is leased, neither of its lanes is over its limit, in    *)
(* its cooldown or waiting for another Job's verdict, and a lane that is not    *)
(* closed has made this Job its probe.                                          *)
LaneAdmission ==
  [][\A j \in JobIds :
       job[j].status \notin WorkStatuses /\ job'[j].status \in WorkStatuses
         => \A l \in LanesOf(j) :
              /\ ActiveIn(l)' <= lane[l].policy.limit
              /\ lane[l].circuit = "open" => lane[l].cooled
              /\ lane[l].circuit = "half_open" => lane[l].probe = j
              /\ lane'[l].circuit = "closed" \/ Probing(lane'[l], j)]_vars

--------------------------------------------------------------------------------
(* Liveness *)

(* A worker that runs does not stop between two transactions (the handler's     *)
(* watchdogs bound its waits).                                                  *)
WorkerStep(w) ==
  \/ Start(w) \/ Handle(w) \/ Validate(w) \/ Finalize(w)
  \/ FailClosed(w) \/ Raises(w) \/ LosesLease(w)

(* What the supervisor's loop and the clock justify: workers move on, expired   *)
(* leases are reclaimed, timers fire, and a Job that is claimable again and     *)
(* again is claimed at last (candidates are ordered by available_at, and every  *)
(* newcomer's is later).  Nothing is assumed of operators, and Crash may always *)
(* come first.                                                                  *)
Fairness ==
  /\ \A w \in Workers : WF_vars(WorkerStep(w))
  /\ \A j \in JobIds : /\ WF_vars(Reclaim(j))
                        /\ WF_vars(ExpireLease(j))
                        /\ WF_vars(RetryDue(j))
                        /\ SF_vars(\E w \in Workers : ClaimNext(w, j))
  /\ \A l \in LaneIds : WF_vars(CooldownOver(l)) /\ WF_vars(IntervalOver(l))

(* The Job another dormant Job of the lane would have to wait for until an      *)
(* operator acts: a waiting_user probe keeps its half-open lane.                *)
ParkedBehindUser(j) ==
  \E l \in LanesOf(j) :
    /\ lane[l].circuit = "half_open"
    /\ lane[l].probe \in JobIds \ {j}
    /\ job[lane[l].probe].status = "waiting_user"

(* Every cycle ends, or comes to wait for an operator, or is parked behind a    *)
(* half-open probe that does: no combination of the two lanes, their cooldowns, *)
(* lost leases and retries starves or deadlocks it.                             *)
CycleComesToAnEnd ==
  \A j \in JobIds :
    job[j].status \in ActiveStatuses
      ~> \/ job[j].status \in TerminalStatuses \cup WaitingStatuses
         \/ ParkedBehindUser(j)
         \/ sub[SubOf(j)].deleted

--------------------------------------------------------------------------------
(* Refinement *)

Verdict(status) ==
  CASE status = "absent"          -> "none"
    [] status = "succeeded"       -> "succeeded"
    [] status = "failed_terminal" -> "failed"
    [] status = "cancelled"       -> "cancelled"
    [] OTHER                      -> "open"

Delivery(state) ==
  CASE state = "none" -> "none" [] state = "ended" -> "over" [] OTHER -> "owed"

Ledger == INSTANCE CycleLedger WITH
  revision <- [s \in Subs |-> sub[s].revision],
  verdict  <- [j \in JobIds |-> Verdict(job[j].status)],
  delivery <- [j \in JobIds |-> Delivery(coord[j])]

(* Whatever workers, leases and Runs go through, the scheduler keeps the ledger *)
(* of CycleLedger: one cycle per revision, one verdict per cycle and one        *)
(* delivery per success, owed by the transaction that succeeds.                 *)
KeepsLedger == Ledger!Spec
================================================================================
