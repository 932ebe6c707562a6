--------------------------- MODULE SchedulerRunProofs --------------------------
(* Proofs about Scheduler, continued: what a Job, its Run and its coordinator   *)
(* say of each other, whom a lane admits and waits for, and the ledger of       *)
(* CycleLedger.  Every step is first reduced to one of a few kinds, named for   *)
(* what it does to the Jobs; the properties are then proved kind by kind.       *)
EXTENDS SchedulerProofs, FiniteSetTheorems

--------------------------------------------------------------------------------
(* The inductive invariant *)

(* A worker that holds its Job: the ownership test of _owned_update without the *)
(* removal fence.                                                               *)
Holds(w) ==
  /\ worker[w].pc # "idle"
  /\ job[worker[w].job].token = worker[w].token
  /\ job[worker[w].job].status \in WorkStatuses

(* new_uuid: busy workers have different lease tokens.                          *)
TokensAreOwn ==
  \A w \in Workers :
    worker[w].pc # "idle"
      => /\ worker[w].token \in Tokens
         /\ \A v \in Workers \ {w} : worker[v].pc # "idle" => worker[v].token # worker[w].token

(* new_uuid: a SyncRun is attached to one Job.                                  *)
RunsAreOwn ==
  \A i, j \in JobIds : job[i].run # NoRun /\ job[i].run = job[j].run => i = j

(* A Job that is not materialised yet has no row.                               *)
FutureIsAbsent ==
  \A j \in JobIds : CycleOf(j) >= sub[SubOf(j)].revision => job[j].status = "absent"

(* The Run a holder remembers is the Run its Job is attached to.                *)
HolderKnowsTheRun ==
  \A w \in Workers :
    Holds(w) /\ worker[w].run # NoRun => job[worker[w].job].run = worker[w].run

(* An attempt has a Run, and while the worker holds its Job nobody ends it.     *)
AttemptHasARun ==
  \A w \in Workers :
    worker[w].pc = "attempt"
      => /\ worker[w].run \in Runs
         /\ Holds(w) => run[worker[w].run] \in {"running", "ingesting", "succeeded"}

(* A success in a worker's memory is the durable success of a Run.              *)
SuccessIsDurable ==
  \A w \in Workers :
    worker[w].pc # "idle" /\ worker[w].result = "success"
      => worker[w].run \in Runs /\ run[worker[w].run] = "succeeded"

RunInv ==
  /\ TypeOK
  /\ TokensAreOwn
  /\ RunsAreOwn
  /\ FutureIsAbsent
  /\ HolderKnowsTheRun
  /\ AttemptHasARun
  /\ SuccessIsDurable
  /\ RunTruthIsKept
  /\ CoordinatorPerSuccess

(* A worker moves in its own memory, or somebody else's transaction made it     *)
(* drop its claim.                                                              *)
MemoryDropsAtMost == \A w \in Workers : worker'[w] \in {worker[w], IdleWorker}

--------------------------------------------------------------------------------
(* Kinds of steps *)

(* A transaction gives up the lease of one Job and leaves it in this status     *)
(* with the Run it had.                                                         *)
Settles(j, status) ==
  /\ job'[j].status = status
  /\ job'[j].token = NoToken
  /\ job'[j].run = job[j].run
  /\ \A i \in JobIds \ {j} : job'[i] = job[i]

(* The three ways a Job succeeds: finalisation, reclaim, cancel. *)
Succeeds(j) ==
  /\ job[j].status = "running" /\ RunSucceeded(j) /\ coord[j] = "none"
  /\ Settles(j, "succeeded")
  /\ coord' = [coord EXCEPT ![j] = "pending"]
  /\ UNCHANGED run
  /\ RevisionsStay
  /\ MemoryDropsAtMost
  /\ \A l \in LanesOf(j) : ~Probing(lane'[l], j)

(* Every other way an active Job leaves its status without a new lease. *)
Falls(j, status) ==
  /\ job[j].status \in ActiveStatuses
  /\ <<job[j].status, status>> \in JobTransitions
  /\ status \in RequeueStatuses \cup WaitingStatuses \cup {"failed_terminal", "cancelled"}
  /\ ~RunSucceeded(j)
  /\ RunConflict(j) => status = "failed_terminal"
  /\ Settles(j, status)
  /\ UNCHANGED coord
  /\ \/ UNCHANGED run
     \/ CancelAttachedRun(j)
  /\ RevisionsStay
  /\ MemoryDropsAtMost
  /\ status \in TerminalStatuses => \A l \in LanesOf(j) : ~Probing(lane'[l], j)

(* Waiting Jobs go back to the queue. *)
Resumes ==
  /\ \A j \in JobIds :
       \/ job'[j] = job[j]
       \/ /\ job[j].status \in WaitingStatuses
          /\ job'[j].status = "queued"
          /\ job'[j].token = job[j].token
          /\ job'[j].run = job[j].run
  /\ RevisionsStay
  /\ UNCHANGED <<run, coord, worker>>

(* A worker changes nothing but what it remembers. *)
Remembers(w) ==
  /\ UNCHANGED Rows
  /\ \A v \in Workers \ {w} : worker'[v] = worker[v]
  /\ worker[w].pc # "idle"
  /\ \/ worker'[w] = IdleWorker
     \/ /\ worker'[w].pc \notin {"idle", "attempt"}
        /\ worker'[w].job = worker[w].job
        /\ worker'[w].token = worker[w].token
        /\ worker'[w].run \in {NoRun, worker[w].run, job[worker[w].job].run}
        /\ worker'[w].result = "success"
             => worker'[w].run \in Runs /\ run[worker'[w].run] = "succeeded"

(* The handler writes the status of its own Run. *)
WritesRun(w, to) ==
  /\ worker[w].pc = "attempt" /\ Owns(w, {"running"}) /\ worker[w].run \in Runs
  /\ run[worker[w].run] \in {"running", "ingesting"}
  /\ run' = [run EXCEPT ![worker[w].run] = to]
  /\ UNCHANGED <<sub, job, lane, coord>>
  /\ \A v \in Workers \ {w} : worker'[v] = worker[v]
  /\ \/ worker'[w] = worker[w] /\ to \in {"ingesting", "succeeded"}
     \/ /\ worker'[w].pc = "returned"
        /\ worker'[w].job = worker[w].job
        /\ worker'[w].token = worker[w].token
        /\ worker'[w].run = worker[w].run
        /\ worker'[w].result # "success"

(* Nothing but timers, lanes and schedule columns. *)
IsQuiet ==
  /\ \A j \in JobIds : /\ job'[j].status = job[j].status
                       /\ job'[j].token = job[j].token
                       /\ job'[j].run = job[j].run
  /\ RevisionsStay
  /\ UNCHANGED <<run, coord, worker>>

(* The pipeline takes or leaves a coordinator. *)
MovesCoordinator(j) == TakeCoordinator(j) \/ LeaveCoordinator(j)

--------------------------------------------------------------------------------
(* Which kind a step is *)

(* What is left of a Job row when its lease is given up. *)
LEMMA UnleasedFields ==
  ASSUME NEW row \in JobRows, NEW status
  PROVE  /\ Unleased(row, status).status = status
         /\ Unleased(row, status).token = NoToken
         /\ Unleased(row, status).run = row.run
         /\ \A r : /\ [Unleased(row, status) EXCEPT !.run = r].status = status
                   /\ [Unleased(row, status) EXCEPT !.run = r].token = NoToken
                   /\ [Unleased(row, status) EXCEPT !.run = r].run = r
         /\ \A avail, r :
              /\ [Unleased(row, status) EXCEPT !.avail = avail, !.run = r].status = status
              /\ [Unleased(row, status) EXCEPT !.avail = avail, !.run = r].token = NoToken
              /\ [Unleased(row, status) EXCEPT !.avail = avail, !.run = r].run = r
BY DEF Unleased, JobRows

(* Each of the row writes that give up a lease settles the Job. *)
LEMMA UnleasedSettles ==
  ASSUME TypeOK, NEW j \in JobIds, NEW status, NEW avail,
         \/ SetJob(j, Unleased(job[j], status))
         \/ SetJob(j, [Unleased(job[j], status) EXCEPT !.run = job[j].run])
         \/ SetJob(j, [Unleased(job[j], status) EXCEPT !.avail = avail, !.run = job[j].run])
  PROVE  Settles(j, status)
<1>1. job[j] \in JobRows /\ job \in [JobIds -> JobRows]
  BY DEF TypeOK
<1> DEFINE Left(row) == row.status = status /\ row.token = NoToken /\ row.run = job[j].run
<1>2. /\ Left(Unleased(job[j], status))
      /\ Left([Unleased(job[j], status) EXCEPT !.run = job[j].run])
      /\ Left([Unleased(job[j], status) EXCEPT !.avail = avail, !.run = job[j].run])
  BY <1>1, UnleasedFields
<1>3. ASSUME NEW row, SetJob(j, row), Left(row)
      PROVE  Settles(j, status)
  BY <1>1, <1>3 DEF SetJob, Settles
<1> HIDE DEF Left
<1> QED BY <1>2, <1>3

(* The lane writes of a Job that ends leave it the probe of neither lane. *)
LEMMA EndingGivesProbeBack ==
  ASSUME TypeOK, NEW j \in JobIds,
         \/ SetLanes(j, LAMBDA l : Succeed(l, j))
         \/ SetLanes(j, LAMBDA l : PassFailure(l, j, TRUE))
         \/ SetLanes(j, LAMBDA l : CountFailure(l, j))
         \/ SetLanes(j, LAMBDA l : ReleaseProbe(l, j))
         \/ \E code : LaneFailure(j, code, TRUE)
  PROVE  \A l \in LanesOf(j) : ~Probing(lane'[l], j)
<1>1. /\ LanesOf(j) \subseteq LaneIds
      /\ \A l \in LaneIds : lane[l] \in LaneRows(JobIds, Policies)
  BY JobIsOfSub DEF TypeOK
<1>2. ASSUME NEW row \in LaneRows(JobIds, Policies)
      PROVE  /\ ~Probing(Succeed(row, j), j)
             /\ ~Probing(PassFailure(row, j, TRUE), j)
             /\ ~Probing(CountFailure(row, j), j)
             /\ ~Probing(ReleaseProbe(row, j), j)
  <2>1. \A n : ~Probing(Close(row, n), j)
    BY DEF Probing, Close, LaneRows
  <2>2. ~Probing(Succeed(row, j), j) /\ ~Probing(PassFailure(row, j, TRUE), j)
    BY <2>1 DEF Succeed, PassFailure
  <2>3. ~Probing(ReleaseProbe(row, j), j)
    BY <2>1 DEF ReleaseProbe
  <2>4. \A n : ~Probing([row EXCEPT !.circuit = "open", !.failures = n,
                                    !.probe = NoJob, !.cooled = FALSE], j)
    BY DEF Probing, LaneRows
  <2>5. ~Probing(CountFailure(row, j), j)
    BY <2>1, <2>4 DEF CountFailure, Probing
  <2> QED BY <2>2, <2>3, <2>5
<1>3. \A l \in LanesOf(j) : lane'[l] \in {Succeed(lane[l], j), PassFailure(lane[l], j, TRUE),
                                          CountFailure(lane[l], j), ReleaseProbe(lane[l], j)}
  BY <1>1 DEF SetLanes, LaneFailure
<1> QED BY <1>1, <1>2, <1>3

(* A worker whose claim is settled forgets it, and nobody else moves. *)
LEMMA ForgetDrops ==
  ASSUME TypeOK, NEW w \in Workers, Forget(w)
  PROVE  MemoryDropsAtMost
BY DEF Forget, MemoryDropsAtMost, TypeOK

(* A succeeded Run belongs to a running Job as long as the Job is active, and so *)
(* does a conflicting one: the truth a settling transaction finds.              *)
LEMMA TruthOfAnActiveJob ==
  ASSUME RunInv, NEW j \in JobIds, job[j].status \in ActiveStatuses
  PROVE  /\ RunSucceeded(j) => job[j].status = "running"
         /\ RunConflict(j) => job[j].status = "running"
         /\ coord[j] = "none"
         /\ RunSucceeded(j) => job[j].run \in Runs /\ run[job[j].run] = "succeeded"
<1>1. {"succeeded", "failed_terminal"} \cap ActiveStatuses = {}
  BY DEF ActiveStatuses, WorkStatuses, RequeueStatuses, WaitingStatuses
<1>2. job[j] \in JobRows
  BY DEF RunInv, TypeOK
<1>3. RunSucceeded(j) => job[j].run \in Runs /\ run[job[j].run] = "succeeded"
  BY <1>2 DEF RunSucceeded, RunOf, JobRows
<1> QED BY <1>1, <1>3 DEF RunInv, RunTruthIsKept, CoordinatorPerSuccess

(* CompleteSuccess with the Job's own succeeded Run. *)
LEMMA CompletionSucceeds ==
  ASSUME RunInv, NEW j \in JobIds, job[j].status \in ActiveStatuses, RunSucceeded(j),
         CompleteSuccess(j, job[j].run), MemoryDropsAtMost
  PROVE  Succeeds(j)
<1>0. TypeOK
  BY DEF RunInv
<1>1. /\ job[j].status = "running"
      /\ coord[j] = "none"
      /\ job[j].run \in Runs /\ run[job[j].run] = "succeeded"
  BY TruthOfAnActiveJob
<1>2. Settles(j, "succeeded")
  BY <1>0, UnleasedSettles DEF CompleteSuccess
<1>3. RevisionsStay
  BY <1>0, FinalizeSubscriptionKeepsRevisions DEF CompleteSuccess
<1>4. coord' = [coord EXCEPT ![j] = "pending"]
  <2>1. EnqueuePipeline(j, job[j].run)
    BY DEF CompleteSuccess
  <2>2. job[j].run # NoRun
    BY <1>1, SchedulerAssumption DEF SchedulerAssumption
  <2> QED BY <1>1, <2>1, <2>2 DEF EnqueuePipeline
<1>5. \A l \in LanesOf(j) : ~Probing(lane'[l], j)
  <2>1. SetLanes(j, LAMBDA l : Succeed(l, j))
    BY DEF CompleteSuccess
  <2> QED BY <1>0, <2>1, EndingGivesProbeBack
<1> QED BY <1>1, <1>2, <1>3, <1>4, <1>5 DEF Succeeds, CompleteSuccess

(* The transitions a settling transaction may take. *)
LEMMA SettlingTransitions ==
  /\ \A from \in ActiveStatuses : <<from, "cancelled">> \in JobTransitions
  /\ \A from \in WorkStatuses :
       \A to \in RequeueStatuses \cup WaitingStatuses \cup {"failed_terminal"} :
         <<from, to>> \in JobTransitions
  /\ <<"running", "succeeded">> \in JobTransitions
  /\ {"failed_terminal", "cancelled"} \subseteq TerminalStatuses
  /\ (RequeueStatuses \cup WaitingStatuses) \cap TerminalStatuses = {}
BY DEF JobTransitions, ActiveStatuses, WorkStatuses, RequeueStatuses, WaitingStatuses,
       TerminalStatuses

(* CompleteConflict on a Job whose Run met the conflict. *)
LEMMA ConflictFalls ==
  ASSUME RunInv, NEW j \in JobIds, job[j].status \in ActiveStatuses, RunConflict(j),
         CompleteConflict(j), MemoryDropsAtMost
  PROVE  Falls(j, "failed_terminal")
<1>0. TypeOK
  BY DEF RunInv
<1>1. job[j].status = "running" /\ ~RunSucceeded(j)
  BY TruthOfAnActiveJob DEF RunConflict, RunSucceeded
<1>2. Settles(j, "failed_terminal")
  BY <1>0, UnleasedSettles DEF CompleteConflict
<1>3. RevisionsStay
  BY <1>0, FinalizeSubscriptionKeepsRevisions DEF CompleteConflict
<1>4. \A l \in LanesOf(j) : ~Probing(lane'[l], j)
  <2>1. SetLanes(j, LAMBDA l : PassFailure(l, j, TRUE))
    BY DEF CompleteConflict
  <2> QED BY <1>0, <2>1, EndingGivesProbeBack
<1>5. <<"running", "failed_terminal">> \in JobTransitions
  BY SettlingTransitions DEF WorkStatuses
<1> QED BY <1>1, <1>2, <1>3, <1>4, <1>5 DEF Falls, CompleteConflict

(* Giving up a lease on an active Job whose Run met no conflict. *)
LEMMA SettlingFalls ==
  ASSUME RunInv, NEW j \in JobIds, NEW status, NEW avail,
         job[j].status \in ActiveStatuses, ~RunSucceeded(j), ~RunConflict(j),
         \/ status = "cancelled"
         \/ /\ job[j].status \in WorkStatuses
            /\ status \in RequeueStatuses \cup WaitingStatuses \cup {"failed_terminal"},
         \/ SetJob(j, Unleased(job[j], status))
         \/ SetJob(j, [Unleased(job[j], status) EXCEPT !.run = job[j].run])
         \/ SetJob(j, [Unleased(job[j], status) EXCEPT !.avail = avail, !.run = job[j].run]),
         UNCHANGED coord,
         UNCHANGED run \/ CancelAttachedRun(j),
         RevisionsStay, MemoryDropsAtMost,
         status \in TerminalStatuses => \A l \in LanesOf(j) : ~Probing(lane'[l], j)
  PROVE  Falls(j, status)
<1>1. Settles(j, status)
  BY UnleasedSettles DEF RunInv
<1>2. <<job[j].status, status>> \in JobTransitions
  BY SettlingTransitions
<1>3. status \in RequeueStatuses \cup WaitingStatuses \cup {"failed_terminal", "cancelled"}
  OBVIOUS
<1> QED BY <1>1, <1>2, <1>3 DEF Falls

(* Reclaim of an expired lease. *)
LEMMA ReclaimKind ==
  ASSUME RunInv, NEW j \in JobIds, Reclaim(j)
  PROVE  Succeeds(j) \/ \E status : Falls(j, status)
<1>0. TypeOK
  BY DEF RunInv
<1>1. job[j].status \in WorkStatuses /\ job[j].status \in ActiveStatuses
  BY DEF Reclaim, ReclaimSucceeded, ReclaimConflict, ReclaimLost, Expired, ActiveStatuses
<1>2. UNCHANGED worker => MemoryDropsAtMost
  BY DEF MemoryDropsAtMost
<1>3. CASE ReclaimSucceeded(j)
  BY <1>1, <1>2, <1>3, CompletionSucceeds DEF ReclaimSucceeded
<1>4. CASE ReclaimConflict(j)
  BY <1>1, <1>2, <1>4, ConflictFalls DEF ReclaimConflict
<1>5. CASE ReclaimLost(j)
  <2> DEFINE status == IF job[j].attempts >= MaxAttempts THEN "failed_terminal"
                                                          ELSE "failed_retryable"
  <2>1. /\ SetJob(j, Unleased(job[j], status))
        /\ ~RunSucceeded(j) /\ ~RunConflict(j)
        /\ UNCHANGED <<coord, worker>>
        /\ CancelAttachedRun(j)
        /\ SetLanes(j, LAMBDA l : CountFailure(l, j))
        /\ FinalizeSubscription(j) \/ UNCHANGED sub
    BY <1>5 DEF ReclaimLost
  <2>2. status \in RequeueStatuses \cup WaitingStatuses \cup {"failed_terminal"}
    BY DEF RequeueStatuses
  <2> HIDE DEF status
  <2>3. RevisionsStay
    BY <1>0, <2>1, FinalizeSubscriptionKeepsRevisions DEF RevisionsStay
  <2>4. \A l \in LanesOf(j) : ~Probing(lane'[l], j)
    BY <1>0, <2>1, EndingGivesProbeBack
  <2>5. Falls(j, status)
    BY <1>1, <1>2, <2>1, <2>2, <2>3, <2>4, SettlingFalls
  <2> QED BY <2>5
<1> QED BY <1>3, <1>4, <1>5 DEF Reclaim

(* Cancel of an active Job. *)
LEMMA CancelKind ==
  ASSUME RunInv, NEW j \in JobIds, Cancel(j)
  PROVE  Succeeds(j) \/ \E status : Falls(j, status)
<1>0. TypeOK
  BY DEF RunInv
<1>1. job[j].status \in ActiveStatuses
  BY DEF Cancel, CancelSucceeded, CancelConflict, CancelActive
<1>2. UNCHANGED worker => MemoryDropsAtMost
  BY DEF MemoryDropsAtMost
<1>3. CASE CancelSucceeded(j)
  BY <1>1, <1>2, <1>3, CompletionSucceeds DEF CancelSucceeded
<1>4. CASE CancelConflict(j)
  BY <1>1, <1>2, <1>4, ConflictFalls DEF CancelConflict
<1>5. CASE CancelActive(j)
  <2>1. /\ SetJob(j, Unleased(job[j], "cancelled"))
        /\ ~RunSucceeded(j) /\ ~RunConflict(j)
        /\ UNCHANGED <<coord, worker>>
        /\ CancelAttachedRun(j)
        /\ SetLanes(j, LAMBDA l : ReleaseProbe(l, j))
        /\ FinalizeSubscription(j)
    BY <1>5 DEF CancelActive
  <2>2. RevisionsStay
    BY <1>0, <2>1, FinalizeSubscriptionKeepsRevisions
  <2>3. \A l \in LanesOf(j) : ~Probing(lane'[l], j)
    BY <1>0, <2>1, EndingGivesProbeBack
  <2>4. Falls(j, "cancelled")
    BY <1>1, <1>2, <2>1, <2>2, <2>3, SettlingFalls
  <2> QED BY <2>4
<1> QED BY <1>3, <1>4, <1>5 DEF Cancel

(* The Run a finalising holder writes is the one its Job carries already. *)
LEMMA HolderFinalRun ==
  ASSUME RunInv, NEW w \in Workers, Finalizing(w), NEW statuses \in SUBSET WorkStatuses,
         Owns(w, statuses)
  PROVE  /\ worker[w].job \in JobIds
         /\ job[worker[w].job].status \in WorkStatuses
         /\ FinalRun(w) = job[worker[w].job].run
         /\ worker[w].run # NoRun => worker[w].run = job[worker[w].job].run
<1>1. worker[w].pc # "idle"
  BY DEF Finalizing
<1>2. Holds(w)
  BY <1>1 DEF Owns, Holds
<1>3. worker[w].run # NoRun => worker[w].run = job[worker[w].job].run
  BY <1>2 DEF RunInv, HolderKnowsTheRun
<1> QED BY <1>3 DEF Owns, FinalRun

(* A failure that passes _reject_failure_for_succeeded_run reports on no success. *)
LEMMA UnrejectedFailure ==
  ASSUME RunInv, NEW w \in Workers, Finalizing(w), NEW statuses \in SUBSET WorkStatuses,
         Owns(w, statuses), ~Rejected(w), worker[w].result # "success"
  PROVE  ~RunSucceeded(worker[w].job)
<1> DEFINE j == worker[w].job
<1>1. worker[w].run # NoRun => worker[w].run = job[j].run
  BY HolderFinalRun
<1>2. ~(job[j].run # NoRun /\ run[job[j].run] = "succeeded")
  BY <1>1 DEF Rejected
<1> QED BY <1>2 DEF RunSucceeded, RunOf

(* Finalisation of a held Job. *)
LEMMA FinalizeKind ==
  ASSUME RunInv, NEW w \in Workers, Finalize(w)
  PROVE  \E j \in JobIds : Succeeds(j) \/ \E status : Falls(j, status)
<1> DEFINE j == worker[w].job
           code == worker[w].result
<1>0. TypeOK
  BY DEF RunInv
<1>1. /\ Finalizing(w)
      /\ Forget(w)
      /\ Owns(w, FinalStatuses(w)) \/ Owns(w, {"running"}) \/ Owns(w, WorkStatuses)
  BY DEF Finalize, FinalizeConflict, FinalizeSuccess, FinalizeWait, FinalizeRetry,
         FinalizeTerminal
<1>2. /\ {"running"} \in SUBSET WorkStatuses
      /\ WorkStatuses \in SUBSET WorkStatuses
      /\ FinalStatuses(w) \in SUBSET WorkStatuses
      /\ WorkStatuses \subseteq ActiveStatuses
  BY DEF WorkStatuses, FinalStatuses, ActiveStatuses
<1>3. /\ j \in JobIds
      /\ job[j].status \in WorkStatuses
      /\ job[j].status \in ActiveStatuses
      /\ FinalRun(w) = job[j].run
  BY <1>1, <1>2, HolderFinalRun
<1>4. MemoryDropsAtMost
  BY <1>0, <1>1, ForgetDrops
<1>5. code \in Failures => code # "success"
  BY DEF Failures
<1>6. Owns(w, WorkStatuses) /\ ~Rejected(w) /\ code \in Failures => ~RunSucceeded(j)
  BY <1>1, <1>2, <1>5, UnrejectedFailure
<1>7. CASE FinalizeConflict(w)
  BY <1>3, <1>4, <1>7, ConflictFalls DEF FinalizeConflict
<1>8. CASE FinalizeSuccess(w)
  <2>1. CompleteSuccess(j, job[j].run)
    BY <1>3, <1>8 DEF FinalizeSuccess
  <2>2. RunSucceeded(j)
    <3>1. worker[w].run \in Runs /\ run[worker[w].run] = "succeeded"
      BY <1>1, <1>8 DEF FinalizeSuccess, Finalizing, RunInv, SuccessIsDurable
    <3>2. worker[w].run # NoRun
      BY <3>1, SchedulerAssumption DEF SchedulerAssumption
    <3>3. worker[w].run = job[j].run
      BY <1>1, <1>2, <3>2, HolderFinalRun
    <3> QED BY <3>1, <3>2, <3>3 DEF RunSucceeded, RunOf
  <2> QED BY <1>3, <1>4, <2>1, <2>2, CompletionSucceeds
<1>9. CASE FinalizeWait(w)
  <2> DEFINE status == Disposition[code]
  <2>1. /\ SetJob(j, [Unleased(job[j], status) EXCEPT !.run = job[j].run])
        /\ ~RunSucceeded(j) /\ ~RunConflict(j)
        /\ UNCHANGED <<sub, run, coord>>
    BY <1>3, <1>6, <1>9 DEF FinalizeWait
  <2>2. status \in WaitingStatuses
    BY <1>9 DEF FinalizeWait, Waiting, WaitingStatuses
  <2>3. RevisionsStay
    BY <2>1 DEF RevisionsStay
  <2>4. status \notin TerminalStatuses
    BY <2>2, SettlingTransitions
  <2> HIDE DEF status
  <2>5. Falls(j, status)
    BY <1>3, <1>4, <2>1, <2>2, <2>3, <2>4, SettlingFalls
  <2> QED BY <1>3, <2>5
<1>10. ASSUME NEW status \in RequeueStatuses, FinalizeRetry(w, status)
       PROVE  Falls(j, status)
  <2>1. /\ SetJob(j, [Unleased(job[j], status) EXCEPT !.avail = (status = "failed_retryable"),
                                                      !.run = job[j].run])
        /\ ~RunSucceeded(j) /\ ~RunConflict(j)
        /\ UNCHANGED <<sub, run, coord>>
    BY <1>3, <1>6, <1>10 DEF FinalizeRetry
  <2>2. RevisionsStay
    BY <2>1 DEF RevisionsStay
  <2>3. status \notin TerminalStatuses
    BY SettlingTransitions
  <2> QED BY <1>3, <1>4, <2>1, <2>2, <2>3, SettlingFalls
<1>11. CASE FinalizeTerminal(w)
  <2>1. /\ SetJob(j, [Unleased(job[j], "failed_terminal") EXCEPT !.run = job[j].run])
        /\ ~RunSucceeded(j) /\ ~RunConflict(j)
        /\ UNCHANGED <<run, coord>>
        /\ LaneFailure(j, code, TRUE)
        /\ FinalizeSubscription(j)
    BY <1>3, <1>6, <1>11 DEF FinalizeTerminal
  <2>2. RevisionsStay
    BY <1>0, <1>3, <2>1, FinalizeSubscriptionKeepsRevisions
  <2>3. \A l \in LanesOf(j) : ~Probing(lane'[l], j)
    BY <1>0, <1>3, <2>1, EndingGivesProbeBack
  <2>4. Falls(j, "failed_terminal")
    BY <1>3, <1>4, <2>1, <2>2, <2>3, SettlingFalls
  <2> QED BY <1>3, <2>4
<1> QED BY <1>3, <1>7, <1>8, <1>9, <1>10, <1>11 DEF Finalize

(* A worker's move in its own memory, seen by its next point. *)
LEMMA GotoMemory ==
  ASSUME TypeOK, NEW w \in Workers, NEW pc, NEW r, NEW result, Goto(w, pc, r, result)
  PROVE  /\ worker'[w].pc = pc
         /\ worker'[w].run = r
         /\ worker'[w].result = result
         /\ worker'[w].job = worker[w].job
         /\ worker'[w].token = worker[w].token
         /\ \A v \in Workers \ {w} : worker'[v] = worker[v]
<1>1. worker \in [Workers -> WorkerStates] /\ worker[w] \in WorkerStates
  BY DEF TypeOK
<1> DEFINE moved == [worker[w] EXCEPT !.pc = pc, !.run = r, !.result = result]
<1>2. /\ moved.pc = pc /\ moved.run = r /\ moved.result = result
      /\ moved.job = worker[w].job /\ moved.token = worker[w].token
  BY <1>1 DEF WorkerStates
<1>3. worker' = [worker EXCEPT ![w] = moved]
  BY <1>1 DEF Goto
<1> HIDE DEF moved
<1> QED BY <1>1, <1>2, <1>3

(* The steps of a worker that touch no row. *)
LEMMA MemoryKind ==
  ASSUME RunInv, NEW w \in Workers,
         \/ ReturnSuccess(w) \/ HeartbeatFails(w) \/ Validate(w) \/ Raises(w) \/ FailClosed(w)
         \/ LosesLease(w) \/ Crash(w)
         \/ \E code \in Failures, keep \in BOOLEAN : ReturnFailure(w, code, keep)
  PROVE  Remembers(w)
<1>0. TypeOK
  BY DEF RunInv
<1>1. UNCHANGED Rows
  BY DEF Rows, ReturnSuccess, HeartbeatFails, Validate, Raises, FailClosed, LosesLease, Crash,
         ReturnFailure
<1>2. worker[w].pc # "idle"
  BY DEF ReturnSuccess, HeartbeatFails, Validate, Raises, FailClosed, LosesLease, Crash,
         ReturnFailure
<1>3. CASE Forget(w)
  BY <1>0, <1>1, <1>2, <1>3 DEF Forget, Remembers, TypeOK
<1>4. ASSUME NEW pc, NEW r, NEW result, Goto(w, pc, r, result),
             pc \notin {"idle", "attempt"},
             r \in {NoRun, worker[w].run, job[worker[w].job].run},
             result = "success" => r \in Runs /\ run[r] = "succeeded"
      PROVE  Remembers(w)
  BY <1>0, <1>1, <1>2, <1>4, GotoMemory DEF Remembers
<1>5. /\ worker[w].run \in Runs \cup {NoRun}
      /\ job[worker[w].job].run \in Runs \cup {NoRun}
      /\ FinalRun(w) \in {worker[w].run, job[worker[w].job].run}
  BY <1>0, <1>2, MemoryType DEF FinalRun
<1>6. CASE ReturnSuccess(w)
  <2>1. Goto(w, "returned", worker[w].run, "success") /\ run[worker[w].run] = "succeeded"
        /\ worker[w].run # NoRun
    BY <1>6 DEF ReturnSuccess
  <2> QED BY <1>4, <1>5, <2>1
<1>7. CASE HeartbeatFails(w)
  <2>1. Goto(w, "returned", NoRun, "terminal")
    BY <1>7 DEF HeartbeatFails
  <2> QED BY <1>4, <2>1
<1>8. CASE Validate(w)
  <2> DEFINE result == IF worker[w].run # NoRun /\ run[worker[w].run] = "succeeded"
                         THEN "success" ELSE worker[w].result
  <2>1. Goto(w, "finalizing", worker[w].run, result)
    BY <1>8 DEF Validate
  <2>2. result = "success" => worker[w].run \in Runs /\ run[worker[w].run] = "succeeded"
    BY <1>2, <1>5 DEF RunInv, SuccessIsDurable
  <2> HIDE DEF result
  <2> QED BY <1>4, <2>1, <2>2
<1>9. CASE Raises(w)
  <2>1. \/ Forget(w)
        \/ \E r \in {NoRun, worker[w].run} : Goto(w, "failclosed", r, "none")
    BY <1>9 DEF Raises
  <2> QED BY <1>3, <1>4, <2>1
<1>10. CASE FailClosed(w)
  <2>1. \/ /\ Goto(w, "settling", FinalRun(w), "success")
           /\ FinalRun(w) # NoRun /\ run[FinalRun(w)] = "succeeded"
        \/ Goto(w, "settling", NoRun, "terminal")
    BY <1>10 DEF FailClosed
  <2>2. CASE Goto(w, "settling", NoRun, "terminal")
    BY <1>4, <2>2
  <2> QED BY <1>4, <1>5, <2>1, <2>2
<1>11. ASSUME NEW code \in Failures, NEW keep \in BOOLEAN, ReturnFailure(w, code, keep)
       PROVE  Remembers(w)
  <2>1. \E r \in {NoRun, worker[w].run} : Goto(w, "returned", r, code)
    BY <1>11 DEF ReturnFailure
  <2>2. code # "success"
    BY DEF Failures
  <2> QED BY <1>4, <2>1, <2>2
<1> QED BY <1>3, <1>6, <1>7, <1>8, <1>9, <1>10, <1>11 DEF LosesLease, Crash

(* The guarded writes of the handler to its own Run. *)
LEMMA WritesRunKind ==
  ASSUME RunInv, NEW w \in Workers,
         \/ SetIngesting(w) \/ CommitIngestion(w)
         \/ \E code \in Failures : FailAttempt(w, code)
  PROVE  \E to : WritesRun(w, to)
<1>0. TypeOK
  BY DEF RunInv
<1>1. worker[w].pc = "attempt" => worker[w].run \in Runs
  BY DEF RunInv, AttemptHasARun
<1>2. CASE SetIngesting(w)
  BY <1>1, <1>2 DEF SetIngesting, WriteRun, WritesRun
<1>3. CASE CommitIngestion(w)
  BY <1>1, <1>3 DEF CommitIngestion, WriteRun, WritesRun
<1>4. ASSUME NEW code \in Failures, FailAttempt(w, code)
      PROVE  WritesRun(w, RunTarget(code))
  <2>1. /\ Goto(w, "returned", worker[w].run, code)
        /\ WriteRun(w, {"running", "ingesting"}, RunTarget(code))
    BY <1>4 DEF FailAttempt
  <2>2. code # "success"
    BY DEF Failures
  <2>3. /\ worker'[w].pc = "returned"
        /\ worker'[w].run = worker[w].run
        /\ worker'[w].result = code
        /\ worker'[w].job = worker[w].job
        /\ worker'[w].token = worker[w].token
        /\ \A v \in Workers \ {w} : worker'[v] = worker[v]
    BY <1>0, <2>1, GotoMemory
  <2> QED BY <1>1, <2>1, <2>2, <2>3 DEF WriteRun, WritesRun
<1> QED BY <1>2, <1>3, <1>4

(* Renewing or losing the time of a lease, and a due retry. *)
LEMMA TimerIsQuiet ==
  ASSUME TypeOK, NEW j \in JobIds,
         \/ SetJob(j, [job[j] EXCEPT !.lease = "live"])
         \/ SetJob(j, [job[j] EXCEPT !.lease = "expired"])
         \/ SetJob(j, [job[j] EXCEPT !.avail = TRUE]),
         UNCHANGED <<sub, run, coord, worker>>
  PROVE  IsQuiet
<1>1. job[j] \in JobRows /\ job \in [JobIds -> JobRows]
  BY DEF TypeOK
<1> DEFINE Same(row) == row.status = job[j].status /\ row.token = job[j].token
                          /\ row.run = job[j].run
<1>2. /\ Same([job[j] EXCEPT !.lease = "live"])
      /\ Same([job[j] EXCEPT !.lease = "expired"])
      /\ Same([job[j] EXCEPT !.avail = TRUE])
  BY <1>1 DEF JobRows
<1>3. ASSUME NEW row, SetJob(j, row), Same(row)
      PROVE  IsQuiet
  BY <1>1, <1>3 DEF SetJob, IsQuiet, RevisionsStay
<1> HIDE DEF Same
<1> QED BY <1>2, <1>3

(* Schedule columns other than the revision. *)
LEMMA ScheduleIsQuiet ==
  ASSUME TypeOK, NEW s \in Subs,
         \/ Pause(s) \/ ResumeSubscription(s) \/ RunNow(s) \/ Restore(s) \/ FixedDelayOver(s)
  PROVE  IsQuiet
<1>1. sub[s] \in SubRows /\ sub \in [Subs -> SubRows]
  BY DEF TypeOK
<1>2. /\ [sub[s] EXCEPT !.enabled = FALSE].revision = sub[s].revision
      /\ [sub[s] EXCEPT !.enabled = TRUE].revision = sub[s].revision
      /\ [sub[s] EXCEPT !.due = TRUE].revision = sub[s].revision
      /\ [sub[s] EXCEPT !.deleted = FALSE, !.enabled = FALSE].revision = sub[s].revision
  BY <1>1 DEF SubRows
<1>3. PICK row : sub' = [sub EXCEPT ![s] = row] /\ row.revision = sub[s].revision
  <2>1. CASE Pause(s) \/ ResumeSubscription(s) \/ RunNow(s)
    BY <1>2, <2>1 DEF Pause, ResumeSubscription, RunNow, SetSchedule
  <2>2. CASE Restore(s)
    <3>1. sub' = [sub EXCEPT ![s] = [sub[s] EXCEPT !.deleted = FALSE, !.enabled = FALSE]]
      BY <1>1, <2>2 DEF Restore
    <3> QED BY <1>2, <3>1
  <2>3. CASE FixedDelayOver(s)
    <3>1. sub' = [sub EXCEPT ![s] = [sub[s] EXCEPT !.due = TRUE]]
      BY <1>1, <2>3 DEF FixedDelayOver
    <3> QED BY <1>2, <3>1
  <2> QED BY <2>1, <2>2, <2>3
<1>4. RevisionsStay
  BY <1>1, <1>3 DEF RevisionsStay
<1>5. UNCHANGED <<job, run, coord, worker>>
  BY DEF Pause, ResumeSubscription, RunNow, SetSchedule, Restore, FixedDelayOver
<1> QED BY <1>4, <1>5 DEF IsQuiet

(* Resume, of one Job or of all that wait for an account. *)
LEMMA ResumeKind ==
  ASSUME TypeOK,
         \/ \E j \in JobIds : Resume(j)
         \/ \E a \in Accounts : ResumeWaitingAuthForAccount(a)
  PROVE  Resumes
<1>1. job \in [JobIds -> JobRows] /\ \A j \in JobIds : job[j] \in JobRows
  BY DEF TypeOK
<1>2. ASSUME NEW j \in JobIds
      PROVE  /\ Resumed(job[j]).status = "queued"
             /\ Resumed(job[j]).token = job[j].token
             /\ Resumed(job[j]).run = job[j].run
  <2> DEFINE n == IF job[j].attempts >= MaxAttempts THEN MaxAttempts - 1 ELSE job[j].attempts
  <2>1. Resumed(job[j]) = [job[j] EXCEPT !.status = "queued", !.avail = TRUE, !.attempts = n]
    BY <1>1 DEF Resumed, JobRows
  <2> HIDE DEF n
  <2> QED BY <1>1, <2>1 DEF JobRows
<1>3. ASSUME NEW j \in JobIds, Resume(j)
      PROVE  Resumes
  <2>1. job' = [job EXCEPT ![j] = Resumed(job[j])] /\ job[j].status \in WaitingStatuses
    BY <1>3 DEF Resume, SetJob
  <2>2. UNCHANGED <<sub, run, coord, worker>>
    BY <1>3 DEF Resume
  <2> QED BY <1>1, <1>2, <2>1, <2>2 DEF Resumes, RevisionsStay
<1>4. ASSUME NEW a \in Accounts, ResumeWaitingAuthForAccount(a)
      PROVE  Resumes
  <2>1. ASSUME NEW j \in JobIds
        PROVE  \/ job'[j] = job[j]
               \/ job[j].status = "waiting_auth" /\ job'[j] = Resumed(job[j])
    BY <1>4 DEF ResumeWaitingAuthForAccount
  <2>2. UNCHANGED <<sub, run, coord, worker>>
    BY <1>4 DEF ResumeWaitingAuthForAccount
  <2> QED BY <1>2, <2>1, <2>2 DEF Resumes, RevisionsStay, WaitingStatuses
<1> QED BY <1>3, <1>4

(* Every step of the system is of one of these kinds. *)
StepKind ==
  \/ \E s \in Subs : Materialize(s) \/ Remove(s)
  \/ \E j \in JobIds : Succeeds(j) \/ (\E status : Falls(j, status)) \/ MovesCoordinator(j)
  \/ \E w \in Workers, j \in JobIds, t \in FreshTokens : \E requeued : Claim(w, j, requeued, t)
  \/ \E w \in Workers :
       \/ Start(w) \/ Remembers(w)
       \/ \E r \in Runs : CreateAttachedRun(w, r)
       \/ \E to : WritesRun(w, to)
  \/ Resumes
  \/ IsQuiet

LEMMA StepKinds ==
  ASSUME RunInv, Next
  PROVE  StepKind
<1>0. TypeOK
  BY DEF RunInv
<1>1. CASE SchedulerNext
  <2>1. \A s \in Subs : MaterializeDue(s) \/ MaterializeOne(s) => Materialize(s)
    BY DEF MaterializeDue, MaterializeOne
  <2>2. \A w \in Workers, j \in JobIds :
          ClaimNext(w, j) \/ ClaimExact(w, j)
            => \E t \in FreshTokens : \E requeued : Claim(w, j, requeued, t)
    BY DEF ClaimNext, ClaimExact
  <2> QED BY <1>1, <2>1, <2>2, ReclaimKind DEF SchedulerNext, StepKind
<1>2. ASSUME NEW w \in Workers,
             \/ Start(w) \/ Heartbeat(w) \/ Handle(w) \/ HeartbeatFails(w)
             \/ Validate(w) \/ Finalize(w) \/ Raises(w) \/ FailClosed(w)
             \/ LosesLease(w) \/ Crash(w)
      PROVE  StepKind
  <2>1. CASE Start(w)
    BY <2>1 DEF StepKind
  <2>2. CASE Heartbeat(w)
    <3>1. worker[w].job \in JobIds
      BY <2>2 DEF Heartbeat, Owns
    <3>2. IsQuiet
      BY <1>0, <2>2, <3>1, TimerIsQuiet DEF Heartbeat
    <3> QED BY <3>2 DEF StepKind
  <2>3. CASE Finalize(w)
    BY <2>3, FinalizeKind DEF StepKind
  <2>4. CASE \E r \in Runs : CreateAttachedRun(w, r)
    BY <2>4 DEF StepKind
  <2>5. CASE \/ SetIngesting(w) \/ CommitIngestion(w)
             \/ \E code \in Failures : FailAttempt(w, code)
    BY <2>5, WritesRunKind DEF StepKind
  <2>6. CASE \/ ReturnSuccess(w) \/ HeartbeatFails(w) \/ Validate(w) \/ Raises(w) \/ FailClosed(w)
             \/ LosesLease(w) \/ Crash(w)
             \/ \E code \in Failures, keep \in BOOLEAN : ReturnFailure(w, code, keep)
    BY <2>6, MemoryKind DEF StepKind
  <2> QED BY <1>2, <2>1, <2>2, <2>3, <2>4, <2>5, <2>6 DEF Handle
<1>3. CASE OperatorNext
  <2>1. ASSUME NEW l \in LaneIds, ResetLane(l) \/ \E p \in Policies : UpdateLane(l, p)
        PROVE  IsQuiet
    BY <2>1 DEF ResetLane, UpdateLane, SetLane, IsQuiet, RevisionsStay
  <2> QED BY <1>0, <1>3, <2>1, CancelKind, ResumeKind, ScheduleIsQuiet DEF OperatorNext, StepKind
<1>4. CASE EnvironmentNext
  <2>1. ASSUME NEW j \in JobIds, ExpireLease(j) \/ RetryDue(j)
        PROVE  IsQuiet
    BY <1>0, <2>1, TimerIsQuiet DEF ExpireLease, RetryDue
  <2>2. ASSUME NEW l \in LaneIds, CooldownOver(l) \/ IntervalOver(l)
        PROVE  IsQuiet
    BY <2>2 DEF CooldownOver, IntervalOver, SetLane, IsQuiet, RevisionsStay
  <2> QED BY <1>0, <1>4, <2>1, <2>2, ScheduleIsQuiet
          DEF EnvironmentNext, StepKind, MovesCoordinator
<1> QED BY <1>1, <1>2, <1>3, <1>4 DEF Next, WorkerNext

--------------------------------------------------------------------------------
(* What the remaining kinds write *)

(* A claim leases one Job under a new token and may requeue others. *)
LEMMA ClaimWrites ==
  ASSUME TypeOK, NEW w \in Workers, NEW j \in JobIds, NEW t, NEW requeued,
         Claim(w, j, requeued, t)
  PROVE  /\ job[j].status \in {"queued"} \cup RequeueStatuses
         /\ job'[j].status = "claimed" /\ job'[j].token = t /\ job'[j].run = job[j].run
         /\ \A i \in JobIds \ {j} :
              /\ \/ job'[i].status = job[i].status
                 \/ job[i].status \in RequeueStatuses /\ job'[i].status = "queued"
              /\ job'[i].token = job[i].token
              /\ job'[i].run = job[i].run
         /\ worker[w].pc = "idle"
         /\ worker'[w].pc = "claimed" /\ worker'[w].job = j /\ worker'[w].token = t
         /\ worker'[w].run = NoRun /\ worker'[w].result = "none"
         /\ \A v \in Workers \ {w} : worker'[v] = worker[v]
         /\ UNCHANGED <<sub, run, coord>>
<1>1. job \in [JobIds -> JobRows] /\ \A i \in JobIds : job[i] \in JobRows
  BY DEF TypeOK
<1>2. job[j].status \in {"queued"} \cup RequeueStatuses
  BY DEF Claim, Claimable, Requeueable
<1>3. job'[j] = [job[j] EXCEPT !.status = "claimed", !.lease = "live", !.token = t,
                               !.attempts = @ + 1]
  BY DEF Claim
<1>4. job'[j].status = "claimed" /\ job'[j].token = t /\ job'[j].run = job[j].run
  BY <1>1, <1>3 DEF JobRows
<1>5. ASSUME NEW i \in JobIds \ {j}
      PROVE  /\ \/ job'[i].status = job[i].status
                \/ job[i].status \in RequeueStatuses /\ job'[i].status = "queued"
             /\ job'[i].token = job[i].token
             /\ job'[i].run = job[i].run
  <2>1. \/ job'[i] = job[i]
        \/ job[i].status \in RequeueStatuses /\ job'[i] = [job[i] EXCEPT !.status = "queued"]
    BY DEF Claim, Requeueable
  <2> QED BY <1>1, <2>1 DEF JobRows
<1>6. worker' = [worker EXCEPT ![w] = [IdleWorker EXCEPT !.pc = "claimed", !.job = j, !.token = t]]
      /\ worker[w].pc = "idle" /\ UNCHANGED <<sub, run, coord>>
  BY DEF Claim
<1>7. /\ worker'[w].pc = "claimed" /\ worker'[w].job = j /\ worker'[w].token = t
      /\ worker'[w].run = NoRun /\ worker'[w].result = "none"
      /\ \A v \in Workers \ {w} : worker'[v] = worker[v]
  BY <1>6 DEF TypeOK, IdleWorker
<1> QED BY <1>2, <1>4, <1>5, <1>6, <1>7

(* A start runs the claimed Job and remembers the Run it carries. *)
LEMMA StartWrites ==
  ASSUME TypeOK, NEW w \in Workers, Start(w)
  PROVE  LET j == worker[w].job
         IN  /\ j \in JobIds
             /\ worker[w].pc = "claimed" /\ job[j].token = worker[w].token
             /\ job[j].status = "claimed" /\ job'[j].status = "running"
             /\ job'[j].token = job[j].token /\ job'[j].run = job[j].run
             /\ \A i \in JobIds \ {j} : job'[i] = job[i]
             /\ worker'[w].pc = "context" /\ worker'[w].job = j
             /\ worker'[w].token = worker[w].token
             /\ worker'[w].run = job[j].run /\ worker'[w].result = "none"
             /\ \A v \in Workers \ {w} : worker'[v] = worker[v]
             /\ UNCHANGED <<sub, run, coord>>
<1> DEFINE j == worker[w].job
<1>1. /\ job \in [JobIds -> JobRows]
      /\ j \in JobIds /\ job[j] \in JobRows
      /\ worker[w].pc = "claimed" /\ job[j].token = worker[w].token
      /\ job[j].status = "claimed"
      /\ job' = [job EXCEPT ![j] = [job[j] EXCEPT !.status = "running"]]
      /\ Goto(w, "context", job[j].run, "none")
      /\ UNCHANGED <<sub, run, coord>>
  BY DEF TypeOK, Start, Owns, SetJob
<1>2. /\ job'[j].status = "running"
      /\ job'[j].token = job[j].token /\ job'[j].run = job[j].run
      /\ \A i \in JobIds \ {j} : job'[i] = job[i]
  BY <1>1 DEF JobRows
<1>3. /\ worker'[w].pc = "context" /\ worker'[w].job = j
      /\ worker'[w].token = worker[w].token
      /\ worker'[w].run = job[j].run /\ worker'[w].result = "none"
      /\ \A v \in Workers \ {w} : worker'[v] = worker[v]
  BY <1>1, GotoMemory
<1> QED BY <1>1, <1>2, <1>3

(* A new Run is attached in the place of the one the context named. *)
LEMMA CreateWrites ==
  ASSUME TypeOK, NEW w \in Workers, NEW r \in Runs, CreateAttachedRun(w, r)
  PROVE  LET j == worker[w].job
         IN  /\ j \in JobIds /\ r \in FreshRuns
             /\ worker[w].pc = "context" /\ job[j].token = worker[w].token
             /\ job[j].status = "running" /\ job'[j].status = "running"
             /\ job'[j].token = job[j].token /\ job'[j].run = r
             /\ ~RunSucceeded(j)
             /\ \A i \in JobIds \ {j} : job'[i] = job[i]
             /\ worker'[w].pc = "attempt" /\ worker'[w].job = j
             /\ worker'[w].token = worker[w].token
             /\ worker'[w].run = r /\ worker'[w].result = "none"
             /\ \A v \in Workers \ {w} : worker'[v] = worker[v]
             /\ run'[r] = "running"
             /\ \A q \in Runs \ {r} :
                  \/ run'[q] = run[q]
                  \/ q = job[j].run /\ run[q] \in OpenRuns /\ run'[q] = "cancelled"
             /\ UNCHANGED <<sub, coord>>
<1> DEFINE j == worker[w].job
<1>1. /\ job \in [JobIds -> JobRows]
      /\ j \in JobIds /\ job[j] \in JobRows /\ r \in FreshRuns
      /\ worker[w].pc = "context" /\ job[j].token = worker[w].token
      /\ job[j].status = "running"
      /\ ~RunSucceeded(j)
      /\ job' = [job EXCEPT ![j] = [job[j] EXCEPT !.run = r]]
      /\ Goto(w, "attempt", r, "none")
      /\ UNCHANGED <<sub, coord>>
  BY DEF TypeOK, CreateAttachedRun, Owns, SetJob
<1>2. /\ job'[j].status = "running"
      /\ job'[j].token = job[j].token /\ job'[j].run = r
      /\ \A i \in JobIds \ {j} : job'[i] = job[i]
  BY <1>1 DEF JobRows
<1>3. /\ worker'[w].pc = "attempt" /\ worker'[w].job = j
      /\ worker'[w].token = worker[w].token
      /\ worker'[w].run = r /\ worker'[w].result = "none"
      /\ \A v \in Workers \ {w} : worker'[v] = worker[v]
  BY <1>1, GotoMemory
<1>4. /\ run'[r] = "running"
      /\ \A q \in Runs \ {r} :
           \/ run'[q] = run[q]
           \/ q = job[j].run /\ run[q] \in OpenRuns /\ run'[q] = "cancelled"
  BY DEF CreateAttachedRun
<1> QED BY <1>1, <1>2, <1>3, <1>4

(* Removal only cancels: by RunTruthIsKept a Job that is not leased has no       *)
(* truth to keep.                                                               *)
LEMMA RemoveWrites ==
  ASSUME RunInv, NEW s \in Subs, Remove(s)
  PROVE  /\ \A j \in JobIds :
              \/ job'[j] = job[j]
              \/ /\ j \in ActiveJobs(s)
                 /\ job[j].status \in ActiveStatuses \ WorkStatuses
                 /\ job'[j].status = "cancelled"
                 /\ job'[j].token = NoToken
                 /\ job'[j].run = job[j].run
         /\ \A j \in ActiveJobs(s) : job'[j].status = "cancelled"
         /\ \A j \in JobIds :
              coord'[j] = IF SubOf(j) = s /\ coord[j] = "pending" THEN "ended" ELSE coord[j]
         /\ \A l \in LaneIds :
              lane'[l] = IF lane[l].probe \in ActiveJobs(s)
                           THEN ReleaseProbe(lane[l], lane[l].probe) ELSE lane[l]
         /\ coord' \in [JobIds -> CoordStates]
         /\ RevisionsStay
         /\ UNCHANGED <<run, worker>>
<1>0. TypeOK
  BY DEF RunInv
<1>1. ASSUME NEW j \in ActiveJobs(s)
      PROVE  /\ j \in JobIds
             /\ job[j].status \in ActiveStatuses \ WorkStatuses
             /\ ~RunSucceeded(j) /\ ~RunConflict(j)
  <2>1. j \in JobIds /\ job[j].status \in ActiveStatuses /\ job[j].status \notin WorkStatuses
    BY DEF ActiveJobs, Remove, Idle, Leased
  <2>2. job[j].status # "running"
    BY <2>1 DEF WorkStatuses
  <2> QED BY <2>1, <2>2, TruthOfAnActiveJob
<1> DEFINE cycle == ActiveJobs(s)
           won   == {j \in cycle : RunSucceeded(j)}
<1>2. won = {}
  BY <1>1
<1>3. ASSUME NEW j \in JobIds
      PROVE  job'[j] = IF j \in cycle THEN Unleased(job[j], "cancelled") ELSE job[j]
  <2>1. j \in cycle => ~RunConflict(j)
    BY <1>1
  <2> HIDE DEF cycle
  <2>2. job'[j] = IF j \notin cycle THEN job[j]
                  ELSE Unleased(job[j], IF j \in won THEN "succeeded"
                                        ELSE IF RunConflict(j) THEN "failed_terminal"
                                        ELSE "cancelled")
    BY DEF Remove, cycle
  <2> QED BY <1>2, <2>1, <2>2
<1>4. \A j \in cycle : /\ job'[j].status = "cancelled"
                       /\ job'[j].token = NoToken
                       /\ job'[j].run = job[j].run
  <2> TAKE j \in cycle
  <2>1. j \in JobIds /\ job[j] \in JobRows
    BY <1>0, <1>1 DEF TypeOK
  <2>2. job'[j] = Unleased(job[j], "cancelled")
    BY <1>3, <2>1
  <2> QED BY <2>1, <2>2, UnleasedFields
<1>5. \A j \in JobIds :
        coord'[j] = IF SubOf(j) = s /\ coord[j] = "pending" THEN "ended" ELSE coord[j]
  <2> HIDE DEF cycle
  <2>1. coord' = [j \in JobIds |-> IF j \in won \/ (SubOf(j) = s /\ coord[j] = "pending")
                                     THEN "ended" ELSE coord[j]]
    BY DEF Remove, cycle
  <2> QED BY <1>2, <2>1
<1>6. \A l \in LaneIds :
        lane'[l] = IF lane[l].probe \in cycle THEN ReleaseProbe(lane[l], lane[l].probe)
                                              ELSE lane[l]
  <2> HIDE DEF cycle
  <2>1. lane' = [l \in LaneIds |->
                   IF \E j \in won : l \in LanesOf(j)
                     THEN Succeed(lane[l], CHOOSE j \in won : l \in LanesOf(j))
                   ELSE IF lane[l].probe \in cycle
                     THEN ReleaseProbe(lane[l], lane[l].probe)
                   ELSE lane[l]]
    BY DEF Remove, cycle
  <2> QED BY <1>2, <2>1
<1>7. coord' \in [JobIds -> CoordStates]
  BY <1>0, RemoveStepType DEF TypeOK
<1>8. RevisionsStay
  BY <1>0, RemoveKeepsCycles DEF StepKeepsCycles
<1>9. UNCHANGED <<run, worker>>
  BY DEF Remove
<1> HIDE DEF won
<1> QED BY <1>1, <1>3, <1>4, <1>5, <1>6, <1>7, <1>8, <1>9

(* What a materialisation leaves of the state. *)
LEMMA MaterializeWrites ==
  ASSUME RunInv, NEW s \in Subs, Materialize(s)
  PROVE  LET opened == <<s, sub[s].revision>>
         IN  /\ opened \in JobIds
             /\ job[opened].status = "absent" /\ coord[opened] = "none"
             /\ job'[opened].status = "queued" /\ job'[opened].token = NoToken
             /\ job'[opened].run = NoRun
             /\ \A j \in JobIds \ {opened} : job'[j] = job[j]
             /\ UNCHANGED <<lane, run, coord, worker>>
<1>0. TypeOK
  BY DEF RunInv
<1> DEFINE opened == <<s, sub[s].revision>>
<1>1. opened \in JobIds /\ \A j \in JobIds \ {opened} : job'[j] = job[j]
  BY <1>0, MaterializedRows
<1>2. job[opened].status = "absent"
  <2>1. SubOf(opened) = s /\ CycleOf(opened) = sub[s].revision /\ sub[s].revision \in Nat
    BY <1>0 DEF SubOf, CycleOf, TypeOK, SubRows, Revisions
  <2> QED BY <1>1, <2>1 DEF RunInv, FutureIsAbsent
<1>3. coord[opened] = "none"
  BY <1>1, <1>2 DEF RunInv, CoordinatorPerSuccess
<1>4. /\ job' = [job EXCEPT ![opened] = [NoJobRow EXCEPT !.status = "queued"]]
      /\ UNCHANGED <<lane, run, coord, worker>>
  BY DEF Materialize, SetJob
<1>5. job'[opened] = [NoJobRow EXCEPT !.status = "queued"]
  BY <1>0, <1>1, <1>4 DEF TypeOK
<1> QED BY <1>1, <1>2, <1>3, <1>4, <1>5 DEF NoJobRow

--------------------------------------------------------------------------------
(* Leases, memories and Runs over one step *)

NothingLeased ==
  \A j \in JobIds : job'[j].status \in WorkStatuses
                      => job[j].status \in WorkStatuses /\ job'[j].token = job[j].token

MemoryStays ==
  \A w \in Workers :
    worker'[w].pc # "idle"
      => /\ worker[w].pc # "idle"
         /\ worker'[w].job = worker[w].job
         /\ worker'[w].token = worker[w].token

(* Only a claim leases a Job or wakes a worker. *)
LEMMA StepLeases ==
  ASSUME RunInv, StepKind
  PROVE  \/ NothingLeased /\ MemoryStays
         \/ \E w \in Workers, j \in JobIds, t \in FreshTokens :
              \E requeued : Claim(w, j, requeued, t)
<1>0. TypeOK /\ "queued" \notin WorkStatuses /\ WorkStatuses \cap WaitingStatuses = {}
  BY DEF RunInv, WorkStatuses, WaitingStatuses
<1>1. UNCHANGED worker => MemoryStays
  BY DEF MemoryStays
<1>2. UNCHANGED job => NothingLeased
  BY DEF NothingLeased
<1>3. MemoryDropsAtMost => MemoryStays
  BY DEF MemoryDropsAtMost, MemoryStays, IdleWorker
<1>4. ASSUME NEW s \in Subs, Materialize(s)
      PROVE  NothingLeased /\ MemoryStays
  <2>1. NothingLeased
    BY <1>0, <1>4, MaterializeWrites DEF NothingLeased
  <2> QED BY <1>1, <1>4, <2>1 DEF Materialize
<1>5. ASSUME NEW s \in Subs, Remove(s)
      PROVE  NothingLeased /\ MemoryStays
  <2>1. "cancelled" \notin WorkStatuses
    BY DEF WorkStatuses
  <2>2. NothingLeased
    BY <1>5, <2>1, RemoveWrites DEF NothingLeased
  <2> QED BY <1>1, <1>5, <2>2 DEF Remove
<1>6. ASSUME NEW j \in JobIds, Succeeds(j) \/ \E status : Falls(j, status)
      PROVE  NothingLeased /\ MemoryStays
  <2>1. PICK status : /\ Settles(j, status) /\ MemoryDropsAtMost
                      /\ status \in RequeueStatuses \cup WaitingStatuses \cup TerminalStatuses
    <3>1. {"succeeded", "failed_terminal", "cancelled"} \subseteq TerminalStatuses
      BY DEF TerminalStatuses
    <3> QED BY <1>6, <3>1 DEF Succeeds, Falls
  <2>2. status \notin WorkStatuses
    BY <2>1 DEF RequeueStatuses, WaitingStatuses, TerminalStatuses, WorkStatuses
  <2>3. NothingLeased
    BY <2>1, <2>2 DEF Settles, NothingLeased
  <2> QED BY <1>3, <2>1, <2>3
<1>7. ASSUME NEW j \in JobIds, MovesCoordinator(j)
      PROVE  NothingLeased /\ MemoryStays
  BY <1>1, <1>2, <1>7 DEF MovesCoordinator, TakeCoordinator, LeaveCoordinator
<1>8. ASSUME NEW w \in Workers, Start(w)
      PROVE  NothingLeased /\ MemoryStays
  <2>1. NothingLeased
    BY <1>0, <1>8, StartWrites DEF NothingLeased, WorkStatuses
  <2>2. MemoryStays
    BY <1>0, <1>8, StartWrites DEF MemoryStays
  <2> QED BY <2>1, <2>2
<1>9. ASSUME NEW w \in Workers, NEW r \in Runs, CreateAttachedRun(w, r)
      PROVE  NothingLeased /\ MemoryStays
  <2>1. NothingLeased
    BY <1>0, <1>9, CreateWrites DEF NothingLeased, WorkStatuses
  <2>2. MemoryStays
    BY <1>0, <1>9, CreateWrites DEF MemoryStays
  <2> QED BY <2>1, <2>2
<1>10. ASSUME NEW w \in Workers, Remembers(w) \/ \E to : WritesRun(w, to)
       PROVE  NothingLeased /\ MemoryStays
  <2>1. UNCHANGED job
    BY <1>10 DEF Remembers, WritesRun, Rows
  <2>2. MemoryStays
    BY <1>10 DEF Remembers, WritesRun, MemoryStays, IdleWorker
  <2> QED BY <1>2, <2>1, <2>2
<1>11. CASE Resumes
  <2>1. NothingLeased
    BY <1>0, <1>11 DEF Resumes, NothingLeased
  <2> QED BY <1>1, <1>11, <2>1 DEF Resumes
<1>12. CASE IsQuiet
  BY <1>1, <1>12 DEF IsQuiet, NothingLeased
<1> QED BY <1>4, <1>5, <1>6, <1>7, <1>8, <1>9, <1>10, <1>11, <1>12 DEF StepKind

(* A worker that holds its Job after a step held it before, or has just claimed it. *)
LEMMA HoldersStay ==
  ASSUME RunInv, StepKind, NEW w \in Workers, Holds(w)'
  PROVE  \/ Holds(w) /\ worker'[w].job = worker[w].job
         \/ worker'[w].pc = "claimed" /\ worker'[w].run = NoRun
<1>0. TypeOK /\ (worker[w].pc # "idle" => worker[w].job \in JobIds)
  BY DEF RunInv, TypeOK
<1>1. CASE NothingLeased /\ MemoryStays
  BY <1>0, <1>1 DEF NothingLeased, MemoryStays, Holds
<1>2. ASSUME NEW v \in Workers, NEW j \in JobIds, NEW t \in FreshTokens, NEW requeued,
             Claim(v, j, requeued, t)
      PROVE  \/ Holds(w) /\ worker'[w].job = worker[w].job
             \/ worker'[w].pc = "claimed" /\ worker'[w].run = NoRun
  <2>1. CASE v = w
    BY <1>0, <1>2, <2>1, ClaimWrites
  <2>2. CASE v # w
    <3>1. worker'[w] = worker[w] /\ worker[w].token # t
      BY <1>0, <1>2, <2>2, ClaimWrites DEF FreshTokens
    <3>2. worker[w].job \in JobIds \ {j}
      BY <1>0, <1>2, <3>1, ClaimWrites DEF Holds
    <3>3. job'[worker[w].job].token = job[worker[w].job].token
          /\ (job'[worker[w].job].status \in WorkStatuses
                => job[worker[w].job].status \in WorkStatuses)
      <4>1. "queued" \notin WorkStatuses
        BY DEF WorkStatuses
      <4> QED BY <1>0, <1>2, <3>2, <4>1, ClaimWrites
    <3> QED BY <3>1, <3>3 DEF Holds
  <2> QED BY <2>1, <2>2
<1> QED BY <1>1, <1>2, StepLeases

(* Whoever holds a Job is alone with it: tokens are not shared.                 *)
LEMMA OneHolder ==
  ASSUME RunInv, NEW v \in Workers, NEW w \in Workers, Holds(v),
         worker[w].pc # "idle", job[worker[w].job].token = worker[w].token,
         worker[v].job = worker[w].job
  PROVE  v = w
<1>1. worker[v].token = worker[w].token /\ worker[v].pc # "idle"
  BY DEF Holds
<1> QED BY <1>1 DEF RunInv, TokensAreOwn

(* No step but a claim moves a token. *)
LEMMA TokensStep == RunInv /\ StepKind => TokensAreOwn'
<1> SUFFICES ASSUME RunInv, StepKind PROVE TokensAreOwn'
  OBVIOUS
<1>1. CASE NothingLeased /\ MemoryStays
  BY <1>1 DEF MemoryStays, TokensAreOwn, RunInv
<1>2. ASSUME NEW w \in Workers, NEW j \in JobIds, NEW t \in FreshTokens, NEW requeued,
             Claim(w, j, requeued, t)
      PROVE  TokensAreOwn'
  <2>1. /\ worker'[w].token = t
        /\ \A v \in Workers \ {w} : worker'[v] = worker[v]
    BY <1>2, ClaimWrites DEF RunInv
  <2>2. t \in Tokens /\ \A v \in Workers : worker[v].token # t
    BY DEF FreshTokens
  <2> QED BY <2>1, <2>2 DEF TokensAreOwn, RunInv
<1> QED BY <1>1, <1>2, StepLeases

(* Cancelling an attached Run ends an open Run and nothing else. *)
LEMMA CancelWrites ==
  ASSUME TypeOK, NEW j \in JobIds, CancelAttachedRun(j)
  PROVE  \A r \in Runs : \/ run'[r] = run[r]
                         \/ r = job[j].run /\ run[r] \in OpenRuns /\ run'[r] = "cancelled"
<1>1. job[j].run \in Runs \cup {NoRun} /\ run \in [Runs -> RunStatuses]
  BY DEF TypeOK, JobRows
<1>2. RunOf(j) \in OpenRuns => job[j].run # NoRun /\ RunOf(j) = run[job[j].run]
  BY DEF RunOf, OpenRuns
<1> QED BY <1>1, <1>2 DEF CancelAttachedRun

Truths == {"succeeded", "conflict"}

(* The final word of a Run anybody refers to is never taken back, and only the  *)
(* handler that holds the Job says it.                                          *)
TruthStays ==
  \A r \in Runs :
    /\ r \notin FreshRuns /\ run[r] \in Truths => run'[r] = run[r]
    /\ \/ run'[r] \in Truths => run'[r] = run[r]
       \/ \E w \in Workers : worker[w].run = r /\ WritesRun(w, run'[r])

LEMMA StepTruth ==
  ASSUME RunInv, StepKind
  PROVE  TruthStays
<1>0. TypeOK
  BY DEF RunInv
<1>1. UNCHANGED run => TruthStays
  BY DEF TruthStays
<1>2. "cancelled" \notin Truths /\ "running" \notin Truths /\ OpenRuns \cap Truths = {}
  BY DEF Truths, OpenRuns
<1>3. ASSUME NEW s \in Subs, Materialize(s) \/ Remove(s)
      PROVE  UNCHANGED run
  BY <1>3 DEF Materialize, Remove
<1>4. ASSUME NEW j \in JobIds, Succeeds(j) \/ MovesCoordinator(j)
      PROVE  UNCHANGED run
  BY <1>4 DEF Succeeds, MovesCoordinator, TakeCoordinator, LeaveCoordinator
<1>5. ASSUME NEW j \in JobIds, NEW status, Falls(j, status)
      PROVE  TruthStays
  <2>1. CASE CancelAttachedRun(j)
    BY <1>0, <1>2, <2>1, CancelWrites DEF TruthStays
  <2> QED BY <1>1, <1>5, <2>1 DEF Falls
<1>6. ASSUME NEW w \in Workers, Start(w) \/ Remembers(w)
      PROVE  UNCHANGED run
  BY <1>6 DEF Start, Remembers, Rows
<1>7. ASSUME NEW w \in Workers, NEW r \in Runs, CreateAttachedRun(w, r)
      PROVE  TruthStays
  <2>1. /\ r \in FreshRuns
        /\ run'[r] = "running"
        /\ \A q \in Runs \ {r} :
             \/ run'[q] = run[q]
             \/ q = job[worker[w].job].run /\ run[q] \in OpenRuns /\ run'[q] = "cancelled"
    BY <1>0, <1>7, CreateWrites
  <2> QED BY <1>2, <2>1 DEF TruthStays
<1>8. ASSUME NEW w \in Workers, NEW to, WritesRun(w, to)
      PROVE  TruthStays
  <2>1. /\ worker[w].run \in Runs
        /\ run[worker[w].run] \in {"running", "ingesting"}
        /\ run' = [run EXCEPT ![worker[w].run] = to]
    BY <1>8 DEF WritesRun
  <2>2. run \in [Runs -> RunStatuses] /\ {"running", "ingesting"} \cap Truths = {}
    BY <1>0 DEF TypeOK, Truths
  <2>3. run'[worker[w].run] = to /\ \A r \in Runs \ {worker[w].run} : run'[r] = run[r]
    BY <2>1, <2>2
  <2> QED BY <1>8, <2>1, <2>2, <2>3 DEF TruthStays
<1>9. ASSUME NEW w \in Workers, NEW j \in JobIds, NEW t, NEW requeued, Claim(w, j, requeued, t)
      PROVE  UNCHANGED run
  BY <1>9 DEF Claim
<1>10. Resumes \/ IsQuiet => UNCHANGED run
  BY DEF Resumes, IsQuiet
<1> QED BY <1>1, <1>3, <1>4, <1>5, <1>6, <1>7, <1>8, <1>9, <1>10 DEF StepKind

(* Only a new attempt attaches another Run, and only a materialisation starts a *)
(* row without one.                                                             *)
AttachmentsStay == \A j \in JobIds : job'[j].run = job[j].run

LEMMA StepAttachments ==
  ASSUME RunInv, StepKind
  PROVE  \/ AttachmentsStay
         \/ \E s \in Subs : Materialize(s)
         \/ \E w \in Workers, r \in Runs : CreateAttachedRun(w, r)
<1>0. TypeOK
  BY DEF RunInv
<1>1. ASSUME NEW s \in Subs, Remove(s)
      PROVE  AttachmentsStay
  BY <1>1, RemoveWrites DEF AttachmentsStay
<1>2. ASSUME NEW j \in JobIds, Succeeds(j) \/ MovesCoordinator(j) \/ \E status : Falls(j, status)
      PROVE  AttachmentsStay
  BY <1>2 DEF AttachmentsStay, Succeeds, Falls, Settles, MovesCoordinator, TakeCoordinator,
              LeaveCoordinator
<1>3. ASSUME NEW w \in Workers, NEW j \in JobIds, NEW t \in FreshTokens, NEW requeued,
             Claim(w, j, requeued, t)
      PROVE  AttachmentsStay
  BY <1>0, <1>3, ClaimWrites DEF AttachmentsStay
<1>4. ASSUME NEW w \in Workers, Start(w)
      PROVE  AttachmentsStay
  BY <1>0, <1>4, StartWrites DEF AttachmentsStay
<1>5. ASSUME NEW w \in Workers, Remembers(w) \/ \E to : WritesRun(w, to)
      PROVE  AttachmentsStay
  BY <1>5 DEF AttachmentsStay, Remembers, WritesRun, Rows
<1>6. Resumes \/ IsQuiet => AttachmentsStay
  BY DEF Resumes, IsQuiet, AttachmentsStay
<1> QED BY <1>1, <1>2, <1>3, <1>4, <1>5, <1>6 DEF StepKind

(* A Run stays with one Job: a new one is attached to nobody else. *)
LEMMA RunsStep == RunInv /\ StepKind => RunsAreOwn'
<1> SUFFICES ASSUME RunInv, StepKind PROVE RunsAreOwn'
  OBVIOUS
<1>0. TypeOK
  BY DEF RunInv
<1>1. CASE AttachmentsStay
  BY <1>1 DEF AttachmentsStay, RunsAreOwn, RunInv
<1>2. ASSUME NEW s \in Subs, Materialize(s)
      PROVE  RunsAreOwn'
  BY <1>2, MaterializeWrites DEF RunsAreOwn, RunInv
<1>3. ASSUME NEW w \in Workers, NEW r \in Runs, CreateAttachedRun(w, r)
      PROVE  RunsAreOwn'
  <2> DEFINE j == worker[w].job
  <2>1. /\ job'[j].run = r
        /\ \A i \in JobIds \ {j} : job'[i] = job[i] /\ job[i].run # r
    BY <1>0, <1>3, CreateWrites DEF FreshRuns
  <2> HIDE DEF j
  <2> QED BY <2>1 DEF RunsAreOwn, RunInv
<1> QED BY <1>1, <1>2, <1>3, StepAttachments

(* No step but a materialisation gives an absent Job a row. *)
LEMMA FutureStep == RunInv /\ Next => FutureIsAbsent'
<1> SUFFICES ASSUME RunInv, Next PROVE FutureIsAbsent'
  OBVIOUS
<1>0. TypeOK /\ FutureIsAbsent
  BY DEF RunInv
<1>1. CASE StepKeepsCycles
  <2>1. "absent" \notin ActiveStatuses
    BY DEF ActiveStatuses, WorkStatuses, RequeueStatuses, WaitingStatuses
  <2>2. ASSUME NEW j \in JobIds
        PROVE  /\ sub'[SubOf(j)].revision = sub[SubOf(j)].revision
               /\ job[j].status = "absent" => job'[j].status = "absent"
    BY <1>1, <2>1, JobIsOfSub DEF StepKeepsCycles, RevisionsStay, JobMoves
  <2> QED BY <1>0, <2>2 DEF FutureIsAbsent
<1>2. ASSUME NEW s \in Subs, Materialize(s)
      PROVE  FutureIsAbsent'
  <2> SUFFICES ASSUME NEW j \in JobIds, CycleOf(j) >= sub'[SubOf(j)].revision
               PROVE  job'[j].status = "absent"
    BY DEF FutureIsAbsent
  <2>1. SubOf(j) \in Subs /\ CycleOf(j) \in Nat /\ sub[SubOf(j)].revision \in Nat
    BY <1>0, JobIsOfSub DEF TypeOK, SubRows, Revisions
  <2>2. /\ \A i \in JobIds : i # <<s, sub[s].revision>> => job'[i] = job[i]
        /\ sub'[s].revision = sub[s].revision + 1
        /\ \A i \in Subs : i # s => sub'[i] = sub[i]
    BY <1>0, <1>2, MaterializedRows
  <2>3. CycleOf(j) >= sub[SubOf(j)].revision /\ j # <<s, sub[s].revision>>
    BY <2>1, <2>2 DEF SubOf, CycleOf
  <2> QED BY <1>0, <2>2, <2>3 DEF FutureIsAbsent
<1> QED BY <1>0, <1>1, <1>2, StepsKeepCycles

--------------------------------------------------------------------------------
(* What workers remember over one step *)

(* How the memory of one worker moves. *)
MemoryMoves(w) ==
  \/ worker'[w] = worker[w]
  \/ worker'[w] = IdleWorker
  \/ /\ worker'[w].pc \notin {"idle", "attempt"}
     /\ worker'[w].run \in {NoRun, worker[w].run, job[worker[w].job].run}
     /\ worker'[w].result = "success"
          => worker'[w].run \in Runs /\ run'[worker'[w].run] = "succeeded"
  \/ \E r \in Runs : CreateAttachedRun(w, r)

LEMMA StepMemory ==
  ASSUME RunInv, StepKind, NEW w \in Workers
  PROVE  MemoryMoves(w)
<1>0. TypeOK
  BY DEF RunInv
<1>1. UNCHANGED worker \/ MemoryDropsAtMost => MemoryMoves(w)
  BY DEF MemoryMoves, MemoryDropsAtMost
<1>2. ASSUME NEW s \in Subs, Materialize(s) \/ Remove(s)
      PROVE  MemoryMoves(w)
  BY <1>1, <1>2 DEF Materialize, Remove
<1>3. ASSUME NEW j \in JobIds, Succeeds(j) \/ MovesCoordinator(j) \/ \E status : Falls(j, status)
      PROVE  MemoryMoves(w)
  BY <1>1, <1>3 DEF Succeeds, Falls, MovesCoordinator, TakeCoordinator, LeaveCoordinator
<1>4. ASSUME NEW v \in Workers, NEW j \in JobIds, NEW t \in FreshTokens, NEW requeued,
             Claim(v, j, requeued, t)
      PROVE  MemoryMoves(w)
  <2>1. /\ worker'[v].pc = "claimed" /\ worker'[v].run = NoRun /\ worker'[v].result = "none"
        /\ \A u \in Workers \ {v} : worker'[u] = worker[u]
    BY <1>0, <1>4, ClaimWrites
  <2> QED BY <2>1 DEF MemoryMoves
<1>5. ASSUME NEW v \in Workers, Start(v)
      PROVE  MemoryMoves(w)
  <2>1. /\ worker'[v].pc = "context" /\ worker'[v].run = job[worker[v].job].run
        /\ worker'[v].result = "none"
        /\ \A u \in Workers \ {v} : worker'[u] = worker[u]
    BY <1>0, <1>5, StartWrites
  <2> QED BY <2>1 DEF MemoryMoves
<1>6. ASSUME NEW v \in Workers, NEW r \in Runs, CreateAttachedRun(v, r)
      PROVE  MemoryMoves(w)
  <2>1. \A u \in Workers \ {v} : worker'[u] = worker[u]
    BY <1>0, <1>6, CreateWrites
  <2> QED BY <1>6, <2>1 DEF MemoryMoves
<1>7. ASSUME NEW v \in Workers, Remembers(v)
      PROVE  MemoryMoves(w)
  BY <1>7 DEF Remembers, Rows, MemoryMoves
<1>8. ASSUME NEW v \in Workers, NEW to, WritesRun(v, to)
      PROVE  MemoryMoves(w)
  BY <1>8 DEF WritesRun, MemoryMoves
<1>9. Resumes \/ IsQuiet => MemoryMoves(w)
  BY <1>1 DEF Resumes, IsQuiet
<1> QED BY <1>2, <1>3, <1>4, <1>5, <1>6, <1>7, <1>8, <1>9 DEF StepKind

(* A success that a worker remembers stays the truth of that Run. *)
LEMMA SuccessStep == RunInv /\ StepKind => SuccessIsDurable'
<1> SUFFICES ASSUME RunInv, StepKind, NEW w \in Workers,
                    worker'[w].pc # "idle", worker'[w].result = "success"
             PROVE  worker'[w].run \in Runs /\ run'[worker'[w].run] = "succeeded"
  BY DEF SuccessIsDurable
<1>0. TypeOK
  BY DEF RunInv
<1>1. CASE worker'[w] = worker[w]
  <2>1. worker[w].run \in Runs /\ run[worker[w].run] = "succeeded"
    BY <1>1 DEF RunInv, SuccessIsDurable
  <2>2. worker[w].run \notin FreshRuns
    BY DEF FreshRuns
  <2>3. run'[worker[w].run] = run[worker[w].run]
    BY <2>1, <2>2, StepTruth DEF TruthStays, Truths
  <2> QED BY <1>1, <2>1, <2>3
<1>2. worker'[w] # IdleWorker
  BY DEF IdleWorker
<1>3. ASSUME NEW r \in Runs, CreateAttachedRun(w, r)
      PROVE  FALSE
  <2>1. worker'[w].result = "none"
    BY <1>0, <1>3, CreateWrites
  <2> QED BY <2>1
<1> QED BY <1>1, <1>2, <1>3, StepMemory DEF MemoryMoves

(* Another worker cannot attach a Run to a held Job. *)
LEMMA OnlyTheHolderAttaches ==
  ASSUME RunInv, NEW w \in Workers, Holds(w), NEW v \in Workers, NEW r \in Runs,
         CreateAttachedRun(v, r), v # w
  PROVE  worker[v].job # worker[w].job /\ job'[worker[w].job] = job[worker[w].job]
<1>0. TypeOK
  BY DEF RunInv
<1>1. /\ worker[v].pc = "context" /\ job[worker[v].job].token = worker[v].token
      /\ \A i \in JobIds \ {worker[v].job} : job'[i] = job[i]
  BY <1>0, CreateWrites
<1>2. worker[v].job # worker[w].job
  BY <1>1, OneHolder
<1>3. worker[w].job \in JobIds
  BY <1>0 DEF Holds, TypeOK
<1> QED BY <1>1, <1>2, <1>3

(* The Run a holder remembers stays the Run of its Job. *)
LEMMA HolderStep == RunInv /\ StepKind => HolderKnowsTheRun'
<1> SUFFICES ASSUME RunInv, StepKind, NEW w \in Workers, Holds(w)', worker'[w].run # NoRun
             PROVE  job'[worker'[w].job].run = worker'[w].run
  BY DEF HolderKnowsTheRun
<1> DEFINE j == worker[w].job
<1>0. TypeOK
  BY DEF RunInv
<1>1. /\ Holds(w) /\ worker'[w].job = j
      /\ j \in JobIds /\ job[j].status \in WorkStatuses
      /\ worker[w].run # NoRun => job[j].run = worker[w].run
  BY <1>0, HoldersStay DEF Holds, TypeOK, RunInv, HolderKnowsTheRun
<1>2. worker'[w] # IdleWorker
  BY DEF IdleWorker, Holds
<1>3. ASSUME NEW r \in Runs, CreateAttachedRun(w, r)
      PROVE  job'[worker'[w].job].run = worker'[w].run
  BY <1>0, <1>3, CreateWrites
<1>4. ASSUME \A r \in Runs : ~CreateAttachedRun(w, r)
      PROVE  job'[worker'[w].job].run = worker'[w].run
  <2>1. worker'[w].run \in {worker[w].run, job[j].run}
    BY <1>2, <1>4, StepMemory DEF MemoryMoves
  <2>2. job'[j].run = job[j].run
    <3>1. CASE AttachmentsStay
      BY <1>1, <3>1 DEF AttachmentsStay
    <3>2. ASSUME NEW s \in Subs, Materialize(s)
          PROVE  job'[j].run = job[j].run
      <4>1. job[j].status # "absent"
        BY <1>1 DEF WorkStatuses
      <4> QED BY <1>1, <3>2, <4>1, MaterializeWrites
    <3>3. ASSUME NEW v \in Workers, NEW r \in Runs, CreateAttachedRun(v, r)
          PROVE  job'[j].run = job[j].run
      BY <1>1, <1>4, <3>3, OnlyTheHolderAttaches
    <3> QED BY <3>1, <3>2, <3>3, StepAttachments
  <2> HIDE DEF j
  <2> QED BY <1>1, <2>1, <2>2
<1> QED BY <1>3, <1>4

(* The Run of an attempt is not ended while its worker holds the Job. *)
LEMMA AttemptStep == RunInv /\ StepKind => AttemptHasARun'
<1> SUFFICES ASSUME RunInv, StepKind, NEW w \in Workers, worker'[w].pc = "attempt"
             PROVE  /\ worker'[w].run \in Runs
                    /\ Holds(w)' => run'[worker'[w].run] \in {"running", "ingesting", "succeeded"}
  BY DEF AttemptHasARun
<1> DEFINE j == worker[w].job
           r == worker[w].run
           Open == {"running", "ingesting", "succeeded"}
<1>0. TypeOK
  BY DEF RunInv
<1>1. ASSUME NEW q \in Runs, CreateAttachedRun(w, q)
      PROVE  worker'[w].run \in Runs /\ run'[worker'[w].run] \in Open
  BY <1>0, <1>1, CreateWrites
<1>2. ASSUME \A q \in Runs : ~CreateAttachedRun(w, q)
      PROVE  worker'[w].run \in Runs /\ (Holds(w)' => run'[worker'[w].run] \in Open)
  <2>1. worker'[w] = worker[w] /\ worker[w].pc = "attempt"
    BY <1>2, StepMemory DEF MemoryMoves, IdleWorker
  <2>2. r \in Runs /\ (Holds(w) => run[r] \in Open)
    BY <2>1 DEF RunInv, AttemptHasARun
  <2>3. ASSUME Holds(w)'
        PROVE  run'[r] \in Open
    <3>1. Holds(w)
      BY <2>1, <2>3, HoldersStay
    <3>2. /\ run[r] \in Open /\ j \in JobIds /\ r # NoRun /\ job[j].run = r
          /\ job[j].status \in WorkStatuses
      <4>1. r # NoRun
        BY <2>2, SchedulerAssumption DEF SchedulerAssumption
      <4> QED BY <1>0, <2>2, <3>1, <4>1 DEF Holds, TypeOK, RunInv, HolderKnowsTheRun
    <3>3. \A i \in JobIds : job[i].run = r => i = j
      BY <3>2 DEF RunInv, RunsAreOwn
    <3>4. UNCHANGED run => run'[r] \in Open
      BY <3>2
    <3>5. ASSUME NEW i \in JobIds, NEW status, Falls(i, status)
          PROVE  run'[r] \in Open
      <4>1. CASE i = j
        <5>1. job'[j].status \notin WorkStatuses
          BY <1>0, <4>1, <3>5 DEF Falls, Settles, RequeueStatuses, WaitingStatuses, WorkStatuses
        <5> QED BY <2>1, <2>3, <5>1 DEF Holds
      <4>2. CASE i # j
        <5>1. job[i].run # r
          BY <3>3, <4>2
        <5>2. CancelAttachedRun(i) => run'[r] = run[r]
          BY <1>0, <2>2, <5>1, CancelWrites
        <5> QED BY <3>2, <3>5, <5>2 DEF Falls
      <4> QED BY <4>1, <4>2
    <3>6. ASSUME NEW v \in Workers, NEW q \in Runs, CreateAttachedRun(v, q)
          PROVE  run'[r] \in Open
      <4>1. v # w
        BY <1>2, <3>6
      <4>2. worker[v].job # j
        BY <3>1, <3>6, <4>1, OnlyTheHolderAttaches
      <4>3. /\ worker[v].job \in JobIds /\ q \in FreshRuns
            /\ \A p \in Runs \ {q} :
                 \/ run'[p] = run[p]
                 \/ p = job[worker[v].job].run /\ run[p] \in OpenRuns /\ run'[p] = "cancelled"
        BY <1>0, <3>6, CreateWrites
      <4>4. r # q
        BY <4>3 DEF FreshRuns
      <4>5. job[worker[v].job].run # r
        BY <3>3, <4>2, <4>3
      <4> QED BY <2>2, <3>2, <4>3, <4>4, <4>5
    <3>7. ASSUME NEW v \in Workers, NEW to, WritesRun(v, to)
          PROVE  run'[r] \in Open
      <4>1. run' = [run EXCEPT ![worker[v].run] = to] /\ run \in [Runs -> RunStatuses]
        BY <1>0, <3>7 DEF WritesRun, TypeOK
      <4>2. CASE v = w
        <5>1. to \in {"ingesting", "succeeded"}
          BY <2>1, <3>7, <4>2 DEF WritesRun
        <5> QED BY <2>2, <4>1, <4>2, <5>1
      <4>3. CASE v # w
        <5>1. /\ worker[v].pc # "idle" /\ worker[v].job \in JobIds /\ worker[v].run \in Runs
              /\ job[worker[v].job].token = worker[v].token
              /\ Holds(v)
          BY <3>7 DEF WritesRun, Owns, Holds, WorkStatuses
        <5>2. worker[v].job # j
          BY <3>1, <4>3, <5>1, OneHolder
        <5>3. worker[v].run # NoRun
          BY <5>1, SchedulerAssumption DEF SchedulerAssumption
        <5>4. job[worker[v].job].run = worker[v].run
          BY <5>1, <5>3 DEF RunInv, HolderKnowsTheRun
        <5>5. worker[v].run # r
          BY <3>3, <5>1, <5>2, <5>4
        <5> QED BY <2>2, <3>2, <4>1, <5>5
      <4> QED BY <4>2, <4>3
    <3>8. ASSUME NEW s \in Subs, Materialize(s) \/ Remove(s)
          PROVE  UNCHANGED run
      BY <3>8 DEF Materialize, Remove
    <3>9. ASSUME NEW i \in JobIds, Succeeds(i) \/ MovesCoordinator(i)
          PROVE  UNCHANGED run
      BY <3>9 DEF Succeeds, MovesCoordinator, TakeCoordinator, LeaveCoordinator
    <3>10. ASSUME NEW v \in Workers,
                  \/ Start(v) \/ Remembers(v)
                  \/ \E i \in JobIds, t \in FreshTokens : \E requeued : Claim(v, i, requeued, t)
           PROVE  UNCHANGED run
      BY <3>10 DEF Start, Remembers, Rows, Claim
    <3>11. Resumes \/ IsQuiet => UNCHANGED run
      BY DEF Resumes, IsQuiet
    <3> HIDE DEF j, r, Open
    <3> QED BY <3>4, <3>5, <3>6, <3>7, <3>8, <3>9, <3>10, <3>11 DEF StepKind
  <2> QED BY <2>1, <2>2, <2>3
<1> QED BY <1>1, <1>2

--------------------------------------------------------------------------------
(* Job, Run and coordinator *)

(* One Job of RunTruthIsKept. *)
TruthKept(j) ==
  /\ RunSucceeded(j) => job[j].status \in {"running", "succeeded"}
  /\ RunConflict(j) => job[j].status \in {"running", "failed_terminal"}
  /\ job[j].status = "succeeded" => RunSucceeded(j)

(* A Job that keeps its Run keeps what that Run says, unless its handler speaks. *)
LEMMA TruthOfTheSameRun ==
  ASSUME RunInv, StepKind, NEW j \in JobIds, job'[j].run = job[j].run,
         \A w \in Workers : worker[w].run = job[j].run => \A to : ~WritesRun(w, to)
  PROVE  /\ RunSucceeded(j)' <=> RunSucceeded(j)
         /\ RunConflict(j)' <=> RunConflict(j)
<1>1. job[j].run \in Runs \cup {NoRun}
  BY DEF RunInv, TypeOK, JobRows
<1>2. ASSUME job[j].run \in Runs
      PROVE  /\ run[job[j].run] \in Truths => run'[job[j].run] = run[job[j].run]
             /\ run'[job[j].run] \in Truths => run'[job[j].run] = run[job[j].run]
  <2>1. job[j].run \notin FreshRuns
    BY DEF FreshRuns
  <2> QED BY <1>2, <2>1, StepTruth DEF TruthStays
<1> QED BY <1>1, <1>2 DEF RunSucceeded, RunConflict, RunOf, Truths

(* A step that leaves the status of a Job alone, or moves it between statuses    *)
(* that know no truth, keeps its truth.                                         *)
LEMMA TruthOfAQuietJob ==
  ASSUME RunInv, StepKind, NEW j \in JobIds, job'[j].run = job[j].run,
         \A w \in Workers : worker[w].run = job[j].run => \A to : ~WritesRun(w, to),
         \/ job'[j].status = job[j].status
         \/ /\ job[j].status \notin {"running", "succeeded", "failed_terminal"}
            /\ job'[j].status # "succeeded"
  PROVE  TruthKept(j)'
<1>1. TruthKept(j)
  BY DEF RunInv, RunTruthIsKept, TruthKept
<1> QED BY <1>1, TruthOfTheSameRun DEF TruthKept


(* No step makes a Job and its Run disagree, whichever transactions race. *)
LEMMA TruthStep == RunInv /\ StepKind => RunTruthIsKept'
<1> SUFFICES ASSUME RunInv, StepKind, NEW j \in JobIds
             PROVE  TruthKept(j)'
  BY DEF RunTruthIsKept, TruthKept
<1>0. TypeOK /\ TruthKept(j)
  BY DEF RunInv, RunTruthIsKept, TruthKept
<1>1. ASSUME NEW w \in Workers, NEW to, WritesRun(w, to)
      PROVE  TruthKept(j)'
  <2>1. /\ UNCHANGED job /\ worker[w].run \in Runs
        /\ run' = [run EXCEPT ![worker[w].run] = to] /\ run \in [Runs -> RunStatuses]
        /\ worker[w].job \in JobIds /\ job[worker[w].job].status = "running" /\ Holds(w)
    BY <1>0, <1>1 DEF WritesRun, Owns, Holds, WorkStatuses, TypeOK
  <2>2. worker[w].run # NoRun
    BY <2>1, SchedulerAssumption DEF SchedulerAssumption
  <2>3. CASE job[j].run = worker[w].run
    <3>1. job[worker[w].job].run = job[j].run
      BY <2>1, <2>2, <2>3 DEF RunInv, HolderKnowsTheRun
    <3>2. j = worker[w].job
      BY <2>1, <2>2, <2>3, <3>1 DEF RunInv, RunsAreOwn
    <3> QED BY <2>1, <3>2 DEF TruthKept
  <2>4. CASE job[j].run # worker[w].run
    <3>1. job[j].run \in Runs \cup {NoRun}
      BY <1>0 DEF TypeOK, JobRows
    <3>2. RunOf(j)' = RunOf(j)
      BY <2>1, <2>4, <3>1 DEF RunOf
    <3> QED BY <1>0, <2>1, <3>2 DEF TruthKept, RunSucceeded, RunConflict
  <2> QED BY <2>3, <2>4
<1>2. ASSUME \A w \in Workers : \A to : ~WritesRun(w, to)
      PROVE  TruthKept(j)'
  <2>1. ASSUME NEW s \in Subs, Materialize(s)
        PROVE  TruthKept(j)'
    <3>1. CASE j = <<s, sub[s].revision>>
      <4>1. job'[j].run = NoRun /\ job'[j].status = "queued"
        BY <2>1, <3>1, MaterializeWrites
      <4> QED BY <4>1 DEF TruthKept, RunSucceeded, RunConflict, RunOf
    <3>2. CASE j # <<s, sub[s].revision>>
      <4>1. job'[j] = job[j]
        BY <2>1, <3>2, MaterializeWrites
      <4> QED BY <1>2, <4>1, TruthOfAQuietJob
    <3> QED BY <3>1, <3>2
  <2>2. ASSUME NEW s \in Subs, Remove(s)
        PROVE  TruthKept(j)'
    <3>1. /\ job'[j].run = job[j].run
          /\ \/ job'[j].status = job[j].status
             \/ /\ job[j].status \in ActiveStatuses \ WorkStatuses
                /\ job'[j].status = "cancelled"
      BY <2>2, RemoveWrites
    <3>2. {"running", "succeeded", "failed_terminal"} \cap (ActiveStatuses \ WorkStatuses) = {}
      BY DEF ActiveStatuses, WorkStatuses, RequeueStatuses, WaitingStatuses
    <3> QED BY <1>2, <3>1, <3>2, TruthOfAQuietJob
  <2>3. ASSUME NEW i \in JobIds, Succeeds(i)
        PROVE  TruthKept(j)'
    <3>1. CASE i = j
      <4>1. RunSucceeded(j) /\ job'[j].status = "succeeded" /\ job'[j].run = job[j].run
        BY <2>3, <3>1 DEF Succeeds, Settles
      <4>2. RunSucceeded(j)'
        BY <1>2, <4>1, TruthOfTheSameRun
      <4> QED BY <4>1, <4>2 DEF TruthKept, RunSucceeded, RunConflict
    <3>2. CASE i # j
      <4>1. job'[j] = job[j]
        BY <2>3, <3>2 DEF Succeeds, Settles
      <4> QED BY <1>2, <4>1, TruthOfAQuietJob
    <3> QED BY <3>1, <3>2
  <2>4. ASSUME NEW i \in JobIds, NEW status, Falls(i, status)
        PROVE  TruthKept(j)'
    <3>1. CASE i = j
      <4>1. /\ ~RunSucceeded(j) /\ (RunConflict(j) => status = "failed_terminal")
            /\ job'[j].status = status /\ job'[j].run = job[j].run
            /\ status # "succeeded"
        BY <2>4, <3>1 DEF Falls, Settles, RequeueStatuses, WaitingStatuses
      <4>2. ~RunSucceeded(j)' /\ (RunConflict(j)' => RunConflict(j))
        BY <1>2, <4>1, TruthOfTheSameRun
      <4> QED BY <4>1, <4>2 DEF TruthKept
    <3>2. CASE i # j
      <4>1. job'[j] = job[j]
        BY <2>4, <3>2 DEF Falls, Settles
      <4> QED BY <1>2, <4>1, TruthOfAQuietJob
    <3> QED BY <3>1, <3>2
  <2>5. ASSUME NEW w \in Workers, NEW i \in JobIds, NEW t \in FreshTokens, NEW requeued,
               Claim(w, i, requeued, t)
        PROVE  TruthKept(j)'
    <3>1. /\ job'[j].run = job[j].run
          /\ \/ job'[j].status = job[j].status
             \/ /\ job[j].status \in {"queued"} \cup RequeueStatuses
                /\ job'[j].status \in {"claimed", "queued"}
      BY <1>0, <2>5, ClaimWrites
    <3>2. {"running", "succeeded", "failed_terminal"} \cap ({"queued"} \cup RequeueStatuses) = {}
      BY DEF RequeueStatuses
    <3> QED BY <1>2, <3>1, <3>2, TruthOfAQuietJob
  <2>6. ASSUME NEW w \in Workers, Start(w)
        PROVE  TruthKept(j)'
    <3>1. /\ job'[j].run = job[j].run
          /\ \/ job'[j].status = job[j].status
             \/ job[j].status = "claimed" /\ job'[j].status = "running"
      BY <1>0, <2>6, StartWrites
    <3> QED BY <1>2, <3>1, TruthOfAQuietJob
  <2>7. ASSUME NEW w \in Workers, NEW r \in Runs, CreateAttachedRun(w, r)
        PROVE  TruthKept(j)'
    <3>1. CASE j = worker[w].job
      <4>1. job'[j].status = "running"
        BY <1>0, <2>7, <3>1, CreateWrites
      <4> QED BY <4>1 DEF TruthKept
    <3>2. CASE j # worker[w].job
      <4>1. job'[j] = job[j]
        BY <1>0, <2>7, <3>2, CreateWrites
      <4> QED BY <1>2, <4>1, TruthOfAQuietJob
    <3> QED BY <3>1, <3>2
  <2>8. ASSUME \/ \E w \in Workers : Remembers(w)
               \/ \E i \in JobIds : MovesCoordinator(i)
        PROVE  TruthKept(j)'
    <3>1. job'[j] = job[j]
      BY <2>8 DEF Remembers, Rows, MovesCoordinator, TakeCoordinator, LeaveCoordinator
    <3> QED BY <1>2, <3>1, TruthOfAQuietJob
  <2>9. CASE Resumes \/ IsQuiet
    <3>1. /\ job'[j].run = job[j].run
          /\ \/ job'[j].status = job[j].status
             \/ job[j].status \in WaitingStatuses /\ job'[j].status = "queued"
      BY <2>9 DEF Resumes, IsQuiet
    <3>2. {"running", "succeeded", "failed_terminal"} \cap WaitingStatuses = {}
      BY DEF WaitingStatuses
    <3> QED BY <1>2, <3>1, <3>2, TruthOfAQuietJob
  <2> QED BY <1>2, <2>1, <2>2, <2>3, <2>4, <2>5, <2>6, <2>7, <2>8, <2>9 DEF StepKind
<1> QED BY <1>1, <1>2

(* The coordinator appears in the transaction that succeeds and never elsewhere. *)
LEMMA CoordinatorStep == RunInv /\ StepKind => CoordinatorPerSuccess'
<1> SUFFICES ASSUME RunInv, StepKind, NEW j \in JobIds
             PROVE  (coord'[j] # "none") <=> (job'[j].status = "succeeded")
  BY DEF CoordinatorPerSuccess
<1> DEFINE Agrees == (coord'[j] # "none") <=> (job'[j].status = "succeeded")
<1>0. TypeOK /\ ((coord[j] # "none") <=> (job[j].status = "succeeded"))
  BY DEF RunInv, CoordinatorPerSuccess
<1>1. ASSUME coord'[j] = coord[j],
             \/ job'[j].status = job[j].status
             \/ job[j].status # "succeeded" /\ job'[j].status # "succeeded"
      PROVE  Agrees
  BY <1>0, <1>1
<1>2. ASSUME NEW s \in Subs, Materialize(s)
      PROVE  Agrees
  BY <1>1, <1>2, MaterializeWrites
<1>3. ASSUME NEW s \in Subs, Remove(s)
      PROVE  Agrees
  <2>1. coord'[j] # "none" <=> coord[j] # "none"
    BY <1>3, RemoveWrites
  <2>2. \/ job'[j].status = job[j].status
        \/ job[j].status \in ActiveStatuses /\ job'[j].status = "cancelled"
    BY <1>3, RemoveWrites
  <2>3. "succeeded" \notin ActiveStatuses
    BY DEF ActiveStatuses, WorkStatuses, RequeueStatuses, WaitingStatuses
  <2> QED BY <1>0, <2>1, <2>2, <2>3
<1>4. ASSUME NEW i \in JobIds, Succeeds(i)
      PROVE  Agrees
  <2>1. coord \in [JobIds -> CoordStates] /\ coord' = [coord EXCEPT ![i] = "pending"]
    BY <1>0, <1>4 DEF TypeOK, Succeeds
  <2> QED BY <1>0, <1>4, <2>1 DEF Succeeds, Settles
<1>5. ASSUME NEW i \in JobIds, NEW status, Falls(i, status)
      PROVE  Agrees
  <2>1. "succeeded" \notin ActiveStatuses
    BY DEF ActiveStatuses, WorkStatuses, RequeueStatuses, WaitingStatuses
  <2>2. status # "succeeded"
    BY <1>5 DEF Falls, RequeueStatuses, WaitingStatuses
  <2> QED BY <1>1, <1>5, <2>1, <2>2 DEF Falls, Settles
<1>6. ASSUME NEW i \in JobIds, MovesCoordinator(i)
      PROVE  Agrees
  <2>1. /\ coord \in [JobIds -> CoordStates]
        /\ coord[i] # "none"
        /\ \E next \in {"pending", "running", "ended"} : coord' = [coord EXCEPT ![i] = next]
        /\ UNCHANGED job
    BY <1>0, <1>6 DEF TypeOK, MovesCoordinator, TakeCoordinator, LeaveCoordinator
  <2> QED BY <1>0, <2>1
<1>7. ASSUME NEW w \in Workers, NEW i \in JobIds, NEW t \in FreshTokens, NEW requeued,
             Claim(w, i, requeued, t)
      PROVE  Agrees
  <2>1. "succeeded" \notin {"queued"} \cup RequeueStatuses
    BY DEF RequeueStatuses
  <2>2. /\ UNCHANGED coord
        /\ \/ job'[j].status = job[j].status
           \/ /\ job[j].status \in {"queued"} \cup RequeueStatuses
              /\ job'[j].status \in {"claimed", "queued"}
    BY <1>0, <1>7, ClaimWrites
  <2> QED BY <1>1, <2>1, <2>2
<1>8. ASSUME NEW w \in Workers, \/ Start(w)
                              \/ \E r \in Runs : CreateAttachedRun(w, r)
      PROVE  Agrees
  <2>1. /\ UNCHANGED coord
        /\ \/ job'[j].status = job[j].status
           \/ job[j].status \in {"claimed", "running"} /\ job'[j].status = "running"
    BY <1>0, <1>8, StartWrites, CreateWrites
  <2> QED BY <1>1, <2>1
<1>9. ASSUME NEW w \in Workers, NEW to, Remembers(w) \/ WritesRun(w, to)
      PROVE  Agrees
  BY <1>1, <1>9 DEF Remembers, Rows, WritesRun
<1>10. ASSUME Resumes \/ IsQuiet
       PROVE  Agrees
  <2>1. "succeeded" \notin WaitingStatuses
    BY DEF WaitingStatuses
  <2> QED BY <1>1, <1>10, <2>1 DEF Resumes, IsQuiet
<1> HIDE DEF Agrees
<1>11. Agrees
  <2>1. ASSUME NEW w \in Workers,
               \/ Start(w) \/ Remembers(w)
               \/ \E r \in Runs : CreateAttachedRun(w, r)
               \/ \E to : WritesRun(w, to)
        PROVE  Agrees
    BY <1>8, <1>9, <2>1
  <2>2. ASSUME NEW i \in JobIds,
               Succeeds(i) \/ (\E status : Falls(i, status)) \/ MovesCoordinator(i)
        PROVE  Agrees
    BY <1>4, <1>5, <1>6, <2>2
  <2> QED BY <1>2, <1>3, <1>7, <1>10, <2>1, <2>2 DEF StepKind
<1> QED BY <1>11 DEF Agrees

--------------------------------------------------------------------------------
(* The inductive invariant holds *)

LEMMA RunInvStart == Init => RunInv
<1> SUFFICES ASSUME Init PROVE RunInv
  OBVIOUS
<1>1. TypeOK
  BY InitType
<1>2. /\ \A j \in JobIds : /\ job[j].status = "absent" /\ job[j].token = NoToken
                           /\ job[j].run = NoRun /\ coord[j] = "none"
      /\ \A w \in Workers : worker[w].pc = "idle"
  BY DEF Init, NoJobRow, IdleWorker
<1>3. TokensAreOwn /\ RunsAreOwn /\ FutureIsAbsent
  BY <1>2 DEF TokensAreOwn, RunsAreOwn, FutureIsAbsent
<1>4. HolderKnowsTheRun /\ AttemptHasARun /\ SuccessIsDurable
  BY <1>2 DEF HolderKnowsTheRun, AttemptHasARun, SuccessIsDurable, Holds
<1>5. RunTruthIsKept /\ CoordinatorPerSuccess
  BY <1>2 DEF RunTruthIsKept, CoordinatorPerSuccess, RunSucceeded, RunConflict, RunOf
<1> QED BY <1>1, <1>3, <1>4, <1>5 DEF RunInv

(* RunInv is inductive: no step of any process breaks one of its parts. *)
LEMMA RunInvStep == RunInv /\ [Next]_vars => RunInv'
<1> SUFFICES ASSUME RunInv, [Next]_vars PROVE RunInv'
  OBVIOUS
<1>1. TypeOK'
  BY StepType DEF RunInv
<1>2. CASE Next
  <2>1. StepKind
    BY <1>2, StepKinds
  <2> QED BY <1>1, <1>2, <2>1, TokensStep, RunsStep, FutureStep, HolderStep, AttemptStep,
             SuccessStep, TruthStep, CoordinatorStep DEF RunInv
<1>3. CASE UNCHANGED vars
  <2>1. /\ TokensAreOwn' /\ RunsAreOwn' /\ FutureIsAbsent'
        /\ HolderKnowsTheRun' /\ AttemptHasARun' /\ SuccessIsDurable'
    BY <1>3 DEF vars, RunInv, TokensAreOwn, RunsAreOwn, FutureIsAbsent, HolderKnowsTheRun,
                AttemptHasARun, SuccessIsDurable, Holds
  <2>2. RunTruthIsKept' /\ CoordinatorPerSuccess'
    BY <1>3 DEF vars, RunInv, RunTruthIsKept, CoordinatorPerSuccess, RunSucceeded, RunConflict,
                RunOf
  <2> QED BY <1>1, <2>1, <2>2 DEF RunInv
<1> QED BY <1>2, <1>3

(* For every number of workers, Jobs, Runs and lease tokens: the nine parts of  *)
(* RunInv hold together (new_uuid, start, _create_attached_run, succeed).       *)
THEOREM RunsAndJobsAgree == Spec => []RunInv
BY RunInvStart, RunInvStep, PTL DEF Spec

(* No crash, expired lease, failed heartbeat, cancel, removal or rejected       *)
(* result lets a Job end, wait or retry against the durable success or conflict *)
(* of its Run (_reconcile_succeeded_attachment,                                 *)
(* _reject_failure_for_succeeded_run).                                          *)
THEOREM TheTruthOfARunIsKept == Spec => []RunTruthIsKept
<1>1. RunInv => RunTruthIsKept
  BY DEF RunInv
<1> QED BY <1>1, RunsAndJobsAgree, PTL

(* The coordinator of the next stage exists for exactly the succeeded cycles,   *)
(* whether finalisation, reclaim or cancel completed the Job                    *)
(* (_enqueue_pipeline_for_succeeded_run).                                       *)
THEOREM OneCoordinatorPerSuccess == Spec => []CoordinatorPerSuccess
<1>1. RunInv => CoordinatorPerSuccess
  BY DEF RunInv
<1> QED BY <1>1, RunsAndJobsAgree, PTL

(* A worker in its attempt that still passes assert_owned works on the Run its  *)
(* Job is attached to, and no cancel, reclaim or second worker has ended it.    *)
THEOREM HoldersWorkOnTheirRun == Spec => []HolderRunIsItsOwn
<1>1. ASSUME RunInv, NEW w \in Workers, worker[w].pc = "attempt", Owns(w, {"running"})
      PROVE  /\ job[worker[w].job].run = worker[w].run
             /\ run[worker[w].run] \in {"running", "ingesting", "succeeded"}
  <2>1. Holds(w)
    BY <1>1 DEF Owns, Holds, WorkStatuses
  <2>2. worker[w].run \in Runs /\ worker[w].run # NoRun
    BY <1>1, SchedulerAssumption DEF RunInv, AttemptHasARun, SchedulerAssumption
  <2> QED BY <1>1, <2>1, <2>2 DEF RunInv, HolderKnowsTheRun, AttemptHasARun
<1>2. RunInv => HolderRunIsItsOwn
  BY <1>1 DEF HolderRunIsItsOwn
<1> QED BY <1>2, RunsAndJobsAgree, PTL

--------------------------------------------------------------------------------
(* The transition table *)

(* Each kind of step moves a Job along the declared table. *)
LEMMA TransitionStep ==
  ASSUME RunInv, StepKind, NEW j \in JobIds
  PROVE  \/ job'[j].status = job[j].status
         \/ <<job[j].status, job'[j].status>> \in JobTransitions
         \/ job[j].status \in RequeueStatuses /\ job'[j].status = "claimed"
<1> DEFINE Follows == \/ job'[j].status = job[j].status
                      \/ <<job[j].status, job'[j].status>> \in JobTransitions
                      \/ job[j].status \in RequeueStatuses /\ job'[j].status = "claimed"
<1>0. TypeOK
  BY DEF RunInv
<1>1. /\ <<"absent", "queued">> \in JobTransitions
      /\ <<"queued", "claimed">> \in JobTransitions
      /\ <<"claimed", "running">> \in JobTransitions
      /\ <<"running", "succeeded">> \in JobTransitions
      /\ \A from \in RequeueStatuses \cup WaitingStatuses : <<from, "queued">> \in JobTransitions
  BY DEF JobTransitions, RequeueStatuses, WaitingStatuses, TerminalStatuses
<1>2. \A from \in ActiveStatuses \ WorkStatuses : <<from, "cancelled">> \in JobTransitions
  BY DEF JobTransitions, ActiveStatuses, WorkStatuses, RequeueStatuses, WaitingStatuses
<1>3. ASSUME NEW s \in Subs, Materialize(s)
      PROVE  Follows
  BY <1>1, <1>3, MaterializeWrites
<1>4. ASSUME NEW s \in Subs, Remove(s)
      PROVE  Follows
  <2>1. \/ job'[j] = job[j]
        \/ job[j].status \in ActiveStatuses \ WorkStatuses /\ job'[j].status = "cancelled"
    BY <1>4, RemoveWrites
  <2> QED BY <1>2, <2>1
<1>5. ASSUME NEW i \in JobIds, Succeeds(i)
      PROVE  Follows
  BY <1>1, <1>5 DEF Succeeds, Settles
<1>6. ASSUME NEW i \in JobIds, NEW status, Falls(i, status)
      PROVE  Follows
  BY <1>6 DEF Falls, Settles
<1>7. ASSUME NEW w \in Workers, NEW i \in JobIds, NEW t \in FreshTokens, NEW requeued,
             Claim(w, i, requeued, t)
      PROVE  Follows
  BY <1>0, <1>1, <1>7, ClaimWrites
<1>8. ASSUME NEW w \in Workers, Start(w)
      PROVE  Follows
  BY <1>0, <1>1, <1>8, StartWrites
<1>9. ASSUME NEW w \in Workers, NEW r \in Runs, CreateAttachedRun(w, r)
      PROVE  Follows
  BY <1>0, <1>9, CreateWrites
<1>10. ASSUME Resumes \/ IsQuiet
       PROVE  Follows
  BY <1>1, <1>10 DEF Resumes, IsQuiet
<1>11. ASSUME UNCHANGED job
       PROVE  Follows
  BY <1>11
<1> HIDE DEF Follows
<1>12. (\/ \E i \in JobIds : MovesCoordinator(i)
        \/ \E w \in Workers : Remembers(w) \/ \E to : WritesRun(w, to)) => Follows
  BY <1>11 DEF MovesCoordinator, TakeCoordinator, LeaveCoordinator, Remembers, WritesRun, Rows
<1>13. Follows
  BY <1>3, <1>4, <1>5, <1>6, <1>7, <1>8, <1>9, <1>10, <1>12 DEF StepKind
<1> QED BY <1>13 DEF Follows

(* For every number of workers and Jobs: the scheduler's SQL, which never calls *)
(* transition_job, moves a Job only along domain/transitions.py.                *)
THEOREM JobsFollowTheTransitionTable == Spec => JobFollowsTransitionTable
<1>1. RunInv /\ [Next]_vars
        => [\A j \in JobIds :
              \/ job'[j].status = job[j].status
              \/ <<job[j].status, job'[j].status>> \in JobTransitions
              \/ job[j].status \in RequeueStatuses /\ job'[j].status = "claimed"]_vars
  <2>1. CASE UNCHANGED vars
    BY <2>1
  <2>2. ASSUME RunInv, Next, NEW j \in JobIds
        PROVE  \/ job'[j].status = job[j].status
               \/ <<job[j].status, job'[j].status>> \in JobTransitions
               \/ job[j].status \in RequeueStatuses /\ job'[j].status = "claimed"
    BY <2>2, StepKinds, TransitionStep
  <2> QED BY <2>1, <2>2
<1> QED BY <1>1, RunsAndJobsAgree, PTL DEF Spec, JobFollowsTransitionTable

--------------------------------------------------------------------------------
(* The probe of a half-open lane *)

(* A Job that stops being active is the probe of neither of its lanes any more. *)
LEMMA EndedJobsProbeNothing ==
  ASSUME RunInv, StepKind, NEW j \in JobIds, NEW l \in LanesOf(j),
         job[j].status \in ActiveStatuses, Probing(lane[l], j), Probing(lane'[l], j)
  PROVE  job'[j].status \in ActiveStatuses
<1> DEFINE StaysActive == job'[j].status \in ActiveStatuses
<1>0. /\ TypeOK
      /\ l \in LaneIds /\ lane[l] \in LaneRows(JobIds, Policies)
      /\ {"queued", "claimed", "running"} \subseteq ActiveStatuses
      /\ RequeueStatuses \cup WaitingStatuses \subseteq ActiveStatuses
  BY JobIsOfSub DEF RunInv, TypeOK, ActiveStatuses, WorkStatuses
<1>1. ASSUME job'[j].status = job[j].status
      PROVE  StaysActive
  BY <1>1
<1>2. ASSUME NEW s \in Subs, Materialize(s)
      PROVE  StaysActive
  BY <1>0, <1>1, <1>2, MaterializeWrites
<1>3. ASSUME NEW s \in Subs, Remove(s)
      PROVE  StaysActive
  <2>1. lane[l].probe = j
    BY DEF Probing
  <2>2. CASE j \in ActiveJobs(s)
    <3>1. lane'[l] = ReleaseProbe(lane[l], j)
      BY <1>0, <1>3, <2>1, <2>2, RemoveWrites
    <3>2. \A n : ~Probing(Close(lane[l], n), j)
      BY <1>0, OnlyReserveProbes
    <3> QED BY <3>1, <3>2 DEF ReleaseProbe
  <2>3. CASE j \notin ActiveJobs(s)
    BY <1>1, <1>3, <2>3, RemoveWrites
  <2> QED BY <2>2, <2>3
<1>4. ASSUME NEW i \in JobIds, Succeeds(i)
      PROVE  StaysActive
  <2>1. i # j
    BY <1>4 DEF Succeeds
  <2> QED BY <1>1, <1>4, <2>1 DEF Succeeds, Settles
<1>5. ASSUME NEW i \in JobIds, NEW status, Falls(i, status)
      PROVE  StaysActive
  <2>1. CASE i # j
    BY <1>1, <1>5, <2>1 DEF Falls, Settles
  <2>2. CASE i = j
    <3>1. status \notin TerminalStatuses
      BY <1>5, <2>2 DEF Falls
    <3>2. job'[j].status = status /\ status \in RequeueStatuses \cup WaitingStatuses
      BY <1>5, <2>2, <3>1 DEF Falls, Settles, TerminalStatuses
    <3> QED BY <1>0, <3>2
  <2> QED BY <2>1, <2>2
<1>6. ASSUME NEW w \in Workers, NEW i \in JobIds, NEW t \in FreshTokens, NEW requeued,
             Claim(w, i, requeued, t)
      PROVE  StaysActive
  BY <1>0, <1>1, <1>6, ClaimWrites
<1>7. ASSUME NEW w \in Workers, Start(w)
      PROVE  StaysActive
  BY <1>0, <1>1, <1>7, StartWrites
<1>8. ASSUME NEW w \in Workers, NEW r \in Runs, CreateAttachedRun(w, r)
      PROVE  StaysActive
  BY <1>0, <1>1, <1>8, CreateWrites
<1>9. ASSUME Resumes \/ IsQuiet
      PROVE  StaysActive
  BY <1>0, <1>1, <1>9 DEF Resumes, IsQuiet
<1>10. ASSUME UNCHANGED job
       PROVE  StaysActive
  BY <1>1, <1>10
<1> HIDE DEF StaysActive
<1>11. (\/ \E i \in JobIds : MovesCoordinator(i)
        \/ \E w \in Workers : Remembers(w) \/ \E to : WritesRun(w, to)) => StaysActive
  BY <1>10 DEF MovesCoordinator, TakeCoordinator, LeaveCoordinator, Remembers, WritesRun, Rows
<1>12. StaysActive
  BY <1>2, <1>3, <1>4, <1>5, <1>6, <1>7, <1>8, <1>9, <1>11 DEF StepKind
<1> QED BY <1>12 DEF StaysActive

(* A claim makes its Job, which is active, the probe of the lanes it reserves;  *)
(* every other step only keeps or gives back probes.                            *)
LEMMA ProbeStep == RunInv /\ ProbeCanReport /\ [Next]_vars => ProbeCanReport'
<1> SUFFICES ASSUME RunInv, ProbeCanReport, [Next]_vars,
                    NEW l \in LaneIds, lane'[l].circuit = "half_open"
             PROVE  /\ lane'[l].probe \in JobIds
                    /\ l \in LanesOf(lane'[l].probe)
                    /\ job'[lane'[l].probe].status \in ActiveStatuses
  BY DEF ProbeCanReport
<1>0. TypeOK
  BY DEF RunInv
<1> DEFINE p == lane'[l].probe
<1>1. Probing(lane'[l], p)
  BY DEF Probing
<1>2. CASE UNCHANGED vars
  BY <1>2 DEF vars, ProbeCanReport
<1>3. CASE NoNewProbes /\ Next
  <2>1. Probing(lane[l], p)
    BY <1>1, <1>3 DEF NoNewProbes, GainsNoProbe
  <2>2. p \in JobIds /\ l \in LanesOf(p) /\ job[p].status \in ActiveStatuses
    BY <2>1 DEF Probing, ProbeCanReport
  <2>3. StepKind
    BY <1>3, StepKinds
  <2> HIDE DEF p
  <2>4. job'[p].status \in ActiveStatuses
    BY <1>1, <2>1, <2>2, <2>3, EndedJobsProbeNothing
  <2> QED BY <2>2, <2>4 DEF p
<1>4. ASSUME NEW w \in Workers, NEW j \in JobIds, NEW t, NEW requeued, Claim(w, j, requeued, t)
      PROVE  p \in JobIds /\ l \in LanesOf(p) /\ job'[p].status \in ActiveStatuses
  <2>1. /\ {"queued", "claimed"} \subseteq ActiveStatuses
        /\ job'[j].status = "claimed"
        /\ \A i \in JobIds \ {j} :
             job'[i].status = job[i].status \/ job'[i].status = "queued"
    BY <1>0, <1>4, ClaimWrites DEF ActiveStatuses, WorkStatuses
  <2>2. CASE l \in LanesOf(j)
    <3>1. p = j
      BY <1>0, <1>1, <1>4, <2>2, ClaimedLanesAreOwn
    <3> QED BY <2>1, <2>2, <3>1
  <2>3. CASE l \notin LanesOf(j)
    <3>1. lane'[l] = lane[l]
      BY <1>0, <1>4, <2>3, ClaimedLanesAreOwn
    <3>2. p \in JobIds /\ l \in LanesOf(p) /\ job[p].status \in ActiveStatuses
      BY <3>1 DEF ProbeCanReport
    <3> QED BY <2>1, <3>2
  <2> QED BY <2>2, <2>3
<1> QED BY <1>0, <1>2, <1>3, <1>4, SchedulerAddsNoProbe, WorkerAddsNoProbe, OperatorAddsNoProbe,
           EnvironmentAddsNoProbe DEF Next

(* A half-open lane always waits for a Job that exists, runs under that lane    *)
(* and has not ended, so its verdict can still come: every transaction that     *)
(* ends a Job gives its probe back in both lanes (_release_lane_probe,          *)
(* _apply_lane_success, _apply_lane_failure).                                   *)
THEOREM ProbesCanReport == Spec => []ProbeCanReport
<1>1. Init => ProbeCanReport
  BY DEF Init, ProbeCanReport, FreshLane
<1> QED BY <1>1, ProbeStep, RunsAndJobsAgree, PTL DEF Spec

--------------------------------------------------------------------------------
(* Admission *)

(* How many Jobs are leased at once, in a set that stays finite however many    *)
(* subscriptions there are.                                                     *)
LeasesWithinCapacity == IsFiniteSet(Leased) /\ Cardinality(Leased) <= Capacity

(* One more element at the most. *)
LEMMA OneMore ==
  ASSUME NEW S, NEW T, NEW x, IsFiniteSet(S), T \subseteq S \cup {x}
  PROVE  IsFiniteSet(T) /\ Cardinality(T) <= Cardinality(S) + 1
<1>1. /\ IsFiniteSet(S \cup {x})
      /\ Cardinality(S \cup {x}) \in {Cardinality(S), Cardinality(S) + 1}
  BY FS_AddElement
<1>2. Cardinality(S) \in Nat
  BY FS_CardinalityType
<1>3. IsFiniteSet(T) /\ Cardinality(T) <= Cardinality(S \cup {x})
  BY <1>1, FS_Subset
<1>4. Cardinality(T) \in Nat
  BY <1>3, FS_CardinalityType
<1> QED BY <1>1, <1>2, <1>3, <1>4

(* A claim leases its own Job and no other. *)
LEMMA ClaimLeasesOne ==
  ASSUME TypeOK, NEW w \in Workers, NEW j \in JobIds, NEW t, NEW requeued,
         Claim(w, j, requeued, t)
  PROVE  Leased' \subseteq Leased \cup {j}
<1>1. "queued" \notin WorkStatuses
  BY DEF WorkStatuses
<1> QED BY <1>1, ClaimWrites DEF Leased

LEMMA CapacityStep == RunInv /\ LeasesWithinCapacity /\ [Next]_vars => LeasesWithinCapacity'
<1> SUFFICES ASSUME RunInv, LeasesWithinCapacity, [Next]_vars
             PROVE  LeasesWithinCapacity'
  OBVIOUS
<1>0. TypeOK /\ Cardinality(Leased) \in Nat /\ Capacity \in Nat
  BY FS_CardinalityType, SchedulerAssumption
  DEF RunInv, LeasesWithinCapacity, SchedulerAssumption
<1>1. CASE Leased' \subseteq Leased
  <2>1. IsFiniteSet(Leased') /\ Cardinality(Leased') <= Cardinality(Leased)
    BY <1>1, FS_Subset DEF LeasesWithinCapacity
  <2>2. Cardinality(Leased') \in Nat
    BY <2>1, FS_CardinalityType
  <2> QED BY <1>0, <2>1, <2>2 DEF LeasesWithinCapacity
<1>2. ASSUME NEW w \in Workers, NEW j \in JobIds, NEW t, NEW requeued, Claim(w, j, requeued, t)
      PROVE  LeasesWithinCapacity'
  <2>1. Cardinality(Leased) < Capacity
    BY <1>2 DEF Claim, Claimable
  <2>2. IsFiniteSet(Leased') /\ Cardinality(Leased') <= Cardinality(Leased) + 1
    BY <1>0, <1>2, ClaimLeasesOne, OneMore DEF LeasesWithinCapacity
  <2>3. Cardinality(Leased') \in Nat
    BY <2>2, FS_CardinalityType
  <2> QED BY <1>0, <2>1, <2>2, <2>3 DEF LeasesWithinCapacity
<1>3. CASE UNCHANGED vars
  BY <1>1, <1>3 DEF vars, Leased
<1>4. CASE Next
  <2>1. NothingLeased => Leased' \subseteq Leased
    BY DEF NothingLeased, Leased
  <2> QED BY <1>1, <1>2, <1>4, <2>1, StepKinds, StepLeases
<1> QED BY <1>3, <1>4

(* For every number of workers and subscriptions: at most as many Jobs are      *)
(* leased at a time as the global capacity allows, because every claim counts   *)
(* the leases in its own transaction (_claim_eligible).                         *)
THEOREM CapacityIsKept == Spec => []LeasesWithinCapacity
<1>1. Init => LeasesWithinCapacity
  <2>1. Init => Leased = {}
    BY DEF Init, Leased, NoJobRow, WorkStatuses
  <2> QED BY <2>1, FS_EmptySet, SchedulerAssumption
          DEF LeasesWithinCapacity, SchedulerAssumption
<1> QED BY <1>1, CapacityStep, RunsAndJobsAgree, PTL DEF Spec

(* What a claim asks of a lane, and what it leaves there. *)
AdmittedBy(l, j) ==
  /\ ActiveIn(l)' <= lane[l].policy.limit
  /\ lane[l].circuit = "open" => lane[l].cooled
  /\ lane[l].circuit = "half_open" => lane[l].probe = j
  /\ lane'[l].circuit = "closed" \/ Probing(lane'[l], j)

(* A claim has admission of both lanes. *)
LEMMA ClaimedLanesAdmit ==
  ASSUME RunInv, ProbeCanReport, LeasesWithinCapacity,
         NEW w \in Workers, NEW j \in JobIds, NEW t, NEW requeued, Claim(w, j, requeued, t),
         NEW l \in LanesOf(j)
  PROVE  AdmittedBy(l, j)
<1>0. TypeOK /\ l \in LaneIds /\ lane[l] \in LaneRows(JobIds, Policies)
  BY JobIsOfSub DEF RunInv, TypeOK
<1>1. Allows(lane[l], j, ActiveIn(l))
  BY DEF Claim, Claimable
<1>2. ActiveIn(l)' <= lane[l].policy.limit
  <2> DEFINE here == {i \in Leased : l \in LanesOf(i)}
  <2>1. IsFiniteSet(here)
    BY FS_Subset DEF LeasesWithinCapacity
  <2>2. {i \in Leased' : l \in LanesOf(i)} \subseteq here \cup {j}
    BY <1>0, ClaimLeasesOne
  <2>3. ActiveIn(l)' = Cardinality({i \in Leased' : l \in LanesOf(i)})
        /\ ActiveIn(l) = Cardinality(here)
    BY DEF ActiveIn
  <2> HIDE DEF here
  <2>4. IsFiniteSet({i \in Leased' : l \in LanesOf(i)}) /\ ActiveIn(l)' <= ActiveIn(l) + 1
    BY <2>1, <2>2, <2>3, OneMore
  <2>5. ActiveIn(l) \in Nat /\ ActiveIn(l)' \in Nat
    BY <2>1, <2>3, <2>4, FS_CardinalityType
  <2>6. lane[l].policy.limit \in Nat /\ ActiveIn(l) < lane[l].policy.limit
    BY <1>0, <1>1, SchedulerAssumption DEF Allows, LaneRows, SchedulerAssumption
  <2> QED BY <2>4, <2>5, <2>6
<1>3. lane[l].circuit = "open" => lane[l].cooled
  BY <1>1 DEF Allows
<1>4. lane[l].circuit = "half_open" => lane[l].probe = j
  BY <1>0, <1>1, SchedulerAssumption DEF Allows, ProbeCanReport, SchedulerAssumption
<1>5. lane'[l].circuit = "closed" \/ Probing(lane'[l], j)
  <2>1. lane'[l] = Reserve(lane[l], j)
    BY <1>0 DEF Claim, SetLanes
  <2> QED BY <1>0, <2>1 DEF Reserve, Probing, LaneRows
<1> QED BY <1>2, <1>3, <1>4, <1>5 DEF AdmittedBy

(* For every number of lanes, policies and Jobs: a Job is leased only while     *)
(* both of its lanes admit it, counted with the lease itself, and a lane that   *)
(* is not closed has just made it its probe (_lane_allows, _reserve_lane).      *)
THEOREM LanesAdmit == Spec => LaneAdmission
<1>1. ASSUME RunInv, ProbeCanReport, LeasesWithinCapacity, Next, NEW j \in JobIds,
             job[j].status \notin WorkStatuses, job'[j].status \in WorkStatuses,
             NEW l \in LanesOf(j)
      PROVE  AdmittedBy(l, j)
  <2>1. ~NothingLeased
    BY <1>1 DEF NothingLeased
  <2>2. PICK w \in Workers, i \in JobIds, t \in FreshTokens :
          \E requeued : Claim(w, i, requeued, t)
    BY <1>1, <2>1, StepKinds, StepLeases
  <2>3. i = j
    <3>1. TypeOK /\ "queued" \notin WorkStatuses
      BY <1>1 DEF RunInv, WorkStatuses
    <3> QED BY <1>1, <2>2, <3>1, ClaimWrites
  <2> QED BY <1>1, <2>2, <2>3, ClaimedLanesAdmit
<1>2. RunInv /\ ProbeCanReport /\ LeasesWithinCapacity /\ [Next]_vars
        => [\A j \in JobIds :
              job[j].status \notin WorkStatuses /\ job'[j].status \in WorkStatuses
                => \A l \in LanesOf(j) :
                     /\ ActiveIn(l)' <= lane[l].policy.limit
                     /\ lane[l].circuit = "open" => lane[l].cooled
                     /\ lane[l].circuit = "half_open" => lane[l].probe = j
                     /\ lane'[l].circuit = "closed" \/ Probing(lane'[l], j)]_vars
  BY <1>1 DEF AdmittedBy
<1> QED BY <1>2, RunsAndJobsAgree, ProbesCanReport, CapacityIsKept, PTL DEF Spec, LaneAdmission

--------------------------------------------------------------------------------
(* The ledger *)

VerdictOf(j)  == Verdict(job[j].status)
DeliveryOf(j) == Delivery(coord[j])

(* The verdict a status stands for. *)
LEMMA VerdictValues ==
  /\ Verdict("absent") = "none" /\ Verdict("succeeded") = "succeeded"
  /\ Verdict("failed_terminal") = "failed" /\ Verdict("cancelled") = "cancelled"
  /\ \A status \in ActiveStatuses : Verdict(status) = "open"
  /\ \A status \in JobStatuses : Verdict(status) = "open" => status \in ActiveStatuses
BY DEF Verdict, JobStatuses, ActiveStatuses, WorkStatuses, RequeueStatuses, WaitingStatuses,
       TerminalStatuses

(* The delivery a coordinator's state stands for. *)
LEMMA DeliveryValues ==
  /\ Delivery("none") = "none" /\ Delivery("ended") = "over"
  /\ Delivery("pending") = "owed" /\ Delivery("running") = "owed"
BY DEF Delivery

(* A step that moves no revision, verdict or delivery stutters. *)
LEMMA LedgerStutters ==
  ASSUME RevisionsStay,
         \A j \in JobIds : VerdictOf(j)' = VerdictOf(j) /\ DeliveryOf(j)' = DeliveryOf(j)
  PROVE  UNCHANGED Ledger!ledger
<1>1. [s \in Subs |-> sub'[s].revision] = [s \in Subs |-> sub[s].revision]
  BY DEF RevisionsStay
<1>2. /\ [j \in JobIds |-> Verdict(job'[j].status)] = [j \in JobIds |-> Verdict(job[j].status)]
      /\ [j \in JobIds |-> Delivery(coord'[j])] = [j \in JobIds |-> Delivery(coord[j])]
  BY DEF VerdictOf, DeliveryOf
<1> QED BY <1>1, <1>2 DEF Ledger!ledger

(* A step that gives one open cycle its verdict is a Judge. *)
LEMMA LedgerJudges ==
  ASSUME RevisionsStay, NEW c \in JobIds, NEW v \in {"succeeded", "failed", "cancelled"},
         VerdictOf(c) = "open", VerdictOf(c)' = v,
         DeliveryOf(c)' = IF v = "succeeded" THEN "owed" ELSE DeliveryOf(c),
         \A j \in JobIds \ {c} : VerdictOf(j)' = VerdictOf(j) /\ DeliveryOf(j)' = DeliveryOf(j)
  PROVE  Ledger!Next
<1>1. [s \in Subs |-> sub'[s].revision] = [s \in Subs |-> sub[s].revision]
  BY DEF RevisionsStay
<1>2. [j \in JobIds |-> Verdict(job'[j].status)]
        = [[j \in JobIds |-> Verdict(job[j].status)] EXCEPT ![c] = v]
  BY DEF VerdictOf
<1>3. [j \in JobIds |-> Delivery(coord'[j])]
        = IF v = "succeeded" THEN [[j \in JobIds |-> Delivery(coord[j])] EXCEPT ![c] = "owed"]
                             ELSE [j \in JobIds |-> Delivery(coord[j])]
  BY DEF DeliveryOf
<1>4. Ledger!Judge(c, v)
  BY <1>1, <1>2, <1>3 DEF Ledger!Judge, VerdictOf
<1> QED BY <1>4 DEF Ledger!Next, Ledger!Cycles, Ledger!Verdicts, JobIds

(* A step that ends owed deliveries, and perhaps cancels one open cycle, is a   *)
(* Deliver.                                                                     *)
LEMMA LedgerDelivers ==
  ASSUME RevisionsStay, NEW done \in SUBSET JobIds,
         \A j \in done : DeliveryOf(j) = "owed",
         \A j \in JobIds : DeliveryOf(j)' = IF j \in done THEN "over" ELSE DeliveryOf(j),
         \/ \A j \in JobIds : VerdictOf(j)' = VerdictOf(j)
         \/ \E c \in JobIds : /\ VerdictOf(c) = "open" /\ VerdictOf(c)' = "cancelled"
                              /\ \A j \in JobIds \ {c} : VerdictOf(j)' = VerdictOf(j)
  PROVE  Ledger!Next
<1>1. [s \in Subs |-> sub'[s].revision] = [s \in Subs |-> sub[s].revision]
  BY DEF RevisionsStay
<1>2. [j \in JobIds |-> Delivery(coord'[j])]
        = [j \in JobIds |-> IF j \in done THEN "over" ELSE [i \in JobIds |-> Delivery(coord[i])][j]]
  BY DEF DeliveryOf
<1>3. \/ [j \in JobIds |-> Verdict(job'[j].status)] = [j \in JobIds |-> Verdict(job[j].status)]
      \/ \E c \in JobIds :
           /\ [j \in JobIds |-> Verdict(job[j].status)][c] = "open"
           /\ [j \in JobIds |-> Verdict(job'[j].status)]
                = [[j \in JobIds |-> Verdict(job[j].status)] EXCEPT ![c] = "cancelled"]
  BY DEF VerdictOf
<1>4. \A j \in done : [i \in JobIds |-> Delivery(coord[i])][j] = "owed"
  BY DEF DeliveryOf
<1>5. Ledger!Deliver(done)
  BY <1>1, <1>2, <1>3, <1>4 DEF Ledger!Deliver, Ledger!Cycles, JobIds
<1> QED BY <1>5 DEF Ledger!Next, Ledger!Cycles, JobIds

(* A materialisation opens the cycle its revision names. *)
LEMMA MaterializeOpens ==
  ASSUME RunInv, NEW s \in Subs, Materialize(s)
  PROVE  Ledger!Next
<1> DEFINE opened == <<s, sub[s].revision>>
<1>0. TypeOK
  BY DEF RunInv
<1>1. opened \in JobIds /\ \A j \in JobIds \ {opened} : job'[j] = job[j]
  BY <1>0, MaterializedRows
<1>2. job'[opened].status = "queued" /\ UNCHANGED coord
  BY MaterializeWrites
<1>3. sub[s].revision < MaxRevision
  BY DEF Materialize
<1>4. ASSUME NEW c \in JobIds, c[1] = s
      PROVE  Verdict(job[c].status) # "open"
  <2>1. job[c].status \in JobStatuses \ ActiveStatuses
    BY <1>0, <1>4 DEF Materialize, ActiveJobs, SubOf, TypeOK, JobRows
  <2> QED BY <2>1, VerdictValues
<1>5. [r \in Subs |-> sub'[r].revision]
        = [[r \in Subs |-> sub[r].revision] EXCEPT ![s] = sub[s].revision + 1]
  <2>1. \A r \in Subs : sub'[r].revision = IF r = s THEN sub[s].revision + 1 ELSE sub[r].revision
    BY <1>0 DEF Materialize, TypeOK, SubRows
  <2> QED BY <2>1
<1>6. [j \in JobIds |-> Verdict(job'[j].status)]
        = [[j \in JobIds |-> Verdict(job[j].status)] EXCEPT ![opened] = "open"]
  <2>1. Verdict(job'[opened].status) = "open"
    BY <1>2, VerdictValues DEF ActiveStatuses
  <2> HIDE DEF opened
  <2> QED BY <1>1, <2>1
<1>7. [j \in JobIds |-> Delivery(coord'[j])] = [j \in JobIds |-> Delivery(coord[j])]
  BY <1>2
<1>8. [r \in Subs |-> sub[r].revision][s] = sub[s].revision
  OBVIOUS
<1>9. \A c \in JobIds : c[1] = s => [j \in JobIds |-> Verdict(job[j].status)][c] # "open"
  BY <1>4
<1>10. Ledger!Open(s)
  BY <1>3, <1>5, <1>6, <1>7, <1>8, <1>9 DEF Ledger!Open, Ledger!Cycles, JobIds
<1> QED BY <1>10 DEF Ledger!Next

(* A removal cancels the dormant cycle of the subscription, which is at most    *)
(* one, and ends its pending deliveries.                                        *)
LEMMA RemoveDelivers ==
  ASSUME RunInv, ActiveCycleIsCurrent, NEW s \in Subs, Remove(s)
  PROVE  Ledger!Next
<1> DEFINE done == {j \in JobIds : SubOf(j) = s /\ coord[j] = "pending"}
<1>0. TypeOK
  BY DEF RunInv
<1>1. \A j \in done : DeliveryOf(j) = "owed"
  BY DeliveryValues DEF DeliveryOf
<1>2. \A j \in JobIds : DeliveryOf(j)' = IF j \in done THEN "over" ELSE DeliveryOf(j)
  BY RemoveWrites, DeliveryValues DEF DeliveryOf
<1>3. \A j \in JobIds : \/ job'[j] = job[j]
                        \/ j \in ActiveJobs(s) /\ job'[j].status = "cancelled"
  BY RemoveWrites
<1>4. CASE ActiveJobs(s) = {}
  <2>1. \A j \in JobIds : VerdictOf(j)' = VerdictOf(j)
    BY <1>3, <1>4 DEF VerdictOf
  <2>2. RevisionsStay
    BY RemoveWrites
  <2> HIDE DEF done
  <2>3. done \in SUBSET JobIds
    BY DEF done
  <2> QED BY <1>1, <1>2, <2>1, <2>2, <2>3, LedgerDelivers
<1>5. ASSUME NEW c \in ActiveJobs(s)
      PROVE  Ledger!Next
  <2>1. c \in JobIds /\ job[c].status \in ActiveStatuses /\ ActiveJobs(s) = {c}
    BY DEF ActiveCycleIsCurrent, ActiveJobs
  <2>2. VerdictOf(c) = "open" /\ VerdictOf(c)' = "cancelled"
    <3>1. job'[c].status = "cancelled"
      BY RemoveWrites
    <3> QED BY <2>1, <3>1, VerdictValues DEF VerdictOf
  <2>3. \A j \in JobIds \ {c} : VerdictOf(j)' = VerdictOf(j)
    BY <1>3, <2>1 DEF VerdictOf
  <2>4. RevisionsStay
    BY RemoveWrites
  <2> HIDE DEF done
  <2>5. done \in SUBSET JobIds
    BY DEF done
  <2> QED BY <1>1, <1>2, <2>1, <2>2, <2>3, <2>4, <2>5, LedgerDelivers
<1> QED BY <1>4, <1>5

(* Every step of the scheduler is a step of the ledger, or none of its business. *)
LEMMA LedgerStep ==
  RunInv /\ ActiveCycleIsCurrent /\ [Next]_vars => [Ledger!Next]_(Ledger!ledger)
<1> SUFFICES ASSUME RunInv, ActiveCycleIsCurrent, [Next]_vars
             PROVE  Ledger!Next \/ UNCHANGED Ledger!ledger
  OBVIOUS
<1> DEFINE Kept == Ledger!Next \/ UNCHANGED Ledger!ledger
<1>0. TypeOK /\ \A j \in JobIds : job[j].status \in JobStatuses
  BY DEF RunInv, TypeOK, JobRows
<1>1. ASSUME RevisionsStay, UNCHANGED coord,
             \A j \in JobIds : \/ job'[j].status = job[j].status
                               \/ /\ job[j].status \in ActiveStatuses
                                  /\ job'[j].status \in ActiveStatuses
      PROVE  Kept
  <2>1. \A j \in JobIds : VerdictOf(j)' = VerdictOf(j) /\ DeliveryOf(j)' = DeliveryOf(j)
    BY <1>1, VerdictValues DEF VerdictOf, DeliveryOf
  <2> QED BY <1>1, <2>1, LedgerStutters
<1>2. ASSUME NEW s \in Subs, Materialize(s) \/ Remove(s)
      PROVE  Kept
  BY <1>2, MaterializeOpens, RemoveDelivers
<1>3. ASSUME NEW j \in JobIds, Succeeds(j)
      PROVE  Kept
  <2>1. VerdictOf(j) = "open" /\ VerdictOf(j)' = "succeeded"
    BY <1>3, VerdictValues DEF Succeeds, Settles, VerdictOf, ActiveStatuses, WorkStatuses
  <2>2. DeliveryOf(j)' = "owed" /\ \A i \in JobIds \ {j} : DeliveryOf(i)' = DeliveryOf(i)
    BY <1>0, <1>3, DeliveryValues DEF Succeeds, DeliveryOf, TypeOK
  <2>3. RevisionsStay /\ \A i \in JobIds \ {j} : VerdictOf(i)' = VerdictOf(i)
    BY <1>3 DEF Succeeds, Settles, VerdictOf
  <2> QED BY <2>1, <2>2, <2>3, LedgerJudges
<1>4. ASSUME NEW j \in JobIds, NEW status, Falls(j, status)
      PROVE  Kept
  <2>1. /\ RevisionsStay /\ UNCHANGED coord
        /\ job[j].status \in ActiveStatuses /\ job'[j].status = status
        /\ \A i \in JobIds \ {j} : job'[i] = job[i]
        /\ status \in RequeueStatuses \cup WaitingStatuses \cup {"failed_terminal", "cancelled"}
    BY <1>4 DEF Falls, Settles
  <2>2. CASE status \in RequeueStatuses \cup WaitingStatuses
    BY <1>1, <2>1, <2>2 DEF ActiveStatuses
  <2>3. CASE status \in {"failed_terminal", "cancelled"}
    <3>1. PICK v \in {"failed", "cancelled"} : VerdictOf(j)' = v
      BY <2>1, <2>3, VerdictValues DEF VerdictOf
    <3>2. VerdictOf(j) = "open"
      BY <2>1, VerdictValues DEF VerdictOf
    <3>3. \A i \in JobIds : DeliveryOf(i)' = DeliveryOf(i)
      BY <2>1 DEF DeliveryOf
    <3>4. \A i \in JobIds \ {j} : VerdictOf(i)' = VerdictOf(i)
      BY <2>1 DEF VerdictOf
    <3> QED BY <2>1, <3>1, <3>2, <3>3, <3>4, LedgerJudges
  <2> QED BY <2>1, <2>2, <2>3
<1>5. ASSUME NEW j \in JobIds, MovesCoordinator(j)
      PROVE  Kept
  <2>1. /\ RevisionsStay
        /\ \A i \in JobIds : VerdictOf(i)' = VerdictOf(i)
    BY <1>5 DEF MovesCoordinator, TakeCoordinator, LeaveCoordinator, RevisionsStay, VerdictOf
  <2>2. DeliveryOf(j) = "owed"
    BY <1>5, DeliveryValues DEF MovesCoordinator, TakeCoordinator, LeaveCoordinator, DeliveryOf
  <2>3. PICK next \in {"pending", "running", "ended"} : coord' = [coord EXCEPT ![j] = next]
    BY <1>5 DEF MovesCoordinator, TakeCoordinator, LeaveCoordinator
  <2>4. DeliveryOf(j)' = Delivery(next) /\ \A i \in JobIds \ {j} : DeliveryOf(i)' = DeliveryOf(i)
    BY <1>0, <2>3 DEF DeliveryOf, TypeOK
  <2>5. CASE next = "ended"
    <3>1. \A i \in JobIds : DeliveryOf(i)' = IF i \in {j} THEN "over" ELSE DeliveryOf(i)
      BY <2>4, <2>5, DeliveryValues
    <3>2. {j} \in SUBSET JobIds /\ \A i \in {j} : DeliveryOf(i) = "owed"
      BY <2>2
    <3> QED BY <2>1, <3>1, <3>2, LedgerDelivers
  <2>6. CASE next # "ended"
    <3>1. \A i \in JobIds : DeliveryOf(i)' = DeliveryOf(i)
      BY <2>2, <2>4, <2>6, DeliveryValues
    <3> QED BY <2>1, <3>1, LedgerStutters
  <2> QED BY <2>5, <2>6
<1>6. ASSUME NEW w \in Workers, NEW j \in JobIds, NEW t, NEW requeued, Claim(w, j, requeued, t)
      PROVE  Kept
  BY <1>0, <1>1, <1>6, ClaimWrites DEF RevisionsStay, ActiveStatuses, WorkStatuses
<1>7. ASSUME NEW w \in Workers, Start(w)
      PROVE  Kept
  BY <1>0, <1>1, <1>7, StartWrites DEF RevisionsStay, ActiveStatuses, WorkStatuses
<1>8. ASSUME NEW w \in Workers, NEW r \in Runs, CreateAttachedRun(w, r)
      PROVE  Kept
  BY <1>0, <1>1, <1>8, CreateWrites DEF RevisionsStay
<1>9. ASSUME UNCHANGED <<sub, job, coord>>
      PROVE  Kept
  BY <1>1, <1>9 DEF RevisionsStay
<1>10. ASSUME Resumes \/ IsQuiet
       PROVE  Kept
  BY <1>1, <1>10 DEF Resumes, IsQuiet, ActiveStatuses
<1> HIDE DEF Kept
<1>11. (\E w \in Workers : Remembers(w) \/ \E to : WritesRun(w, to)) => Kept
  BY <1>9 DEF Remembers, WritesRun, Rows
<1>12. CASE Next
  BY <1>2, <1>3, <1>4, <1>5, <1>6, <1>7, <1>8, <1>10, <1>11, <1>12, StepKinds DEF StepKind, Kept
<1>13. CASE UNCHANGED vars
  BY <1>9, <1>13 DEF vars, Kept
<1> QED BY <1>12, <1>13

(* The scheduler implements the ledger for every number of workers, Jobs, Runs  *)
(* and lanes: each revision opens one cycle, a cycle gets at most one verdict,  *)
(* which stays, and each success owes exactly one delivery                      *)
(* (_materialize_cycle, succeed, _enqueue_pipeline_for_succeeded_run, remove).  *)
THEOREM TheLedgerIsKept == Spec => KeepsLedger
<1>1. Init => Ledger!Init
  <2> SUFFICES ASSUME Init PROVE Ledger!Init
    OBVIOUS
  <2>1. [s \in Subs |-> sub[s].revision] = [s \in Subs |-> 0]
    BY DEF Init
  <2>2. [j \in JobIds |-> Verdict(job[j].status)] = [j \in JobIds |-> "none"]
    BY VerdictValues DEF Init, NoJobRow
  <2>3. [j \in JobIds |-> Delivery(coord[j])] = [j \in JobIds |-> "none"]
    BY DeliveryValues DEF Init
  <2> QED BY <2>1, <2>2, <2>3 DEF Ledger!Init, Ledger!Cycles, JobIds
<1> QED BY <1>1, LedgerStep, RunsAndJobsAgree, CurrentCycle,
           PTL DEF Spec, KeepsLedger, Ledger!Spec

================================================================================
