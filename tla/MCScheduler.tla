------------------------------ MODULE MCScheduler ------------------------------
(* Finite instances of Scheduler for TLC.                                       *)
EXTENDS Scheduler, TLC

CONSTANTS s1, s2, a1, a2, p1

(* One subscription on its own account. *)
OneAccountOf == [s \in {s1} |-> a1]

(* Two subscriptions on two accounts of one platform. *)
TwoAccountOf == [s \in {s1, s2} |-> IF s = s1 THEN a1 ELSE a2]

(* Two subscriptions sharing one account. *)
SharedAccountOf == [s \in {s1, s2} |-> a1]

OnePlatformOf == [a \in Accounts |-> p1]

Policy(limit, threshold, interval) ==
  [limit |-> limit, threshold |-> threshold, interval |-> interval]

OneAtATime  == Policy(1, 1, FALSE)
TwoAtATime  == Policy(2, 1, FALSE)
JustOne     == {OneAtATime}
JustTwo     == {TwoAtATime}

(* The status of a SyncRun nobody refers to any more decides nothing.           *)
LiveRows ==
  <<sub, job, lane, coord, worker, [r \in Runs |-> IF r \in FreshRuns THEN "absent" ELSE run[r]]>>

Symmetry == Permutations(Workers) \cup Permutations(Tokens) \cup Permutations(Runs)

(* The lane behaviour of two Jobs: attempts end with one failure of each effect *)
(* on a lane or with success, leases are lost to crashes, operators cancel, resume, reset    *)
(* and retune.  Pauses, removal, heartbeat and storage failures, which touch no *)
(* lane, are left to the fencing run, and only workers that own their lease     *)
(* take steps (StaleWorkerIsHarmless).                                          *)
LaneNext ==
  \/ \E s \in Subs : MaterializeDue(s)
  \/ \E j \in JobIds : Reclaim(j) \/ Cancel(j) \/ Resume(j) \/ ExpireLease(j) \/ RetryDue(j)
  \/ \E w \in Workers, j \in JobIds : ClaimNext(w, j)
  \/ \E w \in Workers :
       \/ Start(w) \/ ReturnSuccess(w) \/ Validate(w) \/ Finalize(w) \/ LosesLease(w)
       \/ SetIngesting(w) \/ CommitIngestion(w)
       \/ \E r \in Runs : CreateAttachedRun(w, r)
       \/ \E code \in {"temporary", "account_busy", "user", "unsupported"} :
            ReturnFailure(w, code, FALSE)
  \/ \E l \in LaneIds :
       \/ CooldownOver(l) \/ IntervalOver(l) \/ ResetLane(l)
       \/ \E p \in Policies : UpdateLane(l, p)

LaneSpec == Init /\ [][LaneNext]_vars

(* A worker that lost its lease drops its memory at once. *)
NoStaleMemory ==
  \A w \in Workers : worker[w].pc # "idle" => Owns(w, WorkStatuses)

(* For liveness: one worker that may crash, and the failures that decide what   *)
(* becomes of a probe.                                                          *)
LiveNext ==
  \/ \E s \in Subs : MaterializeDue(s)
  \/ \E j \in JobIds : Reclaim(j) \/ Resume(j) \/ ExpireLease(j) \/ RetryDue(j)
  \/ \E w \in Workers, j \in JobIds : ClaimNext(w, j)
  \/ \E w \in Workers :
       \/ Start(w) \/ Validate(w) \/ Finalize(w) \/ LosesLease(w) \/ Crash(w)
       \/ SetIngesting(w) \/ CommitIngestion(w) \/ ReturnSuccess(w)
       \/ FreshRuns # {} /\ CreateAttachedRun(w, CHOOSE r \in FreshRuns : TRUE)
       \/ \E code \in {"temporary", "account_busy", "user"} : ReturnFailure(w, code, FALSE)
  \/ \E l \in LaneIds : CooldownOver(l) \/ IntervalOver(l)

LiveSpec == Init /\ [][LiveNext]_vars /\ Fairness
================================================================================
