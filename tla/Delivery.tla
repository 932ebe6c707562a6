-------------------------------- MODULE Delivery --------------------------------
(* What follows a succeeded sync of one Bilibili subscription: its coordinator  *)
(* Job (scheduler/pipeline.py), the worker that runs it (pipeline_worker.py),   *)
(* the downloads and the export it asks for (application/pipeline.py), and the  *)
(* progress row that decides between backfill, reconciling and incremental      *)
(* scans (scheduler/bili_delivery_progress.py) and so which cycle comes next.   *)
(*                                                                              *)
(* The sync itself is one step here (Scheduler and Ingestion model it), as is   *)
(* the download of a content (AssetDownload) and the export of the author       *)
(* (EmbyPublication).  Due times and pauses are left out: the subscription may *)
(* be due, or not be, at any time.  A cycle's number is its schedule revision,  *)
(* counted from one; an attempt's token is its number.                          *)
EXTENDS JobLeases, FiniteSets

CONSTANTS Contents,      \* the contents of the author
          Workers,
          Sources,       \* the upstream checkouts the service may run with
          Auths,         \* the account revisions and policies there may be
          MaxCycles,     \* bound of the number of cycles
          MaxEvents      \* bound of the cycles, contents observed, hand ingests and
                         \* changes of the binding, all together

ASSUME DeliveryAssumption ==
  /\ Sources # {} /\ Auths # {}
  /\ MaxCycles \in Nat \ {0} /\ MaxEvents \in Nat
  /\ Tokens = 1..MaxAttempts

VARIABLES
  sub,        \* the subscription, with the binding it has now
  progress,   \* its BiliSubscriptionProgress
  cycle,      \* its sync cycles: the Job, the Run and the scan evidence in one
  job,        \* the coordinator of each cycle
  known,      \* contents observed by this subscription
  verified,   \* contents whose assets are all verified
  worker      \* what each worker remembers

vars == <<sub, progress, cycle, job, known, verified, worker>>

--------------------------------------------------------------------------------
(* States *)

Cycles == 1..MaxCycles
NoCycle == 0

(* "source" stands for an upstream checkout, "auth" for an auth revision of the *)
(* account with a policy; the two are compared for equality only, and may come  *)
(* back.  "binds" says that the continuation policy knows the checkout: it does *)
(* not where its delay is zero or the lock is unreadable.  A cursor is about to *)
(* scan the head or the history, and belongs to the checkout it was made "from";*)
(* "fresh" is a head lane about to start over.  The row's "counted" are the     *)
(* deliveries that its batch count counts.                                      *)
Cursors == {"none", "fresh", "head", "history"}

LaneOf(cursor) == IF cursor = "history" THEN "history" ELSE "head"

Phases == {"absent", "backfill", "reconciling", "incremental", "blocked"}

FirstSource == CHOOSE s \in Sources : TRUE

FirstAuth == CHOOSE a \in Auths : TRUE

NoRow == [phase |-> "absent", source |-> FirstSource, auth |-> FirstAuth, ckpt |-> 0,
          rev |-> 0, ended |-> FALSE, last |-> NoCycle, counted |-> {}]

NoCycleYet == [status |-> "none", unbound |-> FALSE, before |-> 0, source |-> FirstSource,
               auth |-> FirstAuth, lane |-> "head", end |-> FALSE, seen |-> {}]

IdleWorker == [pc |-> "idle", job |-> NoCycle, token |-> NoToken, seen |-> {},
               selected |-> {}, done |-> {}, failed |-> {}, replaced |-> {},
               retryable |-> TRUE]

Points == {"idle", "claimed", "started", "fetching", "checked", "exported", "failing"}

TypeOK ==
  /\ sub \in [removed : BOOLEAN, ckpt : Nat, rev : 0..MaxCycles, cursor : Cursors,
              from : Sources, source : Sources, auth : Auths, binds : BOOLEAN,
              others : Nat]
  /\ progress \in [phase : Phases, source : Sources, auth : Auths, ckpt : Nat,
                   rev : 0..(MaxCycles + 1), ended : BOOLEAN,
                   last : {NoCycle} \cup Cycles, counted : SUBSET Cycles]
  /\ cycle \in [Cycles -> [status : {"none", "active", "succeeded", "ended"},
                           unbound : BOOLEAN, before : Nat, source : Sources,
                           auth : Auths, lane : {"head", "history"}, end : BOOLEAN,
                           seen : SUBSET Contents]]
  /\ job \in [Cycles -> JobRows]
  /\ {known, verified} \subseteq SUBSET Contents
  /\ worker \in [Workers -> [pc : Points, job : {NoCycle} \cup Cycles,
                             token : Tokens \cup {NoToken}, seen : SUBSET Contents,
                             selected : SUBSET Contents, done : SUBSET Contents,
                             failed : SUBSET Contents, replaced : SUBSET Contents,
                             retryable : BOOLEAN]]

Init ==
  /\ sub = [removed |-> FALSE, ckpt |-> 0, rev |-> 0, cursor |-> "none",
            from |-> FirstSource, source |-> FirstSource, auth |-> FirstAuth,
            binds |-> TRUE, others |-> 0]
  /\ progress = NoRow
  /\ cycle = [n \in Cycles |-> NoCycleYet]
  /\ job = [n \in Cycles |-> NoJobRow]
  /\ known = {} /\ verified = {}
  /\ worker = [w \in Workers |-> IdleWorker]

(* The bound on what happens.                                                   *)
Spent == sub.rev + sub.others + Cardinality(known)

BoundTo(r, s) == r.source = s.source /\ r.auth = s.auth

(* There is a binding, and it is the row's.                                     *)
Current(s, r) == s.binds /\ r.phase # "absent" /\ BoundTo(r, s)

--------------------------------------------------------------------------------
(* The progress row (BiliDeliveryProgressRepository), as functions from the     *)
(* subscription and the row to the pair of both.                                *)

Fresh(s, phase) ==
  [phase |-> phase, source |-> s.source, auth |-> s.auth, ckpt |-> s.ckpt,
   rev |-> s.rev + 1, ended |-> FALSE, last |-> NoCycle, counted |-> {}]

(* The cursor is replaced, which is a checkpoint if it was another one.         *)
Moved(s, cursor) ==
  IF cursor = s.cursor THEN s ELSE [s EXCEPT !.cursor = cursor, !.ckpt = @ + 1]

(* ensure_for_materialization                                                   *)
Unblocked(s, r) ==
  [r EXCEPT !.phase = IF r.ended THEN "reconciling" ELSE "backfill", !.ckpt = s.ckpt,
            !.rev = s.rev + 1]

(* Mutant: a new binding inherits the phase of the old one.                     *)
ReboundKeepingPhase(s, r) ==
  [sub |-> s, row |-> [r EXCEPT !.source = s.source, !.auth = s.auth, !.ckpt = s.ckpt]]

(* The history scanned counts on if it ended and the cursor is of this checkout.*)
Rebound(s, r) ==
  LET preserve == /\ r.source = s.source /\ (r.phase = "incremental" \/ r.ended)
                  /\ s.cursor # "none" /\ s.from = s.source
      moved    == Moved(s, IF preserve THEN "fresh" ELSE "none")
  IN  [sub |-> moved, row |-> Fresh(moved, IF preserve THEN "reconciling" ELSE "backfill")]

Ensured(s, r, resume) ==
  IF ~s.binds               THEN [sub |-> s, row |-> r]
  ELSE IF r.phase = "absent" THEN [sub |-> s, row |-> Fresh(s, "backfill")]
  ELSE IF ~BoundTo(r, s)    THEN Rebound(s, r)
  ELSE IF r.phase = "blocked" /\ resume THEN [sub |-> s, row |-> Unblocked(s, r)]
  ELSE [sub |-> s, row |-> r]

(* The Run was made under the binding the row and the subscription have now.    *)
SameBinding(c, s, r) == Current(s, r) /\ BoundTo(c, s)

(* publish_success: nothing was published between this Run and its delivery,    *)
(* and the row was not begun anew since.                                        *)
EvidenceHolds(n, s, r) ==
  /\ cycle[n].before = r.ckpt /\ s.ckpt = cycle[n].before + 1
  /\ n >= r.rev /\ r.phase # "blocked"

Sealed(c) == c.lane = "history" /\ c.end

(* Mutant: the end of any lane makes the baseline.                              *)
PhaseAfterAnyLane(c, phase) ==
  IF Sealed(c) /\ phase = "backfill" THEN "reconciling"
  ELSE IF phase = "reconciling" /\ c.end THEN "incremental"
  ELSE IF phase = "incremental" /\ c.lane # "head" THEN "reconciling"
  ELSE phase

PhaseAfter(c, phase) ==
  IF Sealed(c) THEN "reconciling"
  ELSE IF phase = "reconciling" /\ c.lane = "head" /\ c.end THEN "incremental"
  ELSE IF phase = "incremental" /\ c.lane # "head" THEN "reconciling"
  ELSE phase

Advanced(n, s, r) ==
  LET c      == cycle[n]
      phase  == PhaseAfter(c, r.phase)
      cursor == IF Sealed(c) THEN "fresh"
                ELSE IF phase \in {"reconciling", "incremental"} /\ s.cursor = "history"
                  THEN "head" ELSE s.cursor
      moved  == Moved(s, cursor)
  IN  [sub |-> moved,
       row |-> [r EXCEPT !.phase = phase, !.ckpt = moved.ckpt, !.rev = n, !.last = n,
                         !.ended = @ \/ Sealed(c), !.counted = @ \cup {n}]]

(* There is nothing to publish to, or nothing new.                              *)
NotCounted(n, s, r) == ~s.binds \/ r.phase = "absent" \/ r.last = n

Publishable(n, s, r) ==
  NotCounted(n, s, r) \/ ~SameBinding(cycle[n], s, r) \/ EvidenceHolds(n, s, r)

Published(n, s, r) ==
  IF NotCounted(n, s, r) THEN [sub |-> s, row |-> r]
  ELSE IF ~SameBinding(cycle[n], s, r) THEN Ensured(s, r, TRUE)
  ELSE Advanced(n, s, r)

(* Mutant: a coordinator that is given up leaves the row as it is.              *)
NotBlocked(n, s, r) == r

(* publish_terminal_failure: only of the latest cycle.                          *)
Blocked(n, s, r) ==
  IF SameBinding(cycle[n], s, r) /\ EvidenceHolds(n, s, r) /\ n = s.rev
    THEN [r EXCEPT !.phase = "blocked"] ELSE r

--------------------------------------------------------------------------------
(* The next cycle (SchedulerRepository) *)

(* Mutant: a coordinator that waits for its retry does not hold the next cycle. *)
CoordinatorRunning == \E n \in Cycles : job[n].status \in {"queued", "claimed", "running"}

Alive(n) == job[n].status \in {"queued", "claimed", "running", "failed_retryable"}

CoordinatorAlive == \E n \in Cycles : Alive(n)

CycleActive == \E n \in Cycles : cycle[n].status = "active"

MayBegin == sub.rev < MaxCycles /\ Spent < MaxEvents

(* _materialize_cycle: the row is brought up to date even if no cycle begins;   *)
(* without a binding neither a block nor a coordinator holds the next cycle.    *)
Materialize(resume) ==
  LET next   == Ensured(sub, progress, resume)
      held   == sub.binds /\ (next.row.phase = "blocked" \/ CoordinatorAlive)
      starts == ~held /\ MayBegin
      begun  == [NoCycleYet EXCEPT !.status = "active", !.unbound = ~sub.binds,
                                   !.auth = sub.auth]
  IN  /\ ~sub.removed /\ ~CycleActive
      /\ progress' = next.row
      /\ IF starts THEN /\ sub' = [next.sub EXCEPT !.rev = @ + 1]
                        /\ cycle' = [cycle EXCEPT ![sub.rev + 1] = begun]
                   ELSE sub' = next.sub /\ UNCHANGED cycle
      /\ UNCHANGED <<job, known, verified, worker>>

(* materialize_due                                                              *)
MaterializeDue == Materialize(FALSE)

(* materialize_one: asked for by hand, refused while a coordinator is alive.    *)
MaterializeOne == ~CoordinatorAlive /\ MayBegin /\ Materialize(TRUE)

(* An attempt reads the account and the policy again.                           *)
CycleAttempt(n) ==
  /\ cycle[n].status = "active"
  /\ cycle' = [cycle EXCEPT ![n].auth = sub.auth]
  /\ UNCHANGED <<sub, progress, job, known, verified, worker>>

(* A scan goes on from its cursor under the checkout the cursor is from.        *)
Scannable == sub.cursor = "none" \/ sub.from = sub.source

(* A checkpoint is published: the lanes of the scan take turns.                 *)
Stored(s) ==
  [s EXCEPT !.ckpt = @ + 1, !.cursor = IF LaneOf(@) = "head" THEN "history" ELSE "head",
            !.from = s.source]

(* The cycle ingests its scan, made with the account and the policy its attempt *)
(* read, succeeds, and leaves its coordinator.                                  *)
CycleSucceeds(n) ==
  /\ cycle[n].status = "active" /\ Scannable
  /\ \E end \in BOOLEAN, observed \in SUBSET Contents :
       /\ cycle' = [cycle EXCEPT ![n] =
                     [@ EXCEPT !.status = "succeeded", !.before = sub.ckpt, !.end = end,
                               !.source = sub.source, !.lane = LaneOf(sub.cursor),
                               !.seen = observed]]
       /\ known' = known \cup observed
  /\ sub' = Stored(sub)
  /\ job' = [job EXCEPT ![n] = Enqueued(@)]
  /\ Spent' <= MaxEvents
  /\ UNCHANGED <<progress, verified, worker>>

Ended(c) == [NoCycleYet EXCEPT !.status = "ended", !.unbound = c.unbound]

(* A cycle that ends otherwise leaves nothing here.                             *)
CycleEnds(n) ==
  /\ cycle[n].status = "active"
  /\ cycle' = [cycle EXCEPT ![n] = Ended(@)]
  /\ UNCHANGED <<sub, progress, job, known, verified, worker>>

(* cli ingest: the same checkpoint, and no coordinator.                         *)
IngestByHand ==
  /\ ~sub.removed /\ Scannable
  /\ sub' = [Stored(sub) EXCEPT !.others = @ + 1]
  /\ \E observed \in SUBSET Contents : known' = known \cup observed
  /\ Spent' <= MaxEvents
  /\ UNCHANGED <<progress, cycle, job, verified, worker>>

--------------------------------------------------------------------------------
(* The coordinator and its worker *)

(* Of a Job that has ended only its status is remembered; nothing here reads    *)
(* the error of a Job.                                                          *)
Kept(row) == IF row.status \in {"succeeded", "failed_terminal"}
               THEN [NoJobRow EXCEPT !.status = row.status]
               ELSE [row EXCEPT !.error = "none"]

SetJob(n, row) == job' = [job EXCEPT ![n] = Kept(row)]

Set(w, mind) == worker' = [worker EXCEPT ![w] = mind]

(* The pipeline has returned: what it remembered is gone.                       *)
Returned(w, pc, retryable) ==
  [IdleWorker EXCEPT !.pc = pc, !.job = worker[w].job, !.token = worker[w].token,
                     !.retryable = retryable]

(* claim_next; a removed subscription's Job is left alone.                      *)
Claim(w, n) ==
  LET token == job[n].attempts + 1
  IN  /\ worker[w].pc = "idle" /\ ~sub.removed /\ Claimable(job[n])
      /\ SetJob(n, Claimed(job[n], token))
      /\ Set(w, [IdleWorker EXCEPT !.pc = "claimed", !.job = n, !.token = token,
                                 !.seen = cycle[n].seen])
      /\ UNCHANGED <<sub, progress, cycle, known, verified>>

(* claim_next finds no attempt left.                                            *)
Reclaim(n) ==
  /\ Expired(job[n]) /\ ~Claimable(job[n])
  /\ SetJob(n, Reclaimed(job[n]))
  /\ UNCHANGED <<sub, progress, cycle, known, verified, worker>>

(* The Job starts and its lease is renewed.                                     *)
Start(w) ==
  LET n == worker[w].job
  IN  /\ worker[w].pc = "claimed"
      /\ IF Owns(job[n], worker[w].token)
           THEN /\ SetJob(n, Renewed(Started(job[n])))
                /\ Set(w, [worker[w] EXCEPT !.pc = "started"])
           ELSE Set(w, IdleWorker) /\ UNCHANGED job
      /\ UNCHANGED <<sub, progress, cycle, known, verified>>

(* SubscriptionAssetSelector.select: what the Run observed, and what an earlier *)
(* one left behind.                                                             *)
Selection(observed) == observed \cup (known \ verified)

Select(w) ==
  /\ worker[w].pc = "started"
  /\ Set(w, [worker[w] EXCEPT !.pc = "fetching", !.selected = Selection(worker[w].seen)])
  /\ UNCHANGED <<sub, progress, cycle, job, known, verified>>

(* One content is downloaded or fails, alone.                                   *)
Fetch(w, c) ==
  /\ worker[w].pc = "fetching"
  /\ c \in worker[w].selected \ (worker[w].done \cup worker[w].failed)
  /\ \/ /\ verified' = verified \cup {c}
        /\ Set(w, [worker[w] EXCEPT !.done = @ \cup {c}])
     \/ /\ Set(w, [worker[w] EXCEPT !.failed = @ \cup {c}])
        /\ UNCHANGED verified
  /\ UNCHANGED <<sub, progress, cycle, job, known>>

(* Mutant: the selection is not compared again before the export.               *)
NothingChangedLoosely(w) == worker[w].selected = Selection(worker[w].seen)

(* The selection is the one downloaded, generations and all.                    *)
NothingChanged(w) ==
  /\ worker[w].selected = Selection(worker[w].seen)
  /\ worker[w].replaced = {} /\ worker[w].done \subseteq verified

Reselect(w) ==
  /\ worker[w].pc = "fetching"
  /\ worker[w].selected = worker[w].done \cup worker[w].failed
  /\ Set(w, IF NothingChanged(w) THEN [worker[w] EXCEPT !.pc = "checked", !.replaced = {}]
                                 ELSE Returned(w, "failing", TRUE))
  /\ UNCHANGED <<sub, progress, cycle, job, known, verified>>

(* The author is exported, that is what is verified now.                        *)
Export(w) ==
  /\ worker[w].pc = "checked"
  /\ Set(w, Returned(w, "exported", TRUE))
  /\ UNCHANGED <<sub, progress, cycle, job, known, verified>>

(* The pipeline gives up, for a reason worth a retry or not.                    *)
PipelineFails(w) ==
  /\ worker[w].pc \in {"started", "fetching", "checked"}
  /\ \E retryable \in BOOLEAN :
       Set(w, Returned(w, "failing", retryable))
  /\ UNCHANGED <<sub, progress, cycle, job, known, verified>>

(* _finalize of a success: the Job and the progress in one transaction; what    *)
(* raises there undoes both and fails the attempt in the next transaction.      *)
FinalizeSuccess(w) ==
  LET n    == worker[w].job
      next == Published(n, sub, progress)
  IN  /\ worker[w].pc = "exported"
      /\ IF ~Owns(job[n], worker[w].token)
           THEN Set(w, IdleWorker) /\ UNCHANGED <<sub, progress, job>>
         ELSE IF Publishable(n, sub, progress)
           THEN /\ SetJob(n, Completed(job[n]))
                /\ sub' = next.sub /\ progress' = next.row
                /\ Set(w, IdleWorker)
         ELSE Set(w, Returned(w, "failing", TRUE)) /\ UNCHANGED <<sub, progress, job>>
      /\ UNCHANGED <<cycle, known, verified>>

(* _finalize of a failure; _fail_closed is one that may be retried.             *)
FinalizeFailure(w) ==
  LET n    == worker[w].job
      next == Failed(job[n], worker[w].retryable)
  IN  /\ worker[w].pc = "failing"
      /\ IF Owns(job[n], worker[w].token)
           THEN /\ SetJob(n, next)
                /\ progress' = IF next.status = "failed_terminal"
                                 THEN Blocked(n, sub, progress) ELSE progress
           ELSE UNCHANGED <<job, progress>>
      /\ Set(w, IdleWorker)
      /\ UNCHANGED <<sub, cycle, known, verified>>

(* A transaction of the worker raises.                                          *)
DatabaseFails(w) ==
  /\ worker[w].pc \in {"claimed", "exported"}
  /\ Set(w, Returned(w, "failing", TRUE))
  /\ UNCHANGED <<sub, progress, cycle, job, known, verified>>

(* The process dies, or the heartbeat fails and the worker leaves its Job under *)
(* the lease; the handler's thread cannot be stopped, and what it still fetches *)
(* FetchedElsewhere stands for.                                                 *)
Abandon(w) ==
  /\ worker[w].pc # "idle"
  /\ Set(w, IdleWorker)
  /\ UNCHANGED <<sub, progress, cycle, job, known, verified>>

--------------------------------------------------------------------------------
(* The rest of the world *)

LeaseLapses(n) ==
  /\ job[n].lease = "live"
  /\ SetJob(n, Lapsed(job[n]))
  /\ UNCHANGED <<sub, progress, cycle, known, verified, worker>>

(* SubscriptionRemovalService: what is queued is cancelled (a status that ends  *)
(* the Job as "failed_terminal" does); what runs is in the way.                 *)
Busy == \E n \in Cycles : job[n].status \in {"claimed", "running"}

Remove ==
  /\ ~sub.removed /\ ~Busy
  /\ sub' = [sub EXCEPT !.removed = TRUE]
  /\ cycle' = [n \in Cycles |-> IF cycle[n].status = "active"
                                  THEN Ended(cycle[n]) ELSE cycle[n]]
  /\ job' = [n \in Cycles |-> IF job[n].status \in {"queued", "failed_retryable"}
                                THEN Kept(Unleased(job[n], "failed_terminal")) ELSE job[n]]
  /\ UNCHANGED <<progress, known, verified, worker>>

(* Restored paused, then resumed.                                               *)
Restore ==
  /\ sub.removed /\ sub' = [sub EXCEPT !.removed = FALSE]
  /\ UNCHANGED <<progress, cycle, job, known, verified, worker>>

(* The account logs in again, or the policy is edited, perhaps back.            *)
Login ==
  /\ Spent < MaxEvents
  /\ \E auth \in Auths \ {sub.auth} :
       sub' = [sub EXCEPT !.auth = auth, !.others = @ + 1]
  /\ UNCHANGED <<progress, cycle, job, known, verified, worker>>

(* The service restarts with another upstream checkout, newer or older.         *)
Upgrade ==
  /\ Spent < MaxEvents
  /\ \E source \in Sources \ {sub.source} :
       sub' = [sub EXCEPT !.source = source, !.others = @ + 1]
  /\ worker' = [w \in Workers |-> IdleWorker]
  /\ UNCHANGED <<progress, cycle, job, known, verified>>

(* The continuation is disabled or enabled, or its lock unreadable for a time;  *)
(* or a process that is configured otherwise takes the next transactions.       *)
Configure ==
  /\ Spent < MaxEvents
  /\ sub' = [sub EXCEPT !.binds = ~@, !.others = @ + 1]
  /\ UNCHANGED <<progress, cycle, job, known, verified, worker>>

(* Another subscription of the same author observes a content anew: its assets  *)
(* get a new generation, to be downloaded.                                      *)
Replace(c) ==
  /\ c \in verified
  /\ verified' = verified \ {c}
  /\ worker' = [w \in Workers |->
                  [worker[w] EXCEPT !.replaced = @ \cup ({c} \cap worker[w].selected)]]
  /\ UNCHANGED <<sub, progress, cycle, job, known>>

(* ... and another pipeline, or an abandoned thread, downloads them.            *)
FetchedElsewhere(c) ==
  /\ c \in known \ verified
  /\ verified' = verified \cup {c}
  /\ UNCHANGED <<sub, progress, cycle, job, known, worker>>

CycleNext ==
  \/ MaterializeDue \/ MaterializeOne \/ IngestByHand
  \/ \E n \in Cycles : CycleAttempt(n) \/ CycleSucceeds(n) \/ CycleEnds(n)

WorkerNext ==
  \/ \E n \in Cycles : Reclaim(n) \/ \E w \in Workers : Claim(w, n)
  \/ \E w \in Workers :
       \/ Start(w) \/ Select(w) \/ Reselect(w) \/ Export(w) \/ PipelineFails(w)
       \/ FinalizeSuccess(w) \/ FinalizeFailure(w) \/ DatabaseFails(w)
       \/ Abandon(w)
       \/ \E c \in Contents : Fetch(w, c)

OthersNext ==
  \/ Remove \/ Restore \/ Login \/ Upgrade \/ Configure
  \/ \E n \in Cycles : LeaseLapses(n)
  \/ \E c \in Contents : Replace(c) \/ FetchedElsewhere(c)

Next == CycleNext \/ WorkerNext \/ OthersNext

Spec == Init /\ [][Next]_vars

--------------------------------------------------------------------------------
(* Properties *)

Delivered(n) == job[n].status = "succeeded"

(* An incremental subscription has a baseline (publish_success): a delivered    *)
(* history end of the same source, then a stable head of the very binding that  *)
(* its row counted, and no history scan among what the row counted since.  What *)
(* is delivered while there is no binding the row does not count.               *)
BaselineIsEarned ==
  progress.phase = "incremental" =>
    \E end \in Cycles, head \in progress.counted :
      /\ end < head /\ Delivered(end) /\ Delivered(head)
      /\ Sealed(cycle[end]) /\ cycle[end].source = progress.source
      /\ cycle[head].lane = "head" /\ cycle[head].end /\ BoundTo(cycle[head], progress)
      /\ \A n \in progress.counted : n > head => cycle[n].lane = "head"

(* What an attempt is about to report as delivered (_run_content_scoped) is in  *)
(* the library it exports, unless it was replaced after the last look.          *)
ReceiptIsTrue ==
  [][\A w \in Workers :
       worker[w].pc = "checked" /\ worker'[w].pc = "exported" =>
         worker[w].seen \ worker[w].failed \subseteq verified \cup worker[w].replaced]_vars

(* A coordinator under way whose delivery the row would count.                  *)
Awaited(n) ==
  Alive(n) /\ SameBinding(cycle[n], sub, progress) /\ EvidenceHolds(n, sub, progress)

(* The progress has missed a checkpoint, and no coordinator under way can bring *)
(* it there: no later delivery will be accepted (publish_success), and no block *)
(* tells the operator.                                                          *)
LeftBehind ==
  /\ Current(sub, progress) /\ progress.phase # "blocked" /\ progress.ckpt # sub.ckpt
  /\ ~\E n \in Cycles : Awaited(n)

(* The scan of a cycle that succeeds is not the row's: it was made under        *)
(* another binding, or the row was begun anew while it ran.                     *)
Foreign(n) ==
  /\ cycle[n].status = "active" /\ cycle'[n].status = "succeeded"
  /\ ~SameBinding(cycle'[n], sub, progress) \/ n < progress.rev

(* It comes to that only by a removal, by an ingest by hand, by a lease that    *)
(* lapses on the last attempt, by a binding that comes back to a row that was   *)
(* not the current one, by a scan that is foreign to the row, or after a cycle  *)
(* that began without a binding while the coordinator was under way.  In every  *)
(* other case a failure that a worker reports blocks the progress               *)
(* (publish_terminal_failure).                                                  *)
FallsBehindSilentlyOnly ==
  [][LeftBehind' /\ ~LeftBehind =>
       \/ sub'.removed /\ ~sub.removed
       \/ sub'.ckpt # sub.ckpt /\ UNCHANGED <<progress, cycle, job>>
       \/ \E n \in Cycles : Expired(job[n]) /\ job'[n].status = "failed_terminal"
       \/ ~Current(sub, progress) /\ UNCHANGED <<progress, cycle, job>>
       \/ \E n \in Cycles : Foreign(n)
       \/ \E n, m \in Cycles : Awaited(n) /\ n < m /\ cycle[m].unbound]_vars
================================================================================
