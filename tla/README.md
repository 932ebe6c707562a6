# media-sync: TLA+ specifications and proofs

media-sync follows creators on several platforms, downloads what they publish and exports it for media
servers. What it must not lose lives in one SQLite database and three directory trees (attempt outputs,
the archive, the library); several processes and tasks (the resident supervisor, manual executions, HTTP
handlers, child processes) work on them under leases and file locks. This directory models that machinery,
checks it with TLC and proves part of it with TLAPS. Paths are relative to `src/media_sync/` of the
repository unless they say otherwise.

## 1. Inventory

### Components and their state

| Component | State it keeps | Operations | Correct when |
|---|---|---|---|
| Scheduler repository (`scheduler/repository.py`) | `subscriptions` schedule columns, `jobs` of kind `sync.subscription`, `scheduler_lanes` | materialise, reclaim, claim, start, heartbeat, attach, succeed / fail / wait, resume, cancel, lane reset and update, pause / resume / run-now | one active cycle per subscription; no attempt is lost or run twice under one token; lanes admit what they promise |
| Subscription worker (`scheduler/service.py`) | its claim, in memory | start, handler with heartbeat, result validation, finalisation, fail-closed settlement | a worker that lost its lease changes nothing; a durable success is never reported as a failure |
| Failure policy (`scheduler/policy.py`) | none | classification, backoff | waiting failures never retry by themselves |
| MediaCrawler handler (`scheduler/mediacrawler_handler.py`) | `sync_runs`, attempt directories | attach a Run, crawl, ingest, commit, fail, recover a sealed output | at most one open Run per Job, the attached one |
| Ingestion (`infrastructure/db/mediacrawler_ingestion.py`) | contents, the subscription's checkpoint | batches behind a watermark, bounded units behind a cursor, ingest by hand | a Run that succeeded has its output in the library; the checkpoint is exact |
| Subscription removal (`application/subscription_removal.py`) | `subscriptions.deleted_at` | remove, restore | refused while work is leased; leaves nothing claimable behind |
| Pipeline coordinators (`scheduler/pipeline.py`, `pipeline_worker.py`) and their runs (`application/pipeline.py`) | `jobs` of kind `pipeline.subscription`, delivery receipts | emit, claim, select, download, export, finalise | one per succeeded cycle; the receipt is true |
| Delivery progress (`scheduler/*_delivery_progress.py`) | one row per subscription | ensure, publish success, publish terminal failure | a phase is earned by deliveries; no checkpoint is missed silently |
| Generic Job leases (`infrastructure/db/repositories.py`, `JobRepository`) | `jobs` of the download, export and pipeline kinds | enqueue, claim, renew, take over, resume, finish, reclaim | one owner per token; attempts are bounded |
| Asset download (`application/downloads.py`, `media/`) | `assets`, part files, the archive | begin, fetch, guard, publish, finalise, recover, check | what is verified was fetched under its generation |
| Emby export (`application/emby.py`) | `export.emby` Jobs, `export_records`, publication intents | prepare, render, publish, finish, recover | each head follows its predecessor; disk and head agree |
| Emby file transaction (`exporters/emby/exporter.py`) | the library, a transaction directory with a journal | capture, link, verify, roll back, clean up, recover | the library is one tree; users' bytes survive |
| Operations (`application/operations.py`, `infrastructure/db/operation_repository.py`) | `operations` | start, renew, request cancel, finish, reconcile | one verdict, and a true one |
| Login sessions, cookie logins, account lock (`application/authentication.py`, `cookie_login.py`) | `login_sessions`, the account row, a file lock | open, poll, finish, publish, sweep | one login at a time owns the account and its profile |
| Resident supervisor (`scheduler/supervisor.py`) | tasks in memory | tick, run, drain, stop | shutdown ends; nothing is starved |
| Media-server publication, MediaCrawler bridge, interfaces | receipts, observations, child processes | refresh, observe, translate | see section 7 |

`PROJECT.json` lists every component with its sources and status, and every hazard with the line where
it bites.

### How they interact

```text
 supervisor --tick--> materialise --> sync Job --claim--> worker --> handler: crawl, ingest, Run succeeds
                          ^                                  |                     |
                          |                                  +-- finalise ---------+--> coordinator Job
   progress row <---------+                                                                 |
        ^                                                                                   v
        +---- receipt ---- pipeline worker: select --> asset downloads --> archive --> author export --> library
                                                       (Job, part file)               (Job chain, journal)

 operator --> Operation --> login thread --> child under the account lock --> account row
                    reconciler, sweep of expired sessions ----^
```

Components share rows and files, nothing else. A repository call opens one transaction and holds SQLite's
writer slot until it commits, so calls are atomic with respect to each other; everything interesting
happens *between* two calls, and between a call and a file operation. The pairs that matter most:

* the Run's success commits with ingestion, the Job's success later, by whichever of finalise, reclaim,
  cancel or removal comes first; the coordinator must be created by exactly that transaction;
* a lease is given up in four ways (finalise, expiry, cancel, and a crash followed by expiry) while the
  worker's memory of it lives on;
* bytes reach the archive or the library before the row that says so is written, and a crash leaves either
  without the other; a later call has to tell from what it finds;
* the checkpoint moves when a Run is ingested, the progress row when it is delivered;
* a child process outlives the service that started it, and with it the account lock.

### Hard behaviours

Interleavings of workers, tick, reclaim, operators and the pipeline at every transaction boundary;
crashes anywhere, also between a file operation and its row and within recovery; late answers of stale
workers; rejected results; heartbeats that fail after the work is done; probes that end without a verdict;
starvation over two lanes; attempt limits met on every path; upstreams, archives and libraries that change
under a transfer; users who edit what is being published; deadlines, sweeps and cancellations that race a
success; deliveries accepted out of turn.

## 2. Modules

| Module | What it is |
|---|---|
| `FailurePolicy` | the failure classes and what each means for Job, Run and circuit (pure) |
| `Lanes` | a `scheduler_lanes` row and the repository's lane writes, as operators on rows (pure) |
| `Scheduler` | scheduler repository, worker, handler transactions, removal; `EXTENDS` the two above |
| `CycleLedger` | abstract: what a subscription is promised; `Scheduler` implements it |
| `JobLeases` | a row of `jobs` and `JobRepository`'s writes, as operators on rows (pure); composed into the next three |
| `AssetDownload` | one asset: its rows, part files, the archive, an upstream that changes |
| `EmbyPublication` | one author's chain of export Jobs, their records and the published tree |
| `Delivery` | one Bilibili subscription after its syncs: coordinators, downloads and export in outline, progress row, next cycle |
| `PublishJournal` | the exporter's file transaction, one system call at a time |
| `AtomicPublish` | abstract: what the exporter promises `EmbyPublication`, where publishing is one step; `PublishJournal` implements it |
| `OperationLeases` | a row of `operations` and `OperationRepository`'s writes (pure) |
| `AccountLogin` | logins of one account as Operations, with child, lock, sweep and reconciler; `EXTENDS` `OperationLeases` |
| `Ingestion` | attempts of a sync Job from crawl to library, and ingests by hand |
| `MC...` | a finite instance for each, with observers and assumptions of its run |
| `SchedulerProofs`, `SchedulerRunProofs`, `AssetDownloadProofs`, `PublishJournalProofs`, `EmbyPublicationProofs`, `DeliveryProofs`, `AccountLoginProofs`, `IngestionProofs` | theorems and their proofs |

One action is one transaction, one file operation, or one in-memory step between two of them. Rows that
several modules guard differently are pure operators; a module applies them inside its own transactions.
Each module models in full what the others take in one step: `Delivery` downloads and exports in one step
each, which `AssetDownload` and `EmbyPublication` have in detail; `EmbyPublication` publishes in one step,
which `PublishJournal` refines; `Scheduler` ingests in one step, which `Ingestion` has.

### Scheduler

| Variable | Stands for |
|---|---|
| `sub[s]` | `enabled`, `deleted_at`, `next_run_at` (as `due`), `schedule_revision` |
| `job[j]` | status, attempts, `available_at <= now` (`avail`), lease, token, attached Run. `j = <<s, n>>` is the natural key `subscription:<s>:schedule:<n>` |
| `lane[l]` | circuit, `consecutive_failures`, `half_open_job_id` (`probe`), `circuit_open_until <= now` (`cooled`), `next_start_at <= now` (`paced`), policy |
| `run[r]` | `sync_runs.status`; `conflict` is `failed_terminal` with code `content_ownership_conflict`, which the scheduler treats as a truth of its own |
| `coord[j]` | the pipeline coordinator emitted for Job `j` |
| `worker[w]` | what a `SubscriptionWorker` remembers: where it stands, Job, token, Run, result |

One action is one transaction, or one in-memory step of a worker between two transactions.

* **Materialisation**: `MaterializeDue`, `MaterializeOne`.
* **Reclaim and claim**: `ReclaimSucceeded`, `ReclaimConflict`, `ReclaimLost`, `ClaimNext`, `ClaimExact`.
  `claim_next` retires all expired leases in its own transaction; here each is an action and `ClaimNext`
  waits until none is left. This allows more interleavings than the code and hides none. The requeue of
  due retries, which the code commits with the claim, is part of `Claim`.
* **Worker**: `Start`, `Heartbeat`, `CreateAttachedRun`, `SetIngesting`, `CommitIngestion`,
  `FailAttempt`, `ReturnSuccess`, `ReturnFailure`, `HeartbeatFails`, `Validate`, the five `Finalize...`,
  `Raises`, `FailClosed`, `LosesLease`, `Crash`. Cancellation of the worker's task is `Crash`.
* **Operators**: the three outcomes of cancel, `Resume`, `ResumeWaitingAuthForAccount`, `Pause`,
  `ResumeSubscription`, `RunNow`, `Remove`, `Restore`, `ResetLane`, `UpdateLane`.
* **The rest**: the pipeline as seen from its coordinator, and timers firing.

`Owns`, the guard of every worker write, compares token, status and removal but not the lease timer: a
writer's clock is read before it waits for the writer slot, so it may still be accepted when another
caller already sees the lease as expired. `LosesLease` may use the timer. Both outcomes are therefore
possible for an expired lease nobody has reclaimed.

Abstracted, and left out:

* Times are timers that have or have not fired; delays have no length.
* The compare-and-set on lane and schedule revisions never fails under the writer slot, so it has no
  failing branch. `ActiveCycleIsCurrent` is what makes the fixed-delay write always find its revision.
* Guards that only refuse more: adapter allow-lists, scan and batch limits, active delivery operations
  and delivery-progress blocks, active Operations during removal. Message, counter and audit columns.
* Repairs of rows this code does not produce (`_terminalize_invalid_candidate`, payloads of older
  schemas). The reconciliation of dormant Jobs with a succeeded Run is in `Cancel` and `Remove`;
  `RunTruthIsKept` shows that for a dormant Job it is never needed.
* The Fake handler, which attaches its Run only with the result; `FinalRun` has its binding rule.
* `CircuitSnapshot` in `policy.py`, which the repository does not call.
* A `HeartbeatFails` that meets an open Run leaves that Run open under a terminal Job, and removal leaves
  an attached `awaiting_auth` Run: `docs/status.md` describes such Runs as history, and no property says
  otherwise.

### JobLeases and AssetDownload

`asset` is the row; `job[g]` the Job whose natural key names generation `g`; `part[g]` the part file with
its metadata (what validator it was begun with, which contents its bytes came from); `archive[c]` the blob
named by the digest of content `c`; `fetched` is history. A worker follows `AssetDownloadService.run`:
`FindVerified` / `FindPrepared` / `StartAttempt` / `GiveUpExpired` are the decisions of `_begin`, then
`Fetch`, `GuardPublish`, `Publish`, `Finalize`, or `RecordFailure`; `Recover...` and `TakeOverPrepared`
are the recovery of a prepared result; `CheckVerified` and `ResetVerified` the check of a verified row's
blob. `Replace` is discovery giving the asset a new locator, `SharedArchive` other assets at the same blob.
The faults are crashes at every point, broken streams and lost leases. The lock file admits one run per
asset, so one worker and its crashed predecessors' rows are all there is. Segmented and two-stream media,
which keep several parts, and redirects are left out.

### PublishJournal

The transaction directory, the author directory and the publisher's memory. A publication is captures
(rename the old file aside), links of the new ones, verification, the manifest last, then cleanup; every
rename, link and unlink is one step, and the publisher may die before any. `todo` is the set of steps that
are left; `Precedes` is the order in which the loops of the code take them. `Recover` is the next call
reading the journal and going forwards or backwards. Users replace or remove media files at any moment
(`live`, `touched` and `stranded` are history). Identical republication, pruning of empty directories,
conflicts found before the first mutation and read errors are left out; users do not edit the manifest.

### EmbyPublication

`jobs` is the sequence of the author's export Jobs, each naming its predecessor; `record` the export
records; `tree` the manifest on disk. A tree is named by the source snapshot it renders. Callers scan for
a published but unfinished child of the head (`_RecoveryScan`), recover it, prepare, render, renew their
lease, publish and finish, and may stop or lose their lease between any two. `fooled` is history: a
publisher or a recovery was taken in by a tree that had gone and come back.

### OperationLeases and AccountLogin

An Operation is claimed in the transaction that creates it, so to own it is to find it running. Its thread
runs a QR login (open a session, drive a child under the account lock, finish the session and the account)
or a cookie login (publish a credential as a fenced effect); the monitor thread renews the lease and
records a verdict the thread could not; `Reconcile` gives a verdict to expired Operations from the rows.
`RecoverExpired` is the expiry sweep, by the supervisor or at the start of the next login.
The process may die with its child alive (`orphan`). `listed` and `fresh` stand for the compare-and-set on
revisions. The account's statuses that accept the same commands are merged, as are the two failed states.
An Operation may be "interrupted" while the login it started still succeeds; that is what the code says.

### Ingestion

A Run, its process and its attempt directory share a number. A process crawls a window of the newest
records (or the next unit after the cursor), seals its directory, and ingests: record by record behind the
watermark, or as one unit. The next attempt of a dead one ingests the directory the dead one sealed;
owners lose their lease at any point and go on. `IngestByHand` is `media-sync sync ingest`, which finds
only directories named after their own Job (`interfaces/cli.py:3039-3060`). A scheduled attempt's directory
is named by its execution, so what is ingested by hand was captured outside the scheduler: `CrawlByHand`
makes such a capture in one step, and it may be ingested again and again. A bounded subscription with
ingests by hand is one of Bilibili, the only platform whose bounded outputs the command ingests as a unit
(`cli.py:3127`); see section 5 for the others. Upstream dates never go back; assets, observations and
quarantine are left out.

### Delivery

`cycle` merges the sync Job, its Run and the scan evidence; `progress` is the
`BiliSubscriptionProgress` row; `sub.cursor` says what the next scan reads. Materialisation brings the row
up to date (`ensure_for_materialization`), a cycle succeeds and leaves a coordinator, a worker claims it,
selects, downloads content by content, selects again, exports and finalises: `publish_success` and the
Job in one transaction, which a failed evidence check undoes. What a heartbeat failure leaves running in
its thread is `FetchedElsewhere`.

The row is bound to an upstream checkout (`source`) and to the account's revision with the policy (`auth`).
Both are compared for equality only and may come back: `Upgrade` goes to any other checkout, a rollback
included, and `Login` to any other revision and policy. `sub.binds` is false while there is no binding to
compare with, because the continuation delay is zero or the lock file unreadable
(`bili_scan_continuation.py:54-59`, `165-181`); `Configure` turns it off and on. Without a binding
`ensure_for_materialization` returns nothing, so neither a block nor a coordinator holds the next cycle
(`repository.py:813-825`); a delivery succeeds and leaves the row as it is; a terminal failure blocks
nothing. Such a cycle is `unbound`. The row's `counted` are the deliveries its batch count counts since it
was begun.

A cycle's number is its schedule revision. `CycleAttempt` is an attempt reading the account and the policy
again (`_load_scope`); `Scannable` says that a scan goes on only under the checkout its cursor is from. The
scan itself is one step, so its checkout is the one at its success; `Upgrade` is a restart and loses the
workers. Pauses and due times are left out; a restored subscription is resumed in the same step. Only
Bilibili's row is modelled; the other two have the same shape over other evidence.

## 3. Runs

`CHECK_DEADLOCK` is off where a bound lets the system stop: revisions, Jobs, Runs or Operations are used
up, where the code would go on. The download run, whose system never stops, checks deadlock.

| Run | Instance | Shows |
|---|---|---|
| `fencing` | 1 subscription, 1 cycle, 2 workers, 3 tokens, 3 Runs, 2 attempts; 236,976 states | `TypeOK`, `DormantCycleCanRun`, `RunTruthIsKept`, `CoordinatorPerSuccess`, `HolderRunIsItsOwn`, `StaleWorkerIsHarmless`, `JobFollowsTransitionTable` under every action of `Scheduler` |
| `lanes` | 2 subscriptions of one account, lanes of limit 2, 2 workers, 2 attempts; 322,517 states | `ProbeCanReport`, `ProbesNeverCross`, `LaneAdmission` |
| `cycles` | 1 subscription, 2 cycles, 1 worker, 1 attempt; 205,515 states | `ActiveCycleIsCurrent`; `KeepsLedger`: `Scheduler` implements `CycleLedger` |
| `live` | 2 accounts behind one platform, 1 worker, 2 attempts; 83,785 states | `CycleComesToAnEnd` |
| `run_now` | 1 subscription, 2 cycles | finding: a run-now during a cycle is lost |
| `download` | 1 asset, 2 generations, 2 contents (one no acceptable media), 3 tokens, 2 attempts; 995,768 states | `VerifiedWasFetched`, `RowsAgree`, `PartIsOneContent`, `OvertakenRunIsHarmless`, `TypeOK`; `DownloadSettles`: once faults end, an asset whose upstream is acceptable ends verified or failed for good |
| `download_stuck` | the same with 1 generation | finding: a crashed Job that is never reclaimed |
| `publish` | 3 plans over 2 files and the manifest, 2 crashes, 2 edits | `RestingTreeIsWhole`, `OldBytesUntilCommit`, `UserBytesKept`, `ValidatedTreeIsNeverUndone`; `PublishIsAtomic`: implements `AtomicPublish`; `InterruptedPublishSettles` |
| `publication` | 2 snapshots, 3 Jobs of 2 attempts, 2 callers; 748,954 states | `ForkNeedsReturnedTree`, `TreeIsAccountedFor`, `RecordsTellTheChain`, `RunningRecordHasItsJob` |
| `login` | 2 Operations of either kind; 710,937 states | `AccountFollowsLastLogin`, `ChildKeepsItsSession`, `VerdictIsTrue`, `TypeOK` |
| `ingest` | 3 records, two of one date, windows of 2, 3 Runs, 1 capture by hand; 4,129,110 states | `SucceededRunIsStored`, `CheckpointIsExact`, `TypeOK` |
| `delivery` | 3 cycles, 2 attempts each, 1 content, 1 worker, 2 checkouts, 2 account revisions, 4 events; 1,247,786 states | `BaselineIsEarned`, `ReceiptIsTrue`, `FallsBehindSilentlyOnly` |

`EmbyPublication` and `Delivery` define their type invariant without a run that lists it: TLC has evaluated
both on these instances, and their other properties say more.

### Why the bounds are enough

* *Workers and tokens.* Two workers are one holder and one stale worker, or two holders in two lanes: every
  guard compares a worker with the row, never with a third worker. Three tokens and Runs are one in the row
  and one in each memory. Where a lock admits one process (`AssetDownload`, `PublishJournal`), one worker
  that may crash at any point leaves everything a predecessor can leave. `Delivery` has one worker: what a
  late finaliser may do is decided by `Owns` of `JobLeases` alone, which the `publication` run meets with
  two callers.
* *Attempts.* Two are one below and one at the limit.
* *Generations, contents, snapshots.* Two of each are the old and the new; two snapshots and three Jobs are
  the least with which a tree goes and comes back.
* *Cycles.* Two in `Scheduler` are the active one and the next. Three in `Delivery` are the
  least for a baseline (history end, stable head) and something after it. One content is enough
  there because contents are treated one by one and the selection is compared as a whole.
* *Events.* `MaxEvents` bounds cycles, contents observed, ingests by hand and changes of the binding
  together (`Spent`). Four are three cycles and a change, or two cycles with a change and the way
  back: a rollback, a login back, continuation disabled and enabled again.
* *Ingestion.* Three records with windows of two overlap; the equal dates are the watermark's boundary. One
  capture by hand (`OneCrawlByHand`) is ingested once beside two attempts, twice beside one, or three times;
  a second one would be told from the first by its records and its revision only, and those range over all
  windows and over the current or an earlier revision already.
* *PublishJournal.* The plans have every kind of operation, and two crashes are one in the
  transaction and one in its recovery.
* `FailureCap = 1` puts the counter at its ceiling at once. Lane policies have threshold 1, which
  makes every counted failure trip: the hazards lie in what follows.

`Scheduler`'s runs use symmetry on workers, tokens and Runs where they check no liveness, and the view
`LiveRows`, which forgets the status of Runs nobody refers to: no guard can read it. `publication` uses
symmetry on its callers. `lanes` leaves out the actions that touch no lane (`LaneNext`) and, by the
constraint `NoStaleMemory`, the states in which a worker outlives its lease; the theorem
`StaleWorkersAreHarmless` says what such a worker does to the rows: nothing. `live` uses one worker for
the same reason. In `download` a step that draws a token draws the first free one (`DrawsFirstToken`), since
symmetry is unsound for its liveness property.

**Every property has a mutant**, a plausible bug beside the definition it replaces (`Mutant:` in the
comments): ownership without the token, a terminal Job that keeps its probe, a part resumed under another
validator, a recovery that writes the Job and not the record, a selection that is not compared again. TLC
finds the property violated under each.

### Fairness and liveness

*Scheduler.* `Fairness` says what the supervisor's loop and the clock justify: a worker's next step, reclaim
and timers are weakly fair; a claim of a particular Job is strongly fair, because a lane in use
refuses the Job in between and candidates are ordered by `available_at`, where every newcomer is later.
`Crash` stays possible in any worker step; nothing is assumed of operators.

`CycleComesToAnEnd`: an active cycle reaches a terminal status, or waits for a person, or is parked behind
a half-open probe that waits for a person (`ParkedBehindUser`). The last case is not hypothetical. A
`waiting_user` outcome does not count against a circuit and a Job that will run again keeps its probe, so
one account's open question holds the whole platform lane half-open. Documentation calls such Jobs
dormant until an explicit resume, so this is stated and not reported; an operator can resume,
cancel or reset the lane.

*AssetDownload.* Every pipeline pass selects an asset that is not verified, so a run for it is weakly fair,
and so is the expiry of a lease. That faults end is a hypothesis of the property, not of the system: the
variable `calm` of `MCAssetDownload` turns true at some moment or never, and after it no fault occurs.
`DownloadSettles` concludes only where it does. (`calm` is needed because a rejected recovery and a crash
may take the same step of the rows.)

*PublishJournal.* A running publisher runs on, and export Jobs are retried, each beginning with recovery;
crashes are bounded by `MaxCrashes`. `InterruptedPublishSettles` says that every interrupted publication is
brought to an end or left to the operator.

No liveness is claimed of `EmbyPublication` and `Delivery`: section 5 names the states in which they
stop moving for good. Nor is it of `AccountLogin` and `Ingestion`, whose ends are safety questions.

## 4. Findings

### Run-now during a cycle

`docs/architecture.md:103` says that pause, resume and run-now affect future materialisation, and `run_now`
promises to make a subscription immediately due (docstring, `repository.py:2463`). A request accepted
while a cycle is active is overwritten when the cycle ends: `_finalize_subscription` writes
`next_run_at = now + interval` unconditionally (1993-1997), and its guard, the schedule revision, is not
moved by `run_now`. `RunNowIsHonoured` is violated by materialise, run-now, cycle ends.

### A crashed download that is never reclaimed

`docs/architecture.md:93` says that a crashed worker makes the Job reclaimable after lease expiry. When a
complete part holds media that `verify_media` rejects and the lease expires before the failure is recorded,
`_begin` (`application/downloads.py:714`) always chooses the prepared-result recovery, `recover_published`
(`media/downloader.py:491`) raises before it looks at the archive, and the error is re-raised unrecorded
(`downloads.py:366`). The Job stays running under an expired lease, no attempt is consumed and the asset
never ends. `CrashedJobIsReclaimed` is violated by fetch, lease expiry, and recovery again and again.

## 5. Known limits of the code, as the models show them

These are consequences met while modelling. Where a property would otherwise fail they are its stated
exceptions; none is listed as a finding.

* **Publication: a tree that comes back.** The fence compares manifest bytes, not Jobs. A publisher that
  sleeps between renewing its lease (`application/emby.py:826`) and publishing, or a recovery of a child of
  an older head, is fooled when the chain went A, B, A meanwhile; disk and head may then disagree and the
  chain may fork, against `docs/architecture.md:239`. `ForkNeedsReturnedTree` says it takes no less.
* **Publication: a record left running.** A crashed attempt leaves the record of its source running; when
  the head moves on, the first attempt of that source's next Job refuses it (`emby.py:966-973`) and rolls
  back, every time.
* **File transaction.** A crash before the journal is written, or after a cleanup removed it first, leaves a
  transaction directory that every later call refuses (`publish_recovery_required`). A user's edit that a
  rollback moved aside just before a crash is deleted by the recovery's cleanup (`exporter.py:1909-1923`,
  `1722-1732`); `UserBytesKept` excepts it.
* **Ingestion.** A second crash, of the attempt that was recovering a sealed output, leaves the first
  attempt's directory on disk, neither recovered nor cleaned. A crash after the Run's success is reconciled
  by the scheduler, which does not clean the directory. A stale attempt's cleanup may remove the sealed
  output its successor is about to read, which is then rejected.
* **Retry backlog.** A selection holds what its Run observed and what earlier Runs left unverified. An attempt
  that downloads such a leftover makes its own second selection differ and fails with
  `pipeline_selection_changed`, retryable; the next attempt succeeds without it. So
  `delivered_retry_backlog_content_count` is zero in every receipt, which `docs/executions/0074` describes
  as counting them.
* **Progress left behind.** The row may miss a checkpoint with nobody on the way to deliver it and without a
  block; from then on `publish_success` refuses each delivery's evidence until the binding changes.
  `FallsBehindSilentlyOnly` says that a current row comes to that in six ways only:
  1. a removal cancels the waiting coordinator;
  2. an ingest by hand moves the checkpoint;
  3. a lease expires on the last attempt, where no worker is left to report it;
  4. a binding comes back to a row that was not current. While continuation is disabled or the lock
     unreadable, deliveries succeed without moving the row (`bili_delivery_progress.py:370-386`) and reported
     failures do not block it (548); once it is enabled the row is bound, unblocked and behind. An upgrade
     and a rollback, or a login and a policy edited back, around a reported failure do the same;
  5. a scan is foreign to the row: made under another binding, or overtaken by a row begun anew;
  6. a cycle that began without a binding, and so beside a coordinator under way, moves the checkpoint that
     coordinator would have delivered.

  In every other case a failure that a worker reports blocks the row.
* **Deliveries without a binding.** What is delivered while continuation is disabled is not counted: an
  incremental row stays incremental while history scans of its very binding are delivered.
  `BaselineIsEarned` therefore speaks, of what came after the stable head, only of what the row counted.
* **Bounded outputs ingested by hand.** Those of Xiaohongshu and Douyin take the watermark path
  (`cli.py:3158-3166`), which moves a watermark their scheduled units do not use and leaves the cursor where
  it is. This is not modelled; `Ingestion` says nothing about it.
* **Resumed reconciliation.** A reconciling row that was blocked and resumed keeps its cursor, so the next
  cycle may scan history, although the comment at `bili_delivery_progress.py:475-476` says reconciliation
  never rotates back into it. `BaselineIsEarned` holds nevertheless: the phase still needs a stable head.
* **Delivered and replaced.** A content whose assets are replaced between the second selection and the export
  is counted as delivered and skipped by the export; `ReceiptIsTrue` excepts it.

## 6. Proofs

### SchedulerProofs

For every number of subscriptions, accounts, platforms, workers, tokens, Runs,
attempts and revisions, from `SchedulerAssumption` (the constants have their types, null values are not
members) and `FailureCapAssumption` (the ceiling is positive):

| Theorem | States | Argument |
|---|---|---|
| `TypeCorrect` | `Spec => []TypeOK` | inductive as it stands: the attempts bound follows from the claim guard, the failure bound from `CountFailure`, the revision bound from the materialisation guard |
| `CurrentCycle` | `[]ActiveCycleIsCurrent` | `StepKeepsCycles`: every step but a materialisation keeps revisions and makes no ended Job active; a materialisation demands that no cycle be active |
| `DormantCyclesCanRun` | `[]DormantCycleCanRun` | the same summary says that whoever leaves a Job to the scheduler leaves it an attempt |
| `ProbesDoNotCross` | `[]ProbesNeverCross` | `NoNewProbes`: only a claim makes probes; `ClaimedLanesAreOwn`: after it each lane of the claimed Job is closed or probed by that Job |
| `StaleWorkersAreHarmless` | `Spec => StaleWorkerIsHarmless` | `WorkerStepIsGuarded`: a worker step moves one worker and writes rows only as the holder of the token; `OthersMoveNoWorker` for the rest |

The module is laid out bottom-up: the lane operators, the row-level effects that transactions share, types
action by action, then one section for each theorem. `JobMoves`, `StepKeepsCycles` and `NoNewProbes` are
action-level summaries, proved once for every action and used by several theorems.

### SchedulerRunProofs

From the same assumptions and the theorems above. `StepKinds` reduces the steps of `Next` to a handful of
kinds, named for what they do to the Jobs (a claim, a renewal, a Run attached, a verdict recorded, a
coordinator moved, a memory); what follows is proved kind by kind. `RunInv` adds to `TypeOK` and two of the
properties what they depend on:

* `TokensAreOwn`, `RunsAreOwn`: lease tokens and Run ids are fresh (`new_uuid`), so busy workers never share
  a token, nor Jobs a Run. Without it a late worker could pass the ownership test of another claim.
* `FutureIsAbsent`: a cycle that is not materialised has no row.
* `HolderKnowsTheRun`, `AttemptHasARun`: who still holds its Job remembers the Run that is attached to it.
* `SuccessIsDurable`: who remembers a success has it in the Run, and nobody takes it back.

| Theorem | States |
|---|---|
| `RunsAndJobsAgree` | `Spec => []RunInv` |
| `TheTruthOfARunIsKept` | `Spec => []RunTruthIsKept` |
| `OneCoordinatorPerSuccess` | `Spec => []CoordinatorPerSuccess` |
| `HoldersWorkOnTheirRun` | `Spec => []HolderRunIsItsOwn` |
| `JobsFollowTheTransitionTable` | `Spec => JobFollowsTransitionTable`; uses `RunTruthIsKept` for the reconciled attachments |
| `ProbesCanReport` | `Spec => []ProbeCanReport`; uses `ActiveCycleIsCurrent`: a probe is the Job of its subscription's current cycle |
| `CapacityIsKept` | leases never exceed the global capacity, an invariant no run states: only a claim adds a lease and it counts in its own transaction |
| `LanesAdmit` | `Spec => LaneAdmission`, by cardinalities of the leased Jobs of each lane |
| `TheLedgerIsKept` | `Spec => KeepsLedger`: `Scheduler` implements `CycleLedger`, initial states to initial states and every step to a step of the ledger or a stutter |

### AssetDownloadProofs

For every number of workers, tokens, attempts, generations and contents, from `JobAssumption` and
`AssetAssumption`. The properties need each other: what is verified depends on what a run holds, which
depends on what its part file holds. The inductive invariant `IInv` adds to `TypeOK`, `RowsAgree` and
`VerifiedWasFetched`: `PartsAreHonest` (a complete part of a generation holds one content, which was
fetched under it), `WorkersAreHonest` (what a run holds past its fetch was fetched under its generation and
accepted, and past its publication is in the archive) and `FutureIsBlank` (a generation to come has no Job,
so a replaced locator starts with the rows in agreement). The steps are proved in four groups: those of a
run that write rows, those that write files, the world, and faults.

| Theorem | States |
|---|---|
| `TypeCorrect` | `Spec => []TypeOK` |
| `RowsNeverPart` | `Spec => []RowsAgree` |
| `VerifiedIsTrue` | `Spec => []VerifiedWasFetched` |
| `PartsAreOfOneContent` | `Spec => []PartIsOneContent` |
| `OvertakenRunsAreHarmless` | `Spec => OvertakenRunIsHarmless`; from `TypeOK` alone: each step that writes a row demands the token and the generation |

### AccountLoginProofs

For every number of Operations, from `LoginAssumption`. `IInv` adds: `LoginsHaveTheirKind`; `LockIsHeld`
(who is past the lock holds it, and a QR login holds it only for a recovery or while its child may run);
`PointsAreTrue` and `EndsAreTrue` (what a thread has written, given where it stands, and that the end it is
about to record is true); `ListedAreRecoverable` (what a reconciler holds has not been written since).

| Theorem | States |
|---|---|
| `TypeCorrect` | `Spec => []TypeOK` |
| `AccountFollows` | `Spec => []AccountFollowsLastLogin` |
| `ChildIsUndisturbed` | `Spec => []ChildKeepsItsSession` |
| `VerdictsAreTrue` | `Spec => []VerdictIsTrue` |

### DeliveryProofs

For every number of cycles, attempts, workers, contents, checkouts, account revisions and events, from
`JobAssumption` and `DeliveryAssumption`. `IInv` has three parts:

* `Rows`: the types, `RowsAreBare` (a Job that is over, or not there yet, has no lease) and `BusyWorkers`.
* `Order`: `JobsFollow` (there is a coordinator exactly for each succeeded cycle), `BegunInOrder` (cycles
  begin in the order of their numbers and only the last may run) and `OvertakenUnbound` (what begins while a
  coordinator is under way began without a binding).
* `RowLedger`: `RowIsPast` (the row holds no revision but a past one or the next), `CountedAreOurs` (what the
  row counted was delivered under its binding), `LastIsCounted`, `EndIsBehind` (a row that has left the
  backfill has a delivered history end of its source) and `BaselineIsEarned`. `Descends` says what a row
  rebound by `ensure_for_materialization` may keep of the one before.

`StepKinds` says once that every step is `Quiet` (no coordinator ends well, the row stays or blocks),
`Begins`, `Succeeds` or `Delivers`; each then keeps order and ledger. `SilentlyOnly` goes action by action:
the lemmas that end in `Loud` show that each step but the six kinds keeps a coordinator that is awaited,
blocks the row, or brings it up to date. `ReceiptsAreTrue` has an invariant of its own, `Selections`.

| Theorem | States |
|---|---|
| `TypeCorrect` | `Spec => []TypeOK` |
| `BaselineEarned` | `Spec => []BaselineIsEarned` |
| `ReceiptsAreTrue` | `Spec => ReceiptIsTrue` |
| `SilentlyOnly` | `Spec => FallsBehindSilentlyOnly` |

### PublishJournalProofs

For every plan over any set of paths, every number of crashes and every set of edits, from `PlanAssumption`
(a first publication creates everything, edits are not managed bytes). `JournalInv` is `UserBytesKept` and
`Fits`, whose parts need one another:

* `TreeStands`: before the desired manifest is in, each path no user touched is where the code can find it
  from the directory alone: untouched (`Before`), moved aside (`Out`), placed (`Placed`) or moved to be
  verified (`Held`). Once it is in, every such file is final and there is no way back. This is what a crash
  leaves, so it has to hold between any two system calls of the publisher, the undo and the recovery.
* `DirectoryFits`, `OperationsFit`, `EditsAreUsed`: what the directory, its journal and marker may hold in
  each phase; a directory without a journal has no half of a tree beside it.
* `HalfFirst`: a step that was begun is the next one, so an action may use what its first half left in memory.
* `Executing`, `Undoing`, `RecoveryFits`: the steps left for a path say where its bytes are and what
  `captured` and `installed` know. `TreeStands` follows from them while the publisher runs, and they start
  from it when a recovery does.
* `Ended`: the directory is removed only when the tree is on one side and nothing of a user is in it.
* `AsideIsKnown`: a user's bytes in rollback/ or recovery/ are in the hand of the publisher, stranded by a
  crash, or under a marker; `UserBytesKept` is not inductive without it.

| Theorem | States | Beyond the invariant |
|---|---|---|
| `JournalInvariant` | `Spec => []JournalInv` | the order of the steps (`NextStep`, `TodoStays`) and one lemma for each action |
| `JournalTypeCorrect` | `Spec => []TypeOK` | |
| `TheTreeAtRestIsWhole` | `Spec => []RestingTreeIsWhole` | |
| `OldBytesOutliveThePublisher` | `Spec => []OldBytesUntilCommit` | |
| `TheUsersBytesAreKept` | `Spec => []UserBytesKept` | |
| `PublicationIsAtomic` | `Spec => PublishIsAtomic` | each step is one of `AtomicPublish` or a stutter (`StepIsPromised`) |
| `TheValidatedTreeIsKept` | `Spec => ValidatedTreeIsNeverUndone` | `Settled` is stable: the manifest in, neither held nor half linked |

### EmbyPublicationProofs

For every number of callers, Jobs, attempts and snapshots, from `JobAssumption` and `PublicationAssumption`.
`EmbyInv` has two halves. `RowsInv` holds always: the types; `RowsAreSettled` (a stored Job has been
started); `JobsFollowAnchors` (a Job follows a success or nothing, of another source, and the natural key is
unique); `OlderJobsAreSuperseded` (a source gets a second Job only when the place of the first is taken);
`RecordsFollowJobs` and `RecordsTellTheChain`; `MemoriesAreTrue` (what a caller remembers over its own
transactions). `ChainInv` holds until a tree has gone away and come back under a caller's eyes: the
successes are one chain, `FinishersAgree` (who is about to finish on the evidence of the tree follows the
head, and the tree is its own), and the tree is accounted for. Each of the three needs the others: the tree
leads to the head only if nobody finishes against it, and nobody does because the tree they look at is a
child's of the head.

| Theorem | States |
|---|---|
| `ExportsAgree` | `Spec => []EmbyInv` |
| `SuccessesFormAChain` | `Spec => []ForkNeedsReturnedTree` |
| `TheTreeIsAccountedFor` | `Spec => []TreeIsAccountedFor` |
| `TheRecordsTellTheChain` | `Spec => []RecordsTellTheChain` |
| `ARunningRecordHasItsJob` | `Spec => []RunningRecordHasItsJob` |

### IngestionProofs

For every finite set of records, every dating of them that is monotonic, every batch size, crawl limit and
number of Runs, from `IngestionAssumption`. `IngestInv` is `RowsInv`, which says of each Run which rows and
directory it has by now (`UnattachedIsBlank`, `SourceIsAttached`, `OpenIsPrivate`, `ModeIsKept`,
`SuccessIsOver`, `RevisionsArePast`), and `DataInv`, of which the unbounded half is the argument: the
watermark is the newest date stored (`WatermarkIsExact`), and whatever it refuses is stored already or out of
reach of every later crawl (`RefusedIsOutOfReach`). The latter holds because outputs are windows of the
newest records that only move forward (`RemoteIsPrefix`, `OutputIsWindow`) and because batches are taken
oldest first: after a crash between two of them all that is missing is newer than the watermark. An ingest
of a stale output does not break it, since `CurrentCrawlIsWhole` speaks of crawls made at the current
revision only. `TodoIsWhole` carries it over the batches. `CheckpointIsExact` includes a sum over the Runs,
which the community modules define by recursion on a set; `SumsExist`, `SumsAreUnique` and `SumsMove` give
what the proof needs of it, by a smallest counterexample (`SmallestOne`) instead of an induction.

| Theorem | States |
|---|---|
| `RowsAndCheckpointAgree` | `Spec => []IngestInv` |
| `TypeCorrect` | `Spec => []TypeOK` |
| `SucceededIsStored` | `Spec => []SucceededRunIsStored` |
| `TheCheckpointIsExact` | `Spec => []CheckpointIsExact` |

### Only model-checked

* Liveness: `ENABLED`, and so fairness, is outside the prover's reach.
  `CycleComesToAnEnd`, `DownloadSettles` and `InterruptedPublishSettles` stay with TLC. Every other property
  of a passing run is stated by a theorem.

## 7. Not modelled

* **Resident supervisor.** No durable state. Its loop calls transactions that are actions above and may fire
  in any order; shutdown is a crash to the rows. Whether its joins return is a question about asyncio.
* **Media-server publication and observation.** One row per refresh request, and evidence read from an
  external server whose index the repository does not define.
* **MediaCrawler bridge, platform adapters, detail runners.** Child processes, parsing and translation of
  vendored code's output: what they may produce is the input the models enumerate.
* **Interfaces, configuration, security, observability.** Request parsing, redaction, secrets and logs; they
  change state through the transactions of the components above.
* **Operation kinds** other than logins: their reconcilers decide from rows of the components above.
* **Xiaohongshu and Douyin progress**, and the continuation of a scan inside a unit.
* **Backoff arithmetic** (`RetryPolicy`): delays have no length in the models.

## 8. Running

```sh
tlc -workers 2 -config MCSchedulerFencing.cfg MCScheduler.tla   # and Lanes, Cycles, Live
tlc -workers 2 -config MCRunNow.cfg MCRunNow.tla                # ends with the finding's trace
tlc -workers 2 -config MCAssetDownload.cfg MCAssetDownload.tla  # and MCAssetDownloadStuck.cfg
tlc -workers 2 -config MCDelivery.cfg MCDelivery.tla            # and the other MC modules likewise
tlapm SchedulerProofs.tla                                       # and the other seven
```
