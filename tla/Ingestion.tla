-------------------------------- MODULE Ingestion -------------------------------
(* From a crawl to the library.  An attempt of a scheduled Job attaches a       *)
(* SyncRun, crawls into a directory of its own, seals the output and ingests    *)
(* it: in batches behind a watermark, or, where captures are bounded by a       *)
(* cursor, as one unit.  The next attempt of a dead one ingests the output the  *)
(* dead one sealed.  An operator may ingest by hand an output captured outside  *)
(* the scheduler; of a subscription with a cursor that is a unit for Bilibili   *)
(* only, so a bounded subscription with ingests by hand is one of Bilibili.     *)
(* Source: scheduler/mediacrawler_handler.py, infrastructure/db/                *)
(* mediacrawler_ingestion.py and SubscriptionRepository.publish_checkpoint.     *)
(*                                                                              *)
(* The Job is its lease and its attached Run; Scheduler.tla has the rest of it. *)
(* A Run, its process and its attempt directory share a number.  Upstream dates *)
(* never go back, and records without a date, which no watermark refuses, are   *)
(* left out, as are assets, observations and the quarantine of directories that *)
(* cannot be removed.                                                           *)
EXTENDS Integers, FiniteSetsExt

CONSTANTS Dates,      \* the date of every record upstream will publish
          MaxItems,   \* Subscription.max_items
          BatchSize,
          MaxRuns     \* bound of the number of Runs

Records == DOMAIN Dates
Runs == 1..MaxRuns

ASSUME IngestionAssumption ==
  /\ Records \subseteq Nat /\ IsFiniteSet(Records)
  /\ \A r \in Records : Dates[r] \in Nat \ {0} /\ \A q \in Records : q < r => Dates[q] <= Dates[r]
  /\ {MaxItems, BatchSize, MaxRuns} \subseteq Nat \ {0}

VARIABLES
  bounded,   \* captures are bounded by a cursor; never changes
  remote,    \* the records published upstream
  library,   \* the contents in the database
  sub,       \* the Subscription's checkpoint
  run,       \* the SyncRuns
  out,       \* the attempt directories; their records outlive them as history
  job,       \* holder of the scheduler Job's lease, and its attached Run
  proc       \* the attempts of the Job, and the captures and ingests by hand

vars == <<bounded, remote, library, sub, run, out, job, proc>>

--------------------------------------------------------------------------------
(* States *)

Statuses == {"none", "running", "ingesting", "succeeded", "failed", "cancelled"}

Points == {"unused", "attach", "crawl", "ingest", "load", "batches", "publish",
           "clean", "fail", "done"}

NoRun == [status |-> "none", before |-> 0, after |-> 0, found |-> 0]

NoOutput == [state |-> "none", records |-> {}, origin |-> 0, cursor |-> 0]

Unused == [pc |-> "unused", manual |-> FALSE, src |-> 0, todo |-> {}, result |-> "none"]

(* watermark_remote_ids are the contents of the watermark's date.               *)
TypeOK ==
  /\ bounded \in BOOLEAN
  /\ remote \subseteq Records /\ library \subseteq remote
  /\ sub \in [revision : Nat, mark : Nat, ids : SUBSET Records, cursor : Nat]
  /\ \A r \in sub.ids : Dates[r] = sub.mark
  /\ run \in [Runs -> [status : Statuses, before : Nat, after : Nat, found : Nat]]
  /\ out \in [Runs -> [state : {"none", "open", "sealed"}, records : SUBSET Records,
                       origin : Nat, cursor : Nat]]
  /\ job \in [owner : {0} \cup Runs, current : {0} \cup Runs]
  /\ proc \in [Runs -> [pc : Points, manual : BOOLEAN, src : {0} \cup Runs,
                        todo : SUBSET Records, result : {"none", "success", "failed", "fenced"}]]

Init ==
  /\ bounded \in BOOLEAN
  /\ remote = {} /\ library = {}
  /\ sub = [revision |-> 0, mark |-> 0, ids |-> {}, cursor |-> 0]
  /\ run = [p \in Runs |-> NoRun]
  /\ out = [p \in Runs |-> NoOutput]
  /\ job = [owner |-> 0, current |-> 0]
  /\ proc = [p \in Runs |-> Unused]

Goto(p, pc) == proc' = [proc EXCEPT ![p].pc = pc]
End(p) == proc' = [proc EXCEPT ![p] = [@ EXCEPT !.pc = "done", !.todo = {}, !.result = "none"]]

(* The source is secured before anything else is said of an attempt; an ingest  *)
(* by hand leaves the directory where it is.                                    *)
Leave(p, result) ==
  IF proc[p].manual
    THEN IF result = "failed" THEN Goto(p, "fail") ELSE End(p)
    ELSE proc' = [proc EXCEPT ![p].pc = "clean", ![p].result = result, ![p].todo = {}]

(* The ownership guard of every transaction of an attempt.                      *)
Owned(p) == proc[p].manual \/ job.owner = p

Next1(p) == proc[p].pc = "unused" /\ \A q \in Runs : q < p => proc[q].pc # "unused"

--------------------------------------------------------------------------------
(* Upstream *)

(* Records are numbered in this order.  Bound: a crawl is still to come.        *)
Publish(r) ==
  /\ r \notin remote /\ {q \in Records : q < r} \subseteq remote
  /\ \E p \in Runs : proc[p].pc \in {"unused", "attach", "crawl"}
  /\ remote' = remote \cup {r}
  /\ UNCHANGED <<bounded, library, sub, run, out, job, proc>>

(* A crawl returns the newest records, at most max_items of them.  (A bounded   *)
(* capture pages through its scope; nothing depends on what it returns.)        *)
Outputs ==
  {w \in SUBSET remote :
     /\ Cardinality(w) <= MaxItems
     /\ w = remote \/ Cardinality(w) = MaxItems
     /\ \A r \in w, q \in remote \ w : q < r}

--------------------------------------------------------------------------------
(* MediaCrawlerScheduledHandler.run *)

(* claim: the next attempt of the Job, or the first one of the next Job.        *)
StartAttempt(p) ==
  /\ Next1(p) /\ job.owner = 0
  /\ job' = [job EXCEPT !.owner = p]
  /\ proc' = [proc EXCEPT ![p] = [Unused EXCEPT !.pc = "attach", !.src = job.current]]
  /\ UNCHANGED <<bounded, remote, library, sub, run, out>>

(* _recover_sealed_output: the directory the attempt will ingest, its own when  *)
(* it has to crawl; 0 rejects the output.  The root of an output that is not    *)
(* recovered is removed.                                                        *)
Recovered(p, q) ==
  IF q = 0 \/ out[q].state # "sealed" THEN {p} ELSE {q, 0}

(* _create_attached_run: the attached Run is replaced by one of this attempt.   *)
Attach(p) ==
  LET q == proc[p].src
      left(src) == [r \in Runs |-> IF r = q /\ src # q THEN [out[r] EXCEPT !.state = "none"]
                                  ELSE out[r]]
      replaced(r) == r = job.current /\ run[r].status \in {"running", "ingesting"}
      attached == [NoRun EXCEPT !.status = "running",
                                !.before = sub.revision, !.after = sub.revision]
  IN /\ proc[p].pc = "attach"
     /\ \E src \in Recovered(p, q) :
          IF Owned(p)
            THEN /\ run' = [r \in Runs |-> CASE r = p -> attached
                                            [] replaced(r) -> [run[r] EXCEPT !.status = "cancelled"]
                                            [] OTHER -> run[r]]
                 /\ job' = [job EXCEPT !.current = p]
                 /\ proc' = [proc EXCEPT ![p].pc = CASE src = 0 -> "fail"
                                                    [] src = p -> "crawl"
                                                    [] OTHER -> "ingest",
                                         ![p].src = IF src = 0 THEN p ELSE src]
                 /\ out' = IF src = p
                             THEN [left(src) EXCEPT ![p] = [NoOutput EXCEPT !.state = "open",
                                                              !.origin = sub.revision,
                                                              !.cursor = sub.cursor]]
                             ELSE left(src)
            ELSE End(p) /\ out' = left(src) /\ UNCHANGED <<run, job>>
     /\ UNCHANGED <<bounded, remote, library, sub>>

(* The runner crawls and seals; a successor may have removed the directory.     *)
Crawl(p) ==
  /\ proc[p].pc = "crawl"
  /\ \/ /\ out[p].state = "open"
        /\ \E w \in Outputs : out' = [out EXCEPT ![p].state = "sealed", ![p].records = w]
        /\ Goto(p, "ingest")
     \/ Leave(p, "failed") /\ UNCHANGED out
  /\ UNCHANGED <<bounded, remote, library, sub, run, job>>

(* _set_ingesting *)
SetIngesting(p) ==
  /\ proc[p].pc = "ingest"
  /\ IF Owned(p)
       THEN /\ run' = [run EXCEPT ![p].status = "ingesting"]
            /\ Goto(p, IF bounded THEN "publish" ELSE "load")
       ELSE Leave(p, "fenced") /\ UNCHANGED run
  /\ UNCHANGED <<bounded, remote, library, sub, out, job>>

(* A cancelled attempt joins its transaction, secures the source and lets its   *)
(* lease lapse.                                                                 *)
Cancelled(p) ==
  /\ proc[p].pc \in {"crawl", "ingest", "load", "batches", "publish"} /\ ~proc[p].manual
  /\ Leave(p, "fenced")
  /\ UNCHANGED <<bounded, remote, library, sub, run, out, job>>

(* _secure_durable_source, _cleanup_before_fence                                *)
Clean(p) ==
  /\ proc[p].pc = "clean"
  /\ out' = [out EXCEPT ![proc[p].src].state = "none"]
  /\ IF proc[p].result = "failed" THEN Goto(p, "fail") ELSE End(p)
  /\ UNCHANGED <<bounded, remote, library, sub, run, job>>

(* _set_run_failure, _mark_ingest_failure                                       *)
SetRunFailure(p) ==
  /\ proc[p].pc = "fail"
  /\ IF Owned(p) THEN run' = [run EXCEPT ![p].status = "failed"]
                 ELSE UNCHANGED run
  /\ End(p)
  /\ UNCHANGED <<bounded, remote, library, sub, out, job>>

(* The lease ends: the attempt settled its Job, or it expired and is reclaimed, *)
(* or an operator cancelled.  The Job is over, as it is for certain once its    *)
(* attached Run has succeeded, or there will be another attempt.                *)
LeaseEnds ==
  /\ job.owner # 0
  /\ \/ job' = [owner |-> 0, current |-> 0]
     \/ /\ job.current # 0 => run[job.current].status # "succeeded"
        /\ job' = [job EXCEPT !.owner = 0]
  /\ UNCHANGED <<bounded, remote, library, sub, run, out, proc>>

Crash(p) ==
  /\ proc[p].pc \notin {"unused", "done"}
  /\ End(p)
  /\ UNCHANGED <<bounded, remote, library, sub, run, out, job>>

--------------------------------------------------------------------------------
(* media-sync sync ingest *)

(* A bridge job prepared outside the scheduler, as the tests do, has crawled    *)
(* into a directory named after its own Job.  It began at this revision, or at  *)
(* an earlier one; of those the first will do, since an origin is only told     *)
(* from the current revision.                                                   *)
CrawlByHand(p) ==
  /\ Next1(p)
  /\ \E w \in Outputs, origin \in {0, sub.revision} :
       out' = [out EXCEPT ![p] = [state |-> "sealed", records |-> w, origin |-> origin,
                                  cursor |-> sub.cursor]]
  /\ proc' = [proc EXCEPT ![p] = [Unused EXCEPT !.pc = "done", !.manual = TRUE, !.src = p]]
  /\ UNCHANGED <<bounded, remote, library, sub, run, job>>

(* The command finds no other directory: those of attempts are named otherwise. *)
MadeByHand(q) == out[q].state = "sealed" /\ proc[q].manual /\ proc[q].src = q

(* At the current revision, as often as one likes: at any other one it fails.   *)
IngestByHand(p) ==
  /\ \E q \in Runs :
       /\ MadeByHand(q)
       /\ IF p = q THEN run[p] = NoRun ELSE Next1(p)
       /\ proc' = [proc EXCEPT ![p] = [Unused EXCEPT !.pc = IF bounded THEN "publish" ELSE "load",
                                                     !.manual = TRUE, !.src = q]]
  /\ run' = [run EXCEPT ![p] = [NoRun EXCEPT !.status = "ingesting",
                                             !.before = sub.revision, !.after = sub.revision]]
  /\ UNCHANGED <<bounded, remote, library, sub, out, job>>

--------------------------------------------------------------------------------
(* MediaCrawlerIngestionService *)

(* _accept_forward *)
AcceptForward(r) == \/ Dates[r] > sub.mark
                    \/ Dates[r] = sub.mark /\ r \notin sub.ids

(* Mutant: a recovered crawl is filtered like a fresh one.                      *)
AcceptedForward(p) == {r \in out[proc[p].src].records : AcceptForward(r)}

(* A crawl older than the checkpoint also fills in what is missing.             *)
Accepted(p) ==
  LET q == proc[p].src
      recovering == out[q].origin < run[p].after
  IN {r \in out[q].records : AcceptForward(r) \/ (recovering /\ r \notin library)}

(* Mutant: a Run publishes whatever the revision has become meanwhile.          *)
MayPublishAny(p) == Owned(p) /\ run[p].status = "ingesting"

(* The guard, the compare-and-set of publish_checkpoint, and the Run's side of  *)
(* it in record_checkpoint_publication.                                         *)
MayPublish(p) ==
  /\ Owned(p) /\ run[p].status = "ingesting"
  /\ sub.revision = run[p].after

Refused(p) == Leave(p, IF Owned(p) THEN "failed" ELSE "fenced")

(* _load_start_state and _load_existing_record_keys; a writer between the two   *)
(* moves the revision, and nothing is published.                                *)
LoadStart(p) ==
  /\ proc[p].pc = "load"
  /\ IF MayPublish(p)
       THEN proc' = [proc EXCEPT ![p].pc = "batches", ![p].todo = Accepted(p)]
       ELSE Refused(p)
  /\ UNCHANGED <<bounded, remote, library, sub, run, out, job>>

(* Mutant: the newest records are ingested first.                               *)
FirstNewest(todo) ==
  CHOOSE b \in SUBSET todo :
    /\ Cardinality(b) = Min({BatchSize, Cardinality(todo)})
    /\ \A r \in b, q \in todo \ b : q < r

(* _forward_batch_key, _partition *)
First(todo) ==
  CHOOSE b \in SUBSET todo :
    /\ Cardinality(b) = Min({BatchSize, Cardinality(todo)})
    /\ \A r \in b, q \in todo \ b : r < q

(* Mutant: an older watermark's contents stay in the boundary.                  *)
AdvancedKeepingIds(b) ==
  LET date == Max({sub.mark} \cup {Dates[r] : r \in b})
  IN [sub EXCEPT !.revision = @ + 1, !.mark = date,
                 !.ids = @ \cup {r \in b : Dates[r] = date}]

(* publish_checkpoint, with the boundary of _watermark_boundary                 *)
Advanced(b) ==
  LET date == Max({sub.mark} \cup {Dates[r] : r \in b})
  IN [sub EXCEPT !.revision = @ + 1, !.mark = date,
                 !.ids = (IF date = sub.mark THEN @ ELSE {}) \cup {r \in b : Dates[r] = date}]

(* One transaction: the contents, the checkpoint and the Run.                   *)
Store(p, b, checkpoint, final) ==
  /\ library' = library \cup b
  /\ sub' = checkpoint
  /\ run' = [run EXCEPT ![p].after = @ + 1,
                        ![p].found = @ + Cardinality(b \ library),
                        ![p].status = IF final THEN "succeeded" ELSE @]

Batch(p) ==
  LET b == First(proc[p].todo)
      final == b = proc[p].todo
  IN /\ proc[p].pc = "batches"
     /\ IF MayPublish(p)
          THEN /\ Store(p, b, Advanced(b), final)
               /\ IF final THEN Leave(p, "success")
                           ELSE proc' = [proc EXCEPT ![p].todo = @ \ b]
          ELSE Refused(p) /\ UNCHANGED <<library, sub, run>>
     /\ UNCHANGED <<bounded, remote, out, job>>

(* Mutant: a unit is published at whatever cursor the subscription has.         *)
MayPublishUnitAnyCursor(p) == Owned(p) /\ run[p].status = "ingesting"

(* The scope and cursor conditions of the bounded ingests                       *)
MayPublishUnit(p) ==
  /\ MayPublish(p)
  /\ out[proc[p].src].origin = run[p].before
  /\ out[proc[p].src].cursor = sub.cursor

(* ingest_bili_bounded, ingest_xhs_bounded, ingest_douyin_bounded               *)
PublishUnit(p) ==
  /\ proc[p].pc = "publish"
  /\ IF MayPublishUnit(p)
       THEN /\ Store(p, out[proc[p].src].records,
                     [sub EXCEPT !.revision = @ + 1,
                                 !.cursor = out[proc[p].src].cursor + 1], TRUE)
            /\ Leave(p, "success")
       ELSE Refused(p) /\ UNCHANGED <<library, sub, run>>
  /\ UNCHANGED <<bounded, remote, out, job>>

--------------------------------------------------------------------------------
Next ==
  \/ \E r \in Records : Publish(r)
  \/ \E p \in Runs :
       \/ StartAttempt(p) \/ Attach(p) \/ Crawl(p) \/ SetIngesting(p)
       \/ Cancelled(p) \/ Clean(p) \/ SetRunFailure(p) \/ Crash(p)
       \/ CrawlByHand(p) \/ IngestByHand(p) \/ LoadStart(p) \/ Batch(p) \/ PublishUnit(p)
  \/ LeaseEnds

Spec == Init /\ [][Next]_vars

--------------------------------------------------------------------------------
(* Properties *)

(* A Run that succeeded has its whole output in the library: what it skipped,   *)
(* because the watermark said so, was there.  Neither a crash between batches   *)
(* nor a crawl ingested out of turn makes the watermark lie.                    *)
SucceededRunIsStored ==
  \A p \in Runs :
    run[p].status = "succeeded" => out[proc[p].src].records \subseteq library

Published(p) == (run[p].before + 1)..run[p].after

(* Every revision was published by one Run, each Run's in a row; the contents   *)
(* were counted once, by the Run that brought them; the watermark is the newest *)
(* date of the library with all of its contents, so no recovery takes it back;  *)
(* and a cursor has moved on once for every Run that succeeded.                 *)
CheckpointIsExact ==
  /\ \A p, q \in Runs : p # q => Published(p) \cap Published(q) = {}
  /\ UNION {Published(p) : p \in Runs} = 1..sub.revision
  /\ MapThenSumSet(LAMBDA p : run[p].found, Runs) = Cardinality(library)
  /\ IF bounded THEN sub.cursor = Cardinality({p \in Runs : run[p].status = "succeeded"})
     ELSE /\ sub.mark = Max({0} \cup {Dates[r] : r \in library})
          /\ sub.ids = {r \in library : Dates[r] = sub.mark}
================================================================================
