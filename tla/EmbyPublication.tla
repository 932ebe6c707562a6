---------------------------- MODULE EmbyPublication ----------------------------
(* EmbyExportService (application/emby.py): one author's media library, as a    *)
(* chain of export.emby Jobs in the database (each naming its predecessor), the *)
(* ExportRecords beside them (ExportRecordRepository) and the published tree on *)
(* disk (exporters/emby/exporter.py).                                           *)
(*                                                                              *)
(* The database and the directory are changed by different steps: an intent is  *)
(* written, the tree is published under the author lock, the Job is finished.   *)
(* Any number of callers do this at once, a caller may die or outlive its lease *)
(* between any two steps, and a later caller finishes what the tree proves was  *)
(* published.                                                                   *)
(*                                                                              *)
(* A tree is named by the source snapshot it renders (the manifest bytes depend *)
(* on nothing else when no content is incomplete), and one record stands for    *)
(* the records of all contents of a snapshot.  Publishing is one step: what     *)
(* AtomicPublish promises and PublishJournal implements.                        *)
EXTENDS JobLeases, Sequences, FiniteSets

CONSTANTS Workers,
          Sources,    \* source fingerprints of the author's snapshots
          NoTree,     \* no manifest
          MaxJobs     \* bound of the number of export.emby Jobs

ASSUME PublicationAssumption ==
  NoTree \notin Sources /\ MaxJobs \in Nat \ {0} /\ 1..MaxAttempts \subseteq Tokens

VARIABLES
  snapshot,    \* the source fingerprint of the author's contents now
  jobs,        \* the Jobs of this author, scope and path; a Job's id is its place
  record,      \* the ExportRecord of each source
  tree,        \* the published manifest
  worker,      \* what each caller remembers between transactions
  fooled       \* history: a step was taken on a predecessor that had come back

vars == <<snapshot, jobs, record, tree, worker, fooled>>

--------------------------------------------------------------------------------
(* States *)

JobIds == 1..MaxJobs
NoJob == 0          \* predecessor_job_id IS NULL

Trees == Sources \cup {NoTree}

ExportJobs == [row : JobRows, source : Sources, predecessor : {NoJob} \cup JobIds,
               intent : BOOLEAN]

RecordStatuses == {"pending", "running", "failed_retryable", "failed_terminal", "succeeded"}

(* "pending" also stands for a record that does not exist yet.                  *)

Points == {"idle", "scanning", "recovering", "preparing", "prepared", "rendered",
           "renewed", "published", "failing"}

WorkerStates == [pc : Points, job : {NoJob} \cup JobIds, token : Tokens \cup {NoToken},
                 seen : Trees,                \* predecessor_manifest_sha256 of the render
                 reused : BOOLEAN,            \* the record had already succeeded
                 candidates : SUBSET JobIds,  \* the Jobs of a _RecoveryScan
                 retryable : BOOLEAN]

Idle == [pc |-> "idle", job |-> NoJob, token |-> NoToken, seen |-> NoTree,
         reused |-> FALSE, candidates |-> {}, retryable |-> FALSE]

TypeOK ==
  /\ snapshot \in Sources
  /\ jobs \in Seq(ExportJobs) /\ Len(jobs) <= MaxJobs
  /\ record \in [Sources -> RecordStatuses]
  /\ tree \in Trees
  /\ worker \in [Workers -> WorkerStates]
  /\ \A w \in Workers : worker[w].job \in {NoJob} \cup DOMAIN jobs
  /\ \A j \in DOMAIN jobs : jobs[j].predecessor < j /\ jobs[j].row.status # "absent"
  /\ fooled \in BOOLEAN

Init ==
  /\ snapshot \in Sources
  /\ jobs = <<>>
  /\ record = [s \in Sources |-> "pending"]
  /\ tree = NoTree
  /\ worker = [w \in Workers |-> Idle]
  /\ fooled = FALSE

--------------------------------------------------------------------------------
(* The chain *)

Anchors == {j \in DOMAIN jobs : jobs[j].row.status = "succeeded"}

Children(id) == {j \in DOMAIN jobs : jobs[j].predecessor = id}

(* _resolve_publication_head: a fork or a second genesis is inconsistent.       *)
IsChain ==
  \A j \in Anchors :
    /\ jobs[j].predecessor \in Anchors \cup {NoJob}
    /\ Cardinality(Children(jobs[j].predecessor) \cap Anchors) = 1

Heads == {j \in Anchors : Children(j) \cap Anchors = {}}

HeadJob == IF Anchors = {} THEN NoJob ELSE CHOOSE j \in Heads : TRUE

TreeOf(id) == IF id = NoJob THEN NoTree ELSE jobs[id].source

IsChild(id) == jobs[id].predecessor = HeadJob

(* The direct pending work of the head, and what of it may be on disk already.  *)
Pending == Children(HeadJob) \ Anchors
Recoverable == {j \in Pending : jobs[j].intent}

--------------------------------------------------------------------------------
(* Preparation: one transaction, repeated after each recovery *)

Goto(w, pc) == worker' = [worker EXCEPT ![w].pc = pc]
GiveUp(w)   == worker' = [worker EXCEPT ![w] = Idle]

(* export_author with scan_recovery: an intent of the head's children must be   *)
(* compared with the disk before anything else.                                 *)
Scan(w) ==
  /\ worker[w].pc = "idle" /\ IsChain
  /\ Recoverable # {}
  /\ worker' = [worker EXCEPT ![w] = [Idle EXCEPT !.pc = "scanning",
                                                  !.candidates = Recoverable]]
  /\ UNCHANGED <<snapshot, jobs, record, tree, fooled>>

(* _recover_published_predecessor: validate_published under the author lock.    *)
(* Two candidates never match: they would share the natural key.                *)
Validate(w) ==
  LET matching == {j \in worker[w].candidates : jobs[j].source = tree}
  IN /\ worker[w].pc = "scanning"
     /\ \/ /\ matching = {}
           /\ worker' = [worker EXCEPT ![w] = [Idle EXCEPT !.pc = "preparing"]]
           /\ UNCHANGED fooled
        \/ \E id \in matching :
             /\ worker' = [worker EXCEPT ![w] = [Idle EXCEPT !.pc = "recovering", !.job = id]]
             /\ fooled' = (fooled \/ (jobs[id].source = tree /\ ~IsChild(id)))
     /\ UNCHANGED <<snapshot, jobs, record, tree>>

(* Mutant: the Job is finished and its records are left for the next export.    *)
FinalizeRecoveredJobOnly(w) ==
  LET id == worker[w].job
  IN /\ worker[w].pc = "recovering"
     /\ jobs' = IF CanRecover(jobs[id].row) THEN [jobs EXCEPT ![id].row = Completed(@)] ELSE jobs
     /\ GiveUp(w)
     /\ UNCHANGED <<snapshot, record, tree, fooled>>

(* _finalize_recovered_publication: the records and the Job in one transaction. *)
FinalizeRecovered(w) ==
  LET id == worker[w].job
      source == jobs[id].source
  IN /\ worker[w].pc = "recovering"
     /\ IF /\ CanRecover(jobs[id].row)
           /\ record[source] \in {"succeeded", "running", "failed_retryable", "failed_terminal"}
          THEN /\ jobs' = [jobs EXCEPT ![id].row = Completed(@)]
               /\ record' = [record EXCEPT ![source] = "succeeded"]
          ELSE UNCHANGED <<jobs, record>>
     /\ GiveUp(w)
     /\ UNCHANGED <<snapshot, tree, fooled>>

(* Every claim draws a new token and counts an attempt, so the attempt's number *)
(* tells the tokens of one Job apart.                                           *)
NewToken(row) == row.attempts + 1

(* enqueue is idempotent by the natural key: the source and the predecessor.    *)
Existing == {j \in DOMAIN jobs : jobs[j].source = snapshot /\ jobs[j].predecessor = HeadJob}

Queued == [row |-> Enqueued(NoJobRow), source |-> snapshot, predecessor |-> HeadJob,
           intent |-> FALSE]

(* Mutant: whoever prepares the source next takes a running record over.        *)
MayBeginRunning(status, first) == status \in RecordStatuses

(* ExportRecordRepository.begin, and what a first attempt and a retry accept.   *)
MayBegin(status, first) ==
  status \in {"succeeded", "pending", "failed_retryable"}
               \cup (IF first THEN {"failed_terminal"} ELSE {"running"})

(* _terminalize_running_records, after the reclaim took the last attempt.       *)
MayTerminalize(status) == status # "pending"
Terminalized(status) == IF status = "succeeded" THEN status ELSE "failed_terminal"

MayPrepare(w) ==
  /\ \/ worker[w].pc = "idle" /\ Recoverable = {}
     \/ worker[w].pc = "preparing"
  /\ IsChain

(* _prepare proper, when the head is not the snapshot already.  A conflict on   *)
(* the record rolls the whole transaction back.                                 *)
Prepare(w) ==
  LET known == Existing # {}
      id    == IF known THEN CHOOSE j \in Existing : TRUE ELSE Len(jobs) + 1
      all   == IF known THEN jobs ELSE Append(jobs, Queued)
      row   == all[id].row
      mine  == record[snapshot]
  IN /\ MayPrepare(w)
     /\ TreeOf(HeadJob) # snapshot
     /\ id \in JobIds
     /\ IF Claimable(row) /\ MayBegin(mine, row.attempts = 0)
          THEN /\ jobs' = [all EXCEPT ![id].row = Started(Claimed(@, NewToken(@)))]
               /\ record' = [record EXCEPT ![snapshot] =
                               IF @ = "succeeded" THEN @ ELSE "running"]
               /\ worker' = [worker EXCEPT ![w] =
                    [Idle EXCEPT !.pc = "prepared", !.job = id, !.token = NewToken(row),
                                 !.reused = (mine = "succeeded")]]
          ELSE /\ IF Claimable(row) THEN UNCHANGED <<jobs, record>>
                  ELSE IF Reclaimed(row).status # "failed_terminal"
                  THEN UNCHANGED <<jobs, record>>
                  ELSE IF MayTerminalize(mine)
                  THEN /\ jobs' = [all EXCEPT ![id].row = Reclaimed(@)]
                       /\ record' = [record EXCEPT ![snapshot] = Terminalized(@)]
                  ELSE UNCHANGED <<jobs, record>>
               /\ GiveUp(w)
     /\ UNCHANGED <<snapshot, tree, fooled>>

(* The other ends of a preparation leave nothing behind: the head is the        *)
(* snapshot (_load_existing_export, _already_exported: the caller is told so, or *)
(* that the tree is not the head's), or an error rolled the transaction back.   *)
PrepareNothing(w) ==
  /\ worker[w].pc = "preparing"
  /\ GiveUp(w)
  /\ UNCHANGED <<snapshot, jobs, record, tree, fooled>>

--------------------------------------------------------------------------------
(* One attempt *)

Me(w) == jobs[worker[w].job]

(* _fence_render_predecessor: the tree is the exact predecessor, or already the *)
(* desired one.                                                                 *)
Fenced(w) == \/ tree = TreeOf(Me(w).predecessor)
             \/ tree = Me(w).source

(* An I/O error is retryable; a mismatch, or a file the user has modified or    *)
(* put in the way, is not.                                                      *)
Render(w) ==
  /\ worker[w].pc = "prepared"
  /\ \/ /\ Fenced(w)
        /\ worker' = [worker EXCEPT ![w].pc = "rendered", ![w].seen = tree]
     \/ \E retryable \in BOOLEAN :
          worker' = [worker EXCEPT ![w].pc = "failing", ![w].retryable = retryable]
  /\ UNCHANGED <<snapshot, jobs, record, tree, fooled>>

(* Mutant: the lease is renewed and the intent follows with the result.         *)
RenewWithoutIntent(w) ==
  /\ worker[w].pc = "rendered"
  /\ IF Owns(Me(w).row, worker[w].token)
       THEN /\ jobs' = [jobs EXCEPT ![worker[w].job].row = Renewed(@)]
            /\ Goto(w, "renewed")
       ELSE GiveUp(w) /\ UNCHANGED jobs
  /\ UNCHANGED <<snapshot, record, tree, fooled>>

(* _renew_before_publish: the intent and a fresh lease in one UPDATE.           *)
RenewBeforePublish(w) ==
  LET id == worker[w].job
  IN /\ worker[w].pc = "rendered"
     /\ IF Owns(Me(w).row, worker[w].token)
          THEN /\ jobs' = [jobs EXCEPT ![id].row = Renewed(@), ![id].intent = TRUE]
               /\ Goto(w, "renewed")
          ELSE GiveUp(w) /\ UNCHANGED jobs
     /\ UNCHANGED <<snapshot, record, tree, fooled>>

(* Mutant: the tree is not compared with the one the render was fenced by.      *)
PublishUnfenced(w) ==
  /\ worker[w].pc = "renewed"
  /\ tree' = Me(w).source
  /\ fooled' = (fooled \/ (tree = worker[w].seen /\ ~IsChild(worker[w].job)))
  /\ Goto(w, "published")
  /\ UNCHANGED <<snapshot, jobs, record>>

(* EmbyExporter.publish: under the author lock, against the manifest seen by    *)
(* the render.  The lease is not looked at again.                               *)
Publish(w) ==
  /\ worker[w].pc = "renewed"
  /\ \/ /\ tree = worker[w].seen
        /\ tree' = Me(w).source
        /\ fooled' = (fooled \/ (tree = worker[w].seen /\ ~IsChild(worker[w].job)))
        /\ Goto(w, "published")
     \/ \E retryable \in BOOLEAN :
          /\ worker' = [worker EXCEPT ![w].pc = "failing", ![w].retryable = retryable]
          /\ UNCHANGED <<tree, fooled>>
  /\ UNCHANGED <<snapshot, jobs, record>>

(* _finalize: records and Job, or neither.                                      *)
Finalize(w) ==
  LET id == worker[w].job
      source == Me(w).source
  IN /\ worker[w].pc = "published"
     /\ IF Owns(Me(w).row, worker[w].token) /\ (worker[w].reused \/ record[source] = "running")
          THEN /\ jobs' = [jobs EXCEPT ![id].row = Completed(@)]
               /\ record' = [record EXCEPT ![source] = "succeeded"]
          ELSE UNCHANGED <<jobs, record>>
     /\ GiveUp(w)
     /\ UNCHANGED <<snapshot, tree, fooled>>

(* _raise_attempt_failure, _record_failure                                      *)
RecordFailure(w) ==
  LET id == worker[w].job
      source == Me(w).source
      failed == Failed(Me(w).row, worker[w].retryable)
  IN /\ worker[w].pc = "failing"
     /\ IF Owns(Me(w).row, worker[w].token) /\ (worker[w].reused \/ record[source] = "running")
          THEN /\ jobs' = [jobs EXCEPT ![id].row = failed]
               /\ record' = [record EXCEPT ![source] =
                               IF worker[w].reused THEN @ ELSE failed.status]
          ELSE UNCHANGED <<jobs, record>>
     /\ GiveUp(w)
     /\ UNCHANGED <<snapshot, tree, fooled>>

--------------------------------------------------------------------------------
(* The world *)

(* Ingestion, downloads and edits change what the author's snapshot is.         *)
ContentChanges ==
  /\ \E s \in Sources \ {snapshot} : snapshot' = s
  /\ UNCHANGED <<jobs, record, tree, worker, fooled>>

Crash(w) ==
  /\ worker[w].pc # "idle"
  /\ GiveUp(w)
  /\ UNCHANGED <<snapshot, jobs, record, tree, fooled>>

Lapse(id) ==
  /\ id \in DOMAIN jobs /\ jobs[id].row.lease = "live"
  /\ jobs' = [jobs EXCEPT ![id].row = Lapsed(@)]
  /\ UNCHANGED <<snapshot, record, tree, worker, fooled>>

Attempt(w) == \/ Scan(w) \/ Validate(w) \/ FinalizeRecovered(w)
              \/ Prepare(w) \/ PrepareNothing(w)
              \/ Render(w) \/ RenewBeforePublish(w) \/ Publish(w)
              \/ Finalize(w) \/ RecordFailure(w)

Next == \/ \E w \in Workers : Attempt(w) \/ Crash(w)
        \/ \E id \in JobIds : Lapse(id)
        \/ ContentChanges

Spec == Init /\ [][Next]_vars

--------------------------------------------------------------------------------
(* Properties *)

(* The successful Jobs form one chain, whatever its callers' order, crashes and *)
(* expired leases: the children of one predecessor leave one winner             *)
(* (docs/architecture.md:239).  It takes a tree that went and came back,        *)
(* A -> B -> A, to fool the fence of a publisher that slept meanwhile, or the   *)
(* recovery of a child of the first A: both compare bytes, not Jobs.            *)
ForkNeedsReturnedTree == fooled \/ IsChain

(* What is on disk is the head's tree or that of a direct child of the head     *)
(* whose intent is in the database, so the next export finds out whose it is    *)
(* (_RecoveryScan) and never meets a tree it must refuse.                       *)
TreeIsAccountedFor ==
  \/ fooled
  \/ tree = TreeOf(HeadJob)
  \/ \E j \in Recoverable : tree = jobs[j].source

(* A source's records have succeeded exactly when one of its Jobs has, fooled   *)
(* or not: _load_existing_export calls anything else inconsistent, for good.    *)
RecordsTellTheChain ==
  \A s \in Sources : record[s] = "succeeded" <=> \E j \in Anchors : jobs[j].source = s

(* A running record is one Job's: its retry or its reclaim will close it, and   *)
(* no other attempt on the same source can fail or finish it meanwhile.         *)
RunningRecordHasItsJob ==
  \A s \in Sources : record[s] = "running" =>
     Cardinality({j \in DOMAIN jobs : jobs[j].source = s /\ jobs[j].row.status = "running"}) = 1
================================================================================
