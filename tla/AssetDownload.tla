----------------------------- MODULE AssetDownload -----------------------------
(* One asset and everything that turns its locator into verified bytes:         *)
(* AssetDownloadService (application/downloads.py), the asset and Job rows it   *)
(* writes (AssetRepository, JobLeases), the resumable part files                *)
(* (media/downloader.py) and the content-addressed archive (media/archive.py).  *)
(*                                                                              *)
(* A download is two short transactions around long unprotected work: fetch     *)
(* bytes into the part file of the generation, guard, link them into the        *)
(* archive, then verify the row.  Between any two of these a worker may crash,  *)
(* its lease may lapse, discovery may replace the locator (a new generation),   *)
(* the upstream may serve other bytes and the archive may be damaged.           *)
(*                                                                              *)
(* All workers share one work root (a request with another I/O scope is refused *)
(* before it changes anything), so the per-asset lock file admits one of them.  *)
EXTENDS JobLeases, FiniteSets

CONSTANTS Workers,
          Contents,       \* byte strings the upstream may serve, named by their SHA-256
          Unacceptable,   \* the Contents that verify_media rejects
          NoContent,
          MaxGeneration   \* bound of assets.generation

Generations == 1..MaxGeneration

ASSUME AssetAssumption ==
  /\ NoContent \notin Contents
  /\ Unacceptable \subseteq Contents
  /\ MaxGeneration \in Nat \ {0}

VARIABLES
  asset,    \* the row: generation, status, last_error_code, checksum_sha256
  job,      \* the asset_download Job of each generation (its natural key)
  part,     \* the .part file and its .part.json of each generation
  archive,  \* the blob of each content
  upstream, \* the content the locator serves now
  fetched,  \* history: the contents received in full under each generation
  worker    \* what each worker remembers between transactions

vars == <<asset, job, part, archive, upstream, fetched, worker>>

--------------------------------------------------------------------------------
(* States *)

AssetStatuses == {"discovered", "downloading", "verified", "failed_retryable",
                  "failed_terminal"}

AssetRows == [gen : Generations, status : AssetStatuses, error : JobErrors,
              content : Contents \cup {NoContent}]

(* "torn": the part and its metadata disagree (load raises _RestartRequired).   *)
(* "validator" is what the server named when the part was begun, "bytes" the    *)
(* contents its bytes came from.                                                *)
Parts == [extent    : {"none", "partial", "torn", "complete"},
          validator : Contents \cup {NoContent},
          bytes     : SUBSET Contents]

NoPart == [extent |-> "none", validator |-> NoContent, bytes |-> {}]

Points == {"idle", "prepared", "unprepared", "takeover", "recovered",
           "fetching", "fetched", "guarded", "reused", "published", "failing",
           "cleaning", "checking", "quarantined"}

WorkerStates == [pc : Points, gen : 0..MaxGeneration, token : Tokens \cup {NoToken},
                 content : Contents \cup {NoContent}, retryable : BOOLEAN]

Idle == [pc |-> "idle", gen |-> 0, token |-> NoToken, content |-> NoContent,
         retryable |-> FALSE]

TypeOK ==
  /\ asset \in AssetRows
  /\ job \in [Generations -> JobRows]
  /\ part \in [Generations -> Parts]
  /\ archive \in [Contents -> {"none", "valid", "damaged", "lost"}]
  /\ upstream \in Contents
  /\ fetched \in [Generations -> SUBSET Contents]
  /\ worker \in [Workers -> WorkerStates]
  /\ \A w \in Workers : worker[w].pc # "idle" => worker[w].gen \in Generations

Discovered(gen) == [gen |-> gen, status |-> "discovered", error |-> "none",
                    content |-> NoContent]

Init ==
  /\ asset = Discovered(1)
  /\ job = [g \in Generations |-> NoJobRow]
  /\ part = [g \in Generations |-> NoPart]
  /\ archive = [c \in Contents |-> "none"]
  /\ upstream \in Contents
  /\ fetched = [g \in Generations |-> {}]
  /\ worker = [w \in Workers |-> Idle]

(* orchestration-locks/<asset>.lock: held from before _begin to after the last  *)
(* transaction; the operating system frees it when its process dies.            *)
LockFree == \A w \in Workers : worker[w].pc = "idle"

FreshTokens == Tokens \ ({job[g].token : g \in Generations} \cup {worker[w].token : w \in Workers})

Goes(w, pc)   == worker' = [worker EXCEPT ![w].pc = pc]
GoesIdle(w)   == worker' = [worker EXCEPT ![w] = Idle]
At(w, pc)     == worker[w].pc = pc
Gen(w)        == worker[w].gen

(* Mutant: the Job alone.                                                       *)
StillDownloadingByLease(w) == job[Gen(w)].status = "running"

(* The row is still the one this attempt started (status, generation and        *)
(* download_job_id, which names the Job of the row's own generation whenever it *)
(* is set).                                                                     *)
StillDownloading(w) == asset.gen = Gen(w) /\ asset.status = "downloading"

--------------------------------------------------------------------------------
(* The writes of AssetRepository; every one of them is a compare-and-set on     *)
(* generation and status, the owned ones also on the lease of the Job.          *)

(* queue and start, always in one transaction                                   *)
Downloading(row) == [row EXCEPT !.status = "downloading", !.error = "none", !.content = NoContent]

Verified(row, content) == [row EXCEPT !.status = "verified", !.error = "none", !.content = content]

FailedLike(row, failed, error) == [row EXCEPT !.status = failed.status, !.error = error]

(* resume_reclaimed_prepared_result                                             *)
Returned(row) == [row EXCEPT !.status = "downloading", !.error = "none"]

--------------------------------------------------------------------------------
(* _begin: one transaction, after the lock.  It runs a second time, without     *)
(* the recovery branch, when the prepared result it pointed to is not complete. *)

May(w, recovery) == IF recovery THEN LockFree ELSE At(w, "unprepared")

(* The recovery branches: a Job whose only fault is its expired lease.          *)
Prepared ==
  LET row == job[asset.gen] IN
  \/ asset.status = "downloading" /\ row.status = "running" /\ row.lease = "expired"
  \/ /\ asset.error = "lease_expired"
     /\ asset.status = row.status
     /\ row.status \in {"failed_retryable", "failed_terminal"} /\ CanResume(row, row.status)

FindVerified(w, recovery) ==
  /\ May(w, recovery)
  /\ asset.status = "verified"
  /\ worker' = [worker EXCEPT ![w] = [Idle EXCEPT !.pc = "checking", !.gen = asset.gen,
                                                  !.content = asset.content]]
  /\ UNCHANGED <<asset, job, part, archive, upstream, fetched>>

FindPrepared(w) ==
  /\ May(w, TRUE)
  /\ Prepared
  /\ worker' = [worker EXCEPT ![w] = [Idle EXCEPT !.pc = "prepared", !.gen = asset.gen,
                                                  !.token = job[asset.gen].token]]
  /\ UNCHANGED <<asset, job, part, archive, upstream, fetched>>

(* The row of the Job as _begin sees it before it claims: enqueued under the    *)
(* natural key, and reclaimed if the asset is still downloading under it.       *)
Reclaimable ==
  LET row == Enqueued(job[asset.gen]) IN
  IF asset.status = "downloading" THEN Reclaimed(row) ELSE row

(* recover_expired_download (if the lease had expired), queue, claim, start and *)
(* AssetRepository.start, in one transaction.                                   *)
StartAttempt(w, recovery, token) ==
  /\ May(w, recovery)
  /\ recovery => ~Prepared
  /\ asset.status \in {"discovered", "downloading", "failed_retryable"}
  /\ Claimable(Reclaimable)
  /\ token \in FreshTokens
  /\ job' = [job EXCEPT ![asset.gen] = Started(Claimed(Reclaimable, token))]
  /\ asset' = Downloading(asset)
  /\ worker' = [worker EXCEPT ![w] = [Idle EXCEPT !.pc = "fetching", !.gen = asset.gen,
                                                  !.token = token]]
  /\ UNCHANGED <<part, archive, upstream, fetched>>

(* The expired lease was that of the last attempt.                              *)
GiveUpExpired(w, recovery) ==
  /\ May(w, recovery)
  /\ recovery => ~Prepared
  /\ asset.status = "downloading" /\ Reclaimable.status = "failed_terminal"
  /\ job' = [job EXCEPT ![asset.gen] = Reclaimable]
  /\ asset' = FailedLike(asset, Reclaimable, "lease_expired")
  /\ GoesIdle(w)
  /\ UNCHANGED <<part, archive, upstream, fetched>>

(* asset_download_terminal, on the second call: on the first one a refusal      *)
(* (also asset_download_busy, for a live lease) changes nothing at all.         *)
RefuseUnprepared(w) ==
  /\ At(w, "unprepared")
  /\ asset.status = "failed_terminal"
  /\ GoesIdle(w)
  /\ UNCHANGED <<asset, job, part, archive, upstream, fetched>>

--------------------------------------------------------------------------------
(* A prepared result: bytes fetched in full and already archived by an attempt  *)
(* that did not live to say so.                                                 *)

ContentOf(p) == CHOOSE c \in p.bytes : TRUE

(* recover_published, without network: an incomplete part or a missing blob is  *)
(* no prepared result, and verify_media may reject the bytes.                   *)
Recovery(p) ==
  CASE p.extent # "complete"                                     -> "nothing"
    [] p.extent = "complete" /\ ContentOf(p) \in Unacceptable   -> "rejected"
    [] p.extent = "complete" /\ ContentOf(p) \notin Unacceptable ->
         IF archive[ContentOf(p)] = "valid" THEN "published" ELSE "nothing"

(* Mutant: the run ends where it should begin again.                            *)
RecoverNothingAndStop(w) ==
  /\ At(w, "prepared") /\ Recovery(part[Gen(w)]) = "nothing"
  /\ GoesIdle(w)
  /\ UNCHANGED <<asset, job, part, archive, upstream, fetched>>

RecoverNothing(w) ==
  /\ At(w, "prepared") /\ Recovery(part[Gen(w)]) = "nothing"
  /\ Goes(w, "unprepared")
  /\ UNCHANGED <<asset, job, part, archive, upstream, fetched>>

RecoverPublished(w) ==
  /\ At(w, "prepared") /\ Recovery(part[Gen(w)]) = "published"
  /\ worker' = [worker EXCEPT ![w].pc = "takeover", ![w].content = ContentOf(part[Gen(w)])]
  /\ UNCHANGED <<asset, job, part, archive, upstream, fetched>>

(* A rejected part ends the run with an error that nothing records.             *)
RecoverRejected(w) ==
  /\ At(w, "prepared") /\ Recovery(part[Gen(w)]) = "rejected"
  /\ GoesIdle(w)
  /\ UNCHANGED <<asset, job, part, archive, upstream, fetched>>

(* _takeover_prepared_recovery: the Job and, if it had failed, the asset return *)
(* to the attempt that prepared the result; all or nothing.                     *)
TakeOverPrepared(w, token) ==
  LET row == job[Gen(w)] IN
  /\ At(w, "takeover")
  /\ token \in FreshTokens
  /\ \/ /\ worker[w].token # NoToken /\ CanTakeOver(row, worker[w].token)
        /\ StillDownloading(w)
        /\ job' = [job EXCEPT ![Gen(w)] = TakenOver(row, token)]
        /\ UNCHANGED asset
     \/ /\ worker[w].token = NoToken /\ CanResume(row, row.status)
        /\ asset.gen = Gen(w) /\ asset.status = row.status /\ asset.error = "lease_expired"
        /\ job' = [job EXCEPT ![Gen(w)] = Resumed(row, token)]
        /\ asset' = Returned(asset)
  /\ worker' = [worker EXCEPT ![w].pc = "recovered", ![w].token = token]
  /\ UNCHANGED <<part, archive, upstream, fetched>>

(* A run that a storage error or a refused preflight ends between two           *)
(* transactions, without a record of it.                                        *)
Abandon(w) ==
  /\ worker[w].pc \notin {"idle", "unprepared"}
  /\ GoesIdle(w)
  /\ UNCHANGED <<asset, job, part, archive, upstream, fetched>>

(* _guard_publish: renew the lease, recheck the row; all or nothing.            *)
Guard(w) ==
  /\ OwnsUnreclaimed(job[Gen(w)], worker[w].token)
  /\ StillDownloading(w)
  /\ job' = [job EXCEPT ![Gen(w)] = Renewed(@)]

(* The transaction at which a run finds that its lease, its generation or its   *)
(* recovered blob is gone: it is rolled back and the run ends.                  *)
LosesOwnership(w) ==
  LET row == job[Gen(w)] IN
  /\ \/ /\ worker[w].pc \in {"recovered", "fetched", "reused", "published"}
        /\ \/ ~OwnsUnreclaimed(row, worker[w].token) \/ ~StillDownloading(w)
           \/ At(w, "recovered") /\ archive[worker[w].content] # "valid"
     \/ At(w, "failing") /\ ~(Owns(row, worker[w].token) /\ StillDownloading(w))
     \/ /\ At(w, "takeover")
        /\ asset.gen # Gen(w)
     \/ /\ At(w, "quarantined")
        /\ asset.gen # Gen(w)
  /\ GoesIdle(w)
  /\ UNCHANGED <<asset, job, part, archive, upstream, fetched>>

(* _validate_recovered_archive                                                  *)
ValidateRecovered(w) ==
  /\ At(w, "recovered")
  /\ archive[worker[w].content] = "valid"
  /\ Guard(w)
  /\ Goes(w, "published")
  /\ UNCHANGED <<asset, part, archive, upstream, fetched>>

--------------------------------------------------------------------------------
(* SecureMediaDownloader.download                                               *)

(* Mutant: a 206 is appended whatever entity it comes from.                     *)
ResumesBlindly(p) == p.extent \in {"partial", "complete"} /\ p.validator # NoContent

(* A part with bytes and a validator is resumed by Range and If-Range; a server *)
(* that answers 206 for another entity is refused (_validate_partial_response), *)
(* and a whole answer starts the part anew.                                     *)
Resumes(p) ==
  p.extent \in {"partial", "complete"} /\ p.validator # NoContent /\ p.validator = upstream

(* The part after one more answer: begun under the validator the server names   *)
(* (or none), or continued.                                                     *)
Received(p, extent, validator) ==
  IF ~Resumes(p) THEN [extent |-> extent, validator |-> validator, bytes |-> {upstream}]
  ELSE IF p.extent = "complete" THEN p
  ELSE [p EXCEPT !.extent = extent, !.bytes = @ \cup {upstream}]

Fetch(w) ==
  /\ At(w, "fetching")
  /\ \E validator \in {upstream, NoContent} :
       part' = [part EXCEPT ![Gen(w)] = Received(@, "complete", validator)]
  /\ LET content == ContentOf(part'[Gen(w)]) IN
       /\ fetched' = [fetched EXCEPT ![Gen(w)] = @ \cup {upstream}]
       /\ worker' = [worker EXCEPT ![w].content = content,
                                   ![w].pc = IF content \in Unacceptable THEN "failing"
                                             ELSE "fetched"]
  /\ UNCHANGED <<asset, job, archive, upstream>>

(* The stream breaks off and its length is saved, or nothing arrives at all; a  *)
(* restart limit, a timeout or a forbidden answer keep the part as well.        *)
FetchFails(w, retryable) ==
  /\ At(w, "fetching")
  /\ \/ \E validator \in {upstream, NoContent} :
          part' = [part EXCEPT ![Gen(w)] = Received(@, "partial", validator)]
     \/ UNCHANGED part
  /\ worker' = [worker EXCEPT ![w].pc = "failing", ![w].retryable = retryable]
  /\ UNCHANGED <<asset, job, archive, upstream, fetched>>

(* ArchivePublisher.publish: guard, then link without clobbering; a blob that   *)
(* is already there is validated between two guards instead.                    *)
GuardPublish(w) ==
  /\ At(w, "fetched")
  /\ Guard(w)
  /\ Goes(w, "guarded")
  /\ UNCHANGED <<asset, part, archive, upstream, fetched>>

Publish(w) ==
  LET c == worker[w].content IN
  /\ At(w, "guarded")
  /\ archive' = [archive EXCEPT ![c] = IF @ \in {"none", "lost"} THEN "valid" ELSE @]
  /\ Goes(w, CASE archive[c] = "valid"   -> "reused"
               [] archive[c] = "damaged" -> "failing"
               [] OTHER                  -> "published")
  /\ UNCHANGED <<asset, job, part, upstream, fetched>>

GuardReuse(w) ==
  /\ At(w, "reused")
  /\ Guard(w)
  /\ Goes(w, "published")
  /\ UNCHANGED <<asset, part, archive, upstream, fetched>>

--------------------------------------------------------------------------------
(* The last transactions *)

(* _finalize_success: renew, verify and complete                                *)
Finalize(w) ==
  /\ At(w, "published")
  /\ OwnsUnreclaimed(job[Gen(w)], worker[w].token)
  /\ StillDownloading(w)
  /\ job' = [job EXCEPT ![Gen(w)] = Completed(@)]
  /\ asset' = Verified(asset, worker[w].content)
  /\ Goes(w, "cleaning")
  /\ UNCHANGED <<part, archive, upstream, fetched>>

(* _record_failure: both rows, under a live lease, with the same outcome        *)
RecordFailure(w) ==
  LET row == Failed(job[Gen(w)], worker[w].retryable) IN
  /\ At(w, "failing")
  /\ Owns(job[Gen(w)], worker[w].token) /\ StillDownloading(w)
  /\ job' = [job EXCEPT ![Gen(w)] = row]
  /\ asset' = FailedLike(asset, row, "other")
  /\ GoesIdle(w)
  /\ UNCHANGED <<part, archive, upstream, fetched>>

CleanPart(w) ==
  /\ At(w, "cleaning")
  /\ part' = [part EXCEPT ![Gen(w)] = NoPart]
  /\ GoesIdle(w)
  /\ UNCHANGED <<asset, job, archive, upstream, fetched>>

(* _validate_verified_archive: a valid blob ends the run, an invalid one is     *)
(* moved to quarantine, and a missing one (then or after the quarantine) sends  *)
(* the asset to a new generation if the row still says what was checked.        *)
CheckVerified(w) ==
  LET c == worker[w].content IN
  /\ At(w, "checking")
  /\ archive' = [archive EXCEPT ![c] = IF @ = "damaged" THEN "lost" ELSE @]
  /\ Goes(w, IF archive[c] = "valid" THEN "cleaning" ELSE "quarantined")
  /\ UNCHANGED <<asset, job, part, upstream, fetched>>

ResetVerified(w) ==
  /\ At(w, "quarantined")
  /\ asset.gen = Gen(w) /\ asset.status = "verified" /\ asset.content = worker[w].content
  /\ asset.gen < MaxGeneration
  /\ asset' = Discovered(asset.gen + 1)
  /\ GoesIdle(w)
  /\ UNCHANGED <<job, part, archive, upstream, fetched>>

--------------------------------------------------------------------------------
(* The world *)

(* A process dies; mid-stream it leaves a part whose metadata does not match.   *)
Crash(w) ==
  /\ ~At(w, "idle")
  /\ \/ At(w, "fetching")
        /\ part' = [part EXCEPT ![Gen(w)] = [NoPart EXCEPT !.extent = "torn"]]
     \/ UNCHANGED part
  /\ GoesIdle(w)
  /\ UNCHANGED <<asset, job, archive, upstream, fetched>>

LeaseLapses(g) ==
  /\ job[g].lease = "live"
  /\ job' = [job EXCEPT ![g] = Lapsed(@)]
  /\ UNCHANGED <<asset, part, archive, upstream, fetched, worker>>

(* upsert_for_content with another fingerprint; it takes no lock.               *)
Replace ==
  /\ asset.gen < MaxGeneration
  /\ asset' = Discovered(asset.gen + 1)
  /\ UNCHANGED <<job, part, archive, upstream, fetched, worker>>

UpstreamChanges(c) ==
  /\ c # upstream
  /\ upstream' = c
  /\ UNCHANGED <<asset, job, part, archive, fetched, worker>>

(* Bounded to generations that a reset can still leave behind.                  *)
ArchiveDamaged(c, how) ==
  /\ archive[c] = "valid" /\ asset.gen < MaxGeneration
  /\ archive' = [archive EXCEPT ![c] = how]
  /\ UNCHANGED <<asset, job, part, upstream, fetched, worker>>

(* Another asset with the same bytes publishes or quarantines the shared blob.  *)
SharedArchive(c) ==
  /\ c \notin Unacceptable
  /\ archive[c] # "valid"
  /\ archive' = [archive EXCEPT ![c] = IF @ = "damaged" THEN "lost" ELSE "valid"]
  /\ UNCHANGED <<asset, job, part, upstream, fetched, worker>>

Run(w) ==
  \/ FindPrepared(w) \/ RefuseUnprepared(w)
  \/ \E recovery \in BOOLEAN :
       \/ FindVerified(w, recovery) \/ GiveUpExpired(w, recovery)
       \/ \E token \in Tokens : StartAttempt(w, recovery, token)
  \/ RecoverNothing(w) \/ RecoverPublished(w) \/ RecoverRejected(w)
  \/ \E token \in Tokens : TakeOverPrepared(w, token)
  \/ ValidateRecovered(w) \/ LosesOwnership(w)
  \/ Fetch(w) \/ \E retryable \in BOOLEAN : FetchFails(w, retryable)
  \/ GuardPublish(w) \/ Publish(w) \/ GuardReuse(w)
  \/ Finalize(w) \/ RecordFailure(w) \/ CleanPart(w) \/ CheckVerified(w) \/ ResetVerified(w)

World ==
  \/ \E g \in Generations : LeaseLapses(g)
  \/ Replace
  \/ \E c \in Contents : UpstreamChanges(c) \/ SharedArchive(c)

Fault ==
  \/ \E w \in Workers : Abandon(w) \/ Crash(w)
  \/ \E c \in Contents, how \in {"damaged", "lost"} : ArchiveDamaged(c, how)

Next == World \/ Fault \/ \E w \in Workers : Run(w)

Spec == Init /\ [][Next]_vars

--------------------------------------------------------------------------------
(* Properties *)

(* A verified row names bytes that were fetched in full under its own           *)
(* generation, published into the archive and accepted, and the Job of that     *)
(* generation has succeeded: neither a recovered result nor a worker that was   *)
(* overtaken by a new locator can verify anything else (_finalize_success,      *)
(* _takeover_prepared_recovery, verify).                                        *)
VerifiedWasFetched ==
  asset.status = "verified" =>
    /\ asset.content \in fetched[asset.gen] \ Unacceptable
    /\ archive[asset.content] # "none"
    /\ job[asset.gen].status = "succeeded"

(* The two rows of a download never part: whoever finds the asset can tell from *)
(* its Job what to do next, and an asset that waits for another attempt has one *)
(* left.  _record_failure, recover_expired_download and the prepared recovery   *)
(* write them at different times but only together.                             *)
RowsAgree ==
  LET row == job[asset.gen] IN
  CASE asset.status = "discovered"       -> row.status = "absent"
    [] asset.status = "downloading"      -> row.status = "running" /\ row.lease # "none"
    [] asset.status = "verified"         -> row.status = "succeeded"
    [] asset.status = "failed_retryable" -> /\ row.status = "failed_retryable"
                                            /\ row.error = asset.error
                                            /\ row.attempts < MaxAttempts
    [] asset.status = "failed_terminal"  -> /\ row.status = "failed_terminal"
                                            /\ row.error = asset.error

(* A part that is complete holds the bytes of one content only, however often   *)
(* it was interrupted, resumed and restarted while the upstream changed         *)
(* (_consume_response, _validate_partial_response).                             *)
PartIsOneContent ==
  \A g \in Generations :
    part[g].extent \in {"partial", "complete"} => Cardinality(part[g].bytes) = 1

(* A run whose generation was replaced under it, or whose Job is under another  *)
(* token, changes neither row any more; only the re-read of _begin may.         *)
OvertakenRunIsHarmless ==
  [][\A w \in Workers :
       /\ worker[w].pc \notin {"idle", "unprepared", "prepared", "takeover"}
       /\ worker'[w] # worker[w]
       /\ \/ asset.gen # worker[w].gen
          \/ worker[w].token # job[worker[w].gen].token
       => \/ UNCHANGED <<asset, job>>
          \/ worker[w].pc = "quarantined" /\ asset.gen = worker[w].gen]_vars

(* Fairness: runs for the asset are requested again and again (every pipeline   *)
(* pass selects it) and a lease that nobody renews expires.  Faults are never   *)
(* forced, and settling supposes that they end.                                 *)
Fairness ==
  /\ WF_vars(\E w \in Workers : Run(w))
  /\ \A g \in Generations : WF_vars(LeaseLapses(g))
================================================================================
