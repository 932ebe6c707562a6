-------------------------- MODULE AssetDownloadProofs --------------------------
(* Proofs about AssetDownload for every number of workers, tokens, attempts,    *)
(* generations and contents.                                                    *)
EXTENDS AssetDownload, FiniteSetTheorems, TLAPS

--------------------------------------------------------------------------------
(* The Job operators *)

(* Every UPDATE of JobRepository takes a Job row to a Job row; in particular a  *)
(* claim never counts an attempt past max_attempts.                             *)
LEMMA JobWritesKeepRows ==
  ASSUME NEW row \in JobRows
  PROVE  /\ Enqueued(row) \in JobRows
         /\ Reclaimed(row) \in JobRows
         /\ \A t \in Tokens : Claimable(row) => Started(Claimed(row, t)) \in JobRows
         /\ Renewed(row) \in JobRows
         /\ Completed(row) \in JobRows
         /\ \A retryable \in BOOLEAN : Failed(row, retryable) \in JobRows
         /\ \A t \in Tokens : TakenOver(row, t) \in JobRows /\ Resumed(row, t) \in JobRows
         /\ Lapsed(row) \in JobRows
<1> USE JobAssumption DEF JobAssumption, JobRows, JobStatuses, JobErrors
<1>1. \A status \in JobStatuses : Unleased(row, status) \in JobRows
  BY DEF Unleased
<1>2. Enqueued(row) \in JobRows
  BY DEF Enqueued
<1>3. Reclaimed(row) \in JobRows /\ Reclaimed(row).attempts = row.attempts
  BY DEF Reclaimed, Unleased
<1>4. ASSUME NEW t \in Tokens, Claimable(row)
      PROVE  Started(Claimed(row, t)) \in JobRows
  <2> DEFINE r == Reclaimed(row)
  <2>1. r \in JobRows /\ r.attempts + 1 \in 0..MaxAttempts
    BY <1>3, <1>4 DEF Claimable
  <2> HIDE DEF r
  <2>2. [[r EXCEPT !.lease = "live", !.token = t] EXCEPT !.status = "claimed", !.attempts = @ + 1]
          \in JobRows
    BY <2>1
  <2>3. Claimed(row, t) \in JobRows
    BY <2>2 DEF Claimed, Leased, r
  <2> QED BY <2>3 DEF Started
<1>5. Renewed(row) \in JobRows /\ Lapsed(row) \in JobRows
  BY DEF Renewed, Lapsed
<1>6. Completed(row) \in JobRows
  BY DEF Completed, Unleased
<1>7. \A retryable \in BOOLEAN : Failed(row, retryable) \in JobRows
  BY DEF Failed, Unleased
<1>8. \A t \in Tokens : TakenOver(row, t) \in JobRows /\ Resumed(row, t) \in JobRows
  BY DEF TakenOver, Resumed, Leased
<1> QED BY <1>2, <1>3, <1>4, <1>5, <1>6, <1>7, <1>8

(* What the writes say: the status, the lease and the error they leave.         *)
LEMMA JobWritesSay ==
  ASSUME NEW row \in JobRows
  PROVE  /\ \A t \in Tokens : /\ Started(Claimed(row, t)).status = "running"
                              /\ Started(Claimed(row, t)).lease = "live"
                              /\ TakenOver(row, t).status = row.status
                              /\ TakenOver(row, t).lease = "live"
                              /\ Resumed(row, t).status = "running"
                              /\ Resumed(row, t).lease = "live"
         /\ Renewed(row).status = row.status /\ Renewed(row).lease = "live"
         /\ Completed(row).status = "succeeded"
         /\ \A retryable \in BOOLEAN :
              /\ Failed(row, retryable).error = "other"
              /\ \/ Failed(row, retryable).status = "failed_terminal"
                 \/ /\ Failed(row, retryable).status = "failed_retryable"
                    /\ Failed(row, retryable).attempts < MaxAttempts
         /\ Lapsed(row) = [row EXCEPT !.lease = "expired"]
         /\ Reclaimed(row).status = "failed_terminal" /\ row.status = "running"
              => Reclaimed(row).error = "lease_expired"
<1> USE DEF JobRows, JobStatuses, JobErrors
<1>1. ASSUME NEW t \in Tokens
      PROVE  /\ Started(Claimed(row, t)).status = "running"
             /\ Started(Claimed(row, t)).lease = "live"
  BY DEF Started, Claimed, Leased, Reclaimed, Unleased
<1>2. ASSUME NEW t \in Tokens
      PROVE  /\ TakenOver(row, t).status = row.status
             /\ TakenOver(row, t).lease = "live"
             /\ Resumed(row, t).status = "running"
             /\ Resumed(row, t).lease = "live"
  BY DEF TakenOver, Resumed, Leased
<1>3. ASSUME NEW retryable \in BOOLEAN
      PROVE  /\ Failed(row, retryable).error = "other"
             /\ \/ Failed(row, retryable).status = "failed_terminal"
                \/ /\ Failed(row, retryable).status = "failed_retryable"
                   /\ Failed(row, retryable).attempts < MaxAttempts
  BY DEF Failed, Unleased
<1>4. /\ Renewed(row).status = row.status /\ Renewed(row).lease = "live"
      /\ Completed(row).status = "succeeded"
      /\ Lapsed(row) = [row EXCEPT !.lease = "expired"]
  BY DEF Renewed, Completed, Unleased, Lapsed
<1>5. Reclaimed(row).status = "failed_terminal" /\ row.status = "running"
        => Reclaimed(row).error = "lease_expired"
  BY DEF Reclaimed, Unleased
<1> QED BY <1>1, <1>2, <1>3, <1>4, <1>5

--------------------------------------------------------------------------------
(* Type correctness *)

WorkersOK == /\ worker \in [Workers -> WorkerStates]
             /\ \A w \in Workers : worker[w].pc # "idle" => worker[w].gen \in Generations

(* A worker moves to a well-formed state, under a generation unless it is idle. *)
LEMMA WorkerMoves ==
  ASSUME WorkersOK, NEW w \in Workers, NEW state \in WorkerStates,
         state.pc # "idle" => state.gen \in Generations,
         worker' = [worker EXCEPT ![w] = state]
  PROVE  WorkersOK'
BY DEF WorkersOK

(* An idle worker is a worker.                                                  *)
LEMMA IdleType == Idle \in WorkerStates
BY AssetAssumption DEF AssetAssumption, Idle, WorkerStates, Points

(* A run begins at the generation of the row.                                   *)
LEMMA BeginsAtGeneration ==
  ASSUME TypeOK, NEW pc \in Points, NEW token \in Tokens \cup {NoToken},
         NEW content \in Contents \cup {NoContent}
  PROVE  /\ asset.gen \in Generations
         /\ [Idle EXCEPT !.pc = pc, !.gen = asset.gen, !.token = token] \in WorkerStates
         /\ [Idle EXCEPT !.pc = pc, !.gen = asset.gen, !.content = content] \in WorkerStates
         /\ [Idle EXCEPT !.pc = pc, !.gen = asset.gen, !.token = token].gen = asset.gen
         /\ [Idle EXCEPT !.pc = pc, !.gen = asset.gen, !.content = content].gen = asset.gen
<1>1. asset.gen \in Generations /\ asset.gen \in 0..MaxGeneration
  BY AssetAssumption DEF AssetAssumption, TypeOK, AssetRows, Generations
<1> QED BY <1>1, IdleType DEF WorkerStates

(* Going on keeps the generation, ending needs none.                            *)
LEMMA WorkerGoes ==
  ASSUME WorkersOK, NEW w \in Workers
  PROVE  /\ GoesIdle(w) => WorkersOK'
         /\ \A pc \in Points : worker[w].pc # "idle" /\ Goes(w, pc) => WorkersOK'
<1>2. GoesIdle(w) => WorkersOK'
  BY IdleType, WorkerMoves DEF GoesIdle, Idle
<1>3. ASSUME NEW pc \in Points, worker[w].pc # "idle", Goes(w, pc)
      PROVE  WorkersOK'
  <2> DEFINE state == [worker[w] EXCEPT !.pc = pc]
  <2>1. worker[w] \in WorkerStates /\ worker[w].gen \in Generations
    BY <1>3 DEF WorkersOK
  <2>2. state \in WorkerStates /\ state.gen \in Generations
    BY <2>1 DEF WorkerStates
  <2>3. worker' = [worker EXCEPT ![w] = state]
    BY <1>3 DEF Goes
  <2> QED BY <2>2, <2>3, WorkerMoves
<1> QED BY <1>2, <1>3

(* The rows of the asset and of its Jobs keep their shape under every write.    *)
LEMMA AssetWritesKeepRows ==
  ASSUME NEW row \in AssetRows
  PROVE  /\ Downloading(row) \in AssetRows
         /\ \A c \in Contents : Verified(row, c) \in AssetRows
         /\ \A failed \in JobRows, error \in JobErrors :
              failed.status \in {"failed_retryable", "failed_terminal"}
                => FailedLike(row, failed, error) \in AssetRows
         /\ Returned(row) \in AssetRows
         /\ row.gen < MaxGeneration => Discovered(row.gen + 1) \in AssetRows
<1> USE AssetAssumption DEF AssetAssumption, AssetRows, AssetStatuses, JobErrors, Generations
<1>1. Downloading(row) \in AssetRows
  BY DEF Downloading
<1>2. \A c \in Contents : Verified(row, c) \in AssetRows
  BY DEF Verified
<1>3. \A failed \in JobRows, error \in JobErrors :
        failed.status \in {"failed_retryable", "failed_terminal"}
          => FailedLike(row, failed, error) \in AssetRows
  BY DEF FailedLike
<1>4. Returned(row) \in AssetRows
  BY DEF Returned
<1>5. row.gen < MaxGeneration => Discovered(row.gen + 1) \in AssetRows
  BY DEF Discovered
<1> QED BY <1>1, <1>2, <1>3, <1>4, <1>5

(* One Job row is written.                                                      *)
LEMMA JobWritten ==
  ASSUME job \in [Generations -> JobRows], NEW g \in Generations, NEW row \in JobRows
  PROVE  [job EXCEPT ![g] = row] \in [Generations -> JobRows]
OBVIOUS

(* The steps that write the asset or a Job.                                     *)
RowSteps(w) ==
  \/ \E recovery \in BOOLEAN :
       \/ GiveUpExpired(w, recovery)
       \/ \E token \in Tokens : StartAttempt(w, recovery, token)
  \/ \E token \in Tokens : TakeOverPrepared(w, token)
  \/ ValidateRecovered(w) \/ GuardPublish(w) \/ GuardReuse(w)
  \/ Finalize(w) \/ RecordFailure(w) \/ ResetVerified(w)

(* The steps of a run that write neither.                                       *)
FileSteps(w) ==
  \/ FindPrepared(w) \/ RefuseUnprepared(w)
  \/ \E recovery \in BOOLEAN : FindVerified(w, recovery)
  \/ RecoverNothing(w) \/ RecoverPublished(w) \/ RecoverRejected(w)
  \/ LosesOwnership(w)
  \/ Fetch(w) \/ \E retryable \in BOOLEAN : FetchFails(w, retryable)
  \/ Publish(w) \/ CleanPart(w) \/ CheckVerified(w)

(* A step of a run is one or the other.                                         *)
LEMMA RunSplit == \A w \in Workers : Run(w) <=> RowSteps(w) \/ FileSteps(w)
BY DEF Run, RowSteps, FileSteps

(* A step that writes rows keeps every shape.                                   *)
LEMMA RowStepType ==
  ASSUME TypeOK, NEW w \in Workers, RowSteps(w)
  PROVE  TypeOK'
<1> USE AssetAssumption DEF AssetAssumption
<1> DEFINE g == Gen(w)
<1>0. /\ asset \in AssetRows /\ asset.gen \in Generations
      /\ job \in [Generations -> JobRows] /\ WorkersOK
      /\ worker[w] \in WorkerStates
      /\ worker[w].pc # "idle" => g \in Generations
  BY DEF TypeOK, WorkersOK, AssetRows, Gen
<1>1. ASSUME NEW recovery \in BOOLEAN, GiveUpExpired(w, recovery)
      PROVE  TypeOK'
  <2>1. Reclaimable \in JobRows /\ Reclaimable.status = "failed_terminal"
    BY <1>0, <1>1, JobWritesKeepRows DEF GiveUpExpired, Reclaimable
  <2>2. asset' \in AssetRows
    BY <1>0, <1>1, <2>1, AssetWritesKeepRows DEF GiveUpExpired, JobErrors
  <2>3. job' \in [Generations -> JobRows]
    BY <1>0, <1>1, <2>1, JobWritten DEF GiveUpExpired
  <2>4. WorkersOK'
    BY <1>0, <1>1, WorkerGoes DEF GiveUpExpired
  <2> QED BY <1>1, <2>2, <2>3, <2>4 DEF GiveUpExpired, TypeOK, WorkersOK
<1>2. ASSUME NEW recovery \in BOOLEAN, NEW token \in Tokens, StartAttempt(w, recovery, token)
      PROVE  TypeOK'
  <2>1. Reclaimable \in JobRows
    BY <1>0, JobWritesKeepRows DEF Reclaimable
  <2>2. Started(Claimed(Reclaimable, token)) \in JobRows
    BY <1>2, <2>1, JobWritesKeepRows DEF StartAttempt
  <2>3. asset' \in AssetRows /\ job' \in [Generations -> JobRows]
    BY <1>0, <1>2, <2>2, AssetWritesKeepRows, JobWritten DEF StartAttempt
  <2> DEFINE state == [Idle EXCEPT !.pc = "fetching", !.gen = asset.gen, !.token = token]
  <2>4. state \in WorkerStates /\ state.gen \in Generations
    BY BeginsAtGeneration DEF Points
  <2>5. WorkersOK'
    BY <1>0, <1>2, <2>4, WorkerMoves DEF StartAttempt
  <2> QED BY <1>2, <2>3, <2>5 DEF StartAttempt, TypeOK, WorkersOK
<1>3. ASSUME NEW token \in Tokens, TakeOverPrepared(w, token)
      PROVE  TypeOK'
  <2>1. g \in Generations /\ job[g] \in JobRows
    BY <1>0, <1>3 DEF TakeOverPrepared, At
  <2>2. TakenOver(job[g], token) \in JobRows /\ Resumed(job[g], token) \in JobRows
    BY <2>1, JobWritesKeepRows
  <2>3. asset' \in AssetRows /\ job' \in [Generations -> JobRows]
    BY <1>0, <1>3, <2>1, <2>2, AssetWritesKeepRows, JobWritten DEF TakeOverPrepared
  <2> DEFINE state == [worker[w] EXCEPT !.pc = "recovered", !.token = token]
  <2>4. state \in WorkerStates /\ state.gen \in Generations
    BY <1>0, <2>1 DEF WorkerStates, Points, Gen
  <2>5. WorkersOK'
    <3>1. worker' = [worker EXCEPT ![w] = state]
      BY <1>3 DEF TakeOverPrepared
    <3> QED BY <1>0, <2>4, <3>1, WorkerMoves
  <2> QED BY <1>3, <2>3, <2>5 DEF TakeOverPrepared, TypeOK, WorkersOK
<1>4. CASE ValidateRecovered(w) \/ GuardPublish(w) \/ GuardReuse(w)
  <2>1. g \in Generations /\ job[g] \in JobRows /\ worker[w].pc # "idle"
    BY <1>0, <1>4 DEF ValidateRecovered, GuardPublish, GuardReuse, At
  <2>2. job' \in [Generations -> JobRows]
    BY <1>0, <1>4, <2>1, JobWritesKeepRows, JobWritten
       DEF ValidateRecovered, GuardPublish, GuardReuse, Guard
  <2>3. WorkersOK'
    BY <1>0, <1>4, <2>1, WorkerGoes DEF ValidateRecovered, GuardPublish, GuardReuse, Points
  <2> QED BY <1>4, <2>2, <2>3
          DEF ValidateRecovered, GuardPublish, GuardReuse, TypeOK, WorkersOK
<1>5. CASE Finalize(w)
  <2>1. g \in Generations /\ job[g] \in JobRows /\ worker[w].pc # "idle"
    BY <1>0, <1>5 DEF Finalize, At
  <2>2. job' \in [Generations -> JobRows]
    BY <1>0, <1>5, <2>1, JobWritesKeepRows, JobWritten DEF Finalize
  <2>3. asset' \in AssetRows
    BY <1>0, <1>5 DEF Finalize, Verified, AssetRows, AssetStatuses, JobErrors, WorkerStates
  <2>4. WorkersOK'
    BY <1>0, <1>5, <2>1, WorkerGoes DEF Finalize, Points
  <2> QED BY <1>5, <2>2, <2>3, <2>4 DEF Finalize, TypeOK, WorkersOK
<1>6. CASE RecordFailure(w)
  <2> DEFINE row == Failed(job[g], worker[w].retryable)
  <2>1. g \in Generations /\ job[g] \in JobRows /\ worker[w].retryable \in BOOLEAN
    BY <1>0, <1>6 DEF RecordFailure, At, WorkerStates
  <2>2. row \in JobRows /\ row.status \in {"failed_retryable", "failed_terminal"}
    BY <2>1, JobWritesKeepRows, JobWritesSay
  <2>3. asset' \in AssetRows /\ job' \in [Generations -> JobRows]
    BY <1>0, <1>6, <2>1, <2>2, AssetWritesKeepRows, JobWritten DEF RecordFailure, JobErrors
  <2>4. WorkersOK'
    BY <1>0, <1>6, WorkerGoes DEF RecordFailure
  <2> QED BY <1>6, <2>3, <2>4 DEF RecordFailure, TypeOK, WorkersOK
<1>7. CASE ResetVerified(w)
  <2>1. asset' \in AssetRows
    BY <1>0, <1>7, AssetWritesKeepRows DEF ResetVerified
  <2>2. WorkersOK'
    BY <1>0, <1>7, WorkerGoes DEF ResetVerified
  <2> QED BY <1>7, <2>1, <2>2 DEF ResetVerified, TypeOK, WorkersOK
<1> QED BY <1>1, <1>2, <1>3, <1>4, <1>5, <1>6, <1>7 DEF RowSteps

(* What holds of the parts, and of the content a worker has in hand.            *)
PartsAreHonest ==
  \A g \in Generations :
    part[g].extent \in {"partial", "complete"} =>
      /\ \E c \in Contents : part[g].bytes = {c}
      /\ part[g].validator # NoContent => part[g].bytes = {part[g].validator}
      /\ part[g].extent = "complete" => part[g].bytes \subseteq fetched[g]

(* The one content of a complete part.                                          *)
LEMMA ContentOfPart ==
  ASSUME TypeOK, PartsAreHonest, NEW g \in Generations, part[g].extent = "complete"
  PROVE  /\ ContentOf(part[g]) \in Contents
         /\ ContentOf(part[g]) \in fetched[g]
<1>1. PICK c \in Contents : part[g].bytes = {c}
  BY DEF PartsAreHonest
<1>2. ContentOf(part[g]) = c
  BY <1>1 DEF ContentOf
<1> QED BY <1>1, <1>2 DEF PartsAreHonest

(* An answer of the upstream leaves a part that holds the upstream's content.   *)
LEMMA ReceivedIsHonest ==
  ASSUME TypeOK, PartsAreHonest, NEW g \in Generations,
         NEW extent \in {"partial", "complete"}, NEW v \in {upstream, NoContent}
  PROVE  LET p == Received(part[g], extent, v) IN
         /\ p \in Parts
         /\ p.extent \in {"partial", "complete"}
         /\ p.bytes = {upstream}
         /\ p.validator # NoContent => p.bytes = {p.validator}
         /\ extent = "complete" => p.extent = "complete"
         /\ p.extent = "complete" => extent = "complete" \/ upstream \in fetched[g]
<1>1. part[g] \in Parts /\ upstream \in Contents
  BY DEF TypeOK
<1>2. CASE ~Resumes(part[g])
  BY <1>1, <1>2 DEF Received, Parts
<1>3. CASE Resumes(part[g])
  <2>1. part[g].bytes = {upstream}
    BY <1>3 DEF Resumes, PartsAreHonest
  <2> QED BY <1>1, <1>3, <2>1 DEF Received, Parts, Resumes, PartsAreHonest
<1> QED BY <1>2, <1>3

(* The steps of a run that touch files only.                                    *)
LEMMA FileStepType ==
  ASSUME TypeOK, PartsAreHonest, NEW w \in Workers, FileSteps(w)
  PROVE  TypeOK'
<1> USE AssetAssumption DEF AssetAssumption
<1>0. /\ asset \in AssetRows /\ asset.gen \in Generations /\ WorkersOK
      /\ worker[w] \in WorkerStates
      /\ worker[w].pc # "idle" => Gen(w) \in Generations
      /\ upstream \in Contents
  BY DEF TypeOK, WorkersOK, AssetRows, Gen
<1>1. CASE RefuseUnprepared(w) \/ RecoverRejected(w) \/ LosesOwnership(w) \/ RecoverNothing(w)
  <2>1. WorkersOK'
    BY <1>0, <1>1, WorkerGoes
       DEF RefuseUnprepared, RecoverRejected, LosesOwnership, RecoverNothing, At, Points
  <2> QED BY <1>1, <2>1 DEF RefuseUnprepared, RecoverRejected, LosesOwnership, RecoverNothing,
                            TypeOK, WorkersOK
<1>2. ASSUME NEW recovery \in BOOLEAN, FindVerified(w, recovery)
      PROVE  TypeOK'
  <2> DEFINE state == [Idle EXCEPT !.pc = "checking", !.gen = asset.gen, !.content = asset.content]
  <2>1. state \in WorkerStates /\ state.gen \in Generations
    <3>1. asset.content \in Contents \cup {NoContent}
      BY <1>0 DEF AssetRows
    <3> QED BY <3>1, BeginsAtGeneration DEF Points
  <2>2. WorkersOK'
    BY <1>0, <1>2, <2>1, WorkerMoves DEF FindVerified
  <2> QED BY <1>2, <2>2 DEF FindVerified, TypeOK, WorkersOK
<1>3. CASE FindPrepared(w)
  <2> DEFINE state == [Idle EXCEPT !.pc = "prepared", !.gen = asset.gen,
                                   !.token = job[asset.gen].token]
  <2>1. job[asset.gen].token \in Tokens \cup {NoToken}
    BY <1>0 DEF TypeOK, JobRows
  <2>2. state \in WorkerStates /\ state.gen \in Generations
    BY <2>1, BeginsAtGeneration DEF Points
  <2>3. WorkersOK'
    BY <1>0, <1>3, <2>2, WorkerMoves DEF FindPrepared
  <2> QED BY <1>3, <2>3 DEF FindPrepared, TypeOK, WorkersOK
<1>4. CASE RecoverPublished(w)
  <2> DEFINE state == [worker[w] EXCEPT !.pc = "takeover", !.content = ContentOf(part[Gen(w)])]
  <2>1. Gen(w) \in Generations /\ part[Gen(w)].extent = "complete"
    BY <1>0, <1>4 DEF RecoverPublished, At, Recovery
  <2>2. state \in WorkerStates /\ state.gen \in Generations
    BY <1>0, <2>1, ContentOfPart DEF WorkerStates, Points, Gen
  <2>3. worker' = [worker EXCEPT ![w] = state]
    BY <1>4 DEF RecoverPublished
  <2>4. WorkersOK'
    BY <1>0, <2>2, <2>3, WorkerMoves
  <2> QED BY <1>4, <2>4 DEF RecoverPublished, TypeOK, WorkersOK
<1>5. CASE Fetch(w)
  <2>1. Gen(w) \in Generations /\ worker[w].gen = Gen(w)
    BY <1>0, <1>5 DEF Fetch, At, Gen
  <2>2. PICK v \in {upstream, NoContent} :
          part' = [part EXCEPT ![Gen(w)] = Received(@, "complete", v)]
    BY <1>5 DEF Fetch
  <2>3. part'[Gen(w)] = Received(part[Gen(w)], "complete", v)
    BY <2>1, <2>2 DEF TypeOK
  <2>4. ContentOf(part'[Gen(w)]) = upstream
    BY <2>1, <2>3, ReceivedIsHonest DEF ContentOf
  <2>5. part' \in [Generations -> Parts]
    BY <2>1, <2>2, ReceivedIsHonest DEF TypeOK
  <2> DEFINE state == [worker[w] EXCEPT !.content = upstream,
                                        !.pc = IF upstream \in Unacceptable THEN "failing"
                                               ELSE "fetched"]
  <2>6. worker' = [worker EXCEPT ![w] = state]
    BY <1>5, <2>4 DEF Fetch
  <2>7. state \in WorkerStates /\ state.gen \in Generations
    BY <1>0, <2>1 DEF WorkerStates, Points
  <2>8. WorkersOK'
    BY <1>0, <2>6, <2>7, WorkerMoves
  <2>9. fetched' \in [Generations -> SUBSET Contents]
    BY <1>0, <1>5, <2>1 DEF Fetch, TypeOK
  <2> QED BY <1>5, <2>5, <2>8, <2>9 DEF Fetch, TypeOK, WorkersOK
<1>6. ASSUME NEW retryable \in BOOLEAN, FetchFails(w, retryable)
      PROVE  TypeOK'
  <2>1. Gen(w) \in Generations /\ worker[w].gen = Gen(w)
    BY <1>0, <1>6 DEF FetchFails, At, Gen
  <2>2. part' \in [Generations -> Parts]
    BY <1>6, <2>1, ReceivedIsHonest DEF FetchFails, TypeOK
  <2> DEFINE state == [worker[w] EXCEPT !.pc = "failing", !.retryable = retryable]
  <2>3. worker' = [worker EXCEPT ![w] = state]
    BY <1>6 DEF FetchFails
  <2>4. state \in WorkerStates /\ state.gen \in Generations
    BY <1>0, <2>1 DEF WorkerStates, Points
  <2>5. WorkersOK'
    BY <1>0, <2>3, <2>4, WorkerMoves
  <2> QED BY <1>6, <2>2, <2>5 DEF FetchFails, TypeOK, WorkersOK
<1>7. CASE Publish(w) \/ CheckVerified(w)
  <2>1. worker[w].pc # "idle"
    BY <1>7 DEF Publish, CheckVerified, At
  <2>2. \E pc \in {"reused", "failing", "published", "cleaning", "quarantined"} : Goes(w, pc)
    BY <1>7 DEF Publish, CheckVerified
  <2>3. WorkersOK'
    BY <1>0, <2>1, <2>2, WorkerGoes DEF Points
  <2>4. archive' \in [Contents -> {"none", "valid", "damaged", "lost"}]
    BY <1>7 DEF Publish, CheckVerified, TypeOK
  <2> QED BY <1>7, <2>3, <2>4 DEF Publish, CheckVerified, TypeOK, WorkersOK
<1>8. CASE CleanPart(w)
  <2>1. NoPart \in Parts
    BY DEF NoPart, Parts
  <2>2. part' \in [Generations -> Parts]
    BY <1>8, <2>1 DEF CleanPart, TypeOK
  <2>3. WorkersOK'
    BY <1>0, <1>8, WorkerGoes DEF CleanPart
  <2> QED BY <1>8, <2>2, <2>3 DEF CleanPart, TypeOK, WorkersOK
<1> QED BY <1>1, <1>2, <1>3, <1>4, <1>5, <1>6, <1>7, <1>8 DEF FileSteps

(* The steps of the world and the faults.                                       *)
LEMMA WorldStepType ==
  ASSUME TypeOK, World \/ Fault
  PROVE  TypeOK'
<1> USE AssetAssumption DEF AssetAssumption
<1>0. /\ asset \in AssetRows /\ job \in [Generations -> JobRows] /\ WorkersOK
  BY DEF TypeOK, WorkersOK
<1>1. ASSUME NEW g \in Generations, LeaseLapses(g)
      PROVE  TypeOK'
  <2>1. job' \in [Generations -> JobRows]
    BY <1>0, <1>1, JobWritesKeepRows, JobWritten DEF LeaseLapses
  <2> QED BY <1>1, <2>1 DEF LeaseLapses, TypeOK
<1>2. CASE Replace
  <2>1. asset' \in AssetRows
    BY <1>0, <1>2, AssetWritesKeepRows DEF Replace
  <2> QED BY <1>2, <2>1 DEF Replace, TypeOK
<1>3. ASSUME NEW c \in Contents,
             \/ UpstreamChanges(c) \/ SharedArchive(c)
             \/ \E how \in {"damaged", "lost"} : ArchiveDamaged(c, how)
      PROVE  TypeOK'
  <2>1. archive' \in [Contents -> {"none", "valid", "damaged", "lost"}]
    BY <1>3 DEF UpstreamChanges, SharedArchive, ArchiveDamaged, TypeOK
  <2> QED BY <1>3, <2>1 DEF UpstreamChanges, SharedArchive, ArchiveDamaged, TypeOK
<1>4. ASSUME NEW w \in Workers, Abandon(w) \/ Crash(w)
      PROVE  TypeOK'
  <2>1. [NoPart EXCEPT !.extent = "torn"] \in Parts
    BY DEF NoPart, Parts
  <2>2. part' \in [Generations -> Parts]
    BY <1>4, <2>1 DEF Abandon, Crash, TypeOK
  <2>3. WorkersOK'
    BY <1>0, <1>4, WorkerGoes DEF Abandon, Crash
  <2> QED BY <1>4, <2>2, <2>3 DEF Abandon, Crash, TypeOK, WorkersOK
<1> QED BY <1>1, <1>2, <1>3, <1>4 DEF World, Fault

(* Every step keeps every shape.                                                *)
LEMMA TypeStep == TypeOK /\ PartsAreHonest /\ [Next]_vars => TypeOK'
<1> SUFFICES ASSUME TypeOK, PartsAreHonest, [Next]_vars
             PROVE  TypeOK'
  OBVIOUS
<1>1. CASE UNCHANGED vars
  BY <1>1 DEF vars, TypeOK
<1> QED BY <1>1, RunSplit, RowStepType, FileStepType, WorldStepType DEF Next

(* The first states are well formed.                                            *)
LEMMA TypeInit == Init => TypeOK
<1> USE JobAssumption, AssetAssumption DEF JobAssumption, AssetAssumption
<1> SUFFICES ASSUME Init PROVE TypeOK
  OBVIOUS
<1>1. asset \in AssetRows
  BY DEF Init, Discovered, AssetRows, AssetStatuses, JobErrors, Generations
<1>2. NoJobRow \in JobRows
  BY DEF NoJobRow, JobRows, JobStatuses, JobErrors
<1>3. NoPart \in Parts
  BY DEF NoPart, Parts
<1>4. worker \in [Workers -> WorkerStates] /\ \A w \in Workers : worker[w].pc = "idle"
  BY IdleType DEF Init, Idle
<1> QED BY <1>1, <1>2, <1>3, <1>4 DEF Init, TypeOK

--------------------------------------------------------------------------------
(* The inductive invariant *)

(* The Jobs of later generations are not there yet.                             *)
FutureIsBlank ==
  \A g \in Generations : g > asset.gen => job[g].status = "absent"

(* What a run has in hand was fetched in full under its generation and accepted, *)
(* and once linked it is in the archive.                                        *)
WorkersAreHonest ==
  \A w \in Workers :
    /\ worker[w].pc \in {"fetched", "guarded", "reused", "published", "takeover", "recovered"} =>
         worker[w].content \in fetched[worker[w].gen] \ Unacceptable
    /\ worker[w].pc \in {"reused", "published"} => archive[worker[w].content] # "none"

IInv == /\ TypeOK
        /\ FutureIsBlank
        /\ PartsAreHonest
        /\ WorkersAreHonest
        /\ RowsAgree
        /\ VerifiedWasFetched

(* The rows as one step of a run leaves them: those of the asset's generation   *)
(* and no other.                                                                *)
LEMMA RowStepsAreLocal ==
  ASSUME TypeOK, NEW w \in Workers, RowSteps(w)
  PROVE  /\ asset'.gen \in {asset.gen, asset.gen + 1}
         /\ \A g \in Generations : g # asset.gen => job'[g] = job[g]
         /\ asset'.gen # asset.gen => asset' = Discovered(asset.gen + 1) /\ job' = job
<1>0. asset \in AssetRows /\ job \in [Generations -> JobRows]
  BY DEF TypeOK
<1> USE <1>0 DEF AssetRows, Downloading, Verified, FailedLike, Returned, Discovered
<1>1. ASSUME NEW recovery \in BOOLEAN, GiveUpExpired(w, recovery)
      PROVE  asset'.gen = asset.gen /\ \A g \in Generations : g # asset.gen => job'[g] = job[g]
  BY <1>1 DEF GiveUpExpired
<1>2. ASSUME NEW recovery \in BOOLEAN, NEW token \in Tokens, StartAttempt(w, recovery, token)
      PROVE  asset'.gen = asset.gen /\ \A g \in Generations : g # asset.gen => job'[g] = job[g]
  BY <1>2 DEF StartAttempt
<1>3. ASSUME NEW token \in Tokens, TakeOverPrepared(w, token)
      PROVE  asset'.gen = asset.gen /\ \A g \in Generations : g # asset.gen => job'[g] = job[g]
  BY <1>3 DEF TakeOverPrepared, StillDownloading
<1>4. CASE ValidateRecovered(w) \/ GuardPublish(w) \/ GuardReuse(w)
  <2>1. asset' = asset /\ \A g \in Generations : g # asset.gen => job'[g] = job[g]
    BY <1>4 DEF ValidateRecovered, GuardPublish, GuardReuse, Guard, StillDownloading
  <2> QED BY <2>1
<1>5. CASE Finalize(w) \/ RecordFailure(w)
  <2>1. asset'.gen = asset.gen /\ \A g \in Generations : g # asset.gen => job'[g] = job[g]
    BY <1>5 DEF Finalize, RecordFailure, StillDownloading
  <2> QED BY <2>1
<1>6. CASE ResetVerified(w)
  BY <1>6 DEF ResetVerified
<1> QED BY <1>1, <1>2, <1>3, <1>4, <1>5, <1>6 DEF RowSteps

(* The files and rows that a step outside the rows leaves alone.                *)
LEMMA QuietSteps ==
  /\ \A w \in Workers : FileSteps(w) => UNCHANGED <<asset, job>>
  /\ \A w \in Workers : Abandon(w) \/ Crash(w) => UNCHANGED <<asset, job>>
  /\ \A c \in Contents : UpstreamChanges(c) \/ SharedArchive(c) => UNCHANGED <<asset, job>>
  /\ \A c \in Contents, how \in {"damaged", "lost"} :
       ArchiveDamaged(c, how) => UNCHANGED <<asset, job>>
BY DEF FileSteps, FindPrepared, RefuseUnprepared, FindVerified, RecoverNothing, RecoverPublished,
       RecoverRejected, LosesOwnership, Fetch, FetchFails, Publish, CleanPart, CheckVerified,
       Abandon, Crash, UpstreamChanges, SharedArchive, ArchiveDamaged

(* A lapsing lease changes the lease of one Job only.                           *)
LEMMA LapseSays ==
  ASSUME TypeOK, NEW g \in Generations, LeaseLapses(g)
  PROVE  /\ asset' = asset
         /\ \A h \in Generations : /\ job'[h].status = job[h].status
                                   /\ job'[h].error = job[h].error
                                   /\ job'[h].attempts = job[h].attempts
                                   /\ job[h].lease # "none" => job'[h].lease # "none"
<1>1. job \in [Generations -> JobRows] /\ job[g] \in JobRows
  BY DEF TypeOK
<1>2. job' = [job EXCEPT ![g] = [job[g] EXCEPT !.lease = "expired"]] /\ asset' = asset
  BY DEF LeaseLapses, Lapsed
<1> QED BY <1>1, <1>2 DEF JobRows

(* A replaced locator finds no Job under its new generation.                    *)
LEMMA DiscoveredAgrees ==
  ASSUME TypeOK, FutureIsBlank, asset.gen < MaxGeneration,
         asset' = Discovered(asset.gen + 1), job' = job
  PROVE  RowsAgree'
<1>1. asset.gen \in Generations /\ asset.gen + 1 \in Generations
  BY AssetAssumption DEF AssetAssumption, TypeOK, AssetRows, Generations
<1>2. job[asset.gen + 1].status = "absent"
  BY <1>1 DEF FutureIsBlank, Generations
<1>3. asset'.gen = asset.gen + 1 /\ asset'.status = "discovered"
  BY DEF Discovered
<1> QED BY <1>2, <1>3 DEF RowsAgree

(* A step that writes rows leaves the two rows in agreement.                    *)
LEMMA RowStepAgrees ==
  ASSUME TypeOK, FutureIsBlank, RowsAgree, NEW w \in Workers, RowSteps(w)
  PROVE  RowsAgree'
<1> DEFINE g == asset.gen
           row == job[g]
<1>0. /\ asset \in AssetRows /\ job \in [Generations -> JobRows]
      /\ g \in Generations /\ row \in JobRows
      /\ asset.status \in AssetStatuses
  BY DEF TypeOK, AssetRows
<1>1. ASSUME NEW recovery \in BOOLEAN, GiveUpExpired(w, recovery)
      PROVE  RowsAgree'
  <2>1. row.status = "running"
    BY <1>1 DEF GiveUpExpired, RowsAgree
  <2>2. Reclaimable = Reclaimed(row)
    BY <1>1, <2>1 DEF GiveUpExpired, Reclaimable, Enqueued
  <2>3. Reclaimable.status = "failed_terminal" /\ Reclaimable.error = "lease_expired"
    BY <1>0, <1>1, <2>1, <2>2, JobWritesSay DEF GiveUpExpired
  <2>4. /\ asset'.gen = g /\ asset'.status = "failed_terminal" /\ asset'.error = "lease_expired"
        /\ job'[g] = Reclaimable
    BY <1>0, <1>1, <2>3 DEF GiveUpExpired, FailedLike, AssetRows
  <2> QED BY <2>3, <2>4 DEF RowsAgree
<1>2. ASSUME NEW recovery \in BOOLEAN, NEW token \in Tokens, StartAttempt(w, recovery, token)
      PROVE  RowsAgree'
  <2>1. Reclaimable \in JobRows
    BY <1>0, JobWritesKeepRows DEF Reclaimable
  <2>2. asset'.gen = g /\ asset'.status = "downloading"
    BY <1>0, <1>2 DEF StartAttempt, Downloading, AssetRows
  <2>3. job'[g].status = "running" /\ job'[g].lease = "live"
    BY <1>0, <1>2, <2>1, JobWritesSay DEF StartAttempt
  <2> QED BY <2>2, <2>3 DEF RowsAgree
<1>3. ASSUME NEW token \in Tokens, TakeOverPrepared(w, token)
      PROVE  RowsAgree'
  <2>1. Gen(w) = g
    BY <1>3 DEF TakeOverPrepared, StillDownloading
  <2>2. asset'.gen = g /\ asset'.status = "downloading"
    BY <1>0, <1>3 DEF TakeOverPrepared, StillDownloading, Returned, AssetRows
  <2>3. job'[g].status = "running" /\ job'[g].lease = "live"
    BY <1>0, <1>3, <2>1, JobWritesSay DEF TakeOverPrepared, CanTakeOver
  <2> QED BY <2>2, <2>3 DEF RowsAgree
<1>4. CASE ValidateRecovered(w) \/ GuardPublish(w) \/ GuardReuse(w)
  <2>1. Gen(w) = g /\ asset.status = "downloading" /\ asset' = asset
    BY <1>4 DEF ValidateRecovered, GuardPublish, GuardReuse, Guard, StillDownloading
  <2>2. job'[g] = Renewed(row)
    BY <1>0, <1>4, <2>1 DEF ValidateRecovered, GuardPublish, GuardReuse, Guard
  <2>3. job'[g].status = "running" /\ job'[g].lease = "live"
    BY <1>0, <2>1, <2>2, JobWritesSay DEF RowsAgree
  <2> QED BY <2>1, <2>3 DEF RowsAgree
<1>5. CASE Finalize(w)
  <2>1. Gen(w) = g /\ asset'.gen = g /\ asset'.status = "verified"
    BY <1>0, <1>5 DEF Finalize, StillDownloading, Verified, AssetRows
  <2>2. job'[g].status = "succeeded"
    BY <1>0, <1>5, <2>1, JobWritesSay DEF Finalize
  <2> QED BY <2>1, <2>2 DEF RowsAgree
<1>6. CASE RecordFailure(w)
  <2> DEFINE failed == Failed(row, worker[w].retryable)
  <2>1. Gen(w) = g /\ worker[w].retryable \in BOOLEAN
    BY <1>6 DEF RecordFailure, StillDownloading, TypeOK, WorkerStates
  <2>2. /\ asset'.gen = g /\ asset'.status = failed.status /\ asset'.error = "other"
        /\ job'[g] = failed
    BY <1>0, <1>6, <2>1 DEF RecordFailure, FailedLike, AssetRows
  <2>3. /\ failed.error = "other"
        /\ \/ failed.status = "failed_terminal"
           \/ failed.status = "failed_retryable" /\ failed.attempts < MaxAttempts
    BY <1>0, <2>1, JobWritesSay
  <2> HIDE DEF failed
  <2> QED BY <2>2, <2>3 DEF RowsAgree
<1>7. CASE ResetVerified(w)
  BY <1>7, DiscoveredAgrees DEF ResetVerified
<1> QED BY <1>1, <1>2, <1>3, <1>4, <1>5, <1>6, <1>7 DEF RowSteps

(* Locator, asset and Job rows never part.                                      *)
LEMMA RowsStep ==
  ASSUME TypeOK, FutureIsBlank, RowsAgree, [Next]_vars
  PROVE  RowsAgree' /\ FutureIsBlank'
<1>1. ASSUME UNCHANGED <<asset, job>>
      PROVE  RowsAgree' /\ FutureIsBlank'
  BY <1>1 DEF RowsAgree, FutureIsBlank
<1>2. ASSUME NEW w \in Workers, RowSteps(w)
      PROVE  RowsAgree' /\ FutureIsBlank'
  <2>1. asset.gen \in Generations
    BY DEF TypeOK, AssetRows
  <2>2. FutureIsBlank'
    BY <1>2, <2>1, RowStepsAreLocal DEF FutureIsBlank, Generations
  <2> QED BY <1>2, <2>2, RowStepAgrees
<1>3. ASSUME NEW g \in Generations, LeaseLapses(g)
      PROVE  RowsAgree' /\ FutureIsBlank'
  <2>1. asset.gen \in Generations /\ asset.status \in AssetStatuses
    BY DEF TypeOK, AssetRows
  <2> QED BY <1>3, <2>1, LapseSays DEF RowsAgree, FutureIsBlank, AssetStatuses
<1>4. CASE Replace
  <2>1. asset.gen \in Generations
    BY DEF TypeOK, AssetRows
  <2>2. asset'.gen = asset.gen + 1 /\ job' = job
    BY <1>4 DEF Replace, Discovered
  <2>3. FutureIsBlank'
    BY <2>1, <2>2 DEF FutureIsBlank, Generations
  <2> QED BY <1>4, <2>3, DiscoveredAgrees DEF Replace
<1>5. CASE UNCHANGED vars
  BY <1>1, <1>5 DEF vars
<1> QED BY <1>1, <1>2, <1>3, <1>4, <1>5, RunSplit, QuietSteps DEF Next, World, Fault

(* Nothing that was fetched is forgotten, and a blob that was ever published is *)
(* valid, damaged or lost ever after.                                           *)
LEMMA HistoryGrows ==
  ASSUME TypeOK, [Next]_vars
  PROVE  /\ \A g \in Generations : fetched[g] \subseteq fetched'[g]
         /\ \A c \in Contents : archive[c] # "none" => archive'[c] # "none"
<1> USE DEF TypeOK
<1>1. ASSUME NEW w \in Workers, RowSteps(w)
      PROVE  UNCHANGED <<fetched, archive>>
  BY <1>1 DEF RowSteps, GiveUpExpired, StartAttempt, TakeOverPrepared, ValidateRecovered,
              GuardPublish, GuardReuse, Finalize, RecordFailure, ResetVerified
<1>2. ASSUME NEW w \in Workers, Fetch(w)
      PROVE  archive' = archive /\ \A g \in Generations : fetched[g] \subseteq fetched'[g]
  BY <1>2 DEF Fetch
<1>3. ASSUME NEW w \in Workers, Publish(w) \/ CheckVerified(w)
      PROVE  /\ fetched' = fetched
             /\ \A c \in Contents : archive[c] # "none" => archive'[c] # "none"
  BY <1>3 DEF Publish, CheckVerified
<1>4. ASSUME NEW w \in Workers, FileSteps(w), ~Fetch(w), ~Publish(w), ~CheckVerified(w)
      PROVE  UNCHANGED <<fetched, archive>>
  BY <1>4 DEF FileSteps, FindPrepared, RefuseUnprepared, FindVerified, RecoverNothing,
              RecoverPublished, RecoverRejected, LosesOwnership, FetchFails, CleanPart
<1>5. CASE World \/ Fault
  <2>1. ASSUME NEW c \in Contents,
               \/ UpstreamChanges(c) \/ SharedArchive(c)
               \/ \E how \in {"damaged", "lost"} : ArchiveDamaged(c, how)
        PROVE  /\ fetched' = fetched
               /\ \A d \in Contents : archive[d] # "none" => archive'[d] # "none"
    BY <2>1 DEF UpstreamChanges, SharedArchive, ArchiveDamaged
  <2>2. ASSUME \/ Replace \/ \E g \in Generations : LeaseLapses(g)
               \/ \E w \in Workers : Abandon(w) \/ Crash(w)
        PROVE  UNCHANGED <<fetched, archive>>
    BY <2>2 DEF Replace, LeaseLapses, Abandon, Crash
  <2> QED BY <1>5, <2>1, <2>2 DEF World, Fault
<1>6. CASE UNCHANGED vars
  BY <1>6 DEF vars
<1> QED BY <1>1, <1>2, <1>3, <1>4, <1>5, <1>6, RunSplit DEF Next

(* A part that is complete, or may be continued, is of one content.             *)
LEMMA PartsStep ==
  ASSUME TypeOK, PartsAreHonest, [Next]_vars
  PROVE  PartsAreHonest'
<1>1. ASSUME part' = part
      PROVE  PartsAreHonest'
  BY <1>1, HistoryGrows DEF PartsAreHonest
<1>2. ASSUME NEW g \in Generations, NEW p,
             part' = [part EXCEPT ![g] = p], p.extent \notin {"partial", "complete"}
      PROVE  PartsAreHonest'
  BY <1>2, HistoryGrows DEF PartsAreHonest, TypeOK
<1>3. ASSUME NEW w \in Workers, NEW extent \in {"partial", "complete"},
             NEW v \in {upstream, NoContent}, Gen(w) \in Generations,
             part' = [part EXCEPT ![Gen(w)] = Received(@, extent, v)],
             extent = "complete" => upstream \in fetched'[Gen(w)]
      PROVE  PartsAreHonest'
  <2> DEFINE p == Received(part[Gen(w)], extent, v)
  <2>1. /\ p.bytes = {upstream} /\ upstream \in Contents
        /\ p.validator # NoContent => p.bytes = {p.validator}
        /\ p.extent = "complete" => p.bytes \subseteq fetched'[Gen(w)]
    BY <1>3, ReceivedIsHonest, HistoryGrows DEF TypeOK
  <2> HIDE DEF p
  <2>2. \A g \in Generations : part'[g] = IF g = Gen(w) THEN p ELSE part[g]
    BY <1>3 DEF p, TypeOK
  <2> QED BY <2>1, <2>2, HistoryGrows DEF PartsAreHonest
<1>4. ASSUME NEW w \in Workers, Fetch(w) \/ \E retryable \in BOOLEAN : FetchFails(w, retryable)
      PROVE  PartsAreHonest'
  <2>1. Gen(w) \in Generations
    BY <1>4 DEF Fetch, FetchFails, At, Gen, TypeOK
  <2>2. CASE Fetch(w)
    <3>1. upstream \in fetched'[Gen(w)]
      BY <2>1, <2>2 DEF Fetch, TypeOK
    <3> QED BY <1>3, <2>1, <2>2, <3>1 DEF Fetch
  <2>3. ASSUME NEW retryable \in BOOLEAN, FetchFails(w, retryable)
        PROVE  PartsAreHonest'
    BY <1>1, <1>3, <2>1, <2>3 DEF FetchFails
  <2> QED BY <1>4, <2>2, <2>3
<1>5. ASSUME NEW w \in Workers, CleanPart(w) \/ Abandon(w) \/ Crash(w)
      PROVE  PartsAreHonest'
  <2>1. worker[w].pc # "idle" => Gen(w) \in Generations
    BY DEF TypeOK, Gen
  <2>2. /\ NoPart.extent \notin {"partial", "complete"}
        /\ [NoPart EXCEPT !.extent = "torn"].extent \notin {"partial", "complete"}
    BY DEF NoPart
  <2> QED BY <1>1, <1>2, <1>5, <2>1, <2>2 DEF CleanPart, Abandon, Crash, At
<1>6. ASSUME NEW w \in Workers, RowSteps(w)
      PROVE  part' = part
  BY <1>6 DEF RowSteps, GiveUpExpired, StartAttempt, TakeOverPrepared, ValidateRecovered,
              GuardPublish, GuardReuse, Finalize, RecordFailure, ResetVerified
<1>7. ASSUME NEW w \in Workers, FileSteps(w), ~Fetch(w), ~CleanPart(w),
             \A retryable \in BOOLEAN : ~FetchFails(w, retryable)
      PROVE  part' = part
  BY <1>7 DEF FileSteps, FindPrepared, RefuseUnprepared, FindVerified, RecoverNothing,
              RecoverPublished, RecoverRejected, LosesOwnership, Publish, CheckVerified
<1>8. CASE World \/ \E c \in Contents, how \in {"damaged", "lost"} : ArchiveDamaged(c, how)
  BY <1>1, <1>8 DEF World, LeaseLapses, Replace, UpstreamChanges, SharedArchive, ArchiveDamaged
<1>9. CASE UNCHANGED vars
  BY <1>1, <1>9 DEF vars
<1> QED BY <1>1, <1>4, <1>5, <1>6, <1>7, <1>8, <1>9, RunSplit DEF Next, Fault

(* The points at which a run has a content in hand.                             *)
Holding == {"fetched", "guarded", "reused", "published", "takeover", "recovered"}

(* One worker moves: it ends, holds nothing, or holds what it held or fetched.  *)
LEMMA WorkerMovesHonestly ==
  ASSUME TypeOK, WorkersAreHonest, [Next]_vars, NEW w \in Workers,
         \A v \in Workers \ {w} : worker'[v] = worker[v],
         \/ worker'[w].pc \notin Holding
         \/ /\ worker'[w].gen \in Generations /\ worker'[w].content \in Contents
            /\ worker'[w].content \in fetched'[worker'[w].gen] \ Unacceptable
            /\ worker'[w].pc \in {"reused", "published"} => archive'[worker'[w].content] # "none"
  PROVE  WorkersAreHonest'
<1> SUFFICES ASSUME NEW v \in Workers
             PROVE  /\ worker'[v].pc \in Holding =>
                         worker'[v].content \in fetched'[worker'[v].gen] \ Unacceptable
                    /\ worker'[v].pc \in {"reused", "published"} =>
                         archive'[worker'[v].content] # "none"
  BY DEF WorkersAreHonest, Holding
<1>1. CASE v = w
  BY <1>1 DEF Holding
<1>2. CASE v # w
  <2>1. worker'[v] = worker[v]
    BY <1>2
  <2>2. worker[v].pc \in Holding =>
          /\ worker[v].gen \in Generations
          /\ worker[v].content \in fetched[worker[v].gen] \ Unacceptable
          /\ worker[v].content \in Contents
    BY DEF TypeOK, WorkersAreHonest, Holding
  <2>3. worker[v].pc \in {"reused", "published"} => archive[worker[v].content] # "none"
    BY DEF WorkersAreHonest
  <2> QED BY <2>1, <2>2, <2>3, HistoryGrows DEF Holding
<1> QED BY <1>1, <1>2

(* Every step leaves every run with a content that was fetched and accepted.    *)
LEMMA WorkersStep ==
  ASSUME TypeOK, PartsAreHonest, WorkersAreHonest, [Next]_vars
  PROVE  WorkersAreHonest'
<1>1. ASSUME worker' = worker
      PROVE  WorkersAreHonest'
  <2>1. CASE Workers = {}
    BY <2>1 DEF WorkersAreHonest
  <2>2. ASSUME NEW w \in Workers
        PROVE  WorkersAreHonest'
    <3>1. worker[w].pc \in Holding =>
            /\ worker[w].gen \in Generations
            /\ worker[w].content \in fetched[worker[w].gen] \ Unacceptable
            /\ worker[w].content \in Contents
      BY DEF TypeOK, WorkersAreHonest, Holding
    <3>2. worker[w].pc \in {"reused", "published"} => archive[worker[w].content] # "none"
      BY DEF WorkersAreHonest
    <3> QED BY <1>1, <3>1, <3>2, HistoryGrows, WorkerMovesHonestly DEF Holding
  <2> QED BY <2>1, <2>2
<1>2. ASSUME NEW w \in Workers, GoesIdle(w)
      PROVE  WorkersAreHonest'
  <2>1. worker'[w].pc = "idle" /\ \A v \in Workers \ {w} : worker'[v] = worker[v]
    BY <1>2 DEF GoesIdle, Idle, TypeOK
  <2> QED BY <2>1, WorkerMovesHonestly DEF Holding
<1>3. ASSUME NEW w \in Workers, NEW pc, Goes(w, pc),
             \/ pc \notin Holding
             \/ /\ worker[w].pc \in Holding
                /\ pc \in {"reused", "published"} => archive'[worker[w].content] # "none"
      PROVE  WorkersAreHonest'
  <2>1. /\ \A v \in Workers \ {w} : worker'[v] = worker[v]
        /\ worker'[w].pc = pc /\ worker'[w].gen = worker[w].gen
        /\ worker'[w].content = worker[w].content
    BY <1>3 DEF Goes, TypeOK, WorkerStates
  <2>2. worker[w].pc \in Holding =>
          /\ worker[w].gen \in Generations
          /\ worker[w].content \in fetched[worker[w].gen] \ Unacceptable
          /\ worker[w].content \in Contents
    BY DEF TypeOK, WorkersAreHonest, Holding
  <2> QED BY <1>3, <2>1, <2>2, HistoryGrows, WorkerMovesHonestly
<1>4. ASSUME NEW w \in Workers, RowSteps(w)
      PROVE  WorkersAreHonest'
  <2>1. ASSUME NEW recovery \in BOOLEAN, GiveUpExpired(w, recovery)
        PROVE  WorkersAreHonest'
    BY <1>2, <2>1 DEF GiveUpExpired
  <2>2. ASSUME NEW recovery \in BOOLEAN, NEW token \in Tokens, StartAttempt(w, recovery, token)
        PROVE  WorkersAreHonest'
    <3>1. worker'[w].pc = "fetching" /\ \A v \in Workers \ {w} : worker'[v] = worker[v]
      BY <2>2 DEF StartAttempt, Idle, TypeOK
    <3> QED BY <3>1, WorkerMovesHonestly DEF Holding
  <2>3. ASSUME NEW token \in Tokens, TakeOverPrepared(w, token)
        PROVE  WorkersAreHonest'
    <3>1. /\ worker[w].gen \in Generations /\ worker[w].content \in Contents
          /\ worker[w].content \in fetched[worker[w].gen] \ Unacceptable
      BY <2>3 DEF TakeOverPrepared, At, TypeOK, WorkersAreHonest
    <3>2. /\ \A v \in Workers \ {w} : worker'[v] = worker[v]
          /\ worker'[w].gen = worker[w].gen /\ worker'[w].content = worker[w].content
          /\ worker'[w].pc = "recovered"
      BY <2>3 DEF TakeOverPrepared, TypeOK, WorkerStates
    <3> QED BY <3>1, <3>2, HistoryGrows, WorkerMovesHonestly
  <2>4. CASE ValidateRecovered(w) \/ GuardReuse(w) \/ GuardPublish(w)
    <3>1. CASE ValidateRecovered(w)
      <4>1. archive'[worker[w].content] # "none"
        BY <3>1 DEF ValidateRecovered
      <4> QED BY <1>3, <3>1, <4>1 DEF ValidateRecovered, At, Holding
    <3>2. CASE GuardReuse(w)
      <4>1. archive'[worker[w].content] # "none"
        BY <3>2 DEF GuardReuse, At, WorkersAreHonest
      <4> QED BY <1>3, <3>2, <4>1 DEF GuardReuse, At, Holding
    <3>3. CASE GuardPublish(w)
      BY <1>3, <3>3 DEF GuardPublish, At, Holding
    <3> QED BY <2>4, <3>1, <3>2, <3>3
  <2>5. CASE Finalize(w)
    BY <1>3, <2>5 DEF Finalize, Holding
  <2>6. CASE RecordFailure(w) \/ ResetVerified(w)
    BY <1>2, <2>6 DEF RecordFailure, ResetVerified
  <2> QED BY <1>4, <2>1, <2>2, <2>3, <2>4, <2>5, <2>6 DEF RowSteps
<1>5. ASSUME NEW w \in Workers, FileSteps(w)
      PROVE  WorkersAreHonest'
  <2>1. CASE RefuseUnprepared(w) \/ RecoverRejected(w) \/ LosesOwnership(w) \/ CleanPart(w)
    BY <1>2, <2>1 DEF RefuseUnprepared, RecoverRejected, LosesOwnership, CleanPart
  <2>2. ASSUME FindPrepared(w) \/ \E recovery \in BOOLEAN : FindVerified(w, recovery)
        PROVE  WorkersAreHonest'
    <3>1. /\ worker'[w].pc \in {"prepared", "checking"}
          /\ \A v \in Workers \ {w} : worker'[v] = worker[v]
      BY <2>2 DEF FindPrepared, FindVerified, Idle, TypeOK
    <3> QED BY <3>1, WorkerMovesHonestly DEF Holding
  <2>3. CASE RecoverNothing(w)
    BY <1>3, <2>3 DEF RecoverNothing, Holding
  <2>4. CASE RecoverPublished(w)
    <3> DEFINE c == ContentOf(part[Gen(w)])
    <3>1. Gen(w) \in Generations /\ Gen(w) = worker[w].gen
      BY <2>4 DEF RecoverPublished, At, TypeOK, Gen
    <3>2. part[Gen(w)].extent = "complete" /\ c \notin Unacceptable
      BY <2>4 DEF RecoverPublished, Recovery
    <3>3. c \in Contents /\ c \in fetched[Gen(w)]
      BY <3>1, <3>2, ContentOfPart
    <3>4. /\ \A v \in Workers \ {w} : worker'[v] = worker[v]
          /\ worker'[w].gen = worker[w].gen /\ worker'[w].content = c
          /\ worker'[w].pc = "takeover"
      BY <2>4 DEF RecoverPublished, TypeOK, WorkerStates
    <3> QED BY <3>1, <3>2, <3>3, <3>4, HistoryGrows, WorkerMovesHonestly
  <2>5. CASE Fetch(w)
    <3>1. Gen(w) \in Generations /\ Gen(w) = worker[w].gen
      BY <2>5 DEF Fetch, At, TypeOK, Gen
    <3>2. PICK v \in {upstream, NoContent} :
            part' = [part EXCEPT ![Gen(w)] = Received(@, "complete", v)]
      BY <2>5 DEF Fetch
    <3>3. part'[Gen(w)] = Received(part[Gen(w)], "complete", v)
      BY <3>1, <3>2 DEF TypeOK
    <3>4. ContentOf(part'[Gen(w)]) = upstream
      BY <3>1, <3>3, ReceivedIsHonest DEF ContentOf
    <3>5. upstream \in fetched'[Gen(w)] /\ upstream \in Contents
      BY <2>5, <3>1 DEF Fetch, TypeOK
    <3>6. worker' = [worker EXCEPT ![w].content = upstream,
                                   ![w].pc = IF upstream \in Unacceptable THEN "failing"
                                             ELSE "fetched"]
      BY <2>5, <3>4 DEF Fetch
    <3>7. /\ \A u \in Workers \ {w} : worker'[u] = worker[u]
          /\ worker'[w].gen = worker[w].gen /\ worker'[w].content = upstream
          /\ worker'[w].pc = IF upstream \in Unacceptable THEN "failing" ELSE "fetched"
      BY <3>6 DEF TypeOK, WorkerStates
    <3> QED BY <3>1, <3>5, <3>7, WorkerMovesHonestly DEF Holding
  <2>6. ASSUME NEW retryable \in BOOLEAN, FetchFails(w, retryable)
        PROVE  WorkersAreHonest'
    <3>1. worker'[w].pc = "failing" /\ \A v \in Workers \ {w} : worker'[v] = worker[v]
      BY <2>6 DEF FetchFails, TypeOK, WorkerStates
    <3> QED BY <3>1, WorkerMovesHonestly DEF Holding
  <2>7. CASE Publish(w)
    <3> DEFINE c == worker[w].content
    <3>1. worker[w].pc = "guarded" /\ worker[w].pc \in Holding /\ c \in Contents
      BY <2>7 DEF Publish, At, Holding, TypeOK, WorkersAreHonest
    <3>2. CASE archive[c] = "damaged"
      BY <1>3, <2>7, <3>2 DEF Publish, Holding
    <3>3. CASE archive[c] = "valid"
      <4>1. archive'[c] # "none"
        BY <3>1, <3>3, HistoryGrows
      <4> QED BY <1>3, <2>7, <3>1, <3>3, <4>1 DEF Publish
    <3>4. CASE archive[c] \in {"none", "lost"}
      <4>1. archive'[c] # "none"
        BY <2>7, <3>1, <3>4 DEF Publish, TypeOK
      <4>2. Goes(w, "published")
        BY <2>7, <3>4 DEF Publish
      <4> QED BY <1>3, <3>1, <4>1, <4>2
    <3> QED BY <3>1, <3>2, <3>3, <3>4 DEF TypeOK
  <2>8. CASE CheckVerified(w)
    <3>1. \E pc \in {"cleaning", "quarantined"} : Goes(w, pc)
      BY <2>8 DEF CheckVerified
    <3> QED BY <1>3, <3>1 DEF Holding
  <2> QED BY <1>5, <2>1, <2>2, <2>3, <2>4, <2>5, <2>6, <2>7, <2>8 DEF FileSteps
<1>6. ASSUME NEW w \in Workers, Abandon(w) \/ Crash(w)
      PROVE  WorkersAreHonest'
  BY <1>2, <1>6 DEF Abandon, Crash
<1>7. CASE World \/ \E c \in Contents, how \in {"damaged", "lost"} : ArchiveDamaged(c, how)
  BY <1>1, <1>7 DEF World, LeaseLapses, Replace, UpstreamChanges, SharedArchive, ArchiveDamaged
<1>8. CASE UNCHANGED vars
  BY <1>1, <1>8 DEF vars
<1> QED BY <1>4, <1>5, <1>6, <1>7, <1>8, RunSplit DEF Next, Fault

(* A row is verified by Finalize alone, with the content its worker has in hand, *)
(* and stays so until its locator is replaced.                                  *)
LEMMA VerifiedStep == IInv /\ RowsAgree' /\ [Next]_vars => VerifiedWasFetched'
<1> SUFFICES ASSUME IInv, RowsAgree', [Next]_vars, asset'.status = "verified"
             PROVE  /\ asset'.content \in fetched'[asset'.gen] \ Unacceptable
                    /\ archive'[asset'.content] # "none"
                    /\ job'[asset'.gen].status = "succeeded"
  BY DEF VerifiedWasFetched
<1> USE DEF IInv
<1>0. /\ asset \in AssetRows /\ asset.gen \in Generations
      /\ fetched[asset.gen] \subseteq Contents
  BY DEF TypeOK, AssetRows
<1>1. job'[asset'.gen].status = "succeeded"
  BY DEF RowsAgree
<1>2. ASSUME asset' = asset
      PROVE  /\ asset'.content \in fetched'[asset'.gen] \ Unacceptable
             /\ archive'[asset'.content] # "none"
  <2>1. asset.content \in fetched[asset.gen] \ Unacceptable /\ archive[asset.content] # "none"
    BY <1>2 DEF VerifiedWasFetched
  <2>2. asset.content \in Contents
    BY <1>0, <2>1
  <2> QED BY <1>0, <1>2, <2>1, <2>2, HistoryGrows
<1>3. ASSUME NEW w \in Workers, Finalize(w)
      PROVE  /\ asset'.content \in fetched'[asset'.gen] \ Unacceptable
             /\ archive'[asset'.content] # "none"
  <2>1. /\ worker[w].content \in fetched[worker[w].gen] \ Unacceptable
        /\ archive[worker[w].content] # "none"
        /\ worker[w].gen = asset.gen
    BY <1>3 DEF Finalize, At, StillDownloading, Gen, WorkersAreHonest
  <2>2. asset'.content = worker[w].content /\ asset'.gen = asset.gen
    BY <1>0, <1>3 DEF Finalize, Verified, AssetRows
  <2> QED BY <1>3, <2>1, <2>2 DEF Finalize
<1>4. ASSUME NEW w \in Workers, RowSteps(w), ~Finalize(w)
      PROVE  asset' = asset
  <2>1. ASSUME NEW recovery \in BOOLEAN, GiveUpExpired(w, recovery)
        PROVE  FALSE
    BY <1>0, <2>1 DEF GiveUpExpired, FailedLike, AssetRows
  <2>2. ASSUME NEW recovery \in BOOLEAN, NEW token \in Tokens, StartAttempt(w, recovery, token)
        PROVE  FALSE
    BY <1>0, <2>2 DEF StartAttempt, Downloading, AssetRows
  <2>3. ASSUME NEW token \in Tokens, TakeOverPrepared(w, token)
        PROVE  asset' = asset
    BY <1>0, <2>3 DEF TakeOverPrepared, Returned, AssetRows
  <2>4. CASE ValidateRecovered(w) \/ GuardPublish(w) \/ GuardReuse(w)
    BY <2>4 DEF ValidateRecovered, GuardPublish, GuardReuse
  <2>5. ~RecordFailure(w)
    <3> SUFFICES ASSUME RecordFailure(w) PROVE FALSE
      OBVIOUS
    <3> DEFINE failed == Failed(job[Gen(w)], worker[w].retryable)
    <3>1. job[Gen(w)] \in JobRows /\ worker[w].retryable \in BOOLEAN
      BY <1>0 DEF RecordFailure, StillDownloading, TypeOK, WorkerStates
    <3>2. asset'.status = failed.status
      BY <1>0 DEF RecordFailure, FailedLike, AssetRows
    <3> QED BY <3>1, <3>2, JobWritesSay
  <2>6. ~ResetVerified(w)
    BY DEF ResetVerified, Discovered
  <2> QED BY <1>4, <2>1, <2>2, <2>3, <2>4, <2>5, <2>6 DEF RowSteps
<1>5. ~Replace
  BY DEF Replace, Discovered
<1>6. ASSUME NEW g \in Generations, LeaseLapses(g)
      PROVE  asset' = asset
  BY <1>6 DEF LeaseLapses
<1>7. CASE UNCHANGED vars
  BY <1>1, <1>2, <1>7 DEF vars
<1> QED BY <1>1, <1>2, <1>3, <1>4, <1>5, <1>6, <1>7, RunSplit, QuietSteps DEF Next, World, Fault

(* The invariant is inductive, ...                                              *)
LEMMA Inductive == IInv /\ [Next]_vars => IInv'
BY TypeStep, RowsStep, PartsStep, WorkersStep, VerifiedStep DEF IInv

(* ... holds at first, ...                                                      *)
LEMMA Initial == Init => IInv
<1> SUFFICES ASSUME Init PROVE IInv
  OBVIOUS
<1>1. TypeOK
  BY TypeInit
<1>2. \A w \in Workers : worker[w].pc = "idle"
  BY DEF Init, Idle
<1>3. \A g \in Generations : job[g].status = "absent" /\ part[g].extent = "none"
  BY DEF Init, NoJobRow, NoPart
<1>4. asset.status = "discovered" /\ asset.gen \in Generations
  BY <1>1 DEF Init, Discovered, TypeOK, AssetRows
<1> QED BY <1>1, <1>2, <1>3, <1>4
        DEF IInv, FutureIsBlank, PartsAreHonest, WorkersAreHonest, RowsAgree, VerifiedWasFetched

(* ... and so holds always.                                                     *)
LEMMA Invariant == Spec => []IInv
BY Initial, Inductive, PTL DEF Spec

(* For every number of workers, attempts, generations and contents: every row   *)
(* and every worker keeps its shape; in particular no Job counts an attempt     *)
(* past max_attempts, whoever claims, takes over or resumes it.                 *)
THEOREM TypeCorrect == Spec => []TypeOK
<1>1. IInv => TypeOK
  BY DEF IInv
<1> QED BY <1>1, Invariant, PTL

(* The asset row and the Job of its generation never part: every write of one   *)
(* is in the transaction that writes the other (_begin, _record_failure,        *)
(* _finalize_success, _takeover_prepared_recovery), and a new generation finds  *)
(* no Job of its own yet.                                                       *)
THEOREM RowsNeverPart == Spec => []RowsAgree
<1>1. IInv => RowsAgree
  BY DEF IInv
<1> QED BY <1>1, Invariant, PTL

(* What a verified row names was fetched in full under its generation, accepted *)
(* and published, because every run that reaches _finalize_success, by a fetch  *)
(* or by a recovered part, has such a content in hand.                          *)
THEOREM VerifiedIsTrue == Spec => []VerifiedWasFetched
<1>1. IInv => VerifiedWasFetched
  BY DEF IInv
<1> QED BY <1>1, Invariant, PTL

(* A part is never a mixture, however often the upstream changes: it is         *)
(* continued only under the validator it was begun with, and that validator     *)
(* names its bytes (_validate_partial_response).                                *)
THEOREM PartsAreOfOneContent == Spec => []PartIsOneContent
<1>1. IInv => PartIsOneContent
  <2> SUFFICES ASSUME IInv, NEW g \in Generations, part[g].extent \in {"partial", "complete"}
               PROVE  Cardinality(part[g].bytes) = 1
    BY DEF PartIsOneContent
  <2>1. PICK c \in Contents : part[g].bytes = {c}
    BY DEF IInv, PartsAreHonest
  <2> QED BY <2>1, FS_Singleton
<1> QED BY <1>1, Invariant, PTL

--------------------------------------------------------------------------------
(* Overtaken runs *)

(* A step of a run moves its own worker only; it writes rows only of the        *)
(* generation and under the token it began with, except when it begins or takes *)
(* over, or finds the checked blob of its generation gone.                      *)
LEMMA RunIsGuarded ==
  ASSUME TypeOK, NEW w \in Workers, Run(w)
  PROVE  /\ \A v \in Workers \ {w} : worker'[v] = worker[v]
         /\ worker[w].pc \notin {"idle", "unprepared", "prepared", "takeover"} =>
              \/ UNCHANGED <<asset, job>>
              \/ asset.gen = worker[w].gen /\ worker[w].token = job[worker[w].gen].token
              \/ worker[w].pc = "quarantined" /\ asset.gen = worker[w].gen
<1>1. ASSUME \E state : worker' = [worker EXCEPT ![w] = state]
      PROVE  \A v \in Workers \ {w} : worker'[v] = worker[v]
  BY <1>1 DEF TypeOK
<1>2. CASE FileSteps(w)
  <2>1. \A v \in Workers \ {w} : worker'[v] = worker[v]
    BY <1>2 DEF FileSteps, FindPrepared, RefuseUnprepared, FindVerified, RecoverNothing,
                RecoverPublished, RecoverRejected, LosesOwnership, Fetch, FetchFails, Publish,
                CleanPart, CheckVerified, GoesIdle, Goes, TypeOK
  <2> QED BY <1>2, <2>1, QuietSteps
<1>3. ASSUME NEW recovery \in BOOLEAN,
             \/ GiveUpExpired(w, recovery)
             \/ \E token \in Tokens : StartAttempt(w, recovery, token)
      PROVE  /\ \A v \in Workers \ {w} : worker'[v] = worker[v]
             /\ worker[w].pc \in {"idle", "unprepared"}
  BY <1>3 DEF GiveUpExpired, StartAttempt, May, LockFree, At, GoesIdle, TypeOK
<1>4. ASSUME NEW token \in Tokens, TakeOverPrepared(w, token)
      PROVE  /\ \A v \in Workers \ {w} : worker'[v] = worker[v]
             /\ worker[w].pc = "takeover"
  BY <1>4 DEF TakeOverPrepared, At, TypeOK
<1>5. CASE ValidateRecovered(w) \/ GuardPublish(w) \/ GuardReuse(w)
  BY <1>5 DEF ValidateRecovered, GuardPublish, GuardReuse, Guard, OwnsUnreclaimed,
              StillDownloading, Gen, Goes, TypeOK
<1>6. CASE Finalize(w) \/ RecordFailure(w)
  BY <1>6 DEF Finalize, RecordFailure, Owns, OwnsUnreclaimed, StillDownloading, Gen, Goes,
              GoesIdle, TypeOK
<1>7. CASE ResetVerified(w)
  BY <1>7 DEF ResetVerified, At, Gen, GoesIdle, TypeOK
<1> QED BY <1>2, <1>3, <1>4, <1>5, <1>6, <1>7, RunSplit DEF RowSteps

(* For every number of workers and tokens: a run whose generation was replaced  *)
(* or whose Job is under another token writes no row (_guard_publish,           *)
(* AssetRepository's compare-and-set).                                          *)
THEOREM OvertakenRunsAreHarmless == Spec => OvertakenRunIsHarmless
<1>1. ASSUME TypeOK, [Next]_vars, NEW w \in Workers,
             worker[w].pc \notin {"idle", "unprepared", "prepared", "takeover"},
             worker'[w] # worker[w],
             asset.gen # worker[w].gen \/ worker[w].token # job[worker[w].gen].token
      PROVE  \/ UNCHANGED <<asset, job>>
             \/ worker[w].pc = "quarantined" /\ asset.gen = worker[w].gen
  <2>1. ASSUME NEW v \in Workers, Run(v)
        PROVE  v = w
    BY <1>1, <2>1, RunIsGuarded
  <2>2. CASE \E v \in Workers : Run(v)
    BY <1>1, <2>1, <2>2, RunIsGuarded
  <2>3. CASE World
    BY <1>1, <2>3 DEF World, LeaseLapses, Replace, UpstreamChanges, SharedArchive
  <2>4. CASE Fault
    BY <2>4, QuietSteps DEF Fault
  <2>5. CASE UNCHANGED vars
    BY <1>1, <2>5 DEF vars
  <2> QED BY <1>1, <2>2, <2>3, <2>4, <2>5 DEF Next
<1>2. TypeOK /\ [Next]_vars
        => [\A w \in Workers :
              /\ worker[w].pc \notin {"idle", "unprepared", "prepared", "takeover"}
              /\ worker'[w] # worker[w]
              /\ \/ asset.gen # worker[w].gen
                 \/ worker[w].token # job[worker[w].gen].token
              => \/ UNCHANGED <<asset, job>>
                 \/ worker[w].pc = "quarantined" /\ asset.gen = worker[w].gen]_vars
  BY <1>1
<1> QED BY <1>2, TypeCorrect, PTL DEF Spec, OvertakenRunIsHarmless
================================================================================
