------------------------- MODULE EmbyPublicationProofs -------------------------
(* Proofs about EmbyPublication for every number of callers, Jobs, attempts and *)
(* source snapshots.                                                            *)
EXTENDS EmbyPublication, FiniteSetTheorems, TLAPS

--------------------------------------------------------------------------------
(* The inductive invariant *)

(* A stored Job has been started: it runs under a lease, or has ended or failed *)
(* without one.                                                                 *)
Settled(row) ==
  /\ row.attempts >= 1
  /\ row.status \in {"running", "failed_retryable", "failed_terminal", "succeeded"}
  /\ row.lease # "none" <=> row.status = "running"

RowsAreSettled == \A j \in DOMAIN jobs : Settled(jobs[j].row)

(* A Job follows a success or nothing, and never one of the same source; the    *)
(* first success follows nothing; the natural key is unique.                    *)
JobsFollowAnchors ==
  /\ \A j \in DOMAIN jobs : /\ jobs[j].predecessor \in Anchors \cup {NoJob}
                            /\ TreeOf(jobs[j].predecessor) # jobs[j].source
  /\ Anchors # {} => Children(NoJob) \cap Anchors # {}
  /\ \A i, j \in DOMAIN jobs :
       jobs[i].source = jobs[j].source /\ jobs[i].predecessor = jobs[j].predecessor => i = j

(* Another Job, or this one, has taken the place after its predecessor. *)
Superseded(j) == Children(jobs[j].predecessor) \cap Anchors # {}

(* A source gets a new Job only when the place of its older ones is taken. *)
OlderJobsAreSuperseded ==
  \A i, j \in DOMAIN jobs : i < j /\ jobs[i].source = jobs[j].source => Superseded(i)

Running(j)    == jobs[j].row.status = "running"
LatestOf(j)   == \A i \in DOMAIN jobs : jobs[i].source = jobs[j].source => i <= j
RecordOf(j)   == record[jobs[j].source]

(* What a record says of the Jobs of its source.  Only the latest of them runs, *)
(* unless the records had already succeeded when it began.                      *)
RecordsFollowJobs ==
  /\ \A j \in DOMAIN jobs :
       Running(j) => /\ RecordOf(j) \in {"running", "succeeded"}
                     /\ RecordOf(j) = "running" => LatestOf(j)
  /\ \A s \in Sources :
       record[s] = "running" => \E j \in DOMAIN jobs : jobs[j].source = s /\ Running(j)

AttemptPoints == {"prepared", "rendered", "renewed", "published", "failing"}

(* What a caller remembers between two transactions is still so. *)
Knows(me) ==
  /\ me.candidates \subseteq DOMAIN jobs
  /\ me.pc \in AttemptPoints \cup {"recovering"} => me.job \in DOMAIN jobs
  /\ me.pc \in AttemptPoints /\ me.reused => RecordOf(me.job) = "succeeded"
  /\ me.pc \in {"renewed", "published"} => jobs[me.job].intent
  /\ me.pc \in {"rendered", "renewed"}
       => me.seen \in {TreeOf(jobs[me.job].predecessor), jobs[me.job].source}

MemoriesAreTrue == \A w \in Workers : Knows(worker[w])

(* Whoever is about to finish a Job on the evidence of the tree: the tree is     *)
(* still that Job's, and the Job still follows the head.                        *)
Agrees(w) ==
  worker[w].pc \in {"published", "recovering"} /\ Me(w).row.status # "succeeded"
    => IsChild(worker[w].job) /\ tree = Me(w).source

FinishersAgree == \A w \in Workers : Agrees(w)

RowsInv ==
  /\ TypeOK
  /\ RowsAreSettled
  /\ JobsFollowAnchors
  /\ OlderJobsAreSuperseded
  /\ RecordsFollowJobs
  /\ RecordsTellTheChain
  /\ MemoriesAreTrue

ChainInv == ~fooled => IsChain /\ FinishersAgree /\ TreeIsAccountedFor

EmbyInv == RowsInv /\ ChainInv

--------------------------------------------------------------------------------
(* The rows and the sequence *)

(* What each UPDATE of the Job repository leaves of a settled row.              *)
LEMMA RowWrites ==
  ASSUME NEW row \in JobRows
  PROVE  /\ Claimable(row) => /\ row.status # "succeeded"
                              /\ Started(Claimed(row, NewToken(row))) \in JobRows
                              /\ Settled(Started(Claimed(row, NewToken(row))))
                              /\ Started(Claimed(row, NewToken(row))).status = "running"
                              /\ NewToken(row) \in Tokens
         /\ CanRecover(row) => row.status # "succeeded"
         /\ Settled(row) =>
              /\ \A t : Owns(row, t) => /\ row.status = "running"
                                        /\ Renewed(row) \in JobRows /\ Settled(Renewed(row))
                                        /\ Renewed(row).status = row.status
              /\ Completed(row) \in JobRows /\ Settled(Completed(row))
              /\ Completed(row).status = "succeeded"
              /\ \A retryable \in BOOLEAN :
                   /\ Failed(row, retryable) \in JobRows /\ Settled(Failed(row, retryable))
                   /\ Failed(row, retryable).status \in {"failed_retryable", "failed_terminal"}
              /\ row.lease = "live" => /\ Lapsed(row) \in JobRows /\ Settled(Lapsed(row))
                                       /\ Lapsed(row).status = row.status
              /\ Reclaimed(row).status = "failed_terminal"
                   => /\ Reclaimed(row) \in JobRows /\ Settled(Reclaimed(row))
                      /\ row.status # "succeeded"
<1> USE JobAssumption DEF JobAssumption, JobRows, JobStatuses, JobErrors
<1>1. /\ Reclaimed(row) \in JobRows /\ Reclaimed(row).attempts = row.attempts
      /\ Reclaimed(row).status \in {"queued", "failed_retryable"} => row.status # "succeeded"
  BY DEF Reclaimed, Unleased, Expired
<1>2. ASSUME Claimable(row)
      PROVE  /\ row.status # "succeeded"
             /\ Started(Claimed(row, NewToken(row))) \in JobRows
             /\ Settled(Started(Claimed(row, NewToken(row))))
             /\ Started(Claimed(row, NewToken(row))).status = "running"
             /\ NewToken(row) \in Tokens
  <2> DEFINE r == Reclaimed(row)
             t == NewToken(row)
  <2>1. r \in JobRows /\ r.attempts + 1 \in 1..MaxAttempts /\ t = r.attempts + 1
    BY <1>1, <1>2 DEF Claimable, NewToken
  <2>2. t \in Tokens
    BY <2>1, PublicationAssumption DEF PublicationAssumption
  <2> HIDE DEF r, t
  <2> DEFINE leased == [r EXCEPT !.lease = "live", !.token = t]
  <2>3. leased \in JobRows /\ leased.attempts = r.attempts
    BY <2>1, <2>2
  <2> HIDE DEF leased
  <2>4. Claimed(row, t) \in JobRows
    <3>1. \A n \in 0..MaxAttempts :
            [leased EXCEPT !.status = "claimed", !.attempts = n] \in JobRows
      BY <2>3
    <3>2. [leased EXCEPT !.status = "claimed", !.attempts = leased.attempts + 1] \in JobRows
      <4> HIDE DEF JobAssumption, JobRows, JobStatuses, JobErrors
      <4>1. leased.attempts + 1 \in 0..MaxAttempts
        BY <2>1, <2>3
      <4> QED BY <3>1, <4>1
    <3> QED BY <3>2 DEF Claimed, Leased, r, leased
  <2> DEFINE s == Started(Claimed(row, t))
  <2>5. s \in JobRows /\ s.status = "running"
    BY <2>4 DEF Started
  <2>6. s.lease = "live"
    BY <2>1 DEF Started, Claimed, Leased, r
  <2>7. s.attempts = r.attempts + 1
    BY <2>1 DEF Started, Claimed, Leased, r
  <2>8. Settled(s)
    BY <2>1, <2>5, <2>6, <2>7 DEF Settled
  <2> QED BY <1>1, <1>2, <2>2, <2>5, <2>8 DEF Claimable, t
<1>3. CanRecover(row) => row.status # "succeeded"
  BY DEF CanRecover, Expired
<1>4. ASSUME Settled(row), NEW t, Owns(row, t)
      PROVE  /\ row.status = "running"
             /\ Renewed(row) \in JobRows /\ Settled(Renewed(row))
             /\ Renewed(row).status = row.status
  BY <1>4 DEF Owns, Renewed, Settled
<1>5. ASSUME Settled(row)
      PROVE  /\ Completed(row) \in JobRows /\ Settled(Completed(row))
             /\ Completed(row).status = "succeeded"
  BY <1>5 DEF Completed, Unleased, Settled
<1>6. ASSUME Settled(row), NEW retryable \in BOOLEAN
      PROVE  /\ Failed(row, retryable) \in JobRows /\ Settled(Failed(row, retryable))
             /\ Failed(row, retryable).status \in {"failed_retryable", "failed_terminal"}
  BY <1>6 DEF Failed, Unleased, Settled
<1>7. ASSUME Settled(row), row.lease = "live"
      PROVE  /\ Lapsed(row) \in JobRows /\ Settled(Lapsed(row))
             /\ Lapsed(row).status = row.status
  BY <1>7 DEF Lapsed, Settled
<1>8. ASSUME Settled(row), Reclaimed(row).status = "failed_terminal"
      PROVE  /\ Reclaimed(row) \in JobRows /\ Settled(Reclaimed(row))
             /\ row.status # "succeeded"
  BY <1>1, <1>8 DEF Reclaimed, Unleased, Settled, Expired
<1> HIDE DEF JobAssumption, JobRows, JobStatuses, JobErrors
<1> QED BY <1>2, <1>3, <1>4, <1>5, <1>6, <1>7, <1>8

(* Writing the row of one Job of a sequence. *)
LEMMA PutRow ==
  ASSUME NEW all \in Seq(ExportJobs), NEW id \in 1..Len(all), NEW row \in JobRows
  PROVE  LET put == [all EXCEPT ![id].row = row]
         IN  /\ put \in Seq(ExportJobs) /\ Len(put) = Len(all)
             /\ DOMAIN put = 1..Len(all) /\ DOMAIN all = 1..Len(all)
             /\ \A j \in 1..Len(all) :
                  /\ put[j].row = IF j = id THEN row ELSE all[j].row
                  /\ put[j].source = all[j].source
                  /\ put[j].predecessor = all[j].predecessor
                  /\ put[j].intent = all[j].intent
<1> DEFINE put == [all EXCEPT ![id].row = row]
           new == [all[id] EXCEPT !.row = row]
<1>1. /\ DOMAIN all = 1..Len(all) /\ all[id] \in ExportJobs
      /\ \A j \in 1..Len(all) : all[j] \in ExportJobs
      /\ Len(all) \in Nat
  OBVIOUS
<1>2. /\ new \in ExportJobs /\ new.row = row
      /\ new.source = all[id].source /\ new.predecessor = all[id].predecessor
      /\ new.intent = all[id].intent
  BY <1>1 DEF ExportJobs
<1> HIDE DEF new
<1>3. put = [all EXCEPT ![id] = new]
  BY DEF new
<1>4. /\ put \in Seq(ExportJobs) /\ Len(put) = Len(all) /\ DOMAIN put = 1..Len(all)
      /\ put[id] = new
      /\ \A j \in 1..Len(all) : j # id => put[j] = all[j]
  BY <1>1, <1>2, <1>3
<1> HIDE DEF put
<1>5. ASSUME NEW j \in 1..Len(all)
      PROVE  /\ put[j].row = IF j = id THEN row ELSE all[j].row
             /\ put[j].source = all[j].source
             /\ put[j].predecessor = all[j].predecessor
             /\ put[j].intent = all[j].intent
  BY <1>2, <1>4
<1> QED BY <1>1, <1>4, <1>5 DEF put

(* A sequence of Jobs that differs from another in the row of one.              *)
DiffersInRow(put, all, id, row) ==
  /\ put \in Seq(ExportJobs) /\ Len(put) = Len(all) /\ DOMAIN put = 1..Len(all)
  /\ \A j \in 1..Len(all) : /\ put[j].row = IF j = id THEN row ELSE all[j].row
                            /\ put[j].source = all[j].source
                            /\ put[j].predecessor = all[j].predecessor
                            /\ put[j].intent = all[j].intent

(* The same of a sequence that is known to be written so. *)
LEMMA PutDiffers ==
  ASSUME NEW all \in Seq(ExportJobs), NEW id \in 1..Len(all), NEW row \in JobRows,
         NEW put, put = [all EXCEPT ![id].row = row]
  PROVE  DiffersInRow(put, all, id, row)
BY PutRow DEF DiffersInRow

(* The Jobs as a function on their ids. *)
LEMMA JobsAre ==
  ASSUME TypeOK
  PROVE  /\ jobs \in Seq(ExportJobs) /\ Len(jobs) \in Nat
         /\ DOMAIN jobs = 1..Len(jobs)
         /\ DOMAIN jobs \subseteq JobIds
         /\ NoJob \notin DOMAIN jobs
         /\ IsFiniteSet(DOMAIN jobs) /\ IsFiniteSet(Anchors)
         /\ Anchors \subseteq DOMAIN jobs
         /\ \A j \in DOMAIN jobs :
              /\ jobs[j] \in ExportJobs
              /\ jobs[j].row \in JobRows /\ jobs[j].source \in Sources
              /\ jobs[j].predecessor \in {NoJob} \cup JobIds /\ jobs[j].intent \in BOOLEAN
<1>1. /\ jobs \in Seq(ExportJobs) /\ Len(jobs) \in Nat /\ Len(jobs) <= MaxJobs
      /\ DOMAIN jobs = 1..Len(jobs)
      /\ \A j \in DOMAIN jobs : jobs[j] \in ExportJobs
  BY DEF TypeOK
<1>2. DOMAIN jobs \subseteq JobIds /\ NoJob \notin DOMAIN jobs
  BY <1>1, PublicationAssumption DEF JobIds, NoJob, PublicationAssumption
<1>3. IsFiniteSet(DOMAIN jobs)
  BY <1>1, FS_Interval
<1>4. Anchors \subseteq DOMAIN jobs
  BY DEF Anchors
<1>5. IsFiniteSet(Anchors)
  BY <1>3, <1>4, FS_Subset
<1> QED BY <1>1, <1>2, <1>3, <1>4, <1>5 DEF ExportJobs

--------------------------------------------------------------------------------
(* The head of the chain *)

(* In a chain there is a head as soon as there is a success, and no second one: *)
(* the successes and NoJob have one child each but for the head.                *)
LEMMA OneHead ==
  ASSUME TypeOK, JobsFollowAnchors, IsChain
  PROVE  /\ \A j \in Anchors : Children(j) \cap Anchors = {} => j = HeadJob
         /\ Anchors # {} => HeadJob \in Anchors
         /\ HeadJob \in Anchors \cup {NoJob}
         /\ Children(HeadJob) \cap Anchors = {}
<1>1. /\ IsFiniteSet(Anchors) /\ Anchors \subseteq DOMAIN jobs /\ NoJob \notin Anchors
      /\ IsFiniteSet(Anchors \cup {NoJob})
      /\ Cardinality(Anchors) \in Nat
      /\ Cardinality(Anchors \cup {NoJob}) = Cardinality(Anchors) + 1
  BY JobsAre, FS_CardinalityType, FS_AddElement
<1>2. \A i, j \in Anchors : jobs[i].predecessor = jobs[j].predecessor => i = j
  <2> SUFFICES ASSUME NEW i \in Anchors, NEW j \in Anchors,
                      jobs[i].predecessor = jobs[j].predecessor
               PROVE  i = j
    OBVIOUS
  <2> DEFINE siblings == Children(jobs[i].predecessor) \cap Anchors
  <2>1. i \in siblings /\ j \in siblings
    BY <1>1 DEF Children
  <2>2. Cardinality(siblings) = 1
    BY DEF IsChain
  <2>3. IsFiniteSet(siblings)
    BY <1>1, FS_Subset
  <2> HIDE DEF siblings
  <2>4. \E x : siblings = {x}
    BY <2>2, <2>3, FS_Singleton
  <2> QED BY <2>1, <2>4
<1>3. ASSUME NEW g \in Heads, NEW h \in Heads
      PROVE  g = h
  <2> SUFFICES ASSUME g # h PROVE FALSE
    OBVIOUS
  <2> DEFINE S == Anchors \cup {NoJob}
             U == S \ {g}
             T == U \ {h}
             f == [j \in Anchors |-> jobs[j].predecessor]
  <2>1. g \in Anchors /\ h \in Anchors
    BY DEF Heads
  <2>2. IsFiniteSet(U) /\ Cardinality(U) = Cardinality(Anchors) /\ h \in U
    <3>1. IsFiniteSet(S) /\ Cardinality(S) = Cardinality(Anchors) + 1 /\ g \in S /\ h \in S
      BY <1>1, <2>1
    <3> HIDE DEF S
    <3>2. IsFiniteSet(U) /\ Cardinality(U) = Cardinality(S) - 1 /\ h \in U
      BY <3>1, FS_RemoveElement
    <3> QED BY <1>1, <3>1, <3>2
  <2>3. IsFiniteSet(T) /\ Cardinality(T) = Cardinality(Anchors) - 1
    <3> HIDE DEF U
    <3> QED BY <2>2, FS_RemoveElement
  <2>4. f \in [Anchors -> T]
    <3>1. ASSUME NEW j \in Anchors
          PROVE  jobs[j].predecessor \in T
      <4>1. jobs[j].predecessor \in Anchors \cup {NoJob}
        BY <1>1 DEF JobsFollowAnchors
      <4>2. jobs[j].predecessor \notin {g, h}
        BY <1>1, <2>1 DEF Heads, Children
      <4> QED BY <4>1, <4>2
    <3> QED BY <3>1
  <2> HIDE DEF T
  <2>5. Cardinality(T) < Cardinality(Anchors)
    BY <1>1, <2>3
  <2>6. \E x, y \in Anchors : x # y /\ f[x] = f[y]
    <3> HIDE DEF f
    <3> QED BY <1>1, <2>3, <2>4, <2>5, FS_PigeonHole
  <2> QED BY <1>2, <2>6
<1>4. ASSUME Anchors # {}
      PROVE  Heads # {}
  <2> SUFFICES ASSUME Heads = {} PROVE FALSE
    OBVIOUS
  <2> DEFINE S == Anchors \cup {NoJob}
             f == [p \in S |-> CHOOSE c \in Anchors : jobs[c].predecessor = p]
  <2>1. ASSUME NEW p \in S
        PROVE  \E c \in Anchors : jobs[c].predecessor = p
    <3>1. Children(p) \cap Anchors # {}
      BY <1>4 DEF Heads, JobsFollowAnchors
    <3> QED BY <3>1 DEF Children
  <2>2. \A p \in S : f[p] \in Anchors /\ jobs[f[p]].predecessor = p
    BY <2>1
  <2>3. f \in [S -> Anchors]
    BY <2>2
  <2>4. Cardinality(Anchors) < Cardinality(S) /\ IsFiniteSet(S)
    BY <1>1
  <2>5. \E x, y \in S : x # y /\ f[x] = f[y]
    <3> HIDE DEF f, S
    <3> QED BY <1>1, <2>3, <2>4, FS_PigeonHole
  <2> QED BY <2>2, <2>5
<1>5. Anchors # {} => HeadJob \in Heads
  BY <1>4 DEF HeadJob
<1>6. Anchors = {} => HeadJob = NoJob
  BY DEF HeadJob
<1>7. Heads = {j \in Anchors : Children(j) \cap Anchors = {}}
  BY DEF Heads
<1> QED BY <1>3, <1>5, <1>6, <1>7

--------------------------------------------------------------------------------
(* How a step changes the Jobs *)

Status(j) == jobs[j].row.status

(* Jobs are never deleted, and only their rows and intents change. *)
JobsGrow ==
  \A j \in DOMAIN jobs : /\ j \in DOMAIN jobs'
                         /\ jobs'[j].source = jobs[j].source
                         /\ jobs'[j].predecessor = jobs[j].predecessor
                         /\ jobs[j].intent => jobs'[j].intent

(* A step that finishes no Job: the successes and the head stay. *)
AnchorsStay ==
  /\ JobsGrow
  /\ \A j \in DOMAIN jobs : Status(j)' = "succeeded" <=> Status(j) = "succeeded"
  /\ \A j \in DOMAIN jobs' \ DOMAIN jobs : Status(j)' # "succeeded"

LEMMA HeadStays ==
  ASSUME TypeOK, JobsFollowAnchors, AnchorsStay
  PROVE  /\ Anchors' = Anchors /\ HeadJob' = HeadJob /\ (IsChain' <=> IsChain)
         /\ \A j \in DOMAIN jobs : /\ (IsChild(j)' <=> IsChild(j))
                                   /\ TreeOf(jobs[j].predecessor)' = TreeOf(jobs[j].predecessor)
                                   /\ (Superseded(j)' <=> Superseded(j))
         /\ \A p : Children(p)' \cap Anchors' = Children(p) \cap Anchors
<1>1. Anchors' = Anchors
  BY DEF AnchorsStay, JobsGrow, Anchors, Status
<1>2. ASSUME NEW p
      PROVE  Children(p)' \cap Anchors' = Children(p) \cap Anchors
  BY <1>1 DEF AnchorsStay, JobsGrow, Children, Anchors
<1>3. Heads' = Heads
  BY <1>1, <1>2 DEF Heads
<1>4. HeadJob' = HeadJob
  BY <1>1, <1>3 DEF HeadJob
<1>5. Anchors \subseteq DOMAIN jobs
  BY DEF Anchors
<1>6. IsChain' <=> IsChain
  <2>1. \A j \in Anchors : jobs'[j].predecessor = jobs[j].predecessor
    BY <1>5 DEF AnchorsStay, JobsGrow
  <2> QED BY <1>1, <1>2, <2>1 DEF IsChain
<1>7. ASSUME NEW j \in DOMAIN jobs
      PROVE  /\ (IsChild(j)' <=> IsChild(j))
             /\ TreeOf(jobs[j].predecessor)' = TreeOf(jobs[j].predecessor)
             /\ (Superseded(j)' <=> Superseded(j))
  <2>1. jobs'[j].predecessor = jobs[j].predecessor
    BY DEF AnchorsStay, JobsGrow
  <2>2. jobs[j].predecessor \in DOMAIN jobs \cup {NoJob}
    BY <1>5 DEF JobsFollowAnchors
  <2>3. TreeOf(jobs[j].predecessor)' = TreeOf(jobs[j].predecessor)
    BY <2>1, <2>2 DEF TreeOf, AnchorsStay, JobsGrow
  <2> QED BY <1>2, <1>4, <2>1, <2>3 DEF IsChild, Superseded
<1> QED BY <1>1, <1>2, <1>4, <1>6, <1>7

(* A step that finishes a Job which follows nothing or a success. *)
Finishes(id) ==
  /\ JobsGrow
  /\ id \in DOMAIN jobs /\ Status(id) # "succeeded" /\ Status(id)' = "succeeded"
  /\ DOMAIN jobs' = DOMAIN jobs
  /\ \A j \in DOMAIN jobs \ {id} : Status(j)' = Status(j)

LEMMA AnchorsGrow ==
  ASSUME NEW id, Finishes(id)
  PROVE  /\ Anchors' = Anchors \cup {id} /\ id \notin Anchors
         /\ \A p : Children(p)' = Children(p)
         /\ \A j \in DOMAIN jobs : Superseded(j) => Superseded(j)'
<1>1. Anchors' = Anchors \cup {id} /\ id \notin Anchors
  BY DEF Finishes, JobsGrow, Anchors, Status
<1>2. \A p : Children(p)' = Children(p)
  BY DEF Finishes, JobsGrow, Children
<1>3. \A j \in DOMAIN jobs : Superseded(j) => Superseded(j)'
  BY <1>1, <1>2 DEF Finishes, JobsGrow, Superseded
<1> QED BY <1>1, <1>2, <1>3

(* Finishing a child of the head moves the head of the chain to that child. *)
LEMMA ChainGrows ==
  ASSUME TypeOK, JobsFollowAnchors, IsChain, NEW id, Finishes(id), IsChild(id)
  PROVE  IsChain' /\ HeadJob' = id
<1>1. /\ Anchors' = Anchors \cup {id} /\ id \notin Anchors
      /\ \A p : Children(p)' = Children(p)
      /\ \A j \in DOMAIN jobs : jobs'[j].predecessor = jobs[j].predecessor
      /\ id \in DOMAIN jobs /\ Anchors \subseteq DOMAIN jobs /\ NoJob \notin DOMAIN jobs
  BY AnchorsGrow, JobsAre DEF Finishes, JobsGrow
<1>2. jobs[id].predecessor = HeadJob
  BY DEF IsChild
<1>3. HeadJob \in Anchors \cup {NoJob} /\ Children(HeadJob) \cap Anchors = {}
      /\ \A j \in Anchors : Children(j) \cap Anchors = {} => j = HeadJob
  BY OneHead
<1>4. Children(HeadJob) \cap (Anchors \cup {id}) = {id}
  BY <1>1, <1>2, <1>3 DEF Children
<1>5. \A p : p # HeadJob => Children(p) \cap (Anchors \cup {id}) = Children(p) \cap Anchors
  BY <1>2 DEF Children
<1>6. IsChain'
  <2> SUFFICES ASSUME NEW j \in Anchors \cup {id}
               PROVE  /\ jobs[j].predecessor \in Anchors \cup {id} \cup {NoJob}
                      /\ Cardinality(Children(jobs[j].predecessor) \cap (Anchors \cup {id})) = 1
    BY <1>1 DEF IsChain
  <2>1. CASE jobs[j].predecessor = HeadJob
    BY <1>3, <1>4, <2>1, FS_Singleton
  <2>2. CASE jobs[j].predecessor # HeadJob
    <3>1. j \in Anchors
      BY <1>2, <2>2
    <3>2. /\ jobs[j].predecessor \in Anchors \cup {NoJob}
          /\ Cardinality(Children(jobs[j].predecessor) \cap Anchors) = 1
      BY <3>1 DEF IsChain
    <3> QED BY <1>5, <2>2, <3>2
  <2> QED BY <2>1, <2>2
<1>7. Heads' = {id}
  <2>1. Heads' = {j \in Anchors \cup {id} : Children(j) \cap (Anchors \cup {id}) = {}}
    BY <1>1 DEF Heads
  <2>2. Children(id) \cap (Anchors \cup {id}) = {}
    <3>1. ASSUME NEW j \in Anchors \cup {id}, j \in Children(id)
          PROVE  FALSE
      <4>1. jobs[j].predecessor = id /\ j \in DOMAIN jobs
        BY <3>1 DEF Children
      <4>2. jobs[j].predecessor \in Anchors \cup {NoJob}
        BY <4>1 DEF JobsFollowAnchors
      <4> QED BY <1>1, <4>1, <4>2
    <3> QED BY <3>1
  <2>3. ASSUME NEW j \in Anchors, Children(j) \cap (Anchors \cup {id}) = {}
        PROVE  FALSE
    BY <1>3, <1>4, <2>3
  <2> QED BY <2>1, <2>2, <2>3
<1>8. HeadJob' = id
  BY <1>1, <1>7 DEF HeadJob
<1> QED BY <1>6, <1>8

--------------------------------------------------------------------------------
(* What the transactions write *)

JobsOK ==
  /\ jobs \in Seq(ExportJobs) /\ Len(jobs) <= MaxJobs
  /\ \A j \in DOMAIN jobs : jobs[j].predecessor < j /\ jobs[j].row.status # "absent"
  /\ RowsAreSettled

(* A source's records: a success is final. *)
RecordsKeepSuccess == \A s \in Sources : record[s] = "succeeded" => record'[s] = "succeeded"

WritesRecord(s, status) ==
  record' = [record EXCEPT ![s] = IF @ = "succeeded" THEN @ ELSE status]

Others(id) == \A j \in DOMAIN jobs \ {id} : Status(j)' = Status(j)

(* Leases and intents only. *)
Keeps ==
  /\ JobsGrow /\ DOMAIN jobs' = DOMAIN jobs
  /\ \A j \in DOMAIN jobs : Status(j)' = Status(j)
  /\ UNCHANGED record

(* A new Job of the snapshot after the head is created and started. *)
Adds ==
  LET id == Len(jobs) + 1
  IN  /\ IsChain /\ Existing = {} /\ TreeOf(HeadJob) # snapshot
      /\ JobsGrow /\ DOMAIN jobs' = DOMAIN jobs \cup {id}
      /\ \A j \in DOMAIN jobs : Status(j)' = Status(j)
      /\ jobs'[id].row.status = "running"
      /\ jobs'[id].source = snapshot /\ jobs'[id].predecessor = HeadJob
      /\ record[snapshot] # "running"
      /\ WritesRecord(snapshot, "running")

(* A Job of the snapshot after the head is started again. *)
Restarts(id) ==
  /\ IsChain /\ id \in Existing
  /\ JobsGrow /\ DOMAIN jobs' = DOMAIN jobs /\ Others(id)
  /\ Status(id) # "succeeded" /\ Status(id)' = "running"
  /\ WritesRecord(snapshot, "running")

(* A Job fails; if that closes its records, it is the latest of its source. *)
Fails(id) ==
  /\ id \in DOMAIN jobs
  /\ JobsGrow /\ DOMAIN jobs' = DOMAIN jobs /\ Others(id)
  /\ Status(id) # "succeeded" /\ Status(id)' \in {"failed_retryable", "failed_terminal"}
  /\ RecordOf(id) # "succeeded" => LatestOf(id)
  /\ \E status \in {"failed_retryable", "failed_terminal"} :
       WritesRecord(jobs[id].source, status)

(* A Job and its records succeed. *)
Completes(id) ==
  /\ Finishes(id)
  /\ record' = [record EXCEPT ![jobs[id].source] = "succeeded"]

(* One row of the table is written. *)
LEMMA RowPut ==
  ASSUME RowsInv, NEW id \in DOMAIN jobs, NEW row \in JobRows, Settled(row),
         jobs' = [jobs EXCEPT ![id].row = row]
  PROVE  /\ JobsOK' /\ JobsGrow /\ DOMAIN jobs' = DOMAIN jobs /\ Others(id)
         /\ Status(id)' = row.status
<1>1. /\ jobs \in Seq(ExportJobs) /\ id \in 1..Len(jobs) /\ DOMAIN jobs = 1..Len(jobs)
      /\ Len(jobs) <= MaxJobs
      /\ \A j \in DOMAIN jobs : jobs[j].predecessor < j /\ jobs[j].row.status # "absent"
  BY JobsAre DEF RowsInv, TypeOK
<1>2. /\ jobs' \in Seq(ExportJobs) /\ Len(jobs') = Len(jobs) /\ DOMAIN jobs' = DOMAIN jobs
      /\ \A j \in DOMAIN jobs : /\ jobs'[j].row = IF j = id THEN row ELSE jobs[j].row
                                /\ jobs'[j].source = jobs[j].source
                                /\ jobs'[j].predecessor = jobs[j].predecessor
                                /\ jobs'[j].intent = jobs[j].intent
  BY <1>1, PutRow
<1>3. \A j \in DOMAIN jobs : Settled(jobs[j].row)
  BY DEF RowsInv, RowsAreSettled
<1>4. row.status # "absent"
  BY DEF Settled
<1>5. RowsAreSettled'
  <2>1. \A j \in DOMAIN jobs' : Settled(jobs'[j].row)
    BY <1>2, <1>3
  <2> QED BY <2>1 DEF RowsAreSettled, Settled
<1>6. JobsOK'
  BY <1>1, <1>2, <1>4, <1>5 DEF JobsOK
<1> QED BY <1>2, <1>6 DEF JobsGrow, Others, Status

(* Nothing is written. *)
LEMMA NothingPut ==
  ASSUME RowsInv, UNCHANGED <<jobs, record>>
  PROVE  JobsOK' /\ Keeps
<1>1. JobsOK
  BY DEF RowsInv, TypeOK, JobsOK
<1>2. JobsOK'
  BY <1>1 DEF JobsOK, RowsAreSettled, Settled
<1> QED BY <1>2 DEF Keeps, JobsGrow, Status

(* renew_lease with the intent, and the clock. *)
LEMMA LeaseWrites ==
  ASSUME RowsInv, NEW id \in DOMAIN jobs, UNCHANGED record,
         \/ /\ \E t : Owns(jobs[id].row, t)
            /\ jobs' = [jobs EXCEPT ![id].row = Renewed(@), ![id].intent = TRUE]
         \/ /\ jobs[id].row.lease = "live"
            /\ jobs' = [jobs EXCEPT ![id].row = Lapsed(@)]
  PROVE  JobsOK' /\ Keeps /\ \A j \in DOMAIN jobs : jobs'[j].intent => j = id \/ jobs[j].intent
<1>1. /\ jobs[id].row \in JobRows /\ Settled(jobs[id].row)
      /\ jobs \in Seq(ExportJobs) /\ DOMAIN jobs = 1..Len(jobs) /\ Len(jobs) <= MaxJobs
      /\ \A j \in DOMAIN jobs : jobs[j] \in ExportJobs
      /\ \A j \in DOMAIN jobs : jobs[j].predecessor < j /\ jobs[j].row.status # "absent"
      /\ \A j \in DOMAIN jobs : Settled(jobs[j].row)
  BY JobsAre DEF RowsInv, TypeOK, RowsAreSettled
<1>2. CASE /\ jobs[id].row.lease = "live"
           /\ jobs' = [jobs EXCEPT ![id].row = Lapsed(@)]
  <2>1. /\ Lapsed(jobs[id].row) \in JobRows /\ Settled(Lapsed(jobs[id].row))
        /\ Lapsed(jobs[id].row).status = Status(id)
    BY <1>1, <1>2, RowWrites DEF Status
  <2>2. JobsOK' /\ JobsGrow /\ DOMAIN jobs' = DOMAIN jobs /\ Others(id) /\ Status(id)' = Status(id)
    BY <1>2, <2>1, RowPut
  <2>3. \A j \in DOMAIN jobs : jobs'[j].intent = jobs[j].intent
    BY <1>1, <1>2, <2>1, PutRow
  <2> QED BY <2>2, <2>3 DEF Keeps, Others
<1>3. ASSUME NEW t, Owns(jobs[id].row, t),
             jobs' = [jobs EXCEPT ![id].row = Renewed(@), ![id].intent = TRUE]
      PROVE  JobsOK' /\ Keeps /\ \A j \in DOMAIN jobs : jobs'[j].intent => j = id \/ jobs[j].intent
  <2> DEFINE row == Renewed(jobs[id].row)
             new == [jobs[id] EXCEPT !.row = row, !.intent = TRUE]
  <2>1. row \in JobRows /\ Settled(row) /\ row.status = Status(id)
    BY <1>1, <1>3, RowWrites DEF Status
  <2> HIDE DEF row
  <2>2. /\ new \in ExportJobs /\ new.row = row /\ new.intent
        /\ new.source = jobs[id].source /\ new.predecessor = jobs[id].predecessor
    BY <1>1, <2>1 DEF ExportJobs
  <2> HIDE DEF new
  <2>3. jobs' = [jobs EXCEPT ![id] = new]
    BY <1>3 DEF new, row
  <2>4. /\ jobs' \in Seq(ExportJobs) /\ Len(jobs') = Len(jobs) /\ DOMAIN jobs' = DOMAIN jobs
        /\ jobs'[id] = new /\ \A j \in DOMAIN jobs : j # id => jobs'[j] = jobs[j]
    BY <1>1, <2>2, <2>3
  <2>5. \A j \in DOMAIN jobs' : Settled(jobs'[j].row)
    BY <1>1, <2>1, <2>2, <2>4
  <2>6. JobsOK'
    <3>1. RowsAreSettled'
      BY <2>5 DEF RowsAreSettled, Settled
    <3>2. \A j \in DOMAIN jobs' : jobs'[j].predecessor < j /\ jobs'[j].row.status # "absent"
      BY <1>1, <2>2, <2>4, <2>5 DEF Settled
    <3> QED BY <1>1, <2>4, <3>1, <3>2 DEF JobsOK
  <2>7. Keeps
    BY <2>1, <2>2, <2>4 DEF Keeps, JobsGrow, Status
  <2> QED BY <2>4, <2>6, <2>7
<1> QED BY <1>2, <1>3


--------------------------------------------------------------------------------
(* What each action writes *)

(* The Job after the head for a source is the latest of that source. *)
LEMMA ExistingIsLatest ==
  ASSUME TypeOK, JobsFollowAnchors, OlderJobsAreSuperseded, IsChain, NEW id \in Existing
  PROVE  /\ id \in DOMAIN jobs /\ jobs[id].source = snapshot /\ IsChild(id)
         /\ LatestOf(id) /\ ~Superseded(id) /\ Status(id) # "succeeded"
<1>1. id \in DOMAIN jobs /\ jobs[id].source = snapshot /\ jobs[id].predecessor = HeadJob
  BY DEF Existing
<1>2. Children(HeadJob) \cap Anchors = {}
  BY OneHead
<1>3. ~Superseded(id) /\ Status(id) # "succeeded"
  BY <1>1, <1>2 DEF Superseded, Children, Anchors, Status
<1>4. ASSUME NEW i \in DOMAIN jobs, jobs[i].source = jobs[id].source
      PROVE  i <= id
  <2>1. ~(id < i)
    BY <1>1, <1>3, <1>4 DEF OlderJobsAreSuperseded
  <2> QED BY <1>1, <2>1, JobsAre
<1> QED BY <1>1, <1>3, <1>4 DEF LatestOf, IsChild

(* begin returned an attempt: the caller holds the Job under a new token. *)
Prepared(w, id) ==
  /\ id \in DOMAIN jobs' /\ jobs'[id].source = snapshot
  /\ \E t \in Tokens :
       worker' = [worker EXCEPT ![w] =
                    [Idle EXCEPT !.pc = "prepared", !.job = id, !.token = t,
                                 !.reused = (record[snapshot] = "succeeded")]]

(* A preparation that finds no Job after the head. *)
LEMMA PrepareAdds ==
  ASSUME RowsInv, NEW w \in Workers, Prepare(w), Existing = {}
  PROVE  /\ JobsOK'
         /\ \/ Adds /\ Prepared(w, Len(jobs) + 1)
            \/ UNCHANGED <<jobs, record>> /\ GiveUp(w)
<1> DEFINE id  == Len(jobs) + 1
           all == Append(jobs, Queued)
           row == Started(Claimed(all[id].row, NewToken(all[id].row)))
<1>1. /\ jobs \in Seq(ExportJobs) /\ Len(jobs) \in Nat /\ DOMAIN jobs = 1..Len(jobs)
      /\ \A j \in DOMAIN jobs : jobs[j].predecessor < j /\ jobs[j].row.status # "absent"
      /\ \A j \in DOMAIN jobs : Settled(jobs[j].row)
      /\ snapshot \in Sources /\ Anchors \subseteq DOMAIN jobs
  BY JobsAre DEF RowsInv, TypeOK, RowsAreSettled
<1>2. id \in JobIds /\ IsChain /\ TreeOf(HeadJob) # snapshot
  BY DEF Prepare, MayPrepare
<1>3. HeadJob \in {NoJob} \cup DOMAIN jobs
  BY <1>1, <1>2, OneHead DEF RowsInv
<1>4. HeadJob \in {NoJob} \cup JobIds /\ HeadJob < id
  BY <1>1, <1>2, <1>3, PublicationAssumption DEF PublicationAssumption, JobIds, NoJob
<1>5. /\ Queued.row \in JobRows /\ Queued.row.status = "queued" /\ Queued.row.attempts = 0
      /\ Queued.row.lease = "none"
      /\ Queued.source = snapshot /\ Queued.predecessor = HeadJob /\ Queued.intent = FALSE
  BY JobAssumption DEF JobAssumption, Queued, Enqueued, NoJobRow, JobRows, JobStatuses, JobErrors
<1>6. Queued \in ExportJobs
  BY <1>1, <1>4, <1>5 DEF ExportJobs, Queued
<1>7. /\ all \in Seq(ExportJobs) /\ Len(all) = id /\ all[id] = Queued
      /\ \A j \in DOMAIN jobs : all[j] = jobs[j]
  BY <1>1, <1>6
<1>8. Claimable(all[id].row)
  BY <1>5, <1>7, JobAssumption DEF JobAssumption, Claimable, Reclaimed, Expired
<1>9. row \in JobRows /\ Settled(row) /\ row.status = "running" /\ NewToken(all[id].row) \in Tokens
  BY <1>5, <1>7, <1>8, RowWrites
<1>10. CASE MayBegin(record[snapshot], all[id].row.attempts = 0)
  <2>1. /\ jobs' = [all EXCEPT ![id].row = Started(Claimed(@, NewToken(@)))]
        /\ record' = [record EXCEPT ![snapshot] = IF @ = "succeeded" THEN @ ELSE "running"]
        /\ worker' = [worker EXCEPT ![w] =
             [Idle EXCEPT !.pc = "prepared", !.job = id, !.token = NewToken(all[id].row),
                          !.reused = (record[snapshot] = "succeeded")]]
    BY <1>8, <1>10 DEF Prepare
  <2>2. record[snapshot] # "running"
    BY <1>5, <1>7, <1>10 DEF MayBegin
  <2>3. jobs' = [all EXCEPT ![id].row = row]
    BY <2>1
  <2> HIDE DEF row, all
  <2>4. /\ jobs' \in Seq(ExportJobs) /\ Len(jobs') = id /\ DOMAIN jobs' = 1..id
        /\ \A j \in 1..id : /\ jobs'[j].row = IF j = id THEN row ELSE all[j].row
                            /\ jobs'[j].source = all[j].source
                            /\ jobs'[j].predecessor = all[j].predecessor
                            /\ jobs'[j].intent = all[j].intent
    <3>1. id \in 1..Len(all) /\ Len(all) = id
      BY <1>1, <1>7
    <3> HIDE DEF id
    <3>2. DiffersInRow(jobs', all, id, row)
      BY <1>7, <1>9, <2>3, <3>1, PutDiffers
    <3> QED BY <3>1, <3>2 DEF DiffersInRow
  <2>5. DOMAIN jobs' = DOMAIN jobs \cup {id} /\ id \notin DOMAIN jobs
    BY <1>1, <2>4
  <2>6. \A j \in DOMAIN jobs : /\ jobs'[j].row = jobs[j].row
                               /\ jobs'[j].source = jobs[j].source
                               /\ jobs'[j].predecessor = jobs[j].predecessor
                               /\ jobs'[j].intent = jobs[j].intent
    BY <1>1, <1>7, <2>4
  <2>7. /\ jobs'[id].row = row /\ jobs'[id].source = snapshot
        /\ jobs'[id].predecessor = HeadJob
    BY <1>1, <1>5, <1>7, <2>4
  <2>8. Adds
    BY <1>2, <1>9, <2>1, <2>2, <2>5, <2>6, <2>7 DEF Adds, JobsGrow, Status, WritesRecord
  <2>9. JobsOK'
    <3>1. \A j \in DOMAIN jobs' : Settled(jobs'[j].row)
      BY <1>1, <1>9, <2>5, <2>6, <2>7
    <3>2. RowsAreSettled'
      BY <3>1 DEF RowsAreSettled, Settled
    <3>3. \A j \in DOMAIN jobs' : jobs'[j].predecessor < j /\ jobs'[j].row.status # "absent"
      BY <1>1, <1>4, <1>9, <2>5, <2>6, <2>7
    <3>4. Len(jobs') <= MaxJobs
      BY <1>2, <2>4 DEF JobIds
    <3> QED BY <2>4, <3>2, <3>3, <3>4 DEF JobsOK
  <2>10. Prepared(w, id)
    BY <1>9, <2>1, <2>5, <2>7 DEF Prepared
  <2> QED BY <2>8, <2>9, <2>10
<1>11. CASE ~MayBegin(record[snapshot], all[id].row.attempts = 0)
  <2>1. UNCHANGED <<jobs, record>> /\ GiveUp(w)
    BY <1>8, <1>11 DEF Prepare
  <2> QED BY <2>1, NothingPut
<1> QED BY <1>10, <1>11

(* A preparation that finds the Job after the head: it is started again, or, its *)
(* last lease expired, closed with its records.                                 *)
LEMMA PrepareReuses ==
  ASSUME RowsInv, NEW w \in Workers, Prepare(w), Existing # {}
  PROVE  /\ JobsOK'
         /\ \/ \E id \in Existing : Restarts(id) /\ Prepared(w, id)
            \/ \E id \in Existing : Fails(id) /\ GiveUp(w)
            \/ UNCHANGED <<jobs, record>> /\ GiveUp(w)
<1>1. PICK id \in Existing : id = CHOOSE j \in Existing : TRUE
  OBVIOUS
<1> DEFINE row == jobs[id].row
           started == Started(Claimed(row, NewToken(row)))
<1>2. IsChain
  BY DEF Prepare, MayPrepare
<1>3. /\ id \in DOMAIN jobs /\ jobs[id].source = snapshot
      /\ LatestOf(id) /\ Status(id) # "succeeded"
  BY <1>1, <1>2, ExistingIsLatest DEF RowsInv
<1>4. row \in JobRows /\ Settled(row) /\ snapshot \in Sources
  BY <1>3, JobsAre DEF RowsInv, TypeOK, RowsAreSettled
<1>5. CASE Claimable(row) /\ MayBegin(record[snapshot], row.attempts = 0)
  <2>1. /\ jobs' = [jobs EXCEPT ![id].row = started]
        /\ record' = [record EXCEPT ![snapshot] = IF @ = "succeeded" THEN @ ELSE "running"]
        /\ worker' = [worker EXCEPT ![w] =
             [Idle EXCEPT !.pc = "prepared", !.job = id, !.token = NewToken(row),
                          !.reused = (record[snapshot] = "succeeded")]]
    BY <1>1, <1>5 DEF Prepare
  <2>2. /\ started \in JobRows /\ Settled(started) /\ started.status = "running"
        /\ NewToken(row) \in Tokens
    BY <1>4, <1>5, RowWrites
  <2> HIDE DEF started
  <2>3. /\ JobsOK' /\ JobsGrow /\ DOMAIN jobs' = DOMAIN jobs /\ Others(id)
        /\ Status(id)' = "running"
    BY <1>3, <2>1, <2>2, RowPut
  <2>4. Restarts(id)
    BY <1>1, <1>2, <1>3, <2>1, <2>3 DEF Restarts, WritesRecord
  <2>5. Prepared(w, id)
    BY <1>3, <2>1, <2>2, <2>3 DEF Prepared, JobsGrow
  <2> QED BY <1>1, <2>3, <2>4, <2>5
<1>6. CASE /\ ~Claimable(row) /\ Reclaimed(row).status = "failed_terminal"
           /\ MayTerminalize(record[snapshot])
  <2> DEFINE closed == Reclaimed(row)
  <2>1. /\ jobs' = [jobs EXCEPT ![id].row = closed]
        /\ record' = [record EXCEPT ![snapshot] = Terminalized(@)]
        /\ GiveUp(w)
    BY <1>1, <1>6 DEF Prepare
  <2>2. closed \in JobRows /\ Settled(closed) /\ closed.status = "failed_terminal"
    BY <1>4, <1>6, RowWrites
  <2> HIDE DEF closed
  <2>3. /\ JobsOK' /\ JobsGrow /\ DOMAIN jobs' = DOMAIN jobs /\ Others(id)
        /\ Status(id)' = "failed_terminal"
    BY <1>3, <2>1, <2>2, RowPut
  <2>4. WritesRecord(jobs[id].source, "failed_terminal")
    BY <1>3, <2>1 DEF WritesRecord, Terminalized
  <2>5. Fails(id)
    BY <1>3, <2>3, <2>4 DEF Fails
  <2> QED BY <1>1, <2>1, <2>3, <2>5
<1>7. CASE /\ ~(Claimable(row) /\ MayBegin(record[snapshot], row.attempts = 0))
           /\ ~(/\ ~Claimable(row) /\ Reclaimed(row).status = "failed_terminal"
                /\ MayTerminalize(record[snapshot]))
  <2>1. UNCHANGED <<jobs, record>> /\ GiveUp(w)
    BY <1>1, <1>7 DEF Prepare
  <2> QED BY <2>1, NothingPut
<1> QED BY <1>5, <1>6, <1>7

(* The Job an attempt works on. *)
LEMMA AttemptOf ==
  ASSUME RowsInv, NEW w \in Workers, worker[w].pc \in AttemptPoints \cup {"recovering"}
  PROVE  /\ worker[w].job \in DOMAIN jobs
         /\ Me(w).row \in JobRows /\ Settled(Me(w).row) /\ Me(w).source \in Sources
         /\ worker[w].pc \in AttemptPoints /\ worker[w].reused => record[Me(w).source] = "succeeded"
<1>1. /\ worker[w].job \in DOMAIN jobs
      /\ worker[w].pc \in AttemptPoints /\ worker[w].reused => record[Me(w).source] = "succeeded"
  BY DEF RowsInv, MemoriesAreTrue, Knows, RecordOf, Me
<1> QED BY <1>1, JobsAre DEF RowsInv, RowsAreSettled, Me

(* _finalize and _finalize_recovered_publication: the Job and its records, or   *)
(* neither.                                                                     *)
LEMMA FinishWrites ==
  ASSUME RowsInv, NEW w \in Workers, Finalize(w) \/ FinalizeRecovered(w)
  PROVE  /\ JobsOK' /\ GiveUp(w)
         /\ \/ \E id \in DOMAIN jobs : id = worker[w].job /\ Completes(id)
            \/ UNCHANGED <<jobs, record>>
<1>1. worker[w].pc \in {"published", "recovering"} /\ GiveUp(w)
  BY DEF Finalize, FinalizeRecovered
<1>2. PICK id \in DOMAIN jobs : id = worker[w].job
  BY <1>1, AttemptOf DEF AttemptPoints
<1> DEFINE row  == jobs[id].row
           done == Completed(row)
<1>3. row \in JobRows /\ Settled(row)
  BY <1>1, <1>2, AttemptOf DEF AttemptPoints, Me
<1>4. done \in JobRows /\ Settled(done) /\ done.status = "succeeded"
  BY <1>3, RowWrites
<1>5. ASSUME Owns(row, worker[w].token) \/ CanRecover(row),
             jobs' = [jobs EXCEPT ![id].row = Completed(@)],
             record' = [record EXCEPT ![jobs[id].source] = "succeeded"]
      PROVE  JobsOK' /\ Completes(id)
  <2>1. row.status # "succeeded"
    BY <1>3, <1>5, RowWrites
  <2>2. jobs' = [jobs EXCEPT ![id].row = done]
    BY <1>5
  <2> HIDE DEF done
  <2>3. /\ JobsOK' /\ JobsGrow /\ DOMAIN jobs' = DOMAIN jobs /\ Others(id)
        /\ Status(id)' = "succeeded"
    BY <1>3, <1>4, <2>2, RowPut
  <2> QED BY <1>5, <2>1, <2>3 DEF Completes, Finishes, Others, Status
<1>6. CASE UNCHANGED <<jobs, record>>
  BY <1>1, <1>6, NothingPut
<1>7. CASE /\ Owns(row, worker[w].token) \/ CanRecover(row)
           /\ jobs' = [jobs EXCEPT ![id].row = Completed(@)]
           /\ record' = [record EXCEPT ![jobs[id].source] = "succeeded"]
  BY <1>1, <1>2, <1>5, <1>7
<1> QED BY <1>2, <1>6, <1>7 DEF Finalize, FinalizeRecovered, Me

(* _record_failure: the Job and its records, or neither. *)
LEMMA FailureWrites ==
  ASSUME RowsInv, NEW w \in Workers, RecordFailure(w)
  PROVE  /\ JobsOK' /\ GiveUp(w)
         /\ \/ \E id \in DOMAIN jobs : Fails(id)
            \/ UNCHANGED <<jobs, record>>
<1>1. worker[w].pc = "failing" /\ GiveUp(w)
  BY DEF RecordFailure
<1>2. PICK id \in DOMAIN jobs : id = worker[w].job
  BY <1>1, AttemptOf DEF AttemptPoints
<1> DEFINE row    == jobs[id].row
           failed == Failed(row, worker[w].retryable)
<1>3. /\ row \in JobRows /\ Settled(row) /\ jobs[id].source \in Sources
      /\ worker[w].reused => record[jobs[id].source] = "succeeded"
  BY <1>1, <1>2, AttemptOf DEF AttemptPoints, Me
<1>4. worker[w].retryable \in BOOLEAN
  BY DEF RowsInv, TypeOK, WorkerStates
<1>5. /\ failed \in JobRows /\ Settled(failed)
      /\ failed.status \in {"failed_retryable", "failed_terminal"}
  BY <1>3, <1>4, RowWrites
<1>6. CASE /\ Owns(row, worker[w].token)
           /\ worker[w].reused \/ record[jobs[id].source] = "running"
  <2>1. /\ jobs' = [jobs EXCEPT ![id].row = failed]
        /\ record' = [record EXCEPT ![jobs[id].source] =
                        IF worker[w].reused THEN @ ELSE failed.status]
    BY <1>2, <1>6 DEF RecordFailure, Me
  <2>2. row.status = "running"
    BY <1>3, <1>6, RowWrites
  <2> HIDE DEF failed
  <2>3. /\ JobsOK' /\ JobsGrow /\ DOMAIN jobs' = DOMAIN jobs /\ Others(id)
        /\ Status(id)' = failed.status
    BY <1>5, <2>1, RowPut
  <2>4. RecordOf(id) # "succeeded" => LatestOf(id)
    BY <1>3, <1>6, <2>2 DEF RowsInv, RecordsFollowJobs, Running, RecordOf
  <2>5. WritesRecord(jobs[id].source, failed.status)
    BY <1>3, <1>6, <2>1 DEF WritesRecord
  <2>6. Fails(id)
    BY <1>5, <2>2, <2>3, <2>4, <2>5 DEF Fails, Status
  <2> QED BY <1>1, <2>3, <2>6
<1>7. CASE ~(/\ Owns(row, worker[w].token)
             /\ worker[w].reused \/ record[jobs[id].source] = "running")
  <2>1. UNCHANGED <<jobs, record>>
    BY <1>2, <1>7 DEF RecordFailure, Me
  <2> QED BY <1>1, <2>1, NothingPut
<1> QED BY <1>6, <1>7

(* _renew_before_publish: the intent and a fresh lease, or nothing. *)
LEMMA RenewWrites ==
  ASSUME RowsInv, NEW w \in Workers, RenewBeforePublish(w)
  PROVE  /\ JobsOK' /\ Keeps
         /\ \/ Goto(w, "renewed") /\ jobs'[worker[w].job].intent
            \/ GiveUp(w)
<1>1. worker[w].pc = "rendered" /\ UNCHANGED record
  BY DEF RenewBeforePublish
<1>2. PICK id \in DOMAIN jobs : id = worker[w].job
  BY <1>1, AttemptOf DEF AttemptPoints
<1>3. CASE Owns(jobs[id].row, worker[w].token)
  <2>1. /\ jobs' = [jobs EXCEPT ![id].row = Renewed(@), ![id].intent = TRUE]
        /\ Goto(w, "renewed")
    BY <1>2, <1>3 DEF RenewBeforePublish, Me
  <2>2. JobsOK' /\ Keeps
    BY <1>1, <1>3, <2>1, LeaseWrites
  <2>3. jobs'[id].intent
    <3>1. jobs[id] \in ExportJobs
      BY JobsAre DEF RowsInv
    <3> QED BY <2>1, <3>1 DEF ExportJobs
  <2> QED BY <1>2, <2>1, <2>2, <2>3
<1>4. CASE ~Owns(jobs[id].row, worker[w].token)
  <2>1. UNCHANGED <<jobs, record>> /\ GiveUp(w)
    BY <1>1, <1>2, <1>4 DEF RenewBeforePublish, Me
  <2> QED BY <2>1, NothingPut
<1> QED BY <1>3, <1>4

(* The actions that write neither Jobs nor records. *)
Quiet(w) == \/ Scan(w) \/ Validate(w) \/ PrepareNothing(w)
            \/ Render(w) \/ Publish(w) \/ Crash(w)

LEMMA QuietWrites ==
  ASSUME RowsInv, NEW w \in Workers, Quiet(w)
  PROVE  JobsOK' /\ Keeps /\ UNCHANGED <<jobs, record>>
<1>1. UNCHANGED <<jobs, record>>
  BY DEF Quiet, Scan, Validate, PrepareNothing, Render, Publish, Crash
<1> QED BY <1>1, NothingPut

(* Every step is of one of the kinds. *)
LEMMA StepWrites ==
  ASSUME RowsInv, [Next]_vars
  PROVE  /\ JobsOK'
         /\ \/ Keeps
            \/ Adds
            \/ \E id \in DOMAIN jobs : Restarts(id) \/ Fails(id) \/ Completes(id)
<1>1. ASSUME NEW w \in Workers, Prepare(w)
      PROVE  /\ JobsOK'
             /\ Keeps \/ Adds \/ \E id \in DOMAIN jobs : Restarts(id) \/ Fails(id)
  <2>1. Existing \subseteq DOMAIN jobs
    BY DEF Existing
  <2>2. UNCHANGED <<jobs, record>> => Keeps
    BY NothingPut
  <2> QED BY <1>1, <2>1, <2>2, PrepareAdds, PrepareReuses
<1>2. ASSUME NEW id \in JobIds, Lapse(id)
      PROVE  JobsOK' /\ Keeps
  BY <1>2, LeaseWrites DEF Lapse
<1>3. CASE ContentChanges
  BY <1>3, NothingPut DEF ContentChanges
<1>4. CASE UNCHANGED vars
  BY <1>4, NothingPut DEF vars
<1>5. ASSUME NEW w \in Workers, Finalize(w) \/ FinalizeRecovered(w) \/ RecordFailure(w)
      PROVE  /\ JobsOK'
             /\ Keeps \/ \E id \in DOMAIN jobs : Completes(id) \/ Fails(id)
  BY <1>5, FinishWrites, FailureWrites, NothingPut
<1>6. ASSUME NEW w \in Workers, RenewBeforePublish(w) \/ Quiet(w)
      PROVE  JobsOK' /\ Keeps
  BY <1>6, RenewWrites, QuietWrites
<1> QED BY <1>1, <1>2, <1>3, <1>4, <1>5, <1>6 DEF Next, Attempt, Quiet

--------------------------------------------------------------------------------
(* The Jobs' places *)

Places == JobsFollowAnchors /\ OlderJobsAreSuperseded

(* The kinds that finish no Job. *)
LEMMA UnfinishedSteps ==
  ASSUME RowsInv
  PROVE  /\ Keeps => AnchorsStay
         /\ Adds => AnchorsStay
         /\ \A id \in DOMAIN jobs : Restarts(id) \/ Fails(id) => AnchorsStay
<1>1. Keeps => AnchorsStay
  BY DEF Keeps, AnchorsStay, Status
<1>2. Adds => AnchorsStay
  BY DEF Adds, AnchorsStay, Status
<1>3. ASSUME NEW id \in DOMAIN jobs, Restarts(id) \/ Fails(id)
      PROVE  AnchorsStay
  <2>1. /\ JobsGrow /\ DOMAIN jobs' = DOMAIN jobs
        /\ \A j \in DOMAIN jobs \ {id} : Status(j)' = Status(j)
        /\ Status(id) # "succeeded" /\ Status(id)' # "succeeded"
    BY <1>3 DEF Restarts, Fails, Others
  <2> QED BY <2>1 DEF AnchorsStay
<1> QED BY <1>1, <1>2, <1>3

LEMMA PlacesStay ==
  ASSUME RowsInv, AnchorsStay, DOMAIN jobs' = DOMAIN jobs
  PROVE  Places'
<1>1. /\ Anchors' = Anchors
      /\ \A j \in DOMAIN jobs :
           /\ TreeOf(jobs[j].predecessor)' = TreeOf(jobs[j].predecessor)
           /\ (Superseded(j)' <=> Superseded(j))
           /\ jobs'[j].source = jobs[j].source /\ jobs'[j].predecessor = jobs[j].predecessor
      /\ \A p : Children(p)' \cap Anchors' = Children(p) \cap Anchors
  BY HeadStays DEF RowsInv, AnchorsStay, JobsGrow
<1>2. JobsFollowAnchors'
  <2>1. \A j \in DOMAIN jobs' : /\ jobs'[j].predecessor \in Anchors' \cup {NoJob}
                                /\ TreeOf(jobs[j].predecessor)' # jobs'[j].source
    BY <1>1 DEF RowsInv, JobsFollowAnchors
  <2>2. (Anchors # {} => Children(NoJob) \cap Anchors # {})'
    <3>1. Children(NoJob)' \cap Anchors' = Children(NoJob) \cap Anchors
      BY <1>1
    <3> QED BY <1>1, <3>1 DEF RowsInv, JobsFollowAnchors
  <2>3. \A i, j \in DOMAIN jobs' :
           jobs'[i].source = jobs'[j].source /\ jobs'[i].predecessor = jobs'[j].predecessor
             => i = j
    BY <1>1 DEF RowsInv, JobsFollowAnchors
  <2> QED BY <2>1, <2>2, <2>3 DEF JobsFollowAnchors
<1>3. OlderJobsAreSuperseded'
  <2>1. \A i, j \in DOMAIN jobs' :
          i < j /\ jobs'[i].source = jobs'[j].source => Superseded(i)'
    BY <1>1 DEF RowsInv, OlderJobsAreSuperseded
  <2> QED BY <2>1 DEF OlderJobsAreSuperseded
<1> QED BY <1>2, <1>3 DEF Places

(* A finished Job may be followed, and takes the place of its siblings. *)
LEMMA PlacesAreTaken ==
  ASSUME RowsInv, NEW id \in DOMAIN jobs, Finishes(id)
  PROVE  Places'
<1>1. /\ Anchors' = Anchors \cup {id}
      /\ \A p : Children(p)' = Children(p)
      /\ \A j \in DOMAIN jobs : Superseded(j) => Superseded(j)'
      /\ DOMAIN jobs' = DOMAIN jobs
      /\ \A j \in DOMAIN jobs :
           jobs'[j].source = jobs[j].source /\ jobs'[j].predecessor = jobs[j].predecessor
  BY AnchorsGrow DEF Finishes, JobsGrow
<1>2. JobsFollowAnchors'
  <2>1. ASSUME NEW j \in DOMAIN jobs
        PROVE  /\ jobs'[j].predecessor \in Anchors' \cup {NoJob}
               /\ TreeOf(jobs[j].predecessor)' # jobs'[j].source
    <3>1. /\ jobs[j].predecessor \in Anchors \cup {NoJob}
          /\ TreeOf(jobs[j].predecessor) # jobs[j].source
      BY DEF RowsInv, JobsFollowAnchors
    <3>2. Anchors \subseteq DOMAIN jobs
      BY DEF Anchors
    <3>3. TreeOf(jobs[j].predecessor)' = TreeOf(jobs[j].predecessor)
      BY <1>1, <3>1, <3>2 DEF TreeOf
    <3> QED BY <1>1, <3>1, <3>3
  <2>2. (Anchors # {} => Children(NoJob) \cap Anchors # {})'
    <3>1. CASE Anchors # {}
      BY <1>1, <3>1 DEF RowsInv, JobsFollowAnchors
    <3>2. CASE Anchors = {}
      <4>1. jobs[id].predecessor = NoJob
        BY <3>2 DEF RowsInv, JobsFollowAnchors
      <4>2. id \in Children(NoJob)
        BY <4>1 DEF Children
      <4> QED BY <1>1, <4>2
    <3> QED BY <3>1, <3>2
  <2>3. \A i, j \in DOMAIN jobs' :
           jobs'[i].source = jobs'[j].source /\ jobs'[i].predecessor = jobs'[j].predecessor
             => i = j
    BY <1>1 DEF RowsInv, JobsFollowAnchors
  <2> QED BY <1>1, <2>1, <2>2, <2>3 DEF JobsFollowAnchors
<1>3. OlderJobsAreSuperseded'
  <2>1. \A i, j \in DOMAIN jobs' :
          i < j /\ jobs'[i].source = jobs'[j].source => Superseded(i)'
    BY <1>1 DEF RowsInv, OlderJobsAreSuperseded
  <2> QED BY <2>1 DEF OlderJobsAreSuperseded
<1> QED BY <1>2, <1>3 DEF Places

(* A new Job's place was free, and those of the source's older Jobs were taken. *)
LEMMA PlacesAreAdded ==
  ASSUME RowsInv, Adds
  PROVE  Places'
<1>1. PICK id : id = Len(jobs) + 1
  OBVIOUS
<1>2. /\ IsChain /\ Existing = {} /\ TreeOf(HeadJob) # snapshot
      /\ DOMAIN jobs' = DOMAIN jobs \cup {id} /\ id \notin DOMAIN jobs
      /\ \A j \in DOMAIN jobs : j < id
      /\ jobs'[id].source = snapshot /\ jobs'[id].predecessor = HeadJob
      /\ \A j \in DOMAIN jobs :
           jobs'[j].source = jobs[j].source /\ jobs'[j].predecessor = jobs[j].predecessor
  BY <1>1, JobsAre DEF RowsInv, Adds, JobsGrow
<1>3. /\ Anchors' = Anchors
      /\ \A j \in DOMAIN jobs :
           /\ TreeOf(jobs[j].predecessor)' = TreeOf(jobs[j].predecessor)
           /\ (Superseded(j)' <=> Superseded(j))
      /\ \A p : Children(p)' \cap Anchors' = Children(p) \cap Anchors
  BY HeadStays, UnfinishedSteps DEF RowsInv
<1>4. /\ \A j \in Anchors : Children(j) \cap Anchors = {} => j = HeadJob
      /\ HeadJob \in Anchors \cup {NoJob}
      /\ Anchors = {} => HeadJob = NoJob
      /\ Anchors \subseteq DOMAIN jobs
  BY <1>2, OneHead, JobsAre DEF RowsInv
<1>5. TreeOf(HeadJob)' = TreeOf(HeadJob) /\ HeadJob' = HeadJob
  <2>1. HeadJob' = HeadJob
    BY HeadStays, UnfinishedSteps DEF RowsInv
  <2> QED BY <1>2, <1>4, <2>1 DEF TreeOf
<1>6. JobsFollowAnchors'
  <2>1. ASSUME NEW j \in DOMAIN jobs'
        PROVE  /\ jobs'[j].predecessor \in Anchors' \cup {NoJob}
               /\ TreeOf(jobs[j].predecessor)' # jobs'[j].source
    <3>1. CASE j = id
      <4>1. TreeOf(jobs[j].predecessor)' = TreeOf(HeadJob)'
        BY <1>2, <1>5, <3>1
      <4> QED BY <1>2, <1>3, <1>4, <1>5, <3>1, <4>1
    <3>2. CASE j \in DOMAIN jobs
      BY <1>2, <1>3, <3>2 DEF RowsInv, JobsFollowAnchors
    <3> QED BY <1>2, <3>1, <3>2
  <2>2. (Anchors # {} => Children(NoJob) \cap Anchors # {})'
    <3>1. Children(NoJob)' \cap Anchors' = Children(NoJob) \cap Anchors
      BY <1>3
    <3> QED BY <1>3, <3>1 DEF RowsInv, JobsFollowAnchors
  <2>3. \A i, j \in DOMAIN jobs' :
           jobs'[i].source = jobs'[j].source /\ jobs'[i].predecessor = jobs'[j].predecessor
             => i = j
    <3>1. \A j \in DOMAIN jobs : ~(jobs[j].source = snapshot /\ jobs[j].predecessor = HeadJob)
      BY <1>2 DEF Existing
    <3>2. \A i, j \in DOMAIN jobs :
            jobs[i].source = jobs[j].source /\ jobs[i].predecessor = jobs[j].predecessor => i = j
      BY DEF RowsInv, JobsFollowAnchors
    <3> QED BY <1>2, <3>1, <3>2
  <2> QED BY <2>1, <2>2, <2>3 DEF JobsFollowAnchors
<1>7. OlderJobsAreSuperseded'
  <2>1. ASSUME NEW i \in DOMAIN jobs, jobs[i].source = snapshot
        PROVE  Superseded(i)
    <3>1. jobs[i].predecessor \in Anchors \cup {NoJob} /\ jobs[i].predecessor # HeadJob
      BY <1>2, <2>1 DEF RowsInv, JobsFollowAnchors, Existing
    <3>2. Children(jobs[i].predecessor) \cap Anchors # {}
      BY <1>4, <3>1 DEF RowsInv, JobsFollowAnchors
    <3> QED BY <3>2 DEF Superseded
  <2>2. ASSUME NEW i \in DOMAIN jobs', NEW j \in DOMAIN jobs',
               i < j, jobs'[i].source = jobs'[j].source
        PROVE  Superseded(i)'
    <3>1. i \in DOMAIN jobs
      BY <1>1, <1>2, <2>2, JobsAre DEF RowsInv
    <3>2. CASE j = id
      BY <1>2, <1>3, <2>1, <2>2, <3>1, <3>2
    <3>3. CASE j \in DOMAIN jobs
      BY <1>2, <1>3, <2>2, <3>1, <3>3 DEF RowsInv, OlderJobsAreSuperseded
    <3> QED BY <1>2, <3>2, <3>3
  <2> QED BY <2>2 DEF OlderJobsAreSuperseded
<1> QED BY <1>6, <1>7 DEF Places

--------------------------------------------------------------------------------
(* The records *)

Records == RecordsFollowJobs /\ RecordsTellTheChain

(* begin, and the closing of a record, keep a success. *)
LEMMA RecordWrites ==
  ASSUME TypeOK, NEW s \in Sources, NEW status, WritesRecord(s, status), status # "succeeded"
  PROVE  /\ \A t \in Sources : record'[t] = "succeeded" <=> record[t] = "succeeded"
         /\ \A t \in Sources \ {s} : record'[t] = record[t]
         /\ record[s] # "succeeded" => record'[s] = status
         /\ record' \in [Sources -> RecordStatuses \cup {status}]
<1>1. record \in [Sources -> RecordStatuses]
  BY DEF TypeOK
<1> QED BY <1>1 DEF WritesRecord, RecordStatuses

(* What the records say of the chain stays so while neither changes. *)
LEMMA ChainStaysTold ==
  ASSUME RowsInv, AnchorsStay,
         \A s \in Sources : record'[s] = "succeeded" <=> record[s] = "succeeded"
  PROVE  RecordsTellTheChain' /\ RecordsKeepSuccess
<1>1. Anchors' = Anchors /\ \A j \in Anchors : jobs'[j].source = jobs[j].source
  <2>1. Anchors \subseteq DOMAIN jobs
    BY DEF Anchors
  <2> QED BY <2>1, HeadStays DEF RowsInv, AnchorsStay, JobsGrow
<1>2. RecordsTellTheChain'
  <2>1. \A s \in Sources :
          record'[s] = "succeeded" <=> \E j \in Anchors' : jobs'[j].source = s
    BY <1>1 DEF RowsInv, RecordsTellTheChain
  <2> QED BY <2>1 DEF RecordsTellTheChain
<1> QED BY <1>2 DEF RecordsKeepSuccess

(* The records under a step that changes no status. *)
LEMMA RecordsStay ==
  ASSUME RowsInv, Keeps
  PROVE  Records' /\ RecordsKeepSuccess
<1>1. /\ DOMAIN jobs' = DOMAIN jobs /\ record' = record
      /\ \A j \in DOMAIN jobs : /\ jobs'[j].source = jobs[j].source
                                /\ (Running(j)' <=> Running(j))
  BY DEF Keeps, JobsGrow, Status, Running
<1>2. RecordsFollowJobs'
  <2>1. \A j \in DOMAIN jobs : LatestOf(j) => LatestOf(j)'
    BY <1>1 DEF LatestOf
  <2>2. \A j \in DOMAIN jobs' :
          Running(j)' => /\ RecordOf(j)' \in {"running", "succeeded"}
                         /\ RecordOf(j)' = "running" => LatestOf(j)'
    BY <1>1, <2>1 DEF RowsInv, RecordsFollowJobs, RecordOf
  <2>3. \A s \in Sources : record'[s] = "running" =>
          \E j \in DOMAIN jobs' : jobs'[j].source = s /\ Running(j)'
    BY <1>1 DEF RowsInv, RecordsFollowJobs
  <2> QED BY <2>2, <2>3 DEF RecordsFollowJobs
<1> QED BY <1>1, <1>2, ChainStaysTold, UnfinishedSteps DEF Records

(* A new Job: no Job of the source ran, and it is the latest. *)
LEMMA RecordsOfANewJob ==
  ASSUME RowsInv, Adds
  PROVE  Records' /\ RecordsKeepSuccess
<1>1. PICK id : id = Len(jobs) + 1
  OBVIOUS
<1>2. /\ DOMAIN jobs' = DOMAIN jobs \cup {id} /\ id \notin DOMAIN jobs
      /\ \A j \in DOMAIN jobs : j < id /\ j \in Nat
      /\ id \in Nat
      /\ jobs'[id].source = snapshot /\ Running(id)'
      /\ \A j \in DOMAIN jobs : /\ jobs'[j].source = jobs[j].source
                                /\ (Running(j)' <=> Running(j))
      /\ \A j \in DOMAIN jobs : jobs[j].source \in Sources
  BY <1>1, JobsAre DEF RowsInv, Adds, JobsGrow, Status, Running
<1>3. snapshot \in Sources /\ record[snapshot] # "running"
  BY DEF RowsInv, TypeOK, Adds
<1>4. /\ \A t \in Sources : record'[t] = "succeeded" <=> record[t] = "succeeded"
      /\ \A t \in Sources \ {snapshot} : record'[t] = record[t]
      /\ record[snapshot] # "succeeded" => record'[snapshot] = "running"
  BY <1>3, RecordWrites DEF RowsInv, Adds
<1>5. \A j \in DOMAIN jobs : Running(j) =>
        /\ RecordOf(j) \in {"running", "succeeded"}
        /\ RecordOf(j) = "running" => LatestOf(j)
  BY DEF RowsInv, RecordsFollowJobs
<1>6. ASSUME NEW j \in DOMAIN jobs', Running(j)'
      PROVE  /\ RecordOf(j)' \in {"running", "succeeded"}
             /\ RecordOf(j)' = "running" => LatestOf(j)'
  <2>1. CASE j = id
    <3>1. RecordOf(j)' = record'[snapshot]
      BY <1>2, <2>1 DEF RecordOf
    <3>2. \A i \in DOMAIN jobs' : i <= j
      BY <1>2, <2>1
    <3>3. LatestOf(j)'
      BY <3>2 DEF LatestOf
    <3> QED BY <1>3, <1>4, <3>1, <3>3
  <2>2. CASE j \in DOMAIN jobs /\ jobs[j].source # snapshot
    <3>1. /\ RecordOf(j)' = RecordOf(j) /\ Running(j)
          /\ RecordOf(j) \in {"running", "succeeded"}
          /\ RecordOf(j) = "running" => LatestOf(j)
      BY <1>2, <1>4, <1>5, <1>6, <2>2 DEF RecordOf
    <3>2. LatestOf(j) => LatestOf(j)'
      BY <1>2, <2>2 DEF LatestOf
    <3> QED BY <3>1, <3>2
  <2>3. CASE j \in DOMAIN jobs /\ jobs[j].source = snapshot
    <3>1. Running(j) /\ RecordOf(j) \in {"running", "succeeded"} /\ RecordOf(j) = record[snapshot]
      BY <1>2, <1>5, <1>6, <2>3 DEF RecordOf
    <3>2. record'[snapshot] = "succeeded"
      BY <1>3, <1>4, <3>1
    <3>3. RecordOf(j)' = "succeeded"
      BY <1>2, <2>3, <3>2 DEF RecordOf
    <3> QED BY <3>3
  <2> QED BY <1>2, <2>1, <2>2, <2>3
<1>7. ASSUME NEW s \in Sources, record'[s] = "running"
      PROVE  \E j \in DOMAIN jobs' : jobs'[j].source = s /\ Running(j)'
  <2>1. CASE s = snapshot
    BY <1>2, <2>1
  <2>2. CASE s # snapshot
    <3>1. record[s] = "running"
      BY <1>4, <1>7, <2>2
    <3>2. PICK j \in DOMAIN jobs : jobs[j].source = s /\ Running(j)
      BY <3>1 DEF RowsInv, RecordsFollowJobs
    <3> QED BY <1>2, <3>2
  <2> QED BY <2>1, <2>2
<1>8. RecordsFollowJobs'
  BY <1>6, <1>7 DEF RecordsFollowJobs
<1> QED BY <1>4, <1>8, ChainStaysTold, UnfinishedSteps DEF Records

(* The Job after the head runs again: it is the latest of its source. *)
LEMMA RecordsOfARestart ==
  ASSUME RowsInv, NEW id \in DOMAIN jobs, Restarts(id)
  PROVE  Records' /\ RecordsKeepSuccess
<1>1. LatestOf(id) /\ jobs[id].source = snapshot /\ snapshot \in Sources
  BY ExistingIsLatest DEF RowsInv, TypeOK, Restarts
<1>2. /\ DOMAIN jobs' = DOMAIN jobs /\ Running(id)'
      /\ \A j \in DOMAIN jobs : jobs'[j].source = jobs[j].source
      /\ \A j \in DOMAIN jobs : j # id => (Running(j)' <=> Running(j))
      /\ \A j \in DOMAIN jobs : jobs[j].source \in Sources /\ j \in Nat
  BY JobsAre DEF RowsInv, Restarts, JobsGrow, Others, Status, Running
<1>3. /\ \A t \in Sources : record'[t] = "succeeded" <=> record[t] = "succeeded"
      /\ \A t \in Sources \ {snapshot} : record'[t] = record[t]
      /\ record[snapshot] # "succeeded" => record'[snapshot] = "running"
  BY <1>1, RecordWrites DEF RowsInv, Restarts
<1>4. \A j \in DOMAIN jobs : LatestOf(j) => LatestOf(j)'
  BY <1>2 DEF LatestOf
<1>5. \A j \in DOMAIN jobs : Running(j) =>
        /\ RecordOf(j) \in {"running", "succeeded"}
        /\ RecordOf(j) = "running" => LatestOf(j)
  BY DEF RowsInv, RecordsFollowJobs
<1>6. ASSUME NEW j \in DOMAIN jobs', Running(j)'
      PROVE  /\ RecordOf(j)' \in {"running", "succeeded"}
             /\ RecordOf(j)' = "running" => LatestOf(j)'
  <2>1. CASE j = id
    <3>1. RecordOf(j)' = record'[snapshot]
      BY <1>1, <1>2, <2>1 DEF RecordOf
    <3> QED BY <1>1, <1>2, <1>3, <1>4, <2>1, <3>1
  <2>2. CASE j # id /\ jobs[j].source # snapshot
    <3>1. /\ RecordOf(j)' = RecordOf(j) /\ Running(j)
          /\ RecordOf(j) \in {"running", "succeeded"}
          /\ RecordOf(j) = "running" => LatestOf(j)
      BY <1>2, <1>3, <1>5, <1>6, <2>2 DEF RecordOf
    <3> QED BY <1>2, <1>4, <3>1
  <2>3. CASE j # id /\ jobs[j].source = snapshot
    <3>1. /\ j \in DOMAIN jobs /\ Running(j) /\ RecordOf(j) = record[snapshot]
          /\ RecordOf(j) \in {"running", "succeeded"}
          /\ RecordOf(j) = "running" => LatestOf(j)
      BY <1>2, <1>5, <1>6, <2>3 DEF RecordOf
    <3>2. record[snapshot] # "running"
      <4> SUFFICES ASSUME record[snapshot] = "running" PROVE FALSE
        OBVIOUS
      <4>1. id <= j /\ j <= id
        BY <1>1, <2>3, <3>1 DEF LatestOf
      <4> QED BY <1>2, <2>3, <3>1, <4>1
    <3>3. RecordOf(j)' = "succeeded"
      BY <1>1, <1>2, <1>3, <2>3, <3>1, <3>2 DEF RecordOf
    <3> QED BY <3>3
  <2> QED BY <2>1, <2>2, <2>3
<1>7. ASSUME NEW s \in Sources, record'[s] = "running"
      PROVE  \E j \in DOMAIN jobs' : jobs'[j].source = s /\ Running(j)'
  <2>1. CASE s = snapshot
    BY <1>1, <1>2, <2>1
  <2>2. CASE s # snapshot
    <3>1. record[s] = "running"
      BY <1>3, <1>7, <2>2
    <3>2. PICK j \in DOMAIN jobs : jobs[j].source = s /\ Running(j)
      BY <3>1 DEF RowsInv, RecordsFollowJobs
    <3> QED BY <1>1, <1>2, <2>2, <3>2
  <2> QED BY <2>1, <2>2
<1>8. RecordsFollowJobs'
  BY <1>6, <1>7 DEF RecordsFollowJobs
<1> QED BY <1>3, <1>8, ChainStaysTold, UnfinishedSteps DEF Records

(* A failure closes the record with its latest Job, or leaves a success. *)
LEMMA RecordsOfAFailure ==
  ASSUME RowsInv, NEW id \in DOMAIN jobs, Fails(id)
  PROVE  Records' /\ RecordsKeepSuccess
<1> DEFINE source == jobs[id].source
<1>1. PICK status \in {"failed_retryable", "failed_terminal"} : WritesRecord(source, status)
  BY DEF Fails
<1>2. /\ DOMAIN jobs' = DOMAIN jobs /\ ~Running(id)'
      /\ \A j \in DOMAIN jobs : jobs'[j].source = jobs[j].source
      /\ \A j \in DOMAIN jobs : j # id => (Running(j)' <=> Running(j))
      /\ \A j \in DOMAIN jobs : jobs[j].source \in Sources /\ j \in Nat
      /\ RecordOf(id) # "succeeded" => LatestOf(id)
  BY JobsAre DEF RowsInv, Fails, JobsGrow, Others, Status, Running
<1>3. /\ \A t \in Sources : record'[t] = "succeeded" <=> record[t] = "succeeded"
      /\ \A t \in Sources \ {source} : record'[t] = record[t]
      /\ record[source] # "succeeded" => record'[source] = status
  BY <1>1, <1>2, RecordWrites DEF RowsInv
<1>4. \A j \in DOMAIN jobs : LatestOf(j) => LatestOf(j)'
  BY <1>2 DEF LatestOf
<1>5. \A j \in DOMAIN jobs : Running(j) =>
        /\ RecordOf(j) \in {"running", "succeeded"}
        /\ RecordOf(j) = "running" => LatestOf(j)
  BY DEF RowsInv, RecordsFollowJobs
<1>6. ASSUME NEW j \in DOMAIN jobs', Running(j)'
      PROVE  /\ RecordOf(j)' \in {"running", "succeeded"}
             /\ RecordOf(j)' = "running" => LatestOf(j)'
  <2>1. /\ j # id /\ j \in DOMAIN jobs /\ Running(j)
        /\ RecordOf(j) \in {"running", "succeeded"}
        /\ RecordOf(j) = "running" => LatestOf(j)
    BY <1>2, <1>5, <1>6
  <2>2. CASE jobs[j].source # source
    <3>1. RecordOf(j)' = RecordOf(j)
      BY <1>2, <1>3, <2>1, <2>2 DEF RecordOf
    <3> QED BY <1>4, <2>1, <3>1
  <2>3. CASE jobs[j].source = source
    <3>1. RecordOf(j) = record[source] /\ RecordOf(id) = record[source]
      BY <2>3 DEF RecordOf
    <3>2. record[source] = "succeeded"
      <4> SUFFICES ASSUME record[source] # "succeeded" PROVE FALSE
        OBVIOUS
      <4>1. LatestOf(j) /\ LatestOf(id)
        BY <1>2, <2>1, <3>1
      <4>2. id <= j /\ j <= id
        BY <2>1, <2>3, <4>1 DEF LatestOf
      <4> QED BY <1>2, <2>1, <4>2
    <3>3. RecordOf(j)' = "succeeded"
      BY <1>2, <1>3, <2>1, <2>3, <3>2 DEF RecordOf
    <3> QED BY <3>3
  <2> QED BY <2>2, <2>3
<1>7. ASSUME NEW s \in Sources, record'[s] = "running"
      PROVE  \E j \in DOMAIN jobs' : jobs'[j].source = s /\ Running(j)'
  <2>1. s # source
    BY <1>2, <1>3, <1>7
  <2>2. record[s] = "running"
    BY <1>3, <1>7, <2>1
  <2>3. PICK j \in DOMAIN jobs : jobs[j].source = s /\ Running(j)
    BY <2>2 DEF RowsInv, RecordsFollowJobs
  <2> QED BY <1>2, <2>1, <2>3
<1>8. RecordsFollowJobs'
  BY <1>6, <1>7 DEF RecordsFollowJobs
<1> QED BY <1>3, <1>8, ChainStaysTold, UnfinishedSteps DEF Records

(* A completion makes the records of its source succeed. *)
LEMMA RecordsOfASuccess ==
  ASSUME RowsInv, NEW id \in DOMAIN jobs, Completes(id)
  PROVE  Records' /\ RecordsKeepSuccess
<1> DEFINE source == jobs[id].source
<1>1. /\ DOMAIN jobs' = DOMAIN jobs /\ ~Running(id)'
      /\ \A j \in DOMAIN jobs : jobs'[j].source = jobs[j].source
      /\ \A j \in DOMAIN jobs : j # id => (Running(j)' <=> Running(j))
      /\ \A j \in DOMAIN jobs : jobs[j].source \in Sources
      /\ Anchors' = Anchors \cup {id} /\ Anchors \subseteq DOMAIN jobs
  BY JobsAre, AnchorsGrow DEF RowsInv, Completes, Finishes, JobsGrow, Status, Running
<1>2. /\ \A t \in Sources \ {source} : record'[t] = record[t]
      /\ record'[source] = "succeeded" /\ source \in Sources
  BY <1>1 DEF RowsInv, TypeOK, Completes
<1>3. RecordsKeepSuccess
  BY <1>2 DEF RecordsKeepSuccess
<1>4. RecordsTellTheChain'
  <2>1. \A s \in Sources : record[s] = "succeeded" <=> \E j \in Anchors : jobs[j].source = s
    BY DEF RowsInv, RecordsTellTheChain
  <2>2. \A s \in Sources :
          record'[s] = "succeeded" <=> \E j \in Anchors' : jobs'[j].source = s
    BY <1>1, <1>2, <2>1
  <2> QED BY <2>2 DEF RecordsTellTheChain
<1>5. \A j \in DOMAIN jobs : Running(j) =>
        /\ RecordOf(j) \in {"running", "succeeded"}
        /\ RecordOf(j) = "running" => LatestOf(j)
  BY DEF RowsInv, RecordsFollowJobs
<1>6. ASSUME NEW j \in DOMAIN jobs', Running(j)'
      PROVE  /\ RecordOf(j)' \in {"running", "succeeded"}
             /\ RecordOf(j)' = "running" => LatestOf(j)'
  <2>1. /\ j # id /\ j \in DOMAIN jobs
        /\ RecordOf(j) \in {"running", "succeeded"}
        /\ RecordOf(j) = "running" => LatestOf(j)
    BY <1>1, <1>5, <1>6
  <2>2. LatestOf(j) => LatestOf(j)'
    BY <1>1, <2>1 DEF LatestOf
  <2> QED BY <1>1, <1>2, <2>1, <2>2 DEF RecordOf
<1>7. ASSUME NEW s \in Sources, record'[s] = "running"
      PROVE  \E j \in DOMAIN jobs' : jobs'[j].source = s /\ Running(j)'
  <2>1. s # source /\ record[s] = "running"
    BY <1>2, <1>7
  <2>2. PICK j \in DOMAIN jobs : jobs[j].source = s /\ Running(j)
    BY <2>1 DEF RowsInv, RecordsFollowJobs
  <2> QED BY <1>1, <2>1, <2>2
<1>8. RecordsFollowJobs'
  BY <1>6, <1>7 DEF RecordsFollowJobs
<1> QED BY <1>3, <1>4, <1>8 DEF Records

(* Whatever the step, the Jobs keep their places and the records tell of them.  *)
LEMMA RowsStay ==
  ASSUME RowsInv, [Next]_vars
  PROVE  JobsOK' /\ JobsGrow /\ Places' /\ Records' /\ RecordsKeepSuccess
<1>1. CASE Keeps
  BY <1>1, PlacesStay, RecordsStay, UnfinishedSteps, StepWrites DEF Keeps
<1>2. CASE Adds
  BY <1>2, PlacesAreAdded, RecordsOfANewJob, StepWrites DEF Adds
<1>3. ASSUME NEW id \in DOMAIN jobs, Restarts(id)
      PROVE  JobsGrow /\ Places' /\ Records' /\ RecordsKeepSuccess
  BY <1>3, PlacesStay, RecordsOfARestart, UnfinishedSteps DEF Restarts
<1>4. ASSUME NEW id \in DOMAIN jobs, Fails(id)
      PROVE  JobsGrow /\ Places' /\ Records' /\ RecordsKeepSuccess
  BY <1>4, PlacesStay, RecordsOfAFailure, UnfinishedSteps DEF Fails
<1>5. ASSUME NEW id \in DOMAIN jobs, Completes(id)
      PROVE  JobsGrow /\ Places' /\ Records' /\ RecordsKeepSuccess
  BY <1>5, PlacesAreTaken, RecordsOfASuccess DEF Completes, Finishes
<1> QED BY <1>1, <1>2, <1>3, <1>4, <1>5, StepWrites

--------------------------------------------------------------------------------
(* What the callers remember *)

(* A caller's next state is typed, and what it says is true. *)
Becomes(w, new) ==
  /\ worker' = [worker EXCEPT ![w] = new]
  /\ new \in WorkerStates /\ new.job \in {NoJob} \cup DOMAIN jobs'
  /\ Knows(new)'

(* The tree of a Job's predecessor is a stored Job's, and stays. *)
LEMMA PredecessorTreeStays ==
  ASSUME RowsInv, JobsGrow, NEW j \in DOMAIN jobs
  PROVE  /\ TreeOf(jobs[j].predecessor)' = TreeOf(jobs[j].predecessor)
         /\ jobs'[j].source = jobs[j].source
         /\ TreeOf(jobs[j].predecessor) \in Trees /\ jobs[j].source \in Trees
<1>1. jobs[j].predecessor \in DOMAIN jobs \cup {NoJob} /\ Anchors \subseteq DOMAIN jobs
  BY DEF RowsInv, JobsFollowAnchors, Anchors
<1>2. /\ jobs'[j].predecessor = jobs[j].predecessor
      /\ \A i \in DOMAIN jobs : jobs'[i].source = jobs[i].source /\ jobs[i].source \in Sources
  BY JobsAre DEF RowsInv, JobsGrow
<1> QED BY <1>1, <1>2 DEF TreeOf, Trees

(* What a caller that takes no step remembers stays true. *)
LEMMA TruthStays ==
  ASSUME RowsInv, JobsGrow, RecordsKeepSuccess, NEW me, Knows(me)
  PROVE  Knows(me)'
<1>1. /\ \A j \in DOMAIN jobs :
           /\ j \in DOMAIN jobs' /\ (jobs[j].intent => jobs'[j].intent)
           /\ jobs'[j].source = jobs[j].source
           /\ TreeOf(jobs[j].predecessor)' = TreeOf(jobs[j].predecessor)
      /\ \A j \in DOMAIN jobs : jobs[j].source \in Sources
  BY JobsAre, PredecessorTreeStays DEF RowsInv, JobsGrow
<1>2. \A j \in DOMAIN jobs : RecordOf(j) = "succeeded" => RecordOf(j)' = "succeeded"
  BY <1>1 DEF RecordsKeepSuccess, RecordOf
<1>3. me.pc \in AttemptPoints \cup {"recovering"} => me.job \in DOMAIN jobs
  BY DEF Knows
<1>4. /\ me.pc \in AttemptPoints /\ me.reused => RecordOf(me.job)' = "succeeded"
      /\ me.pc \in {"renewed", "published"} => jobs'[me.job].intent
      /\ me.pc \in {"rendered", "renewed"}
           => me.seen \in {TreeOf(jobs[me.job].predecessor)', jobs'[me.job].source}
  BY <1>1, <1>2, <1>3 DEF Knows, AttemptPoints
<1>5. /\ me.candidates \subseteq DOMAIN jobs'
      /\ me.pc \in AttemptPoints \cup {"recovering"} => me.job \in DOMAIN jobs'
  BY <1>1 DEF Knows
<1> QED BY <1>4, <1>5 DEF Knows, AttemptPoints

(* Giving up leaves nothing to remember. *)
LEMMA NothingRemembered ==
  ASSUME RowsInv, NEW w \in Workers, GiveUp(w)
  PROVE  Becomes(w, Idle)
<1>1. Idle \in WorkerStates /\ Idle.job = NoJob /\ Idle.candidates = {} /\ Idle.pc = "idle"
  BY DEF Idle, WorkerStates, Points, Trees
<1>2. Knows(Idle)'
  BY <1>1 DEF Knows, AttemptPoints
<1> QED BY <1>1, <1>2 DEF GiveUp, Becomes

(* _RecoveryScan, and what its comparison with the disk found. *)
LEMMA ScannersRemember ==
  ASSUME RowsInv, NEW w \in Workers, Scan(w) \/ Validate(w)
  PROVE  \E new : Becomes(w, new)
<1>0. /\ UNCHANGED <<jobs, record>> /\ DOMAIN jobs \subseteq JobIds
      /\ Idle \in WorkerStates
  BY JobsAre DEF RowsInv, Scan, Validate, Idle, WorkerStates, Points, Trees
<1>1. ASSUME NEW new \in WorkerStates, worker' = [worker EXCEPT ![w] = new],
             new.pc \in {"scanning", "preparing", "recovering"},
             new.candidates \subseteq DOMAIN jobs,
             new.job \in {NoJob} \cup DOMAIN jobs,
             new.pc = "recovering" => new.job \in DOMAIN jobs
      PROVE  Becomes(w, new)
  BY <1>0, <1>1 DEF Becomes, Knows, AttemptPoints
<1>2. CASE Scan(w)
  <2> DEFINE new == [Idle EXCEPT !.pc = "scanning", !.candidates = Recoverable]
  <2>1. Recoverable \subseteq DOMAIN jobs
    BY DEF Recoverable, Pending, Children
  <2>2. /\ new \in WorkerStates /\ new.pc = "scanning" /\ new.job = NoJob
        /\ new.candidates \subseteq DOMAIN jobs
    BY <1>0, <2>1 DEF Idle, WorkerStates, Points, Trees
  <2>3. worker' = [worker EXCEPT ![w] = new]
    BY <1>2 DEF Scan
  <2>4. PICK n : n = new
    OBVIOUS
  <2>5. Becomes(w, n)
    <3> HIDE DEF new
    <3> QED BY <1>1, <2>2, <2>3, <2>4
  <2> QED BY <2>5
<1>3. CASE Validate(w)
  <2>1. worker[w].candidates \subseteq DOMAIN jobs
    BY DEF RowsInv, MemoriesAreTrue, Knows
  <2>2. CASE worker' = [worker EXCEPT ![w] = [Idle EXCEPT !.pc = "preparing"]]
    <3> DEFINE new == [Idle EXCEPT !.pc = "preparing"]
    <3>1. /\ new \in WorkerStates /\ new.pc = "preparing" /\ new.job = NoJob
          /\ new.candidates \subseteq DOMAIN jobs
      BY <1>0 DEF Idle, WorkerStates, Points, Trees
    <3>2. Becomes(w, new)
      <4> HIDE DEF new
      <4>1. worker' = [worker EXCEPT ![w] = new]
        BY <2>2 DEF new
      <4> QED BY <1>1, <3>1, <4>1
    <3> QED BY <3>2
  <2>3. CASE \E id \in worker[w].candidates :
               worker' = [worker EXCEPT ![w] = [Idle EXCEPT !.pc = "recovering", !.job = id]]
    <3>1. PICK id \in DOMAIN jobs :
            worker' = [worker EXCEPT ![w] = [Idle EXCEPT !.pc = "recovering", !.job = id]]
      BY <2>1, <2>3
    <3> DEFINE new == [Idle EXCEPT !.pc = "recovering", !.job = id]
    <3>2. /\ new \in WorkerStates /\ new.pc = "recovering" /\ new.job = id
          /\ new.candidates \subseteq DOMAIN jobs
      BY <1>0 DEF Idle, WorkerStates, Points, Trees
    <3>3. Becomes(w, new)
      <4> HIDE DEF new
      <4>1. worker' = [worker EXCEPT ![w] = new]
        BY <3>1 DEF new
      <4> QED BY <1>1, <3>2, <4>1
    <3> QED BY <3>3
  <2> QED BY <1>3, <2>2, <2>3 DEF Validate
<1> QED BY <1>2, <1>3

(* begin: the caller holds the Job, and knows whether the records had succeeded. *)
LEMMA PreparedRemember ==
  ASSUME RowsInv, JobsOK', RecordsKeepSuccess, NEW w \in Workers, NEW id, Prepared(w, id)
  PROVE  \E new : Becomes(w, new)
<1>1. PICK t \in Tokens :
        worker' = [worker EXCEPT ![w] =
                     [Idle EXCEPT !.pc = "prepared", !.job = id, !.token = t,
                                  !.reused = (record[snapshot] = "succeeded")]]
  BY DEF Prepared
<1>2. PICK reused \in BOOLEAN : reused = (record[snapshot] = "succeeded")
  OBVIOUS
<1>3. snapshot \in Sources
  BY DEF RowsInv, TypeOK
<1>4. /\ id \in DOMAIN jobs' /\ jobs'[id].source = snapshot
      /\ id \in JobIds
  <2>1. DOMAIN jobs' = 1..Len(jobs') /\ Len(jobs') \in Nat /\ Len(jobs') <= MaxJobs
    BY DEF JobsOK
  <2> QED BY <2>1, PublicationAssumption DEF PublicationAssumption, Prepared, JobIds
<1> DEFINE new == [Idle EXCEPT !.pc = "prepared", !.job = id, !.token = t, !.reused = reused]
<1>5. /\ new \in WorkerStates /\ new.pc = "prepared" /\ new.job = id
      /\ new.candidates = {} /\ new.reused = reused
  BY <1>4 DEF Idle, WorkerStates, Points, Trees
<1>6. worker' = [worker EXCEPT ![w] = new]
  BY <1>1, <1>2
<1> HIDE DEF new
<1>7. PICK n : n = new
  OBVIOUS
<1>8. reused => RecordOf(id)' = "succeeded"
  BY <1>2, <1>3, <1>4 DEF RecordOf, RecordsKeepSuccess
<1>9. Knows(n)'
  BY <1>4, <1>5, <1>7, <1>8 DEF Knows, AttemptPoints
<1> QED BY <1>4, <1>5, <1>6, <1>7, <1>9 DEF Becomes

(* Inside an attempt: the Job stays the caller's, the render is fenced by the   *)
(* predecessor's tree or the Job's own, the intent is stored before the lock is *)
(* taken.                                                                       *)
LEMMA AttemptsRemember ==
  ASSUME RowsInv, NEW w \in Workers, Render(w) \/ RenewBeforePublish(w) \/ Publish(w)
  PROVE  \E new : Becomes(w, new)
<1>1. PICK me : me = worker[w]
  OBVIOUS
<1>2. /\ me \in WorkerStates /\ me.pc \in AttemptPoints /\ Knows(me)
      /\ worker \in [Workers -> WorkerStates] /\ tree \in Trees
      /\ me.candidates \subseteq DOMAIN jobs
  BY <1>1 DEF RowsInv, TypeOK, MemoriesAreTrue, Render, RenewBeforePublish, Publish,
              AttemptPoints, Knows
<1>3. /\ JobsOK' /\ Keeps /\ JobsGrow /\ RecordsKeepSuccess
  BY RenewWrites, QuietWrites DEF Quiet, Keeps, RecordsKeepSuccess
<1>4. me.job \in DOMAIN jobs /\ me.job \in DOMAIN jobs'
  BY <1>2, <1>3 DEF Knows, JobsGrow
<1>5. /\ me.reused => RecordOf(me.job)' = "succeeded"
      /\ me.pc \in {"renewed", "published"} => jobs'[me.job].intent
      /\ me.pc \in {"rendered", "renewed"}
           => me.seen \in {TreeOf(jobs[me.job].predecessor)', jobs'[me.job].source}
  <2>1. Knows(me)'
    BY <1>2, <1>3, TruthStays
  <2> QED BY <1>2, <2>1 DEF Knows, AttemptPoints
<1>6. ASSUME NEW new \in WorkerStates, worker' = [worker EXCEPT ![w] = new],
             new.pc \in {"rendered", "renewed", "published", "failing"},
             new.candidates = me.candidates, new.job = me.job, new.reused = me.reused,
             new.pc \in {"renewed", "published"} => jobs'[me.job].intent,
             new.pc \in {"rendered", "renewed"}
               => new.seen \in {TreeOf(jobs[me.job].predecessor)', jobs'[me.job].source}
      PROVE  Becomes(w, new)
  <2>1. new.candidates \subseteq DOMAIN jobs'
    BY <1>2, <1>3, <1>6 DEF JobsGrow
  <2>2. Knows(new)'
    BY <1>4, <1>5, <1>6, <2>1 DEF Knows, AttemptPoints
  <2> QED BY <1>4, <1>6, <2>2 DEF Becomes
<1>7. ASSUME NEW retryable \in BOOLEAN,
             worker' = [worker EXCEPT ![w].pc = "failing", ![w].retryable = retryable]
      PROVE  \E new : Becomes(w, new)
  <2> DEFINE new == [me EXCEPT !.pc = "failing", !.retryable = retryable]
  <2>1. /\ new \in WorkerStates /\ new.pc = "failing"
        /\ new.candidates = me.candidates /\ new.job = me.job /\ new.reused = me.reused
    BY <1>2 DEF WorkerStates, Points
  <2>2. worker' = [worker EXCEPT ![w] = new]
    BY <1>1, <1>2, <1>7
  <2> HIDE DEF new
  <2> QED BY <1>6, <2>1, <2>2
<1>8. ASSUME NEW point \in {"renewed", "published"}, Goto(w, point), jobs'[me.job].intent,
             point = "renewed" =>
               me.seen \in {TreeOf(jobs[me.job].predecessor)', jobs'[me.job].source}
      PROVE  \E new : Becomes(w, new)
  <2> DEFINE new == [me EXCEPT !.pc = point]
  <2>1. /\ new \in WorkerStates /\ new.pc = point /\ new.seen = me.seen
        /\ new.candidates = me.candidates /\ new.job = me.job /\ new.reused = me.reused
    BY <1>2 DEF WorkerStates, Points
  <2>2. worker' = [worker EXCEPT ![w] = new]
    BY <1>1, <1>2, <1>8 DEF Goto
  <2> HIDE DEF new
  <2> QED BY <1>6, <1>8, <2>1, <2>2
<1>9. CASE Render(w)
  <2>1. CASE /\ Fenced(w)
             /\ worker' = [worker EXCEPT ![w].pc = "rendered", ![w].seen = tree]
    <3>1. tree \in {TreeOf(jobs[me.job].predecessor)', jobs'[me.job].source}
      BY <1>1, <1>3, <1>4, <2>1, PredecessorTreeStays DEF Fenced, Me
    <3>2. PICK seen \in Trees : seen = tree
      BY <1>2
    <3> DEFINE new == [me EXCEPT !.pc = "rendered", !.seen = seen]
    <3>3. /\ new \in WorkerStates /\ new.pc = "rendered" /\ new.seen = seen
          /\ new.candidates = me.candidates /\ new.job = me.job /\ new.reused = me.reused
      BY <1>2 DEF WorkerStates, Points
    <3>4. worker' = [worker EXCEPT ![w] = new]
      BY <1>1, <1>2, <2>1, <3>2
    <3> HIDE DEF new
    <3>5. new.seen \in {TreeOf(jobs[me.job].predecessor)', jobs'[me.job].source}
      BY <3>1, <3>2, <3>3
    <3> QED BY <1>6, <3>3, <3>4, <3>5
  <2> QED BY <1>7, <1>9, <2>1 DEF Render
<1>10. CASE RenewBeforePublish(w)
  <2>1. CASE Goto(w, "renewed") /\ jobs'[me.job].intent
    BY <1>1, <1>5, <1>8, <1>10, <2>1 DEF RenewBeforePublish
  <2>2. CASE GiveUp(w)
    BY <2>2, NothingRemembered
  <2> QED BY <1>1, <1>10, <2>1, <2>2, RenewWrites
<1>11. CASE Publish(w)
  <2>1. worker[w].pc = "renewed" /\ jobs'[me.job].intent
    BY <1>1, <1>5, <1>11 DEF Publish
  <2>2. \/ Goto(w, "published")
        \/ \E retryable \in BOOLEAN :
             worker' = [worker EXCEPT ![w].pc = "failing", ![w].retryable = retryable]
    BY <1>11 DEF Publish
  <2> QED BY <1>7, <1>8, <2>1, <2>2
<1> QED BY <1>9, <1>10, <1>11

(* Whatever the step, what each caller remembers is so. *)
LEMMA CallersRemember ==
  ASSUME RowsInv, [Next]_vars
  PROVE  UNCHANGED worker \/ \E w \in Workers : \E new : Becomes(w, new)
<1>1. JobsOK' /\ RecordsKeepSuccess
  BY RowsStay
<1>2. ASSUME NEW w \in Workers, Prepare(w)
      PROVE  \E new : Becomes(w, new)
  <2>1. CASE GiveUp(w)
    BY <2>1, NothingRemembered
  <2>2. ASSUME NEW id, Prepared(w, id)
        PROVE  \E new : Becomes(w, new)
    BY <1>1, <2>2, PreparedRemember
  <2>3. CASE Existing = {}
    <3>1. PICK id : id = Len(jobs) + 1
      OBVIOUS
    <3> QED BY <1>2, <2>1, <2>2, <2>3, <3>1, PrepareAdds
  <2>4. CASE Existing # {}
    BY <1>2, <2>1, <2>2, <2>4, PrepareReuses
  <2> QED BY <2>3, <2>4
<1>3. ASSUME NEW w \in Workers,
             \/ PrepareNothing(w) \/ Finalize(w) \/ FinalizeRecovered(w)
             \/ RecordFailure(w) \/ Crash(w)
      PROVE  \E new : Becomes(w, new)
  <2>1. GiveUp(w)
    BY <1>3 DEF PrepareNothing, Finalize, FinalizeRecovered, RecordFailure, Crash
  <2> QED BY <2>1, NothingRemembered
<1>4. ASSUME NEW w \in Workers,
             \/ Scan(w) \/ Validate(w) \/ Render(w) \/ RenewBeforePublish(w) \/ Publish(w)
      PROVE  \E new : Becomes(w, new)
  BY <1>4, ScannersRemember, AttemptsRemember
<1>5. ASSUME \/ ContentChanges \/ UNCHANGED vars \/ \E id \in JobIds : Lapse(id)
      PROVE  UNCHANGED worker
  BY <1>5 DEF ContentChanges, vars, Lapse
<1> QED BY <1>2, <1>3, <1>4, <1>5 DEF Next, Attempt

(* The scalar variables. *)
LEMMA PlainTypes ==
  ASSUME RowsInv, [Next]_vars
  PROVE  snapshot' \in Sources /\ tree' \in Trees /\ fooled' \in BOOLEAN
         /\ record' \in [Sources -> RecordStatuses]
<1>1. /\ snapshot \in Sources /\ tree \in Trees /\ fooled \in BOOLEAN
      /\ record \in [Sources -> RecordStatuses]
  BY DEF RowsInv, TypeOK
<1>2. snapshot' \in Sources
  BY <1>1 DEF Next, Attempt, Scan, Validate, FinalizeRecovered, Prepare, PrepareNothing,
     Render, RenewBeforePublish, Publish, Finalize, RecordFailure, Crash, Lapse,
     ContentChanges, vars
<1>3. ASSUME NEW w \in Workers, Publish(w)
      PROVE  tree' \in Trees /\ fooled' \in BOOLEAN
  <2>1. Me(w).source \in Trees
    BY <1>3, AttemptOf DEF Publish, AttemptPoints, Trees
  <2> QED BY <1>1, <1>3, <2>1 DEF Publish
<1>4. ASSUME NEW w \in Workers, Validate(w)
      PROVE  tree' \in Trees /\ fooled' \in BOOLEAN
  BY <1>1, <1>4 DEF Validate
<1>5. tree' \in Trees /\ fooled' \in BOOLEAN
  BY <1>1, <1>3, <1>4 DEF Next, Attempt, Scan, FinalizeRecovered, Prepare, PrepareNothing,
     Render, RenewBeforePublish, Finalize, RecordFailure, Crash, Lapse, ContentChanges, vars
<1>6. record' \in [Sources -> RecordStatuses]
  <2>1. ASSUME NEW s \in Sources, NEW status \in RecordStatuses, WritesRecord(s, status)
        PROVE  record' \in [Sources -> RecordStatuses]
    BY <1>1, <2>1 DEF WritesRecord
  <2>2. ASSUME NEW id \in DOMAIN jobs, Restarts(id) \/ Fails(id) \/ Completes(id)
        PROVE  record' \in [Sources -> RecordStatuses]
    <3>1. jobs[id].source \in Sources
      BY JobsAre DEF RowsInv
    <3> QED BY <1>1, <2>1, <2>2, <3>1 DEF Restarts, Fails, Completes, RecordStatuses
  <2> QED BY <1>1, <2>1, <2>2, StepWrites DEF Keeps, Adds, RecordStatuses
<1> QED BY <1>2, <1>5, <1>6

(* Every step keeps the rows' half of the invariant. *)
LEMMA RowsInvStays ==
  ASSUME RowsInv, [Next]_vars
  PROVE  RowsInv'
<1>1. JobsOK' /\ JobsGrow /\ Places' /\ Records' /\ RecordsKeepSuccess
  BY RowsStay
<1>2. /\ worker \in [Workers -> WorkerStates]
      /\ \A w \in Workers : worker[w].job \in {NoJob} \cup DOMAIN jobs /\ Knows(worker[w])
  BY DEF RowsInv, TypeOK, MemoriesAreTrue
<1>3. ASSUME NEW v \in Workers, worker'[v] = worker[v]
      PROVE  worker'[v].job \in {NoJob} \cup DOMAIN jobs' /\ Knows(worker[v])'
  <2>1. PICK me : me = worker[v]
    OBVIOUS
  <2>2. Knows(me)'
    BY <1>1, <1>2, <2>1, TruthStays
  <2>3. me.job \in {NoJob} \cup DOMAIN jobs'
    BY <1>1, <1>2, <2>1 DEF JobsGrow
  <2> QED BY <1>3, <2>1, <2>2, <2>3 DEF Knows
<1>4. /\ worker' \in [Workers -> WorkerStates]
      /\ \A v \in Workers : worker'[v].job \in {NoJob} \cup DOMAIN jobs' /\ Knows(worker[v])'
  <2>1. CASE UNCHANGED worker
    BY <1>2, <1>3, <2>1
  <2>2. ASSUME NEW w \in Workers, NEW new, Becomes(w, new)
        PROVE  /\ worker' \in [Workers -> WorkerStates]
               /\ \A v \in Workers : /\ worker'[v].job \in {NoJob} \cup DOMAIN jobs'
                                     /\ Knows(worker[v])'
    <3>1. /\ worker' \in [Workers -> WorkerStates] /\ worker'[w] = new
          /\ \A v \in Workers : v # w => worker'[v] = worker[v]
      BY <1>2, <2>2 DEF Becomes
    <3>2. worker'[w].job \in {NoJob} \cup DOMAIN jobs' /\ Knows(worker[w])'
      BY <2>2, <3>1 DEF Becomes, Knows
    <3> QED BY <1>3, <3>1, <3>2
  <2> QED BY <2>1, <2>2, CallersRemember
<1>5. TypeOK'
  BY <1>1, <1>4, PlainTypes DEF TypeOK, JobsOK
<1>6. MemoriesAreTrue'
  BY <1>4 DEF MemoriesAreTrue
<1> QED BY <1>1, <1>5, <1>6 DEF RowsInv, JobsOK, Places, Records

--------------------------------------------------------------------------------
(* The chain, while no predecessor has come back *)

Sound == IsChain /\ FinishersAgree /\ TreeIsAccountedFor

(* What a step that finishes and publishes nothing may leave a caller with: what *)
(* it had, nothing to finish, or a child of the head whose tree is on disk.     *)
MayFinish(v) ==
  \/ worker'[v] = worker[v]
  \/ worker'[v].pc \notin {"published", "recovering"}
  \/ \E id \in DOMAIN jobs : worker'[v].job = id /\ IsChild(id) /\ tree = jobs[id].source

LEMMA SoundStays ==
  ASSUME RowsInv, Sound, ~fooled, ~fooled', AnchorsStay, UNCHANGED tree,
         \A v \in Workers : MayFinish(v)
  PROVE  Sound'
<1>1. /\ Anchors' = Anchors /\ HeadJob' = HeadJob /\ IsChain'
      /\ \A j \in DOMAIN jobs : IsChild(j)' <=> IsChild(j)
      /\ Anchors \subseteq DOMAIN jobs
      /\ \A j \in DOMAIN jobs : /\ j \in DOMAIN jobs'
                                /\ jobs'[j].source = jobs[j].source
                                /\ jobs'[j].predecessor = jobs[j].predecessor
                                /\ (jobs[j].intent => jobs'[j].intent)
                                /\ (Status(j)' = "succeeded" <=> Status(j) = "succeeded")
  BY HeadStays, JobsAre DEF RowsInv, Sound, AnchorsStay, JobsGrow
<1>2. FinishersAgree'
  <2>1. ASSUME NEW v \in Workers, worker'[v].pc \in {"published", "recovering"},
               jobs'[worker'[v].job].row.status # "succeeded"
        PROVE  IsChild(worker[v].job)' /\ tree' = jobs'[worker'[v].job].source
    <3>1. CASE worker'[v] = worker[v]
      <4>1. PICK id : id = worker[v].job
        OBVIOUS
      <4>2. id \in DOMAIN jobs
        BY <2>1, <3>1, <4>1, AttemptOf DEF AttemptPoints
      <4>3. Status(id) # "succeeded"
        BY <1>1, <2>1, <3>1, <4>1, <4>2 DEF Status
      <4>4. IsChild(id) /\ tree = jobs[id].source
        BY <2>1, <3>1, <4>1, <4>3 DEF Sound, FinishersAgree, Agrees, Me, Status
      <4>5. IsChild(id)' /\ tree' = jobs'[id].source
        BY <1>1, <4>2, <4>4
      <4> QED BY <3>1, <4>1, <4>5 DEF IsChild
    <3>2. CASE worker'[v] # worker[v]
      <4>1. PICK id \in DOMAIN jobs : worker'[v].job = id /\ IsChild(id) /\ tree = jobs[id].source
        BY <2>1, <3>2 DEF MayFinish
      <4>2. IsChild(id)' /\ tree' = jobs'[id].source
        BY <1>1, <4>1
      <4> QED BY <4>1, <4>2 DEF IsChild
    <3> QED BY <3>1, <3>2
  <2> QED BY <2>1 DEF FinishersAgree, Agrees, Me
<1>3. TreeIsAccountedFor'
  <2>1. CASE tree = TreeOf(HeadJob)
    <3>1. HeadJob \in Anchors \cup {NoJob}
      BY OneHead DEF RowsInv, Sound
    <3>2. TreeOf(HeadJob)' = TreeOf(HeadJob)
      BY <1>1, <3>1 DEF TreeOf
    <3> QED BY <2>1, <3>2 DEF TreeIsAccountedFor
  <2>2. CASE \E j \in Recoverable : tree = jobs[j].source
    <3>1. PICK j \in Recoverable : tree = jobs[j].source
      BY <2>2
    <3>2. j \in Recoverable'
      BY <1>1 DEF Recoverable, Pending, Children
    <3>3. tree' = jobs'[j].source
      BY <1>1, <3>1 DEF Recoverable, Pending, Children
    <3> QED BY <3>2, <3>3 DEF TreeIsAccountedFor
  <2> QED BY <2>1, <2>2 DEF Sound, TreeIsAccountedFor
<1> QED BY <1>1, <1>2, <1>3 DEF Sound

(* A completion: the tree says which of the head's children it was, and no other *)
(* finisher can claim the same tree for another child.                          *)
LEMMA SoundGrows ==
  ASSUME RowsInv, Sound, NEW w \in Workers, Finalize(w) \/ FinalizeRecovered(w),
         NEW id \in DOMAIN jobs, id = worker[w].job, Completes(id)
  PROVE  Sound'
<1>1. /\ worker[w].pc \in {"published", "recovering"} /\ tree' = tree
      /\ worker' = [worker EXCEPT ![w] = Idle] /\ worker \in [Workers -> WorkerStates]
  BY DEF Finalize, FinalizeRecovered, GiveUp, RowsInv, TypeOK
<1>2. IsChild(id) /\ tree = jobs[id].source
  BY <1>1 DEF Sound, FinishersAgree, Agrees, Me, Completes, Finishes, Status
<1>3. /\ IsChain' /\ HeadJob' = id
      /\ DOMAIN jobs' = DOMAIN jobs /\ NoJob \notin DOMAIN jobs
      /\ \A j \in DOMAIN jobs : jobs'[j].source = jobs[j].source
      /\ Status(id)' = "succeeded" /\ Finishes(id)
      /\ \A j \in DOMAIN jobs \ {id} : Status(j)' = Status(j)
  BY <1>2, ChainGrows, JobsAre DEF RowsInv, Sound, Completes, Finishes, JobsGrow
<1>4. TreeIsAccountedFor'
  <2>1. TreeOf(HeadJob)' = jobs'[id].source
    BY <1>3 DEF TreeOf
  <2> QED BY <1>1, <1>2, <1>3, <2>1 DEF TreeIsAccountedFor
<1>5. FinishersAgree'
  <2>1. ASSUME NEW v \in Workers, worker'[v].pc \in {"published", "recovering"},
               jobs'[worker'[v].job].row.status # "succeeded"
        PROVE  FALSE
    <3>1. worker'[v] = worker[v]
      BY <1>1, <2>1 DEF Idle
    <3>2. PICK k : k = worker[v].job
      OBVIOUS
    <3>3. k \in DOMAIN jobs
      BY <2>1, <3>1, <3>2, AttemptOf DEF AttemptPoints
    <3>4. k # id /\ Status(k) # "succeeded"
      BY <1>3, <2>1, <3>1, <3>2, <3>3 DEF Status
    <3>5. IsChild(k) /\ tree = jobs[k].source
      BY <2>1, <3>1, <3>2, <3>4 DEF Sound, FinishersAgree, Agrees, Me, Status
    <3>6. jobs[k].source = jobs[id].source /\ jobs[k].predecessor = jobs[id].predecessor
      BY <1>2, <3>5 DEF IsChild
    <3> QED BY <3>3, <3>4, <3>6 DEF RowsInv, JobsFollowAnchors
  <2> QED BY <2>1 DEF FinishersAgree, Agrees, Me
<1> QED BY <1>3, <1>4, <1>5 DEF Sound

(* A publication over the tree its render was fenced by: the Job is a child of  *)
(* the head with its intent stored, and whoever else was about to finish had    *)
(* published the same tree.                                                     *)
LEMMA SoundPublishes ==
  ASSUME RowsInv, Sound, ~fooled', NEW w \in Workers, Publish(w), tree' = Me(w).source,
         tree = worker[w].seen,
         fooled' = (fooled \/ (tree = worker[w].seen /\ ~IsChild(worker[w].job))),
         Goto(w, "published")
  PROVE  Sound'
<1>1. PICK id : id = worker[w].job
  OBVIOUS
<1>2. /\ worker[w].pc = "renewed" /\ jobs' = jobs
      /\ worker \in [Workers -> WorkerStates] /\ IsChild(id)
  BY <1>1 DEF Publish, RowsInv, TypeOK
<1>3. /\ id \in DOMAIN jobs /\ jobs[id].intent
      /\ tree \in {TreeOf(jobs[id].predecessor), jobs[id].source}
      /\ tree' = jobs[id].source
  BY <1>1, <1>2 DEF RowsInv, MemoriesAreTrue, Knows, AttemptPoints, Me
<1>4. /\ Anchors' = Anchors /\ HeadJob' = HeadJob /\ IsChain' /\ Recoverable' = Recoverable
      /\ \A j \in DOMAIN jobs : IsChild(j)' <=> IsChild(j)
  <2>1. AnchorsStay /\ UNCHANGED record
    BY <1>2 DEF AnchorsStay, JobsGrow, Status, Publish
  <2>2. /\ Anchors' = Anchors /\ HeadJob' = HeadJob /\ IsChain'
        /\ \A j \in DOMAIN jobs : IsChild(j)' <=> IsChild(j)
    BY <2>1, HeadStays DEF RowsInv, Sound
  <2>3. Recoverable' = Recoverable
    BY <1>2, <2>2 DEF Recoverable, Pending, Children
  <2> QED BY <2>2, <2>3
<1>5. id \in Recoverable
  <2>1. Children(HeadJob) \cap Anchors = {}
    BY OneHead DEF RowsInv, Sound
  <2>2. id \in Children(HeadJob)
    BY <1>2, <1>3 DEF IsChild, Children
  <2> QED BY <1>3, <2>1, <2>2 DEF Recoverable, Pending
<1>6. TreeIsAccountedFor'
  BY <1>2, <1>3, <1>4, <1>5 DEF TreeIsAccountedFor
<1>7. FinishersAgree'
  <2>1. ASSUME NEW v \in Workers, worker'[v].pc \in {"published", "recovering"},
               jobs'[worker'[v].job].row.status # "succeeded"
        PROVE  IsChild(worker[v].job)' /\ tree' = jobs'[worker'[v].job].source
    <3>1. CASE v = w
      <4>1. worker'[v].job = id
        BY <1>1, <1>2, <3>1 DEF Goto, WorkerStates
      <4>2. IsChild(id)'
        BY <1>2, <1>3, <1>4
      <4> QED BY <1>2, <1>3, <4>1, <4>2 DEF IsChild
    <3>2. CASE v # w
      <4>1. worker'[v] = worker[v]
        BY <3>2 DEF Goto
      <4>2. PICK k : k = worker[v].job
        OBVIOUS
      <4>3. k \in DOMAIN jobs
        BY <2>1, <4>1, <4>2, AttemptOf DEF AttemptPoints
      <4>4. IsChild(k) /\ tree = jobs[k].source
        BY <1>2, <2>1, <4>1, <4>2 DEF Sound, FinishersAgree, Agrees, Me
      <4>5. TreeOf(jobs[id].predecessor) # jobs[k].source
        BY <1>2, <4>3, <4>4 DEF RowsInv, JobsFollowAnchors, IsChild
      <4>6. tree' = jobs[k].source
        BY <1>3, <4>4, <4>5
      <4>7. IsChild(k)'
        BY <1>4, <4>3, <4>4
      <4> QED BY <1>2, <4>1, <4>2, <4>6, <4>7 DEF IsChild
    <3> QED BY <3>1, <3>2
  <2> QED BY <2>1 DEF FinishersAgree, Agrees, Me
<1> QED BY <1>4, <1>6, <1>7 DEF Sound

(* Every step keeps the chain's half of the invariant. *)
LEMMA ChainInvStays ==
  ASSUME EmbyInv, [Next]_vars
  PROVE  ChainInv'
<1> SUFFICES ASSUME ~fooled' PROVE Sound'
  BY DEF ChainInv, Sound
<1>1. fooled \in BOOLEAN /\ worker \in [Workers -> WorkerStates] /\ RowsInv
  BY DEF EmbyInv, RowsInv, TypeOK
<1>2. ~fooled
  BY <1>1 DEF Next, Attempt, Scan, Validate, FinalizeRecovered, Prepare, PrepareNothing, Render,
     RenewBeforePublish, Publish, Finalize, RecordFailure, Crash, Lapse, ContentChanges, vars
<1>3. Sound
  BY <1>2 DEF EmbyInv, ChainInv, Sound
<1>4. ASSUME AnchorsStay, UNCHANGED tree, \A v \in Workers : MayFinish(v)
      PROVE  Sound'
  BY <1>1, <1>2, <1>3, <1>4, SoundStays
<1>5. ASSUME NEW w \in Workers, GiveUp(w), NEW v \in Workers
      PROVE  MayFinish(v)
  BY <1>1, <1>5 DEF GiveUp, MayFinish, Idle
<1>6. UNCHANGED <<jobs, record>> => AnchorsStay
  BY <1>1, NothingPut, UnfinishedSteps
<1>7. ASSUME NEW w \in Workers, Prepare(w)
      PROVE  Sound'
  <2>1. UNCHANGED tree
    BY <1>7 DEF Prepare
  <2>2. ASSUME NEW id, Prepared(w, id), NEW v \in Workers
        PROVE  MayFinish(v)
    BY <1>1, <2>2 DEF Prepared, MayFinish, Idle
  <2>3. CASE Existing = {}
    <3>1. PICK id : id = Len(jobs) + 1
      OBVIOUS
    <3>2. AnchorsStay /\ (Prepared(w, id) \/ GiveUp(w))
      BY <1>1, <1>6, <1>7, <2>3, <3>1, PrepareAdds, UnfinishedSteps
    <3> QED BY <1>4, <1>5, <2>1, <2>2, <3>2
  <2>4. CASE Existing # {}
    <3>1. Existing \subseteq DOMAIN jobs
      BY DEF Existing
    <3>2. AnchorsStay /\ (GiveUp(w) \/ \E id : Prepared(w, id))
      BY <1>1, <1>6, <1>7, <2>4, <3>1, PrepareReuses, UnfinishedSteps
    <3> QED BY <1>4, <1>5, <2>1, <2>2, <3>2
  <2> QED BY <2>3, <2>4
<1>8. ASSUME NEW w \in Workers, Finalize(w) \/ FinalizeRecovered(w)
      PROVE  Sound'
  <2>1. GiveUp(w) /\ UNCHANGED tree
    BY <1>8 DEF Finalize, FinalizeRecovered
  <2>2. CASE UNCHANGED <<jobs, record>>
    BY <1>4, <1>5, <1>6, <2>1, <2>2
  <2>3. CASE \E id \in DOMAIN jobs : id = worker[w].job /\ Completes(id)
    BY <1>1, <1>3, <1>8, <2>3, SoundGrows
  <2> QED BY <1>1, <1>8, <2>2, <2>3, FinishWrites
<1>9. ASSUME NEW w \in Workers, RecordFailure(w)
      PROVE  Sound'
  <2>1. GiveUp(w) /\ UNCHANGED tree
    BY <1>9 DEF RecordFailure
  <2>2. AnchorsStay
    BY <1>1, <1>6, <1>9, FailureWrites, UnfinishedSteps
  <2> QED BY <1>4, <1>5, <2>1, <2>2
<1>10. ASSUME NEW w \in Workers, Scan(w) \/ Render(w) \/ RenewBeforePublish(w) \/ PrepareNothing(w)
                                 \/ Crash(w)
       PROVE  Sound'
  <2>1. UNCHANGED tree
    BY <1>10 DEF Scan, Render, RenewBeforePublish, PrepareNothing, Crash
  <2>2. AnchorsStay
    BY <1>1, <1>10, RenewWrites, QuietWrites, UnfinishedSteps DEF Quiet
  <2>3. ASSUME NEW v \in Workers
        PROVE  MayFinish(v)
    <3>1. CASE v = w
      <4>1. CASE Scan(w)
        BY <1>1, <3>1, <4>1 DEF Scan, Idle, MayFinish
      <4>2. CASE Render(w)
        BY <1>1, <3>1, <4>2 DEF Render, MayFinish, WorkerStates
      <4>3. CASE RenewBeforePublish(w)
        <5>1. GiveUp(w) \/ Goto(w, "renewed")
          BY <4>3 DEF RenewBeforePublish
        <5>2. Goto(w, "renewed") => worker'[w].pc = "renewed"
          BY <1>1 DEF Goto, WorkerStates
        <5> QED BY <1>5, <3>1, <5>1, <5>2 DEF MayFinish
      <4>4. CASE PrepareNothing(w) \/ Crash(w)
        BY <1>5, <4>4 DEF PrepareNothing, Crash
      <4> QED BY <1>10, <4>1, <4>2, <4>3, <4>4
    <3>2. CASE v # w
      <4>1. Goto(w, "renewed") => worker'[v] = worker[v]
        BY <3>2 DEF Goto
      <4>2. GiveUp(w) => worker'[v] = worker[v]
        BY <3>2 DEF GiveUp
      <4>3. CASE Scan(w)
        BY <3>2, <4>3 DEF Scan, MayFinish
      <4>4. CASE Render(w)
        <5>1. worker'[v] = worker[v]
          BY <1>1, <3>2, <4>4 DEF Render
        <5> QED BY <5>1 DEF MayFinish
      <4>5. CASE RenewBeforePublish(w) \/ PrepareNothing(w) \/ Crash(w)
        BY <4>1, <4>2, <4>5 DEF RenewBeforePublish, PrepareNothing, Crash, MayFinish
      <4> QED BY <1>10, <4>3, <4>4, <4>5
    <3> QED BY <3>1, <3>2
  <2> QED BY <1>4, <2>1, <2>2, <2>3
<1>11. ASSUME NEW w \in Workers, Validate(w)
       PROVE  Sound'
  <2>1. UNCHANGED <<tree, jobs, record>>
    BY <1>11 DEF Validate
  <2>2. ASSUME NEW v \in Workers
        PROVE  MayFinish(v)
    <3>1. CASE worker' = [worker EXCEPT ![w] = [Idle EXCEPT !.pc = "preparing"]]
      BY <1>1, <3>1 DEF MayFinish, Idle
    <3>2. CASE \E id \in {j \in worker[w].candidates : jobs[j].source = tree} :
                 /\ worker' = [worker EXCEPT ![w] = [Idle EXCEPT !.pc = "recovering", !.job = id]]
                 /\ fooled' = (fooled \/ (jobs[id].source = tree /\ ~IsChild(id)))
      <4>1. worker[w].candidates \subseteq DOMAIN jobs
        BY <1>1 DEF RowsInv, MemoriesAreTrue, Knows
      <4>2. PICK id \in DOMAIN jobs :
              /\ worker' = [worker EXCEPT ![w] = [Idle EXCEPT !.pc = "recovering", !.job = id]]
              /\ tree = jobs[id].source /\ IsChild(id)
        BY <3>2, <4>1
      <4> QED BY <1>1, <4>2 DEF MayFinish, Idle
    <3> QED BY <1>11, <3>1, <3>2 DEF Validate
  <2> QED BY <1>4, <1>6, <2>1, <2>2
<1>12. ASSUME NEW w \in Workers, Publish(w)
       PROVE  Sound'
  <2>1. UNCHANGED <<jobs, record>>
    BY <1>12 DEF Publish
  <2>2. CASE /\ tree = worker[w].seen /\ tree' = Me(w).source
             /\ fooled' = (fooled \/ (tree = worker[w].seen /\ ~IsChild(worker[w].job)))
             /\ Goto(w, "published")
    BY <1>1, <1>3, <1>12, <2>2, SoundPublishes
  <2>3. ASSUME NEW retryable \in BOOLEAN, UNCHANGED tree,
               worker' = [worker EXCEPT ![w].pc = "failing", ![w].retryable = retryable]
        PROVE  Sound'
    <3>1. ASSUME NEW v \in Workers
          PROVE  MayFinish(v)
      <4>1. CASE v = w
        BY <1>1, <2>3, <4>1 DEF MayFinish, WorkerStates
      <4>2. CASE v # w
        BY <1>1, <2>3, <4>2 DEF MayFinish
      <4> QED BY <4>1, <4>2
    <3> QED BY <1>4, <1>6, <2>1, <2>3, <3>1
  <2> QED BY <1>12, <2>2, <2>3 DEF Publish
<1>13. ASSUME NEW id \in JobIds, Lapse(id)
       PROVE  Sound'
  <2>1. UNCHANGED <<tree, worker>>
    BY <1>13 DEF Lapse
  <2>2. AnchorsStay
    BY <1>1, <1>13, LeaseWrites, UnfinishedSteps DEF Lapse
  <2> QED BY <1>4, <2>1, <2>2 DEF MayFinish
<1>14. ASSUME ContentChanges \/ UNCHANGED vars
       PROVE  Sound'
  <2>1. UNCHANGED <<jobs, record, tree, worker>>
    BY <1>14 DEF ContentChanges, vars
  <2> QED BY <1>4, <1>6, <2>1 DEF MayFinish
<1> QED BY <1>7, <1>8, <1>9, <1>10, <1>11, <1>12, <1>13, <1>14 DEF Next, Attempt

--------------------------------------------------------------------------------
(* The theorems *)

LEMMA EmbyInit ==
  ASSUME Init
  PROVE  EmbyInv
<1>1. /\ jobs = <<>> /\ DOMAIN jobs = {} /\ Len(jobs) = 0 /\ jobs \in Seq(ExportJobs)
      /\ Anchors = {} /\ HeadJob = NoJob
      /\ record = [s \in Sources |-> "pending"] /\ worker = [w \in Workers |-> Idle]
      /\ snapshot \in Sources /\ tree = NoTree /\ ~fooled /\ fooled \in BOOLEAN
  <2>1. jobs = <<>> /\ DOMAIN jobs = {} /\ Len(jobs) = 0 /\ jobs \in Seq(ExportJobs)
    BY DEF Init
  <2>2. Anchors = {}
    BY <2>1 DEF Anchors
  <2>3. HeadJob = NoJob
    BY <2>2 DEF HeadJob
  <2> QED BY <2>1, <2>2, <2>3 DEF Init
<1>2. Idle \in WorkerStates /\ Idle.pc = "idle" /\ Idle.job = NoJob /\ Idle.candidates = {}
  BY DEF Idle, WorkerStates, Points, Trees
<1>3. TypeOK
  <2>1. Len(jobs) <= MaxJobs
    BY <1>1, PublicationAssumption DEF PublicationAssumption
  <2>2. record \in [Sources -> RecordStatuses]
    BY <1>1 DEF RecordStatuses
  <2>3. tree \in Trees
    BY <1>1 DEF Trees
  <2> QED BY <1>1, <1>2, <2>1, <2>2, <2>3 DEF TypeOK
<1>4. RowsAreSettled /\ JobsFollowAnchors /\ OlderJobsAreSuperseded
  BY <1>1 DEF RowsAreSettled, JobsFollowAnchors, OlderJobsAreSuperseded
<1>5. RecordsFollowJobs /\ RecordsTellTheChain
  BY <1>1 DEF RecordsFollowJobs, RecordsTellTheChain
<1>6. MemoriesAreTrue
  BY <1>1, <1>2 DEF MemoriesAreTrue, Knows, AttemptPoints
<1>7. IsChain /\ FinishersAgree /\ TreeIsAccountedFor
  BY <1>1, <1>2 DEF IsChain, FinishersAgree, Agrees, TreeIsAccountedFor, TreeOf
<1> QED BY <1>3, <1>4, <1>5, <1>6, <1>7 DEF EmbyInv, RowsInv, ChainInv

(* Every state the exports of an author reach satisfies the inductive invariant, *)
(* the types included: the Jobs' places after their predecessors, the records'  *)
(* agreement with the Jobs, what a caller remembers over its own transactions,  *)
(* and the agreement of whoever is about to finish with the tree on disk.       *)
THEOREM ExportsAgree == Spec => []EmbyInv
<1>1. Init => EmbyInv
  BY EmbyInit
<1>2. EmbyInv /\ [Next]_vars => EmbyInv'
  BY RowsInvStays, ChainInvStays DEF EmbyInv
<1> QED BY <1>1, <1>2, PTL DEF Spec

(* The successful export.emby Jobs form one chain as long as no tree went away  *)
(* and came back between a caller's look at it and its use                      *)
(* (_resolve_publication_head, docs/architecture.md:239).                       *)
THEOREM SuccessesFormAChain == Spec => []ForkNeedsReturnedTree
<1>1. EmbyInv => ForkNeedsReturnedTree
  BY DEF EmbyInv, ChainInv, ForkNeedsReturnedTree
<1> QED BY <1>1, ExportsAgree, PTL

(* The published tree is the head's, or that of a direct child of the head with *)
(* its intent in the database, which the recovery scan of the next export finds *)
(* (_recover_published_predecessor).                                            *)
THEOREM TheTreeIsAccountedFor == Spec => []TreeIsAccountedFor
<1>1. EmbyInv => TreeIsAccountedFor
  BY DEF EmbyInv, ChainInv, TreeIsAccountedFor
<1> QED BY <1>1, ExportsAgree, PTL

(* The ExportRecords of a source have succeeded exactly when one of its Jobs    *)
(* has, in every interleaving of finishes, recoveries, failures and reclaims.   *)
THEOREM TheRecordsTellTheChain == Spec => []RecordsTellTheChain
<1>1. EmbyInv => RecordsTellTheChain
  BY DEF EmbyInv, RowsInv
<1> QED BY <1>1, ExportsAgree, PTL

(* A running ExportRecord belongs to exactly one running Job of its source      *)
(* (ExportRecordRepository.begin refuses a second).                             *)
THEOREM ARunningRecordHasItsJob == Spec => []RunningRecordHasItsJob
<1>1. ASSUME EmbyInv
      PROVE  RunningRecordHasItsJob
  <2> SUFFICES ASSUME NEW s \in Sources, record[s] = "running"
               PROVE  Cardinality({j \in DOMAIN jobs :
                        jobs[j].source = s /\ jobs[j].row.status = "running"}) = 1
    BY DEF RunningRecordHasItsJob
  <2> DEFINE mine == {j \in DOMAIN jobs : jobs[j].source = s /\ jobs[j].row.status = "running"}
  <2>1. \A j \in DOMAIN jobs : j \in Nat
    BY <1>1, JobsAre DEF EmbyInv, RowsInv
  <2>2. \A j \in mine : LatestOf(j)
    BY <1>1 DEF EmbyInv, RowsInv, RecordsFollowJobs, Running, RecordOf
  <2>3. PICK j \in mine : TRUE
    BY <1>1 DEF EmbyInv, RowsInv, RecordsFollowJobs, Running
  <2>4. ASSUME NEW i \in mine
        PROVE  i = j
    <3>1. i <= j /\ j <= i
      BY <2>2, <2>3 DEF LatestOf
    <3> QED BY <2>1, <2>3, <3>1
  <2>5. mine = {j}
    BY <2>3, <2>4
  <2> HIDE DEF mine
  <2>6. Cardinality(mine) = 1
    BY <2>5, FS_Singleton
  <2> QED BY <2>6 DEF mine
<1> QED BY <1>1, ExportsAgree, PTL
================================================================================
