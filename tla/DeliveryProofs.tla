---------------------------- MODULE DeliveryProofs ----------------------------
(* Proofs about Delivery for every number of cycles, attempts, workers and      *)
(* contents, and for every number of checkouts, revisions and policies, and of  *)
(* changes from any of them to any other.                                       *)
EXTENDS Delivery, TLAPS

--------------------------------------------------------------------------------
(* Shapes *)

Subs == [removed : BOOLEAN, ckpt : Nat, rev : 0..MaxCycles, cursor : Cursors,
         from : Sources, source : Sources, auth : Auths, binds : BOOLEAN,
         others : Nat]

ProgressRows == [phase : Phases, source : Sources, auth : Auths, ckpt : Nat,
                 rev : 0..(MaxCycles + 1), ended : BOOLEAN,
                 last : {NoCycle} \cup Cycles, counted : SUBSET Cycles]

CycleRows == [status : {"none", "active", "succeeded", "ended"},
              unbound : BOOLEAN, before : Nat, source : Sources,
              auth : Auths, lane : {"head", "history"}, end : BOOLEAN,
              seen : SUBSET Contents]

Minds == [pc : Points, job : {NoCycle} \cup Cycles, token : Tokens \cup {NoToken},
          seen : SUBSET Contents, selected : SUBSET Contents, done : SUBSET Contents,
          failed : SUBSET Contents, replaced : SUBSET Contents, retryable : BOOLEAN]

(* The type invariant by the names above.                                       *)
LEMMA Shapes ==
  TypeOK <=> /\ sub \in Subs /\ progress \in ProgressRows
             /\ cycle \in [Cycles -> CycleRows] /\ job \in [Cycles -> JobRows]
             /\ known \subseteq Contents /\ verified \subseteq Contents
             /\ worker \in [Workers -> Minds]
BY DEF TypeOK, Subs, ProgressRows, CycleRows, Minds

(* ... and of the next state.                                                   *)
LEMMA ShapesNext ==
  TypeOK' <=> /\ sub' \in Subs /\ progress' \in ProgressRows
              /\ cycle' \in [Cycles -> CycleRows] /\ job' \in [Cycles -> JobRows]
              /\ known' \subseteq Contents /\ verified' \subseteq Contents
              /\ worker' \in [Workers -> Minds]
BY DEF TypeOK, Subs, ProgressRows, CycleRows, Minds

(* There is a checkout and there is an account revision to begin with.          *)
LEMMA FirstFacts == FirstSource \in Sources /\ FirstAuth \in Auths
BY DeliveryAssumption DEF FirstSource, FirstAuth, DeliveryAssumption

--------------------------------------------------------------------------------
(* The operators *)

AliveStatuses == {"queued", "claimed", "running", "failed_retryable"}

Bare(row) == row.lease = "none" /\ row.token = NoToken

(* Every write of a Job row by this module: what it needs, and what it leaves.  *)
LEMMA JobWrites ==
  ASSUME NEW row \in JobRows, row.status \notin AliveStatuses => Bare(row)
  PROVE  /\ \A t \in Tokens : Claimable(row) =>
              /\ row.status \in AliveStatuses
              /\ Kept(Claimed(row, t)) \in JobRows /\ Kept(Claimed(row, t)).status = "claimed"
         /\ Expired(row) =>
              /\ row.status \in AliveStatuses
              /\ Kept(Reclaimed(row)) \in JobRows
              /\ Kept(Reclaimed(row)).status \in {"failed_retryable", "failed_terminal"}
              /\ Bare(Kept(Reclaimed(row)))
         /\ \A t \in Tokens : Owns(row, t) =>
              /\ row.status \in AliveStatuses
              /\ Kept(Renewed(Started(row))) \in JobRows
              /\ Kept(Renewed(Started(row))).status = "running"
              /\ Kept(Completed(row)) \in JobRows
              /\ Kept(Completed(row)).status = "succeeded"
              /\ Bare(Kept(Completed(row)))
              /\ \A b \in BOOLEAN :
                   /\ Kept(Failed(row, b)) \in JobRows
                   /\ Failed(row, b).status \in {"failed_retryable", "failed_terminal"}
                   /\ Kept(Failed(row, b)).status = Failed(row, b).status
                   /\ Bare(Kept(Failed(row, b)))
         /\ row.lease = "live" =>
              /\ row.status \in AliveStatuses
              /\ Kept(Lapsed(row)) \in JobRows /\ Kept(Lapsed(row)).status = row.status
         /\ row.status \in AliveStatuses =>
              /\ Kept(Unleased(row, "failed_terminal")) \in JobRows
              /\ Kept(Unleased(row, "failed_terminal")).status = "failed_terminal"
              /\ Bare(Kept(Unleased(row, "failed_terminal")))
<1> USE JobAssumption DEF JobAssumption, JobRows, JobStatuses, JobErrors, AliveStatuses, Bare
<1>1. ASSUME NEW t \in Tokens, Claimable(row)
      PROVE  /\ row.status \in AliveStatuses
             /\ Kept(Claimed(row, t)) \in JobRows /\ Kept(Claimed(row, t)).status = "claimed"
  <2> DEFINE r == Reclaimed(row)
  <2>0. r \in JobRows /\ r.attempts = row.attempts
    BY DEF Reclaimed, Unleased
  <2>1. r \in JobRows /\ r.attempts + 1 \in 0..MaxAttempts
    <3>1. row.attempts \in 0..MaxAttempts /\ row.attempts < MaxAttempts
      BY <1>1 DEF Claimable
    <3> QED BY <2>0, <3>1
  <2>2. row.status \in AliveStatuses
    BY <1>1 DEF Claimable, Reclaimed, Expired
  <2> HIDE DEF r
  <2>3. [[r EXCEPT !.lease = "live", !.token = t] EXCEPT !.status = "claimed", !.attempts = @ + 1]
          \in JobRows
    BY <2>1
  <2>4. Claimed(row, t) \in JobRows /\ Claimed(row, t).status = "claimed"
    BY <2>1, <2>3 DEF Claimed, Leased, r
  <2> QED BY <2>2, <2>4 DEF Kept
<1>2. ASSUME Expired(row)
      PROVE  /\ row.status \in AliveStatuses
             /\ Kept(Reclaimed(row)) \in JobRows
             /\ Kept(Reclaimed(row)).status \in {"failed_retryable", "failed_terminal"}
             /\ Bare(Kept(Reclaimed(row)))
  <2>1. row.status \in AliveStatuses
    BY <1>2 DEF Expired
  <2>2. /\ Reclaimed(row) \in JobRows
        /\ Reclaimed(row).status \in {"failed_retryable", "failed_terminal"}
        /\ Bare(Reclaimed(row))
    BY <1>2 DEF Reclaimed, Unleased
  <2> QED BY <2>1, <2>2 DEF Kept, NoJobRow
<1>3. ASSUME NEW t \in Tokens, Owns(row, t)
      PROVE  /\ row.status \in AliveStatuses
             /\ Kept(Renewed(Started(row))) \in JobRows
             /\ Kept(Renewed(Started(row))).status = "running"
             /\ Kept(Completed(row)) \in JobRows
             /\ Kept(Completed(row)).status = "succeeded"
             /\ Bare(Kept(Completed(row)))
             /\ \A b \in BOOLEAN :
                  /\ Kept(Failed(row, b)) \in JobRows
                  /\ Failed(row, b).status \in {"failed_retryable", "failed_terminal"}
                  /\ Kept(Failed(row, b)).status = Failed(row, b).status
                  /\ Bare(Kept(Failed(row, b)))
  <2>1. row.status \in AliveStatuses
    BY <1>3 DEF Owns
  <2>2. /\ Kept(Renewed(Started(row))) \in JobRows
        /\ Kept(Renewed(Started(row))).status = "running"
    BY DEF Renewed, Started, Kept
  <2>3. /\ Kept(Completed(row)) \in JobRows
        /\ Kept(Completed(row)).status = "succeeded"
        /\ Bare(Kept(Completed(row)))
    BY DEF Completed, Unleased, Kept, NoJobRow
  <2>4. ASSUME NEW b \in BOOLEAN
        PROVE  /\ Kept(Failed(row, b)) \in JobRows
               /\ Failed(row, b).status \in {"failed_retryable", "failed_terminal"}
               /\ Kept(Failed(row, b)).status = Failed(row, b).status
               /\ Bare(Kept(Failed(row, b)))
    <3>1. /\ Failed(row, b) \in JobRows /\ Bare(Failed(row, b))
          /\ Failed(row, b).status \in {"failed_retryable", "failed_terminal"}
      BY DEF Failed, Unleased
    <3> QED BY <3>1 DEF Kept, NoJobRow
  <2> QED BY <2>1, <2>2, <2>3, <2>4
<1>4. row.lease = "live" =>
        /\ row.status \in AliveStatuses
        /\ Kept(Lapsed(row)) \in JobRows /\ Kept(Lapsed(row)).status = row.status
  BY DEF Lapsed, Kept
<1>5. row.status \in AliveStatuses =>
        /\ Kept(Unleased(row, "failed_terminal")) \in JobRows
        /\ Kept(Unleased(row, "failed_terminal")).status = "failed_terminal"
        /\ Bare(Kept(Unleased(row, "failed_terminal")))
  BY DEF Unleased, Kept, NoJobRow
<1> QED BY <1>1, <1>2, <1>3, <1>4, <1>5

(* What a rewritten cursor and a stored checkpoint leave of the subscription.   *)
SameBut(s, t) ==
  /\ t.source = s.source /\ t.auth = s.auth /\ t.binds = s.binds
  /\ t.removed = s.removed /\ t.rev = s.rev

(* A subscription whose cursor is rewritten keeps the rest but for its          *)
(* checkpoint, which may advance.                                               *)
LEMMA MovedFacts ==
  ASSUME NEW s \in Subs, NEW cursor \in Cursors
  PROVE  /\ Moved(s, cursor) \in Subs /\ SameBut(s, Moved(s, cursor))
         /\ Moved(s, cursor).ckpt >= s.ckpt
<1> DEFINE c == [s EXCEPT !.cursor = cursor]
           m == [c EXCEPT !.ckpt = s.ckpt + 1]
<1>1. s.ckpt \in Nat /\ s.ckpt >= s.ckpt
  BY DEF Subs
<1>2. c \in Subs /\ SameBut(s, c)
  BY DEF Subs, SameBut
<1>3. Moved(s, cursor) = s \/ Moved(s, cursor) = m
  <2>1. s.ckpt = c.ckpt
    BY DEF Subs
  <2> QED BY <2>1 DEF Moved
<1> HIDE DEF c
<1>4. m \in Subs /\ SameBut(s, m) /\ m.ckpt = s.ckpt + 1
  BY <1>1, <1>2 DEF Subs, SameBut
<1> HIDE DEF m
<1> QED BY <1>1, <1>3, <1>4 DEF SameBut

HasEnd(r) == r.phase \in {"reconciling", "incremental"} \/ r.ended

(* A row that owes what it tells of the past to the row r.                      *)
Descends(row, r) ==
  /\ row.phase \in {"backfill", "reconciling"}
  /\ \/ row.last = NoCycle /\ row.counted = {}
     \/ /\ row.last = r.last /\ row.counted = r.counted
        /\ row.source = r.source /\ row.auth = r.auth
  /\ HasEnd(row) => HasEnd(r) /\ row.source = r.source

(* ensure_for_materialization either leaves everything, or leaves a row that is *)
(* up to date with the subscription, and descends from the row there was.       *)
LEMMA EnsuredFacts ==
  ASSUME NEW s \in Subs, NEW r \in ProgressRows, NEW resume \in BOOLEAN
  PROVE  LET e == Ensured(s, r, resume) IN
         /\ e.sub \in Subs /\ e.row \in ProgressRows
         /\ SameBut(s, e.sub) /\ e.sub.ckpt >= s.ckpt
         /\ \/ e.sub = s /\ e.row = r
            \/ e.row.ckpt = e.sub.ckpt /\ e.row.rev = s.rev + 1 /\ Descends(e.row, r)
<1> DEFINE e == Ensured(s, r, resume)
<1>0. s.rev + 1 \in 0..(MaxCycles + 1) /\ s.ckpt \in Nat /\ s.ckpt >= s.ckpt /\ SameBut(s, s)
  BY DeliveryAssumption DEF Subs, SameBut, DeliveryAssumption
<1>1. ASSUME NEW phase \in Phases, NEW t \in Subs, SameBut(s, t)
      PROVE  /\ Fresh(t, phase) \in ProgressRows
             /\ Fresh(t, phase).phase = phase /\ Fresh(t, phase).source = s.source
             /\ Fresh(t, phase).auth = s.auth /\ Fresh(t, phase).ckpt = t.ckpt
             /\ Fresh(t, phase).rev = s.rev + 1
             /\ Fresh(t, phase).last = NoCycle /\ Fresh(t, phase).counted = {}
             /\ HasEnd(Fresh(t, phase)) => phase \in {"reconciling", "incremental"}
  <2> DEFINE f == Fresh(t, phase)
  <2>1. t.rev = s.rev /\ t.source = s.source /\ t.auth = s.auth /\ t.ckpt \in Nat
        /\ t.source \in Sources /\ t.auth \in Auths
    BY <1>1 DEF SameBut, Subs
  <2>2. f = [phase |-> phase, source |-> t.source, auth |-> t.auth, ckpt |-> t.ckpt,
             rev |-> t.rev + 1, ended |-> FALSE, last |-> NoCycle, counted |-> {}]
    BY DEF Fresh
  <2> HIDE DEF f
  <2>3. f \in ProgressRows
    BY <1>0, <2>1, <2>2 DEF ProgressRows
  <2> QED BY <2>1, <2>2, <2>3 DEF HasEnd, f
<1>2. CASE ~s.binds
  BY <1>0, <1>2 DEF Ensured
<1>3. CASE s.binds /\ r.phase = "absent"
  <2>1. e.sub = s /\ e.row = Fresh(s, "backfill")
    BY <1>3 DEF Ensured
  <2>2. "backfill" \in Phases
    BY DEF Phases
  <2> HIDE DEF e
  <2> QED BY <1>0, <1>1, <2>1, <2>2 DEF Descends, e
<1>4. CASE s.binds /\ r.phase # "absent" /\ ~BoundTo(r, s)
  <2> DEFINE preserve == /\ r.source = s.source /\ (r.phase = "incremental" \/ r.ended)
                         /\ s.cursor # "none" /\ s.from = s.source
             cursor == IF preserve THEN "fresh" ELSE "none"
             phase  == IF preserve THEN "reconciling" ELSE "backfill"
  <2>1. cursor \in Cursors /\ phase \in Phases /\ phase \in {"backfill", "reconciling"}
    BY DEF Cursors, Phases
  <2>4. phase \in {"reconciling", "incremental"} => HasEnd(r) /\ r.source = s.source
    BY DEF HasEnd
  <2>2. e = [sub |-> Moved(s, cursor), row |-> Fresh(Moved(s, cursor), phase)]
    BY <1>4 DEF Ensured, Rebound
  <2> HIDE DEF cursor, phase
  <2>3. e.sub = Moved(s, cursor) /\ e.row = Fresh(Moved(s, cursor), phase)
    BY <2>2
  <2> HIDE DEF e
  <2>5. e.sub \in Subs /\ SameBut(s, e.sub) /\ e.sub.ckpt >= s.ckpt
    BY <2>1, <2>3, MovedFacts
  <2>6. /\ e.row \in ProgressRows /\ e.row.ckpt = e.sub.ckpt /\ e.row.source = s.source
        /\ e.row.rev = s.rev + 1 /\ e.row.phase = phase
        /\ e.row.last = NoCycle /\ e.row.counted = {}
        /\ HasEnd(e.row) => phase \in {"reconciling", "incremental"}
    BY <1>1, <2>1, <2>3, <2>5
  <2> QED BY <2>1, <2>4, <2>5, <2>6 DEF Descends, e
<1>5. CASE s.binds /\ r.phase # "absent" /\ BoundTo(r, s) /\ r.phase = "blocked" /\ resume
  <2> DEFINE phase == IF r.ended THEN "reconciling" ELSE "backfill"
             p == [r EXCEPT !.phase = phase]
             q == [p EXCEPT !.ckpt = s.ckpt]
  <2>1. e.sub = s /\ e.row = [q EXCEPT !.rev = s.rev + 1]
    BY <1>5 DEF Ensured, Unblocked
  <2>2. phase \in {"backfill", "reconciling"} /\ phase \in Phases
        /\ (phase = "reconciling" => r.ended)
    BY DEF Phases
  <2> HIDE DEF phase, e
  <2>3. /\ p \in ProgressRows /\ p.phase = phase /\ p.source = r.source
        /\ p.auth = r.auth /\ p.last = r.last /\ p.ended = r.ended
        /\ p.counted = r.counted
    BY <2>2 DEF ProgressRows
  <2> HIDE DEF p
  <2>4. /\ q \in ProgressRows /\ q.phase = phase /\ q.source = r.source
        /\ q.auth = r.auth /\ q.last = r.last /\ q.ended = r.ended
        /\ q.counted = r.counted /\ q.ckpt = s.ckpt
    BY <1>0, <2>3 DEF ProgressRows
  <2> HIDE DEF q
  <2>5. /\ e.row \in ProgressRows /\ e.row.phase = phase /\ e.row.ckpt = s.ckpt
        /\ e.row.source = r.source /\ e.row.auth = r.auth /\ e.row.last = r.last
        /\ e.row.ended = r.ended /\ e.row.counted = r.counted /\ e.row.rev = s.rev + 1
    BY <1>0, <2>1, <2>4 DEF ProgressRows
  <2>6. HasEnd(e.row) => HasEnd(r)
    BY <2>2, <2>5 DEF HasEnd
  <2> QED BY <1>0, <2>1, <2>2, <2>5, <2>6 DEF Descends, e
<1>6. CASE s.binds /\ r.phase # "absent" /\ BoundTo(r, s) /\ ~(r.phase = "blocked" /\ resume)
  BY <1>0, <1>6 DEF Ensured
<1> QED BY <1>2, <1>3, <1>4, <1>5, <1>6

(* publish_success, where the evidence holds, brings the row up to date.        *)
LEMMA AdvancedFacts ==
  ASSUME NEW s \in Subs, NEW r \in ProgressRows, cycle \in [Cycles -> CycleRows],
         NEW n \in Cycles
  PROVE  LET a == Advanced(n, s, r) IN
         /\ a.sub \in Subs /\ a.row \in ProgressRows
         /\ SameBut(s, a.sub) /\ a.sub.ckpt >= s.ckpt
         /\ a.row.source = r.source /\ a.row.auth = r.auth
         /\ a.row.ckpt = a.sub.ckpt /\ a.row.last = n /\ a.row.rev = n
         /\ a.row.counted = r.counted \cup {n}
         /\ a.row.phase = PhaseAfter(cycle[n], r.phase)
         /\ a.row.ended = (r.ended \/ Sealed(cycle[n]))
<1> DEFINE c == cycle[n]
           phase == PhaseAfter(c, r.phase)
           cursor == IF Sealed(c) THEN "fresh"
                     ELSE IF phase \in {"reconciling", "incremental"} /\ s.cursor = "history"
                       THEN "head" ELSE s.cursor
           ended == r.ended \/ Sealed(c)
           m == Moved(s, cursor)
           a == Advanced(n, s, r)
<1>1. /\ c \in CycleRows /\ phase \in Phases /\ ended \in BOOLEAN
      /\ n \in 0..(MaxCycles + 1) /\ r.counted \cup {n} \in SUBSET Cycles
  BY DeliveryAssumption
     DEF PhaseAfter, Sealed, Phases, CycleRows, ProgressRows, Cycles, DeliveryAssumption
<1>2. cursor \in Cursors
  BY DEF Cursors, Subs
<1>3. a = [sub |-> m,
           row |-> [r EXCEPT !.phase = phase, !.ckpt = m.ckpt, !.rev = n, !.last = n,
                             !.ended = ended, !.counted = r.counted \cup {n}]]
  BY DEF Advanced
<1>4. m \in Subs /\ SameBut(s, m) /\ m.ckpt >= s.ckpt
  BY <1>2, MovedFacts
<1>5. m.ckpt \in Nat
  BY <1>4 DEF Subs
<1>6. PhaseAfter(cycle[n], r.phase) = phase /\ (r.ended \/ Sealed(cycle[n])) = ended
  BY Zenon
<1> HIDE DEF phase, cursor, ended, c, m, a
<1>7. /\ a.sub = m
      /\ a.row = [phase |-> phase, source |-> r.source, auth |-> r.auth, ckpt |-> m.ckpt,
                  rev |-> n, ended |-> ended, last |-> n, counted |-> r.counted \cup {n}]
  BY <1>3 DEF ProgressRows
<1>8. r.source \in Sources /\ r.auth \in Auths
  BY DEF ProgressRows
<1> DEFINE q == a.row
<1>9. /\ q \in ProgressRows
      /\ q.source = r.source /\ q.auth = r.auth /\ q.ckpt = m.ckpt /\ q.last = n
      /\ q.rev = n /\ q.counted = r.counted \cup {n}
      /\ q.phase = phase /\ q.ended = ended
  BY <1>1, <1>5, <1>7, <1>8 DEF ProgressRows
<1> HIDE DEF q
<1>10. a.row = q /\ a.sub = m
  BY <1>7 DEF q
<1> QED BY <1>4, <1>6, <1>9, <1>10 DEF a

--------------------------------------------------------------------------------
(* The rows and the minds *)

RowsAreBare == \A n \in Cycles : job[n].status \notin AliveStatuses => Bare(job[n])

BusyWorkers ==
  \A w \in Workers :
    worker[w].pc # "idle" => worker[w].job \in Cycles /\ worker[w].token \in Tokens

Rows == TypeOK /\ RowsAreBare /\ BusyWorkers

(* One Job is written, the others are left alone.                               *)
LEMMA SetJobFacts ==
  ASSUME Rows, NEW n \in Cycles, NEW row, SetJob(n, row), Kept(row) \in JobRows,
         Kept(row).status \notin AliveStatuses => Bare(Kept(row))
  PROVE  /\ job' \in [Cycles -> JobRows] /\ RowsAreBare'
         /\ job'[n] = Kept(row) /\ \A m \in Cycles \ {n} : job'[m] = job[m]
<1> DEFINE kept == Kept(row)
<1>1. job \in [Cycles -> JobRows]
  BY Shapes DEF Rows
<1>2. kept \in JobRows /\ job' = [job EXCEPT ![n] = kept]
  BY DEF SetJob
<1>3. kept.status \notin AliveStatuses => Bare(kept)
  OBVIOUS
<1> HIDE DEF kept
<1>4. /\ job' \in [Cycles -> JobRows]
      /\ job'[n] = kept /\ \A m \in Cycles \ {n} : job'[m] = job[m]
  BY <1>1, <1>2
<1>5. RowsAreBare'
  BY <1>3, <1>4 DEF Rows, RowsAreBare, Bare
<1> QED BY <1>4, <1>5 DEF kept

(* The same of the minds of the workers.                                        *)
LEMMA SetFacts ==
  ASSUME Rows, NEW w \in Workers, NEW mind \in Minds, Set(w, mind),
         mind.pc # "idle" => mind.job \in Cycles /\ mind.token \in Tokens
  PROVE  /\ worker' \in [Workers -> Minds] /\ BusyWorkers'
         /\ worker'[w] = mind /\ \A v \in Workers \ {w} : worker'[v] = worker[v]
<1>1. worker \in [Workers -> Minds]
  BY Shapes DEF Rows
<1>2. /\ worker' \in [Workers -> Minds]
      /\ worker'[w] = mind /\ \A v \in Workers \ {w} : worker'[v] = worker[v]
  BY <1>1 DEF Set
<1> QED BY <1>2 DEF Rows, BusyWorkers

LEMMA IdleFacts == IdleWorker \in Minds /\ IdleWorker.pc = "idle"
BY DEF IdleWorker, Minds, Points

LEMMA ReturnedFacts ==
  ASSUME Rows, NEW w \in Workers, NEW pc \in Points, NEW b \in BOOLEAN
  PROVE  /\ Returned(w, pc, b) \in Minds
         /\ Returned(w, pc, b).pc = pc
         /\ Returned(w, pc, b).job = worker[w].job
         /\ Returned(w, pc, b).token = worker[w].token
<1>1. worker[w].job \in {NoCycle} \cup Cycles /\ worker[w].token \in Tokens \cup {NoToken}
  BY Shapes DEF Rows, Minds
<1> DEFINE m == [IdleWorker EXCEPT !.pc = pc, !.job = worker[w].job,
                                   !.token = worker[w].token]
<1>2. /\ m \in Minds
      /\ m.pc = pc /\ m.job = worker[w].job /\ m.token = worker[w].token
  BY <1>1, IdleFacts DEF Minds
<1>3. Returned(w, pc, b) = [m EXCEPT !.retryable = b]
  BY DEF Returned
<1> HIDE DEF m
<1> QED BY <1>2, <1>3 DEF Minds

(* A coordinator never comes back once it has ended.                            *)
JobsSettle ==
  \A n \in Cycles :
    /\ job'[n].status \in AliveStatuses => job[n].status \in AliveStatuses
    /\ job'[n].status = "succeeded" <=> job[n].status = "succeeded"
    /\ job'[n].status = "absent" <=> job[n].status = "absent"

SubAdvances == sub'.ckpt >= sub.ckpt /\ sub'.rev = sub.rev

RowStaysOrBlocks ==
  /\ progress'.phase \in {progress.phase, "blocked"}
  /\ progress'.source = progress.source /\ progress'.auth = progress.auth
  /\ progress'.ckpt = progress.ckpt /\ progress'.last = progress.last
  /\ progress'.ended = progress.ended /\ progress'.rev = progress.rev
  /\ progress'.counted = progress.counted

CyclesStayOrEnd ==
  \A n \in Cycles :
    \/ cycle'[n] = cycle[n]
    \/ /\ cycle[n].status = "active" /\ cycle'[n].status \in {"active", "ended"}
       /\ cycle'[n].unbound = cycle[n].unbound

(* What all steps are like but those that begin a cycle, or end one or its      *)
(* coordinator well.                                                            *)
Quiet == JobsSettle /\ SubAdvances /\ RowStaysOrBlocks /\ CyclesStayOrEnd

LEMMA SameIsQuiet ==
  ASSUME TypeOK
  PROVE  /\ job' = job => JobsSettle
         /\ sub' = sub => SubAdvances
         /\ progress' = progress => RowStaysOrBlocks
         /\ cycle' = cycle => CyclesStayOrEnd
<1>1. sub.ckpt \in Nat
  BY Shapes DEF Subs
<1> QED BY <1>1 DEF JobsSettle, SubAdvances, RowStaysOrBlocks, CyclesStayOrEnd

(* The coordinator n goes on, or is given up.                                   *)
LEMMA JobStep ==
  ASSUME Rows, NEW n \in Cycles, NEW row, SetJob(n, row), Kept(row) \in JobRows,
         job[n].status \in AliveStatuses,
         Kept(row).status \in AliveStatuses \cup {"failed_terminal"},
         Kept(row).status \notin AliveStatuses => Bare(Kept(row))
  PROVE  job' \in [Cycles -> JobRows] /\ RowsAreBare' /\ JobsSettle
<1>1. /\ job' \in [Cycles -> JobRows] /\ RowsAreBare'
      /\ job'[n] = Kept(row) /\ \A m \in Cycles \ {n} : job'[m] = job[m]
  BY SetJobFacts
<1> QED BY <1>1 DEF JobsSettle, AliveStatuses

(* Steps of the workers that write no Job.                                      *)
LEMMA MindSteps ==
  ASSUME Rows, NEW w \in Workers, NEW mind \in Minds, Set(w, mind),
         mind.pc # "idle" => mind.job \in Cycles /\ mind.token \in Tokens,
         UNCHANGED <<sub, progress, cycle, job, known>>,
         verified' \subseteq Contents
  PROVE  Rows' /\ Quiet
<1>1. worker' \in [Workers -> Minds] /\ BusyWorkers'
  BY SetFacts
<1>2. TypeOK'
  BY <1>1, Shapes, ShapesNext DEF Rows
<1>3. RowsAreBare'
  BY DEF Rows, RowsAreBare, Bare
<1> QED BY <1>1, <1>2, <1>3, SameIsQuiet DEF Rows, Quiet

(* A mind that goes on within its attempt.                                      *)
LEMMA MindGoesOn ==
  ASSUME Rows, NEW w \in Workers, NEW mind \in Minds, worker[w].pc # "idle",
         mind.job = worker[w].job, mind.token = worker[w].token
  PROVE  mind.job \in Cycles /\ mind.token \in Tokens
BY DEF Rows, BusyWorkers

LEMMA SelectRows ==
  ASSUME Rows, NEW w \in Workers, Select(w)
  PROVE  Rows' /\ Quiet
<1> DEFINE mind == [worker[w] EXCEPT !.pc = "fetching", !.selected = Selection(worker[w].seen)]
<1>1. worker[w] \in Minds /\ Selection(worker[w].seen) \subseteq Contents
  BY Shapes DEF Rows, Selection, Minds
<1>2. mind \in Minds /\ mind.job = worker[w].job /\ mind.token = worker[w].token
  BY <1>1 DEF Minds, Points
<1>3. Set(w, mind) /\ worker[w].pc # "idle"
  BY DEF Select
<1> HIDE DEF mind
<1>4. verified' \subseteq Contents /\ UNCHANGED <<sub, progress, cycle, job, known>>
  BY Shapes DEF Select, Rows
<1> QED BY <1>2, <1>3, <1>4, MindGoesOn, MindSteps

LEMMA FetchRows ==
  ASSUME Rows, NEW w \in Workers, NEW c \in Contents, Fetch(w, c)
  PROVE  Rows' /\ Quiet
<1> DEFINE got    == [worker[w] EXCEPT !.done = @ \cup {c}]
           missed == [worker[w] EXCEPT !.failed = @ \cup {c}]
<1>1. worker[w] \in Minds
  BY Shapes DEF Rows
<1>2. /\ got \in Minds /\ got.job = worker[w].job /\ got.token = worker[w].token
      /\ missed \in Minds /\ missed.job = worker[w].job /\ missed.token = worker[w].token
  BY <1>1 DEF Minds
<1>3. /\ worker[w].pc # "idle" /\ UNCHANGED <<sub, progress, cycle, job, known>>
      /\ \/ Set(w, got) /\ verified' = verified \cup {c}
         \/ Set(w, missed) /\ verified' = verified
  BY DEF Fetch
<1> HIDE DEF got, missed
<1>4. verified' \subseteq Contents
  BY <1>3, Shapes DEF Rows
<1> QED BY <1>2, <1>3, <1>4, MindGoesOn, MindSteps

LEMMA ReselectRows ==
  ASSUME Rows, NEW w \in Workers, Reselect(w)
  PROVE  Rows' /\ Quiet
<1> DEFINE checked == [worker[w] EXCEPT !.pc = "checked", !.replaced = {}]
           failing == Returned(w, "failing", TRUE)
<1>1. worker[w] \in Minds
  BY Shapes DEF Rows
<1>2. checked \in Minds /\ checked.job = worker[w].job /\ checked.token = worker[w].token
  BY <1>1 DEF Minds, Points
<1>3. failing \in Minds /\ failing.job = worker[w].job /\ failing.token = worker[w].token
  BY ReturnedFacts DEF Points
<1>4. /\ worker[w].pc # "idle" /\ (Set(w, checked) \/ Set(w, failing))
      /\ UNCHANGED <<sub, progress, cycle, job, known, verified>>
  BY DEF Reselect
<1> HIDE DEF checked, failing
<1>5. verified' \subseteq Contents
  BY <1>4, Shapes DEF Rows
<1> QED BY <1>2, <1>3, <1>4, <1>5, MindGoesOn, MindSteps

(* The pipeline returns, a transaction raises, or the worker lets go.           *)
LEMMA ReturnRows ==
  ASSUME Rows, NEW w \in Workers,
         Export(w) \/ PipelineFails(w) \/ DatabaseFails(w) \/ Abandon(w)
  PROVE  Rows' /\ Quiet
<1>1. UNCHANGED <<sub, progress, cycle, job, known, verified>>
  BY DEF Export, PipelineFails, DatabaseFails, Abandon
<1>2. verified' \subseteq Contents
  BY <1>1, Shapes DEF Rows
<1>3. \/ Set(w, IdleWorker)
      \/ /\ worker[w].pc # "idle"
         /\ \E pc \in Points, b \in BOOLEAN : Set(w, Returned(w, pc, b))
  BY DEF Export, PipelineFails, DatabaseFails, Abandon, Points
<1>4. CASE Set(w, IdleWorker)
  BY <1>1, <1>2, <1>4, IdleFacts, MindSteps
<1>5. ASSUME worker[w].pc # "idle", NEW pc \in Points, NEW b \in BOOLEAN,
             Set(w, Returned(w, pc, b))
      PROVE  Rows' /\ Quiet
  BY <1>1, <1>2, <1>5, ReturnedFacts, MindGoesOn, MindSteps
<1> QED BY <1>3, <1>4, <1>5

(* A row that JobWrites speaks of.                                              *)
LEMMA RowFacts ==
  ASSUME Rows, NEW n \in Cycles
  PROVE  job[n] \in JobRows /\ (job[n].status \notin AliveStatuses => Bare(job[n]))
BY Shapes DEF Rows, RowsAreBare

(* Steps that write one Job and nothing else but minds and the progress.        *)
LEMMA JobSteps ==
  ASSUME Rows, job' \in [Cycles -> JobRows], RowsAreBare', JobsSettle,
         worker' \in [Workers -> Minds], BusyWorkers',
         progress' \in ProgressRows, RowStaysOrBlocks,
         UNCHANGED <<sub, cycle, known, verified>>
  PROVE  Rows' /\ Quiet
<1>1. TypeOK'
  BY Shapes, ShapesNext DEF Rows
<1> QED BY <1>1, SameIsQuiet DEF Rows, Quiet

LEMMA ProgressSame ==
  ASSUME Rows, progress' = progress
  PROVE  progress' \in ProgressRows /\ RowStaysOrBlocks
BY Shapes, SameIsQuiet DEF Rows

LEMMA WorkerSame ==
  ASSUME Rows, worker' = worker
  PROVE  worker' \in [Workers -> Minds] /\ BusyWorkers'
BY Shapes DEF Rows, BusyWorkers

LEMMA ClaimRows ==
  ASSUME Rows, NEW w \in Workers, NEW n \in Cycles, Claim(w, n)
  PROVE  Rows' /\ Quiet
<1> DEFINE token == job[n].attempts + 1
           mind  == [IdleWorker EXCEPT !.pc = "claimed", !.job = n, !.token = token,
                                       !.seen = cycle[n].seen]
<1>1. /\ Claimable(job[n]) /\ SetJob(n, Claimed(job[n], token)) /\ Set(w, mind)
      /\ UNCHANGED <<sub, progress, cycle, known, verified>>
  BY DEF Claim
<1>2. token \in Tokens
  <2>1. job[n].attempts \in 0..MaxAttempts /\ job[n].attempts < MaxAttempts
    BY <1>1, RowFacts DEF JobRows, Claimable
  <2> QED BY <2>1, DeliveryAssumption, JobAssumption DEF DeliveryAssumption, JobAssumption
<1> HIDE DEF token
<1>3. cycle[n].seen \subseteq Contents
  BY Shapes DEF Rows, CycleRows
<1>4. mind \in Minds /\ mind.job = n /\ mind.token = token
  BY <1>2, <1>3, IdleFacts DEF Minds, Points
<1> HIDE DEF mind
<1>5. worker' \in [Workers -> Minds] /\ BusyWorkers'
  BY <1>1, <1>2, <1>4, SetFacts
<1>6. /\ job[n].status \in AliveStatuses
      /\ Kept(Claimed(job[n], token)) \in JobRows
      /\ Kept(Claimed(job[n], token)).status = "claimed"
  BY <1>1, <1>2, RowFacts, JobWrites
<1>7. job' \in [Cycles -> JobRows] /\ RowsAreBare' /\ JobsSettle
  BY <1>1, <1>6, JobStep DEF AliveStatuses
<1> QED BY <1>1, <1>5, <1>7, ProgressSame, JobSteps

LEMMA ReclaimRows ==
  ASSUME Rows, NEW n \in Cycles, Reclaim(n)
  PROVE  Rows' /\ Quiet
<1>1. /\ Expired(job[n]) /\ SetJob(n, Reclaimed(job[n]))
      /\ UNCHANGED <<sub, progress, cycle, known, verified, worker>>
  BY DEF Reclaim
<1>2. /\ job[n].status \in AliveStatuses
      /\ Kept(Reclaimed(job[n])) \in JobRows
      /\ Kept(Reclaimed(job[n])).status \in {"failed_retryable", "failed_terminal"}
      /\ Bare(Kept(Reclaimed(job[n])))
  BY <1>1, RowFacts, JobWrites
<1>3. job' \in [Cycles -> JobRows] /\ RowsAreBare' /\ JobsSettle
  BY <1>1, <1>2, JobStep DEF AliveStatuses
<1> QED BY <1>1, <1>3, WorkerSame, ProgressSame, JobSteps

LEMMA LeaseLapsesRows ==
  ASSUME Rows, NEW n \in Cycles, LeaseLapses(n)
  PROVE  Rows' /\ Quiet
<1>1. /\ job[n].lease = "live" /\ SetJob(n, Lapsed(job[n]))
      /\ UNCHANGED <<sub, progress, cycle, known, verified, worker>>
  BY DEF LeaseLapses
<1>2. /\ job[n].status \in AliveStatuses
      /\ Kept(Lapsed(job[n])) \in JobRows /\ Kept(Lapsed(job[n])).status = job[n].status
  BY <1>1, RowFacts, JobWrites
<1>3. job' \in [Cycles -> JobRows] /\ RowsAreBare' /\ JobsSettle
  BY <1>1, <1>2, JobStep
<1> QED BY <1>1, <1>3, WorkerSame, ProgressSame, JobSteps

LEMMA StartRows ==
  ASSUME Rows, NEW w \in Workers, Start(w)
  PROVE  Rows' /\ Quiet
<1> DEFINE n    == worker[w].job
           mind == [worker[w] EXCEPT !.pc = "started"]
<1>1. /\ worker[w].pc # "idle" /\ UNCHANGED <<sub, progress, cycle, known, verified>>
      /\ \/ /\ Owns(job[n], worker[w].token)
            /\ SetJob(n, Renewed(Started(job[n]))) /\ Set(w, mind)
         \/ Set(w, IdleWorker) /\ UNCHANGED job
  BY DEF Start
<1>2. n \in Cycles /\ worker[w].token \in Tokens /\ worker[w] \in Minds
  BY <1>1, Shapes DEF Rows, BusyWorkers
<1>3. CASE Set(w, IdleWorker) /\ UNCHANGED job
  <2>1. verified' \subseteq Contents
    BY <1>1, Shapes DEF Rows
  <2> QED BY <1>1, <1>3, <2>1, IdleFacts, MindSteps
<1>4. CASE /\ Owns(job[n], worker[w].token)
           /\ SetJob(n, Renewed(Started(job[n]))) /\ Set(w, mind)
  <2>1. mind \in Minds /\ mind.job = n /\ mind.token = worker[w].token
    BY <1>2 DEF Minds, Points
  <2> HIDE DEF mind, n
  <2>2. worker' \in [Workers -> Minds] /\ BusyWorkers'
    BY <1>2, <1>4, <2>1, SetFacts
  <2>3. /\ job[n].status \in AliveStatuses
        /\ Kept(Renewed(Started(job[n]))) \in JobRows
        /\ Kept(Renewed(Started(job[n]))).status = "running"
    BY <1>2, <1>4, RowFacts, JobWrites
  <2>4. job' \in [Cycles -> JobRows] /\ RowsAreBare' /\ JobsSettle
    BY <1>2, <1>4, <2>3, JobStep DEF AliveStatuses
  <2> QED BY <1>1, <2>2, <2>4, ProgressSame, JobSteps
<1> QED BY <1>1, <1>3, <1>4

LEMMA BlockedFacts ==
  ASSUME Rows, NEW n \in Cycles, progress' = Blocked(n, sub, progress)
  PROVE  progress' \in ProgressRows /\ RowStaysOrBlocks
<1>1. progress \in ProgressRows
  BY Shapes DEF Rows
<1> DEFINE r == [progress EXCEPT !.phase = "blocked"]
<1>2. /\ r \in ProgressRows /\ r.phase = "blocked" /\ r.source = progress.source
      /\ r.auth = progress.auth /\ r.ckpt = progress.ckpt /\ r.last = progress.last
      /\ r.ended = progress.ended /\ r.rev = progress.rev /\ r.counted = progress.counted
  BY <1>1 DEF ProgressRows, Phases
<1>3. progress' = r \/ progress' = progress
  BY DEF Blocked
<1> HIDE DEF r
<1>4. CASE progress' = progress
  BY <1>4, ProgressSame
<1>5. CASE progress' = r
  BY <1>2, <1>5 DEF RowStaysOrBlocks
<1> QED BY <1>3, <1>4, <1>5

(* The Job of a failed attempt waits for its retry, or is given up.             *)
LEMMA FailedFacts ==
  ASSUME Rows, NEW n \in Cycles, NEW t \in Tokens, NEW b \in BOOLEAN, Owns(job[n], t)
  PROVE  /\ job[n].status \in AliveStatuses
         /\ Kept(Failed(job[n], b)) \in JobRows
         /\ Failed(job[n], b).status \in {"failed_retryable", "failed_terminal"}
         /\ Kept(Failed(job[n], b)).status = Failed(job[n], b).status
         /\ Bare(Kept(Failed(job[n], b)))
<1> USE JobAssumption DEF JobAssumption, JobRows, JobStatuses, JobErrors, AliveStatuses, Bare
<1>1. job[n] \in JobRows /\ (job[n].status \notin AliveStatuses => Bare(job[n]))
  BY RowFacts
<1> DEFINE row == job[n]
           next == Failed(row, b)
<1>2. row.status \in AliveStatuses
  BY <1>1 DEF Owns
<1> HIDE DEF row
<1>3. \E status \in {"failed_retryable", "failed_terminal"} :
        next = [Unleased(row, status) EXCEPT !.error = "other"]
  BY DEF Failed
<1> HIDE DEF next
<1>4. next \in JobRows /\ next.status \in {"failed_retryable", "failed_terminal"} /\ Bare(next)
  BY <1>1, <1>3 DEF Unleased, row
<1>5. Kept(next) \in JobRows /\ Kept(next).status = next.status /\ Bare(Kept(next))
  BY <1>4 DEF Kept, NoJobRow
<1> QED BY <1>2, <1>4, <1>5 DEF next, row

LEMMA FinalizeFailureRows ==
  ASSUME Rows, NEW w \in Workers, FinalizeFailure(w)
  PROVE  Rows' /\ Quiet
<1> DEFINE n    == worker[w].job
           next == Failed(job[n], worker[w].retryable)
<1>1. /\ worker[w].pc # "idle" /\ UNCHANGED <<sub, cycle, known, verified>>
      /\ Set(w, IdleWorker)
      /\ \/ /\ Owns(job[n], worker[w].token) /\ SetJob(n, next)
            /\ progress' = Blocked(n, sub, progress) \/ progress' = progress
         \/ UNCHANGED <<job, progress>>
  BY DEF FinalizeFailure
<1>2. n \in Cycles /\ worker[w].token \in Tokens /\ worker[w].retryable \in BOOLEAN
  BY <1>1, Shapes DEF Rows, BusyWorkers, Minds
<1>3. CASE UNCHANGED <<job, progress>>
  <2>1. verified' \subseteq Contents
    BY <1>1, Shapes DEF Rows
  <2> QED BY <1>1, <1>3, <2>1, IdleFacts, MindSteps
<1>4. CASE /\ Owns(job[n], worker[w].token) /\ SetJob(n, next)
           /\ progress' = Blocked(n, sub, progress) \/ progress' = progress
  <2>1. worker' \in [Workers -> Minds] /\ BusyWorkers'
    BY <1>1, IdleFacts, SetFacts
  <2>2. progress' \in ProgressRows /\ RowStaysOrBlocks
    BY <1>2, <1>4, BlockedFacts, ProgressSame
  <2>3. /\ job[n].status \in AliveStatuses
        /\ Kept(next) \in JobRows
        /\ next.status \in {"failed_retryable", "failed_terminal"}
        /\ Kept(next).status = next.status /\ Bare(Kept(next))
    BY <1>2, <1>4, FailedFacts
  <2> HIDE DEF next, n
  <2>4. job' \in [Cycles -> JobRows] /\ RowsAreBare' /\ JobsSettle
    BY <1>2, <1>4, <2>3, JobStep DEF AliveStatuses
  <2> QED BY <1>1, <2>1, <2>2, <2>4, JobSteps
<1> QED BY <1>1, <1>3, <1>4

(* A checkpoint is stored under the binding there is.                           *)
LEMMA StoredFacts ==
  ASSUME NEW s \in Subs
  PROVE  /\ Stored(s) \in Subs /\ SameBut(s, Stored(s))
         /\ Stored(s).ckpt = s.ckpt + 1 /\ Stored(s).others = s.others
<1> DEFINE cursor == IF LaneOf(s.cursor) = "head" THEN "history" ELSE "head"
           c == [s EXCEPT !.ckpt = s.ckpt + 1]
           d == [c EXCEPT !.cursor = cursor]
<1>1. s.ckpt + 1 \in Nat /\ cursor \in Cursors /\ s.source \in Sources
  BY DEF Subs, Cursors
<1>2. Stored(s) = [d EXCEPT !.from = s.source]
  BY DEF Stored, Subs
<1> HIDE DEF cursor
<1>3. c \in Subs /\ SameBut(s, c) /\ c.ckpt = s.ckpt + 1 /\ c.others = s.others
  BY <1>1 DEF Subs, SameBut
<1> HIDE DEF c
<1>4. d \in Subs /\ SameBut(s, d) /\ d.ckpt = s.ckpt + 1 /\ d.others = s.others
  BY <1>1, <1>3 DEF Subs, SameBut
<1> HIDE DEF d
<1> QED BY <1>1, <1>2, <1>4 DEF Subs, SameBut

(* Steps of the subscription alone.                                             *)
LEMMA SubSteps ==
  ASSUME Rows, sub' \in Subs, SubAdvances, worker' \in [Workers -> Minds], BusyWorkers',
         UNCHANGED <<progress, cycle, job, verified>>, known' \subseteq Contents
  PROVE  Rows' /\ Quiet
<1>1. TypeOK'
  BY Shapes, ShapesNext DEF Rows
<1>2. RowsAreBare'
  BY DEF Rows, RowsAreBare, Bare
<1> QED BY <1>1, <1>2, SameIsQuiet DEF Rows, Quiet

LEMMA IngestByHandRows ==
  ASSUME Rows, IngestByHand
  PROVE  Rows' /\ Quiet
<1> DEFINE t == Stored(sub)
<1>1. /\ sub \in Subs /\ known \subseteq Contents
      /\ sub' = [t EXCEPT !.others = t.others + 1]
  BY Shapes DEF Rows, IngestByHand
<1>2. /\ t \in Subs /\ t.rev = sub.rev /\ t.ckpt = sub.ckpt + 1
      /\ sub.ckpt \in Nat
  BY <1>1, StoredFacts DEF Subs, SameBut
<1> HIDE DEF t
<1>3. sub' \in Subs /\ SubAdvances
  BY <1>1, <1>2 DEF Subs, SubAdvances
<1>4. /\ known' \subseteq Contents /\ worker' = worker
      /\ UNCHANGED <<progress, cycle, job, verified>>
  BY <1>1 DEF IngestByHand
<1> QED BY <1>3, <1>4, WorkerSame, SubSteps

LEMMA RemovedFacts ==
  ASSUME NEW b \in BOOLEAN, sub \in Subs, sub' = [sub EXCEPT !.removed = b]
  PROVE  sub' \in Subs /\ sub'.ckpt = sub.ckpt /\ sub'.rev = sub.rev
BY DEF Subs

(* The binding is another, and the change is counted.                           *)
LEMMA CountedFacts ==
  ASSUME Rows, NEW t \in Subs, t.ckpt = sub.ckpt, t.rev = sub.rev, t.others = sub.others,
         sub' = [t EXCEPT !.others = sub.others + 1]
  PROVE  sub' \in Subs /\ SubAdvances
<1>1. sub.ckpt \in Nat /\ sub.others + 1 \in Nat
  BY Shapes DEF Rows, Subs
<1> QED BY <1>1 DEF Subs, SubAdvances

LEMMA RebindRows ==
  ASSUME Rows, Restore \/ Login \/ Upgrade \/ Configure
  PROVE  Rows' /\ Quiet
<1>1. sub \in Subs /\ sub.ckpt \in Nat /\ sub.others + 1 \in Nat /\ known \subseteq Contents
  BY Shapes DEF Rows, Subs
<1>2. sub' \in Subs /\ SubAdvances
  <2>1. CASE Restore
    <3>1. sub' = [sub EXCEPT !.removed = FALSE]
      BY <2>1 DEF Restore
    <3>2. sub' \in Subs /\ sub'.ckpt = sub.ckpt /\ sub'.rev = sub.rev
      BY <1>1, <3>1, FALSE \in BOOLEAN, RemovedFacts, Zenon
    <3> QED BY <1>1, <3>2 DEF SubAdvances
  <2>2. CASE Login
    <3>1. PICK auth \in Auths : sub' = [sub EXCEPT !.auth = auth, !.others = sub.others + 1]
      BY <2>2 DEF Login
    <3> DEFINE t == [sub EXCEPT !.auth = auth]
    <3>2. t \in Subs /\ t.ckpt = sub.ckpt /\ t.rev = sub.rev /\ t.others = sub.others
      BY <1>1 DEF Subs
    <3>3. sub' = [t EXCEPT !.others = sub.others + 1]
      BY <3>1
    <3> QED BY <3>2, <3>3, CountedFacts
  <2>3. CASE Upgrade
    <3>1. PICK source \in Sources :
            sub' = [sub EXCEPT !.source = source, !.others = sub.others + 1]
      BY <2>3 DEF Upgrade
    <3> DEFINE t == [sub EXCEPT !.source = source]
    <3>2. t \in Subs /\ t.ckpt = sub.ckpt /\ t.rev = sub.rev /\ t.others = sub.others
      BY <1>1 DEF Subs
    <3>3. sub' = [t EXCEPT !.others = sub.others + 1]
      BY <3>1
    <3> QED BY <3>2, <3>3, CountedFacts
  <2>4. CASE Configure
    <3>1. PICK b \in BOOLEAN : sub' = [sub EXCEPT !.binds = b, !.others = sub.others + 1]
      BY <1>1, <2>4 DEF Configure, Subs
    <3> DEFINE t == [sub EXCEPT !.binds = b]
    <3>2. t \in Subs /\ t.ckpt = sub.ckpt /\ t.rev = sub.rev /\ t.others = sub.others
      BY <1>1 DEF Subs
    <3>3. sub' = [t EXCEPT !.others = sub.others + 1]
      BY <3>1
    <3> QED BY <3>2, <3>3, CountedFacts
  <2> QED BY <2>1, <2>2, <2>3, <2>4
<1>3. worker' \in [Workers -> Minds] /\ BusyWorkers'
  <2>1. CASE worker' = worker
    BY <2>1, WorkerSame
  <2>2. CASE worker' = [w \in Workers |-> IdleWorker]
    BY <2>2, IdleFacts DEF BusyWorkers
  <2> QED BY <2>1, <2>2 DEF Restore, Login, Upgrade, Configure
<1>4. UNCHANGED <<progress, cycle, job, known, verified>>
  BY DEF Restore, Login, Upgrade, Configure
<1>5. known' \subseteq Contents
  BY <1>1, <1>4
<1> QED BY <1>2, <1>3, <1>4, <1>5, SubSteps

LEMMA NoCycleFacts == NoCycleYet \in CycleRows /\ NoCycleYet.status = "none"
BY FirstFacts DEF NoCycleYet, CycleRows

LEMMA EndedFacts ==
  ASSUME NEW c \in CycleRows
  PROVE  Ended(c) \in CycleRows /\ Ended(c).status = "ended" /\ Ended(c).unbound = c.unbound
BY NoCycleFacts DEF Ended, CycleRows

(* Steps of the cycles alone.                                                   *)
LEMMA CycleSteps ==
  ASSUME Rows, cycle' \in [Cycles -> CycleRows], CyclesStayOrEnd,
         UNCHANGED <<sub, progress, job, known, verified, worker>>
  PROVE  Rows' /\ Quiet
<1>1. TypeOK'
  BY Shapes, ShapesNext DEF Rows
<1>2. RowsAreBare' /\ BusyWorkers'
  BY WorkerSame DEF Rows, RowsAreBare, Bare
<1> QED BY <1>1, <1>2, SameIsQuiet DEF Rows, Quiet

LEMMA CycleGoesOnRows ==
  ASSUME Rows, NEW n \in Cycles, CycleEnds(n) \/ CycleAttempt(n)
  PROVE  Rows' /\ Quiet
<1> DEFINE next == IF CycleEnds(n) THEN Ended(cycle[n]) ELSE [cycle[n] EXCEPT !.auth = sub.auth]
<1>1. cycle[n].status = "active" /\ UNCHANGED <<sub, progress, job, known, verified, worker>>
  BY DEF CycleEnds, CycleAttempt
<1>2. cycle' = [cycle EXCEPT ![n] = next]
  BY DEF CycleEnds, CycleAttempt
<1>3. cycle \in [Cycles -> CycleRows] /\ cycle[n] \in CycleRows /\ sub.auth \in Auths
  BY Shapes DEF Rows, Subs
<1>4. /\ next \in CycleRows /\ next.status \in {"active", "ended"}
      /\ next.unbound = cycle[n].unbound
  <2>1. CASE CycleEnds(n)
    BY <1>3, <2>1, EndedFacts
  <2>2. CASE ~CycleEnds(n)
    BY <1>1, <1>3, <2>2 DEF CycleRows
  <2> QED BY <2>1, <2>2
<1> HIDE DEF next
<1>5. cycle' \in [Cycles -> CycleRows] /\ CyclesStayOrEnd
  BY <1>1, <1>2, <1>3, <1>4 DEF CyclesStayOrEnd
<1> QED BY <1>1, <1>5, CycleSteps

LEMMA RemoveRows ==
  ASSUME Rows, Remove
  PROVE  Rows' /\ Quiet
<1>1. sub' = [sub EXCEPT !.removed = TRUE] /\ UNCHANGED <<progress, known, verified, worker>>
  BY DEF Remove
<1>2. sub \in Subs /\ sub.ckpt \in Nat /\ cycle \in [Cycles -> CycleRows]
  BY Shapes DEF Rows, Subs
<1>3. sub' \in Subs /\ SubAdvances
  <2>1. sub' \in Subs /\ sub'.ckpt = sub.ckpt /\ sub'.rev = sub.rev
    BY <1>1, <1>2, TRUE \in BOOLEAN, RemovedFacts, Zenon
  <2> QED BY <1>2, <2>1 DEF SubAdvances
<1>4. cycle' \in [Cycles -> CycleRows] /\ CyclesStayOrEnd
  <2>1. cycle' = [n \in Cycles |-> IF cycle[n].status = "active"
                                     THEN Ended(cycle[n]) ELSE cycle[n]]
    BY DEF Remove
  <2>2. ASSUME NEW n \in Cycles
        PROVE  /\ Ended(cycle[n]) \in CycleRows /\ Ended(cycle[n]).status = "ended"
               /\ Ended(cycle[n]).unbound = cycle[n].unbound
    BY <1>2, EndedFacts
  <2> QED BY <1>2, <2>1, <2>2 DEF CyclesStayOrEnd
<1> DEFINE row(n) == IF job[n].status \in {"queued", "failed_retryable"}
                       THEN Kept(Unleased(job[n], "failed_terminal")) ELSE job[n]
<1>5. job' = [n \in Cycles |-> row(n)]
  BY DEF Remove
<1>6. ASSUME NEW n \in Cycles
      PROVE  /\ row(n) \in JobRows
             /\ row(n).status \notin AliveStatuses => Bare(row(n))
             /\ \/ row(n) = job[n]
                \/ row(n).status = "failed_terminal" /\ job[n].status \in AliveStatuses
  BY RowFacts, JobWrites DEF AliveStatuses
<1> HIDE DEF row
<1>7. job' \in [Cycles -> JobRows] /\ RowsAreBare'
  BY <1>5, <1>6 DEF RowsAreBare, Bare
<1>8. JobsSettle
  BY <1>5, <1>6 DEF JobsSettle, AliveStatuses
<1>9. TypeOK'
  BY <1>1, <1>3, <1>4, <1>7, Shapes, ShapesNext DEF Rows
<1> QED BY <1>1, <1>3, <1>4, <1>7, <1>8, <1>9, SameIsQuiet, WorkerSame DEF Rows, Quiet

LEMMA ReplaceRows ==
  ASSUME Rows, NEW c \in Contents, Replace(c) \/ FetchedElsewhere(c)
  PROVE  Rows' /\ Quiet
<1>1. UNCHANGED <<sub, progress, cycle, job, known>>
  BY DEF Replace, FetchedElsewhere
<1>2. verified' \subseteq Contents
  BY Shapes DEF Replace, FetchedElsewhere, Rows
<1>3. worker' \in [Workers -> Minds] /\ BusyWorkers'
  <2>1. CASE worker' = worker
    BY <2>1, WorkerSame
  <2>2. CASE worker' = [w \in Workers |->
                  [worker[w] EXCEPT !.replaced = @ \cup ({c} \cap worker[w].selected)]]
    <3>1. worker \in [Workers -> Minds]
      BY Shapes DEF Rows
    <3>2. ASSUME NEW w \in Workers
          PROVE  /\ worker'[w] \in Minds /\ worker'[w].pc = worker[w].pc
                 /\ worker'[w].job = worker[w].job /\ worker'[w].token = worker[w].token
      BY <2>2, <3>1 DEF Minds
    <3> QED BY <2>2, <3>2 DEF BusyWorkers, Rows
  <2> QED BY <2>1, <2>2 DEF Replace, FetchedElsewhere
<1>4. TypeOK'
  BY <1>1, <1>2, <1>3, Shapes, ShapesNext DEF Rows
<1>5. RowsAreBare'
  BY <1>1 DEF Rows, RowsAreBare, Bare
<1> QED BY <1>1, <1>3, <1>4, <1>5, SameIsQuiet DEF Rows, Quiet


--------------------------------------------------------------------------------
(* The steps that are not quiet *)

(* The row is left, or it is brought up to date by ensure_for_materialization.  *)
RowEnsured ==
  \/ progress' = progress /\ sub'.ckpt = sub.ckpt
  \/ /\ progress'.ckpt = sub'.ckpt /\ progress'.rev = sub.rev + 1
     /\ Descends(progress', progress)

(* No cycle begins, or the next one does; it meets a coordinator only where     *)
(* there is no binding.                                                         *)
NextBegins ==
  \/ sub'.rev = sub.rev /\ UNCHANGED cycle
  \/ /\ sub'.rev = sub.rev + 1 /\ sub'.rev \in Cycles
     /\ cycle'[sub'.rev].status = "active"
     /\ cycle'[sub'.rev].unbound \/ \A m \in Cycles : job[m].status \notin AliveStatuses
     /\ \A m \in Cycles \ {sub'.rev} : cycle'[m] = cycle[m]

SameBinds == /\ sub'.source = sub.source /\ sub'.auth = sub.auth /\ sub'.binds = sub.binds
             /\ sub'.removed = sub.removed

EnsuredStep(s, resume) ==
  /\ s = Ensured(sub, progress, resume).sub
  /\ progress' = Ensured(sub, progress, resume).row

LEMMA EnsuredStepFacts ==
  ASSUME Rows, NEW s, NEW resume \in BOOLEAN, EnsuredStep(s, resume), sub'.ckpt = s.ckpt
  PROVE  /\ s \in Subs /\ progress' \in ProgressRows /\ SameBut(sub, s)
         /\ s.ckpt >= sub.ckpt /\ RowEnsured
<1>1. sub \in Subs /\ progress \in ProgressRows
  BY Shapes DEF Rows
<1> QED BY <1>1, EnsuredFacts DEF EnsuredStep, RowEnsured

(* The cycle that materialize begins.                                           *)
Begun == [NoCycleYet EXCEPT !.status = "active", !.unbound = ~sub.binds, !.auth = sub.auth]

LEMMA BegunFacts ==
  ASSUME Rows
  PROVE  Begun \in CycleRows /\ Begun.status = "active" /\ Begun.unbound = ~sub.binds
<1>1. sub \in Subs
  BY Shapes DEF Rows
<1> DEFINE b == ~sub.binds
           c == [NoCycleYet EXCEPT !.status = "active"]
           d == [c EXCEPT !.unbound = b]
<1>2. b \in BOOLEAN /\ sub.auth \in Auths
  BY <1>1 DEF Subs
<1>3. c \in CycleRows /\ c.status = "active"
  BY NoCycleFacts DEF CycleRows
<1>4. Begun = [d EXCEPT !.auth = sub.auth]
  BY DEF Begun
<1> HIDE DEF c, b
<1>5. d \in CycleRows /\ d.status = "active" /\ d.unbound = b
  BY <1>2, <1>3 DEF CycleRows
<1> HIDE DEF d
<1>6. Begun \in CycleRows /\ Begun.status = "active" /\ Begun.unbound = b
  BY <1>2, <1>4, <1>5 DEF CycleRows
<1> QED BY <1>6 DEF b

LEMMA MaterializeFacts ==
  ASSUME Rows, MaterializeDue \/ MaterializeOne
  PROVE  /\ Rows' /\ RowEnsured /\ NextBegins /\ SameBinds /\ UNCHANGED job
         /\ sub'.ckpt >= sub.ckpt /\ \A n \in Cycles : cycle[n].status # "active"
<1>1. PICK resume \in BOOLEAN : Materialize(resume)
  BY DEF MaterializeDue, MaterializeOne
<1> DEFINE s == Ensured(sub, progress, resume).sub
           free == ~sub.binds \/ \A m \in Cycles : job[m].status \notin AliveStatuses
<1>2. /\ EnsuredStep(s, resume) /\ UNCHANGED <<job, known, verified, worker>>
      /\ \A n \in Cycles : cycle[n].status # "active"
      /\ \/ sub' = s /\ UNCHANGED cycle
         \/ /\ free /\ sub.rev < MaxCycles
            /\ sub' = [s EXCEPT !.rev = @ + 1]
            /\ cycle' = [cycle EXCEPT ![sub.rev + 1] = Begun]
  BY <1>1 DEF Materialize, EnsuredStep, CycleActive, MayBegin, CoordinatorAlive, Alive,
              AliveStatuses, Begun
<1>3. /\ sub \in Subs /\ cycle \in [Cycles -> CycleRows] /\ MaxCycles \in Nat
      /\ progress \in ProgressRows
  BY Shapes, DeliveryAssumption DEF Rows, DeliveryAssumption
<1>4. s \in Subs
  BY <1>3, EnsuredFacts
<1> HIDE DEF s, free
<1>5. sub'.ckpt = s.ckpt
  BY <1>2, <1>4 DEF Subs
<1>6. /\ progress' \in ProgressRows /\ SameBut(sub, s)
      /\ sub'.ckpt >= sub.ckpt /\ RowEnsured
  BY <1>2, <1>5, EnsuredStepFacts
<1>7. CASE sub' = s /\ UNCHANGED cycle
  <2>1. sub' \in Subs /\ NextBegins /\ SameBinds
    BY <1>4, <1>6, <1>7 DEF NextBegins, SameBinds, SameBut
  <2>2. TypeOK'
    BY <1>2, <1>6, <1>7, <2>1, Shapes, ShapesNext DEF Rows
  <2>3. RowsAreBare' /\ BusyWorkers'
    BY <1>2, WorkerSame DEF Rows, RowsAreBare, Bare
  <2> QED BY <1>2, <1>6, <2>1, <2>2, <2>3 DEF Rows
<1>8. CASE /\ free /\ sub.rev < MaxCycles /\ sub' = [s EXCEPT !.rev = @ + 1]
           /\ cycle' = [cycle EXCEPT ![sub.rev + 1] = Begun]
  <2>1. /\ sub.rev \in Nat /\ sub.rev + 1 \in Cycles /\ sub.rev + 1 \in 0..MaxCycles
        /\ s.rev = sub.rev
    BY <1>3, <1>6, <1>8 DEF Subs, Cycles, SameBut
  <2>2. sub' = [s EXCEPT !.rev = sub.rev + 1]
    BY <1>8, <2>1
  <2>3. sub' \in Subs /\ sub'.rev = sub.rev + 1 /\ SameBinds
    BY <1>4, <1>6, <2>1, <2>2 DEF Subs, SameBinds, SameBut
  <2>4. cycle' \in [Cycles -> CycleRows]
    BY <1>3, <1>8, <2>1, BegunFacts
  <2>5. /\ cycle'[sub.rev + 1] = Begun
        /\ \A m \in Cycles \ {sub.rev + 1} : cycle'[m] = cycle[m]
    BY <1>3, <1>8, <2>1
  <2>6. Begun.status = "active" /\ Begun.unbound = ~sub.binds
    BY BegunFacts
  <2>7. Begun.unbound \/ \A m \in Cycles : job[m].status \notin AliveStatuses
    BY <1>8, <2>6 DEF free
  <2>8. NextBegins
    BY <2>1, <2>3, <2>5, <2>6, <2>7 DEF NextBegins
  <2>9. TypeOK'
    BY <1>2, <1>6, <2>3, <2>4, Shapes, ShapesNext DEF Rows
  <2>10. RowsAreBare' /\ BusyWorkers'
    BY <1>2, WorkerSame DEF Rows, RowsAreBare, Bare
  <2> QED BY <1>2, <1>6, <2>3, <2>8, <2>9, <2>10 DEF Rows
<1> QED BY <1>2, <1>7, <1>8

(* The Run of a cycle that succeeds.                                            *)
RunOf(c, before, end, source, lane, observed) ==
  [c EXCEPT !.status = "succeeded", !.before = before, !.end = end,
            !.source = source, !.lane = lane, !.seen = observed]

LEMMA RunFacts ==
  ASSUME NEW c \in CycleRows, NEW before \in Nat, NEW end \in BOOLEAN,
         NEW source \in Sources, NEW lane \in {"head", "history"},
         NEW observed \in SUBSET Contents
  PROVE  LET run == RunOf(c, before, end, source, lane, observed) IN
         /\ run \in CycleRows /\ run.status = "succeeded" /\ run.before = before
         /\ run.source = source /\ run.unbound = c.unbound
<1> DEFINE c1 == [c EXCEPT !.status = "succeeded"]
           c2 == [c1 EXCEPT !.before = before]
           c3 == [c2 EXCEPT !.end = end]
           c4 == [c3 EXCEPT !.source = source]
           c5 == [c4 EXCEPT !.lane = lane]
           run == [c5 EXCEPT !.seen = observed]
<1>1. RunOf(c, before, end, source, lane, observed) = run
  BY DEF RunOf
<1>2. c1 \in CycleRows /\ c1.status = "succeeded" /\ c1.unbound = c.unbound
  BY DEF CycleRows
<1> HIDE DEF c1
<1>3. /\ c2 \in CycleRows /\ c2.status = "succeeded" /\ c2.unbound = c.unbound
      /\ c2.before = before
  BY <1>2 DEF CycleRows
<1> HIDE DEF c2
<1>4. /\ c3 \in CycleRows /\ c3.status = "succeeded" /\ c3.unbound = c.unbound
      /\ c3.before = before
  BY <1>3 DEF CycleRows
<1> HIDE DEF c3
<1>5. /\ c4 \in CycleRows /\ c4.status = "succeeded" /\ c4.unbound = c.unbound
      /\ c4.before = before /\ c4.source = source
  BY <1>4 DEF CycleRows
<1> HIDE DEF c4
<1>6. /\ c5 \in CycleRows /\ c5.status = "succeeded" /\ c5.unbound = c.unbound
      /\ c5.before = before /\ c5.source = source
  BY <1>5 DEF CycleRows
<1> HIDE DEF c5
<1>7. /\ run \in CycleRows /\ run.status = "succeeded" /\ run.unbound = c.unbound
      /\ run.before = before /\ run.source = source
  BY <1>6 DEF CycleRows
<1> HIDE DEF run
<1> QED BY <1>1, <1>7

LEMMA CycleSucceedsFacts ==
  ASSUME Rows, NEW n \in Cycles, CycleSucceeds(n)
  PROVE  /\ Rows' /\ UNCHANGED progress /\ SameBinds /\ sub'.rev = sub.rev
         /\ cycle[n].status = "active" /\ cycle'[n].status = "succeeded"
         /\ cycle'[n].before = sub.ckpt /\ cycle'[n].source = sub.source
         /\ cycle'[n].unbound = cycle[n].unbound
         /\ \A m \in Cycles \ {n} : cycle'[m] = cycle[m] /\ job'[m] = job[m]
         /\ job'[n] = Enqueued(job[n]) /\ sub'.ckpt = sub.ckpt + 1
<1>1. /\ cycle[n].status = "active" /\ sub' = Stored(sub)
      /\ job' = [job EXCEPT ![n] = Enqueued(job[n])]
      /\ UNCHANGED <<progress, verified, worker>>
  BY DEF CycleSucceeds
<1>2. /\ sub \in Subs /\ cycle \in [Cycles -> CycleRows] /\ job \in [Cycles -> JobRows]
      /\ known \subseteq Contents /\ cycle[n] \in CycleRows
  BY Shapes DEF Rows
<1>3. sub' \in Subs /\ SameBinds /\ sub'.rev = sub.rev /\ sub'.ckpt = sub.ckpt + 1
  BY <1>1, <1>2, StoredFacts DEF SameBinds, SameBut
<1>4. PICK end \in BOOLEAN, observed \in SUBSET Contents :
        /\ cycle' = [cycle EXCEPT ![n] = RunOf(cycle[n], sub.ckpt, end, sub.source,
                                               LaneOf(sub.cursor), observed)]
        /\ known' = known \cup observed
  BY DEF CycleSucceeds, RunOf
<1> DEFINE run == RunOf(cycle[n], sub.ckpt, end, sub.source, LaneOf(sub.cursor), observed)
<1>5. LaneOf(sub.cursor) \in {"head", "history"} /\ sub.source \in Sources /\ sub.ckpt \in Nat
  BY <1>2 DEF LaneOf, Subs
<1>6. cycle' = [cycle EXCEPT ![n] = run]
  BY <1>4
<1>7. /\ run \in CycleRows /\ run.status = "succeeded" /\ run.before = sub.ckpt
      /\ run.source = sub.source /\ run.unbound = cycle[n].unbound
  BY <1>2, <1>5, RunFacts
<1> HIDE DEF run
<1>8. /\ cycle' \in [Cycles -> CycleRows] /\ cycle'[n] = run
      /\ \A m \in Cycles \ {n} : cycle'[m] = cycle[m]
  BY <1>2, <1>6, <1>7
<1>9. /\ Enqueued(job[n]) \in JobRows
      /\ Enqueued(job[n]).status \in AliveStatuses \/ Enqueued(job[n]) = job[n]
  BY <1>2 DEF Enqueued, JobRows, JobStatuses, AliveStatuses
<1>10. /\ job' \in [Cycles -> JobRows] /\ job'[n] = Enqueued(job[n])
       /\ \A m \in Cycles \ {n} : job'[m] = job[m]
  BY <1>1, <1>2, <1>9
<1>11. RowsAreBare'
  BY <1>9, <1>10, RowFacts DEF RowsAreBare, Bare
<1>12. known' \subseteq Contents /\ verified' \subseteq Contents
  BY <1>1, <1>4, Shapes DEF Rows
<1>13. TypeOK'
  BY <1>1, <1>3, <1>8, <1>10, <1>12, WorkerSame, Shapes, ShapesNext DEF Rows
<1> QED BY <1>1, <1>3, <1>7, <1>8, <1>10, <1>11, <1>13, WorkerSame DEF Rows

(* publish_success advanced the row of the delivered n.                         *)
RowAdvanced(n) ==
  /\ SameBinding(cycle[n], sub, progress) /\ EvidenceHolds(n, sub, progress)
  /\ progress'.source = progress.source /\ progress'.auth = progress.auth
  /\ progress'.ckpt = sub'.ckpt /\ progress'.last = n /\ progress'.rev = n
  /\ progress'.counted = progress.counted \cup {n}
  /\ progress'.phase = PhaseAfter(cycle[n], progress.phase)
  /\ progress'.ended = (progress.ended \/ Sealed(cycle[n]))

DeliveredNow(n) ==
  /\ job[n].status \in AliveStatuses /\ job'[n].status = "succeeded"
  /\ \A m \in Cycles \ {n} : job'[m] = job[m]

(* What the delivery of n does to the row.                                      *)
RowPublished(n) ==
  \/ NotCounted(n, sub, progress) /\ UNCHANGED <<sub, progress>>
  \/ RowEnsured /\ ~SameBinding(cycle[n], sub, progress)
  \/ RowAdvanced(n)

LEMMA FinalizeSuccessFacts ==
  ASSUME Rows, NEW w \in Workers, FinalizeSuccess(w)
  PROVE  /\ Rows'
         /\ \/ Quiet /\ UNCHANGED <<sub, progress, cycle, job>>
            \/ /\ worker[w].job \in Cycles /\ DeliveredNow(worker[w].job)
               /\ UNCHANGED cycle /\ sub'.ckpt >= sub.ckpt /\ SameBinds
               /\ sub'.rev = sub.rev /\ RowPublished(worker[w].job)
<1> DEFINE n    == worker[w].job
           next == Published(n, sub, progress)
<1>1. /\ worker[w].pc # "idle" /\ UNCHANGED <<cycle, known, verified>>
      /\ \/ Set(w, IdleWorker) /\ UNCHANGED <<sub, progress, job>>
         \/ Set(w, Returned(w, "failing", TRUE)) /\ UNCHANGED <<sub, progress, job>>
         \/ /\ Owns(job[n], worker[w].token) /\ Publishable(n, sub, progress)
            /\ SetJob(n, Completed(job[n])) /\ sub' = next.sub /\ progress' = next.row
            /\ Set(w, IdleWorker)
  BY DEF FinalizeSuccess
<1>2. /\ n \in Cycles /\ worker[w].token \in Tokens
      /\ verified' \subseteq Contents /\ sub \in Subs /\ progress \in ProgressRows
      /\ cycle \in [Cycles -> CycleRows]
  BY <1>1, Shapes DEF Rows, BusyWorkers
<1>3. CASE Set(w, IdleWorker) /\ UNCHANGED <<sub, progress, job>>
  BY <1>1, <1>2, <1>3, IdleFacts, MindSteps
<1>4. CASE Set(w, Returned(w, "failing", TRUE)) /\ UNCHANGED <<sub, progress, job>>
  <2>1. "failing" \in Points
    BY DEF Points
  <2> QED BY <1>1, <1>2, <1>4, <2>1, ReturnedFacts, MindGoesOn, MindSteps
<1>5. CASE /\ Owns(job[n], worker[w].token) /\ Publishable(n, sub, progress)
           /\ SetJob(n, Completed(job[n])) /\ sub' = next.sub /\ progress' = next.row
           /\ Set(w, IdleWorker)
  <2>1. worker' \in [Workers -> Minds] /\ BusyWorkers'
    BY <1>5, IdleFacts, SetFacts
  <2>2. /\ job[n].status \in AliveStatuses
        /\ Kept(Completed(job[n])) \in JobRows
        /\ Kept(Completed(job[n])).status = "succeeded" /\ Bare(Kept(Completed(job[n])))
    BY <1>2, <1>5, RowFacts, JobWrites
  <2>3. job' \in [Cycles -> JobRows] /\ RowsAreBare' /\ DeliveredNow(n)
    BY <1>2, <1>5, <2>2, SetJobFacts DEF DeliveredNow
  <2>4. /\ sub' \in Subs /\ progress' \in ProgressRows
        /\ SameBut(sub, sub') /\ sub'.ckpt >= sub.ckpt /\ RowPublished(n)
    <3>1. CASE NotCounted(n, sub, progress)
      <4>1. UNCHANGED <<sub, progress>>
        BY <1>5, <3>1 DEF Published
      <4>2. sub.ckpt >= sub.ckpt /\ SameBut(sub, sub)
        BY <1>2 DEF Subs, SameBut
      <4> QED BY <1>2, <3>1, <4>1, <4>2 DEF RowPublished
    <3>2. CASE ~NotCounted(n, sub, progress) /\ ~SameBinding(cycle[n], sub, progress)
      <4>1. EnsuredStep(sub', TRUE)
        BY <1>5, <3>2 DEF Published, EnsuredStep
      <4> QED BY <3>2, <4>1, EnsuredStepFacts DEF RowPublished
    <3>3. CASE ~NotCounted(n, sub, progress) /\ SameBinding(cycle[n], sub, progress)
      <4>1. next = Advanced(n, sub, progress) /\ EvidenceHolds(n, sub, progress)
        BY <1>5, <3>3 DEF Published, Publishable
      <4> HIDE DEF n
      <4>2. /\ sub' \in Subs /\ progress' \in ProgressRows
            /\ SameBut(sub, sub') /\ sub'.ckpt >= sub.ckpt
            /\ progress'.source = progress.source /\ progress'.auth = progress.auth
            /\ progress'.ckpt = sub'.ckpt /\ progress'.last = n /\ progress'.rev = n
            /\ progress'.counted = progress.counted \cup {n}
            /\ progress'.phase = PhaseAfter(cycle[n], progress.phase)
            /\ progress'.ended = (progress.ended \/ Sealed(cycle[n]))
        BY <1>2, <1>5, <4>1, AdvancedFacts
      <4> QED BY <3>3, <4>1, <4>2 DEF RowAdvanced, RowPublished
    <3> QED BY <3>1, <3>2, <3>3
  <2> HIDE DEF n, next
  <2>5. TypeOK'
    BY <1>1, <1>2, <2>1, <2>3, <2>4, Shapes, ShapesNext DEF Rows
  <2>6. SameBinds /\ sub'.rev = sub.rev
    BY <2>4 DEF SameBut, SameBinds
  <2> QED BY <1>1, <1>2, <2>1, <2>3, <2>4, <2>5, <2>6 DEF Rows, n
<1> QED BY <1>1, <1>3, <1>4, <1>5

--------------------------------------------------------------------------------
(* The kinds of steps *)

Begins ==
  /\ RowEnsured /\ NextBegins /\ SameBinds /\ UNCHANGED job /\ sub'.ckpt >= sub.ckpt
  /\ \A n \in Cycles : cycle[n].status # "active"

Succeeds(n) ==
  /\ UNCHANGED progress /\ SameBinds /\ sub'.rev = sub.rev
  /\ cycle[n].status = "active" /\ cycle'[n].status = "succeeded"
  /\ cycle'[n].before = sub.ckpt /\ cycle'[n].source = sub.source
  /\ cycle'[n].unbound = cycle[n].unbound
  /\ \A m \in Cycles \ {n} : cycle'[m] = cycle[m] /\ job'[m] = job[m]
  /\ job'[n] = Enqueued(job[n]) /\ sub'.ckpt = sub.ckpt + 1

Delivers(n) ==
  /\ DeliveredNow(n) /\ UNCHANGED cycle /\ SameBinds /\ sub'.rev = sub.rev
  /\ sub'.ckpt >= sub.ckpt /\ RowPublished(n)

LEMMA InitRows == Init => Rows
<1>1. ASSUME Init
      PROVE  Rows
  <2>1. NoRow \in ProgressRows
    BY FirstFacts, DeliveryAssumption
       DEF DeliveryAssumption, NoRow, ProgressRows, Phases
  <2>2. sub \in Subs
    BY <1>1, FirstFacts, DeliveryAssumption DEF Init, Subs, Cursors, DeliveryAssumption
  <2>3. NoJobRow \in JobRows /\ Bare(NoJobRow)
    BY JobAssumption DEF NoJobRow, JobRows, JobStatuses, JobErrors, Bare, JobAssumption
  <2>4. TypeOK
    BY <1>1, <2>1, <2>2, <2>3, NoCycleFacts, IdleFacts, Shapes DEF Init
  <2>5. RowsAreBare /\ BusyWorkers
    BY <1>1, <2>3, IdleFacts DEF Init, RowsAreBare, BusyWorkers
  <2> QED BY <2>4, <2>5 DEF Rows
<1> QED BY <1>1

LEMMA StepKinds ==
  ASSUME Rows, [Next]_vars
  PROVE  /\ Rows'
         /\ Quiet \/ Begins \/ \E n \in Cycles : Succeeds(n) \/ Delivers(n)
<1>1. CASE UNCHANGED vars
  <2>1. TypeOK'
    BY <1>1, Shapes, ShapesNext DEF Rows, vars
  <2>2. RowsAreBare' /\ BusyWorkers'
    BY <1>1, WorkerSame DEF Rows, RowsAreBare, Bare, vars
  <2> QED BY <1>1, <2>1, <2>2, SameIsQuiet DEF Rows, Quiet, vars
<1>2. CASE MaterializeDue \/ MaterializeOne
  BY <1>2, MaterializeFacts DEF Begins
<1>3. ASSUME NEW n \in Cycles, CycleSucceeds(n)
      PROVE  Rows' /\ Succeeds(n)
  BY <1>3, CycleSucceedsFacts DEF Succeeds
<1>4. ASSUME NEW w \in Workers, FinalizeSuccess(w)
      PROVE  Rows' /\ (Quiet \/ \E n \in Cycles : Delivers(n))
  <2>1. /\ Rows'
        /\ \/ Quiet
           \/ worker[w].job \in Cycles /\ Delivers(worker[w].job)
    BY <1>4, FinalizeSuccessFacts DEF Delivers
  <2> QED BY <2>1
<1>5. CASE IngestByHand \/ Restore \/ Login \/ Upgrade \/ Configure \/ Remove
  BY <1>5, IngestByHandRows, RebindRows, RemoveRows
<1>6. ASSUME NEW n \in Cycles,
             \/ CycleEnds(n) \/ CycleAttempt(n) \/ Reclaim(n) \/ LeaseLapses(n)
             \/ \E w \in Workers : Claim(w, n)
      PROVE  Rows' /\ Quiet
  BY <1>6, CycleGoesOnRows, ReclaimRows, LeaseLapsesRows, ClaimRows
<1>7. ASSUME NEW w \in Workers,
             \/ Start(w) \/ Select(w) \/ Reselect(w) \/ Export(w) \/ PipelineFails(w)
             \/ FinalizeFailure(w) \/ DatabaseFails(w) \/ Abandon(w)
             \/ \E c \in Contents : Fetch(w, c)
      PROVE  Rows' /\ Quiet
  BY <1>7, StartRows, SelectRows, ReselectRows, ReturnRows, FinalizeFailureRows, FetchRows
<1>8. ASSUME NEW c \in Contents, Replace(c) \/ FetchedElsewhere(c)
      PROVE  Rows' /\ Quiet
  BY <1>8, ReplaceRows
<1>9. CASE CycleNext
  BY <1>2, <1>3, <1>5, <1>6, <1>9 DEF CycleNext
<1>10. CASE WorkerNext
  BY <1>4, <1>6, <1>7, <1>10 DEF WorkerNext
<1>11. CASE OthersNext
  BY <1>5, <1>6, <1>8, <1>11 DEF OthersNext
<1> QED BY <1>1, <1>9, <1>10, <1>11 DEF Next

(* The rows and what the workers remember have the shapes TypeOK gives: no      *)
(* attempt is claimed past max_attempts, no cycle or row carries a revision     *)
(* that is none (JobRepository, BiliDeliveryProgressRepository).                *)
THEOREM TypeCorrect == Spec => []TypeOK
<1>1. Rows /\ [Next]_vars => Rows'
  BY StepKinds
<1>2. Rows => TypeOK
  BY DEF Rows
<1> QED BY InitRows, <1>1, <1>2, PTL DEF Spec

--------------------------------------------------------------------------------
(* The ledger: what relates the progress to the cycles and their coordinators   *)

JobsFollow == \A n \in Cycles : job[n].status # "absent" <=> cycle[n].status = "succeeded"

(* Cycles begin in the order of their numbers, and only the last may run.       *)
BegunInOrder ==
  \A n \in Cycles : /\ cycle[n].status # "none" => n <= sub.rev
                    /\ cycle[n].status = "active" => n = sub.rev

(* What begins after a cycle whose coordinator is under way had no binding.     *)
OvertakenUnbound ==
  \A n, m \in Cycles :
    job[n].status \in AliveStatuses /\ n < m /\ m <= sub.rev => cycle[m].unbound

Order == JobsFollow /\ BegunInOrder /\ OvertakenUnbound

RowIsPast == progress.rev <= sub.rev + 1

(* What the row counted was delivered under its binding, and is not later than  *)
(* the revision it holds.                                                       *)
CountedAreOurs ==
  \A n \in progress.counted :
    Delivered(n) /\ BoundTo(cycle[n], progress) /\ n <= progress.rev

LastIsCounted == progress.last # NoCycle => progress.last \in progress.counted

(* A row that has left the backfill, or says so, has a delivered history end.   *)
EndIsBehind ==
  HasEnd(progress) =>
    \E end \in Cycles :
      /\ Delivered(end) /\ Sealed(cycle[end]) /\ cycle[end].source = progress.source
      /\ end <= progress.rev

RowLedger == RowIsPast /\ CountedAreOurs /\ LastIsCounted /\ EndIsBehind /\ BaselineIsEarned

IInv == Rows /\ Order /\ RowLedger

(* Numbers the ledger compares.                                                 *)
LEMMA Numbers ==
  ASSUME Rows
  PROVE  /\ Cycles \subseteq Nat /\ NoCycle \notin Cycles
         /\ sub.ckpt \in Nat /\ sub.rev \in Nat
         /\ progress.ckpt \in Nat /\ progress.rev \in Nat
         /\ progress.counted \subseteq Cycles
         /\ progress.last \in {NoCycle} \cup Cycles /\ progress.phase \in Phases
         /\ \A n \in Cycles :
              /\ cycle[n].before \in Nat /\ cycle[n].lane \in {"head", "history"}
              /\ cycle[n].status \in {"none", "active", "succeeded", "ended"}
<1>1. /\ sub \in Subs /\ progress \in ProgressRows /\ cycle \in [Cycles -> CycleRows]
      /\ MaxCycles \in Nat
  BY Shapes, DeliveryAssumption DEF Rows, DeliveryAssumption
<1>2. Cycles \subseteq Nat /\ NoCycle \notin Cycles
  BY <1>1 DEF Cycles, NoCycle
<1>3. sub.ckpt \in Nat /\ sub.rev \in Nat
  BY <1>1 DEF Subs
<1>4. /\ progress.ckpt \in Nat /\ progress.rev \in Nat /\ progress.counted \subseteq Cycles
      /\ progress.last \in {NoCycle} \cup Cycles /\ progress.phase \in Phases
  BY <1>1 DEF ProgressRows
<1>5. \A n \in Cycles :
        /\ cycle[n].before \in Nat /\ cycle[n].lane \in {"head", "history"}
        /\ cycle[n].status \in {"none", "active", "succeeded", "ended"}
  BY <1>1 DEF CycleRows
<1> QED BY <1>2, <1>3, <1>4, <1>5

(* The same of the next state.                                                  *)
LEMMA NumbersNext ==
  ASSUME Rows'
  PROVE  /\ sub'.ckpt \in Nat /\ sub'.rev \in Nat
         /\ progress'.ckpt \in Nat /\ progress'.rev \in Nat
         /\ progress'.counted \subseteq Cycles
         /\ \A n \in Cycles :
              cycle'[n].status \in {"none", "active", "succeeded", "ended"}
<1>1. sub' \in Subs /\ progress' \in ProgressRows /\ cycle' \in [Cycles -> CycleRows]
  BY ShapesNext DEF Rows
<1>2. sub'.ckpt \in Nat /\ sub'.rev \in Nat
  BY <1>1 DEF Subs
<1>3. progress'.ckpt \in Nat /\ progress'.rev \in Nat /\ progress'.counted \subseteq Cycles
  BY <1>1 DEF ProgressRows
<1>4. \A n \in Cycles : cycle'[n].status \in {"none", "active", "succeeded", "ended"}
  BY <1>1 DEF CycleRows
<1> QED BY <1>2, <1>3, <1>4

LEMMA InitLedger == Init => Order /\ RowLedger
<1>1. ASSUME Init
      PROVE  Order /\ RowLedger
  <2>1. Order
    BY <1>1 DEF Init, Order, JobsFollow, BegunInOrder, OvertakenUnbound, NoJobRow,
                NoCycleYet, AliveStatuses
  <2>2. RowIsPast /\ CountedAreOurs /\ LastIsCounted
    BY <1>1 DEF Init, RowIsPast, CountedAreOurs, LastIsCounted, NoRow
  <2>3. ~HasEnd(progress) /\ progress.phase # "incremental"
    BY <1>1 DEF Init, HasEnd, NoRow
  <2> QED BY <2>1, <2>2, <2>3 DEF RowLedger, EndIsBehind, BaselineIsEarned
<1> QED BY <1>1

LEMMA QuietOrder ==
  ASSUME Rows, Order, Quiet
  PROVE  Order'
<1>1. ASSUME NEW n \in Cycles
      PROVE  /\ cycle'[n].unbound = cycle[n].unbound
             /\ cycle'[n].status = "none" <=> cycle[n].status = "none"
             /\ cycle'[n].status = "active" => cycle[n].status = "active"
             /\ cycle'[n].status = "succeeded" <=> cycle[n].status = "succeeded"
  BY DEF Quiet, CyclesStayOrEnd
<1>2. JobsFollow'
  BY <1>1 DEF Order, JobsFollow, Quiet, JobsSettle
<1>3. sub'.rev = sub.rev
  BY DEF Quiet, SubAdvances
<1>4. BegunInOrder'
  BY <1>1, <1>3 DEF Order, BegunInOrder
<1>5. OvertakenUnbound'
  BY <1>1, <1>3 DEF Order, OvertakenUnbound, Quiet, JobsSettle
<1> QED BY <1>2, <1>4, <1>5 DEF Order

LEMMA BeginsOrder ==
  ASSUME Rows, Order, Begins
  PROVE  Order'
<1>1. CASE sub'.rev = sub.rev /\ UNCHANGED cycle
  BY <1>1 DEF Begins, Order, JobsFollow, BegunInOrder, OvertakenUnbound
<1>2. CASE /\ sub'.rev = sub.rev + 1 /\ sub'.rev \in Cycles
           /\ cycle'[sub'.rev].status = "active"
           /\ cycle'[sub'.rev].unbound \/ \A m \in Cycles : job[m].status \notin AliveStatuses
           /\ \A m \in Cycles \ {sub'.rev} : cycle'[m] = cycle[m]
  <2> DEFINE k == sub'.rev
  <2>1. k \in Cycles /\ k = sub.rev + 1 /\ sub.rev \in Nat /\ k \in Nat
    BY <1>2, Numbers
  <2>2. cycle[k].status = "none"
    BY <2>1 DEF Order, BegunInOrder
  <2>3. JobsFollow'
    BY <1>2, <2>2 DEF Begins, Order, JobsFollow
  <2>4. BegunInOrder'
    <3>1. ASSUME NEW n \in Cycles
          PROVE  /\ cycle'[n].status # "none" => n <= k
                 /\ cycle'[n].status = "active" => n = k
      <4>1. CASE n = k
        BY <2>1, <4>1
      <4>2. CASE n # k
        BY <1>2, <2>1, <4>2, Numbers DEF Begins, Order, BegunInOrder
      <4> QED BY <4>1, <4>2
    <3> QED BY <3>1 DEF BegunInOrder
  <2>5. OvertakenUnbound'
    <3>1. ASSUME NEW n \in Cycles, NEW m \in Cycles,
                 job'[n].status \in AliveStatuses, n < m, m <= k
          PROVE  cycle'[m].unbound
      <4>1. job[n].status \in AliveStatuses
        BY <3>1 DEF Begins
      <4>2. CASE m = k
        BY <1>2, <4>1, <4>2
      <4>3. CASE m # k
        <5>1. m <= sub.rev
          BY <2>1, <3>1, <4>3, Numbers
        <5> QED BY <1>2, <3>1, <4>1, <4>3, <5>1 DEF Order, OvertakenUnbound
      <4> QED BY <4>2, <4>3
    <3> QED BY <3>1 DEF OvertakenUnbound
  <2> QED BY <2>3, <2>4, <2>5 DEF Order
<1> QED BY <1>1, <1>2 DEF Begins, NextBegins

LEMMA SucceedsOrder ==
  ASSUME Rows, Order, NEW n \in Cycles, Succeeds(n)
  PROVE  /\ Order' /\ n = sub.rev
         /\ job[n].status = "absent" /\ job'[n].status = "queued"
<1>1. n = sub.rev /\ job[n].status = "absent" /\ job[n] \in JobRows
  BY RowFacts DEF Order, JobsFollow, BegunInOrder, Succeeds
<1>2. job'[n].status = "queued"
  BY <1>1 DEF Succeeds, Enqueued, JobRows
<1>3. JobsFollow'
  BY <1>2 DEF Order, JobsFollow, Succeeds
<1>4. BegunInOrder'
  BY <1>1, Numbers DEF Order, BegunInOrder, Succeeds
<1>5. OvertakenUnbound'
  <2>1. ASSUME NEW k \in Cycles, NEW m \in Cycles,
               job'[k].status \in AliveStatuses, k < m, m <= sub'.rev
        PROVE  cycle'[m].unbound
    <3>1. k # n /\ m <= sub.rev
      BY <1>1, <2>1, Numbers DEF Succeeds
    <3>2. cycle[m].unbound
      BY <2>1, <3>1 DEF Order, OvertakenUnbound, Succeeds
    <3> QED BY <3>2 DEF Succeeds
  <2> QED BY <2>1 DEF OvertakenUnbound
<1> QED BY <1>1, <1>2, <1>3, <1>4, <1>5 DEF Order

LEMMA DeliversOrder ==
  ASSUME Rows, Order, NEW n \in Cycles, Delivers(n)
  PROVE  Order'
<1>1. /\ UNCHANGED cycle /\ sub'.rev = sub.rev
      /\ \A m \in Cycles : /\ job'[m].status # "absent" <=> job[m].status # "absent"
                           /\ job'[m].status \in AliveStatuses =>
                                job[m].status \in AliveStatuses
  BY DEF Delivers, DeliveredNow, AliveStatuses
<1> QED BY <1>1 DEF Order, JobsFollow, BegunInOrder, OvertakenUnbound

(* What is delivered stays delivered as it was.                                 *)
HistoryStays ==
  \A n \in Cycles : Delivered(n) => Delivered(n)' /\ cycle'[n] = cycle[n]

(* So does what was earned, while the row stays as it is or is blocked.         *)
LEMMA RowStaysLedger ==
  ASSUME Rows, RowLedger, HistoryStays, RowStaysOrBlocks, sub'.rev >= sub.rev, Rows'
  PROVE  RowLedger'
<1>1. /\ progress'.source = progress.source /\ progress'.auth = progress.auth
      /\ progress'.rev = progress.rev /\ progress'.counted = progress.counted
      /\ progress'.last = progress.last /\ progress'.ended = progress.ended
      /\ progress'.phase \in {progress.phase, "blocked"}
  BY DEF RowStaysOrBlocks
<1>2. RowIsPast'
  BY <1>1, Numbers, NumbersNext DEF RowLedger, RowIsPast
<1>3. CountedAreOurs'
  BY <1>1, Numbers DEF RowLedger, CountedAreOurs, HistoryStays, BoundTo
<1>4. LastIsCounted'
  BY <1>1 DEF RowLedger, LastIsCounted
<1>5. EndIsBehind'
  BY <1>1 DEF RowLedger, EndIsBehind, HasEnd, HistoryStays, Sealed
<1>6. BaselineIsEarned'
  <2> SUFFICES ASSUME progress'.phase = "incremental"
               PROVE  BaselineIsEarned'
    BY DEF BaselineIsEarned
  <2>1. PICK end \in Cycles, head \in progress.counted :
          /\ end < head /\ Delivered(end) /\ Delivered(head)
          /\ Sealed(cycle[end]) /\ cycle[end].source = progress.source
          /\ cycle[head].lane = "head" /\ cycle[head].end /\ BoundTo(cycle[head], progress)
          /\ \A n \in progress.counted : n > head => cycle[n].lane = "head"
    BY <1>1 DEF RowLedger, BaselineIsEarned
  <2>2. /\ Delivered(end)' /\ Delivered(head)'
        /\ cycle'[end] = cycle[end] /\ cycle'[head] = cycle[head]
    BY <2>1, Numbers DEF HistoryStays
  <2>3. \A n \in progress'.counted : n > head => cycle'[n].lane = "head"
    BY <1>1, <2>1, Numbers DEF RowLedger, CountedAreOurs, HistoryStays
  <2>4. /\ Sealed(cycle[end])' /\ cycle'[end].source = progress'.source
        /\ cycle'[head].lane = "head" /\ cycle'[head].end /\ BoundTo(cycle[head], progress)'
    BY <1>1, <2>1, <2>2 DEF Sealed, BoundTo
  <2> QED BY <1>1, <2>1, <2>2, <2>3, <2>4 DEF BaselineIsEarned
<1> QED BY <1>2, <1>3, <1>4, <1>5, <1>6 DEF RowLedger

(* ... or is brought up to date, which claims no baseline.                      *)
LEMMA RowEnsuredLedger ==
  ASSUME Rows, RowLedger, HistoryStays, RowEnsured, sub'.rev >= sub.rev, Rows'
  PROVE  RowLedger'
<1>1. CASE progress' = progress
  <2>1. RowStaysOrBlocks
    BY <1>1, SameIsQuiet DEF Rows
  <2> QED BY <2>1, RowStaysLedger
<1>2. CASE progress'.rev = sub.rev + 1 /\ Descends(progress', progress)
  <2>1. progress'.rev >= progress.rev
    BY <1>2, Numbers DEF RowLedger, RowIsPast
  <2>2. RowIsPast'
    BY <1>2, Numbers, NumbersNext DEF RowIsPast
  <2>3. CountedAreOurs'
    <3>1. ASSUME NEW n \in progress'.counted
          PROVE  Delivered(n)' /\ BoundTo(cycle[n], progress)' /\ n <= progress'.rev
      <4>1. /\ progress'.counted = progress.counted
            /\ progress'.source = progress.source /\ progress'.auth = progress.auth
        BY <1>2, <3>1 DEF Descends
      <4>2. Delivered(n) /\ BoundTo(cycle[n], progress) /\ n <= progress.rev /\ n \in Cycles
        BY <3>1, <4>1, Numbers DEF RowLedger, CountedAreOurs
      <4>3. n <= progress'.rev
        BY <2>1, <4>2, Numbers, NumbersNext
      <4> QED BY <4>1, <4>2, <4>3 DEF HistoryStays, BoundTo
    <3> QED BY <3>1 DEF CountedAreOurs
  <2>4. LastIsCounted'
    BY <1>2 DEF RowLedger, LastIsCounted, Descends
  <2>5. EndIsBehind'
    <3> SUFFICES ASSUME HasEnd(progress')
                 PROVE  EndIsBehind'
      BY DEF EndIsBehind, HasEnd
    <3>1. HasEnd(progress) /\ progress'.source = progress.source
      BY <1>2 DEF Descends
    <3>2. PICK end \in Cycles :
            /\ Delivered(end) /\ Sealed(cycle[end]) /\ cycle[end].source = progress.source
            /\ end <= progress.rev
      BY <3>1 DEF RowLedger, EndIsBehind
    <3>3. end <= progress'.rev
      BY <2>1, <3>2, Numbers, NumbersNext
    <3>4. Delivered(end)' /\ Sealed(cycle[end])' /\ cycle'[end].source = progress'.source
      BY <3>1, <3>2 DEF Sealed, HistoryStays
    <3> QED BY <3>3, <3>4 DEF EndIsBehind
  <2>6. BaselineIsEarned'
    BY <1>2 DEF BaselineIsEarned, Descends
  <2> QED BY <2>2, <2>3, <2>4, <2>5, <2>6 DEF RowLedger
<1> QED BY <1>1, <1>2 DEF RowEnsured

(* The delivery of n that advances the row.                                     *)
LEMMA AdvancedLedger ==
  ASSUME Rows, Order, RowLedger, NEW n \in Cycles, Delivers(n), RowAdvanced(n), Rows',
         HistoryStays
  PROVE  RowLedger'
<1> DEFINE c == cycle[n]
<1>1. /\ job[n].status \in AliveStatuses /\ Delivered(n)' /\ UNCHANGED cycle
      /\ \A m \in Cycles : Delivered(m) => Delivered(m)' /\ m # n
  BY DEF Delivers, DeliveredNow, Delivered, AliveStatuses
<1>2. /\ c.source = progress.source /\ c.auth = progress.auth
      /\ progress'.source = progress.source /\ progress'.auth = progress.auth
      /\ progress'.phase = PhaseAfter(c, progress.phase)
      /\ progress'.ended = (progress.ended \/ Sealed(c))
      /\ progress'.last = n /\ progress'.rev = n
      /\ progress'.counted = progress.counted \cup {n}
      /\ n >= progress.rev /\ sub'.rev = sub.rev
  BY DEF RowAdvanced, SameBinding, Current, BoundTo, EvidenceHolds, Delivers
<1>3. n \in Nat /\ progress.rev \in Nat /\ progress.counted \subseteq Cycles
  BY Numbers
<1>4. RowIsPast'
  <2>1. n <= sub.rev
    BY <1>1 DEF Order, JobsFollow, BegunInOrder, AliveStatuses
  <2> QED BY <1>2, <1>3, <2>1, Numbers DEF RowIsPast
<1>5. CountedAreOurs'
  <2>1. ASSUME NEW m \in progress'.counted
        PROVE  Delivered(m)' /\ BoundTo(cycle[m], progress)' /\ m <= n
    <3>1. CASE m = n
      BY <1>1, <1>2, <1>3, <3>1 DEF BoundTo
    <3>2. CASE m # n
      <4>1. m \in progress.counted /\ m \in Cycles /\ m \in Nat
        BY <1>2, <1>3, <2>1, <3>2, Numbers
      <4>2. Delivered(m) /\ BoundTo(cycle[m], progress) /\ m <= progress.rev
        BY <4>1 DEF RowLedger, CountedAreOurs
      <4> QED BY <1>1, <1>2, <1>3, <4>1, <4>2 DEF BoundTo
    <3> QED BY <3>1, <3>2
  <2> QED BY <1>2, <2>1 DEF CountedAreOurs
<1>6. LastIsCounted'
  BY <1>2 DEF LastIsCounted
<1>7. HasEnd(progress) =>
        \E end \in Cycles :
          /\ Delivered(end) /\ Sealed(cycle[end]) /\ cycle[end].source = progress.source
          /\ end < n
  <2> SUFFICES ASSUME HasEnd(progress)
               PROVE  \E end \in Cycles :
                        /\ Delivered(end) /\ Sealed(cycle[end])
                        /\ cycle[end].source = progress.source /\ end < n
    OBVIOUS
  <2>1. PICK end \in Cycles :
          /\ Delivered(end) /\ Sealed(cycle[end]) /\ cycle[end].source = progress.source
          /\ end <= progress.rev
    BY DEF RowLedger, EndIsBehind
  <2>2. end \in Nat /\ end # n
    BY <1>1, <2>1, Numbers
  <2>3. end < n
    BY <1>2, <1>3, <2>1, <2>2
  <2> QED BY <2>1, <2>3
<1>8. EndIsBehind'
  <2> SUFFICES ASSUME HasEnd(progress')
               PROVE  EndIsBehind'
    BY DEF EndIsBehind, HasEnd
  <2>1. CASE Sealed(c)
    BY <1>1, <1>2, <1>3, <2>1 DEF EndIsBehind, Sealed
  <2>2. CASE ~Sealed(c)
    <3>1. HasEnd(progress)
      <4>1. progress'.ended => progress.ended
        BY <1>2, <2>2
      <4> QED BY <1>2, <2>2, <4>1 DEF HasEnd, PhaseAfter
    <3>2. PICK end \in Cycles :
            /\ Delivered(end) /\ Sealed(cycle[end]) /\ cycle[end].source = progress.source
            /\ end < n
      BY <1>7, <3>1
    <3>3. end <= n
      BY <1>3, <3>2, Numbers
    <3>4. Delivered(end)' /\ Sealed(cycle[end])' /\ cycle'[end].source = progress'.source
      BY <1>1, <1>2, <3>2 DEF Sealed
    <3> QED BY <1>2, <3>3, <3>4 DEF EndIsBehind
  <2> QED BY <2>1, <2>2
<1>9. BaselineIsEarned'
  <2> SUFFICES ASSUME progress'.phase = "incremental"
               PROVE  BaselineIsEarned'
    BY DEF BaselineIsEarned
  <2>1. c.lane = "head" \/ c.lane = "history"
    BY Numbers
  <2>2. /\ c.lane = "head"
        /\ \/ progress.phase = "reconciling" /\ c.end
           \/ progress.phase = "incremental"
    BY <1>2, <2>1 DEF PhaseAfter
  <2>3. CASE progress.phase = "reconciling" /\ c.end
    <3>1. PICK end \in Cycles :
            /\ Delivered(end) /\ Sealed(cycle[end]) /\ cycle[end].source = progress.source
            /\ end < n
      BY <1>7, <2>3 DEF HasEnd
    <3>2. /\ Delivered(end)' /\ Sealed(cycle[end])' /\ cycle'[end].source = progress'.source
          /\ cycle'[n].lane = "head" /\ cycle'[n].end /\ BoundTo(cycle[n], progress)'
      BY <1>1, <1>2, <2>2, <2>3, <3>1 DEF Sealed, BoundTo
    <3>3. ASSUME NEW m \in progress'.counted
          PROVE  ~(m > n)
      <4>1. m <= progress'.rev /\ m \in Nat
        BY <1>5, NumbersNext, Numbers DEF CountedAreOurs
      <4> QED BY <1>2, <1>3, <4>1
    <3> QED BY <1>1, <1>2, <3>1, <3>2, <3>3 DEF BaselineIsEarned
  <2>4. CASE progress.phase = "incremental"
    <3>1. PICK end \in Cycles, head \in progress.counted :
            /\ end < head /\ Delivered(end) /\ Delivered(head)
            /\ Sealed(cycle[end]) /\ cycle[end].source = progress.source
            /\ cycle[head].lane = "head" /\ cycle[head].end /\ BoundTo(cycle[head], progress)
            /\ \A m \in progress.counted : m > head => cycle[m].lane = "head"
      BY <2>4 DEF RowLedger, BaselineIsEarned
    <3>2. \A m \in progress'.counted : m > head => cycle'[m].lane = "head"
      BY <1>1, <1>2, <2>2, <3>1
    <3>3. /\ Delivered(end)' /\ Delivered(head)' /\ Sealed(cycle[end])'
          /\ cycle'[end].source = progress'.source /\ head \in progress'.counted
          /\ cycle'[head].lane = "head" /\ cycle'[head].end /\ BoundTo(cycle[head], progress)'
      BY <1>1, <1>2, <1>3, <3>1 DEF Sealed, BoundTo
    <3> QED BY <3>1, <3>2, <3>3 DEF BaselineIsEarned
  <2> QED BY <2>2, <2>3, <2>4
<1> QED BY <1>4, <1>5, <1>6, <1>8, <1>9 DEF RowLedger

LEMMA DeliversLedger ==
  ASSUME Rows, Order, RowLedger, NEW n \in Cycles, Delivers(n), Rows'
  PROVE  RowLedger'
<1>1. HistoryStays /\ sub'.rev >= sub.rev
  BY Numbers DEF HistoryStays, Delivers, DeliveredNow, Delivered
<1>2. CASE UNCHANGED <<sub, progress>>
  BY <1>1, <1>2, RowEnsuredLedger DEF RowEnsured
<1>3. CASE RowEnsured
  BY <1>1, <1>3, RowEnsuredLedger
<1>4. CASE RowAdvanced(n)
  BY <1>1, <1>4, AdvancedLedger
<1> QED BY <1>2, <1>3, <1>4 DEF Delivers, RowPublished

LEMMA OtherLedger ==
  ASSUME Rows, Order, RowLedger, Rows',
         Quiet \/ Begins \/ \E n \in Cycles : Succeeds(n)
  PROVE  Order' /\ RowLedger'
<1>1. CASE Quiet
  <2>1. HistoryStays
    BY <1>1 DEF HistoryStays, Delivered, Quiet, JobsSettle, CyclesStayOrEnd, Order, JobsFollow
  <2>2. RowStaysOrBlocks /\ sub'.rev >= sub.rev
    BY <1>1, Numbers DEF Quiet, SubAdvances
  <2> QED BY <1>1, <2>1, <2>2, QuietOrder, RowStaysLedger
<1>2. CASE Begins
  <2>1. HistoryStays
    <3>1. ASSUME NEW n \in Cycles, Delivered(n)
          PROVE  Delivered(n)' /\ cycle'[n] = cycle[n]
      <4>1. cycle[n].status = "succeeded" /\ n <= sub.rev
        BY <3>1 DEF Order, JobsFollow, BegunInOrder, Delivered
      <4>2. UNCHANGED cycle \/ (sub'.rev = sub.rev + 1
                                 /\ \A m \in Cycles \ {sub'.rev} : cycle'[m] = cycle[m])
        BY <1>2 DEF Begins, NextBegins
      <4>3. cycle'[n] = cycle[n]
        BY <4>1, <4>2, Numbers
      <4> QED BY <1>2, <3>1, <4>3 DEF Begins, Delivered
    <3> QED BY <3>1 DEF HistoryStays
  <2>2. RowEnsured /\ sub'.rev >= sub.rev
    BY <1>2, Numbers DEF Begins, NextBegins
  <2> QED BY <1>2, <2>1, <2>2, BeginsOrder, RowEnsuredLedger
<1>3. ASSUME NEW n \in Cycles, Succeeds(n)
      PROVE  Order' /\ RowLedger'
  <2>1. Order' /\ job[n].status = "absent"
    BY <1>3, SucceedsOrder
  <2>2. HistoryStays
    BY <1>3, <2>1 DEF HistoryStays, Delivered, Succeeds
  <2>3. RowStaysOrBlocks /\ sub'.rev >= sub.rev
    BY <1>3, SameIsQuiet, Numbers DEF Succeeds, Rows
  <2> QED BY <2>1, <2>2, <2>3, RowStaysLedger
<1> QED BY <1>1, <1>2, <1>3

LEMMA IInvHolds == Spec => []IInv
<1>1. Init => IInv
  BY InitRows, InitLedger DEF IInv
<1>2. IInv /\ [Next]_vars => IInv'
  BY StepKinds, OtherLedger, DeliversOrder, DeliversLedger DEF IInv
<1> QED BY <1>1, <1>2, PTL DEF Spec

(* publish_success makes a subscription incremental only after a delivered      *)
(* history end of its source and a delivered stable head of its binding that    *)
(* the row counted, and the row counts only head scans while it stays so; what  *)
(* is delivered while there is no binding the row does not count.               *)
THEOREM BaselineEarned == Spec => []BaselineIsEarned
<1>1. IInv => BaselineIsEarned
  BY DEF IInv, RowLedger
<1> QED BY <1>1, IInvHolds, PTL

--------------------------------------------------------------------------------
(* What an attempt reports *)

(* The selection covers what the Run observed; when it is checked, it is what   *)
(* was downloaded or has failed, and what was downloaded is there, or replaced. *)
Covered(mind) == mind.seen \subseteq mind.selected /\ mind.done \subseteq mind.selected

Looked(mind, there) ==
  mind.selected \subseteq mind.done \cup mind.failed /\ mind.done \subseteq there \cup mind.replaced

Sound(mind, there) ==
  /\ mind.pc \in {"claimed", "started"} => mind.done = {}
  /\ mind.pc \in {"fetching", "checked"} => Covered(mind)
  /\ mind.pc = "checked" => Looked(mind, there)

Selections == \A w \in Workers : Sound(worker[w], verified)

(* One mind changes, and what is there stays.                                   *)
LEMMA SelectionsSet ==
  ASSUME Rows, Selections, NEW w \in Workers, NEW mind, Set(w, mind),
         verified \subseteq verified', Sound(mind, verified')
  PROVE  Selections'
<1>1. worker \in [Workers -> Minds]
  BY Shapes DEF Rows
<1>2. worker'[w] = mind /\ \A v \in Workers \ {w} : worker'[v] = worker[v]
  BY <1>1 DEF Set
<1>3. \A v \in Workers : Sound(worker[v], verified')
  BY DEF Selections, Sound, Looked
<1> QED BY <1>2, <1>3 DEF Selections

LEMMA SelectSelections ==
  ASSUME Rows, Selections, NEW w \in Workers, Select(w)
  PROVE  Selections'
<1> DEFINE mind == [worker[w] EXCEPT !.pc = "fetching", !.selected = Selection(worker[w].seen)]
<1>1. worker[w] \in Minds /\ worker[w].done = {}
  BY Shapes DEF Rows, Selections, Sound, Select
<1>2. mind.pc = "fetching" /\ mind.selected = Selection(mind.seen) /\ mind.done = {}
  BY <1>1 DEF Minds
<1>3. Set(w, mind) /\ verified' = verified
  BY DEF Select
<1> HIDE DEF mind
<1>4. Sound(mind, verified')
  BY <1>2 DEF Sound, Covered, Selection
<1> QED BY <1>3, <1>4, SelectionsSet

LEMMA FetchSelections ==
  ASSUME Rows, Selections, NEW w \in Workers, NEW c \in Contents, Fetch(w, c)
  PROVE  Selections'
<1> DEFINE got    == [worker[w] EXCEPT !.done = @ \cup {c}]
           missed == [worker[w] EXCEPT !.failed = @ \cup {c}]
<1>1. worker[w] \in Minds /\ worker[w].pc = "fetching" /\ Covered(worker[w])
      /\ c \in worker[w].selected
  BY Shapes DEF Rows, Selections, Sound, Fetch
<1>2. /\ got.pc = "fetching" /\ got.seen = worker[w].seen
      /\ got.selected = worker[w].selected /\ got.done = worker[w].done \cup {c}
      /\ missed.pc = "fetching" /\ missed.seen = worker[w].seen
      /\ missed.selected = worker[w].selected /\ missed.done = worker[w].done
  BY <1>1 DEF Minds
<1>3. (Set(w, got) \/ Set(w, missed)) /\ verified \subseteq verified'
  BY DEF Fetch
<1> HIDE DEF got, missed
<1>4. Sound(got, verified') /\ Sound(missed, verified')
  BY <1>1, <1>2 DEF Sound, Covered
<1> QED BY <1>3, <1>4, SelectionsSet

LEMMA ReselectSelections ==
  ASSUME Rows, Selections, NEW w \in Workers, Reselect(w)
  PROVE  Selections'
<1> DEFINE checked == [worker[w] EXCEPT !.pc = "checked", !.replaced = {}]
           failing == Returned(w, "failing", TRUE)
<1>1. /\ worker[w] \in Minds /\ Covered(worker[w])
      /\ worker[w].selected = worker[w].done \cup worker[w].failed
  BY Shapes DEF Rows, Selections, Sound, Reselect
<1>2. /\ checked.pc = "checked" /\ checked.seen = worker[w].seen
      /\ checked.selected = worker[w].selected /\ checked.done = worker[w].done
      /\ checked.failed = worker[w].failed
  BY <1>1 DEF Minds
<1>3. failing.pc = "failing"
  BY ReturnedFacts DEF Points
<1>4. /\ verified' = verified
      /\ \/ Set(w, checked) /\ worker[w].done \subseteq verified
         \/ Set(w, failing)
  BY DEF Reselect, NothingChanged
<1> HIDE DEF checked, failing
<1>5. /\ worker[w].done \subseteq verified => Sound(checked, verified)
      /\ Sound(failing, verified)
  BY <1>1, <1>2, <1>3 DEF Sound, Covered, Looked
<1> QED BY <1>4, <1>5, SelectionsSet

(* Steps after which a worker holds no selection.                               *)
LEMMA OtherSelections ==
  ASSUME Rows, Selections, NEW w \in Workers,
         \/ Start(w) \/ Export(w) \/ PipelineFails(w) \/ FinalizeSuccess(w)
         \/ FinalizeFailure(w) \/ DatabaseFails(w) \/ Abandon(w)
         \/ \E n \in Cycles : Claim(w, n)
  PROVE  Selections'
<1>1. verified' = verified
  BY DEF Start, Export, PipelineFails, FinalizeSuccess, FinalizeFailure, DatabaseFails,
         Abandon, Claim
<1>2. ASSUME NEW b \in BOOLEAN, NEW pc \in {"exported", "failing"}
      PROVE  Sound(Returned(w, pc, b), verified')
  <2>1. pc \in Points
    BY DEF Points
  <2>2. Returned(w, pc, b).pc = pc
    BY <2>1, ReturnedFacts
  <2> QED BY <2>2 DEF Sound
<1>3. Sound(IdleWorker, verified')
  BY IdleFacts DEF Sound
<1>4. CASE \/ Export(w) \/ PipelineFails(w) \/ FinalizeSuccess(w)
           \/ FinalizeFailure(w) \/ DatabaseFails(w) \/ Abandon(w)
  <2>1. \/ Set(w, IdleWorker)
        \/ \E b \in BOOLEAN, pc \in {"exported", "failing"} : Set(w, Returned(w, pc, b))
    BY <1>4 DEF Export, PipelineFails, FinalizeSuccess, FinalizeFailure, DatabaseFails, Abandon
  <2> QED BY <1>1, <1>2, <1>3, <2>1, SelectionsSet
<1>5. CASE Start(w)
  <2> DEFINE mind == [worker[w] EXCEPT !.pc = "started"]
  <2>1. worker[w] \in Minds /\ worker[w].done = {}
    BY <1>5, Shapes DEF Rows, Selections, Sound, Start
  <2>2. mind.pc = "started" /\ mind.done = {}
    BY <2>1 DEF Minds
  <2>3. Set(w, mind) \/ Set(w, IdleWorker)
    BY <1>5 DEF Start
  <2> HIDE DEF mind
  <2>4. Sound(mind, verified')
    BY <2>2 DEF Sound
  <2> QED BY <1>1, <1>3, <2>3, <2>4, SelectionsSet
<1>6. ASSUME NEW n \in Cycles, Claim(w, n)
      PROVE  Selections'
  <2> DEFINE mind == [IdleWorker EXCEPT !.pc = "claimed", !.job = n,
                                        !.token = job[n].attempts + 1,
                                        !.seen = cycle[n].seen]
  <2>1. IdleWorker.done = {}
    BY DEF IdleWorker
  <2>2. mind.pc = "claimed" /\ mind.done = {}
    BY <2>1, IdleFacts DEF Minds
  <2>3. Set(w, mind)
    BY <1>6 DEF Claim
  <2> HIDE DEF mind
  <2>4. Sound(mind, verified')
    BY <2>2 DEF Sound
  <2> QED BY <1>1, <2>3, <2>4, SelectionsSet
<1> QED BY <1>4, <1>5, <1>6

LEMMA ReplaceSelections ==
  ASSUME Rows, Selections, NEW c \in Contents, Replace(c)
  PROVE  Selections'
<1>1. worker \in [Workers -> Minds]
  BY Shapes DEF Rows
<1>2. ASSUME NEW w \in Workers
      PROVE  Sound(worker[w], verified)'
  <2> DEFINE mind == worker'[w]
  <2>1. /\ mind = [worker[w] EXCEPT !.replaced = @ \cup ({c} \cap worker[w].selected)]
        /\ verified' = verified \ {c}
    BY DEF Replace
  <2>2. /\ mind.pc = worker[w].pc /\ mind.seen = worker[w].seen /\ mind.done = worker[w].done
        /\ mind.selected = worker[w].selected /\ mind.failed = worker[w].failed
        /\ mind.replaced = worker[w].replaced \cup ({c} \cap worker[w].selected)
    BY <1>1, <2>1 DEF Minds
  <2>3. Sound(worker[w], verified)
    BY DEF Selections
  <2> QED BY <2>1, <2>2, <2>3 DEF Sound, Covered, Looked
<1> QED BY <1>2 DEF Selections

LEMMA SelectionsStep ==
  ASSUME Rows, Selections, [Next]_vars
  PROVE  Selections'
<1>1. CASE worker' = worker /\ verified \subseteq verified'
  BY <1>1 DEF Selections, Sound, Looked
<1>2. ASSUME \/ MaterializeDue \/ MaterializeOne \/ IngestByHand
             \/ Remove \/ Restore \/ Login \/ Configure
             \/ \E n \in Cycles : \/ CycleAttempt(n) \/ CycleSucceeds(n) \/ CycleEnds(n)
                                 \/ Reclaim(n) \/ LeaseLapses(n)
             \/ \E c \in Contents : FetchedElsewhere(c)
             \/ UNCHANGED vars
      PROVE  worker' = worker /\ verified \subseteq verified'
  BY <1>2 DEF MaterializeDue, MaterializeOne, Materialize, IngestByHand, Remove, Restore,
     Login, Configure, CycleAttempt, CycleSucceeds, CycleEnds, Reclaim, LeaseLapses,
     FetchedElsewhere, vars
<1>3. CASE Upgrade
  <2>1. \A w \in Workers : worker'[w].pc = "idle"
    BY <1>3, IdleFacts DEF Upgrade
  <2> QED BY <2>1 DEF Selections, Sound
<1>4. ASSUME NEW w \in Workers,
             \/ Start(w) \/ Export(w) \/ PipelineFails(w) \/ FinalizeSuccess(w)
             \/ FinalizeFailure(w) \/ DatabaseFails(w) \/ Abandon(w)
             \/ \E n \in Cycles : Claim(w, n)
      PROVE  Selections'
  BY <1>4, OtherSelections
<1>5. ASSUME NEW w \in Workers,
             Select(w) \/ Reselect(w) \/ \E c \in Contents : Fetch(w, c)
      PROVE  Selections'
  BY <1>5, SelectSelections, ReselectSelections, FetchSelections
<1>6. ASSUME NEW c \in Contents, Replace(c)
      PROVE  Selections'
  BY <1>6, ReplaceSelections
<1>7. CASE CycleNext
  BY <1>1, <1>2, <1>7 DEF CycleNext
<1>8. CASE WorkerNext
  BY <1>1, <1>2, <1>4, <1>5, <1>8 DEF WorkerNext
<1>9. CASE OthersNext
  BY <1>1, <1>2, <1>3, <1>6, <1>9 DEF OthersNext
<1> QED BY <1>1, <1>2, <1>7, <1>8, <1>9 DEF Next

(* What an attempt of _run_content_scoped reports as delivered is in the library *)
(* it has exported, or was replaced since its last look.                        *)
THEOREM ReceiptsAreTrue == Spec => ReceiptIsTrue
<1>1. Init => Selections
  BY IdleFacts DEF Init, Selections, Sound
<1>2. Rows /\ Selections /\ [Next]_vars => Selections'
  BY SelectionsStep
<1>3. Rows /\ [Next]_vars => Rows'
  BY StepKinds
<1>4. Selections => \A w \in Workers :
        worker[w].pc = "checked" /\ worker'[w].pc = "exported" =>
          worker[w].seen \ worker[w].failed \subseteq verified \cup worker[w].replaced
  BY DEF Selections, Sound, Covered, Looked
<1> QED BY InitRows, <1>1, <1>2, <1>3, <1>4, PTL DEF Spec, ReceiptIsTrue

--------------------------------------------------------------------------------
(* Falling behind *)

Excused ==
  \/ sub'.removed /\ ~sub.removed
  \/ sub'.ckpt # sub.ckpt /\ UNCHANGED <<progress, cycle, job>>
  \/ \E n \in Cycles : Expired(job[n]) /\ job'[n].status = "failed_terminal"
  \/ ~Current(sub, progress) /\ UNCHANGED <<progress, cycle, job>>
  \/ \E n \in Cycles : Foreign(n)
  \/ \E n, m \in Cycles : Awaited(n) /\ n < m /\ cycle[m].unbound

NotSilent == LeftBehind' /\ ~LeftBehind => Excused

(* A coordinator under way has its Run.                                         *)
LEMMA AliveHaveRun ==
  ASSUME Order, NEW n \in Cycles, Alive(n)
  PROVE  /\ cycle[n].status = "succeeded" /\ n <= sub.rev
         /\ job[n].status \in AliveStatuses
BY DEF Order, JobsFollow, BegunInOrder, Alive, AliveStatuses

(* What a coordinator waits for stays, where its Run and the binding do.        *)
LEMMA StillAwaited ==
  ASSUME SameBinds, sub'.ckpt = sub.ckpt, progress' = progress,
         NEW n \in Cycles, Awaited(n), Alive(n)', cycle'[n] = cycle[n]
  PROVE  Awaited(n)'
BY DEF SameBinds, Awaited, SameBinding, Current, BoundTo, EvidenceHolds

LEMMA NobodyEnds ==
  ASSUME SameBinds, sub'.ckpt = sub.ckpt, progress' = progress,
         \A n \in Cycles : Awaited(n) => Alive(n)' /\ cycle'[n] = cycle[n]
  PROVE  LeftBehind' => LeftBehind
<1>1. \A n \in Cycles : Awaited(n) => Awaited(n)'
  BY StillAwaited
<1>2. Current(sub, progress)' => Current(sub, progress)
  BY DEF Current, BoundTo, SameBinds
<1> QED BY <1>1, <1>2 DEF LeftBehind

LEMMA UpToDate ==
  ASSUME progress'.ckpt = sub'.ckpt
  PROVE  ~LeftBehind'
BY DEF LeftBehind

LEMMA JobGoesOn ==
  ASSUME Rows, NEW n \in Cycles, NEW row, SetJob(n, row), Kept(row) \in JobRows,
         Kept(row).status \in AliveStatuses, UNCHANGED <<sub, progress, cycle>>
  PROVE  LeftBehind' => LeftBehind
<1>1. job' \in [Cycles -> JobRows] /\ job'[n] = Kept(row)
      /\ \A m \in Cycles \ {n} : job'[m] = job[m]
  BY SetJobFacts
<1>2. \A m \in Cycles : Awaited(m) => Alive(m)' /\ cycle'[m] = cycle[m]
  BY <1>1 DEF Awaited, Alive, AliveStatuses
<1> QED BY <1>2, NobodyEnds DEF SameBinds

LEMMA JobStepsLoud ==
  ASSUME IInv, NEW n \in Cycles,
         Reclaim(n) \/ LeaseLapses(n) \/ \E w \in Workers : Claim(w, n)
  PROVE  NotSilent
<1>0. Rows
  BY DEF IInv
<1>1. CASE Reclaim(n)
  <2> DEFINE row == Kept(Reclaimed(job[n]))
  <2>1. /\ Expired(job[n]) /\ SetJob(n, Reclaimed(job[n])) /\ UNCHANGED <<sub, progress, cycle>>
    BY <1>1 DEF Reclaim
  <2>2. /\ row \in JobRows /\ row.status \in {"failed_retryable", "failed_terminal"}
        /\ Bare(row)
    BY <1>0, <2>1, RowFacts, JobWrites
  <2>3. CASE row.status = "failed_retryable"
    BY <1>0, <2>1, <2>2, <2>3, JobGoesOn DEF AliveStatuses, NotSilent
  <2>4. CASE row.status = "failed_terminal"
    <3>1. job'[n] = row
      BY <1>0, <2>1, <2>2, SetJobFacts
    <3> QED BY <2>1, <2>4, <3>1 DEF NotSilent, Excused
  <2> QED BY <2>2, <2>3, <2>4
<1>2. CASE LeaseLapses(n)
  <2>1. job[n].lease = "live" /\ SetJob(n, Lapsed(job[n])) /\ UNCHANGED <<sub, progress, cycle>>
    BY <1>2 DEF LeaseLapses
  <2>2. /\ job[n].status \in AliveStatuses
        /\ Kept(Lapsed(job[n])) \in JobRows /\ Kept(Lapsed(job[n])).status = job[n].status
    BY <1>0, <2>1, RowFacts, JobWrites
  <2> QED BY <1>0, <2>1, <2>2, JobGoesOn DEF NotSilent
<1>3. ASSUME NEW w \in Workers, Claim(w, n)
      PROVE  NotSilent
  <2> DEFINE token == job[n].attempts + 1
  <2>1. Claimable(job[n]) /\ SetJob(n, Claimed(job[n], token)) /\ UNCHANGED <<sub, progress, cycle>>
    BY <1>3 DEF Claim
  <2>2. token \in Tokens
    <3>1. job[n].attempts \in 0..MaxAttempts /\ job[n].attempts < MaxAttempts
      BY <1>0, <2>1, RowFacts DEF JobRows, Claimable
    <3> QED BY <3>1, DeliveryAssumption, JobAssumption DEF DeliveryAssumption, JobAssumption
  <2> HIDE DEF token
  <2>3. /\ Kept(Claimed(job[n], token)) \in JobRows
        /\ Kept(Claimed(job[n], token)).status = "claimed"
    BY <1>0, <2>1, <2>2, RowFacts, JobWrites
  <2> QED BY <1>0, <2>1, <2>3, JobGoesOn DEF AliveStatuses, NotSilent
<1> QED BY <1>1, <1>2, <1>3

LEMMA NothingHappens ==
  ASSUME UNCHANGED <<sub, progress, cycle, job>>
  PROVE  NotSilent
BY NobodyEnds DEF NotSilent, SameBinds, Awaited, Alive

LEMMA StartLoud ==
  ASSUME IInv, NEW w \in Workers, Start(w)
  PROVE  NotSilent
<1> DEFINE n == worker[w].job
<1>0. Rows
  BY DEF IInv
<1>1. /\ worker[w].pc # "idle" /\ UNCHANGED <<sub, progress, cycle>>
      /\ \/ Owns(job[n], worker[w].token) /\ SetJob(n, Renewed(Started(job[n])))
         \/ UNCHANGED job
  BY DEF Start
<1>2. n \in Cycles /\ worker[w].token \in Tokens
  BY <1>0, <1>1 DEF Rows, BusyWorkers
<1> HIDE DEF n
<1>3. CASE UNCHANGED job
  BY <1>1, <1>3, NothingHappens
<1>4. CASE Owns(job[n], worker[w].token) /\ SetJob(n, Renewed(Started(job[n])))
  <2>1. /\ Kept(Renewed(Started(job[n]))) \in JobRows
        /\ Kept(Renewed(Started(job[n]))).status = "running"
    BY <1>0, <1>2, <1>4, RowFacts, JobWrites
  <2> QED BY <1>0, <1>1, <1>2, <1>4, <2>1, JobGoesOn DEF AliveStatuses, NotSilent
<1> QED BY <1>1, <1>3, <1>4

(* A coordinator that is given up by its worker blocks a progress that waits    *)
(* for it, unless it is not the latest, and then the latest had no binding.     *)
LEMMA FinalizeFailureLoud ==
  ASSUME IInv, NEW w \in Workers, FinalizeFailure(w)
  PROVE  NotSilent
<1> DEFINE n    == worker[w].job
           b    == worker[w].retryable
           next == Failed(job[n], b)
<1>0. Rows /\ Order /\ sub \in Subs
  BY Shapes DEF IInv, Rows
<1>1. /\ worker[w].pc # "idle" /\ UNCHANGED <<sub, cycle>>
      /\ \/ UNCHANGED <<job, progress>>
         \/ /\ Owns(job[n], worker[w].token) /\ SetJob(n, next)
            /\ next.status = "failed_terminal" => progress' = Blocked(n, sub, progress)
            /\ next.status # "failed_terminal" => progress' = progress
  BY DEF FinalizeFailure
<1>2. n \in Cycles /\ worker[w].token \in Tokens /\ b \in BOOLEAN
  BY <1>0, <1>1, Shapes DEF Rows, BusyWorkers, Minds
<1> HIDE DEF n, b
<1>3. CASE UNCHANGED <<job, progress>>
  BY <1>1, <1>3, NothingHappens
<1>4. CASE /\ Owns(job[n], worker[w].token) /\ SetJob(n, next)
           /\ next.status = "failed_terminal" => progress' = Blocked(n, sub, progress)
           /\ next.status # "failed_terminal" => progress' = progress
  <2>1. /\ job[n].status \in AliveStatuses
        /\ Kept(next) \in JobRows
        /\ next.status \in {"failed_retryable", "failed_terminal"}
        /\ Kept(next).status = next.status /\ Bare(Kept(next))
    BY <1>0, <1>2, <1>4, FailedFacts
  <2> HIDE DEF next
  <2>2. CASE next.status = "failed_retryable"
    BY <1>0, <1>1, <1>2, <1>4, <2>1, <2>2, JobGoesOn DEF AliveStatuses, NotSilent
  <2>3. CASE next.status = "failed_terminal"
    <3> SUFFICES ASSUME LeftBehind'
                 PROVE  LeftBehind \/ Excused
      BY DEF NotSilent
    <3>1. progress' = Blocked(n, sub, progress) /\ progress \in ProgressRows
      BY <1>0, <1>4, <2>3, Shapes DEF Rows
    <3>2. progress' = progress
      BY <3>1 DEF LeftBehind, Blocked, ProgressRows
    <3>3. Awaited(n) => n # sub.rev
      BY <3>1 DEF LeftBehind, Blocked, ProgressRows, Awaited
    <3>4. CASE Awaited(n)
      <4>1. n <= sub.rev /\ n \in Nat /\ sub.rev \in 0..MaxCycles /\ MaxCycles \in Nat
        BY <1>0, <1>2, <3>4, AliveHaveRun, Numbers, DeliveryAssumption
           DEF Awaited, Subs, DeliveryAssumption
      <4>2. n < sub.rev /\ sub.rev \in Cycles /\ sub.rev <= sub.rev
        BY <3>3, <3>4, <4>1, <1>2 DEF Cycles
      <4>3. cycle[sub.rev].unbound
        BY <1>0, <1>2, <2>1, <4>2 DEF Order, OvertakenUnbound
      <4> QED BY <1>2, <3>4, <4>2, <4>3 DEF Excused
    <3>5. CASE ~Awaited(n)
      <4>1. \A m \in Cycles \ {n} : job'[m] = job[m]
        BY <1>0, <1>2, <1>4, <2>1, SetJobFacts
      <4>2. \A m \in Cycles : Awaited(m) => Alive(m)' /\ cycle'[m] = cycle[m]
        BY <1>1, <3>5, <4>1 DEF Awaited, Alive
      <4> QED BY <1>1, <3>2, <4>2, NobodyEnds DEF SameBinds
    <3> QED BY <3>4, <3>5
  <2> QED BY <2>1, <2>2, <2>3
<1> QED BY <1>1, <1>3, <1>4

LEMMA SubStepsLoud ==
  ASSUME IInv, IngestByHand \/ Restore \/ Login \/ Upgrade \/ Configure \/ Remove
  PROVE  NotSilent
<1>0. Rows /\ sub \in Subs
  BY Shapes DEF IInv, Rows
<1>1. CASE IngestByHand
  <2> DEFINE t == Stored(sub)
  <2>1. /\ sub' = [t EXCEPT !.others = t.others + 1] /\ UNCHANGED <<progress, cycle, job>>
        /\ t \in Subs /\ t.ckpt = sub.ckpt + 1
    BY <1>0, <1>1, StoredFacts DEF IngestByHand
  <2> HIDE DEF t
  <2>2. sub'.ckpt = sub.ckpt + 1
    BY <2>1 DEF Subs
  <2>3. sub'.ckpt # sub.ckpt
    BY <1>0, <2>2, Numbers
  <2> QED BY <2>1, <2>3 DEF NotSilent, Excused
<1>2. CASE Restore
  <2>1. sub' = [sub EXCEPT !.removed = FALSE] /\ UNCHANGED <<progress, cycle, job>>
    BY <1>2 DEF Restore
  <2>2. /\ sub'.ckpt = sub.ckpt /\ sub'.source = sub.source /\ sub'.auth = sub.auth
        /\ sub'.binds = sub.binds
    BY <1>0, <2>1 DEF Subs
  <2>3. \A n \in Cycles : Awaited(n) => Awaited(n)'
    BY <2>1, <2>2 DEF Awaited, Alive, SameBinding, Current, BoundTo, EvidenceHolds
  <2>4. Current(sub, progress)' => Current(sub, progress)
    BY <2>1, <2>2 DEF Current, BoundTo
  <2> QED BY <2>1, <2>2, <2>3, <2>4 DEF NotSilent, LeftBehind
<1>3. CASE Login \/ Upgrade \/ Configure
  <2>1. UNCHANGED <<progress, cycle, job>>
    BY <1>3 DEF Login, Upgrade, Configure
  <2>2. sub'.auth # sub.auth \/ sub'.source # sub.source \/ sub'.binds = ~sub.binds
    <3>1. CASE Login
      <4>1. PICK auth \in Auths \ {sub.auth} :
              sub' = [sub EXCEPT !.auth = auth, !.others = @ + 1]
        BY <3>1 DEF Login
      <4> QED BY <1>0, <4>1 DEF Subs
    <3>2. CASE Upgrade
      <4>1. PICK source \in Sources \ {sub.source} :
              sub' = [sub EXCEPT !.source = source, !.others = @ + 1]
        BY <3>2 DEF Upgrade
      <4> QED BY <1>0, <4>1 DEF Subs
    <3>3. CASE Configure
      <4>1. sub' = [sub EXCEPT !.binds = ~@, !.others = @ + 1]
        BY <3>3 DEF Configure
      <4> QED BY <1>0, <4>1 DEF Subs
    <3> QED BY <1>3, <3>1, <3>2, <3>3
  <2>3. Current(sub, progress) => ~Current(sub, progress)'
    BY <2>1, <2>2 DEF Current, BoundTo
  <2> QED BY <2>1, <2>3 DEF NotSilent, Excused, LeftBehind
<1>4. CASE Remove
  <2>1. sub' = [sub EXCEPT !.removed = TRUE] /\ ~sub.removed
    BY <1>4 DEF Remove
  <2>2. sub'.removed = TRUE
    BY <1>0, <2>1 DEF Subs
  <2> QED BY <2>1, <2>2, Zenon DEF NotSilent, Excused
<1> QED BY <1>1, <1>2, <1>3, <1>4

(* The checkpoint of a scan that succeeds is missed only if the row is not its  *)
(* own, or a coordinator that the row waits for was overtaken.                  *)
LEMMA CycleSucceedsLoud ==
  ASSUME IInv, NEW n \in Cycles, CycleSucceeds(n)
  PROVE  NotSilent
<1>0. Rows /\ Order
  BY DEF IInv
<1>1. Succeeds(n)
  BY <1>0, CycleSucceedsFacts DEF Succeeds
<1>2. n = sub.rev /\ job[n].status = "absent" /\ job'[n].status = "queued"
  BY <1>0, <1>1, SucceedsOrder
<1> SUFFICES ASSUME LeftBehind', ~LeftBehind
             PROVE  Excused
  BY DEF NotSilent
<1>3. /\ progress' = progress /\ progress.phase # "blocked"
      /\ Current(sub, progress) /\ ~Awaited(n)'
  BY <1>1 DEF LeftBehind, Current, BoundTo, Succeeds, SameBinds
<1>4. CASE progress.ckpt = sub.ckpt
  <2>1. ~SameBinding(cycle'[n], sub, progress) \/ n < progress.rev
    <3> SUFFICES ASSUME SameBinding(cycle'[n], sub, progress), ~(n < progress.rev)
                 PROVE  Awaited(n)'
      BY <1>3
    <3>1. SameBinding(cycle'[n], sub', progress')
      BY <1>1, <1>3 DEF SameBinding, Current, BoundTo, Succeeds, SameBinds
    <3>2. n >= progress.rev /\ cycle'[n].before = progress.ckpt
          /\ sub'.ckpt = cycle'[n].before + 1
      BY <1>0, <1>1, <1>4, Numbers DEF Succeeds
    <3> QED BY <1>2, <1>3, <3>1, <3>2 DEF Awaited, Alive, EvidenceHolds
  <2> QED BY <1>1, <2>1 DEF Excused, Foreign, Succeeds
<1>5. CASE progress.ckpt # sub.ckpt
  <2>1. PICK k \in Cycles : Awaited(k)
    BY <1>3, <1>5 DEF LeftBehind
  <2>2. k <= sub.rev /\ job[k].status \in AliveStatuses
    BY <1>0, <2>1, AliveHaveRun DEF Awaited
  <2>3. k < n
    BY <1>0, <1>2, <2>2, Numbers DEF AliveStatuses
  <2>4. cycle[n].unbound
    BY <1>0, <1>2, <2>2, <2>3, Numbers DEF Order, OvertakenUnbound
  <2> QED BY <2>1, <2>3, <2>4 DEF Excused
<1> QED BY <1>4, <1>5

LEMMA CycleStepsLoud ==
  ASSUME IInv,
         \/ MaterializeDue \/ MaterializeOne
         \/ \E n \in Cycles : CycleAttempt(n) \/ CycleEnds(n)
  PROVE  NotSilent
<1>0. Rows /\ Order /\ cycle \in [Cycles -> CycleRows]
  BY Shapes DEF IInv, Rows
<1>1. CASE MaterializeDue \/ MaterializeOne
  <2>1. Begins
    BY <1>0, <1>1, MaterializeFacts DEF Begins
  <2>2. CASE progress'.ckpt = sub'.ckpt
    BY <2>2, UpToDate DEF NotSilent
  <2>3. CASE progress' = progress /\ sub'.ckpt = sub.ckpt
    <3>1. ASSUME NEW n \in Cycles, Awaited(n)
          PROVE  Alive(n)' /\ cycle'[n] = cycle[n]
      <4>1. n <= sub.rev /\ Alive(n)
        BY <1>0, <3>1, AliveHaveRun DEF Awaited
      <4>2. Alive(n)'
        BY <2>1, <4>1 DEF Begins, Alive
      <4>3. \/ UNCHANGED cycle
            \/ /\ sub'.rev = sub.rev + 1
               /\ \A m \in Cycles \ {sub'.rev} : cycle'[m] = cycle[m]
        BY <2>1 DEF Begins, NextBegins
      <4>4. cycle'[n] = cycle[n]
        BY <1>0, <4>1, <4>3, Numbers
      <4> QED BY <4>2, <4>4
    <3> QED BY <2>1, <2>3, <3>1, NobodyEnds DEF NotSilent, Begins
  <2> QED BY <2>1, <2>2, <2>3 DEF Begins, RowEnsured
<1>2. ASSUME NEW n \in Cycles, CycleAttempt(n) \/ CycleEnds(n)
      PROVE  NotSilent
  <2>1. /\ cycle[n].status = "active" /\ \E c : cycle' = [cycle EXCEPT ![n] = c]
        /\ UNCHANGED <<sub, progress, job>>
    BY <1>2 DEF CycleEnds, CycleAttempt
  <2>2. \A m \in Cycles : Alive(m) => Alive(m)' /\ cycle'[m] = cycle[m]
    BY <1>0, <2>1, AliveHaveRun DEF Alive
  <2> QED BY <2>1, <2>2, NobodyEnds DEF NotSilent, SameBinds, Awaited
<1> QED BY <1>1, <1>2

LEMMA FinalizeSuccessLoud ==
  ASSUME IInv, NEW w \in Workers, FinalizeSuccess(w)
  PROVE  NotSilent
<1> DEFINE n == worker[w].job
<1>0. Rows /\ RowLedger
  BY DEF IInv
<1>1. \/ UNCHANGED <<sub, progress, cycle, job>>
      \/ n \in Cycles /\ Delivers(n)
  BY <1>0, FinalizeSuccessFacts DEF Delivers
<1> HIDE DEF n
<1>2. CASE UNCHANGED <<sub, progress, cycle, job>>
  BY <1>2, NothingHappens
<1>3. CASE n \in Cycles /\ Delivers(n)
  <2>1. job[n].status \in AliveStatuses /\ UNCHANGED cycle
        /\ \A m \in Cycles \ {n} : job'[m] = job[m]
    BY <1>3 DEF Delivers, DeliveredNow
  <2>2. progress.last # n
    BY <1>0, <1>3, <2>1, Numbers
       DEF RowLedger, LastIsCounted, CountedAreOurs, Delivered, AliveStatuses
  <2>3. CASE progress'.ckpt = sub'.ckpt
    BY <2>3, UpToDate DEF NotSilent
  <2>4. CASE NotCounted(n, sub, progress) /\ UNCHANGED <<sub, progress>>
    <3>1. ~Current(sub, progress)
      BY <2>2, <2>4 DEF NotCounted, Current
    <3>2. ~Current(sub, progress)'
      BY <2>4, <3>1 DEF Current, BoundTo
    <3> QED BY <3>2 DEF NotSilent, LeftBehind
  <2>5. CASE /\ progress' = progress /\ sub'.ckpt = sub.ckpt
             /\ ~SameBinding(cycle[n], sub, progress)
    <3>1. \A m \in Cycles : Awaited(m) => Alive(m)' /\ cycle'[m] = cycle[m]
      BY <2>1, <2>5 DEF Awaited, Alive
    <3> QED BY <1>3, <2>5, <3>1, NobodyEnds DEF NotSilent, Delivers
  <2> QED BY <1>3, <2>3, <2>4, <2>5 DEF Delivers, RowPublished, RowEnsured, RowAdvanced
<1> QED BY <1>1, <1>2, <1>3

LEMMA NeverSilent ==
  ASSUME IInv, [Next]_vars
  PROVE  NotSilent
<1>1. ASSUME NEW w \in Workers,
             \/ Select(w) \/ Reselect(w) \/ Export(w) \/ PipelineFails(w)
             \/ DatabaseFails(w) \/ Abandon(w) \/ \E c \in Contents : Fetch(w, c)
      PROVE  NotSilent
  BY <1>1, NothingHappens
     DEF Select, Reselect, Export, PipelineFails, DatabaseFails, Abandon, Fetch
<1>2. ASSUME NEW c \in Contents, Replace(c) \/ FetchedElsewhere(c)
      PROVE  NotSilent
  BY <1>2, NothingHappens DEF Replace, FetchedElsewhere
<1>3. CASE UNCHANGED vars
  BY <1>3, NothingHappens DEF vars
<1>4. CASE CycleNext
  BY <1>4, CycleStepsLoud, CycleSucceedsLoud, SubStepsLoud DEF CycleNext
<1>5. CASE WorkerNext
  BY <1>1, <1>5, JobStepsLoud, StartLoud, FinalizeFailureLoud, FinalizeSuccessLoud
     DEF WorkerNext
<1>6. CASE OthersNext
  BY <1>2, <1>6, JobStepsLoud, SubStepsLoud DEF OthersNext
<1> QED BY <1>3, <1>4, <1>5, <1>6 DEF Next

(* A row that is current and not blocked misses a checkpoint that no coordinator *)
(* can bring it to only through a removal, an ingest by hand, a lease that       *)
(* lapses on the last attempt, a binding that comes back to a row that was not   *)
(* current, a scan foreign to the row, or after a cycle begun without a binding  *)
(* beside a coordinator the row waits for (publish_success,                      *)
(* publish_terminal_failure, _materialize_cycle).                                *)
THEOREM SilentlyOnly == Spec => FallsBehindSilentlyOnly
<1>1. IInv /\ [Next]_vars => [NotSilent]_vars
  BY NeverSilent
<1> QED BY <1>1, IInvHolds, PTL DEF Spec, FallsBehindSilentlyOnly, NotSilent, Excused

===============================================================================
