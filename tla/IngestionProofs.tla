----------------------------- MODULE IngestionProofs ----------------------------
(* Proofs about Ingestion for every set of records and every number of Runs:    *)
(* what a succeeded Run has stored, and what the checkpoint says of the library.*)
EXTENDS Ingestion, FiniteSetTheorems, TLAPS


--------------------------------------------------------------------------------
(* The inductive invariant *)

(* Whether an attempt has attached its Run.                                     *)
Attached(p) == proc[p].pc \notin {"unused", "attach"}

(* A Run that is not attached yet has neither a row nor a directory.            *)
UnattachedIsBlank(p) == ~Attached(p) => run[p] = NoRun /\ out[p] = NoOutput

(* The source of a Run is its own directory or that of an attached one; an      *)
(* attached Run has a source until it is over, and one with a row for good.     *)
SourceIsAttached(p) ==
  /\ proc[p].src \notin {0, p} => Attached(proc[p].src)
  /\ Attached(p) /\ proc[p].pc # "done" => proc[p].src # 0 /\ run[p].status # "none"
  /\ run[p].status # "none" => proc[p].src # 0

(* Nobody ingests the directory of another before it is sealed.                 *)
OpenIsPrivate(p) ==
  \A q \in Runs : out[q].state = "open" /\ p # q /\ proc[p].src = q => run[p].status = "none"

(* The mode picks the way of ingestion.                                         *)
ModeIsKept(p) ==
  /\ proc[p].pc \in {"load", "batches"} => ~bounded
  /\ proc[p].pc = "publish" => bounded

SuccessIsOver(p) ==
  run[p].status = "succeeded"
    => proc[p].pc = "done" \/ (proc[p].pc = "clean" /\ proc[p].result = "success")

(* Nothing is ahead of the checkpoint.                                          *)
RevisionsArePast(p) ==
  /\ run[p].before <= run[p].after /\ run[p].after <= sub.revision
  /\ out[p].origin <= sub.revision

RowInv(p) ==
  /\ UnattachedIsBlank(p)
  /\ SourceIsAttached(p)
  /\ OpenIsPrivate(p)
  /\ ModeIsKept(p)
  /\ SuccessIsOver(p)
  /\ RevisionsArePast(p)

RowsInv ==
  /\ TypeOK
  /\ job.current # 0 => Attached(job.current)
  /\ \A p \in Runs : RowInv(p)

(* Every revision was published by one Run.                                     *)
RevisionsAreRuns ==
  /\ \A p, q \in Runs : p # q => Published(p) \cap Published(q) = {}
  /\ UNION {Published(p) : p \in Runs} = 1..sub.revision

(* The contents were counted once, by the Run that brought them.                *)
FoundIn(rows) == MapThenSumSet(LAMBDA p : rows[p].found, Runs)

CountIsExact == FoundIn(run) = Cardinality(library)

(* Upstream has published the first of its records.                             *)
RemoteIsPrefix == \A r \in remote, q \in Records : q < r => q \in remote

Newer(r) == {q \in remote : r < q}

(* No crawl from now on returns the record.                                     *)
OutOfReach(r) == Cardinality(Newer(r)) >= MaxItems

(* An output is a window of the newest records, and windows move forward.       *)
OutputIsWindow(p) ==
  /\ out[p].records \subseteq remote
  /\ \A r \in remote \ out[p].records : (\A q \in out[p].records : q < r) \/ OutOfReach(r)

(* The watermark is the newest date of the library, with its contents.          *)
WatermarkIsExact ==
  /\ sub.mark = Max({0} \cup {Dates[r] : r \in library})
  /\ sub.ids = {r \in library : Dates[r] = sub.mark}

(* What the watermark refuses is stored, or no crawl will return it.            *)
RefusedIsOutOfReach == \A r \in remote \ library : AcceptForward(r) \/ OutOfReach(r)

(* What it refuses of a crawl made at the current revision is stored.           *)
CurrentCrawlIsWhole(p) ==
  out[p].origin = sub.revision => \A r \in out[p].records \ library : AcceptForward(r)

(* What an ingest has still to do includes all that is missing.                 *)
TodoIsWhole(p) ==
  proc[p].pc = "batches" =>
    /\ proc[p].todo \subseteq out[proc[p].src].records
    /\ out[proc[p].src].records \ library \subseteq proc[p].todo

(* The checkpoint of an ingest in batches ...                                   *)
ForwardInv ==
  ~bounded => /\ WatermarkIsExact
              /\ RefusedIsOutOfReach
              /\ \A p \in Runs : CurrentCrawlIsWhole(p) /\ TodoIsWhole(p)

Succeeded == {p \in Runs : run[p].status = "succeeded"}

(* ... and that of bounded units.                                               *)
CursorCountsSuccesses == bounded => sub.cursor = Cardinality(Succeeded)

(* The contents and what the checkpoint says of them.                           *)
DataInv ==
  /\ RevisionsAreRuns
  /\ CountIsExact
  /\ RemoteIsPrefix
  /\ \A p \in Runs : OutputIsWindow(p)
  /\ ForwardInv
  /\ CursorCountsSuccesses
  /\ SucceededRunIsStored

IngestInv == RowsInv /\ DataInv

--------------------------------------------------------------------------------
(* Finite sets of numbers *)

IsSmallest(U, T) == U \in T /\ \A V \in T : V \subseteq U => V = U

(* Of the finite sets with a property, one has no smaller one with it.          *)
LEMMA SmallestOne ==
  ASSUME NEW S, IsFiniteSet(S)
  PROVE  \A T \in SUBSET SUBSET S : T # {} => \E U : IsSmallest(U, T)
PROOF
  <1> SUFFICES ASSUME NEW T \in SUBSET SUBSET S, T # {}
               PROVE  \E U : IsSmallest(U, T)
    OBVIOUS
  <1>1. IsWellFoundedOn(StrictSubsetOrdering(S), FiniteSubsetsOf(S))
    BY FS_StrictSubsetOrderingWellFounded
  <1>2. T \subseteq FiniteSubsetsOf(S) BY FS_FiniteSubsetsOfFinite
  <1>3. PICK U \in T : \A V \in T : <<V, U>> \notin StrictSubsetOrdering(S)
    BY <1>1, <1>2, WFMin
  <1>4. ASSUME NEW V \in T, V \subseteq U PROVE V = U
    <2>1. <<V, U>> \in (SUBSET S) \X (SUBSET S) OBVIOUS
    <2>2. V # U => <<V, U>> \in StrictSubsetOrdering(S)
      BY <1>4, <2>1 DEF StrictSubsetOrdering
    <2>3. QED BY <1>3, <2>2
  <1>5. QED BY <1>4 DEF IsSmallest

IsMax(S, m) == m \in S /\ \A x \in S : x <= m

(* What Max computes, where there is a greatest element ...                     *)
LEMMA MaxOf ==
  ASSUME NEW S, S \subseteq Nat, NEW m, IsMax(S, m)
  PROVE  Max(S) = m
PROOF
  <1>1. \A x \in S : m >= x BY DEF IsMax
  <1>2. \A x \in S : (\A y \in S : x >= y) => x = m BY DEF IsMax
  <1>3. QED BY <1>1, <1>2 DEF Max, IsMax

(* ... as there is in every finite set.                                         *)
LEMMA FiniteHasMax ==
  ASSUME NEW S, S \subseteq Nat, IsFiniteSet(S), S # {}
  PROVE  \E m : IsMax(S, m)
PROOF
  <1> DEFINE T == {U \in SUBSET S : U # {} /\ \A m : ~IsMax(U, m)}
  <1>1. SUFFICES ASSUME T # {} PROVE FALSE OBVIOUS
  <1>2. PICK U : IsSmallest(U, T)
    <2>1. T \in SUBSET SUBSET S OBVIOUS
    <2> HIDE DEF T
    <2>2. QED BY <1>1, <2>1, SmallestOne
  <1> U \in T /\ \A V \in T : V \subseteq U => V = U BY <1>2 DEF IsSmallest
  <1>3. PICK x : x \in U OBVIOUS
  <1>4. U \ {x} \notin T BY <1>2, <1>3
  <1>5. CASE U \ {x} = {}
    <2>1. IsMax(U, x) BY <1>3, <1>5 DEF IsMax
    <2>2. QED BY <2>1
  <1>6. CASE U \ {x} # {}
    <2>1. PICK m : IsMax(U \ {x}, m) BY <1>4, <1>6
    <2>2. m \in Nat /\ x \in Nat BY <1>3, <2>1 DEF IsMax
    <2>3. CASE m <= x
      <3>1. \A y \in U : y <= x BY <1>3, <2>1, <2>2, <2>3 DEF IsMax
      <3>2. IsMax(U, x) BY <1>3, <3>1 DEF IsMax
      <3>3. QED BY <3>2
    <2>4. CASE ~(m <= x)
      <3>1. \A y \in U : y <= m BY <1>3, <2>1, <2>2, <2>4 DEF IsMax
      <3>2. IsMax(U, m) BY <2>1, <3>1 DEF IsMax
      <3>3. QED BY <3>2
    <2>5. QED BY <2>3, <2>4
  <1>7. QED BY <1>5, <1>6

(* The first elements of a set.                                                 *)
IsFirst(b, S) == b \subseteq S /\ \A r \in b, q \in S \ b : r < q

(* There are as many first elements of a finite set as one likes.               *)
LEMMA FiniteHasFirst ==
  ASSUME NEW S, S \subseteq Nat, IsFiniteSet(S), NEW k \in Nat, k <= Cardinality(S)
  PROVE  \E b : IsFirst(b, S) /\ Cardinality(b) = k
PROOF
  <1> DEFINE T == {U \in SUBSET S : /\ k <= Cardinality(U)
                                    /\ \A b : ~(IsFirst(b, U) /\ Cardinality(b) = k)}
  <1>1. SUFFICES ASSUME T # {} PROVE FALSE OBVIOUS
  <1>2. PICK U : IsSmallest(U, T)
    <2>1. T \in SUBSET SUBSET S OBVIOUS
    <2> HIDE DEF T
    <2>2. QED BY <1>1, <2>1, SmallestOne
  <1>3. /\ U \in SUBSET S /\ k <= Cardinality(U)
        /\ \A b : ~(IsFirst(b, U) /\ Cardinality(b) = k)
    BY <1>2 DEF IsSmallest
  <1>4. IsFiniteSet(U)
    BY <1>3, FS_Subset
  <1>5. Cardinality(U) \in Nat BY <1>4, FS_CardinalityType
  <1>6. IsFirst(U, U) BY DEF IsFirst
  <1>7. k < Cardinality(U)
    BY <1>3, <1>5, <1>6
  <1>8. U # {} BY <1>7, FS_EmptySet
  <1>9. PICK m : IsMax(U, m) BY <1>3, <1>4, <1>8, FiniteHasMax
  <1>10. Cardinality(U \ {m}) = Cardinality(U) - 1
    BY <1>4, <1>9, FS_RemoveElement DEF IsMax
  <1>11. U \ {m} \notin T BY <1>2, <1>9 DEF IsMax, IsSmallest
  <1>12. k <= Cardinality(U \ {m}) BY <1>5, <1>7, <1>10
  <1>13. PICK b : IsFirst(b, U \ {m}) /\ Cardinality(b) = k BY <1>3, <1>11, <1>12
  <1>14. b \subseteq U /\ m \notin b BY <1>13 DEF IsFirst
  <1>15. ASSUME NEW r \in b, NEW q \in U \ b PROVE r < q
    <2>1. r \in Nat /\ q \in Nat /\ m \in Nat BY <1>3, <1>9, <1>14 DEF IsMax
    <2>2. r <= m /\ r # m BY <1>9, <1>14 DEF IsMax
    <2>3. q # m => q \in (U \ {m}) \ b BY <1>14
    <2>4. q # m => r < q BY <1>13, <2>3 DEF IsFirst
    <2>5. QED BY <2>1, <2>2, <2>4
  <1>16. IsFirst(b, U) BY <1>14, <1>15 DEF IsFirst
  <1>17. QED BY <1>3, <1>13, <1>16

--------------------------------------------------------------------------------
(* Sums                                                                         *)
(*                                                                              *)
(* MapThenSumSet adds up by recursion on the set.  That its recursive equation  *)
(* has a solution, and what follows from the equation, is shown by considering  *)
(* a smallest set for which it would fail.                                      *)

Pick(s) == CHOOSE x \in s : TRUE

Rest(s) == s \ {Pick(s)}

(* The equation of the sums of f over the subsets of S.                         *)
Sums(g, f, S) ==
  g = [s \in SUBSET S |-> IF s = {} THEN 0 ELSE f[Pick(s)] + g[Rest(s)]]

LEMMA RestIsSmaller ==
  ASSUME NEW s, s # {}
  PROVE  Pick(s) \in s /\ Rest(s) \subseteq s /\ Rest(s) # s
BY DEF Pick, Rest

LEMMA SumsUnfold ==
  ASSUME NEW f, NEW S, NEW g, Sums(g, f, S)
  PROVE  /\ g[{}] = 0
         /\ \A s \in SUBSET S : s # {} => g[s] = f[Pick(s)] + g[Rest(s)]
PROOF
  <1>1. g = [s \in SUBSET S |-> IF s = {} THEN 0 ELSE f[Pick(s)] + g[Rest(s)]]
    BY DEF Sums
  <1> HIDE DEF Pick, Rest
  <1>2. \A s \in SUBSET S : g[s] = IF s = {} THEN 0 ELSE f[Pick(s)] + g[Rest(s)]
    BY <1>1
  <1>3. {} \in SUBSET S OBVIOUS
  <1>4. QED BY <1>2, <1>3

(* Solutions agree where both are defined.                                      *)
LEMMA SumsAreUnique ==
  ASSUME NEW f, NEW U, IsFiniteSet(U), NEW g, Sums(g, f, U),
         NEW V, V \subseteq U, NEW h, Sums(h, f, V)
  PROVE  \A s \in SUBSET V : h[s] = g[s]
PROOF
  <1> DEFINE T == {s \in SUBSET V : h[s] # g[s]}
  <1>1. SUFFICES ASSUME T # {} PROVE FALSE OBVIOUS
  <1>2. IsFiniteSet(V) BY FS_Subset
  <1>3. PICK s : IsSmallest(s, T)
    <2>1. T \in SUBSET SUBSET V OBVIOUS
    <2> HIDE DEF T
    <2>2. QED BY <1>1, <1>2, <2>1, SmallestOne
  <1>4. s \in SUBSET V /\ h[s] # g[s] BY <1>3 DEF IsSmallest
  <1>5. s # {} BY <1>4, SumsUnfold
  <1>6. Rest(s) \subseteq s /\ Rest(s) # s BY <1>5, RestIsSmaller
  <1>7. Rest(s) \notin T BY <1>3, <1>6 DEF IsSmallest
  <1>8. h[Rest(s)] = g[Rest(s)] BY <1>4, <1>6, <1>7
  <1>9. h[s] = f[Pick(s)] + h[Rest(s)] BY <1>4, <1>5, SumsUnfold
  <1>10. s \in SUBSET U BY <1>4
  <1>11. g[s] = f[Pick(s)] + g[Rest(s)] BY <1>5, <1>10, SumsUnfold
  <1>12. QED BY <1>4, <1>8, <1>9, <1>11

(* There is a solution.                                                         *)
LEMMA SumsExist ==
  ASSUME NEW f, NEW S, IsFiniteSet(S)
  PROVE  \E g : Sums(g, f, S)
PROOF
  <1> DEFINE T == {U \in SUBSET S : \A g : ~Sums(g, f, U)}
  <1>1. SUFFICES ASSUME T # {} PROVE FALSE OBVIOUS
  <1>2. PICK U : IsSmallest(U, T)
    <2>1. T \in SUBSET SUBSET S OBVIOUS
    <2> HIDE DEF T
    <2>2. QED BY <1>1, <2>1, SmallestOne
  <1>3. U \in SUBSET S /\ \A g : ~Sums(g, f, U) BY <1>2 DEF IsSmallest
  <1>4. ASSUME NEW V, V \subseteq U, V # U PROVE \E g : Sums(g, f, V)
    BY <1>2, <1>3, <1>4 DEF IsSmallest
  <1> DEFINE Of(V) == CHOOSE g : Sums(g, f, V)
  <1>5. ASSUME NEW V, V \subseteq U, V # U PROVE Sums(Of(V), f, V)
    BY <1>4, <1>5
  <1> HIDE DEF Of
  <1> DEFINE g == [s \in SUBSET U |-> IF s = {} THEN 0 ELSE f[Pick(s)] + Of(Rest(s))[Rest(s)]]
  <1>6. ASSUME NEW s \in SUBSET U, s # {} PROVE g[Rest(s)] = Of(Rest(s))[Rest(s)]
    <2>1. PICK t : t = Rest(s) OBVIOUS
    <2>2. t \in SUBSET U /\ t # U BY <1>6, <2>1, RestIsSmaller
    <2>3. Sums(Of(t), f, t) BY <1>5, <2>2
    <2>4. CASE t = {}
      <3>1. g[t] = 0 BY <2>2, <2>4
      <3>2. Of(t)[t] = 0 BY <2>3, <2>4, SumsUnfold
      <3>3. QED BY <2>1, <3>1, <3>2
    <2>5. CASE t # {}
      <3>1. PICK u : u = Rest(t) OBVIOUS
      <3>2. u \subseteq t /\ u \subseteq U /\ u # U BY <2>2, <2>5, <3>1, RestIsSmaller
      <3>3. Sums(Of(u), f, u) BY <1>5, <3>2
      <3>4. IsFiniteSet(t)
        <4>1. t \in SUBSET S BY <1>3, <2>2
        <4>2. QED BY <4>1, FS_Subset
      <3>5. Of(u)[u] = Of(t)[u]
        <4>1. u \in SUBSET u OBVIOUS
        <4>2. QED BY <2>3, <3>2, <3>3, <3>4, <4>1, SumsAreUnique
      <3>6. Of(t)[t] = f[Pick(t)] + Of(t)[u]
        <4>1. t \in SUBSET t OBVIOUS
        <4>2. QED BY <2>3, <2>5, <3>1, <4>1, SumsUnfold
      <3>7. g[t] = f[Pick(t)] + Of(u)[u] BY <2>2, <2>5, <3>1
      <3>8. QED BY <2>1, <3>5, <3>6, <3>7
    <2>6. QED BY <2>4, <2>5
  <1>7. g = [s \in SUBSET U |-> IF s = {} THEN 0 ELSE f[Pick(s)] + g[Rest(s)]]
    <2>1. \A s \in SUBSET U : (IF s = {} THEN 0 ELSE f[Pick(s)] + Of(Rest(s))[Rest(s)])
                               = (IF s = {} THEN 0 ELSE f[Pick(s)] + g[Rest(s)])
      BY <1>6
    <2>2. QED BY <2>1
  <1>8. Sums(g, f, U) BY <1>7 DEF Sums
  <1> HIDE DEF g
  <1>9. QED BY <1>3, <1>8

MovesBy(f, f2, p, k, S) == \A x \in S : f2[x] = IF x = p THEN f[x] + k ELSE f[x]

(* A term that changes changes the sum by as much.                              *)
LEMMA SumsMove ==
  ASSUME NEW S, IsFiniteSet(S), NEW f \in [S -> Int], NEW f2 \in [S -> Int],
         NEW p \in S, NEW k \in Int, MovesBy(f, f2, p, k, S),
         NEW g, Sums(g, f, S), NEW h, Sums(h, f2, S)
  PROVE  g[S] \in Int /\ h[S] = g[S] + k
PROOF
  <1> DEFINE Moves(s) == g[s] \in Int /\ h[s] = IF p \in s THEN g[s] + k ELSE g[s]
             T == {s \in SUBSET S : ~Moves(s)}
  <1>1. SUFFICES ASSUME T # {} PROVE FALSE
    <2>1. T = {} => Moves(S) OBVIOUS
    <2>2. QED BY <2>1
  <1>2. PICK s : IsSmallest(s, T)
    <2>1. T \in SUBSET SUBSET S OBVIOUS
    <2> HIDE DEF T
    <2>2. QED BY <1>1, <2>1, SmallestOne
  <1>3. s \in SUBSET S /\ ~Moves(s) BY <1>2 DEF IsSmallest
  <1>4. s # {}
    <2>1. g[{}] = 0 /\ h[{}] = 0 BY SumsUnfold
    <2>2. Moves({}) BY <2>1
    <2>3. QED BY <1>3, <2>2
  <1>5. PICK x, t : x = Pick(s) /\ t = Rest(s) OBVIOUS
  <1>6. x \in s /\ t \subseteq s /\ t # s /\ (\A y : y \in t <=> y \in s /\ y # x)
    BY <1>4, <1>5, RestIsSmaller DEF Rest
  <1>7. t \notin T BY <1>2, <1>6 DEF IsSmallest
  <1>8. Moves(t) BY <1>3, <1>6, <1>7
  <1>9. g[s] = f[x] + g[t] /\ h[s] = f2[x] + h[t] BY <1>3, <1>4, <1>5, SumsUnfold
  <1>10. x \in S /\ f[x] \in Int /\ f2[x] = IF x = p THEN f[x] + k ELSE f[x]
    BY <1>3, <1>6 DEF MovesBy
  <1>11. g[t] \in Int /\ h[t] = IF p \in t THEN g[t] + k ELSE g[t] BY <1>8
  <1>12. p \in t <=> p \in s /\ p # x BY <1>6
  <1>13. Moves(s) BY <1>6, <1>9, <1>10, <1>11, <1>12
  <1>14. QED BY <1>3, <1>13

(* Nothing adds up to nothing.                                                  *)
LEMMA SumsOfNothing ==
  ASSUME NEW S, IsFiniteSet(S), NEW f, \A x \in S : f[x] = 0, NEW g, Sums(g, f, S)
  PROVE  g[S] = 0
PROOF
  <1> DEFINE T == {s \in SUBSET S : g[s] # 0}
  <1>1. SUFFICES ASSUME T # {} PROVE FALSE OBVIOUS
  <1>2. PICK s : IsSmallest(s, T)
    <2>1. T \in SUBSET SUBSET S OBVIOUS
    <2> HIDE DEF T
    <2>2. QED BY <1>1, <2>1, SmallestOne
  <1>3. s \in SUBSET S /\ g[s] # 0 BY <1>2 DEF IsSmallest
  <1>4. s # {} BY <1>3, SumsUnfold
  <1>5. Pick(s) \in s /\ Rest(s) \subseteq s /\ Rest(s) # s BY <1>4, RestIsSmaller
  <1>6. Rest(s) \notin T BY <1>2, <1>5 DEF IsSmallest
  <1>7. g[Rest(s)] = 0 BY <1>3, <1>5, <1>6
  <1>8. g[s] = f[Pick(s)] + g[Rest(s)] BY <1>3, <1>4, SumsUnfold
  <1>9. f[Pick(s)] = 0 BY <1>3, <1>5
  <1>10. QED BY <1>3, <1>7, <1>8, <1>9

LEMMA RunsAreFinite == IsFiniteSet(Runs)
BY IngestionAssumption, FS_Interval DEF IngestionAssumption, Runs

Counted(rows) == [p \in Runs |-> rows[p].found]

(* What MapThenSumSet computes of what the Runs have counted.                   *)
LEMMA FoundInSums ==
  ASSUME NEW rows
  PROVE  \E g : Sums(g, Counted(rows), Runs) /\ FoundIn(rows) = g[Runs]
PROOF
  <1> DEFINE f == Counted(rows)
             Solves(g) == g = [s \in SUBSET Runs |->
                                 IF s = {} THEN 0
                                 ELSE rows[Pick(s)].found + g[s \ {Pick(s)}]]
  <1>1. ASSUME NEW g PROVE Solves(g) <=> Sums(g, f, Runs)
    <2>1. \A s \in SUBSET Runs : s # {} => f[Pick(s)] = rows[Pick(s)].found
      BY RestIsSmaller DEF Counted
    <2> HIDE DEF f
    <2>2. QED BY <2>1 DEF Sums, Rest
  <1>2. PICK g0 : Sums(g0, f, Runs) BY RunsAreFinite, SumsExist
  <1>3. PICK g : g = CHOOSE x : Solves(x) OBVIOUS
  <1>4. Solves(g) BY <1>1, <1>2, <1>3
  <1>5. FoundIn(rows) = g[Runs]
    BY <1>3 DEF FoundIn, MapThenSumSet, MapThenFoldSet, Pick
  <1>6. QED BY <1>1, <1>4, <1>5

--------------------------------------------------------------------------------
(* Batches and the watermark *)

(* A batch is the first of what there is to do.                                 *)
LEMMA FirstIsFirst ==
  ASSUME NEW todo, todo \subseteq Records
  PROVE  IsFirst(First(todo), todo)
PROOF
  <1>1. IsFiniteSet(todo) /\ todo \subseteq Nat
    BY IngestionAssumption, FS_Subset DEF IngestionAssumption
  <1>2. Cardinality(todo) \in Nat BY <1>1, FS_CardinalityType
  <1>3. BatchSize \in Nat BY IngestionAssumption DEF IngestionAssumption
  <1> DEFINE k == Min({BatchSize, Cardinality(todo)})
  <1>4. k \in Nat /\ k <= Cardinality(todo)
    <2>1. \A n, m \in Nat : Min({n, m}) \in Nat /\ Min({n, m}) <= m BY DEF Min
    <2>2. QED BY <1>2, <1>3, <2>1
  <1> HIDE DEF k
  <1>5. PICK b : IsFirst(b, todo) /\ Cardinality(b) = k BY <1>1, <1>4, FiniteHasFirst
  <1>6. b \in SUBSET todo /\ \A r \in b, q \in todo \ b : r < q BY <1>5 DEF IsFirst
  <1>7. \E c \in SUBSET todo : Cardinality(c) = k /\ \A r \in c, q \in todo \ c : r < q
    BY <1>5, <1>6
  <1>8. First(todo) = CHOOSE c \in SUBSET todo :
                        Cardinality(c) = k /\ \A r \in c, q \in todo \ c : r < q
    BY DEF First, k
  <1>9. QED BY <1>7, <1>8 DEF IsFirst

(* Some records have a newest date.                                             *)
LEMMA NewestDate ==
  ASSUME NEW S, S \subseteq Records, NEW k \in Nat
  PROVE  IsMax({k} \cup {Dates[r] : r \in S}, Max({k} \cup {Dates[r] : r \in S}))
PROOF
  <1> DEFINE D == {k} \cup {Dates[r] : r \in S}
  <1>1. \A r \in S : r \in Nat /\ Dates[r] \in Nat
    BY IngestionAssumption DEF IngestionAssumption
  <1>2. D \subseteq Nat BY <1>1
  <1>3. \E m : IsMax(D, m)
    <2>1. CASE S = {}
      <3>1. IsMax(D, k) BY <2>1 DEF IsMax
      <3>2. QED BY <3>1
    <2>2. CASE S # {}
      <3>1. IsFiniteSet(S) BY IngestionAssumption, FS_Subset DEF IngestionAssumption
      <3>2. S \subseteq Nat BY <1>1
      <3>3. PICK q : IsMax(S, q) BY <2>2, <3>1, <3>2, FiniteHasMax
      <3>4. q \in S /\ \A r \in S : r <= q BY <3>3 DEF IsMax
      <3>5. \A r \in S : Dates[r] <= Dates[q]
        BY <1>1, <3>4, IngestionAssumption DEF IngestionAssumption
      <3>6. CASE k <= Dates[q]
        <4>1. IsMax(D, Dates[q]) BY <1>1, <3>4, <3>5, <3>6 DEF IsMax
        <4>2. QED BY <4>1
      <3>7. CASE ~(k <= Dates[q])
        <4>1. \A r \in S : Dates[r] <= k BY <1>1, <3>4, <3>5, <3>7
        <4>2. IsMax(D, k) BY <4>1 DEF IsMax
        <4>3. QED BY <4>2
      <3>8. QED BY <3>6, <3>7
    <2>3. QED BY <2>1, <2>2
  <1> HIDE DEF D
  <1>4. IsMax(D, Max(D)) BY <1>2, <1>3, MaxOf
  <1>5. QED BY <1>4 DEF D

(* What a batch makes of the checkpoint when the watermark is exact: it is then *)
(* exact of the library with the batch, and never goes back.                    *)
LEMMA AdvancedIsExact ==
  ASSUME TypeOK, WatermarkIsExact, NEW b, b \subseteq Records
  PROVE  /\ Advanced(b).revision = sub.revision + 1 /\ Advanced(b).cursor = sub.cursor
         /\ Advanced(b).mark \in Nat /\ sub.mark <= Advanced(b).mark
         /\ Advanced(b).mark = sub.mark \/ \E q \in b : Advanced(b).mark = Dates[q]
         /\ Advanced(b).mark = Max({0} \cup {Dates[r] : r \in library \cup b})
         /\ Advanced(b).ids = {r \in library \cup b : Dates[r] = Advanced(b).mark}
         /\ Advanced(b) = [revision |-> Advanced(b).revision, mark |-> Advanced(b).mark,
                           ids |-> Advanced(b).ids, cursor |-> Advanced(b).cursor]
PROOF
  <1>1. PICK old : old = sub OBVIOUS
  <1>2. PICK lib : lib = library OBVIOUS
  <1>3. /\ old = [revision |-> old.revision, mark |-> old.mark,
                  ids |-> old.ids, cursor |-> old.cursor]
        /\ old.mark \in Nat /\ lib \subseteq Records
    BY <1>1, <1>2 DEF TypeOK
  <1>4. /\ old.mark = Max({0} \cup {Dates[r] : r \in lib})
        /\ old.ids = {r \in lib : Dates[r] = old.mark}
    BY <1>1, <1>2 DEF WatermarkIsExact
  <1>5. PICK date : date = Max({old.mark} \cup {Dates[r] : r \in b}) OBVIOUS
  <1>6. PICK ids : ids = (IF date = old.mark THEN old.ids ELSE {})
                           \cup {r \in b : Dates[r] = date}
    OBVIOUS
  <1>7. Advanced(b) = [revision |-> old.revision + 1, mark |-> date,
                       ids |-> ids, cursor |-> old.cursor]
    <2>1. Advanced(b) = [old EXCEPT !.revision = old.revision + 1, !.mark = date, !.ids = ids]
      BY <1>1, <1>5, <1>6 DEF Advanced
    <2>2. QED BY <1>3, <2>1
  <1>8. IsMax({old.mark} \cup {Dates[r] : r \in b}, date) BY <1>3, <1>5, NewestDate
  <1>9. IsMax({0} \cup {Dates[r] : r \in lib}, old.mark)
    BY <1>3, <1>4, NewestDate
  <1>10. \A r \in lib \cup b : Dates[r] \in Nat
    BY <1>3, IngestionAssumption DEF IngestionAssumption
  <1>11. old.mark <= date /\ \A r \in b : Dates[r] <= date BY <1>8 DEF IsMax
  <1>12. date = old.mark \/ \E q \in b : date = Dates[q] BY <1>8 DEF IsMax
  <1>13. \A r \in lib : Dates[r] <= old.mark BY <1>9 DEF IsMax
  <1>14. date \in Nat BY <1>3, <1>10, <1>12
  <1>15. date = Max({0} \cup {Dates[r] : r \in lib \cup b})
    <2> DEFINE D == {0} \cup {Dates[r] : r \in lib \cup b}
    <2>1. D \subseteq Nat BY <1>10
    <2>2. old.mark \in D BY <1>9 DEF IsMax
    <2>3. date \in D BY <1>12, <2>2
    <2>4. \A r \in lib \cup b : Dates[r] <= date BY <1>3, <1>10, <1>11, <1>13, <1>14
    <2>5. \A x \in D : x <= date BY <1>14, <2>4
    <2>6. IsMax(D, date) BY <2>3, <2>5 DEF IsMax
    <2> HIDE DEF D
    <2>7. Max(D) = date BY <2>1, <2>6, MaxOf
    <2>8. QED BY <2>7 DEF D
  <1>16. ids = {r \in lib \cup b : Dates[r] = date}
    <2>1. CASE date = old.mark BY <1>4, <1>6, <2>1
    <2>2. CASE date # old.mark
      <3>1. \A r \in lib : Dates[r] # date BY <1>3, <1>10, <1>11, <1>13, <1>14, <2>2
      <3>2. QED BY <1>6, <2>2, <3>1
    <2>3. QED BY <2>1, <2>2
  <1>17. /\ Advanced(b).revision = old.revision + 1 /\ Advanced(b).cursor = old.cursor
         /\ Advanced(b).mark = date /\ Advanced(b).ids = ids
    BY <1>7
  <1>18. Advanced(b) = [revision |-> Advanced(b).revision, mark |-> Advanced(b).mark,
                        ids |-> Advanced(b).ids, cursor |-> Advanced(b).cursor]
    BY <1>7, <1>17
  <1>19. QED BY <1>1, <1>2, <1>11, <1>12, <1>14, <1>15, <1>16, <1>17, <1>18

--------------------------------------------------------------------------------
(* Shapes *)

SubRows == [revision : Nat, mark : Nat, ids : SUBSET Records, cursor : Nat]
RunRows == [status : Statuses, before : Nat, after : Nat, found : Nat]
OutRows == [state : {"none", "open", "sealed"}, records : SUBSET Records,
            origin : Nat, cursor : Nat]
JobRows == [owner : {0} \cup Runs, current : {0} \cup Runs]
ProcRows == [pc : Points, manual : BOOLEAN, src : {0} \cup Runs, todo : SUBSET Records,
             result : {"none", "success", "failed", "fenced"}]

(* The type invariant by the names above.                                       *)
LEMMA Shapes ==
  TypeOK <=> /\ bounded \in BOOLEAN /\ remote \subseteq Records /\ library \subseteq remote
             /\ sub \in SubRows /\ \A r \in sub.ids : Dates[r] = sub.mark
             /\ run \in [Runs -> RunRows] /\ out \in [Runs -> OutRows]
             /\ job \in JobRows /\ proc \in [Runs -> ProcRows]
BY DEF TypeOK, SubRows, RunRows, OutRows, JobRows, ProcRows

(* ... and of the next state.                                                   *)
LEMMA ShapesNext ==
  TypeOK' <=> /\ bounded' \in BOOLEAN /\ remote' \subseteq Records /\ library' \subseteq remote'
              /\ sub' \in SubRows /\ \A r \in sub'.ids : Dates[r] = sub'.mark
              /\ run' \in [Runs -> RunRows] /\ out' \in [Runs -> OutRows]
              /\ job' \in JobRows /\ proc' \in [Runs -> ProcRows]
BY DEF TypeOK, SubRows, RunRows, OutRows, JobRows, ProcRows

(* A number of a Run is a positive one.                                         *)
LEMMA RunsArePositive == Runs \subseteq Nat \ {0}
BY IngestionAssumption DEF IngestionAssumption, Runs

--------------------------------------------------------------------------------
(* Writes *)

(* What one attempt writes of itself.                                           *)
OnlyProc(p) == /\ proc' \in [Runs -> ProcRows]
               /\ \A x \in Runs : x # p => proc'[x] = proc[x]

LEMMA GotoWrites ==
  ASSUME TypeOK, NEW p \in Runs, NEW pc \in Points, Goto(p, pc)
  PROVE  /\ OnlyProc(p)
         /\ proc'[p].pc = pc /\ proc'[p].src = proc[p].src /\ proc'[p].todo = proc[p].todo
         /\ proc'[p].manual = proc[p].manual /\ proc'[p].result = proc[p].result
PROOF
  <1>1. proc \in [Runs -> ProcRows] BY Shapes
  <1>2. PICK row \in ProcRows : row = proc[p] BY <1>1
  <1>3. PICK new : new = [row EXCEPT !.pc = pc] OBVIOUS
  <1>4. /\ new \in ProcRows /\ new.pc = pc /\ new.src = row.src /\ new.todo = row.todo
        /\ new.manual = row.manual /\ new.result = row.result
    BY <1>3 DEF ProcRows
  <1>5. proc' = [proc EXCEPT ![p] = new] BY <1>2, <1>3 DEF Goto
  <1>6. QED BY <1>1, <1>2, <1>4, <1>5 DEF OnlyProc

LEMMA EndWrites ==
  ASSUME TypeOK, NEW p \in Runs, End(p)
  PROVE  /\ OnlyProc(p)
         /\ proc'[p].pc = "done" /\ proc'[p].src = proc[p].src
PROOF
  <1>1. proc \in [Runs -> ProcRows] BY Shapes
  <1>2. PICK row \in ProcRows : row = proc[p] BY <1>1
  <1>3. PICK new : new = [row EXCEPT !.pc = "done", !.todo = {}, !.result = "none"] OBVIOUS
  <1>4. new \in ProcRows /\ new.pc = "done" /\ new.src = row.src
    BY <1>3 DEF ProcRows, Points
  <1>5. proc' = [proc EXCEPT ![p] = new] BY <1>2, <1>3 DEF End
  <1>6. QED BY <1>1, <1>2, <1>4, <1>5 DEF OnlyProc

LEMMA LeaveWrites ==
  ASSUME TypeOK, NEW p \in Runs, NEW result \in {"success", "failed", "fenced"},
         Leave(p, result)
  PROVE  /\ OnlyProc(p)
         /\ proc'[p].src = proc[p].src
         /\ \/ proc'[p].pc = "done"
            \/ proc'[p].pc = "clean" /\ proc'[p].result = result
            \/ proc'[p].pc = "fail" /\ result = "failed"
PROOF
  <1>1. proc \in [Runs -> ProcRows] BY Shapes
  <1>2. CASE proc[p].manual
    <2>1. CASE result = "failed"
      <3>1. Goto(p, "fail") BY <1>2, <2>1 DEF Leave
      <3>2. "fail" \in Points BY DEF Points
      <3>3. QED BY <2>1, <3>1, <3>2, GotoWrites
    <2>2. CASE result # "failed"
      <3>1. End(p) BY <1>2, <2>2 DEF Leave
      <3>2. QED BY <3>1, EndWrites
    <2>3. QED BY <2>1, <2>2
  <1>3. CASE ~proc[p].manual
    <2>1. PICK row \in ProcRows : row = proc[p] BY <1>1
    <2>2. PICK new : new = [row EXCEPT !.pc = "clean", !.result = result, !.todo = {}] OBVIOUS
    <2>3. new \in ProcRows /\ new.pc = "clean" /\ new.src = row.src /\ new.result = result
      BY <2>2 DEF ProcRows, Points
    <2>4. proc' = [proc EXCEPT ![p] = new] BY <1>1, <1>3, <2>1, <2>2 DEF Leave
    <2>5. QED BY <1>1, <2>1, <2>3, <2>4 DEF OnlyProc
  <1>4. QED BY <1>2, <1>3

--------------------------------------------------------------------------------
(* What the step of one attempt does to the others *)

(* A Run of a dead attempt is cancelled, and its directory removed.             *)
RunFades(x) ==
  \/ run'[x] = run[x]
  \/ /\ run[x].status \in {"running", "ingesting"} /\ run'[x].status = "cancelled"
     /\ run'[x].before = run[x].before /\ run'[x].after = run[x].after
     /\ run'[x].found = run[x].found

OutFades(x) == out'[x] = out[x] \/ out'[x] = [out[x] EXCEPT !.state = "none"]

OthersKeep(p) ==
  \A x \in Runs : x # p => proc'[x] = proc[x] /\ RunFades(x) /\ OutFades(x)

(* The rows agree after a step when those of the attempt that took it do.       *)
LEMMA RowsStay ==
  ASSUME RowsInv, TypeOK', bounded' = bounded, sub.revision <= sub'.revision,
         NEW p \in Runs, OthersKeep(p), RowInv(p)', Attached(p) => Attached(p)',
         job'.current \in {0, job.current, p},
         job'.current = p => Attached(p)',
         out'[p].state = "open" =>
           out[p].state = "open" \/ \A x \in Runs : x # p => proc[x].src # p
  PROVE  RowsInv'
PROOF
  <1>1. /\ proc \in [Runs -> ProcRows] /\ run \in [Runs -> RunRows] /\ out \in [Runs -> OutRows]
        /\ proc' \in [Runs -> ProcRows] /\ run' \in [Runs -> RunRows]
        /\ out' \in [Runs -> OutRows] /\ job \in JobRows /\ job' \in JobRows
        /\ sub \in SubRows /\ sub' \in SubRows
    BY Shapes, ShapesNext DEF RowsInv
  <1>2. \A x \in Runs : Attached(x) => Attached(x)'
    BY DEF OthersKeep, Attached
  <1>3. (job.current # 0 => Attached(job.current))'
    <2>1. PICK c : c = job'.current OBVIOUS
    <2>2. CASE c = p BY <2>1, <2>2 DEF Attached
    <2>3. CASE c # p
      <3>1. c \in {0} \cup Runs BY <1>1, <2>1 DEF JobRows
      <3>2. c # 0 => c = job.current BY <2>1, <2>3
      <3>3. c # 0 => Attached(c) BY <3>2 DEF RowsInv
      <3>4. c # 0 => Attached(c)' BY <1>2, <3>1, <3>3
      <3>5. QED BY <2>1, <3>4 DEF Attached
    <2>4. QED BY <2>2, <2>3
  <1>4. ASSUME NEW x \in Runs, x # p PROVE RowInv(x)'
    <2>1. proc'[x] = proc[x] /\ RunFades(x) /\ OutFades(x) BY <1>4 DEF OthersKeep
    <2>2. RowInv(x) BY DEF RowsInv
    <2>3. PICK o \in OutRows : o = out[x] BY <1>1
    <2>4. PICK r \in RunRows : r = run[x] BY <1>1
    <2>5. PICK o2 \in OutRows : o2 = out'[x] BY <1>1
    <2>6. PICK r2 \in RunRows : r2 = run'[x] BY <1>1
    <2>7. o2 = o \/ o2 = [o EXCEPT !.state = "none"] BY <2>1, <2>3, <2>5 DEF OutFades
    <2>8. o2.origin = o.origin /\ (o = NoOutput => o2 = NoOutput)
      BY <2>7 DEF OutRows, NoOutput
    <2>9. /\ r2.before = r.before /\ r2.after = r.after
          /\ r2.status = r.status \/ (r.status \in {"running", "ingesting"}
                                        /\ r2.status = "cancelled")
          /\ r = NoRun => r2 = r
      BY <2>1, <2>4, <2>6 DEF RunFades, NoRun
    <2>10. UnattachedIsBlank(x)'
      BY <2>1, <2>2, <2>3, <2>4, <2>5, <2>6, <2>8, <2>9
      DEF RowInv, UnattachedIsBlank, Attached
    <2>11. SourceIsAttached(x)'
      <3>1. PICK s : s = proc[x].src OBVIOUS
      <3>2. s \in {0} \cup Runs BY <1>1, <3>1 DEF ProcRows
      <3>3. s \notin {0, x} => Attached(s)
        BY <2>2, <3>1 DEF RowInv, SourceIsAttached
      <3>4. s \notin {0, x} => Attached(s)' BY <1>2, <3>2, <3>3
      <3>5. Attached(x) /\ proc[x].pc # "done" => s # 0 /\ r.status # "none"
        BY <2>2, <2>4, <3>1 DEF RowInv, SourceIsAttached
      <3>6. r.status # "none" => s # 0
        BY <2>2, <2>4, <3>1 DEF RowInv, SourceIsAttached
      <3>7. r2.status # "none" <=> r.status # "none" BY <2>9
      <3>8. QED BY <2>1, <2>6, <3>1, <3>4, <3>5, <3>6, <3>7 DEF SourceIsAttached, Attached
    <2>12. OpenIsPrivate(x)'
      <3>1. ASSUME NEW q \in Runs, out'[q].state = "open", x # q, proc'[x].src = q
            PROVE  run'[x].status = "none"
        <4>1. proc[x].src = q BY <2>1, <3>1
        <4>2. out[q].state = "open"
          <5>1. CASE q = p BY <1>4, <3>1, <4>1, <5>1
          <5>2. CASE q # p
            <6>1. OutFades(q) BY <5>2 DEF OthersKeep
            <6>2. PICK o3 \in OutRows : o3 = out[q] BY <1>1
            <6>3. out'[q] = o3 \/ out'[q] = [o3 EXCEPT !.state = "none"]
              BY <6>1, <6>2 DEF OutFades
            <6>4. [o3 EXCEPT !.state = "none"].state = "none" BY DEF OutRows
            <6>5. QED BY <3>1, <6>2, <6>3, <6>4
          <5>3. QED BY <5>1, <5>2
        <4>3. r.status = "none" BY <2>2, <2>4, <3>1, <4>1, <4>2 DEF RowInv, OpenIsPrivate
        <4>4. QED BY <2>6, <2>9, <4>3
      <3>2. QED BY <3>1 DEF OpenIsPrivate
    <2>13. ModeIsKept(x)' BY <2>1, <2>2 DEF RowInv, ModeIsKept
    <2>14. SuccessIsOver(x)'
      BY <2>1, <2>2, <2>4, <2>6, <2>9 DEF RowInv, SuccessIsOver
    <2>15. RevisionsArePast(x)'
      <3>1. r.before <= r.after /\ r.after <= sub.revision /\ o.origin <= sub.revision
        BY <2>2, <2>3, <2>4 DEF RowInv, RevisionsArePast
      <3>2. sub.revision \in Nat /\ sub'.revision \in Nat BY <1>1 DEF SubRows
      <3>3. r.after \in Nat /\ o.origin \in Nat BY DEF RunRows, OutRows
      <3>4. r2.before <= r2.after /\ r2.after <= sub'.revision /\ o2.origin <= sub'.revision
        BY <2>8, <2>9, <3>1, <3>2, <3>3
      <3>5. QED BY <2>5, <2>6, <3>4 DEF RevisionsArePast
    <2>16. QED BY <2>10, <2>11, <2>12, <2>13, <2>14, <2>15 DEF RowInv
  <1>5. QED BY <1>3, <1>4 DEF RowsInv

(* ... and when none of them changes.                                           *)
LEMMA RowsRest ==
  ASSUME RowsInv, TypeOK', UNCHANGED <<bounded, sub, run, out, proc>>,
         job'.current \in {0, job.current}
  PROVE  RowsInv'
PROOF
  <1>1. \A x \in Runs : RowInv(x)'
    BY DEF RowsInv, RowInv, UnattachedIsBlank, SourceIsAttached, OpenIsPrivate, ModeIsKept,
           SuccessIsOver, RevisionsArePast, Attached
  <1>2. (job.current # 0 => Attached(job.current))'
    <2>1. PICK c : c = job'.current OBVIOUS
    <2>2. c # 0 => Attached(c) BY <2>1 DEF RowsInv
    <2>3. Attached(c) => Attached(c)' BY DEF Attached
    <2>4. QED BY <2>1, <2>2, <2>3 DEF Attached
  <1>3. QED BY <1>1, <1>2 DEF RowsInv

--------------------------------------------------------------------------------
(* Steps that store nothing                                                     *)

OutputStays(x) == /\ out'[x].records = out[x].records
                  /\ out'[x].origin = out[x].origin \/ out'[x].records = {}

RunStays(x) == /\ Published(x)' = Published(x) /\ run'[x].found = run[x].found
               /\ run'[x].status = "succeeded" <=> run[x].status = "succeeded"
               /\ run[x].status = "succeeded" => proc'[x].src = proc[x].src

TodoStays(x) == proc'[x].pc = "batches" => /\ proc[x].pc = "batches"
                                           /\ proc'[x].todo = proc[x].todo
                                           /\ proc'[x].src = proc[x].src

Quiet == UNCHANGED <<remote, library, sub>>
         /\ \A x \in Runs : OutputStays(x) /\ RunStays(x) /\ (TodoStays(x) \/ TodoIsWhole(x)')

(* What one attempt does to the others stores nothing.                          *)
LEMMA OthersAreQuiet ==
  ASSUME TypeOK, TypeOK', NEW p \in Runs, OthersKeep(p)
  PROVE  \A x \in Runs : x # p => OutputStays(x) /\ RunStays(x) /\ TodoStays(x)
PROOF
  <1>1. out \in [Runs -> OutRows] BY Shapes
  <1>2. ASSUME NEW x \in Runs, x # p PROVE OutputStays(x) /\ RunStays(x) /\ TodoStays(x)
    <2>1. proc'[x] = proc[x] /\ RunFades(x) /\ OutFades(x) BY <1>2 DEF OthersKeep
    <2>2. PICK o \in OutRows : o = out[x] BY <1>1
    <2>3. out'[x] = o \/ out'[x] = [o EXCEPT !.state = "none"] BY <2>1, <2>2 DEF OutFades
    <2>4. [o EXCEPT !.state = "none"].records = o.records
          /\ [o EXCEPT !.state = "none"].origin = o.origin
      BY DEF OutRows
    <2>5. OutputStays(x) BY <2>2, <2>3, <2>4 DEF OutputStays
    <2>6. RunStays(x) BY <2>1 DEF RunStays, RunFades, Published
    <2>7. TodoStays(x) BY <2>1 DEF TodoStays
    <2>8. QED BY <2>5, <2>6, <2>7
  <1>3. QED BY <1>2

LEMMA RevisionsStay ==
  ASSUME RevisionsAreRuns, \A x \in Runs : Published(x)' = Published(x),
         sub'.revision = sub.revision
  PROVE  RevisionsAreRuns'
BY DEF RevisionsAreRuns

(* What one Run adds to its count is added to the sum.                          *)
LEMMA CountMoves ==
  ASSUME NEW old \in [Runs -> RunRows], NEW new \in [Runs -> RunRows], NEW p \in Runs,
         NEW k \in Nat, new[p].found = old[p].found + k,
         \A x \in Runs : x # p => new[x].found = old[x].found
  PROVE  /\ FoundIn(old) \in Int
         /\ FoundIn(new) = FoundIn(old) + k
PROOF
  <1>1. PICK g : Sums(g, Counted(old), Runs) /\ FoundIn(old) = g[Runs]
    BY FoundInSums
  <1>2. PICK h : Sums(h, Counted(new), Runs) /\ FoundIn(new) = h[Runs]
    BY FoundInSums
  <1>3. Counted(old) \in [Runs -> Int] /\ Counted(new) \in [Runs -> Int]
    BY DEF Counted, RunRows
  <1>4. \A x \in Runs : Counted(new)[x] = IF x = p THEN Counted(old)[x] + k
                                                  ELSE Counted(old)[x]
    BY DEF Counted
  <1>5. k \in Int OBVIOUS
  <1>6. g[Runs] \in Int /\ h[Runs] = g[Runs] + k
    <2>1. PICK f \in [Runs -> Int], f2 \in [Runs -> Int] :
            f = Counted(old) /\ f2 = Counted(new)
      BY <1>3
    <2>2. MovesBy(f, f2, p, k, Runs) BY <1>4, <2>1 DEF MovesBy
    <2>3. Sums(g, f, Runs) /\ Sums(h, f2, Runs) BY <1>1, <1>2, <2>1
    <2>4. QED BY <1>5, <2>2, <2>3, RunsAreFinite, SumsMove
  <1>7. QED BY <1>1, <1>2, <1>6

LEMMA CountStays ==
  ASSUME TypeOK, TypeOK', CountIsExact, library' = library,
         \A x \in Runs : run'[x].found = run[x].found
  PROVE  CountIsExact'
PROOF
  <1>1. PICK old : old = run OBVIOUS
  <1>2. PICK new : new = run' OBVIOUS
  <1>3. old \in [Runs -> RunRows] /\ new \in [Runs -> RunRows]
    BY <1>1, <1>2, Shapes, ShapesNext
  <1>4. PICK p \in Runs : TRUE BY IngestionAssumption DEF IngestionAssumption, Runs
  <1>5. new[p].found = old[p].found + 0 /\ \A x \in Runs : new[x].found = old[x].found
    BY <1>1, <1>2, <1>3 DEF RunRows
  <1>6. /\ FoundIn(old) \in Int
        /\ FoundIn(new) = FoundIn(old) + 0
    BY <1>3, <1>5, CountMoves
  <1>7. FoundIn(new) = FoundIn(old)
    BY <1>6
  <1>8. QED BY <1>1, <1>2, <1>7 DEF CountIsExact

LEMMA CursorStays ==
  ASSUME CursorCountsSuccesses, bounded' = bounded, sub'.cursor = sub.cursor,
         \A x \in Runs : run'[x].status = "succeeded" <=> run[x].status = "succeeded"
  PROVE  CursorCountsSuccesses'
PROOF
  <1>1. Succeeded' = Succeeded BY DEF Succeeded
  <1>2. QED BY <1>1 DEF CursorCountsSuccesses

LEMMA WindowsStay ==
  ASSUME remote' = remote, NEW x \in Runs, OutputIsWindow(x),
         out'[x].records = out[x].records
  PROVE  OutputIsWindow(x)'
BY DEF OutputIsWindow, OutOfReach, Newer

LEMMA CrawlStays ==
  ASSUME UNCHANGED <<library, sub>>, NEW x \in Runs, CurrentCrawlIsWhole(x), OutputStays(x)
  PROVE  CurrentCrawlIsWhole(x)'
PROOF
  <1>1. \A r : AcceptForward(r)' <=> AcceptForward(r) BY DEF AcceptForward
  <1>2. CASE out'[x].records = {} BY <1>2 DEF CurrentCrawlIsWhole
  <1>3. CASE out'[x].origin = out[x].origin
    BY <1>1, <1>3 DEF CurrentCrawlIsWhole, OutputStays
  <1>4. QED BY <1>2, <1>3 DEF OutputStays

(* What there is to do stays whole when the library grows.                      *)
LEMMA TodoKeeps ==
  ASSUME RowsInv, library \subseteq library', NEW x \in Runs, TodoIsWhole(x), TodoStays(x),
         out'[proc[x].src].records = out[proc[x].src].records
  PROVE  TodoIsWhole(x)'
PROOF
  <1>1. SUFFICES ASSUME proc'[x].pc = "batches"
                 PROVE  /\ proc'[x].todo \subseteq out'[proc'[x].src].records
                        /\ out'[proc'[x].src].records \ library' \subseteq proc'[x].todo
    BY DEF TodoIsWhole
  <1>2. proc[x].pc = "batches" /\ proc'[x].todo = proc[x].todo /\ proc'[x].src = proc[x].src
    BY <1>1 DEF TodoStays
  <1>3. /\ proc[x].todo \subseteq out[proc[x].src].records
        /\ out[proc[x].src].records \ library \subseteq proc[x].todo
    BY <1>2 DEF TodoIsWhole
  <1>4. QED BY <1>2, <1>3

(* Runs that succeeded stay stored when their outputs stay.                     *)
LEMMA StoredStays ==
  ASSUME RowsInv, SucceededRunIsStored, library \subseteq library', NEW x \in Runs,
         RunStays(x), run[x].status = "succeeded" =>
           out'[proc[x].src].records = out[proc[x].src].records
  PROVE  run'[x].status = "succeeded" => out'[proc'[x].src].records \subseteq library'
PROOF
  <1>1. SUFFICES ASSUME run'[x].status = "succeeded"
                 PROVE  out'[proc'[x].src].records \subseteq library'
    OBVIOUS
  <1>2. run[x].status = "succeeded" /\ proc'[x].src = proc[x].src BY <1>1 DEF RunStays
  <1>3. out[proc[x].src].records \subseteq library BY <1>2 DEF SucceededRunIsStored
  <1>4. QED BY <1>2, <1>3

(* An attempt at work, and a Run that succeeded, has a source.                  *)
LEMMA SourceIsRun ==
  ASSUME RowsInv, NEW x \in Runs,
         \/ proc[x].pc \notin {"unused", "attach", "done"}
         \/ run[x].status # "none"
  PROVE  proc[x].src \in Runs
PROOF
  <1>1. proc \in [Runs -> ProcRows] BY Shapes DEF RowsInv
  <1>2. proc[x].src \in {0} \cup Runs BY <1>1 DEF ProcRows
  <1>3. SourceIsAttached(x) BY DEF RowsInv, RowInv
  <1>4. proc[x].src # 0 BY <1>3 DEF SourceIsAttached, Attached
  <1>5. QED BY <1>2, <1>4

LEMMA QuietKeepsData ==
  ASSUME RowsInv, DataInv, TypeOK', bounded' = bounded, Quiet
  PROVE  DataInv'
PROOF
  <1>1. /\ UNCHANGED <<remote, library, sub>>
        /\ \A x \in Runs : OutputStays(x) /\ RunStays(x) /\ (TodoStays(x) \/ TodoIsWhole(x)')
    BY DEF Quiet
  <1>2. \A x \in Runs : out'[x].records = out[x].records BY <1>1 DEF OutputStays
  <1>3. RevisionsAreRuns' BY <1>1, RevisionsStay DEF DataInv, RunStays
  <1>4. RemoteIsPrefix' BY <1>1 DEF DataInv, RemoteIsPrefix
  <1>5. \A x \in Runs : OutputIsWindow(x)' BY <1>1, <1>2, WindowsStay DEF DataInv
  <1>6. CursorCountsSuccesses' BY <1>1, CursorStays DEF DataInv, RunStays
  <1>7. SucceededRunIsStored'
    <2>1. ASSUME NEW x \in Runs
          PROVE  run'[x].status = "succeeded" => out'[proc'[x].src].records \subseteq library'
      <3>1. run[x].status = "succeeded" => out'[proc[x].src].records = out[proc[x].src].records
        BY <1>2, SourceIsRun
      <3>2. QED BY <1>1, <3>1, StoredStays DEF DataInv
    <2>2. QED BY <2>1 DEF SucceededRunIsStored
  <1>8. ForwardInv'
    <2>1. CASE bounded BY <2>1 DEF ForwardInv
    <2>2. CASE ~bounded
      <3>1. /\ WatermarkIsExact /\ RefusedIsOutOfReach
            /\ \A x \in Runs : CurrentCrawlIsWhole(x) /\ TodoIsWhole(x)
        BY <2>2 DEF DataInv, ForwardInv
      <3>2. WatermarkIsExact' BY <1>1, <3>1 DEF WatermarkIsExact
      <3>3. RefusedIsOutOfReach'
        BY <1>1, <3>1 DEF RefusedIsOutOfReach, AcceptForward, OutOfReach, Newer
      <3>4. \A x \in Runs : CurrentCrawlIsWhole(x)' BY <1>1, <3>1, CrawlStays
      <3>5. ASSUME NEW x \in Runs PROVE TodoIsWhole(x)'
        <4>1. CASE TodoStays(x) /\ proc'[x].pc = "batches"
          <5>1. proc[x].pc = "batches" BY <4>1 DEF TodoStays
          <5>2. proc[x].src \in Runs BY <5>1, SourceIsRun
          <5>3. QED BY <1>1, <1>2, <3>1, <4>1, <5>2, TodoKeeps
        <4>2. CASE proc'[x].pc # "batches" BY <4>2 DEF TodoIsWhole
        <4>3. QED BY <1>1, <4>1, <4>2
      <3>6. QED BY <3>2, <3>3, <3>4, <3>5 DEF ForwardInv
    <2>3. QED BY <2>1, <2>2
  <1>9. CountIsExact' BY <1>1, CountStays DEF DataInv, RowsInv, RunStays
  <1>10. QED BY <1>3, <1>4, <1>5, <1>6, <1>7, <1>8, <1>9 DEF DataInv

--------------------------------------------------------------------------------
(* The steps of an attempt, but for what it crawls and stores                   *)

(* A step of one attempt that stores nothing keeps the invariant when what it   *)
(* writes of itself agrees.                                                     *)
LEMMA QuietStep ==
  ASSUME IngestInv, TypeOK', UNCHANGED <<bounded, remote, library, sub>>,
         NEW p \in Runs, OthersKeep(p), RowInv(p)', Attached(p) => Attached(p)',
         OutputStays(p), RunStays(p), TodoStays(p) \/ TodoIsWhole(p)',
         job'.current \in {0, job.current, p},
         job'.current = p => Attached(p)',
         out'[p].state = "open" =>
           out[p].state = "open" \/ \A x \in Runs : x # p => proc[x].src # p
  PROVE  IngestInv'
PROOF
  <1>1. sub.revision \in Nat BY Shapes DEF IngestInv, RowsInv, SubRows
  <1>2. RowsInv' BY <1>1, RowsStay DEF IngestInv
  <1>3. Quiet BY OthersAreQuiet DEF Quiet, IngestInv, RowsInv
  <1>4. DataInv' BY <1>3, QuietKeepsData DEF IngestInv
  <1>5. QED BY <1>2, <1>4 DEF IngestInv

(* An attempt moves on with its source, and may set the status of its Run;      *)
(* directories may be removed.                                                  *)
MovesOn(p) ==
  /\ UNCHANGED <<bounded, remote, library, sub, job>>
  /\ OnlyProc(p)
  /\ proc'[p].src = proc[p].src
  /\ \/ proc'[p].pc = "done"
     \/ /\ Attached(p) /\ proc[p].pc # "done"
        /\ \/ proc'[p].pc = "fail" /\ run[p].status # "succeeded"
           \/ /\ proc'[p].pc = "clean"
              /\ run[p].status = "succeeded" => proc'[p].result = "success"
           \/ proc'[p].pc = "load" /\ ~bounded /\ run[p].status # "succeeded"
           \/ proc'[p].pc = "publish" /\ bounded /\ run[p].status # "succeeded"
  /\ \/ run' = run
     \/ /\ Attached(p) /\ proc[p].pc # "done" /\ run[p].status # "succeeded"
        /\ \E status \in {"ingesting", "failed"} : run' = [run EXCEPT ![p].status = status]
  /\ out' \in [Runs -> OutRows]
  /\ \A x \in Runs : OutFades(x)

LEMMA MovesOnKeeps ==
  ASSUME IngestInv, NEW p \in Runs, MovesOn(p)
  PROVE  IngestInv'
PROOF
  <1>1. /\ UNCHANGED <<bounded, remote, library, sub, job>>
        /\ OnlyProc(p) /\ proc'[p].src = proc[p].src
        /\ out' \in [Runs -> OutRows] /\ \A x \in Runs : OutFades(x)
    BY DEF MovesOn
  <1>2. /\ proc \in [Runs -> ProcRows] /\ run \in [Runs -> RunRows] /\ out \in [Runs -> OutRows]
        /\ proc' \in [Runs -> ProcRows] /\ job \in JobRows /\ sub \in SubRows /\ TypeOK
    BY <1>1, Shapes DEF IngestInv, RowsInv, OnlyProc
  <1>3. PICK r \in RunRows : r = run[p] BY <1>2
  <1>4. /\ run' \in [Runs -> RunRows]
        /\ \A x \in Runs : x # p => run'[x] = run[x]
        /\ run'[p].before = r.before /\ run'[p].after = r.after /\ run'[p].found = r.found
        /\ \/ run'[p] = r
           \/ /\ Attached(p) /\ proc[p].pc # "done" /\ r.status # "succeeded"
              /\ run'[p].status \in {"ingesting", "failed"}
    <2>1. CASE run' = run BY <1>2, <1>3, <2>1
    <2>2. CASE run' # run
      <3>1. PICK status \in {"ingesting", "failed"} : run' = [run EXCEPT ![p].status = status]
        BY <2>2 DEF MovesOn
      <3>2. PICK new : new = [r EXCEPT !.status = status] OBVIOUS
      <3>3. /\ new \in RunRows /\ new.status = status /\ new.before = r.before
            /\ new.after = r.after /\ new.found = r.found
        BY <3>2 DEF RunRows, Statuses
      <3>4. run' = [run EXCEPT ![p] = new] BY <1>2, <1>3, <3>1, <3>2
      <3>5. Attached(p) /\ proc[p].pc # "done" /\ r.status # "succeeded"
        BY <1>3, <2>2 DEF MovesOn
      <3>6. QED BY <1>2, <3>3, <3>4, <3>5
    <2>3. QED BY <2>1, <2>2
  <1>5. TypeOK' BY <1>1, <1>2, <1>4, Shapes, ShapesNext DEF IngestInv, RowsInv
  <1>6. PICK o \in OutRows : o = out[p] BY <1>2
  <1>7. PICK o2 \in OutRows : o2 = out'[p] BY <1>1
  <1>8. o2 = o \/ o2 = [o EXCEPT !.state = "none"] BY <1>1, <1>6, <1>7 DEF OutFades
  <1>9. o2.records = o.records /\ o2.origin = o.origin /\ (o2.state = "open" => o.state = "open")
    BY <1>8 DEF OutRows
  <1>10. OthersKeep(p) BY <1>1, <1>4 DEF OthersKeep, OnlyProc, RunFades
  <1>11. RowInv(p) BY DEF IngestInv, RowsInv
  <1>12. Attached(p)' BY DEF MovesOn, Attached
  <1>13. RowInv(p)'
    <2>1. UnattachedIsBlank(p)' BY <1>12 DEF UnattachedIsBlank
    <2>2. SourceIsAttached(p)'
      <3>1. PICK s : s = proc[p].src OBVIOUS
      <3>2. s \in {0} \cup Runs BY <1>2, <3>1 DEF ProcRows
      <3>3. s \notin {0, p} => Attached(s)
        BY <1>11, <3>1 DEF RowInv, SourceIsAttached
      <3>4. s \notin {0, p} => Attached(s)' BY <1>1, <3>2, <3>3 DEF OnlyProc, Attached
      <3>5. Attached(p) /\ proc[p].pc # "done" => s # 0 /\ r.status # "none"
        BY <1>3, <1>11, <3>1 DEF RowInv, SourceIsAttached
      <3>6. r.status # "none" => s # 0
        BY <1>3, <1>11, <3>1 DEF RowInv, SourceIsAttached
      <3>7. run'[p].status # "none" => s # 0 BY <1>4, <3>5, <3>6
      <3>8. proc'[p].pc # "done" => s # 0 /\ run'[p].status # "none"
        BY <1>4, <3>5 DEF MovesOn
      <3>9. QED BY <1>1, <3>1, <3>4, <3>7, <3>8 DEF SourceIsAttached, Attached
    <2>3. OpenIsPrivate(p)'
      <3>1. ASSUME NEW q \in Runs, out'[q].state = "open", p # q, proc'[p].src = q
            PROVE  run'[p].status = "none"
        <4>1. proc[p].src = q BY <1>1, <3>1
        <4>2. out[q].state = "open"
          <5>1. OutFades(q) BY <1>1
          <5>2. PICK o3 \in OutRows : o3 = out[q] BY <1>2
          <5>3. out'[q] = o3 \/ out'[q] = [o3 EXCEPT !.state = "none"]
            BY <5>1, <5>2 DEF OutFades
          <5>4. [o3 EXCEPT !.state = "none"].state = "none" BY DEF OutRows
          <5>5. QED BY <3>1, <5>2, <5>3, <5>4
        <4>3. r.status = "none" BY <1>3, <1>11, <3>1, <4>1, <4>2 DEF RowInv, OpenIsPrivate
        <4>4. ~(Attached(p) /\ proc[p].pc # "done")
          BY <1>3, <1>11, <4>3 DEF RowInv, SourceIsAttached
        <4>5. QED BY <1>4, <4>3, <4>4
      <3>2. QED BY <3>1 DEF OpenIsPrivate
    <2>4. ModeIsKept(p)' BY <1>1 DEF MovesOn, ModeIsKept
    <2>5. SuccessIsOver(p)'
      <3>1. run'[p].status = "succeeded" => run[p].status = "succeeded" BY <1>3, <1>4
      <3>2. QED BY <3>1 DEF MovesOn, SuccessIsOver
    <2>6. RevisionsArePast(p)'
      BY <1>1, <1>3, <1>4, <1>6, <1>7, <1>9, <1>11 DEF RowInv, RevisionsArePast
    <2>7. QED BY <2>1, <2>2, <2>3, <2>4, <2>5, <2>6 DEF RowInv
  <1>14. OutputStays(p) BY <1>6, <1>7, <1>9 DEF OutputStays
  <1>15. RunStays(p) BY <1>1, <1>3, <1>4 DEF RunStays, Published
  <1>16. TodoStays(p) BY DEF MovesOn, TodoStays
  <1>17. job'.current \in {0, job.current, p} BY <1>1
  <1>18. QED
    BY <1>1, <1>5, <1>6, <1>7, <1>9, <1>10, <1>12, <1>13, <1>14, <1>15, <1>16, <1>17, QuietStep

(* The points at which an attempt has work to lose.                             *)
AtWork == {"crawl", "ingest", "load", "batches", "publish"}

LEMMA WorkIsNotOver ==
  ASSUME IngestInv, NEW p \in Runs, proc[p].pc \in AtWork \cup {"fail"}
  PROVE  /\ Attached(p) /\ proc[p].pc # "done"
         /\ run[p].status # "succeeded" /\ run[p].status # "none" /\ proc[p].src \in Runs
PROOF
  <1>1. RowInv(p) /\ RowsInv BY DEF IngestInv, RowsInv
  <1>2. Attached(p) /\ proc[p].pc # "done" BY DEF AtWork, Attached
  <1>3. run[p].status # "succeeded" BY <1>1 DEF AtWork, RowInv, SuccessIsOver
  <1>4. run[p].status # "none" BY <1>1, <1>2 DEF RowInv, SourceIsAttached
  <1>5. proc[p].src \in Runs BY <1>1, <1>4, SourceIsRun
  <1>6. QED BY <1>2, <1>3, <1>4, <1>5

LEMMA OutputsRest ==
  ASSUME TypeOK, out' = out
  PROVE  out' \in [Runs -> OutRows] /\ \A x \in Runs : OutFades(x)
BY Shapes DEF OutFades

(* An attempt that gives up.                                                    *)
LEMMA LeaveKeeps ==
  ASSUME IngestInv, NEW p \in Runs, proc[p].pc \in AtWork,
         NEW result \in {"failed", "fenced"}, Leave(p, result),
         UNCHANGED <<bounded, remote, library, sub, run, out, job>>
  PROVE  IngestInv'
PROOF
  <1>1. TypeOK BY DEF IngestInv, RowsInv
  <1>2. result \in {"success", "failed", "fenced"} OBVIOUS
  <1>3. /\ OnlyProc(p) /\ proc'[p].src = proc[p].src
        /\ proc'[p].pc \in {"done", "clean", "fail"}
    BY <1>1, <1>2, LeaveWrites
  <1>4. Attached(p) /\ proc[p].pc # "done" /\ run[p].status # "succeeded" BY WorkIsNotOver
  <1>5. MovesOn(p) BY <1>1, <1>3, <1>4, OutputsRest DEF MovesOn
  <1>6. QED BY <1>5, MovesOnKeeps

LEMMA RefusedKeeps ==
  ASSUME IngestInv, NEW p \in Runs, proc[p].pc \in AtWork, Refused(p),
         UNCHANGED <<bounded, remote, library, sub, run, out, job>>
  PROVE  IngestInv'
PROOF
  <1>1. Leave(p, IF Owned(p) THEN "failed" ELSE "fenced") BY DEF Refused
  <1>2. CASE Owned(p)
    <2>1. Leave(p, "failed") BY <1>1, <1>2
    <2>2. QED BY <2>1, LeaveKeeps
  <1>3. CASE ~Owned(p)
    <2>1. Leave(p, "fenced") BY <1>1, <1>3
    <2>2. QED BY <2>1, LeaveKeeps
  <1>4. QED BY <1>2, <1>3

LEMMA CancelledKeeps ==
  ASSUME IngestInv, NEW p \in Runs, Cancelled(p)
  PROVE  IngestInv'
BY LeaveKeeps DEF Cancelled, AtWork

LEMMA CrashKeeps ==
  ASSUME IngestInv, NEW p \in Runs, Crash(p)
  PROVE  IngestInv'
PROOF
  <1>1. TypeOK BY DEF IngestInv, RowsInv
  <1>2. /\ UNCHANGED <<bounded, remote, library, sub, run, out, job>> /\ End(p)
    BY DEF Crash
  <1>3. OnlyProc(p) /\ proc'[p].pc = "done" /\ proc'[p].src = proc[p].src
    BY <1>1, <1>2, EndWrites
  <1>4. MovesOn(p) BY <1>1, <1>2, <1>3, OutputsRest DEF MovesOn
  <1>5. QED BY <1>4, MovesOnKeeps

LEMMA SetRunFailureKeeps ==
  ASSUME IngestInv, NEW p \in Runs, SetRunFailure(p)
  PROVE  IngestInv'
PROOF
  <1>1. TypeOK BY DEF IngestInv, RowsInv
  <1>2. /\ proc[p].pc = "fail" /\ End(p)
        /\ UNCHANGED <<bounded, remote, library, sub, out, job>>
        /\ run' = [run EXCEPT ![p].status = "failed"] \/ run' = run
    BY DEF SetRunFailure
  <1>3. OnlyProc(p) /\ proc'[p].pc = "done" /\ proc'[p].src = proc[p].src
    BY <1>1, <1>2, EndWrites
  <1>4. Attached(p) /\ proc[p].pc # "done" /\ run[p].status # "succeeded"
    BY <1>2, WorkIsNotOver
  <1>5. run' = run \/ \E status \in {"ingesting", "failed"} :
                         run' = [run EXCEPT ![p].status = status]
    BY <1>2
  <1>6. MovesOn(p) BY <1>1, <1>2, <1>3, <1>4, <1>5, OutputsRest DEF MovesOn
  <1>7. QED BY <1>6, MovesOnKeeps

LEMMA SetIngestingKeeps ==
  ASSUME IngestInv, NEW p \in Runs, SetIngesting(p)
  PROVE  IngestInv'
PROOF
  <1>1. TypeOK BY DEF IngestInv, RowsInv
  <1>2. proc[p].pc = "ingest" /\ UNCHANGED <<bounded, remote, library, sub, out, job>>
    BY DEF SetIngesting
  <1>3. CASE Owned(p)
    <2>1. /\ run' = [run EXCEPT ![p].status = "ingesting"]
          /\ Goto(p, IF bounded THEN "publish" ELSE "load")
      BY <1>3 DEF SetIngesting
    <2>2. PICK pc \in Points : pc = (IF bounded THEN "publish" ELSE "load") BY DEF Points
    <2>3. Goto(p, pc) BY <2>1, <2>2
    <2>4. OnlyProc(p) /\ proc'[p].pc = pc /\ proc'[p].src = proc[p].src
      BY <1>1, <2>3, GotoWrites
    <2>5. Attached(p) /\ proc[p].pc # "done" /\ run[p].status # "succeeded"
      BY <1>2, WorkIsNotOver DEF AtWork
    <2>6. \E status \in {"ingesting", "failed"} : run' = [run EXCEPT ![p].status = status]
      BY <2>1
    <2>7. MovesOn(p) BY <1>1, <1>2, <2>2, <2>4, <2>5, <2>6, OutputsRest DEF MovesOn
    <2>8. QED BY <2>7, MovesOnKeeps
  <1>4. CASE ~Owned(p)
    <2>1. Leave(p, "fenced") /\ run' = run BY <1>4 DEF SetIngesting
    <2>2. QED BY <1>2, <2>1, LeaveKeeps DEF AtWork
  <1>5. QED BY <1>3, <1>4

LEMMA CleanKeeps ==
  ASSUME IngestInv, NEW p \in Runs, Clean(p)
  PROVE  IngestInv'
PROOF
  <1>1. TypeOK BY DEF IngestInv, RowsInv
  <1>2. /\ proc[p].pc = "clean" /\ out' = [out EXCEPT ![proc[p].src].state = "none"]
        /\ IF proc[p].result = "failed" THEN Goto(p, "fail") ELSE End(p)
        /\ UNCHANGED <<bounded, remote, library, sub, run, job>>
    BY DEF Clean
  <1>3. out \in [Runs -> OutRows] BY <1>1, Shapes
  <1>4. out' \in [Runs -> OutRows] BY <1>2, <1>3 DEF OutRows
  <1>5. \A x \in Runs : OutFades(x) BY <1>2, <1>3 DEF OutFades
  <1>6. Attached(p) /\ proc[p].pc # "done" BY <1>2 DEF Attached
  <1>7. CASE proc[p].result = "failed"
    <2>1. Goto(p, "fail") /\ "fail" \in Points BY <1>2, <1>7 DEF Points
    <2>2. OnlyProc(p) /\ proc'[p].pc = "fail" /\ proc'[p].src = proc[p].src
      BY <1>1, <2>1, GotoWrites
    <2>3. run[p].status # "succeeded"
      BY <1>2, <1>7 DEF IngestInv, RowsInv, RowInv, SuccessIsOver
    <2>4. MovesOn(p) BY <1>2, <1>4, <1>5, <1>6, <2>2, <2>3 DEF MovesOn
    <2>5. QED BY <2>4, MovesOnKeeps
  <1>8. CASE proc[p].result # "failed"
    <2>1. End(p) BY <1>2, <1>8
    <2>2. OnlyProc(p) /\ proc'[p].pc = "done" /\ proc'[p].src = proc[p].src
      BY <1>1, <2>1, EndWrites
    <2>3. MovesOn(p) BY <1>2, <1>4, <1>5, <2>2 DEF MovesOn
    <2>4. QED BY <2>3, MovesOnKeeps
  <1>9. QED BY <1>7, <1>8

LEMMA LeaseEndsKeeps ==
  ASSUME IngestInv, LeaseEnds
  PROVE  IngestInv'
PROOF
  <1>1. /\ UNCHANGED <<bounded, remote, library, sub, run, out, proc>>
        /\ \/ job' = [owner |-> 0, current |-> 0]
           \/ job' = [job EXCEPT !.owner = 0]
    BY DEF LeaseEnds
  <1>2. TypeOK /\ job \in JobRows BY Shapes DEF IngestInv, RowsInv
  <1>3. job' \in JobRows /\ job'.current \in {0, job.current} BY <1>1, <1>2 DEF JobRows
  <1>4. TypeOK' BY <1>1, <1>2, <1>3, Shapes, ShapesNext
  <1>5. RowsInv' BY <1>1, <1>3, <1>4, RowsRest DEF IngestInv
  <1>6. Quiet BY <1>1 DEF Quiet, OutputStays, RunStays, TodoStays, Published
  <1>7. DataInv' BY <1>1, <1>4, <1>6, QuietKeepsData DEF IngestInv
  <1>8. QED BY <1>5, <1>7 DEF IngestInv

(* A new attempt has written nothing yet.                                       *)
LEMMA UnusedIsBlank ==
  ASSUME IngestInv, NEW p \in Runs, ~Attached(p)
  PROVE  /\ run[p] = NoRun /\ out[p] = NoOutput /\ job.current # p
         /\ \A x \in Runs : x # p => proc[x].src # p
         /\ run[p].status = "none" /\ run[p].before = 0 /\ run[p].after = 0
         /\ run[p].found = 0
         /\ out[p].records = {} /\ out[p].state = "none" /\ out[p].origin = 0
PROOF
  <1>1. RowInv(p) BY DEF IngestInv, RowsInv
  <1>2. run[p] = NoRun /\ out[p] = NoOutput BY <1>1 DEF RowInv, UnattachedIsBlank
  <1>3. p # 0 BY RunsArePositive
  <1>4. job.current # p BY <1>3 DEF IngestInv, RowsInv
  <1>5. \A x \in Runs : x # p => proc[x].src # p
    BY <1>3 DEF IngestInv, RowsInv, RowInv, SourceIsAttached
  <1>6. QED BY <1>2, <1>4, <1>5 DEF NoRun, NoOutput

LEMMA StartAttemptKeeps ==
  ASSUME IngestInv, NEW p \in Runs, StartAttempt(p)
  PROVE  IngestInv'
PROOF
  <1>1. TypeOK /\ proc \in [Runs -> ProcRows] /\ job \in JobRows
    BY Shapes DEF IngestInv, RowsInv
  <1>2. PICK c : c = job.current OBVIOUS
  <1>3. c \in {0} \cup Runs BY <1>1, <1>2 DEF JobRows
  <1>4. PICK new : new = [Unused EXCEPT !.pc = "attach", !.src = c] OBVIOUS
  <1>5. new \in ProcRows /\ new.pc = "attach" /\ new.src = c
    BY <1>3, <1>4 DEF ProcRows, Unused, Points
  <1>6. /\ UNCHANGED <<bounded, remote, library, sub, run, out>>
        /\ job' = [job EXCEPT !.owner = p] /\ proc' = [proc EXCEPT ![p] = new]
        /\ proc[p].pc = "unused"
    BY <1>2, <1>4 DEF StartAttempt, Next1
  <1>7. /\ proc' \in [Runs -> ProcRows] /\ proc'[p] = new
        /\ \A x \in Runs : x # p => proc'[x] = proc[x]
    BY <1>1, <1>5, <1>6
  <1>8. job' \in JobRows /\ job'.current = c BY <1>1, <1>2, <1>6 DEF JobRows
  <1>9. TypeOK' BY <1>1, <1>6, <1>7, <1>8, Shapes, ShapesNext
  <1>10. ~Attached(p) /\ ~Attached(p)' BY <1>5, <1>6, <1>7 DEF Attached
  <1>11. /\ run[p] = NoRun /\ out[p] = NoOutput /\ c # p
         /\ \A x \in Runs : x # p => proc[x].src # p
         /\ run[p].status = "none"
    BY <1>2, <1>10, UnusedIsBlank
  <1>12. OthersKeep(p) BY <1>6, <1>7 DEF OthersKeep, RunFades, OutFades
  <1>13. RowInv(p)'
    <2>1. UnattachedIsBlank(p)' BY <1>6, <1>11 DEF UnattachedIsBlank
    <2>2. SourceIsAttached(p)'
      <3>1. c # 0 => Attached(c) BY <1>2 DEF IngestInv, RowsInv
      <3>2. c # 0 => Attached(c)' BY <1>3, <1>7, <1>11, <3>1 DEF Attached
      <3>3. QED BY <1>5, <1>6, <1>7, <1>10, <1>11, <3>2 DEF SourceIsAttached
    <2>3. OpenIsPrivate(p)' BY <1>6, <1>11 DEF OpenIsPrivate
    <2>4. ModeIsKept(p)' BY <1>5, <1>7 DEF ModeIsKept
    <2>5. SuccessIsOver(p)' BY <1>6, <1>11 DEF SuccessIsOver
    <2>6. RevisionsArePast(p)' BY <1>6 DEF IngestInv, RowsInv, RowInv, RevisionsArePast
    <2>7. QED BY <2>1, <2>2, <2>3, <2>4, <2>5, <2>6 DEF RowInv
  <1>14. OutputStays(p) BY <1>6 DEF OutputStays
  <1>15. RunStays(p) BY <1>6, <1>11 DEF RunStays, Published
  <1>16. TodoStays(p) BY <1>5, <1>7 DEF TodoStays
  <1>17. QED
    BY <1>2, <1>6, <1>8, <1>9, <1>10, <1>11, <1>12, <1>13, <1>14, <1>15, <1>16, QuietStep

LEMMA IngestByHandKeeps ==
  ASSUME IngestInv, NEW p \in Runs, IngestByHand(p)
  PROVE  IngestInv'
PROOF
  <1>1. /\ TypeOK /\ proc \in [Runs -> ProcRows] /\ job \in JobRows /\ sub \in SubRows
        /\ run \in [Runs -> RunRows]
    BY Shapes DEF IngestInv, RowsInv
  <1>2. PICK q \in Runs :
          /\ MadeByHand(q)
          /\ IF p = q THEN run[p] = NoRun ELSE Next1(p)
          /\ proc' = [proc EXCEPT ![p] = [Unused EXCEPT
                !.pc = IF bounded THEN "publish" ELSE "load", !.manual = TRUE, !.src = q]]
    BY DEF IngestByHand
  <1>3. UNCHANGED <<bounded, remote, library, sub, out, job>> BY DEF IngestByHand
  <1>4. p # q => ~Attached(p) BY <1>2 DEF Attached, Next1
  <1>5. PICK rev \in Nat : rev = sub.revision BY <1>1 DEF SubRows
  <1>6. PICK pc \in {"publish", "load"} : pc = (IF bounded THEN "publish" ELSE "load")
    OBVIOUS
  <1>7. PICK new : new = [Unused EXCEPT !.pc = pc, !.manual = TRUE, !.src = q] OBVIOUS
  <1>8. new \in ProcRows /\ new.pc = pc /\ new.src = q BY <1>7 DEF ProcRows, Unused, Points
  <1>9. PICK row : row = [NoRun EXCEPT !.status = "ingesting", !.before = rev, !.after = rev]
    OBVIOUS
  <1>10. row \in RunRows /\ row.status = "ingesting" /\ row.before = rev /\ row.after = rev
         /\ row.found = 0
    BY <1>9 DEF RunRows, NoRun, Statuses
  <1>11. /\ proc' = [proc EXCEPT ![p] = new] /\ run' = [run EXCEPT ![p] = row]
    BY <1>2, <1>5, <1>6, <1>7, <1>9 DEF IngestByHand
  <1>12. /\ proc' \in [Runs -> ProcRows] /\ proc'[p] = new
         /\ run' \in [Runs -> RunRows] /\ run'[p] = row
         /\ \A x \in Runs : x # p => proc'[x] = proc[x] /\ run'[x] = run[x]
    BY <1>1, <1>8, <1>10, <1>11
  <1>13. TypeOK' BY <1>1, <1>3, <1>12, Shapes, ShapesNext
  <1>14. /\ out[q].state = "sealed" /\ RowInv(p) /\ RowInv(q)
         /\ run[p].status = "none" /\ run[p].before = 0 /\ run[p].after = 0
         /\ run[p].found = 0
    <2>1. run[p] = NoRun BY <1>2, <1>4, UnusedIsBlank
    <2>2. RowInv(p) /\ RowInv(q) BY DEF IngestInv, RowsInv
    <2>3. QED BY <1>2, <2>1, <2>2 DEF NoRun, MadeByHand
  <1>15. Attached(q) BY <1>14 DEF RowInv, UnattachedIsBlank, NoOutput
  <1>16. OthersKeep(p) BY <1>3, <1>12 DEF OthersKeep, RunFades, OutFades
  <1>17. Attached(p)' BY <1>8, <1>12 DEF Attached
  <1>18. RowInv(p)'
    <2>1. UnattachedIsBlank(p)' BY <1>17 DEF UnattachedIsBlank
    <2>2. SourceIsAttached(p)'
      <3>1. Attached(q)' BY <1>8, <1>12, <1>15 DEF Attached
      <3>2. q # 0 BY RunsArePositive
      <3>3. QED BY <1>8, <1>10, <1>12, <3>1, <3>2 DEF SourceIsAttached
    <2>3. OpenIsPrivate(p)' BY <1>3, <1>8, <1>12, <1>14 DEF OpenIsPrivate
    <2>4. ModeIsKept(p)' BY <1>3, <1>6, <1>8, <1>12 DEF ModeIsKept
    <2>5. SuccessIsOver(p)' BY <1>10, <1>12 DEF SuccessIsOver
    <2>6. RevisionsArePast(p)' 
      BY <1>3, <1>5, <1>10, <1>12, <1>14 DEF RowInv, RevisionsArePast
    <2>7. QED BY <2>1, <2>2, <2>3, <2>4, <2>5, <2>6 DEF RowInv
  <1>19. OutputStays(p) BY <1>3 DEF OutputStays
  <1>20. RunStays(p)
    <2>1. (rev + 1)..rev = {} /\ 1..0 = {} OBVIOUS
    <2>2. Published(p) = {} /\ Published(p)' = {}
      BY <1>10, <1>12, <1>14, <2>1 DEF Published
    <2>3. QED BY <1>10, <1>12, <1>14, <2>2 DEF RunStays
  <1>21. TodoStays(p) BY <1>6, <1>8, <1>12 DEF TodoStays
  <1>22. job'.current \in {0, job.current, p} BY <1>3
  <1>23. out'[p].state = out[p].state BY <1>3
  <1>24. QED
    BY <1>3, <1>13, <1>16, <1>17, <1>18, <1>19, <1>20, <1>21, <1>22, <1>23, QuietStep

(* The source an attempt has chosen when it attaches its Run: its own directory *)
(* to be, a sealed one, or none.                                                *)
LEMMA ChosenSource ==
  ASSUME IngestInv, NEW p \in Runs, proc[p].pc = "attach",
         NEW src \in Recovered(p, proc[p].src)
  PROVE  \/ src = p
         \/ src = 0
         \/ /\ src \in Runs /\ src # p /\ src = proc[p].src
            /\ out[src].state = "sealed" /\ Attached(src)
PROOF
  <1>1. proc \in [Runs -> ProcRows] BY Shapes DEF IngestInv, RowsInv
  <1>2. PICK q : q = proc[p].src OBVIOUS
  <1>3. q \in {0} \cup Runs BY <1>1, <1>2 DEF ProcRows
  <1>4. src = p \/ (q # 0 /\ out[q].state = "sealed" /\ src \in {q, 0})
    BY <1>2 DEF Recovered
  <1>5. out[p].state # "sealed" BY UnusedIsBlank DEF Attached
  <1>6. q \notin {0, p} => Attached(q)
    BY <1>2 DEF IngestInv, RowsInv, RowInv, SourceIsAttached
  <1>7. QED BY <1>2, <1>3, <1>4, <1>5, <1>6

LEMMA AttachKeeps ==
  ASSUME IngestInv, NEW p \in Runs, Attach(p)
  PROVE  IngestInv'
PROOF
  <1>1. /\ TypeOK /\ proc \in [Runs -> ProcRows] /\ job \in JobRows /\ sub \in SubRows
        /\ run \in [Runs -> RunRows] /\ out \in [Runs -> OutRows]
    BY Shapes DEF IngestInv, RowsInv
  <1>2. PICK q : q = proc[p].src OBVIOUS
  <1>3. PICK rev \in Nat, cur \in Nat : rev = sub.revision /\ cur = sub.cursor
    BY <1>1 DEF SubRows
  <1>4. PICK c \in {0} \cup Runs : c = job.current BY <1>1 DEF JobRows
  <1>5. proc[p].pc = "attach" /\ UNCHANGED <<bounded, remote, library, sub>> /\ ~Attached(p)
    BY DEF Attach, Attached
  <1>6. PICK row : row = [NoRun EXCEPT !.status = "running", !.before = rev, !.after = rev]
    OBVIOUS
  <1>7. row \in RunRows /\ row.status = "running" /\ row.before = rev /\ row.after = rev
        /\ row.found = 0
    BY <1>6 DEF RunRows, NoRun, Statuses
  <1>8. PICK opened : opened = [NoOutput EXCEPT !.state = "open", !.origin = rev,
                                                !.cursor = cur]
    OBVIOUS
  <1>9. /\ opened \in OutRows /\ opened.state = "open" /\ opened.records = {}
        /\ opened.origin = rev
    BY <1>8 DEF OutRows, NoOutput
  <1> DEFINE left(s) == [r \in Runs |-> IF r = q /\ s # q THEN [out[r] EXCEPT !.state = "none"]
                                        ELSE out[r]]
  <1>10. PICK src \in Recovered(p, q) :
           IF Owned(p)
             THEN /\ run' = [r \in Runs |->
                               CASE r = p -> row
                                 [] r = c /\ run[r].status \in {"running", "ingesting"}
                                      -> [run[r] EXCEPT !.status = "cancelled"]
                                 [] OTHER -> run[r]]
                  /\ job' = [job EXCEPT !.current = p]
                  /\ proc' = [proc EXCEPT ![p].pc = CASE src = 0 -> "fail"
                                                      [] src = p -> "crawl"
                                                      [] OTHER -> "ingest",
                                          ![p].src = IF src = 0 THEN p ELSE src]
                  /\ out' = IF src = p THEN [left(src) EXCEPT ![p] = opened] ELSE left(src)
             ELSE End(p) /\ out' = left(src) /\ UNCHANGED <<run, job>>
    BY <1>2, <1>3, <1>4, <1>6, <1>8 DEF Attach
  <1>11. PICK rest : rest = left(src) OBVIOUS
  <1>12. /\ rest \in [Runs -> OutRows]
         /\ \A x \in Runs : rest[x] = out[x] \/ rest[x] = [out[x] EXCEPT !.state = "none"]
         /\ \A x \in Runs : x # q \/ src = q => rest[x] = out[x]
    BY <1>1, <1>11 DEF OutRows
  <1>13. /\ run[p] = NoRun /\ out[p] = NoOutput /\ c # p
         /\ \A x \in Runs : x # p => proc[x].src # p
         /\ run[p].status = "none" /\ run[p].before = 0 /\ run[p].after = 0
         /\ run[p].found = 0
         /\ out[p].records = {} /\ out[p].state = "none" /\ out[p].origin = 0
    BY <1>4, <1>5, UnusedIsBlank
  <1>14. rest[p] = out[p]
    <2>1. [NoOutput EXCEPT !.state = "none"] = NoOutput BY DEF NoOutput
    <2>2. QED BY <1>12, <1>13, <2>1
  <1>15. \/ src = p
         \/ src = 0
         \/ src \in Runs /\ src # p /\ src = q /\ out[src].state = "sealed" /\ Attached(src)
    BY <1>2, <1>5, <1>10, ChosenSource
  <1>16. p # 0 /\ 0 \notin Runs BY RunsArePositive
  <1>17. CASE ~Owned(p)
    <2>1. End(p) /\ out' = rest /\ UNCHANGED <<run, job>> BY <1>10, <1>11, <1>17
    <2>2. OnlyProc(p) /\ proc'[p].pc = "done" /\ proc'[p].src = proc[p].src
      BY <1>1, <2>1, EndWrites
    <2>3. out' \in [Runs -> OutRows] /\ \A x \in Runs : OutFades(x)
      BY <1>12, <2>1 DEF OutFades
    <2>4. MovesOn(p) BY <1>5, <2>1, <2>2, <2>3 DEF MovesOn
    <2>5. QED BY <2>4, MovesOnKeeps
  <1>18. CASE Owned(p)
    <2>1. PICK pc \in {"fail", "crawl", "ingest"} :
            pc = (CASE src = 0 -> "fail" [] src = p -> "crawl" [] OTHER -> "ingest")
      OBVIOUS
    <2>2. PICK own \in Runs : own = (IF src = 0 THEN p ELSE src) BY <1>15
    <2>3. PICK old \in ProcRows : old = proc[p] BY <1>1
    <2>4. PICK new : new = [old EXCEPT !.pc = pc, !.src = own] OBVIOUS
    <2>5. new \in ProcRows /\ new.pc = pc /\ new.src = own BY <2>4 DEF ProcRows, Points
    <2>6. proc' = [proc EXCEPT ![p] = new]
      BY <1>1, <1>10, <1>18, <2>1, <2>2, <2>3, <2>4
    <2>7. /\ proc' \in [Runs -> ProcRows] /\ proc'[p] = new
          /\ \A x \in Runs : x # p => proc'[x] = proc[x]
      BY <1>1, <2>5, <2>6
    <2>8. /\ job' = [job EXCEPT !.current = p]
          /\ run' = [r \in Runs |->
                       CASE r = p -> row
                         [] r = c /\ run[r].status \in {"running", "ingesting"}
                              -> [run[r] EXCEPT !.status = "cancelled"]
                         [] OTHER -> run[r]]
          /\ out' = IF src = p THEN [rest EXCEPT ![p] = opened] ELSE rest
      BY <1>10, <1>11, <1>18
    <2>9. job' \in JobRows /\ job'.current = p BY <1>1, <2>8 DEF JobRows
    <2>10. run' \in [Runs -> RunRows] /\ run'[p] = row /\ \A x \in Runs : x # p => RunFades(x)
      <3>1. ASSUME NEW x \in Runs PROVE [run[x] EXCEPT !.status = "cancelled"] \in RunRows
        BY <1>1 DEF RunRows, Statuses
      <3>2. ASSUME NEW x \in Runs
            PROVE  /\ [run[x] EXCEPT !.status = "cancelled"].status = "cancelled"
                   /\ [run[x] EXCEPT !.status = "cancelled"].before = run[x].before
                   /\ [run[x] EXCEPT !.status = "cancelled"].after = run[x].after
                   /\ [run[x] EXCEPT !.status = "cancelled"].found = run[x].found
        BY <1>1 DEF RunRows
      <3>3. run'[p] = row BY <1>13, <2>8
      <3>4. \A x \in Runs : x # p =>
              \/ run'[x] = run[x]
              \/ /\ run[x].status \in {"running", "ingesting"}
                 /\ run'[x] = [run[x] EXCEPT !.status = "cancelled"]
        BY <2>8
      <3>5. ASSUME NEW x \in Runs, x # p PROVE RunFades(x)
        <4>1. CASE run'[x] = run[x] BY <4>1 DEF RunFades
        <4>2. CASE run'[x] # run[x]
          <5>1. /\ run[x].status \in {"running", "ingesting"}
                /\ run'[x] = [run[x] EXCEPT !.status = "cancelled"]
            BY <3>4, <3>5, <4>2
          <5>2. QED BY <3>2, <5>1 DEF RunFades
        <4>3. QED BY <4>1, <4>2
      <3>6. \A x \in Runs : run'[x] \in RunRows BY <1>1, <1>7, <3>1, <3>3, <3>4
      <3>7. run' \in [Runs -> RunRows] BY <2>8, <3>6
      <3>8. QED BY <3>3, <3>5, <3>7
    <2>11. /\ out' \in [Runs -> OutRows] /\ \A x \in Runs : x # p => out'[x] = rest[x]
           /\ out'[p] = out[p] \/ (src = p /\ out'[p] = opened)
      <3>1. CASE src = p BY <1>9, <1>12, <2>8, <3>1
      <3>2. CASE src # p BY <1>12, <1>14, <2>8, <3>2
      <3>3. QED BY <3>1, <3>2
    <2>12. TypeOK' BY <1>1, <1>5, <2>7, <2>9, <2>10, <2>11, Shapes, ShapesNext
    <2>13. OthersKeep(p) BY <1>12, <2>7, <2>10, <2>11 DEF OthersKeep, OutFades
    <2>14. Attached(p)' BY <2>5, <2>7 DEF Attached
    <2>15. RowInv(p)'
      <3>1. UnattachedIsBlank(p)' BY <2>14 DEF UnattachedIsBlank
      <3>2. SourceIsAttached(p)'
        <4>1. own # p => Attached(own) BY <1>15, <2>2
        <4>2. own # p => Attached(own)' BY <2>7, <4>1 DEF Attached
        <4>3. own # 0 BY <1>16
        <4>4. QED BY <1>7, <2>5, <2>7, <2>10, <4>2, <4>3 DEF SourceIsAttached
      <3>3. OpenIsPrivate(p)'
        <4>1. own # p => own = q /\ src = q /\ out[own].state = "sealed"
          BY <1>15, <2>2
        <4>2. own # p => out'[own].state = "sealed" BY <1>12, <2>11, <4>1
        <4>3. QED BY <2>5, <2>7, <4>2 DEF OpenIsPrivate
      <3>4. ModeIsKept(p)' BY <2>5, <2>7 DEF ModeIsKept
      <3>5. SuccessIsOver(p)' BY <1>7, <2>10 DEF SuccessIsOver
      <3>6. RevisionsArePast(p)'
        BY <1>3, <1>5, <1>7, <1>9, <1>13, <2>10, <2>11 DEF RevisionsArePast
      <3>7. QED BY <3>1, <3>2, <3>3, <3>4, <3>5, <3>6 DEF RowInv
    <2>16. OutputStays(p) BY <1>9, <1>13, <2>11 DEF OutputStays
    <2>17. RunStays(p)
      <3>1. (rev + 1)..rev = {} /\ 1..0 = {} OBVIOUS
      <3>2. Published(p) = {} /\ Published(p)' = {}
        BY <1>7, <1>13, <2>10, <3>1 DEF Published
      <3>3. QED BY <1>7, <1>13, <2>10, <3>2 DEF RunStays
    <2>18. TodoStays(p) BY <2>5, <2>7 DEF TodoStays
    <2>19. job'.current \in {0, job.current, p} BY <2>9
    <2>20. QED
      BY <1>5, <1>13, <2>12, <2>13, <2>14, <2>15, <2>16, <2>17, <2>18, <2>19, QuietStep
  <1>19. QED BY <1>17, <1>18

--------------------------------------------------------------------------------
(* What is crawled and what is left to do                                       *)

(* An ingest starts with all that is missing: of a crawl made at the revision   *)
(* the Run holds the watermark refuses nothing that is not stored, and of an    *)
(* older one whatever is not stored is accepted.                                *)
LEMMA LoadStartKeeps ==
  ASSUME IngestInv, NEW p \in Runs, LoadStart(p)
  PROVE  IngestInv'
PROOF
  <1>1. /\ TypeOK /\ proc \in [Runs -> ProcRows] /\ out \in [Runs -> OutRows]
        /\ run \in [Runs -> RunRows] /\ sub \in SubRows
    BY Shapes DEF IngestInv, RowsInv
  <1>2. proc[p].pc = "load" /\ UNCHANGED <<bounded, remote, library, sub, run, out, job>>
    BY DEF LoadStart
  <1>3. CASE ~MayPublish(p)
    <2>1. Refused(p) BY <1>3 DEF LoadStart
    <2>2. QED BY <1>2, <2>1, RefusedKeeps DEF AtWork
  <1>4. CASE MayPublish(p)
    <2>1. PICK q \in Runs : q = proc[p].src BY <1>2, WorkIsNotOver DEF AtWork
    <2>2. PICK recs : recs = out[q].records OBVIOUS
    <2>3. PICK todo : todo = Accepted(p) OBVIOUS
    <2>4. todo = {r \in recs : \/ AcceptForward(r)
                               \/ out[q].origin < run[p].after /\ r \notin library}
      BY <2>1, <2>2, <2>3 DEF Accepted
    <2>5. todo \subseteq recs /\ recs \subseteq Records BY <1>1, <2>2, <2>4 DEF OutRows
    <2>6. recs \ library \subseteq todo
      <3>1. ~bounded BY <1>2 DEF IngestInv, RowsInv, RowInv, ModeIsKept
      <3>2. CurrentCrawlIsWhole(q) BY <3>1 DEF IngestInv, DataInv, ForwardInv
      <3>3. run[p].after = sub.revision BY <1>4 DEF MayPublish
      <3>4. out[q].origin <= sub.revision
        BY DEF IngestInv, RowsInv, RowInv, RevisionsArePast
      <3>5. out[q].origin \in Nat /\ sub.revision \in Nat BY <1>1 DEF OutRows, SubRows
      <3>6. CASE out[q].origin < run[p].after BY <2>4, <3>6
      <3>7. CASE ~(out[q].origin < run[p].after)
        <4>1. out[q].origin = sub.revision BY <3>3, <3>4, <3>5, <3>7
        <4>2. QED BY <2>2, <2>4, <3>2, <4>1 DEF CurrentCrawlIsWhole
      <3>8. QED BY <3>6, <3>7
    <2>7. PICK old \in ProcRows : old = proc[p] BY <1>1
    <2>8. PICK new : new = [old EXCEPT !.pc = "batches", !.todo = todo] OBVIOUS
    <2>9. /\ new \in ProcRows /\ new.pc = "batches" /\ new.src = old.src /\ new.todo = todo
      BY <2>5, <2>8 DEF ProcRows, Points
    <2>10. proc' = [proc EXCEPT ![p] = new]
      BY <1>1, <1>4, <2>3, <2>7, <2>8 DEF LoadStart
    <2>11. /\ proc' \in [Runs -> ProcRows] /\ proc'[p] = new
           /\ \A x \in Runs : x # p => proc'[x] = proc[x]
      BY <1>1, <2>9, <2>10
    <2>12. TypeOK' BY <1>1, <1>2, <2>11, Shapes, ShapesNext
    <2>13. OthersKeep(p) BY <1>2, <2>11 DEF OthersKeep, RunFades, OutFades
    <2>14. Attached(p)' BY <2>9, <2>11 DEF Attached
    <2>15. RowInv(p)'
      <3>1. RowInv(p) BY DEF IngestInv, RowsInv
      <3>2. UnattachedIsBlank(p)' BY <2>14 DEF UnattachedIsBlank
      <3>3. SourceIsAttached(p)'
        <4>1. Attached(p) /\ proc[p].pc # "done" /\ run[p].status # "none"
          BY <1>2, WorkIsNotOver DEF AtWork
        <4>2. q \notin {0, p} => Attached(q) BY <2>1, <3>1 DEF RowInv, SourceIsAttached
        <4>3. q # p => Attached(q)' BY <2>11, <4>2, RunsArePositive DEF Attached
        <4>4. q # 0 BY RunsArePositive
        <4>5. QED BY <1>2, <2>1, <2>7, <2>9, <2>11, <4>1, <4>3, <4>4 DEF SourceIsAttached
      <3>4. OpenIsPrivate(p)'
        BY <1>2, <2>7, <2>9, <2>11, <3>1 DEF RowInv, OpenIsPrivate
      <3>5. ModeIsKept(p)' BY <1>2, <2>9, <2>11, <3>1 DEF RowInv, ModeIsKept
      <3>6. SuccessIsOver(p)' BY <1>2, WorkIsNotOver DEF AtWork, SuccessIsOver
      <3>7. RevisionsArePast(p)' BY <1>2, <3>1 DEF RowInv, RevisionsArePast
      <3>8. QED BY <3>2, <3>3, <3>4, <3>5, <3>6, <3>7 DEF RowInv
    <2>16. OutputStays(p) BY <1>2 DEF OutputStays
    <2>17. RunStays(p) BY <1>2, <2>7, <2>9, <2>11 DEF RunStays, Published
    <2>18. TodoIsWhole(p)'
      BY <1>2, <2>1, <2>2, <2>5, <2>6, <2>7, <2>9, <2>11 DEF TodoIsWhole
    <2>19. job'.current = job.current BY <1>2
    <2>20. QED
      BY <1>2, <2>12, <2>13, <2>14, <2>15, <2>16, <2>17, <2>18, <2>19, QuietStep
  <1>5. QED BY <1>3, <1>4

(* A crawl returns a window of the newest records: what is not in it is beyond  *)
(* the reach of all the later ones, and of what is in it the watermark refuses  *)
(* nothing that is not stored.                                                  *)
LEMMA OutputsReach ==
  ASSUME IngestInv, NEW w \in Outputs
  PROVE  /\ w \subseteq remote
         /\ \A r \in remote \ w : OutOfReach(r)
         /\ RefusedIsOutOfReach => \A r \in w \ library : AcceptForward(r)
PROOF
  <1>1. /\ w \subseteq remote /\ Cardinality(w) <= MaxItems
        /\ w = remote \/ Cardinality(w) = MaxItems
        /\ \A r \in w, q \in remote \ w : q < r
    BY DEF Outputs
  <1>2. remote \subseteq Records /\ remote \subseteq Nat /\ IsFiniteSet(remote)
    <2>1. remote \subseteq Records BY Shapes DEF IngestInv, RowsInv
    <2>2. QED BY <2>1, IngestionAssumption, FS_Subset DEF IngestionAssumption
  <1>3. MaxItems \in Nat BY IngestionAssumption DEF IngestionAssumption
  <1>4. IsFiniteSet(w) /\ Cardinality(w) \in Nat
    BY <1>1, <1>2, FS_Subset, FS_CardinalityType
  <1>5. ASSUME NEW r \in remote \ w PROVE OutOfReach(r)
    <2>1. Cardinality(w) = MaxItems BY <1>1, <1>5
    <2>2. PICK newer : newer = Newer(r) OBVIOUS
    <2>3. newer \subseteq remote /\ w \subseteq newer BY <1>1, <2>2 DEF Newer
    <2>4. IsFiniteSet(newer) /\ Cardinality(newer) \in Nat
      BY <1>2, <2>3, FS_Subset, FS_CardinalityType
    <2>5. Cardinality(w) <= Cardinality(newer) BY <2>3, <2>4, FS_Subset
    <2>6. QED BY <2>1, <2>2, <2>5 DEF OutOfReach
  <1>6. ASSUME NEW r \in w PROVE ~OutOfReach(r)
    <2>1. PICK newer : newer = Newer(r) OBVIOUS
    <2>2. newer \subseteq w \ {r}
      <3>1. ASSUME NEW q \in remote, r < q PROVE q \in w /\ q # r
        <4>1. r \in Nat /\ q \in Nat BY <1>1, <1>2
        <4>2. QED BY <1>1, <3>1, <4>1
      <3>2. QED BY <2>1, <3>1 DEF Newer
    <2>3. IsFiniteSet(w \ {r}) /\ Cardinality(w \ {r}) = Cardinality(w) - 1
      BY <1>4, FS_RemoveElement
    <2>4. IsFiniteSet(newer) /\ Cardinality(newer) <= Cardinality(w \ {r})
      BY <2>2, <2>3, FS_Subset
    <2>5. Cardinality(newer) \in Nat BY <2>4, FS_CardinalityType
    <2>6. Cardinality(newer) < MaxItems BY <1>1, <1>3, <1>4, <2>3, <2>4, <2>5
    <2>7. QED BY <1>3, <2>1, <2>5, <2>6 DEF OutOfReach
  <1>7. QED BY <1>1, <1>5, <1>6 DEF RefusedIsOutOfReach

(* A directory that nobody reads yet is sealed with the output of a crawl.      *)
LEMMA SealKeeps ==
  ASSUME IngestInv, TypeOK', NEW p \in Runs, NEW w \in Outputs,
         UNCHANGED <<bounded, remote, library, sub, run, job>>,
         OnlyProc(p), proc'[p].pc # "batches",
         out'[p].records = w, out'[p].state # "open",
         \A x \in Runs : x # p => out'[x] = out[x],
         RowInv(p)', Attached(p)', run[p].status # "succeeded",
         \A x \in Runs : x # p /\ run[x].status # "none" => proc[x].src # p
  PROVE  IngestInv'
PROOF
  <1>1. OthersKeep(p) BY DEF OthersKeep, OnlyProc, RunFades, OutFades
  <1>2. RowsInv'
    <2>1. sub \in SubRows BY Shapes DEF IngestInv, RowsInv
    <2>2. sub.revision <= sub'.revision BY <2>1 DEF SubRows
    <2>3. job'.current \in {0, job.current, p} OBVIOUS
    <2>4. QED BY <1>1, <2>2, <2>3, RowsStay DEF IngestInv
  <1>3. \A x \in Runs : x # p => OutputStays(x) /\ RunStays(x) /\ TodoStays(x)
    BY <1>1, OthersAreQuiet DEF IngestInv, RowsInv
  <1>4. RunStays(p) BY DEF RunStays, Published
  <1>5. ASSUME NEW x \in Runs, x # p, run[x].status # "none"
        PROVE  out'[proc[x].src].records = out[proc[x].src].records
    <2>1. proc[x].src \in Runs BY <1>5, SourceIsRun DEF IngestInv
    <2>2. QED BY <1>5, <2>1
  <1>6. DataInv'
    <2>1. RevisionsAreRuns'
      BY <1>3, <1>4, RevisionsStay DEF RunStays, IngestInv, DataInv
    <2>2. RemoteIsPrefix' BY DEF IngestInv, DataInv, RemoteIsPrefix
    <2>3. \A x \in Runs : OutputIsWindow(x)'
      <3>1. ASSUME NEW x \in Runs, x # p PROVE OutputIsWindow(x)'
        BY <3>1, WindowsStay DEF IngestInv, DataInv
      <3>2. OutputIsWindow(p)'
        <4>1. w \subseteq remote /\ \A r \in remote \ w : OutOfReach(r) BY OutputsReach
        <4>2. \A r \in remote \ w : OutOfReach(r)' BY <4>1 DEF OutOfReach, Newer
        <4>3. QED BY <4>1, <4>2 DEF OutputIsWindow
      <3>3. QED BY <3>1, <3>2
    <2>4. CursorCountsSuccesses' BY CursorStays DEF IngestInv, DataInv
    <2>5. SucceededRunIsStored'
      <3>1. ASSUME NEW x \in Runs
            PROVE  run'[x].status = "succeeded" =>
                     out'[proc'[x].src].records \subseteq library'
        <4>1. CASE x = p BY <4>1
        <4>2. CASE x # p
          <5>1. run[x].status = "succeeded" =>
                  out'[proc[x].src].records = out[proc[x].src].records
            BY <1>5, <4>2
          <5>2. QED BY <1>3, <4>2, <5>1, StoredStays DEF IngestInv, DataInv
        <4>3. QED BY <4>1, <4>2
      <3>2. QED BY <3>1 DEF SucceededRunIsStored
    <2>6. ForwardInv'
      <3>1. CASE bounded BY <3>1 DEF ForwardInv
      <3>2. CASE ~bounded
        <4>1. /\ WatermarkIsExact /\ RefusedIsOutOfReach
              /\ \A x \in Runs : CurrentCrawlIsWhole(x) /\ TodoIsWhole(x)
          BY <3>2 DEF IngestInv, DataInv, ForwardInv
        <4>2. WatermarkIsExact' BY <4>1 DEF WatermarkIsExact
        <4>3. RefusedIsOutOfReach'
          BY <4>1 DEF RefusedIsOutOfReach, AcceptForward, OutOfReach, Newer
        <4>4. ASSUME NEW x \in Runs PROVE CurrentCrawlIsWhole(x)' /\ TodoIsWhole(x)'
          <5>1. CASE x = p
            <6>1. \A r \in w \ library : AcceptForward(r) BY <4>1, OutputsReach
            <6>2. \A r \in w \ library : AcceptForward(r)'
              BY <6>1 DEF AcceptForward
            <6>3. CurrentCrawlIsWhole(p)'
              BY <6>2 DEF CurrentCrawlIsWhole
            <6>4. TodoIsWhole(p)' BY DEF TodoIsWhole
            <6>5. QED BY <5>1, <6>3, <6>4
          <5>2. CASE x # p
            <6>1. CurrentCrawlIsWhole(x)' BY <1>3, <4>1, <5>2, CrawlStays
            <6>2. CASE proc'[x].pc = "batches"
              <7>1. proc[x].pc = "batches" BY <1>3, <5>2, <6>2 DEF TodoStays
              <7>2. run[x].status # "none" BY <7>1, WorkIsNotOver DEF AtWork
              <7>3. TodoIsWhole(x)'
                BY <1>3, <1>5, <4>1, <5>2, <7>2, TodoKeeps DEF IngestInv
              <7>4. QED BY <6>1, <7>3
            <6>3. CASE proc'[x].pc # "batches" BY <6>1, <6>3 DEF TodoIsWhole
            <6>4. QED BY <6>2, <6>3
          <5>3. QED BY <5>1, <5>2
        <4>5. QED BY <4>2, <4>3, <4>4 DEF ForwardInv
      <3>3. QED BY <3>1, <3>2
    <2>7. CountIsExact' BY CountStays DEF IngestInv, DataInv, RowsInv
    <2>8. QED BY <2>1, <2>2, <2>3, <2>4, <2>5, <2>6, <2>7 DEF DataInv
  <1>7. QED BY <1>2, <1>6 DEF IngestInv

LEMMA CrawlKeeps ==
  ASSUME IngestInv, NEW p \in Runs, Crawl(p)
  PROVE  IngestInv'
PROOF
  <1>1. /\ TypeOK /\ proc \in [Runs -> ProcRows] /\ out \in [Runs -> OutRows]
        /\ run \in [Runs -> RunRows] /\ sub \in SubRows
    BY Shapes DEF IngestInv, RowsInv
  <1>2. proc[p].pc = "crawl" /\ UNCHANGED <<bounded, remote, library, sub, run, job>>
    BY DEF Crawl
  <1>3. CASE Leave(p, "failed") /\ out' = out BY <1>2, <1>3, LeaveKeeps DEF AtWork
  <1>4. CASE /\ out[p].state = "open" /\ Goto(p, "ingest")
             /\ \E w \in Outputs : out' = [out EXCEPT ![p].state = "sealed", ![p].records = w]
    <2>1. PICK w \in Outputs : out' = [out EXCEPT ![p].state = "sealed", ![p].records = w]
      BY <1>4
    <2>2. w \subseteq remote /\ w \subseteq Records
      BY <1>1, OutputsReach, Shapes
    <2>3. PICK old \in OutRows : old = out[p] BY <1>1
    <2>4. PICK new : new = [old EXCEPT !.state = "sealed", !.records = w] OBVIOUS
    <2>5. /\ new \in OutRows /\ new.state = "sealed" /\ new.records = w
          /\ new.origin = old.origin
      BY <2>2, <2>4 DEF OutRows
    <2>6. out' = [out EXCEPT ![p] = new] BY <1>1, <2>1, <2>3, <2>4
    <2>7. /\ out' \in [Runs -> OutRows] /\ out'[p] = new
          /\ \A x \in Runs : x # p => out'[x] = out[x]
      BY <1>1, <2>5, <2>6
    <2>8. /\ OnlyProc(p) /\ proc'[p].pc = "ingest" /\ proc'[p].src = proc[p].src
      <3>1. "ingest" \in Points BY DEF Points
      <3>2. QED BY <1>1, <1>4, <3>1, GotoWrites
    <2>9. TypeOK' BY <1>1, <1>2, <2>7, <2>8, Shapes, ShapesNext DEF OnlyProc
    <2>10. OthersKeep(p) BY <1>2, <2>7, <2>8 DEF OthersKeep, OnlyProc, RunFades, OutFades
    <2>11. Attached(p)' BY <2>8 DEF Attached
    <2>12. RowInv(p) BY DEF IngestInv, RowsInv
    <2>13. /\ Attached(p) /\ proc[p].pc # "done" /\ run[p].status # "none"
           /\ run[p].status # "succeeded" /\ proc[p].src \in Runs
      BY <1>2, WorkIsNotOver DEF AtWork
    <2>14. RowInv(p)'
      <3>1. UnattachedIsBlank(p)' BY <2>11 DEF UnattachedIsBlank
      <3>2. SourceIsAttached(p)'
        <4>1. PICK s \in Runs : s = proc[p].src BY <2>13
        <4>2. s \notin {0, p} => Attached(s) BY <2>12, <4>1 DEF RowInv, SourceIsAttached
        <4>3. s \notin {0, p} => Attached(s)' BY <2>8, <4>2 DEF OnlyProc, Attached
        <4>4. s # 0 BY RunsArePositive
        <4>5. QED BY <1>2, <2>8, <2>13, <4>1, <4>3, <4>4 DEF SourceIsAttached
      <3>3. OpenIsPrivate(p)'
        BY <1>2, <2>7, <2>8, <2>12 DEF RowInv, OpenIsPrivate
      <3>4. ModeIsKept(p)' BY <2>8 DEF ModeIsKept
      <3>5. SuccessIsOver(p)' BY <1>2, <2>13 DEF SuccessIsOver
      <3>6. RevisionsArePast(p)'
        BY <1>2, <2>3, <2>5, <2>7, <2>12 DEF RowInv, RevisionsArePast
      <3>7. QED BY <3>1, <3>2, <3>3, <3>4, <3>5, <3>6 DEF RowInv
    <2>15. \A x \in Runs : x # p /\ run[x].status # "none" => proc[x].src # p
      BY <1>4 DEF IngestInv, RowsInv, RowInv, OpenIsPrivate
    <2>16. QED
      BY <1>2, <2>5, <2>7, <2>8, <2>9, <2>11, <2>13, <2>14, <2>15, SealKeeps
  <1>5. QED BY <1>3, <1>4 DEF Crawl

LEMMA CrawlByHandKeeps ==
  ASSUME IngestInv, NEW p \in Runs, CrawlByHand(p)
  PROVE  IngestInv'
PROOF
  <1>1. /\ TypeOK /\ proc \in [Runs -> ProcRows] /\ out \in [Runs -> OutRows]
        /\ sub \in SubRows
    BY Shapes DEF IngestInv, RowsInv
  <1>2. PICK w \in Outputs, origin \in {0, sub.revision} :
          out' = [out EXCEPT ![p] = [state |-> "sealed", records |-> w, origin |-> origin,
                                     cursor |-> sub.cursor]]
    BY DEF CrawlByHand
  <1>3. PICK row : row = [state |-> "sealed", records |-> w, origin |-> origin,
                          cursor |-> sub.cursor]
    OBVIOUS
  <1>4. w \subseteq Records BY <1>1, OutputsReach, Shapes
  <1>5. row \in OutRows /\ row.state = "sealed" /\ row.records = w /\ row.origin = origin
    BY <1>1, <1>3, <1>4 DEF OutRows, SubRows
  <1>6. PICK new : new = [Unused EXCEPT !.pc = "done", !.manual = TRUE, !.src = p] OBVIOUS
  <1>7. new \in ProcRows /\ new.pc = "done" /\ new.src = p
    BY <1>6 DEF ProcRows, Unused, Points
  <1>8. /\ UNCHANGED <<bounded, remote, library, sub, run, job>>
        /\ proc' = [proc EXCEPT ![p] = new] /\ out' = [out EXCEPT ![p] = row]
        /\ proc[p].pc = "unused"
    BY <1>2, <1>3, <1>6 DEF CrawlByHand, Next1
  <1>9. /\ OnlyProc(p) /\ proc'[p] = new
        /\ out' \in [Runs -> OutRows] /\ out'[p] = row
        /\ \A x \in Runs : x # p => out'[x] = out[x]
    BY <1>1, <1>5, <1>7, <1>8 DEF OnlyProc
  <1>10. TypeOK' BY <1>1, <1>8, <1>9, Shapes, ShapesNext DEF OnlyProc
  <1>11. /\ run[p].status = "none" /\ run[p].before = 0 /\ run[p].after = 0
         /\ \A x \in Runs : x # p => proc[x].src # p
    BY <1>8, UnusedIsBlank DEF Attached
  <1>12. Attached(p)' BY <1>7, <1>9 DEF Attached
  <1>13. RowInv(p)'
    <2>1. UnattachedIsBlank(p)' BY <1>12 DEF UnattachedIsBlank
    <2>2. SourceIsAttached(p)'
      <3>1. p # 0 BY RunsArePositive
      <3>2. QED BY <1>7, <1>9, <3>1 DEF SourceIsAttached
    <2>3. OpenIsPrivate(p)' BY <1>7, <1>9 DEF OpenIsPrivate
    <2>4. ModeIsKept(p)' BY <1>7, <1>9 DEF ModeIsKept
    <2>5. SuccessIsOver(p)' BY <1>7, <1>9 DEF SuccessIsOver
    <2>6. RevisionsArePast(p)'
      BY <1>1, <1>5, <1>8, <1>9, <1>11 DEF RevisionsArePast, SubRows
    <2>7. QED BY <2>1, <2>2, <2>3, <2>4, <2>5, <2>6 DEF RowInv
  <1>14. QED BY <1>5, <1>7, <1>8, <1>9, <1>10, <1>11, <1>12, <1>13, SealKeeps

(* A record comes to the window of every later crawl, and others may leave it.  *)
LEMMA PublishKeeps ==
  ASSUME IngestInv, NEW r \in Records, Publish(r)
  PROVE  IngestInv'
PROOF
  <1>1. /\ r \notin remote /\ {q \in Records : q < r} \subseteq remote
        /\ remote' = remote \cup {r}
        /\ UNCHANGED <<bounded, library, sub, run, out, job, proc>>
    BY DEF Publish
  <1>2. TypeOK /\ remote \subseteq Records /\ library \subseteq remote /\ sub \in SubRows
    BY Shapes DEF IngestInv, RowsInv
  <1>3. Records \subseteq Nat /\ IsFiniteSet(Records)
    BY IngestionAssumption DEF IngestionAssumption
  <1>4. MaxItems \in Nat BY IngestionAssumption DEF IngestionAssumption
  <1>5. TypeOK' BY <1>1, <1>2, Shapes, ShapesNext
  <1>6. RowsInv' BY <1>1, <1>5, RowsRest DEF IngestInv
  <1>7. ASSUME NEW q \in remote PROVE q < r
    <2>1. r < q => r \in remote BY DEF IngestInv, DataInv, RemoteIsPrefix
    <2>2. QED BY <1>1, <1>2, <1>3, <2>1
  <1>8. ASSUME NEW q, OutOfReach(q) PROVE OutOfReach(q)'
    <2>1. PICK newer : newer = Newer(q) OBVIOUS
    <2>2. PICK newest : newest = Newer(q)' OBVIOUS
    <2>3. newer \subseteq newest /\ newer \subseteq Records /\ newest \subseteq Records
      BY <1>1, <1>2, <2>1, <2>2 DEF Newer
    <2>4. IsFiniteSet(newer) /\ IsFiniteSet(newest) BY <1>3, <2>3, FS_Subset
    <2>5. Cardinality(newer) \in Nat /\ Cardinality(newest) \in Nat
      BY <2>4, FS_CardinalityType
    <2>6. Cardinality(newer) <= Cardinality(newest) BY <2>3, <2>4, FS_Subset
    <2>7. Cardinality(newer) >= MaxItems BY <1>8, <2>1 DEF OutOfReach
    <2>8. Cardinality(newest) >= MaxItems BY <1>4, <2>5, <2>6, <2>7
    <2>9. QED BY <2>2, <2>8 DEF OutOfReach
  <1>9. RevisionsAreRuns' BY <1>1, RevisionsStay DEF IngestInv, DataInv, Published
  <1>10. RemoteIsPrefix' BY <1>1 DEF IngestInv, DataInv, RemoteIsPrefix
  <1>11. ASSUME NEW x \in Runs PROVE OutputIsWindow(x)'
    <2>1. OutputIsWindow(x) BY DEF IngestInv, DataInv
    <2>2. \A q \in out[x].records : q < r BY <1>7, <2>1 DEF OutputIsWindow
    <2>3. \A s \in remote \ out[x].records : (\A q \in out[x].records : q < s) \/ OutOfReach(s)'
      BY <1>8, <2>1 DEF OutputIsWindow
    <2>4. out[x].records \subseteq remote' BY <1>1, <2>1 DEF OutputIsWindow
    <2>5. QED BY <1>1, <2>2, <2>3, <2>4 DEF OutputIsWindow
  <1>12. CursorCountsSuccesses' BY <1>1, CursorStays DEF IngestInv, DataInv
  <1>13. SucceededRunIsStored' BY <1>1 DEF IngestInv, DataInv, SucceededRunIsStored
  <1>14. ForwardInv'
    <2>1. CASE bounded BY <1>1, <2>1 DEF ForwardInv
    <2>2. CASE ~bounded
      <3>1. /\ WatermarkIsExact /\ RefusedIsOutOfReach
            /\ \A x \in Runs : CurrentCrawlIsWhole(x) /\ TodoIsWhole(x)
        BY <2>2 DEF IngestInv, DataInv, ForwardInv
      <3>2. WatermarkIsExact' BY <1>1, <3>1 DEF WatermarkIsExact
      <3>3. \A x \in Runs : CurrentCrawlIsWhole(x)' /\ TodoIsWhole(x)'
        BY <1>1, <3>1 DEF CurrentCrawlIsWhole, TodoIsWhole, AcceptForward
      <3>4. AcceptForward(r)
        <4>1. IsMax({0} \cup {Dates[q] : q \in library}, sub.mark)
          BY <1>2, <3>1, NewestDate DEF WatermarkIsExact
        <4>2. sub.mark = 0 \/ \E q \in library : sub.mark = Dates[q] BY <4>1 DEF IsMax
        <4>3. \A q \in library : Dates[q] <= Dates[r]
          BY <1>2, <1>7, IngestionAssumption DEF IngestionAssumption
        <4>4. Dates[r] \in Nat BY IngestionAssumption DEF IngestionAssumption
        <4>5. sub.mark <= Dates[r] BY <4>2, <4>3, <4>4
        <4>6. r \notin sub.ids BY <1>1, <1>2, <3>1 DEF WatermarkIsExact
        <4>7. sub.mark \in Nat BY <1>2 DEF SubRows
        <4>8. QED BY <4>4, <4>5, <4>6, <4>7 DEF AcceptForward
      <3>5. AcceptForward(r)' BY <1>1, <3>4 DEF AcceptForward
      <3>6. \A s \in remote \ library : AcceptForward(s)' \/ OutOfReach(s)'
        <4>1. \A s : AcceptForward(s)' <=> AcceptForward(s) BY <1>1 DEF AcceptForward
        <4>2. QED BY <1>8, <3>1, <4>1 DEF RefusedIsOutOfReach
      <3>7. RefusedIsOutOfReach' BY <1>1, <3>5, <3>6 DEF RefusedIsOutOfReach
      <3>8. QED BY <3>2, <3>3, <3>7 DEF ForwardInv
    <2>3. QED BY <2>1, <2>2
  <1>15. CountIsExact' BY <1>1, <1>2, <1>5, CountStays DEF IngestInv, DataInv
  <1>16. QED
    BY <1>6, <1>9, <1>10, <1>11, <1>12, <1>13, <1>14, <1>15 DEF IngestInv, DataInv

--------------------------------------------------------------------------------
(* What is stored                                                               *)

(* The Run that publishes the next revision has published all of its own in a   *)
(* row up to the last one, for nobody has moved the revision since.             *)
LEMMA RevisionPublished ==
  ASSUME IngestInv, NEW p \in Runs, NEW row \in RunRows, row.before <= row.after,
         run[p].before = row.before, run[p].after = row.after,
         sub.revision = row.after, sub'.revision = row.after + 1,
         run'[p].before = row.before, run'[p].after = row.after + 1,
         \A x \in Runs : x # p => run'[x] = run[x]
  PROVE  RevisionsAreRuns'
PROOF
  <1>1. row.before \in Nat /\ row.after \in Nat BY DEF RunRows
  <1>2. /\ \A x, y \in Runs : x # y => Published(x) \cap Published(y) = {}
        /\ UNION {Published(x) : x \in Runs} = 1..row.after
    BY DEF IngestInv, DataInv, RevisionsAreRuns
  <1>3. (row.before + 1)..(row.after + 1) = ((row.before + 1)..row.after) \cup {row.after + 1}
    BY <1>1
  <1>4. Published(p)' = Published(p) \cup {row.after + 1} BY <1>3 DEF Published
  <1>5. \A x \in Runs : x # p => Published(x)' = Published(x) BY DEF Published
  <1>6. \A x \in Runs : Published(x) \subseteq 1..row.after BY <1>2
  <1>7. row.after + 1 \notin 1..row.after BY <1>1
  <1>8. 1..(row.after + 1) = (1..row.after) \cup {row.after + 1} BY <1>1
  <1>9. ASSUME NEW x \in Runs, NEW y \in Runs, x # y
        PROVE  Published(x)' \cap Published(y)' = {}
    <2>1. Published(x) \cap Published(y) = {} BY <1>2, <1>9
    <2>2. CASE x = p BY <1>4, <1>5, <1>6, <1>7, <1>9, <2>1, <2>2
    <2>3. CASE y = p BY <1>4, <1>5, <1>6, <1>7, <1>9, <2>1, <2>3
    <2>4. CASE x # p /\ y # p BY <1>5, <2>1, <2>4
    <2>5. QED BY <2>2, <2>3, <2>4
  <1>10. UNION {Published(x)' : x \in Runs} = 1..(row.after + 1)
    <2>1. ASSUME NEW n
          PROVE  (\E x \in Runs : n \in Published(x)') <=> n \in 1..(row.after + 1)
      <3>1. (\E x \in Runs : n \in Published(x)) <=> n \in 1..row.after
        BY <1>2
      <3>2. (\E x \in Runs : n \in Published(x)') <=>
              (\E x \in Runs : n \in Published(x)) \/ n = row.after + 1
        BY <1>4, <1>5
      <3>3. QED BY <1>8, <3>1, <3>2
    <2>2. QED BY <2>1
  <1>11. QED BY <1>9, <1>10 DEF RevisionsAreRuns

(* What a Run stores in one transaction, and the attempt with it.               *)
Stores(p, b, checkpoint, final) ==
  /\ MayPublish(p) /\ Store(p, b, checkpoint, final)
  /\ UNCHANGED <<bounded, remote, out, job>>
  /\ OnlyProc(p) /\ proc'[p].src = proc[p].src
  /\ IF final THEN \/ proc'[p].pc = "done"
                   \/ proc'[p].pc = "clean" /\ proc'[p].result = "success"
              ELSE proc'[p].pc = proc[p].pc

LEMMA StoreKeepsRows ==
  ASSUME IngestInv, NEW p \in Runs, proc[p].pc \in {"batches", "publish"},
         NEW b, b \subseteq remote, NEW checkpoint \in SubRows,
         checkpoint.revision = sub.revision + 1,
         \A r \in checkpoint.ids : Dates[r] = checkpoint.mark,
         NEW final \in BOOLEAN, Stores(p, b, checkpoint, final)
  PROVE  /\ RowsInv' /\ RevisionsAreRuns' /\ CountIsExact' /\ OthersKeep(p)
         /\ library' = library \cup b /\ sub' = checkpoint
         /\ run'[p].status = "succeeded" <=> final
         /\ \A x \in Runs : x # p => run'[x] = run[x]
PROOF
  <1>1. /\ TypeOK /\ proc \in [Runs -> ProcRows] /\ out \in [Runs -> OutRows]
        /\ run \in [Runs -> RunRows] /\ sub \in SubRows /\ job \in JobRows
        /\ remote \subseteq Records /\ library \subseteq remote
    BY Shapes DEF IngestInv, RowsInv
  <1>2. /\ MayPublish(p) /\ Store(p, b, checkpoint, final)
        /\ UNCHANGED <<bounded, remote, out, job>>
        /\ OnlyProc(p) /\ proc'[p].src = proc[p].src
    BY DEF Stores
  <1>3. PICK r \in RunRows : r = run[p] BY <1>1
  <1>4. /\ r.before \in Nat /\ r.after \in Nat /\ r.found \in Nat /\ r.status \in Statuses
    BY DEF RunRows
  <1>5. PICK count \in Nat : count = Cardinality(b \ library)
    <2>1. b \subseteq Records BY <1>1
    <2>2. IsFiniteSet(b) BY <2>1, IngestionAssumption, FS_Subset DEF IngestionAssumption
    <2>3. IsFiniteSet(b \ library) BY <2>2, FS_Difference
    <2>4. QED BY <2>3, FS_CardinalityType
  <1>6. PICK status \in Statuses : status = (IF final THEN "succeeded" ELSE r.status)
    BY <1>4 DEF Statuses
  <1>7. PICK new : new = [status |-> status, before |-> r.before, after |-> r.after + 1,
                          found |-> r.found + count]
    OBVIOUS
  <1>8. /\ new \in RunRows /\ new.before = r.before /\ new.after = r.after + 1
        /\ new.status = status /\ new.found = r.found + count
    BY <1>4, <1>7 DEF RunRows
  <1>9. library' = library \cup b /\ sub' = checkpoint /\ run' = [run EXCEPT ![p] = new]
    <2>1. /\ library' = library \cup b /\ sub' = checkpoint
          /\ run' = [run EXCEPT ![p].after = @ + 1, ![p].found = @ + Cardinality(b \ library),
                                ![p].status = IF final THEN "succeeded" ELSE @]
      BY <1>2 DEF Store
    <2>2. run' = [run EXCEPT ![p].after = r.after + 1, ![p].found = r.found + count,
                             ![p].status = status]
      BY <1>1, <1>3, <1>5, <1>6, <2>1
    <2>3. PICK mid : mid = [r EXCEPT !.after = r.after + 1, !.found = r.found + count,
                                     !.status = status]
      OBVIOUS
    <2>4. run' = [run EXCEPT ![p] = mid] BY <1>1, <1>3, <2>2, <2>3
    <2>5. mid = new
      <3>1. r = [status |-> r.status, before |-> r.before, after |-> r.after, found |-> r.found]
        BY DEF RunRows
      <3>2. mid = [status |-> status, before |-> r.before, after |-> r.after + 1,
                   found |-> r.found + count]
        BY <2>3, <3>1
      <3>3. QED BY <1>7, <3>2
    <2>6. QED BY <2>1, <2>4, <2>5
  <1>10. /\ run' \in [Runs -> RunRows] /\ run'[p] = new
         /\ \A x \in Runs : x # p => run'[x] = run[x]
    BY <1>1, <1>8, <1>9
  <1>11. TypeOK'
    BY <1>1, <1>2, <1>9, <1>10, Shapes, ShapesNext DEF OnlyProc
  <1>12. OthersKeep(p) BY <1>2, <1>10 DEF OthersKeep, OnlyProc, RunFades, OutFades
  <1>13. sub.revision = r.after /\ r.status = "ingesting" BY <1>2, <1>3 DEF MayPublish
  <1>14. RowInv(p) BY DEF IngestInv, RowsInv
  <1>15. r.before <= r.after BY <1>3, <1>14 DEF RowInv, RevisionsArePast
  <1>16. Attached(p)' BY DEF Stores, Attached
  <1>17. proc[p].src \in Runs /\ Attached(p) BY WorkIsNotOver DEF AtWork
  <1>18. status # "none" /\ (status = "succeeded" <=> final) BY <1>6, <1>13
  <1>19. RowInv(p)'
    <2>1. UnattachedIsBlank(p)' BY <1>16 DEF UnattachedIsBlank
    <2>2. SourceIsAttached(p)'
      <3>1. PICK s \in Runs : s = proc[p].src BY <1>17
      <3>2. s \notin {0, p} => Attached(s) BY <1>14, <3>1 DEF RowInv, SourceIsAttached
      <3>3. s \notin {0, p} => Attached(s)' BY <1>2, <3>2 DEF OnlyProc, Attached
      <3>4. s # 0 BY RunsArePositive
      <3>5. QED BY <1>2, <1>8, <1>10, <1>18, <3>1, <3>3, <3>4 DEF SourceIsAttached
    <2>3. OpenIsPrivate(p)'
      BY <1>2, <1>3, <1>13, <1>14 DEF RowInv, OpenIsPrivate
    <2>4. ModeIsKept(p)' BY <1>2, <1>14 DEF Stores, RowInv, ModeIsKept
    <2>5. SuccessIsOver(p)' BY <1>8, <1>10, <1>18 DEF Stores, SuccessIsOver
    <2>6. RevisionsArePast(p)'
      <3>1. out[p].origin <= sub.revision /\ out[p].origin \in Nat
        BY <1>1, <1>14 DEF RowInv, RevisionsArePast, OutRows
      <3>2. out[p].origin <= r.after + 1 /\ r.before <= r.after + 1
        BY <1>4, <1>13, <1>15, <3>1
      <3>3. QED BY <1>2, <1>4, <1>8, <1>9, <1>10, <1>13, <3>2 DEF RevisionsArePast
    <2>7. QED BY <2>1, <2>2, <2>3, <2>4, <2>5, <2>6 DEF RowInv
  <1>20. RowsInv'
    <2>1. sub.revision <= sub'.revision BY <1>1, <1>9 DEF SubRows
    <2>2. job'.current \in {0, job.current, p} /\ out'[p].state = out[p].state BY <1>2
    <2>3. QED BY <1>2, <1>11, <1>12, <1>16, <1>19, <2>1, <2>2, RowsStay DEF IngestInv
  <1>21. RevisionsAreRuns'
    BY <1>3, <1>8, <1>9, <1>10, <1>13, <1>15, RevisionPublished
  <1>22. CountIsExact'
    <2>1. PICK olds \in [Runs -> RunRows] : olds = run BY <1>1
    <2>2. PICK news \in [Runs -> RunRows] : news = run' BY <1>10
    <2>3. news[p].found = olds[p].found + count
      BY <1>3, <1>8, <1>10, <2>1, <2>2
    <2>4. \A x \in Runs : x # p => news[x].found = olds[x].found BY <1>10, <2>1, <2>2
    <2>5. FoundIn(news) = FoundIn(olds) + count BY <2>3, <2>4, CountMoves
    <2>6. FoundIn(olds) = Cardinality(library)
      BY <2>1 DEF IngestInv, DataInv, CountIsExact
    <2>7. PICK lib : lib = library OBVIOUS
    <2>8. lib \subseteq Records /\ b \subseteq Records BY <1>1, <2>7
    <2>9. IsFiniteSet(lib) /\ IsFiniteSet(b \ lib)
      BY <2>8, IngestionAssumption, FS_Subset, FS_Difference DEF IngestionAssumption
    <2>10. Cardinality(lib \cup (b \ lib))
             = Cardinality(lib) + Cardinality(b \ lib) - Cardinality(lib \cap (b \ lib))
      BY <2>9, FS_Union
    <2>11. Cardinality(lib \cap (b \ lib)) = 0
      <3>1. lib \cap (b \ lib) = {} OBVIOUS
      <3>2. QED BY <3>1, FS_EmptySet
    <2>12. Cardinality(lib) \in Nat BY <2>9, FS_CardinalityType
    <2>13. Cardinality(lib \cup b) = Cardinality(lib) + count
      <3>1. lib \cup (b \ lib) = lib \cup b OBVIOUS
      <3>2. Cardinality(lib \cup b) = Cardinality(lib \cup (b \ lib)) BY <3>1
      <3>3. QED BY <1>5, <2>7, <2>10, <2>11, <2>12, <3>2
    <2>14. QED BY <1>9, <2>2, <2>5, <2>6, <2>7, <2>13 DEF CountIsExact
  <1>23. QED BY <1>8, <1>9, <1>10, <1>12, <1>18, <1>20, <1>21, <1>22

(* What depends on the outputs alone, which a Run that stores does not touch.   *)
LEMMA StoreKeepsWindows ==
  ASSUME IngestInv, NEW p \in Runs, RowsInv', OthersKeep(p),
         UNCHANGED <<bounded, remote, out>>
  PROVE  /\ RemoteIsPrefix' /\ \A x \in Runs : OutputIsWindow(x)'
         /\ \A x \in Runs : x # p => OutputStays(x) /\ RunStays(x) /\ TodoStays(x)
PROOF
  <1>1. RemoteIsPrefix' BY DEF IngestInv, DataInv, RemoteIsPrefix
  <1>2. \A x \in Runs : OutputIsWindow(x)' BY WindowsStay DEF IngestInv, DataInv
  <1>3. QED BY <1>1, <1>2, OthersAreQuiet DEF IngestInv, RowsInv

(* The last batch, and a bounded unit, leave the whole output in the library.   *)
LEMMA StoreKeepsStored ==
  ASSUME IngestInv, NEW p \in Runs, library \subseteq library', out' = out,
         proc'[p].src = proc[p].src,
         run'[p].status = "succeeded" => out[proc[p].src].records \subseteq library',
         \A x \in Runs : x # p => RunStays(x)
  PROVE  SucceededRunIsStored'
PROOF
  <1>1. ASSUME NEW x \in Runs
        PROVE  run'[x].status = "succeeded" => out'[proc'[x].src].records \subseteq library'
    <2>1. CASE x = p BY <2>1
    <2>2. CASE x # p BY <2>2, StoredStays DEF IngestInv, DataInv
    <2>3. QED BY <2>1, <2>2
  <1>2. QED BY <1>1 DEF SucceededRunIsStored

(* A batch moves the watermark on.  What it leaves behind the new one without   *)
(* storing it was not in the output, for batches are taken oldest first, and is *)
(* older than the output, so no later crawl returns it.                         *)
LEMMA BatchKeepsForward ==
  ASSUME IngestInv, RowsInv', ~bounded, NEW p \in Runs, proc[p].pc = "batches",
         NEW b, IsFirst(b, proc[p].todo), b \subseteq remote,
         UNCHANGED <<bounded, remote, out>>, library' = library \cup b, sub' = Advanced(b),
         \A x \in Runs : x # p => TodoStays(x),
         proc'[p].pc = "batches" =>
           proc'[p].src = proc[p].src /\ proc'[p].todo = proc[p].todo \ b
  PROVE  ForwardInv'
PROOF
  <1>1. /\ TypeOK /\ sub \in SubRows /\ remote \subseteq Records /\ library \subseteq remote
        /\ out \in [Runs -> OutRows]
    BY Shapes DEF IngestInv, RowsInv
  <1>2. /\ WatermarkIsExact /\ RefusedIsOutOfReach
        /\ \A x \in Runs : CurrentCrawlIsWhole(x) /\ TodoIsWhole(x)
    BY DEF IngestInv, DataInv, ForwardInv
  <1>3. PICK new : new = Advanced(b) OBVIOUS
  <1>4. /\ new.revision = sub.revision + 1 /\ new.mark \in Nat /\ sub.mark <= new.mark
        /\ new.mark = sub.mark \/ \E q \in b : new.mark = Dates[q]
        /\ new.mark = Max({0} \cup {Dates[r] : r \in library \cup b})
        /\ new.ids = {r \in library \cup b : Dates[r] = new.mark}
    BY <1>1, <1>2, <1>3, AdvancedIsExact
  <1>5. WatermarkIsExact' BY <1>3, <1>4 DEF WatermarkIsExact
  <1>6. PICK q \in Runs : q = proc[p].src BY WorkIsNotOver DEF AtWork
  <1>7. PICK recs : recs = out[q].records OBVIOUS
  <1>8. PICK todo : todo = proc[p].todo OBVIOUS
  <1>9. todo \subseteq recs /\ recs \ library \subseteq todo
    BY <1>2, <1>6, <1>7, <1>8 DEF TodoIsWhole
  <1>10. b \subseteq todo /\ \A r \in b, s \in todo \ b : r < s BY <1>8 DEF IsFirst
  <1>11. recs \subseteq remote /\ \A r \in remote \ recs : (\A s \in recs : s < r) \/ OutOfReach(r)
    BY <1>7 DEF IngestInv, DataInv, OutputIsWindow
  <1>12. \A r : OutOfReach(r)' <=> OutOfReach(r) BY DEF OutOfReach, Newer
  <1>13. ASSUME NEW r \in remote, r \notin library \cup b
         PROVE  AcceptForward(r)' \/ OutOfReach(r)
    <2>1. Dates[r] \in Nat /\ r \in Nat /\ sub.mark \in Nat
      BY <1>1, IngestionAssumption DEF IngestionAssumption, SubRows
    <2>2. AcceptForward(r) \/ OutOfReach(r) BY <1>2, <1>13 DEF RefusedIsOutOfReach
    <2>3. CASE new.mark <= Dates[r]
      <3>1. r \notin new.ids BY <1>4, <1>13
      <3>2. QED BY <1>3, <1>4, <2>1, <2>3, <3>1 DEF AcceptForward
    <2>4. CASE ~(new.mark <= Dates[r]) /\ AcceptForward(r)
      <3>1. sub.mark <= Dates[r] BY <2>1, <2>4 DEF AcceptForward
      <3>2. PICK s \in b : new.mark = Dates[s] BY <1>4, <2>1, <2>4, <3>1
      <3>3. s \in Records /\ s \in Nat /\ r \in Records /\ Dates[s] \in Nat
        BY <1>1, IngestionAssumption DEF IngestionAssumption
      <3>4. s < r => Dates[s] <= Dates[r]
        BY <3>3, IngestionAssumption DEF IngestionAssumption
      <3>5. s # r BY <1>13
      <3>6. r < s BY <2>1, <2>4, <3>2, <3>3, <3>4, <3>5
      <3>7. CASE r \in recs
        <4>1. r \in todo \ b BY <1>9, <1>13, <3>7
        <4>2. s < r BY <1>10, <4>1
        <4>3. QED BY <2>1, <3>3, <3>6, <4>2
      <3>8. CASE r \notin recs
        <4>1. s \in recs BY <1>9, <1>10
        <4>2. ~(s < r) BY <2>1, <3>3, <3>6
        <4>3. QED BY <1>11, <3>8, <4>1, <4>2
      <3>9. QED BY <3>7, <3>8
    <2>5. QED BY <2>2, <2>3, <2>4
  <1>14. RefusedIsOutOfReach' BY <1>12, <1>13 DEF RefusedIsOutOfReach
  <1>15. ASSUME NEW x \in Runs PROVE CurrentCrawlIsWhole(x)'
    <2>1. out[x].origin <= sub.revision
      BY DEF IngestInv, RowsInv, RowInv, RevisionsArePast
    <2>2. out[x].origin \in Nat /\ sub.revision \in Nat BY <1>1 DEF OutRows, SubRows
    <2>3. out[x].origin # sub'.revision BY <1>3, <1>4, <2>1, <2>2
    <2>4. QED BY <2>3 DEF CurrentCrawlIsWhole
  <1>16. ASSUME NEW x \in Runs PROVE TodoIsWhole(x)'
    <2>1. CASE x = p
      <3>1. SUFFICES ASSUME proc'[p].pc = "batches" PROVE TodoIsWhole(p)'
        BY <2>1 DEF TodoIsWhole
      <3>2. proc'[p].src = q /\ proc'[p].todo = todo \ b BY <1>6, <1>8, <3>1
      <3>3. todo \ b \subseteq recs /\ recs \ (library \cup b) \subseteq todo \ b BY <1>9
      <3>4. QED BY <1>7, <3>2, <3>3 DEF TodoIsWhole
    <2>2. CASE x # p BY <1>2, <2>2, TodoKeeps DEF IngestInv
    <2>3. QED BY <2>1, <2>2
  <1>17. QED BY <1>5, <1>14, <1>15, <1>16 DEF ForwardInv

LEMMA BatchKeeps ==
  ASSUME IngestInv, NEW p \in Runs, Batch(p)
  PROVE  IngestInv'
PROOF
  <1>1. /\ TypeOK /\ proc \in [Runs -> ProcRows] /\ sub \in SubRows
        /\ remote \subseteq Records /\ library \subseteq remote
    BY Shapes DEF IngestInv, RowsInv
  <1>2. proc[p].pc = "batches" /\ UNCHANGED <<bounded, remote, out, job>> BY DEF Batch
  <1>3. CASE ~MayPublish(p)
    <2>1. Refused(p) /\ UNCHANGED <<library, sub, run>> BY <1>3 DEF Batch
    <2>2. QED BY <1>2, <2>1, RefusedKeeps DEF AtWork
  <1>4. CASE MayPublish(p)
    <2>1. ~bounded BY <1>2 DEF IngestInv, RowsInv, RowInv, ModeIsKept
    <2>2. WatermarkIsExact /\ TodoIsWhole(p)
      BY <2>1 DEF IngestInv, DataInv, ForwardInv
    <2>3. PICK q \in Runs : q = proc[p].src BY <1>2, WorkIsNotOver DEF AtWork
    <2>4. PICK recs : recs = out[q].records OBVIOUS
    <2>5. PICK todo : todo = proc[p].todo OBVIOUS
    <2>6. todo \subseteq recs /\ recs \ library \subseteq todo
      BY <1>2, <2>2, <2>3, <2>4, <2>5 DEF TodoIsWhole
    <2>7. recs \subseteq remote BY <2>4 DEF IngestInv, DataInv, OutputIsWindow
    <2>8. PICK b : b = First(todo) OBVIOUS
    <2>9. IsFirst(b, todo) BY <1>1, <2>6, <2>7, <2>8, FirstIsFirst
    <2>10. b \subseteq todo /\ b \subseteq remote /\ b \subseteq Records
      BY <1>1, <2>6, <2>7, <2>9 DEF IsFirst
    <2>11. PICK final \in BOOLEAN : final = (b = todo) OBVIOUS
    <2>12. PICK new : new = Advanced(b) OBVIOUS
    <2>13. /\ new \in SubRows /\ new.revision = sub.revision + 1 /\ new.cursor = sub.cursor
           /\ \A r \in new.ids : Dates[r] = new.mark
      <3>1. /\ new.revision = sub.revision + 1 /\ new.cursor = sub.cursor
            /\ new.mark \in Nat /\ new.ids = {r \in library \cup b : Dates[r] = new.mark}
            /\ new = [revision |-> new.revision, mark |-> new.mark, ids |-> new.ids,
                      cursor |-> new.cursor]
        <4>1. /\ Advanced(b).revision = sub.revision + 1 /\ Advanced(b).cursor = sub.cursor
              /\ Advanced(b).mark \in Nat
              /\ Advanced(b).ids = {r \in library \cup b : Dates[r] = Advanced(b).mark}
              /\ Advanced(b) = [revision |-> Advanced(b).revision, mark |-> Advanced(b).mark,
                                ids |-> Advanced(b).ids, cursor |-> Advanced(b).cursor]
          BY <1>1, <2>2, <2>10, AdvancedIsExact
        <4>2. QED BY <2>12, <4>1
      <3>2. sub.revision \in Nat /\ sub.cursor \in Nat BY <1>1 DEF SubRows
      <3>3. new.ids \subseteq Records BY <1>1, <2>10, <3>1
      <3>4. [revision |-> new.revision, mark |-> new.mark, ids |-> new.ids,
             cursor |-> new.cursor] \in SubRows
        BY <3>1, <3>2, <3>3 DEF SubRows
      <3>5. QED BY <3>1, <3>4
    <2>14. /\ Store(p, b, new, final)
           /\ IF final THEN Leave(p, "success")
                       ELSE proc' = [proc EXCEPT ![p].todo = todo \ b]
      BY <1>1, <1>4, <2>5, <2>8, <2>11, <2>12 DEF Batch
    <2>15. /\ OnlyProc(p) /\ proc'[p].src = proc[p].src
           /\ IF final THEN \/ proc'[p].pc = "done"
                            \/ proc'[p].pc = "clean" /\ proc'[p].result = "success"
                       ELSE proc'[p].pc = "batches" /\ proc'[p].todo = todo \ b
      <3>1. CASE final
        <4>1. Leave(p, "success") BY <2>14, <3>1
        <4>2. "success" \in {"success", "failed", "fenced"} OBVIOUS
        <4>3. QED BY <1>1, <3>1, <4>1, <4>2, LeaveWrites
      <3>2. CASE ~final
        <4>1. PICK old \in ProcRows : old = proc[p] BY <1>1
        <4>2. PICK row : row = [old EXCEPT !.todo = todo \ b] OBVIOUS
        <4>3. todo \ b \in SUBSET Records BY <1>1, <2>6, <2>7
        <4>4. /\ row \in ProcRows /\ row.pc = old.pc /\ row.src = old.src
              /\ row.todo = todo \ b
          BY <4>2, <4>3 DEF ProcRows
        <4>5. proc' = [proc EXCEPT ![p] = row] BY <1>1, <2>14, <3>2, <4>1, <4>2
        <4>6. QED BY <1>1, <1>2, <3>2, <4>1, <4>4, <4>5 DEF OnlyProc
      <3>3. QED BY <3>1, <3>2
    <2>16. Stores(p, b, new, final) BY <1>2, <1>4, <2>14, <2>15 DEF Stores
    <2>17. /\ RowsInv' /\ RevisionsAreRuns' /\ CountIsExact' /\ OthersKeep(p)
           /\ library' = library \cup b /\ sub' = new
           /\ run'[p].status = "succeeded" <=> final
           /\ \A x \in Runs : x # p => run'[x] = run[x]
      BY <1>2, <2>10, <2>13, <2>16, StoreKeepsRows
    <2>18. /\ RemoteIsPrefix' /\ \A x \in Runs : OutputIsWindow(x)'
           /\ \A x \in Runs : x # p => OutputStays(x) /\ RunStays(x) /\ TodoStays(x)
      BY <1>2, <2>17, StoreKeepsWindows
    <2>19. SucceededRunIsStored'
      <3>1. final => recs \subseteq library' BY <2>6, <2>11, <2>17
      <3>2. library \subseteq library' BY <2>17
      <3>3. QED
        BY <1>2, <2>3, <2>4, <2>15, <2>17, <2>18, <3>1, <3>2, StoreKeepsStored
    <2>20. ForwardInv'
      <3>1. proc'[p].pc = "batches" =>
              proc'[p].src = proc[p].src /\ proc'[p].todo = proc[p].todo \ b
        BY <2>5, <2>15
      <3>2. QED
        BY <1>2, <2>1, <2>5, <2>9, <2>10, <2>12, <2>17, <2>18, <3>1, BatchKeepsForward
    <2>21. CursorCountsSuccesses' BY <1>2, <2>1 DEF CursorCountsSuccesses
    <2>22. QED BY <2>17, <2>18, <2>19, <2>20, <2>21 DEF IngestInv, DataInv
  <1>5. QED BY <1>3, <1>4

(* A unit moves the cursor on by the one that this Run's success counts.        *)
LEMMA PublishUnitKeeps ==
  ASSUME IngestInv, NEW p \in Runs, PublishUnit(p)
  PROVE  IngestInv'
PROOF
  <1>1. /\ TypeOK /\ sub \in SubRows /\ remote \subseteq Records
    BY Shapes DEF IngestInv, RowsInv
  <1>2. proc[p].pc = "publish" /\ UNCHANGED <<bounded, remote, out, job>> BY DEF PublishUnit
  <1>3. CASE ~MayPublishUnit(p)
    <2>1. Refused(p) /\ UNCHANGED <<library, sub, run>> BY <1>3 DEF PublishUnit
    <2>2. QED BY <1>2, <2>1, RefusedKeeps DEF AtWork
  <1>4. CASE MayPublishUnit(p)
    <2>1. bounded BY <1>2 DEF IngestInv, RowsInv, RowInv, ModeIsKept
    <2>2. PICK q \in Runs : q = proc[p].src BY <1>2, WorkIsNotOver DEF AtWork
    <2>3. PICK recs : recs = out[q].records OBVIOUS
    <2>4. recs \subseteq remote BY <2>3 DEF IngestInv, DataInv, OutputIsWindow
    <2>5. MayPublish(p) /\ out[q].cursor = sub.cursor BY <1>4, <2>2 DEF MayPublishUnit
    <2>6. PICK new : new = [sub EXCEPT !.revision = sub.revision + 1,
                                       !.cursor = sub.cursor + 1]
      OBVIOUS
    <2>7. /\ new \in SubRows /\ new.revision = sub.revision + 1
          /\ new.cursor = sub.cursor + 1 /\ new.mark = sub.mark /\ new.ids = sub.ids
      <3>1. PICK old \in SubRows : old = sub BY <1>1
      <3>2. /\ old = [revision |-> old.revision, mark |-> old.mark, ids |-> old.ids,
                      cursor |-> old.cursor]
            /\ old.revision \in Nat /\ old.mark \in Nat /\ old.ids \in SUBSET Records
            /\ old.cursor \in Nat
        BY DEF SubRows
      <3>3. new = [old EXCEPT !.revision = old.revision + 1, !.cursor = old.cursor + 1]
        BY <2>6, <3>1
      <3>4. new = [revision |-> old.revision + 1, mark |-> old.mark, ids |-> old.ids,
                   cursor |-> old.cursor + 1]
        BY <3>2, <3>3
      <3>5. QED BY <3>1, <3>2, <3>4 DEF SubRows
    <2>8. \A r \in new.ids : Dates[r] = new.mark BY <1>1, <2>7, Shapes
    <2>9. Store(p, recs, new, TRUE) /\ Leave(p, "success")
      BY <1>1, <1>4, <2>2, <2>3, <2>5, <2>6 DEF PublishUnit
    <2>10. /\ OnlyProc(p) /\ proc'[p].src = proc[p].src
           /\ \/ proc'[p].pc = "done"
              \/ proc'[p].pc = "clean" /\ proc'[p].result = "success"
      <3>1. "success" \in {"success", "failed", "fenced"} OBVIOUS
      <3>2. QED BY <1>1, <2>9, <3>1, LeaveWrites
    <2>11. Stores(p, recs, new, TRUE) BY <1>2, <2>5, <2>9, <2>10 DEF Stores
    <2>12. /\ RowsInv' /\ RevisionsAreRuns' /\ CountIsExact' /\ OthersKeep(p)
           /\ library' = library \cup recs /\ sub' = new
           /\ run'[p].status = "succeeded"
           /\ \A x \in Runs : x # p => run'[x] = run[x]
      BY <1>2, <2>4, <2>7, <2>8, <2>11, StoreKeepsRows
    <2>13. /\ RemoteIsPrefix' /\ \A x \in Runs : OutputIsWindow(x)'
           /\ \A x \in Runs : x # p => OutputStays(x) /\ RunStays(x) /\ TodoStays(x)
      BY <1>2, <2>12, StoreKeepsWindows
    <2>14. SucceededRunIsStored'
      BY <1>2, <2>2, <2>3, <2>10, <2>12, <2>13, StoreKeepsStored
    <2>15. ForwardInv' BY <1>2, <2>1 DEF ForwardInv
    <2>16. CursorCountsSuccesses'
      <3>1. PICK old : old = Succeeded OBVIOUS
      <3>2. old \subseteq Runs /\ IsFiniteSet(old)
        <4>1. IsFiniteSet(Runs)
          BY IngestionAssumption, FS_Interval DEF IngestionAssumption, Runs
        <4>2. old \subseteq Runs BY <3>1 DEF Succeeded
        <4>3. QED BY <4>1, <4>2, FS_Subset
      <3>3. p \notin old BY <1>2, <3>1, WorkIsNotOver DEF AtWork, Succeeded
      <3>4. Succeeded' = old \cup {p} BY <2>12, <3>1 DEF Succeeded
      <3>5. Cardinality(old \cup {p}) = Cardinality(old) + 1
        BY <3>2, <3>3, FS_AddElement
      <3>6. sub.cursor = Cardinality(old)
        BY <2>1, <3>1 DEF IngestInv, DataInv, CursorCountsSuccesses
      <3>7. QED BY <2>7, <2>12, <3>4, <3>5, <3>6 DEF CursorCountsSuccesses
    <2>17. QED BY <2>12, <2>13, <2>14, <2>15, <2>16 DEF IngestInv, DataInv
  <1>5. QED BY <1>3, <1>4

--------------------------------------------------------------------------------
(* Theorems *)

LEMMA InitHolds == Init => IngestInv
PROOF
  <1> SUFFICES ASSUME Init PROVE IngestInv OBVIOUS
  <1>1. TypeOK
    BY DEF Init, TypeOK, NoRun, NoOutput, Unused, Statuses, Points
  <1>2. \A p \in Runs : run[p] = NoRun /\ out[p] = NoOutput /\ proc[p] = Unused
    BY DEF Init
  <1>3. /\ remote = {} /\ library = {} /\ job.current = 0
        /\ sub.revision = 0 /\ sub.mark = 0 /\ sub.ids = {} /\ sub.cursor = 0
    BY DEF Init
  <1>4. \A p \in Runs : RowInv(p)
    BY <1>2, <1>3 DEF RowInv, UnattachedIsBlank, SourceIsAttached, OpenIsPrivate, ModeIsKept,
       SuccessIsOver, RevisionsArePast, Attached, NoRun, NoOutput, Unused
  <1>5. RowsInv BY <1>1, <1>3, <1>4 DEF RowsInv
  <1>6. RevisionsAreRuns
    <2>1. \A p \in Runs : Published(p) = {}
      <3>1. (0 + 1)..0 = {} OBVIOUS
      <3>2. QED BY <1>2, <3>1 DEF Published, NoRun
    <2>2. 1..0 = {} OBVIOUS
    <2>3. QED BY <1>3, <2>1, <2>2 DEF RevisionsAreRuns
  <1>7. RemoteIsPrefix /\ \A p \in Runs : OutputIsWindow(p)
    BY <1>2, <1>3 DEF RemoteIsPrefix, OutputIsWindow, NoOutput
  <1>8. ForwardInv
    <2>1. WatermarkIsExact
      <3>1. IsMax({0}, 0) BY DEF IsMax
      <3>2. Max({0}) = 0 BY <3>1, MaxOf
      <3>3. {0} \cup {Dates[r] : r \in {}} = {0} OBVIOUS
      <3>4. QED BY <1>3, <3>2, <3>3 DEF WatermarkIsExact
    <2>2. RefusedIsOutOfReach BY <1>3 DEF RefusedIsOutOfReach
    <2>3. \A p \in Runs : CurrentCrawlIsWhole(p) /\ TodoIsWhole(p)
      BY <1>2 DEF CurrentCrawlIsWhole, TodoIsWhole, NoOutput, Unused
    <2>4. QED BY <2>1, <2>2, <2>3 DEF ForwardInv
  <1>9. CursorCountsSuccesses
    <2>1. Succeeded = {} BY <1>2 DEF Succeeded, NoRun
    <2>2. QED BY <1>3, <2>1, FS_EmptySet DEF CursorCountsSuccesses
  <1>10. SucceededRunIsStored BY <1>2 DEF SucceededRunIsStored, NoRun
  <1>11. CountIsExact
    <2>1. PICK rows : rows = run OBVIOUS
    <2>2. PICK g : Sums(g, Counted(rows), Runs) /\ FoundIn(rows) = g[Runs] BY FoundInSums
    <2>3. \A x \in Runs : Counted(rows)[x] = 0 BY <1>2, <2>1 DEF Counted, NoRun
    <2>4. FoundIn(rows) = 0 BY <2>2, <2>3, RunsAreFinite, SumsOfNothing
    <2>5. QED BY <1>3, <2>1, <2>4, FS_EmptySet DEF CountIsExact
  <1>12. QED BY <1>5, <1>6, <1>7, <1>8, <1>9, <1>10, <1>11 DEF IngestInv, DataInv

LEMMA StutterKeeps == IngestInv /\ UNCHANGED vars => IngestInv'
PROOF
  <1> SUFFICES ASSUME IngestInv, UNCHANGED vars PROVE IngestInv' OBVIOUS
  <1>1. UNCHANGED <<bounded, remote, library, sub, run, out, job, proc>> BY DEF vars
  <1>2. TypeOK' BY <1>1, Shapes, ShapesNext DEF IngestInv, RowsInv
  <1>3. RowsInv' BY <1>1, <1>2, RowsRest DEF IngestInv
  <1>4. Quiet BY <1>1 DEF Quiet, OutputStays, RunStays, TodoStays, Published
  <1>5. QED BY <1>1, <1>2, <1>3, <1>4, QuietKeepsData DEF IngestInv

LEMMA NextKeeps == IngestInv /\ [Next]_vars => IngestInv'
PROOF
  <1> SUFFICES ASSUME IngestInv, [Next]_vars PROVE IngestInv' OBVIOUS
  <1>1. CASE UNCHANGED vars BY <1>1, StutterKeeps
  <1>2. ASSUME NEW r \in Records, Publish(r) PROVE IngestInv' BY <1>2, PublishKeeps
  <1>3. CASE LeaseEnds BY <1>3, LeaseEndsKeeps
  <1>4. ASSUME NEW p \in Runs,
               \/ StartAttempt(p) \/ Attach(p) \/ Crawl(p) \/ SetIngesting(p)
               \/ Cancelled(p) \/ Clean(p) \/ SetRunFailure(p) \/ Crash(p)
               \/ CrawlByHand(p) \/ IngestByHand(p) \/ LoadStart(p) \/ Batch(p) \/ PublishUnit(p)
        PROVE  IngestInv'
    BY <1>4, StartAttemptKeeps, AttachKeeps, CrawlKeeps, SetIngestingKeeps, CancelledKeeps,
       CleanKeeps, SetRunFailureKeeps, CrashKeeps, CrawlByHandKeeps, IngestByHandKeeps,
       LoadStartKeeps, BatchKeeps, PublishUnitKeeps
  <1>5. QED BY <1>1, <1>2, <1>3, <1>4 DEF Next

(* Rows, outputs and checkpoint agree in every reachable state, with any number *)
(* of attempts, crashes, expired leases and ingests by hand in between.         *)
THEOREM RowsAndCheckpointAgree == Spec => []IngestInv
BY InitHolds, NextKeeps, PTL DEF Spec

(* Variables keep their shapes: nothing is ingested that was not crawled.       *)
THEOREM TypeCorrect == Spec => []TypeOK
PROOF
  <1>1. IngestInv => TypeOK BY DEF IngestInv, RowsInv
  <1>2. QED BY <1>1, RowsAndCheckpointAgree, PTL

(* Whatever crashed, was fenced or ingested out of turn, a Run that is recorded *)
(* as succeeded has its whole output in the library.                            *)
THEOREM SucceededIsStored == Spec => []SucceededRunIsStored
PROOF
  <1>1. IngestInv => SucceededRunIsStored BY DEF IngestInv, DataInv
  <1>2. QED BY <1>1, RowsAndCheckpointAgree, PTL

(* Every revision was published by one Run, each Run's in a row; contents were  *)
(* counted once; and the watermark, or the cursor, says exactly what has been   *)
(* stored: no crash between batches, no crawl ingested out of turn and no       *)
(* second ingest of an output makes the checkpoint lie.                         *)
THEOREM TheCheckpointIsExact == Spec => []CheckpointIsExact
PROOF
  <1>1. IngestInv => CheckpointIsExact
    <2> SUFFICES ASSUME IngestInv PROVE CheckpointIsExact OBVIOUS
    <2>1. /\ \A p, q \in Runs : p # q => Published(p) \cap Published(q) = {}
          /\ UNION {Published(p) : p \in Runs} = 1..sub.revision
      BY DEF IngestInv, DataInv, RevisionsAreRuns
    <2>2. MapThenSumSet(LAMBDA p : run[p].found, Runs) = Cardinality(library)
      BY DEF IngestInv, DataInv, CountIsExact, FoundIn
    <2>3. bounded => sub.cursor = Cardinality({p \in Runs : run[p].status = "succeeded"})
      BY DEF IngestInv, DataInv, CursorCountsSuccesses, Succeeded
    <2>4. ~bounded => /\ sub.mark = Max({0} \cup {Dates[r] : r \in library})
                      /\ sub.ids = {r \in library : Dates[r] = sub.mark}
      BY DEF IngestInv, DataInv, ForwardInv, WatermarkIsExact
    <2>5. QED BY <2>1, <2>2, <2>3, <2>4 DEF CheckpointIsExact
  <1>2. QED BY <1>1, RowsAndCheckpointAgree, PTL
================================================================================
