-------------------------- MODULE PublishJournalProofs --------------------------
(* Proofs about PublishJournal for every plan, every number of crashes and      *)
(* every set of edits: what the tree is at rest, what is kept of the old files  *)
(* and of the user's, and that publications are those of AtomicPublish.         *)
EXTENDS PublishJournal, TLAPS

--------------------------------------------------------------------------------
(* The inductive invariant *)

(* The steps of a path that are left.                                           *)
Has(do, p) == Step(do, p) \in todo
NoStep(p)  == \A do \in Steps : ~Has(do, p)
OneStep(p) == \A do, other \in Steps : Has(do, p) /\ Has(other, p) => do = other

(* The paths no user has touched.                                               *)
Alone == Paths \ touched

(* The manifest is the desired one, or was when its verification moved it.      *)
Landed == "new" \in {at[0], check[0]}

(* Where a path may be that no user touched: untouched by the publisher, moved  *)
(* aside, placed, or moved to be verified.                                      *)
Aside(p)  == IF p \in Captures THEN Old(p) ELSE Nothing
Before(p) == at[p] = Old(p) /\ capt[p] = Nothing /\ check[p] = Nothing /\ linked # p
Out(p)    == /\ p \in Captures /\ at[p] = Nothing /\ capt[p] = Old(p) /\ check[p] = Nothing
             /\ linked # p
Placed(p) == p \in Installs /\ at[p] = New(p) /\ capt[p] = Aside(p) /\ check[p] = Nothing
Held(p)   == /\ p \in Installs /\ at[p] = Nothing /\ capt[p] = Aside(p) /\ check[p] = New(p)
             /\ linked # p
Stands(p) == Before(p) \/ Out(p) \/ Placed(p) \/ Held(p)

(* Where it is once the manifest is in: there is no way back.                   *)
Final(p) == at[p] = New(p) /\ check[p] = Nothing /\ linked # p

(* The slots of a path hold no bytes of a user.                                 *)
Swept(p) == capt[p] \in {Old(p), Nothing} /\ (p # 0 => check[p] = Nothing)

TreeStands ==
  /\ Stands(0) \/ (at[0] = New(0) /\ capt[0] \in {Old(0), Nothing} /\ check[0] = Nothing)
  /\ Landed => /\ \A p \in Alone \ {0} : Final(p)
               /\ \A p \in Paths : Swept(p)
  /\ ~Landed => \A p \in Alone : Stands(p)

AllBefore == ~Landed /\ \A p \in Alone : Before(p)

Blank ==
  /\ \A p \in Paths : cand[p] = Nothing /\ capt[p] = Nothing /\ check[p] = Nothing
  /\ linked = Nothing /\ aside = {} /\ ~marker

(* The transaction directory and where the publisher is.                        *)
DirectoryFits ==
  /\ journal = "none" => phase = "idle" /\ Blank
  /\ phase = "prepare" => journal = "partial" /\ Blank /\ AllBefore
  /\ phase \notin {"idle", "prepare"} => journal = "written"
  /\ journal # "written" => AllBefore \/ (Landed /\ Final(0))
  /\ marker => phase = "idle" \/ (phase = "undo" /\ ~ok)
  /\ phase \notin {"exec", "undo", "recover"} => todo = {}
  /\ phase \in {"idle", "prepare"} => captured = {} /\ installed = {}

(* The journal names what is to do with each path.                              *)
OperationsFit ==
  journal # "none" =>
    /\ \A p \in Alone : op[p] = IF plan[p] = "keep" THEN "skip" ELSE plan[p]
    /\ \A p \in Paths \ Captures : capt[p] = Nothing
    /\ \A p \in Paths \ Installs : check[p] = Nothing

(* Edits in the directory are edits that were made.                             *)
Known == {"old", "new", Nothing} \cup used
EditsAreUsed ==
  /\ at \in [Paths -> Known] /\ capt \in [Paths -> Known] /\ check \in [Paths -> Known]
  /\ cand \in [Paths -> {"old", "new", Nothing}]
  /\ moved \in Known /\ aside \subseteq Known

(* What one step began is what the publisher goes on with.                      *)
HalfDone == {"captured", "linked", "alone", "verified", "undone", "restore", "remove",
             "recovered"}

HalfFirst ==
  \A p, q \in Paths, half \in HalfDone, do \in Steps :
    Has(half, p) /\ Has(do, q) => (do = half /\ q = p) \/ Precedes(Step(half, p), Step(do, q))

(* _execute_transaction: the steps of a path, what its slots hold, and, when no *)
(* user touched it, what stands in the directory.                               *)
ExecSteps(p) ==
  /\ \A do \in Steps :
       Has(do, p) => do \in {"capture", "captured", "link", "linked", "alone", "verify",
                             "verified"} \cup (IF p = 0 THEN {"commit"} ELSE {})
  /\ Has("capture", p) => ~Has("captured", p)
  /\ Has("capture", p) \/ Has("captured", p) => p \in Captures
  /\ (Has("capture", p) \/ Has("captured", p)) /\ p \in Installs => Has("link", p)
  /\ Has("link", p) => ~Has("linked", p)
  /\ Has("link", p) \/ Has("linked", p) => ~Has("alone", p)
  /\ Has("link", p) \/ Has("linked", p) \/ Has("alone", p) => Has("verify", p)
  /\ Has("verify", p) => ~Has("verified", p)
  /\ Has("verify", p) \/ Has("verified", p) => p \in Installs

ExecSlots(p) ==
  /\ cand[p] = IF Has("link", p) \/ Has("linked", p) THEN New(p) ELSE Nothing
  /\ p \in captured <=> p \in Captures /\ ~Has("capture", p) /\ ~Has("captured", p)
  /\ p \in installed <=> /\ p \in Installs
                         /\ ~Has("link", p) /\ ~Has("linked", p) /\ ~Has("alone", p)
  /\ Has("capture", p) => capt[p] = Nothing
  /\ p \in captured => capt[p] = Old(p)
  /\ ~Has("verified", p) => check[p] = Nothing
  /\ linked = p => Has("linked", p)

ExecAlone(p) ==
  /\ at[p] = IF Has("capture", p) THEN Old(p)
             ELSE IF Has("captured", p) \/ Has("link", p) \/ Has("verified", p) THEN Nothing
             ELSE New(p)
  /\ Has("captured", p) => capt[p] = Old(p)
  /\ Has("verified", p) => check[p] = New(p)
  /\ Has("linked", p) => linked = p

ManifestIsLast ==
  \/ \A p \in Files : NoStep(p)
  \/ Has("link", 0) /\ (0 \in Captures => Has("capture", 0))

Executing ==
  phase = "exec" =>
    /\ \A p \in Paths : ExecSteps(p) /\ ExecSlots(p)
    /\ \A p \in Alone : ExecAlone(p)
    /\ ManifestIsLast /\ Has("commit", 0)

(* What was placed is in the publisher's hand; the old bytes are in the capture.*)
HalfBack(p) == p \in Installs /\ (IF p \in Captures THEN Out(p) ELSE Before(p)) /\ moved = New(p)

(* _rollback_transaction *)
UndoAlone(p) ==
  /\ Has("undo", p) => IF p \in installed THEN Placed(p) /\ linked # p
                       ELSE IF p \in captured THEN Out(p) ELSE Before(p)
  /\ Has("undone", p) => HalfBack(p)
  /\ Has("restore", p) => Out(p)
  /\ NoStep(p) => Before(p)

Undoing ==
  phase = "undo" =>
    /\ \A do \in Steps, p \in Paths :
         Has(do, p) => do \in {"undo", "undone", "restore"} /\ p \in Operations \cup {0}
    /\ \A p \in Paths : OneStep(p)
    /\ captured \subseteq Captures /\ installed \subseteq Installs
    /\ installed \cap Captures \subseteq captured
    /\ \A p \in Alone : UndoAlone(p)
    /\ NoStep(0) \/ \A p \in Operations : Has("undo", p)
    /\ ok => \A p \in Paths : Swept(p) /\ check[p] = Nothing

(* _recover_transaction: it looks at the manifest, or takes the files back.     *)
RecoverAlone(p) ==
  /\ Has("remove", p) => Placed(p) /\ linked # p
  /\ Has("recovered", p) => HalfBack(p)
  /\ NoStep(p) => Before(p)

TakingBack ==
  /\ ~Landed /\ (Before(0) \/ Out(0)) /\ Has("finish", 0)
  /\ \A do \in Steps, p \in Paths :
       Has(do, p) => IF p = 0 THEN do = "finish"
                     ELSE do \in {"recover", "remove", "recovered"} /\ p \in Operations
  /\ \A p \in Paths : OneStep(p)
  /\ \A p \in Alone \ {0} : RecoverAlone(p)
  /\ \A p \in Operations : Has("recover", p) \/ Swept(p)

RecoveryFits == phase = "recover" => todo = {Step("recover", 0)} \/ TakingBack

(* The directory is removed only when nobody needs what is in it.               *)
Ended ==
  /\ phase = "published" => Landed
  /\ phase = "failed" => AllBefore
  /\ phase = "recovered" => Landed \/ AllBefore
  /\ Cleaning => /\ \A p \in Paths : Swept(p) /\ check[p] = Nothing
                 /\ linked # 0

(* Bytes of users in rollback/ and recovery/ are about to be put back, or were  *)
(* stranded there by a crash; under a marker they are evidence.                 *)
InHand == {e \in {moved} : \E p \in Paths : Has("undone", p) \/ Has("recovered", p)}

AsideIsKnown == ~marker /\ (phase = "undo" => ok) => aside \cap live \subseteq stranded \cup InHand

Fits ==
  /\ TypeOK
  /\ TreeStands
  /\ DirectoryFits
  /\ OperationsFit
  /\ EditsAreUsed
  /\ HalfFirst
  /\ Executing
  /\ Undoing
  /\ RecoveryFits
  /\ Ended
  /\ AsideIsKnown

JournalInv == Fits /\ UserBytesKept

--------------------------------------------------------------------------------
(* Plans *)

(* What a plan says, and what it leaves of a path.                              *)
LEMMA PlanFacts ==
  ASSUME plan \in Plans
  PROVE  /\ Paths \subseteq Nat /\ 0 \in Paths /\ Nothing \notin Paths
         /\ plan \in [Paths -> Kinds] /\ plan[0] \in {"create", "replace"}
         /\ Files = Paths \ {0}
         /\ New(0) = "new" /\ Old(0) \in {"old", Nothing}
         /\ \A p \in Paths : /\ New(p) \in {"old", "new", Nothing} /\ Old(p) \in {"old", Nothing}
                             /\ plan[p] = "keep" => New(p) = "old" /\ Old(p) = "old"
                             /\ plan[p] = "create" => New(p) = "new" /\ Old(p) = Nothing
                             /\ plan[p] = "replace" => New(p) = "new" /\ Old(p) = "old"
                             /\ plan[p] = "delete" => New(p) = Nothing /\ Old(p) = "old"
         /\ Nothing \notin {"old", "new"} /\ Nothing \notin Edits
         /\ "old" \notin Edits /\ "new" \notin Edits
  BY PlanAssumption DEF PlanAssumption, Paths, Files, New, Old, Kinds

(* The transaction's operation on a path no user touched.                       *)
OpFacts(p) ==
  \/ plan[p] = "keep" /\ p \notin Operations \cup Captures \cup Installs /\ op[p] = "skip"
  \/ plan[p] = "create" /\ op[p] = "create" /\ p \in Installs /\ p \notin Captures
  \/ plan[p] = "replace" /\ op[p] = "replace" /\ p \in Installs /\ p \in Captures
  \/ plan[p] = "delete" /\ op[p] = "delete" /\ p \notin Installs /\ p \in Captures

(* The transaction's operations on the paths no user touched follow the plan. *)
LEMMA OperationOf ==
  ASSUME TypeOK, OperationsFit, journal # "none"
  PROVE  /\ \A p \in Alone : OpFacts(p) /\ (p # 0 /\ plan[p] # "keep" => p \in Operations)
         /\ 0 \in Alone /\ 0 \in Installs /\ Alone \subseteq Paths
         /\ (0 \in Captures => Old(0) = "old") /\ (0 \notin Captures => Old(0) = Nothing)
         /\ Captures \subseteq Operations \cup {0} /\ Installs \subseteq Operations \cup {0}
         /\ Operations \subseteq Files
<1> USE DEF Captures, Installs, Operations, Alone, Files, Kinds
<1>1. 0 \in Paths /\ plan \in [Paths -> Kinds] /\ plan[0] \in {"create", "replace"}
      /\ 0 \in Alone
  BY PlanFacts DEF TypeOK
<1>2. \A p \in Alone : op[p] = IF plan[p] = "keep" THEN "skip" ELSE plan[p]
  BY DEF OperationsFit
<1>3. \A p \in Alone : OpFacts(p) /\ (p # 0 /\ plan[p] # "keep" => p \in Operations)
  BY <1>1, <1>2 DEF OpFacts
<1>4. op[0] = plan[0]
  BY <1>1, <1>2
<1>5. (0 \in Captures => Old(0) = "old") /\ (0 \notin Captures => Old(0) = Nothing)
  BY <1>1, <1>4 DEF Old
<1> QED BY <1>1, <1>3, <1>4, <1>5

--------------------------------------------------------------------------------
(* Steps *)

(* The steps left after one is done, or half done.                              *)
Drops(do, p) == \A e \in Steps, q \in Paths : Has(e, q)' <=> Has(e, q) /\ ~(e = do /\ q = p)
Turns(do, p, next) ==
  \A e \in Steps, q \in Paths :
    Has(e, q)' <=> (Has(e, q) /\ ~(e = do /\ q = p)) \/ (e = next /\ q = p)

(* A step is its name and its path.                                           *)
LEMMA StepsAre ==
  /\ \A e, f, p, q : Step(e, p) = Step(f, q) <=> e = f /\ p = q
  /\ \A e, p : Step(e, p).do = e /\ Step(e, p).path = p
  BY DEF Step

(* What is left after a step is done, or half done.                           *)
LEMMA StepsMove ==
  ASSUME NEW do, NEW p
  PROVE  /\ Done(do, p) => Drops(do, p) /\ phase' = phase
         /\ \A next : Then(do, p, next) => Turns(do, p, next) /\ phase' = phase
  BY StepsAre DEF Done, Then, Drops, Turns, Others, Has

(* The second half of a step is in the place of the first.                      *)
Halves ==
  { <<"capture", "captured">>, <<"link", "linked">>, <<"linked", "alone">>,
    <<"verify", "verified">>, <<"undo", "restore">>, <<"undo", "undone">>,
    <<"undone", "restore">>, <<"recover", "remove">>, <<"remove", "recovered">> }

PrecedesMeans(do, p, e, q) ==
  IF phase = "exec"
    THEN LET l == Loop(Step(do, p))  m == Loop(Step(e, q))
         IN  l < m \/ (l = m /\ p < q) \/ (l = m /\ p = q /\ e = "link")
    ELSE IF phase = "undo" THEN q # 0 /\ (p = 0 \/ p > q) ELSE p > q

(* The order of the steps, written out for two given steps.                   *)
LEMMA PrecedesIs ==
  ASSUME NEW do, NEW p, NEW e, NEW q
  PROVE  /\ Precedes(Step(do, p), Step(e, q)) <=> PrecedesMeans(do, p, e, q)
         /\ Precedes(Step(do, p), Step(e, q))' <=> PrecedesMeans(do, p, e, q)'
  BY StepsAre DEF Precedes, PrecedesMeans

(* Both halves of a step belong to the same loop.                             *)
LEMMA LoopIs ==
  /\ \A do, p : Loop(Step(do, p)) \in 1..5
  /\ \A pair \in Halves : \A p : Loop(Step(pair[1], p)) = Loop(Step(pair[2], p))
<1>1. \A do, p : Loop(Step(do, p)) = IF do = "commit" THEN 5
                                    ELSE IF do \in {"verify", "verified"}
                                    THEN (IF p = 0 THEN 4 ELSE 2) ELSE (IF p = 0 THEN 3 ELSE 1)
  BY StepsAre DEF Loop
<1> QED BY <1>1 DEF Halves

(* The next step is the first, and it is the half-done one if there is one.     *)
LEMMA NextStep ==
  ASSUME TypeOK, HalfFirst, NEW when, NEW do, NEW p \in Paths, Doing(when, do, p)
  PROVE  /\ phase = when /\ Has(do, p) /\ do \in Steps
         /\ \A e \in Steps, q \in Paths :
              Has(e, q) => (e = do /\ q = p) \/ PrecedesMeans(do, p, e, q)
         /\ \A half \in HalfDone, q \in Paths : Has(half, q) => half = do /\ q = p
<1>1. /\ phase = when /\ Has(do, p) /\ do \in Steps
      /\ \A e \in Steps, q \in Paths :
           Has(e, q) => (e = do /\ q = p) \/ PrecedesMeans(do, p, e, q)
  BY StepsAre, PrecedesIs DEF Doing, Has, TypeOK
<1>2. ASSUME NEW half \in HalfDone, NEW q \in Paths, Has(half, q), ~(half = do /\ q = p)
      PROVE  FALSE
  <2>1. PrecedesMeans(half, q, do, p) /\ PrecedesMeans(do, p, half, q)
    BY <1>1, <1>2, PrecedesIs DEF HalfFirst, HalfDone, Steps
  <2>2. p \in Nat /\ q \in Nat
    BY PlanFacts DEF TypeOK
  <2>3. half # "link"
    BY DEF HalfDone
  <2> QED BY <2>1, <2>2, <2>3, LoopIs DEF PrecedesMeans
<1> QED BY <1>1, <1>2

(* A half-done step stays the first one.                                      *)
LEMMA HalfStays ==
  ASSUME TypeOK, HalfFirst, NEW do, NEW p \in Paths, Doing(phase, do, p), plan' = plan,
         Done(do, p) \/ \E next : Then(do, p, next) /\ <<do, next>> \in Halves
  PROVE  HalfFirst'
<1>1. SUFFICES ASSUME NEW q \in Paths, NEW r \in Paths, NEW half \in HalfDone, NEW e \in Steps,
                      Has(half, q)', Has(e, r)', ~(e = half /\ r = q)
               PROVE  PrecedesMeans(half, q, e, r)'
  BY PrecedesIs DEF HalfFirst, Paths
<1>2. phase' = phase
  BY DEF Done, Then
<1>7. \A a, b, c, d : PrecedesMeans(a, b, c, d)' <=> PrecedesMeans(a, b, c, d)
  BY <1>2 DEF PrecedesMeans
<1>3. half \in Steps
  BY DEF HalfDone, Steps
<1>4. /\ \A a \in Steps, b \in Paths :
           Has(a, b) => (a = do /\ b = p) \/ PrecedesMeans(do, p, a, b)
      /\ \A h \in HalfDone, b \in Paths : Has(h, b) => h = do /\ b = p
  BY NextStep
<1>5. CASE Done(do, p)
  BY <1>1, <1>3, <1>4, <1>5, StepsMove DEF Drops
<1>6. ASSUME NEW next, Then(do, p, next), <<do, next>> \in Halves
      PROVE  PrecedesMeans(half, q, e, r)
  <2>1. half = next /\ q = p /\ Has(e, r) /\ ~(e = do /\ r = p)
    BY <1>1, <1>3, <1>4, <1>6, StepsMove DEF Turns
  <2>2. PrecedesMeans(do, p, e, r)
    BY <1>4, <2>1
  <2>3. Loop(Step(do, p)) = Loop(Step(next, p))
    BY <1>6, LoopIs
  <2> QED BY <2>1, <2>2, <2>3 DEF PrecedesMeans
<1> QED BY <1>5, <1>6, <1>7

--------------------------------------------------------------------------------
(* Paths *)

(* What a plan and its operations say does not change with the directory.     *)
LEMMA World ==
  ASSUME UNCHANGED plan
  PROVE  /\ Paths' = Paths /\ Files' = Files
         /\ \A p : New(p)' = New(p) /\ Old(p)' = Old(p)
         /\ op' = op => /\ Captures' = Captures /\ Installs' = Installs
                        /\ Operations' = Operations
                        /\ \A p : Aside(p)' = Aside(p)
  BY DEF Paths, Files, New, Old, Captures, Installs, Operations, Aside

(* A step leaves a path alone.                                                  *)
Same(q) ==
  /\ at'[q] = at[q] /\ cand'[q] = cand[q] /\ capt'[q] = capt[q] /\ check'[q] = check[q]
  /\ (linked' = q <=> linked = q)
  /\ (q \in captured' <=> q \in captured) /\ (q \in installed' <=> q \in installed)
  /\ \A do \in Steps : Has(do, q)' <=> Has(do, q)

(* A path that a step leaves alone stands as it stood.                        *)
LEMMA SamePath ==
  ASSUME UNCHANGED <<plan, op>>, NEW q, Same(q)
  PROVE  /\ (Before(q)' <=> Before(q)) /\ (Out(q)' <=> Out(q)) /\ (Placed(q)' <=> Placed(q))
         /\ (Held(q)' <=> Held(q)) /\ (Stands(q)' <=> Stands(q)) /\ (Final(q)' <=> Final(q))
         /\ (Swept(q)' <=> Swept(q)) /\ (NoStep(q)' <=> NoStep(q))
         /\ (OneStep(q)' <=> OneStep(q)) /\ (ExecSteps(q)' <=> ExecSteps(q))
         /\ (ExecSlots(q)' <=> ExecSlots(q)) /\ (ExecAlone(q)' <=> ExecAlone(q))
<1>1. /\ at'[q] = at[q] /\ cand'[q] = cand[q] /\ capt'[q] = capt[q] /\ check'[q] = check[q]
      /\ (linked' = q <=> linked = q)
      /\ (q \in captured' <=> q \in captured) /\ (q \in installed' <=> q \in installed)
      /\ \A do \in Steps : Has(do, q)' <=> Has(do, q)
      /\ New(q)' = New(q) /\ Old(q)' = Old(q) /\ Aside(q)' = Aside(q)
      /\ Captures' = Captures /\ Installs' = Installs
  BY World DEF Same
<1>2. /\ (Before(q)' <=> Before(q)) /\ (Out(q)' <=> Out(q)) /\ (Placed(q)' <=> Placed(q))
      /\ (Held(q)' <=> Held(q)) /\ (Final(q)' <=> Final(q)) /\ (Swept(q)' <=> Swept(q))
  BY <1>1 DEF Before, Out, Placed, Held, Final, Swept
<1>3. (NoStep(q)' <=> NoStep(q)) /\ (OneStep(q)' <=> OneStep(q))
  BY <1>1 DEF NoStep, OneStep
<1>4. /\ (Has("capture", q)' <=> Has("capture", q)) /\ (Has("captured", q)' <=> Has("captured", q))
      /\ (Has("link", q)' <=> Has("link", q)) /\ (Has("linked", q)' <=> Has("linked", q))
      /\ (Has("alone", q)' <=> Has("alone", q)) /\ (Has("verify", q)' <=> Has("verify", q))
      /\ (Has("verified", q)' <=> Has("verified", q))
  BY <1>1 DEF Steps
<1>5. (ExecSlots(q)' <=> ExecSlots(q)) /\ (ExecAlone(q)' <=> ExecAlone(q))
  BY <1>1, <1>4 DEF ExecSlots, ExecAlone
<1>6. ExecSteps(q)' <=> ExecSteps(q)
  BY <1>1, <1>4 DEF ExecSteps
<1> QED BY <1>2, <1>3, <1>5, <1>6 DEF Stands

(* While the publisher works, each path stands where its steps say.             *)
LEMMA ExecPlaces ==
  ASSUME TypeOK, OperationsFit, journal # "none", phase = "exec", Executing
  PROVE  /\ \A p \in Alone : Stands(p)
         /\ Landed => /\ \A p \in Alone \ {0} : Final(p)
                      /\ \A p \in Paths : Swept(p)
<1>1. /\ \A p \in Paths : ExecSteps(p) /\ ExecSlots(p)
      /\ \A p \in Alone : ExecAlone(p)
      /\ ManifestIsLast
      /\ \A p \in Paths \ Captures : capt[p] = Nothing
      /\ \A p \in Paths \ Installs : check[p] = Nothing
  BY DEF Executing, OperationsFit
<1>2. /\ \A p \in Alone : OpFacts(p)
      /\ 0 \in Alone /\ 0 \in Installs /\ Alone \subseteq Paths
  BY OperationOf
<1>3. plan \in Plans
  BY DEF TypeOK
<1>4. ASSUME NEW p \in Alone
      PROVE  Stands(p)
  <2>1. ExecSteps(p) /\ ExecSlots(p) /\ ExecAlone(p) /\ OpFacts(p)
        /\ (p \notin Captures => capt[p] = Nothing) /\ (p \notin Installs => check[p] = Nothing)
    BY <1>1, <1>2
  <2>2. /\ plan[p] = "keep" => New(p) = "old" /\ Old(p) = "old"
        /\ plan[p] = "create" => New(p) = "new" /\ Old(p) = Nothing
        /\ plan[p] = "replace" => New(p) = "new" /\ Old(p) = "old"
        /\ plan[p] = "delete" => New(p) = Nothing /\ Old(p) = "old"
    BY <1>2, <1>3, PlanFacts
  <2>3. CASE Has("capture", p) \/ Has("captured", p) \/ (p \in Captures /\ Has("link", p))
    BY <2>1, <2>2, <2>3 DEF Stands, Before, Out, ExecSteps, ExecSlots, ExecAlone, OpFacts
  <2>4. CASE ~Has("capture", p) /\ ~Has("captured", p) /\ p \notin Captures /\ Has("link", p)
    BY <2>1, <2>2, <2>4 DEF Stands, Before, ExecSteps, ExecSlots, ExecAlone, OpFacts
  <2>5. CASE ~Has("capture", p) /\ ~Has("captured", p) /\ ~Has("link", p) /\ Has("verified", p)
    BY <2>1, <2>2, <2>5 DEF Stands, Held, Aside, ExecSteps, ExecSlots, ExecAlone, OpFacts
  <2>6. CASE ~Has("capture", p) /\ ~Has("captured", p) /\ ~Has("link", p) /\ ~Has("verified", p)
    BY <2>1, <2>2, <2>6 DEF Stands, Before, Out, Placed, Aside, ExecSteps, ExecSlots, ExecAlone,
                            OpFacts
  <2> QED BY <2>3, <2>4, <2>5, <2>6
<1>5. ASSUME Landed
      PROVE  /\ \A p \in Alone \ {0} : Final(p)
             /\ \A p \in Paths : Swept(p)
  <2>1. ~Has("link", 0) /\ ~Has("capture", 0) /\ ~Has("captured", 0)
    <3>1. ExecAlone(0) /\ ExecSteps(0) /\ ExecSlots(0) /\ OpFacts(0)
      BY <1>1, <1>2
    <3>2. New(0) = "new" /\ Old(0) \in {"old", Nothing} /\ Nothing \notin {"old", "new"}
      BY <1>3, PlanFacts
    <3> QED BY <1>5, <3>1, <3>2 DEF Landed, ExecAlone, ExecSteps, ExecSlots, OpFacts
  <2>2. \A p \in Files : NoStep(p)
    BY <1>1, <2>1 DEF ManifestIsLast
  <2>3. ASSUME NEW p \in Files
        PROVE  /\ ~Has("capture", p) /\ ~Has("captured", p) /\ ~Has("link", p)
               /\ ~Has("linked", p) /\ ~Has("verified", p)
    BY <2>2 DEF NoStep, Steps
  <2>4. \A p \in Alone \ {0} : Final(p)
    <3> TAKE p \in Alone \ {0}
    <3>1. p \in Files /\ ExecAlone(p) /\ ExecSlots(p)
      BY <1>1, <1>2 DEF Files
    <3> QED BY <2>3, <3>1 DEF Final, ExecAlone, ExecSlots
  <2>5. \A p \in Paths : Swept(p)
    <3> TAKE p \in Paths
    <3>1. ExecSlots(p) /\ (p \notin Captures => capt[p] = Nothing)
      BY <1>1
    <3>2. CASE p = 0
      BY <2>1, <3>1, <3>2 DEF Swept, ExecSlots
    <3>3. CASE p # 0
      <4>1. p \in Files
        BY <3>3 DEF Files
      <4> QED BY <2>3, <3>1, <4>1 DEF Swept, ExecSlots
    <3> QED BY <3>2, <3>3
  <2> QED BY <2>4, <2>5
<1> QED BY <1>4, <1>5

(* While the publisher works, the tree stands.                                *)
LEMMA ExecTree ==
  TypeOK /\ OperationsFit /\ journal # "none" /\ phase = "exec" /\ Executing => TreeStands
<1> SUFFICES ASSUME TypeOK, OperationsFit, journal # "none", phase = "exec", Executing
             PROVE  TreeStands
  OBVIOUS
<1> QED BY ExecPlaces, OperationOf DEF TreeStands

(* The same of the state after a step.                                        *)
LEMMA ExecTreeNext ==
  ASSUME TypeOK', OperationsFit', journal' # "none", phase' = "exec", Executing'
  PROVE  TreeStands'
<1>1. (TypeOK /\ OperationsFit /\ journal # "none" /\ phase = "exec" /\ Executing => TreeStands)'
  BY ExecTree, PTL
<1> QED BY <1>1

--------------------------------------------------------------------------------
(* Steps of _execute_transaction *)

(* The manifest is moved when no file has a step left.                          *)
LEMMA FilesFirst ==
  ASSUME Fits, phase = "exec"
  PROVE  /\ Landed => \A p \in Files : NoStep(p)
         /\ \A do : Doing("exec", do, 0) => \A p \in Files : NoStep(p)
<1>1. TypeOK /\ OperationsFit /\ Executing /\ HalfFirst /\ journal = "written"
  BY DEF Fits, DirectoryFits
<1>2. ASSUME Landed
      PROVE  \A p \in Files : NoStep(p)
  <2>1. 0 \in Alone /\ OpFacts(0) /\ Alone \subseteq Paths
    BY <1>1, OperationOf
  <2>2. ExecAlone(0) /\ ExecSteps(0) /\ ExecSlots(0) /\ ManifestIsLast
    BY <1>1, <2>1 DEF Executing
  <2>3. New(0) = "new" /\ Old(0) \in {"old", Nothing} /\ Nothing \notin {"old", "new"}
    BY <1>1, PlanFacts DEF TypeOK
  <2>4. ~Has("link", 0)
    BY <1>2, <2>1, <2>2, <2>3 DEF Landed, ExecAlone, ExecSteps, ExecSlots, OpFacts
  <2> QED BY <2>2, <2>4 DEF ManifestIsLast
<1>3. ASSUME NEW do, Doing("exec", do, 0), NEW p \in Files
      PROVE  NoStep(p)
  <2>1. 0 \in Paths /\ p \in Paths /\ p # 0 /\ p \in Nat
    BY <1>1, PlanFacts DEF TypeOK, Files
  <2>2. \A e \in Steps : Has(e, p) => PrecedesMeans(do, 0, e, p)
    BY <1>1, <1>3, <2>1, NextStep
  <2>3. \A e \in Steps : Has(e, p) => e # "commit"
    BY <1>1, <2>1 DEF Executing, ExecSteps
  <2>4. ASSUME NEW e \in Steps, Has(e, p)
        PROVE  FALSE
    <3>1. Loop(Step(e, p)) \in {1, 2} /\ Loop(Step(do, 0)) \in {3, 4, 5}
      BY <2>1, <2>3, <2>4, StepsAre DEF Loop
    <3> QED BY <1>1, <2>1, <2>2, <2>4, <3>1 DEF PrecedesMeans
  <2> QED BY <2>4 DEF NoStep
<1> QED BY <1>2, <1>3

(* A step of one path that is done, or half done.                               *)
LEMMA ExecKeeps ==
  ASSUME Fits, NEW do, NEW p \in Paths, Doing("exec", do, p), do # "commit",
         Done(do, p) \/ \E next : Then(do, p, next) /\ <<do, next>> \in Halves,
         UNCHANGED <<plan, op, journal, marker, aside, moved, ok, touched, live, stranded>>,
         \A q \in Paths \ {p} : Same(q),
         TypeOK', EditsAreUsed',
         ExecSteps(p)', ExecSlots(p)', p \in Alone => ExecAlone(p)',
         p \notin Captures => capt'[p] = Nothing,
         p \notin Installs => check'[p] = Nothing
  PROVE  Fits'
<1>1. /\ TypeOK /\ OperationsFit /\ DirectoryFits /\ HalfFirst /\ Executing /\ AsideIsKnown
      /\ phase = "exec" /\ phase' = "exec" /\ journal = "written" /\ Has(do, p) /\ do \in Steps
  BY NextStep DEF Fits, DirectoryFits, Done, Then
<1>2. /\ Paths' = Paths /\ Files' = Files /\ Alone' = Alone /\ Captures' = Captures
      /\ Installs' = Installs
      /\ 0 \in Paths /\ plan \in Plans
  BY <1>1, World, PlanFacts DEF Alone, TypeOK
<1>3. HalfFirst'
  BY <1>1, HalfStays
<1>4. OperationsFit'
  BY <1>1, <1>2 DEF OperationsFit, Same
<1>5. Executing'
  <2>1. \A q \in Paths : ExecSteps(q)' /\ ExecSlots(q)'
    BY <1>1, SamePath DEF Executing
  <2>2. \A q \in Alone : ExecAlone(q)'
    BY <1>1, SamePath DEF Executing, Alone
  <2>3. Has("commit", 0)'
    <3>1. Drops(do, p) \/ \E next : Turns(do, p, next)
      BY StepsMove
    <3> QED BY <1>1, <1>2, <3>1 DEF Drops, Turns, Executing, Steps
  <2>4. ManifestIsLast'
    <3>1. CASE p = 0
      <4>1. \A q \in Files : NoStep(q) /\ Same(q)
        BY <1>1, <3>1, FilesFirst DEF Files
      <4> QED BY <1>2, <4>1, SamePath DEF ManifestIsLast
    <3>2. CASE p # 0
      <4>1. ~NoStep(p) /\ p \in Files
        BY <1>1, <3>2 DEF NoStep, Files
      <4>2. Has("link", 0) /\ (0 \in Captures => Has("capture", 0))
        BY <1>1, <4>1 DEF Executing, ManifestIsLast
      <4>3. Same(0)
        BY <1>2, <3>2
      <4> QED BY <1>2, <4>2, <4>3 DEF ManifestIsLast, Same, Steps
    <3> QED BY <3>1, <3>2
  <2> QED BY <1>2, <2>1, <2>2, <2>3, <2>4 DEF Executing
<1>6. TreeStands'
  BY <1>1, <1>4, <1>5, ExecTreeNext
<1>7. AsideIsKnown'
  <2>1. \A q \in Paths : ~Has("undone", q) /\ ~Has("recovered", q)
    BY <1>1 DEF Executing, ExecSteps, Steps
  <2>2. InHand = {}
    BY <2>1 DEF InHand
  <2> QED BY <1>1, <2>2 DEF AsideIsKnown
<1>8. DirectoryFits'
  BY <1>1 DEF DirectoryFits
<1> QED BY <1>1, <1>3, <1>4, <1>5, <1>6, <1>7, <1>8 DEF Fits, Undoing, RecoveryFits, Ended, Cleaning

(* The files of a path are left alone.                                          *)
Near(q) ==
  at'[q] = at[q] /\ capt'[q] = capt[q] /\ check'[q] = check[q] /\ (linked' = q <=> linked = q)

(* A path whose files are left alone stands as it stood.                      *)
LEMMA NearPath ==
  ASSUME UNCHANGED <<plan, op>>, NEW q, Near(q)
  PROVE  /\ (Before(q)' <=> Before(q)) /\ (Out(q)' <=> Out(q)) /\ (Placed(q)' <=> Placed(q))
         /\ (Held(q)' <=> Held(q)) /\ (Stands(q)' <=> Stands(q)) /\ (Final(q)' <=> Final(q))
         /\ (Swept(q)' <=> Swept(q))
<1>1. New(q)' = New(q) /\ Old(q)' = Old(q) /\ Aside(q)' = Aside(q)
      /\ Captures' = Captures /\ Installs' = Installs
  BY World
<1> QED BY <1>1 DEF Near, Before, Out, Placed, Held, Final, Swept, Stands

NoHalf(q) == \A half \in HalfDone : ~Has(half, q)

(* A path between two steps of _execute_transaction is ready to be undone.      *)
LEMMA ExecToUndo ==
  ASSUME TypeOK, OperationsFit, journal # "none", phase = "exec", Executing, NEW q \in Paths,
         NoHalf(q)
  PROVE  /\ Swept(q) /\ check[q] = Nothing
         /\ q \in Alone => IF q \in installed THEN Placed(q) /\ linked # q
                           ELSE IF q \in captured THEN Out(q) ELSE Before(q)
<1>1. /\ ExecSteps(q) /\ ExecSlots(q) /\ (q \in Alone => ExecAlone(q))
      /\ (q \notin Captures => capt[q] = Nothing) /\ (q \notin Installs => check[q] = Nothing)
  BY DEF Executing, OperationsFit
<1>2. ~Has("captured", q) /\ ~Has("linked", q) /\ ~Has("alone", q) /\ ~Has("verified", q)
  BY DEF NoHalf, HalfDone
<1>3. Swept(q) /\ check[q] = Nothing
  BY <1>1, <1>2 DEF Swept, ExecSlots
<1>4. ASSUME q \in Alone
      PROVE  IF q \in installed THEN Placed(q) /\ linked # q
             ELSE IF q \in captured THEN Out(q) ELSE Before(q)
  <2>1. OpFacts(q)
    BY <1>4, OperationOf
  <2>2. /\ plan[q] = "keep" => New(q) = "old" /\ Old(q) = "old"
        /\ plan[q] = "create" => New(q) = "new" /\ Old(q) = Nothing
        /\ plan[q] = "replace" => New(q) = "new" /\ Old(q) = "old"
        /\ plan[q] = "delete" => New(q) = Nothing /\ Old(q) = "old"
    BY PlanFacts DEF TypeOK
  <2>3. CASE q \in installed
    BY <1>1, <1>2, <1>3, <1>4, <2>1, <2>2, <2>3
       DEF Placed, Aside, ExecSteps, ExecSlots, ExecAlone, OpFacts
  <2>4. CASE q \notin installed /\ q \in captured
    BY <1>1, <1>2, <1>3, <1>4, <2>1, <2>2, <2>4
       DEF Out, Aside, ExecSteps, ExecSlots, ExecAlone, OpFacts
  <2>5. CASE q \notin installed /\ q \notin captured
    BY <1>1, <1>2, <1>3, <1>4, <2>1, <2>2, <2>5
       DEF Before, ExecSteps, ExecSlots, ExecAlone, OpFacts
  <2> QED BY <2>3, <2>4, <2>5
<1> QED BY <1>3, <1>4

(* An abort turns to the undo of every operation.                             *)
LEMMA AbortSteps ==
  ASSUME NEW u, Abort(u), UNCHANGED <<plan, op>>
  PROVE  /\ \A e, q : Has(e, q)' <=> e = "undo" /\ q \in Operations \cup {0}
         /\ phase' = "undo" /\ ok' = u
  BY StepsAre DEF Abort, Has

(* The handler of _execute_transaction, after a step that did nothing, or after *)
(* the second half of one whose path a user had touched.                        *)
LEMMA AbortKeeps ==
  ASSUME Fits, phase = "exec", NEW u \in BOOLEAN, Abort(u), NEW p \in Paths,
         UNCHANGED <<plan, op, journal, captured, installed, touched, live, stranded>>,
         \A q \in Paths \ {p} : NoHalf(q) /\ Near(q),
         \/ NoHalf(p) /\ Near(p)
         \/ p \notin Alone /\ ~NoStep(p) /\ (u => Swept(p)' /\ check'[p] = Nothing),
         u => UNCHANGED <<marker, aside>>,
         TypeOK', EditsAreUsed',
         p \notin Captures => capt'[p] = Nothing,
         p \notin Installs => check'[p] = Nothing
  PROVE  Fits'
<1>1. /\ TypeOK /\ OperationsFit /\ DirectoryFits /\ Executing /\ AsideIsKnown /\ TreeStands
      /\ journal = "written" /\ ~marker
  BY DEF Fits, DirectoryFits
<1>2. /\ Paths' = Paths /\ Files' = Files /\ Alone' = Alone /\ Captures' = Captures
      /\ Installs' = Installs /\ Operations' = Operations
      /\ 0 \in Paths /\ 0 \in Alone /\ Alone \subseteq Paths
      /\ \A q \in Alone : OpFacts(q) /\ (q # 0 /\ plan[q] # "keep" => q \in Operations)
      /\ \A q : New(q)' = New(q) /\ Old(q)' = Old(q)
  BY <1>1, World, OperationOf, PlanFacts DEF Alone, TypeOK
<1>3. /\ \A e, q : Has(e, q)' <=> e = "undo" /\ q \in Operations \cup {0}
      /\ phase' = "undo" /\ ok' = u
  BY AbortSteps
<1>4. Near(0) /\ NoHalf(0)
  BY <1>2
<1>5. \A q \in Alone : Near(q) /\ NoHalf(q)
  BY <1>2
<1>6. Landed' <=> Landed
  BY <1>4 DEF Landed, Near
<1>7. TreeStands'
  <2>1. \A q \in Alone : (Stands(q)' <=> Stands(q)) /\ (Final(q)' <=> Final(q))
    BY <1>5, NearPath
  <2>2. ASSUME Landed
        PROVE  \A q \in Paths : Swept(q)'
    <3>1. \A q \in Files : NoStep(q)
      BY <2>2, FilesFirst
    <3>2. \A q \in Paths : Near(q)
      BY <1>2, <3>1 DEF Files
    <3> QED BY <2>2, <1>1, <1>2, <3>2, NearPath DEF TreeStands
  <2>3. Stands(0)' \/ (at[0] = New(0) /\ capt[0] \in {Old(0), Nothing} /\ check[0] = Nothing)'
    BY <1>1, <1>2, <1>4, <2>1 DEF TreeStands, Near
  <2>4. Landed => \A q \in Alone \ {0} : Final(q)'
    BY <1>1, <2>1 DEF TreeStands
  <2>5. ~Landed => \A q \in Alone : Stands(q)'
    BY <1>1, <2>1 DEF TreeStands
  <2> QED BY <1>2, <1>6, <2>2, <2>3, <2>4, <2>5 DEF TreeStands
<1>8. Undoing'
  <2>1. \A e \in Steps, q \in Paths : Has(e, q)' => e = "undo" /\ q \in Operations \cup {0}
    BY <1>3
  <2>2. \A q \in Paths : OneStep(q)'
    BY <1>3 DEF OneStep
  <2>3. captured \subseteq Captures /\ installed \subseteq Installs
        /\ installed \cap Captures \subseteq captured
    <3> SUFFICES ASSUME NEW q \in Paths
                 PROVE  /\ q \in captured => q \in Captures
                        /\ q \in installed => q \in Installs
                        /\ q \in installed /\ q \in Captures => q \in captured
      BY <1>1 DEF TypeOK
    <3>1. ExecSteps(q) /\ ExecSlots(q)
      BY <1>1 DEF Executing
    <3> QED BY <3>1 DEF ExecSteps, ExecSlots
  <2>4. ASSUME NEW q \in Alone
        PROVE  UndoAlone(q)'
    <3>1. IF q \in installed THEN Placed(q) /\ linked # q
          ELSE IF q \in captured THEN Out(q) ELSE Before(q)
      BY <1>1, <1>2, <1>5, ExecToUndo
    <3>2. IF q \in installed THEN Placed(q)' /\ linked' # q
          ELSE IF q \in captured THEN Out(q)' ELSE Before(q)'
      BY <1>5, <3>1, NearPath DEF Near
    <3>3. ~Has("undone", q)' /\ ~Has("restore", q)'
      BY <1>3
    <3>4. NoStep(q)' => q \notin Operations \cup {0}
      BY <1>3 DEF NoStep, Steps
    <3>5. q \notin Operations \cup {0} => q \notin Captures /\ q \notin Installs
      BY <1>2 DEF OpFacts
    <3>6. NoStep(q)' => Before(q)'
      BY <2>3, <3>2, <3>4, <3>5
    <3> QED BY <3>2, <3>3, <3>6 DEF UndoAlone
  <2>5. \A q \in Operations : Has("undo", q)'
    BY <1>3
  <2>6. ASSUME u
        PROVE  \A q \in Paths : Swept(q)' /\ check'[q] = Nothing
    <3> TAKE q \in Paths
    <3>1. CASE NoHalf(q) /\ Near(q)
      <4>1. Swept(q) /\ check[q] = Nothing
        BY <1>1, <3>1, ExecToUndo
      <4> QED BY <3>1, <4>1, NearPath DEF Near
    <3> QED BY <2>6, <3>1
  <2>7. \A q \in Alone' : UndoAlone(q)'
    BY <1>2, <2>4
  <2> QED BY <1>2, <1>3, <2>1, <2>2, <2>3, <2>5, <2>6, <2>7 DEF Undoing
<1>9. OperationsFit'
  <2>1. \A q \in Paths \ {p} : capt'[q] = capt[q] /\ check'[q] = check[q]
    BY DEF Near
  <2> QED BY <1>1, <1>2, <2>1 DEF OperationsFit
<1>10. AsideIsKnown'
  <2>1. InHand = {}
    BY <1>1 DEF InHand, Executing, ExecSteps, Steps
  <2> QED BY <1>1, <1>3, <2>1 DEF AsideIsKnown
<1>11. HalfFirst'
  BY <1>3 DEF HalfFirst, HalfDone
<1>12. DirectoryFits'
  BY <1>1, <1>3 DEF DirectoryFits
<1> QED BY <1>3, <1>7, <1>8, <1>9, <1>10, <1>11, <1>12
        DEF Fits, Executing, RecoveryFits, Ended, Cleaning

(* The files keep their shapes: what is written are managed bytes, or edits     *)
(* that were made.                                                              *)
LEMMA TypesStay ==
  ASSUME TypeOK, EditsAreUsed,
         UNCHANGED <<plan, op, journal, answer, crashes, used, live, touched, stranded>>,
         todo' \subseteq [do : Steps, path : Paths],
         phase' \in {phase, "undo", "published"},
         at' \in [Paths -> Known], capt' \in [Paths -> Known], check' \in [Paths -> Known],
         cand' \in [Paths -> {"old", "new", Nothing}],
         linked' \in Paths \cup {Nothing}, aside' \subseteq Known, moved' \in Known,
         captured' \subseteq Paths, installed' \subseteq Paths,
         ok' \in BOOLEAN, marker' \in BOOLEAN
  PROVE  TypeOK' /\ EditsAreUsed'
<1>1. Paths' = Paths /\ Files' = Files /\ Known' = Known /\ Known \subseteq Contents
  BY World DEF Known, Contents, TypeOK
<1>2. EditsAreUsed'
  BY <1>1 DEF EditsAreUsed
<1>3. /\ at' \in [Paths -> Contents] /\ capt' \in [Paths -> Contents]
      /\ check' \in [Paths -> Contents] /\ cand' \in [Paths -> Contents]
      /\ aside' \subseteq Contents /\ moved' \in Contents
  BY <1>1 DEF Contents
<1>4. TypeOK'
  BY <1>1, <1>3 DEF TypeOK
<1> QED BY <1>2, <1>4

(* What is left to do are steps of paths.                                     *)
LEMMA TodoStays ==
  ASSUME TypeOK, UNCHANGED plan, NEW p \in Paths
  PROVE  /\ \A do : Done(do, p) => todo' \subseteq [do : Steps, path : Paths]
         /\ \A do, next \in Steps :
              Then(do, p, next) => todo' \subseteq [do : Steps, path : Paths]
         /\ \A u : Abort(u) => todo' \subseteq [do : Steps, path : Paths]
<1>1. Operations \cup {0} \subseteq Paths /\ todo \subseteq [do : Steps, path : Paths]
  BY PlanFacts DEF TypeOK, Operations, Files
<1>2. \A e \in Steps, q \in Paths : Step(e, q) \in [do : Steps, path : Paths]
  BY DEF Step
<1>3. "undo" \in Steps
  BY DEF Steps
<1> QED BY <1>1, <1>2, <1>3 DEF Done, Then, Others, Abort

(* Where a step of _execute_transaction starts from.                            *)
LEMMA ExecStart ==
  ASSUME Fits, NEW do, NEW p \in Paths, Doing("exec", do, p)
  PROVE  /\ TypeOK /\ EditsAreUsed /\ OperationsFit /\ journal = "written" /\ plan \in Plans
         /\ phase = "exec" /\ Has(do, p) /\ do \in Steps /\ ~NoStep(p)
         /\ ExecSteps(p) /\ ExecSlots(p) /\ (p \in Alone => ExecAlone(p) /\ OpFacts(p))
         /\ (p \notin Captures => capt[p] = Nothing) /\ (p \notin Installs => check[p] = Nothing)
         /\ \A q \in Paths \ {p} : NoHalf(q)
         /\ do \notin HalfDone => NoHalf(p)
         /\ \A q \in Paths \ {p} : linked # q
         /\ do = "link" => ~Has("capture", p)
         /\ do = "verify" => ~Has("capture", p) /\ ~Has("link", p)
<1>1. /\ TypeOK /\ EditsAreUsed /\ OperationsFit /\ HalfFirst /\ Executing /\ DirectoryFits
  BY DEF Fits
<1>2. phase = "exec" /\ Has(do, p) /\ do \in Steps
      /\ \A half \in HalfDone, q \in Paths : Has(half, q) => half = do /\ q = p
  BY <1>1, NextStep
<1>3. journal = "written" /\ plan \in Plans
  BY <1>1, <1>2 DEF DirectoryFits, TypeOK
<1>4. ExecSteps(p) /\ ExecSlots(p) /\ (p \in Alone => ExecAlone(p) /\ OpFacts(p))
  BY <1>1, <1>2, <1>3, OperationOf DEF Executing
<1>5. \A q \in Paths \ {p} : linked # q
  BY <1>1, <1>2 DEF Executing, ExecSlots, HalfDone
<1>6. \A e \in Steps : Has(e, p) /\ e # do => PrecedesMeans(do, p, e, p)
  BY <1>1, NextStep
<1>7. p \in Nat
  BY <1>3, PlanFacts
<1>8. do = "link" => ~Has("capture", p)
  <2>1. Loop(Step("link", p)) = Loop(Step("capture", p)) /\ Loop(Step("link", p)) \in 1..5
    BY StepsAre DEF Loop
  <2> QED BY <1>2, <1>6, <1>7, <2>1 DEF PrecedesMeans, Steps
<1>9. do = "verify" => ~Has("capture", p) /\ ~Has("link", p)
  <2>1. /\ Loop(Step("verify", p)) = IF p = 0 THEN 4 ELSE 2
        /\ Loop(Step("capture", p)) = IF p = 0 THEN 3 ELSE 1
        /\ Loop(Step("link", p)) = IF p = 0 THEN 3 ELSE 1
    BY StepsAre DEF Loop
  <2> QED BY <1>2, <1>6, <1>7, <2>1 DEF PrecedesMeans, Steps
<1> QED BY <1>1, <1>2, <1>3, <1>4, <1>5, <1>8, <1>9 DEF OperationsFit, NoHalf, NoStep

(* Capture, the first half of _capture_existing, keeps the invariant.         *)
LEMMA CaptureFits ==
  ASSUME Fits, NEW p \in Paths, Capture(p)
  PROVE  Fits'
<1>0. Doing("exec", "capture", p)
  BY DEF Capture
<1>1. /\ TypeOK /\ EditsAreUsed /\ OperationsFit /\ journal = "written" /\ plan \in Plans
      /\ phase = "exec" /\ Has("capture", p) /\ ~NoStep(p)
      /\ ExecSteps(p) /\ ExecSlots(p) /\ (p \in Alone => ExecAlone(p) /\ OpFacts(p))
      /\ (p \notin Captures => capt[p] = Nothing) /\ (p \notin Installs => check[p] = Nothing)
      /\ \A q \in Paths : NoHalf(q)
  BY <1>0, ExecStart DEF HalfDone
<1>2. /\ at \in [Paths -> Known] /\ capt \in [Paths -> Known] /\ check \in [Paths -> Known]
      /\ cand \in [Paths -> {"old", "new", Nothing}] /\ Nothing \in Known
      /\ moved \in Known /\ aside \subseteq Known
  BY <1>1 DEF EditsAreUsed, Known
<1>3. CASE at[p] = Nothing
  <2>1. Abort(TRUE) /\ UNCHANGED <<plan, disk, captured, installed, answer, faults>>
    BY <1>3 DEF Capture, disk
  <2>2. TypeOK' /\ EditsAreUsed'
    BY <1>1, <1>2, <2>1, TypesStay, TodoStays DEF disk, faults, Abort, TypeOK
  <2>3. \A q \in Paths : Near(q)
    BY <2>1 DEF Near, disk
  <2> QED BY <1>1, <2>1, <2>2, <2>3, AbortKeeps DEF disk, faults
<1>4. CASE at[p] # Nothing
  <2>1. /\ at' = [at EXCEPT ![p] = Nothing] /\ capt' = [capt EXCEPT ![p] = at[p]]
        /\ Then("capture", p, "captured")
        /\ UNCHANGED <<plan, cand, check, linked, aside, journal, op, marker, captured,
                       installed, moved, ok, answer, faults>>
    BY <1>4 DEF Capture
  <2>2. TypeOK' /\ EditsAreUsed'
    <3>1. todo' \subseteq [do : Steps, path : Paths] /\ phase' = phase
      BY <1>1, <2>1, TodoStays DEF Steps, Then
    <3> QED BY <1>1, <1>2, <2>1, <3>1, TypesStay DEF faults, TypeOK
  <2>3. Turns("capture", p, "captured")
    BY <2>1, StepsMove
  <2>4. \A q \in Paths \ {p} : Same(q)
    BY <1>2, <2>1, <2>3 DEF Same, Turns
  <2>5. /\ Captures' = Captures /\ Installs' = Installs /\ Alone' = Alone
        /\ New(p)' = New(p) /\ Old(p)' = Old(p)
    BY <2>1, World DEF Alone, faults
  <2>6. /\ \A e \in Steps : Has(e, p)' <=> (Has(e, p) /\ e # "capture") \/ e = "captured"
        /\ at'[p] = Nothing /\ capt'[p] = at[p] /\ cand'[p] = cand[p] /\ check'[p] = check[p]
    BY <1>2, <2>1, <2>3 DEF Turns
  <2>7. ExecSteps(p)' /\ ExecSlots(p)' /\ (p \in Alone => ExecAlone(p)')
    BY <1>1, <2>1, <2>5, <2>6 DEF ExecSteps, ExecSlots, ExecAlone, Steps
  <2>8. <<"capture", "captured">> \in Halves
    BY DEF Halves
  <2> QED BY <1>0, <1>1, <2>1, <2>2, <2>4, <2>6, <2>7, <2>8, ExecKeeps DEF faults, ExecSteps
<1> QED BY <1>3, <1>4

(* Captured, its second half, keeps the invariant.                            *)
LEMMA CapturedFits ==
  ASSUME Fits, NEW p \in Paths, Captured(p)
  PROVE  Fits'
<1>0. Doing("exec", "captured", p)
  BY DEF Captured
<1>1. /\ TypeOK /\ EditsAreUsed /\ OperationsFit /\ journal = "written" /\ plan \in Plans
      /\ phase = "exec" /\ Has("captured", p) /\ ~NoStep(p)
      /\ ExecSteps(p) /\ ExecSlots(p) /\ (p \in Alone => ExecAlone(p) /\ OpFacts(p))
      /\ (p \notin Captures => capt[p] = Nothing) /\ (p \notin Installs => check[p] = Nothing)
      /\ \A q \in Paths \ {p} : NoHalf(q)
      /\ \A q \in Paths \ {p} : linked # q
  BY <1>0, ExecStart
<1>2. /\ at \in [Paths -> Known] /\ capt \in [Paths -> Known] /\ check \in [Paths -> Known]
      /\ cand \in [Paths -> {"old", "new", Nothing}] /\ Nothing \in Known
      /\ moved \in Known /\ aside \subseteq Known /\ {"old", "new"} \subseteq Known
      /\ Nothing \notin Paths
      /\ (OpFacts(p) /\ p \notin Installs /\ p \in Captures => New(p) = Nothing)
  BY <1>1, PlanFacts DEF EditsAreUsed, Known, OpFacts
<1>3. CASE capt[p] = Old(p)
  <2>1. /\ captured' = captured \cup {p}
        /\ Done("captured", p)
        /\ UNCHANGED <<plan, at, cand, capt, check, linked, aside, journal, op, marker,
                       installed, moved, ok, answer, faults>>
    BY <1>1, <1>3 DEF Captured
  <2>2. TypeOK' /\ EditsAreUsed'
    <3>1. todo' \subseteq [do : Steps, path : Paths] /\ phase' = phase
      BY <1>1, <2>1, TodoStays DEF Done
    <3> QED BY <1>1, <1>2, <2>1, <3>1, TypesStay DEF faults, TypeOK
  <2>3. Drops("captured", p)
    BY <2>1, StepsMove
  <2>4. \A q \in Paths \ {p} : Same(q)
    BY <1>1, <1>2, <2>1, <2>3 DEF Same, Drops, TypeOK
  <2>5. /\ Captures' = Captures /\ Installs' = Installs /\ Alone' = Alone
        /\ New(p)' = New(p) /\ Old(p)' = Old(p)
    BY <2>1, World DEF Alone, faults
  <2>6. /\ \A e \in Steps : Has(e, p)' <=> (Has(e, p) /\ e # "captured")
        /\ at'[p] = at[p] /\ capt'[p] = capt[p] /\ cand'[p] = cand[p] /\ check'[p] = check[p]
    BY <1>1, <1>2, <2>1, <2>3 DEF Drops
  <2>7. ExecSteps(p)' /\ ExecSlots(p)' /\ (p \in Alone => ExecAlone(p)')
    <3>1. ExecSteps(p)'
      BY <1>1, <2>5, <2>6 DEF ExecSteps, Steps
    <3>2. ExecSlots(p)'
      BY <1>1, <1>2, <1>3, <2>1, <2>5, <2>6 DEF ExecSteps, ExecSlots, Steps
    <3>3. p \in Alone => ExecAlone(p)'
      BY <1>1, <1>2, <1>3, <2>1, <2>5, <2>6 DEF ExecSteps, ExecSlots, ExecAlone, Steps
    <3> QED BY <3>1, <3>2, <3>3
  <2> QED BY <1>0, <1>1, <2>1, <2>2, <2>4, <2>6, <2>7, ExecKeeps DEF faults, ExecSteps
<1>4. CASE capt[p] # Old(p) /\ at[p] = Nothing
  <2>0. p \notin Alone
    BY <1>1, <1>4, PlanFacts DEF ExecAlone, ExecSteps, OpFacts
  <2>1. /\ at' = [at EXCEPT ![p] = capt[p]] /\ capt' = [capt EXCEPT ![p] = Nothing]
        /\ Abort(TRUE)
        /\ UNCHANGED <<plan, cand, check, linked, aside, journal, op, marker, captured,
                       installed, answer, faults>>
    BY <1>1, <1>4 DEF Captured, PreserveConflict
  <2>2. TypeOK' /\ EditsAreUsed'
    <3>1. todo' \subseteq [do : Steps, path : Paths] /\ phase' = "undo" /\ moved' = Nothing
          /\ ok' = TRUE
      BY <1>1, <2>1, TodoStays DEF Abort
    <3> QED BY <1>1, <1>2, <2>1, <3>1, TypesStay DEF faults, TypeOK
  <2>3. \A q \in Paths \ {p} : Near(q)
    BY <1>2, <2>1 DEF Near
  <2>4. /\ p \notin Captures => capt'[p] = Nothing
        /\ p \notin Installs => check'[p] = Nothing
    BY <1>1, <1>2, <2>1 DEF ExecSteps
  <2>5. Swept(p)' /\ check'[p] = Nothing
    <3>1. Old(p)' = Old(p)
      BY <2>1, World
    <3> QED BY <1>1, <1>2, <2>1, <3>1 DEF Swept, ExecSteps, ExecSlots
  <2> QED BY <1>1, <2>0, <2>1, <2>2, <2>3, <2>4, <2>5, AbortKeeps DEF faults
<1>5. CASE capt[p] # Old(p) /\ at[p] # Nothing
  <2>0. p \notin Alone
    BY <1>1, <1>5, PlanFacts DEF ExecAlone, ExecSteps, OpFacts
  <2>1. /\ UNCHANGED <<at, capt>>
        /\ Abort(FALSE)
        /\ UNCHANGED <<plan, cand, check, linked, aside, journal, op, marker, captured,
                       installed, answer, faults>>
    BY <1>1, <1>5 DEF Captured, PreserveConflict
  <2>2. TypeOK' /\ EditsAreUsed'
    <3>1. todo' \subseteq [do : Steps, path : Paths] /\ phase' = "undo" /\ moved' = Nothing
          /\ ok' = FALSE
      BY <1>1, <2>1, TodoStays DEF Abort
    <3> QED BY <1>1, <1>2, <2>1, <3>1, TypesStay DEF faults, TypeOK
  <2>3. \A q \in Paths \ {p} : Near(q)
    BY <1>2, <2>1 DEF Near
  <2>4. /\ p \notin Captures => capt'[p] = Nothing
        /\ p \notin Installs => check'[p] = Nothing
    BY <1>1, <1>2, <2>1 DEF ExecSteps
  <2> QED BY <1>1, <2>0, <2>1, <2>2, <2>3, <2>4, AbortKeeps DEF faults
<1> QED BY <1>3, <1>4, <1>5

(* Link, the first half of _link_no_clobber, keeps the invariant.             *)
LEMMA LinkFits ==
  ASSUME Fits, NEW p \in Paths, Link(p)
  PROVE  Fits'
<1>0. Doing("exec", "link", p)
  BY DEF Link
<1>1. /\ TypeOK /\ EditsAreUsed /\ OperationsFit /\ journal = "written" /\ plan \in Plans
      /\ phase = "exec" /\ Has("link", p) /\ ~NoStep(p)
      /\ ExecSteps(p) /\ ExecSlots(p) /\ (p \in Alone => ExecAlone(p) /\ OpFacts(p))
      /\ (p \notin Captures => capt[p] = Nothing) /\ (p \notin Installs => check[p] = Nothing)
      /\ \A q \in Paths : NoHalf(q)
      /\ \A q \in Paths \ {p} : linked # q
      /\ ~Has("capture", p)
  BY <1>0, ExecStart DEF HalfDone
<1>2. /\ at \in [Paths -> Known] /\ capt \in [Paths -> Known] /\ check \in [Paths -> Known]
      /\ cand \in [Paths -> {"old", "new", Nothing}] /\ Nothing \in Known
      /\ moved \in Known /\ aside \subseteq Known /\ {"old", "new"} \subseteq Known
      /\ Nothing \notin Paths
      /\ (OpFacts(p) /\ p \notin Installs /\ p \in Captures => New(p) = Nothing)
  BY <1>1, PlanFacts DEF EditsAreUsed, Known, OpFacts
<1>9. ~Has("captured", p) /\ ~Has("linked", p) /\ ~Has("alone", p) /\ ~Has("verified", p)
  BY <1>1 DEF NoHalf, HalfDone
<1>3. CASE at[p] # Nothing
  <2>1. Abort(TRUE) /\ UNCHANGED <<plan, disk, captured, installed, answer, faults>>
    BY <1>3 DEF Link, disk
  <2>2. TypeOK' /\ EditsAreUsed'
    BY <1>1, <1>2, <2>1, TypesStay, TodoStays DEF disk, faults, Abort, TypeOK
  <2>3. \A q \in Paths : Near(q)
    BY <2>1 DEF Near, disk
  <2> QED BY <1>1, <2>1, <2>2, <2>3, AbortKeeps DEF disk, faults
<1>4. CASE at[p] = Nothing
  <2>1. /\ at' = [at EXCEPT ![p] = cand[p]] /\ linked' = p
        /\ Then("link", p, "linked")
        /\ UNCHANGED <<plan, cand, capt, check, aside, journal, op, marker, captured,
                       installed, moved, ok, answer, faults>>
    BY <1>1, <1>4 DEF Link
  <2>2. TypeOK' /\ EditsAreUsed'
    <3>1. todo' \subseteq [do : Steps, path : Paths] /\ phase' = phase
      BY <1>1, <2>1, TodoStays DEF Steps, Then
    <3> QED BY <1>1, <1>2, <2>1, <3>1, TypesStay DEF faults, TypeOK
  <2>3. Turns("link", p, "linked")
    BY <2>1, StepsMove
  <2>4. \A q \in Paths \ {p} : Same(q)
    BY <1>1, <1>2, <2>1, <2>3 DEF Same, Turns, TypeOK
  <2>5. /\ Captures' = Captures /\ Installs' = Installs /\ Alone' = Alone
        /\ New(p)' = New(p) /\ Old(p)' = Old(p)
    BY <2>1, World DEF Alone, faults
  <2>6. /\ \A e \in Steps : Has(e, p)' <=> (Has(e, p) /\ e # "link") \/ e = "linked"
        /\ at'[p] = cand[p] /\ capt'[p] = capt[p] /\ cand'[p] = cand[p] /\ check'[p] = check[p]
    BY <1>1, <1>2, <2>1, <2>3 DEF Turns
  <2>7. ExecSteps(p)' /\ ExecSlots(p)' /\ (p \in Alone => ExecAlone(p)')
    <3>1. ExecSteps(p)'
      BY <1>1, <1>9, <2>5, <2>6 DEF ExecSteps, Steps
    <3>2. ExecSlots(p)'
      BY <1>1, <1>2, <1>4, <1>9, <2>1, <2>5, <2>6 DEF ExecSteps, ExecSlots, Steps
    <3>3. p \in Alone => ExecAlone(p)'
      BY <1>1, <1>2, <1>4, <1>9, <2>1, <2>5, <2>6 DEF ExecSteps, ExecSlots, ExecAlone, Steps
    <3> QED BY <3>1, <3>2, <3>3
  <2>8. <<"link", "linked">> \in Halves
    BY DEF Halves
  <2> QED BY <1>0, <1>1, <2>1, <2>2, <2>4, <2>6, <2>7, <2>8, ExecKeeps DEF faults, ExecSteps
<1> QED BY <1>3, <1>4

(* Linked, its unlink, keeps the invariant.                                   *)
LEMMA LinkedFits ==
  ASSUME Fits, NEW p \in Paths, Linked(p)
  PROVE  Fits'
<1>0. Doing("exec", "linked", p)
  BY DEF Linked
<1>1. /\ TypeOK /\ EditsAreUsed /\ OperationsFit /\ journal = "written" /\ plan \in Plans
      /\ phase = "exec" /\ Has("linked", p) /\ ~NoStep(p)
      /\ ExecSteps(p) /\ ExecSlots(p) /\ (p \in Alone => ExecAlone(p) /\ OpFacts(p))
      /\ (p \notin Captures => capt[p] = Nothing) /\ (p \notin Installs => check[p] = Nothing)
      /\ \A q \in Paths \ {p} : NoHalf(q)
      /\ \A q \in Paths \ {p} : linked # q
  BY <1>0, ExecStart
<1>2. /\ at \in [Paths -> Known] /\ capt \in [Paths -> Known] /\ check \in [Paths -> Known]
      /\ cand \in [Paths -> {"old", "new", Nothing}] /\ Nothing \in Known
      /\ moved \in Known /\ aside \subseteq Known /\ {"old", "new"} \subseteq Known
      /\ Nothing \notin Paths
      /\ (OpFacts(p) /\ p \notin Installs /\ p \in Captures => New(p) = Nothing)
  BY <1>1, PlanFacts DEF EditsAreUsed, Known, OpFacts
<1>3. CASE linked = p /\ cand' = [cand EXCEPT ![p] = Nothing]
  <2>1. /\ cand' = [cand EXCEPT ![p] = Nothing] /\ linked' = Nothing
        /\ Then("linked", p, "alone")
        /\ UNCHANGED <<plan, at, capt, check, aside, journal, op, marker, captured,
                       installed, moved, ok, answer, faults>>
    BY <1>1, <1>3 DEF Linked
  <2>2. TypeOK' /\ EditsAreUsed'
    <3>1. todo' \subseteq [do : Steps, path : Paths] /\ phase' = phase
      BY <1>1, <2>1, TodoStays DEF Steps, Then
    <3> QED BY <1>1, <1>2, <2>1, <3>1, TypesStay DEF faults, TypeOK
  <2>3. Turns("linked", p, "alone")
    BY <2>1, StepsMove
  <2>4. \A q \in Paths \ {p} : Same(q)
    BY <1>1, <1>2, <2>1, <2>3 DEF Same, Turns, TypeOK
  <2>5. /\ Captures' = Captures /\ Installs' = Installs /\ Alone' = Alone
        /\ New(p)' = New(p) /\ Old(p)' = Old(p)
    BY <2>1, World DEF Alone, faults
  <2>6. /\ \A e \in Steps : Has(e, p)' <=> (Has(e, p) /\ e # "linked") \/ e = "alone"
        /\ at'[p] = at[p] /\ capt'[p] = capt[p] /\ cand'[p] = Nothing /\ check'[p] = check[p]
    BY <1>1, <1>2, <2>1, <2>3 DEF Turns
  <2>7. ExecSteps(p)' /\ ExecSlots(p)' /\ (p \in Alone => ExecAlone(p)')
    <3>1. ExecSteps(p)'
      BY <1>1, <2>5, <2>6 DEF ExecSteps, Steps
    <3>2. ExecSlots(p)'
      BY <1>1, <1>2, <1>3, <2>1, <2>5, <2>6 DEF ExecSteps, ExecSlots, Steps
    <3>3. p \in Alone => ExecAlone(p)'
      BY <1>1, <1>2, <1>3, <2>1, <2>5, <2>6 DEF ExecSteps, ExecSlots, ExecAlone, Steps
    <3> QED BY <3>1, <3>2, <3>3
  <2>8. <<"linked", "alone">> \in Halves
    BY DEF Halves
  <2> QED BY <1>0, <1>1, <2>1, <2>2, <2>4, <2>6, <2>7, <2>8, ExecKeeps DEF faults, ExecSteps
<1>4. CASE linked # p /\ Abort(TRUE) /\ UNCHANGED <<at, cand, linked, aside, marker>>
  <2>0. p \notin Alone
    BY <1>1, <1>4, PlanFacts DEF ExecAlone, ExecSteps, OpFacts
  <2>1. /\ UNCHANGED <<at, capt>>
        /\ Abort(TRUE)
        /\ UNCHANGED <<plan, cand, check, linked, aside, journal, op, marker, captured,
                       installed, answer, faults>>
    BY <1>1, <1>4 DEF Linked, PreserveConflict
  <2>2. TypeOK' /\ EditsAreUsed'
    <3>1. todo' \subseteq [do : Steps, path : Paths] /\ phase' = "undo" /\ moved' = Nothing
          /\ ok' = TRUE
      BY <1>1, <2>1, TodoStays DEF Abort
    <3> QED BY <1>1, <1>2, <2>1, <3>1, TypesStay DEF faults, TypeOK
  <2>3. \A q \in Paths \ {p} : Near(q)
    BY <1>2, <2>1 DEF Near
  <2>4. /\ p \notin Captures => capt'[p] = Nothing
        /\ p \notin Installs => check'[p] = Nothing
    BY <1>1, <1>2, <2>1 DEF ExecSteps
  <2>5. Swept(p)' /\ check'[p] = Nothing
    <3>1. Old(p)' = Old(p)
      BY <2>1, World
    <3> QED BY <1>1, <1>2, <2>1, <3>1 DEF Swept, ExecSteps, ExecSlots
  <2> QED BY <1>1, <2>0, <2>1, <2>2, <2>3, <2>4, <2>5, AbortKeeps DEF faults
<1>5. CASE linked # p /\ at[p] # Nothing /\ PreserveConflict(p) /\ Abort(FALSE)
  <2>0. p \notin Alone
    BY <1>1, <1>5, PlanFacts DEF ExecAlone, ExecSteps, OpFacts
  <2>1. /\ at' = [at EXCEPT ![p] = Nothing] /\ aside' = aside \cup {at[p]} /\ marker' = TRUE
        /\ Abort(FALSE)
        /\ UNCHANGED <<plan, cand, capt, check, linked, journal, op, captured, installed,
                       answer, faults>>
    BY <1>1, <1>5 DEF Linked, PreserveConflict
  <2>2. TypeOK' /\ EditsAreUsed'
    <3>1. todo' \subseteq [do : Steps, path : Paths] /\ phase' = "undo" /\ moved' = Nothing
          /\ ok' = FALSE
      BY <1>1, <2>1, TodoStays DEF Abort
    <3> QED BY <1>1, <1>2, <2>1, <3>1, TypesStay DEF faults, TypeOK
  <2>3. \A q \in Paths \ {p} : Near(q)
    BY <1>2, <2>1 DEF Near
  <2>4. /\ p \notin Captures => capt'[p] = Nothing
        /\ p \notin Installs => check'[p] = Nothing
    BY <1>1, <1>2, <2>1 DEF ExecSteps
  <2> QED BY <1>1, <2>0, <2>1, <2>2, <2>3, <2>4, AbortKeeps DEF faults
<1> QED BY <1>3, <1>4, <1>5 DEF Linked

(* LinkedAlone, its last look, keeps the invariant.                           *)
LEMMA LinkedAloneFits ==
  ASSUME Fits, NEW p \in Paths, LinkedAlone(p)
  PROVE  Fits'
<1>0. Doing("exec", "alone", p)
  BY DEF LinkedAlone
<1>1. /\ TypeOK /\ EditsAreUsed /\ OperationsFit /\ journal = "written" /\ plan \in Plans
      /\ phase = "exec" /\ Has("alone", p) /\ ~NoStep(p)
      /\ ExecSteps(p) /\ ExecSlots(p) /\ (p \in Alone => ExecAlone(p) /\ OpFacts(p))
      /\ (p \notin Captures => capt[p] = Nothing) /\ (p \notin Installs => check[p] = Nothing)
      /\ \A q \in Paths \ {p} : NoHalf(q)
      /\ \A q \in Paths \ {p} : linked # q
  BY <1>0, ExecStart
<1>2. /\ at \in [Paths -> Known] /\ capt \in [Paths -> Known] /\ check \in [Paths -> Known]
      /\ cand \in [Paths -> {"old", "new", Nothing}] /\ Nothing \in Known
      /\ moved \in Known /\ aside \subseteq Known /\ {"old", "new"} \subseteq Known
      /\ Nothing \notin Paths
      /\ (OpFacts(p) /\ p \notin Installs /\ p \in Captures => New(p) = Nothing)
  BY <1>1, PlanFacts DEF EditsAreUsed, Known, OpFacts
<1>3. CASE at[p] = New(p)
  <2>1. /\ installed' = installed \cup {p}
        /\ Done("alone", p)
        /\ UNCHANGED <<plan, at, cand, capt, check, linked, aside, journal, op, marker,
                       captured, moved, ok, answer, faults>>
    BY <1>1, <1>3 DEF LinkedAlone
  <2>2. TypeOK' /\ EditsAreUsed'
    <3>1. todo' \subseteq [do : Steps, path : Paths] /\ phase' = phase
      BY <1>1, <2>1, TodoStays DEF Done
    <3> QED BY <1>1, <1>2, <2>1, <3>1, TypesStay DEF faults, TypeOK
  <2>3. Drops("alone", p)
    BY <2>1, StepsMove
  <2>4. \A q \in Paths \ {p} : Same(q)
    BY <1>1, <1>2, <2>1, <2>3 DEF Same, Drops, TypeOK
  <2>5. /\ Captures' = Captures /\ Installs' = Installs /\ Alone' = Alone
        /\ New(p)' = New(p) /\ Old(p)' = Old(p)
    BY <2>1, World DEF Alone, faults
  <2>6. /\ \A e \in Steps : Has(e, p)' <=> (Has(e, p) /\ e # "alone")
        /\ at'[p] = at[p] /\ capt'[p] = capt[p] /\ cand'[p] = cand[p] /\ check'[p] = check[p]
    BY <1>1, <1>2, <2>1, <2>3 DEF Drops
  <2>7. ExecSteps(p)' /\ ExecSlots(p)' /\ (p \in Alone => ExecAlone(p)')
    <3>1. ExecSteps(p)'
      BY <1>1, <2>5, <2>6 DEF ExecSteps, Steps
    <3>2. ExecSlots(p)'
      BY <1>1, <1>2, <1>3, <2>1, <2>5, <2>6 DEF ExecSteps, ExecSlots, Steps
    <3>3. p \in Alone => ExecAlone(p)'
      BY <1>1, <1>2, <1>3, <2>1, <2>5, <2>6 DEF ExecSteps, ExecSlots, ExecAlone, Steps
    <3> QED BY <3>1, <3>2, <3>3
  <2> QED BY <1>0, <1>1, <2>1, <2>2, <2>4, <2>6, <2>7, ExecKeeps DEF faults, ExecSteps
<1>4. CASE at[p] # New(p)
  <2>0. p \notin Alone
    BY <1>1, <1>4, PlanFacts DEF ExecAlone, ExecSteps, OpFacts
  <2>1. /\ at' = [at EXCEPT ![p] = Nothing] /\ marker' = TRUE
        /\ aside' = IF at[p] = Nothing THEN aside ELSE aside \cup {at[p]}
        /\ Abort(FALSE)
        /\ UNCHANGED <<plan, cand, capt, check, linked, journal, op, captured, installed,
                       answer, faults>>
    BY <1>1, <1>4 DEF LinkedAlone, PreserveConflict
  <2>2. TypeOK' /\ EditsAreUsed'
    <3>1. todo' \subseteq [do : Steps, path : Paths] /\ phase' = "undo" /\ moved' = Nothing
          /\ ok' = FALSE
      BY <1>1, <2>1, TodoStays DEF Abort
    <3> QED BY <1>1, <1>2, <2>1, <3>1, TypesStay DEF faults, TypeOK
  <2>3. \A q \in Paths \ {p} : Near(q)
    BY <1>2, <2>1 DEF Near
  <2>4. /\ p \notin Captures => capt'[p] = Nothing
        /\ p \notin Installs => check'[p] = Nothing
    BY <1>1, <1>2, <2>1 DEF ExecSteps
  <2> QED BY <1>1, <2>0, <2>1, <2>2, <2>3, <2>4, AbortKeeps DEF faults
<1> QED BY <1>3, <1>4

(* Verify, which moves an installed file to be read, keeps the invariant.     *)
LEMMA VerifyFits ==
  ASSUME Fits, NEW p \in Paths, Verify(p)
  PROVE  Fits'
<1>0. Doing("exec", "verify", p)
  BY DEF Verify
<1>1. /\ TypeOK /\ EditsAreUsed /\ OperationsFit /\ journal = "written" /\ plan \in Plans
      /\ phase = "exec" /\ Has("verify", p) /\ ~NoStep(p)
      /\ ExecSteps(p) /\ ExecSlots(p) /\ (p \in Alone => ExecAlone(p) /\ OpFacts(p))
      /\ (p \notin Captures => capt[p] = Nothing) /\ (p \notin Installs => check[p] = Nothing)
      /\ \A q \in Paths : NoHalf(q)
      /\ \A q \in Paths \ {p} : linked # q
      /\ ~Has("capture", p) /\ ~Has("link", p)
  BY <1>0, ExecStart DEF HalfDone
<1>2. /\ at \in [Paths -> Known] /\ capt \in [Paths -> Known] /\ check \in [Paths -> Known]
      /\ cand \in [Paths -> {"old", "new", Nothing}] /\ Nothing \in Known
      /\ moved \in Known /\ aside \subseteq Known /\ {"old", "new"} \subseteq Known
      /\ Nothing \notin Paths
      /\ (OpFacts(p) /\ p \notin Installs /\ p \in Captures => New(p) = Nothing)
  BY <1>1, PlanFacts DEF EditsAreUsed, Known, OpFacts
<1>9. ~Has("captured", p) /\ ~Has("linked", p) /\ ~Has("alone", p) /\ ~Has("verified", p)
  BY <1>1 DEF NoHalf, HalfDone
<1>3. CASE at[p] = Nothing
  <2>1. Abort(TRUE) /\ UNCHANGED <<plan, disk, captured, installed, answer, faults>>
    BY <1>3 DEF Verify, disk
  <2>2. TypeOK' /\ EditsAreUsed'
    BY <1>1, <1>2, <2>1, TypesStay, TodoStays DEF disk, faults, Abort, TypeOK
  <2>3. \A q \in Paths : Near(q)
    BY <2>1 DEF Near, disk
  <2> QED BY <1>1, <2>1, <2>2, <2>3, AbortKeeps DEF disk, faults
<1>4. CASE at[p] # Nothing
  <2>1. /\ at' = [at EXCEPT ![p] = Nothing] /\ check' = [check EXCEPT ![p] = at[p]]
        /\ Then("verify", p, "verified")
        /\ UNCHANGED <<plan, cand, capt, linked, aside, journal, op, marker, captured,
                       installed, moved, ok, answer, faults>>
    BY <1>1, <1>4 DEF Verify
  <2>2. TypeOK' /\ EditsAreUsed'
    <3>1. todo' \subseteq [do : Steps, path : Paths] /\ phase' = phase
      BY <1>1, <2>1, TodoStays DEF Steps, Then
    <3> QED BY <1>1, <1>2, <2>1, <3>1, TypesStay DEF faults, TypeOK
  <2>3. Turns("verify", p, "verified")
    BY <2>1, StepsMove
  <2>4. \A q \in Paths \ {p} : Same(q)
    BY <1>1, <1>2, <2>1, <2>3 DEF Same, Turns, TypeOK
  <2>5. /\ Captures' = Captures /\ Installs' = Installs /\ Alone' = Alone
        /\ New(p)' = New(p) /\ Old(p)' = Old(p)
    BY <2>1, World DEF Alone, faults
  <2>6. /\ \A e \in Steps : Has(e, p)' <=> (Has(e, p) /\ e # "verify") \/ e = "verified"
        /\ at'[p] = Nothing /\ capt'[p] = capt[p] /\ cand'[p] = cand[p] /\ check'[p] = at[p]
    BY <1>1, <1>2, <2>1, <2>3 DEF Turns
  <2>7. ExecSteps(p)' /\ ExecSlots(p)' /\ (p \in Alone => ExecAlone(p)')
    <3>1. ExecSteps(p)'
      BY <1>1, <1>9, <2>5, <2>6 DEF ExecSteps, Steps
    <3>2. ExecSlots(p)'
      BY <1>1, <1>2, <1>4, <1>9, <2>1, <2>5, <2>6 DEF ExecSteps, ExecSlots, Steps
    <3>3. p \in Alone => ExecAlone(p)'
      BY <1>1, <1>2, <1>4, <1>9, <2>1, <2>5, <2>6 DEF ExecSteps, ExecSlots, ExecAlone, Steps
    <3> QED BY <3>1, <3>2, <3>3
  <2>8. <<"verify", "verified">> \in Halves
    BY DEF Halves
  <2> QED BY <1>0, <1>1, <2>1, <2>2, <2>4, <2>6, <2>7, <2>8, ExecKeeps DEF faults, ExecSteps
<1> QED BY <1>3, <1>4

(* Verified, which puts it back, keeps the invariant.                         *)
LEMMA VerifiedFits ==
  ASSUME Fits, NEW p \in Paths, Verified(p)
  PROVE  Fits'
<1>0. Doing("exec", "verified", p)
  BY DEF Verified
<1>1. /\ TypeOK /\ EditsAreUsed /\ OperationsFit /\ journal = "written" /\ plan \in Plans
      /\ phase = "exec" /\ Has("verified", p) /\ ~NoStep(p)
      /\ ExecSteps(p) /\ ExecSlots(p) /\ (p \in Alone => ExecAlone(p) /\ OpFacts(p))
      /\ (p \notin Captures => capt[p] = Nothing) /\ (p \notin Installs => check[p] = Nothing)
      /\ \A q \in Paths \ {p} : NoHalf(q)
      /\ \A q \in Paths \ {p} : linked # q
  BY <1>0, ExecStart
<1>2. /\ at \in [Paths -> Known] /\ capt \in [Paths -> Known] /\ check \in [Paths -> Known]
      /\ cand \in [Paths -> {"old", "new", Nothing}] /\ Nothing \in Known
      /\ moved \in Known /\ aside \subseteq Known /\ {"old", "new"} \subseteq Known
      /\ Nothing \notin Paths
      /\ (OpFacts(p) /\ p \notin Installs /\ p \in Captures => New(p) = Nothing)
  BY <1>1, PlanFacts DEF EditsAreUsed, Known, OpFacts
<1>3. CASE at[p] = Nothing /\ check[p] = New(p)
  <2>1. /\ at' = [at EXCEPT ![p] = check[p]] /\ check' = [check EXCEPT ![p] = Nothing]
        /\ Done("verified", p)
        /\ UNCHANGED <<plan, cand, capt, linked, aside, journal, op, marker, captured,
                       installed, moved, ok, answer, faults>>
    BY <1>1, <1>3 DEF Verified
  <2>2. TypeOK' /\ EditsAreUsed'
    <3>1. todo' \subseteq [do : Steps, path : Paths] /\ phase' = phase
      BY <1>1, <2>1, TodoStays DEF Done
    <3> QED BY <1>1, <1>2, <2>1, <3>1, TypesStay DEF faults, TypeOK
  <2>3. Drops("verified", p)
    BY <2>1, StepsMove
  <2>4. \A q \in Paths \ {p} : Same(q)
    BY <1>1, <1>2, <2>1, <2>3 DEF Same, Drops, TypeOK
  <2>5. /\ Captures' = Captures /\ Installs' = Installs /\ Alone' = Alone
        /\ New(p)' = New(p) /\ Old(p)' = Old(p)
    BY <2>1, World DEF Alone, faults
  <2>6. /\ \A e \in Steps : Has(e, p)' <=> (Has(e, p) /\ e # "verified")
        /\ at'[p] = check[p] /\ capt'[p] = capt[p] /\ cand'[p] = cand[p] /\ check'[p] = Nothing
    BY <1>1, <1>2, <2>1, <2>3 DEF Drops
  <2>7. ExecSteps(p)' /\ ExecSlots(p)' /\ (p \in Alone => ExecAlone(p)')
    <3>1. ExecSteps(p)'
      BY <1>1, <2>5, <2>6 DEF ExecSteps, Steps
    <3>2. ExecSlots(p)'
      BY <1>1, <1>2, <1>3, <2>1, <2>5, <2>6 DEF ExecSteps, ExecSlots, Steps
    <3>3. p \in Alone => ExecAlone(p)'
      BY <1>1, <1>2, <1>3, <2>1, <2>5, <2>6 DEF ExecSteps, ExecSlots, ExecAlone, Steps
    <3> QED BY <3>1, <3>2, <3>3
  <2> QED BY <1>0, <1>1, <2>1, <2>2, <2>4, <2>6, <2>7, ExecKeeps DEF faults, ExecSteps
<1>4. CASE at[p] = Nothing /\ check[p] # New(p)
  <2>0. p \notin Alone
    BY <1>1, <1>4, PlanFacts DEF ExecAlone, ExecSteps, OpFacts
  <2>1. /\ at' = [at EXCEPT ![p] = check[p]] /\ check' = [check EXCEPT ![p] = Nothing]
        /\ Abort(TRUE)
        /\ UNCHANGED <<plan, cand, capt, linked, aside, journal, op, marker, captured,
                       installed, answer, faults>>
    BY <1>1, <1>4 DEF Verified, PreserveConflict
  <2>2. TypeOK' /\ EditsAreUsed'
    <3>1. todo' \subseteq [do : Steps, path : Paths] /\ phase' = "undo" /\ moved' = Nothing
          /\ ok' = TRUE
      BY <1>1, <2>1, TodoStays DEF Abort
    <3> QED BY <1>1, <1>2, <2>1, <3>1, TypesStay DEF faults, TypeOK
  <2>3. \A q \in Paths \ {p} : Near(q)
    BY <1>2, <2>1 DEF Near
  <2>4. /\ p \notin Captures => capt'[p] = Nothing
        /\ p \notin Installs => check'[p] = Nothing
    BY <1>1, <1>2, <2>1 DEF ExecSteps
  <2>5. Swept(p)' /\ check'[p] = Nothing
    <3>1. Old(p)' = Old(p)
      BY <2>1, World
    <3> QED BY <1>1, <1>2, <2>1, <3>1 DEF Swept, ExecSteps, ExecSlots
  <2> QED BY <1>1, <2>0, <2>1, <2>2, <2>3, <2>4, <2>5, AbortKeeps DEF faults
<1>5. CASE at[p] # Nothing
  <2>0. p \notin Alone
    BY <1>1, <1>5, PlanFacts DEF ExecAlone, ExecSteps, OpFacts
  <2>1. /\ UNCHANGED <<at, check>>
        /\ Abort(FALSE)
        /\ UNCHANGED <<plan, cand, capt, linked, aside, journal, op, marker, captured,
                       installed, answer, faults>>
    BY <1>1, <1>5 DEF Verified, PreserveConflict
  <2>2. TypeOK' /\ EditsAreUsed'
    <3>1. todo' \subseteq [do : Steps, path : Paths] /\ phase' = "undo" /\ moved' = Nothing
          /\ ok' = FALSE
      BY <1>1, <2>1, TodoStays DEF Abort
    <3> QED BY <1>1, <1>2, <2>1, <3>1, TypesStay DEF faults, TypeOK
  <2>3. \A q \in Paths \ {p} : Near(q)
    BY <1>2, <2>1 DEF Near
  <2>4. /\ p \notin Captures => capt'[p] = Nothing
        /\ p \notin Installs => check'[p] = Nothing
    BY <1>1, <1>2, <2>1 DEF ExecSteps
  <2> QED BY <1>1, <2>0, <2>1, <2>2, <2>3, <2>4, AbortKeeps DEF faults
<1> QED BY <1>3, <1>4, <1>5

(* Nothing moves: the tree stands as it stood.                                  *)
LEMMA TreeSame ==
  ASSUME UNCHANGED <<plan, at, capt, check, linked, op, touched>>
  PROVE  /\ (TreeStands' <=> TreeStands) /\ (AllBefore' <=> AllBefore) /\ (Landed' <=> Landed)
         /\ Alone' = Alone /\ Paths' = Paths /\ Operations' = Operations
         /\ Captures' = Captures /\ Installs' = Installs
         /\ \A q : /\ (Stands(q)' <=> Stands(q)) /\ (Final(q)' <=> Final(q))
                   /\ (Swept(q)' <=> Swept(q)) /\ (Before(q)' <=> Before(q))
                   /\ (Out(q)' <=> Out(q)) /\ (Placed(q)' <=> Placed(q))
<1>1. /\ Paths' = Paths /\ Alone' = Alone /\ Captures' = Captures /\ Installs' = Installs
      /\ Operations' = Operations
      /\ \A p : New(p)' = New(p) /\ Old(p)' = Old(p)
  BY World DEF Alone
<1>2. \A q : Near(q)
  BY DEF Near
<1>3. \A q : /\ (Stands(q)' <=> Stands(q)) /\ (Final(q)' <=> Final(q))
             /\ (Swept(q)' <=> Swept(q)) /\ (Before(q)' <=> Before(q))
             /\ (Out(q)' <=> Out(q)) /\ (Placed(q)' <=> Placed(q))
  BY <1>2, NearPath
<1>4. Landed' <=> Landed
  BY DEF Landed
<1>5. TreeStands' <=> TreeStands
  BY <1>1, <1>3, <1>4 DEF TreeStands
<1> QED BY <1>1, <1>3, <1>4, <1>5 DEF AllBefore

(* Nothing is written: the directory is what it was.                          *)
LEMMA DiskSame ==
  ASSUME UNCHANGED <<plan, disk, touched>>
  PROVE  /\ (TreeStands' <=> TreeStands) /\ (AllBefore' <=> AllBefore) /\ (Landed' <=> Landed)
         /\ (OperationsFit' <=> OperationsFit) /\ (Blank' <=> Blank)
         /\ Alone' = Alone /\ Paths' = Paths /\ Operations' = Operations
         /\ \A q : /\ (Stands(q)' <=> Stands(q)) /\ (Final(q)' <=> Final(q))
                   /\ (Swept(q)' <=> Swept(q)) /\ (Before(q)' <=> Before(q))
                   /\ (Out(q)' <=> Out(q)) /\ (Placed(q)' <=> Placed(q))
<1>1. UNCHANGED <<plan, at, cand, capt, check, linked, aside, journal, op, marker, touched>>
  BY DEF disk
<1>2. OperationsFit' <=> OperationsFit
  BY <1>1, TreeSame DEF OperationsFit
<1>3. Blank' <=> Blank
  BY <1>1, TreeSame DEF Blank
<1> QED BY <1>1, <1>2, <1>3, TreeSame

(* A step that writes nothing keeps the types.                                *)
LEMMA QuietTypes ==
  ASSUME TypeOK, EditsAreUsed, UNCHANGED <<plan, disk, faults>>,
         todo' \subseteq [do : Steps, path : Paths],
         phase' \in {"idle", "prepare", "exec", "undo", "recover", "published", "failed",
                     "recovered"},
         captured' \subseteq Paths, installed' \subseteq Paths, moved' \in Known,
         ok' \in BOOLEAN, answer' \in {"none", "published", "failed"}
  PROVE  TypeOK' /\ EditsAreUsed'
<1>1. Paths' = Paths /\ Files' = Files /\ Known' = Known /\ Known \subseteq Contents
  BY World DEF Known, Contents, TypeOK, faults
<1>2. EditsAreUsed'
  BY <1>1 DEF EditsAreUsed, disk
<1>3. TypeOK'
  BY <1>1 DEF TypeOK, disk, faults
<1> QED BY <1>2, <1>3

(* A step that raises before it writes, or a commit that finds the tree changed.*)
LEMMA RaisesFits ==
  ASSUME Fits, NEW do, do \notin HalfDone, NEW p \in Paths, Doing("exec", do, p), Abort(TRUE),
         UNCHANGED <<plan, disk, captured, installed, answer, faults>>
  PROVE  Fits'
<1>1. /\ TypeOK /\ EditsAreUsed /\ phase = "exec"
      /\ \A q \in Paths : NoHalf(q)
      /\ (p \notin Captures => capt[p] = Nothing) /\ (p \notin Installs => check[p] = Nothing)
  BY ExecStart
<1>2. TypeOK' /\ EditsAreUsed'
  <2>1. todo' \subseteq [do : Steps, path : Paths] /\ phase' = "undo" /\ moved' = Nothing
        /\ ok' = TRUE
    BY <1>1, TodoStays DEF Abort
  <2> QED BY <1>1, <2>1, QuietTypes DEF TypeOK, Known
<1>3. \A q \in Paths : Near(q)
  BY DEF Near, disk
<1> QED BY <1>1, <1>2, <1>3, AbortKeeps DEF disk, faults

(* An exception between two steps keeps the invariant.                        *)
LEMMA StepFailsFits ==
  ASSUME Fits, StepFails
  PROVE  Fits'
<1>1. PICK do \in {"capture", "link", "verify", "commit"}, p \in Paths : Doing("exec", do, p)
  BY DEF StepFails
<1> QED BY <1>1, RaisesFits DEF StepFails, HalfDone

(* The commit is the last step.                                                 *)
LEMMA CommitFits ==
  ASSUME Fits, Commit
  PROVE  Fits'
<1>1. Doing("exec", "commit", 0) /\ 0 \in Paths
  BY PlanFacts DEF Commit, Fits, TypeOK
<1>2. CASE ~Whole
  BY <1>1, <1>2, RaisesFits DEF Commit, HalfDone
<1>3. CASE Whole
  <2>1. /\ phase' = "published" /\ todo' = {}
        /\ UNCHANGED <<plan, disk, captured, installed, moved, ok, answer, faults>>
    BY <1>3 DEF Commit
  <2>2. /\ TypeOK /\ EditsAreUsed /\ OperationsFit /\ TreeStands /\ journal = "written"
        /\ Executing /\ AsideIsKnown /\ DirectoryFits /\ phase = "exec" /\ ~marker
        /\ plan \in Plans
    BY <1>1 DEF Fits, DirectoryFits, Doing, TypeOK
  <2>3. TypeOK' /\ EditsAreUsed'
    BY <2>1, <2>2, QuietTypes DEF TypeOK, EditsAreUsed
  <2>4. \A q \in Paths : Swept(q) /\ check[q] = Nothing
    <3>1. \A q \in Paths : NoHalf(q)
      BY <1>1, ExecStart DEF HalfDone
    <3> QED BY <2>2, <3>1, ExecToUndo
  <2>5. Landed /\ linked # 0
    BY <1>3, <2>2, PlanFacts DEF Whole, Landed
  <2>6. /\ TreeStands' /\ OperationsFit' /\ Landed' /\ linked' # 0
        /\ \A q \in Paths' : Swept(q)' /\ check'[q] = Nothing
    <3>1. linked' = linked /\ check' = check /\ UNCHANGED <<plan, disk, touched>>
      BY <2>1 DEF disk, faults
    <3>2. /\ (TreeStands' <=> TreeStands) /\ (Landed' <=> Landed) /\ Paths' = Paths
          /\ (OperationsFit' <=> OperationsFit) /\ \A q : Swept(q)' <=> Swept(q)
      BY <3>1, DiskSame
    <3> QED BY <2>2, <2>4, <2>5, <3>1, <3>2
  <2>7. AsideIsKnown'
    <3>1. InHand = {}
      BY <2>2 DEF InHand, Executing, ExecSteps, Steps
    <3> QED BY <2>1, <2>2, <3>1 DEF AsideIsKnown, disk, faults
  <2>8. DirectoryFits'
    BY <2>1, <2>2 DEF DirectoryFits, disk
  <2>9. Ended'
    BY <2>1, <2>6 DEF Ended
  <2>10. HalfFirst'
    BY <2>1 DEF HalfFirst, Has
  <2> QED BY <2>1, <2>3, <2>6, <2>7, <2>8, <2>9, <2>10 DEF Fits, Executing, Undoing, RecoveryFits
<1> QED BY <1>2, <1>3

(* The journal is written over a tree in which nothing has begun.               *)
LEMMA WriteJournalFits ==
  ASSUME Fits, WriteJournal
  PROVE  Fits'
<1>1. /\ TypeOK /\ EditsAreUsed /\ OperationsFit /\ TreeStands /\ AsideIsKnown
      /\ phase = "prepare" /\ journal = "partial" /\ Blank /\ AllBefore /\ plan \in Plans
      /\ todo = {}
  BY DEF Fits, DirectoryFits, WriteJournal, TypeOK
<1>2. /\ phase' = "exec" /\ journal' = "written"
      /\ cand' = [p \in Paths |-> IF p \in Installs THEN New(p) ELSE Nothing]
      /\ todo' = {Step("capture", p) : p \in Captures}
                 \cup {Step(do, p) : do \in {"link", "verify"}, p \in Installs}
                 \cup {Step("commit", 0)}
      /\ UNCHANGED <<plan, at, capt, check, linked, aside, op, marker, captured, installed,
                     moved, ok, answer, faults>>
  BY DEF WriteJournal
<1>3. /\ Paths' = Paths /\ Files' = Files /\ Alone' = Alone /\ Captures' = Captures
      /\ Installs' = Installs
      /\ \A p : New(p)' = New(p) /\ Old(p)' = Old(p)
      /\ 0 \in Paths /\ Captures \subseteq Paths /\ Installs \subseteq Paths
      /\ 0 \in Installs /\ Alone \subseteq Paths /\ \A p \in Alone : OpFacts(p)
      /\ Nothing \notin Paths
  BY <1>1, <1>2, World, PlanFacts, OperationOf DEF Alone, faults, Captures, Installs
<1>4. \A e, p : Has(e, p)' <=> \/ e = "capture" /\ p \in Captures
                               \/ e \in {"link", "verify"} /\ p \in Installs
                               \/ e = "commit" /\ p = 0
  BY <1>2, StepsAre DEF Has
<1>5. TypeOK' /\ EditsAreUsed'
  <2>1. todo' \subseteq [do : Steps, path : Paths]
    BY <1>2, <1>3 DEF Step, Steps
  <2>2. cand' \in [Paths -> {"old", "new", Nothing}]
    BY <1>1, <1>2, PlanFacts
  <2>3. Known' = Known /\ {"old", "new", Nothing} \subseteq Contents
    BY <1>2 DEF Known, faults, Contents
  <2>4. EditsAreUsed'
    BY <1>1, <1>2, <1>3, <2>2, <2>3 DEF EditsAreUsed
  <2>5. cand' \in [Paths -> Contents]
    BY <2>2, <2>3
  <2>6. TypeOK'
    BY <1>1, <1>2, <1>3, <2>1, <2>5 DEF TypeOK, faults
  <2> QED BY <2>4, <2>6
<1>6. captured = {} /\ installed = {}
  BY <1>1 DEF Fits, DirectoryFits
<1>7. Executing'
  <2>1. ASSUME NEW p \in Paths
        PROVE  /\ ExecSteps(p)' /\ ExecSlots(p)'
               /\ p \in Alone => ExecAlone(p)'
    <3>1. capt[p] = Nothing /\ check[p] = Nothing /\ linked = Nothing /\ p # Nothing
          /\ (p \in Alone => at[p] = Old(p) /\ OpFacts(p))
      BY <1>1, <1>3, <2>1 DEF Blank, AllBefore, Before
    <3>2. p \in Alone /\ ~Has("capture", p)' => at[p] = IF Has("link", p)' THEN Nothing ELSE New(p)
      BY <1>1, <1>3, <1>4, <3>1, PlanFacts DEF OpFacts
    <3>3. ExecSteps(p)'
      BY <1>3, <1>4 DEF ExecSteps
    <3>4. ExecSlots(p)'
      BY <1>2, <1>3, <1>4, <1>6, <3>1 DEF ExecSlots
    <3>5. p \in Alone => ExecAlone(p)'
      BY <1>2, <1>3, <1>4, <3>1, <3>2 DEF ExecAlone
    <3> QED BY <3>3, <3>4, <3>5
  <2>2. ManifestIsLast' /\ Has("commit", 0)'
    BY <1>3, <1>4 DEF ManifestIsLast
  <2>3. \A p \in Alone : p \in Paths
    BY <1>3
  <2> QED BY <1>3, <2>1, <2>2, <2>3 DEF Executing
<1>8. OperationsFit'
  BY <1>1, <1>2, <1>3 DEF OperationsFit
<1>9. TreeStands'
  BY <1>2, <1>5, <1>7, <1>8, ExecTreeNext
<1>10. HalfFirst'
  BY <1>4 DEF HalfFirst, HalfDone
<1>11. DirectoryFits'
  BY <1>1, <1>2 DEF DirectoryFits, Blank
<1>12. AsideIsKnown'
  BY <1>1, <1>2 DEF AsideIsKnown, Blank
<1> QED BY <1>2, <1>5, <1>7, <1>8, <1>9, <1>10, <1>11, <1>12
        DEF Fits, Undoing, RecoveryFits, Ended, Cleaning

--------------------------------------------------------------------------------
(* Steps of _rollback_transaction *)

(* Whatever is left to undo, a path no user touched stands.                     *)
LEMMA UndoStands ==
  Undoing /\ phase = "undo" /\ Alone \subseteq Paths => \A q \in Alone : Stands(q)
<1> SUFFICES ASSUME Undoing, phase = "undo", Alone \subseteq Paths, NEW q \in Alone
             PROVE  Stands(q)
  OBVIOUS
<1>1. UndoAlone(q) /\ \A do \in Steps : Has(do, q) => do \in {"undo", "undone", "restore"}
  BY DEF Undoing
<1>2. Has("undo", q) \/ Has("undone", q) \/ Has("restore", q) \/ NoStep(q)
  BY <1>1 DEF NoStep
<1> QED BY <1>1, <1>2 DEF UndoAlone, Stands, HalfBack

(* The same of the state after a step.                                        *)
LEMMA UndoStandsNext ==
  ASSUME Undoing', phase' = "undo", Alone' \subseteq Paths'
  PROVE  \A q \in Alone' : Stands(q)'
<1>1. (Undoing /\ phase = "undo" /\ Alone \subseteq Paths => \A q \in Alone : Stands(q))'
  BY UndoStands, PTL
<1> QED BY <1>1

(* The manifest is undone before any file.                                      *)
LEMMA UndoOrder ==
  ASSUME Fits, NEW do, NEW p \in Paths, Doing("undo", do, p)
  PROVE  /\ p # 0 => NoStep(0) /\ ~Landed
         /\ p = 0 => \A q \in Operations : Has("undo", q)
<1>1. /\ TypeOK /\ OperationsFit /\ HalfFirst /\ Undoing /\ journal = "written"
      /\ phase = "undo" /\ Has(do, p) /\ do \in Steps
  BY NextStep DEF Fits, DirectoryFits
<1>2. 0 \in Alone /\ 0 \in Paths /\ Old(0) # "new" /\ Nothing # "new"
  BY <1>1, OperationOf, PlanFacts DEF TypeOK
<1>3. ASSUME p # 0
      PROVE  NoStep(0) /\ ~Landed
  <2>1. NoStep(0)
    BY <1>1, <1>2, <1>3, NextStep DEF PrecedesMeans, NoStep
  <2>2. Before(0)
    BY <1>1, <1>2, <2>1 DEF Undoing, UndoAlone
  <2> QED BY <1>2, <2>1, <2>2 DEF Before, Landed
<1>4. p = 0 => \A q \in Operations : Has("undo", q)
  BY <1>1 DEF Undoing, NoStep
<1> QED BY <1>3, <1>4

(* A step of one path that is undone, or half undone.                           *)
LEMMA UndoKeeps ==
  ASSUME Fits, NEW do, NEW p \in Paths, Doing("undo", do, p),
         \/ Done(do, p)
         \/ \E next \in {"undone", "restore"} : Then(do, p, next) /\ <<do, next>> \in Halves,
         UNCHANGED <<plan, op, journal, marker, check, linked, captured, installed, touched>>,
         \A q \in Paths \ {p} : Same(q),
         ok' => ok,
         capt'[p] \in {capt[p], Nothing},
         Landed' => Landed,
         p \in Alone => UndoAlone(p)',
         TypeOK', EditsAreUsed', AsideIsKnown'
  PROVE  Fits'
<1>1. /\ TypeOK /\ OperationsFit /\ DirectoryFits /\ HalfFirst /\ Undoing /\ TreeStands
      /\ phase = "undo" /\ phase' = "undo" /\ journal = "written" /\ Has(do, p) /\ do \in Steps
  BY NextStep DEF Fits, DirectoryFits, Done, Then
<1>2. /\ Paths' = Paths /\ Files' = Files /\ Alone' = Alone /\ Captures' = Captures
      /\ Installs' = Installs /\ Operations' = Operations
      /\ 0 \in Paths /\ 0 \in Alone /\ Alone \subseteq Paths /\ Operations \subseteq Files
      /\ \A q : New(q)' = New(q) /\ Old(q)' = Old(q)
  BY <1>1, World, OperationOf, PlanFacts DEF Alone, TypeOK
<1>3. HalfFirst'
  BY <1>1, HalfStays
<1>4. OperationsFit'
  <2>1. \A q \in Paths \ {p} : capt'[q] = capt[q]
    BY DEF Same
  <2> QED BY <1>1, <1>2, <2>1 DEF OperationsFit
<1>5. /\ \A q \in Paths \ {p}, e \in Steps : Has(e, q)' <=> Has(e, q)
      /\ \A e \in Steps : Has(e, p)' => (Has(e, p) /\ e # do) \/ e \in {"undone", "restore"}
      /\ OneStep(p)'
  <2>1. OneStep(p)
    BY <1>1 DEF Undoing
  <2>2. CASE Done(do, p)
    <3>1. Drops(do, p)
      BY <2>2, StepsMove
    <3> QED BY <2>1, <3>1, <1>2 DEF Drops, OneStep, Same
  <2>3. ASSUME NEW next \in {"undone", "restore"}, Then(do, p, next)
        PROVE  /\ \A e \in Steps :
                    Has(e, p)' => (Has(e, p) /\ e # do) \/ e \in {"undone", "restore"}
               /\ OneStep(p)'
    <3>1. Turns(do, p, next)
      BY <2>3, StepsMove
    <3>2. \A e \in Steps : Has(e, p)' <=> (Has(e, p) /\ e # do) \/ e = next
      BY <3>1, <1>2 DEF Turns
    <3>3. \A e \in Steps : Has(e, p) => e = do
      BY <1>1, <2>1 DEF OneStep
    <3> QED BY <3>2, <3>3 DEF OneStep
  <2>4. \A q \in Paths \ {p}, e \in Steps : Has(e, q)' <=> Has(e, q)
    BY DEF Same
  <2> QED BY <2>2, <2>3, <2>4
<1>6. Undoing'
  <2>1. ASSUME NEW e \in Steps, NEW q \in Paths, Has(e, q)'
        PROVE  e \in {"undo", "undone", "restore"} /\ q \in Operations \cup {0}
    BY <1>1, <1>5, <2>1 DEF Undoing
  <2>2. \A q \in Paths : OneStep(q)'
    <3> TAKE q \in Paths
    <3> QED BY <1>1, <1>5, SamePath DEF Undoing
  <2>3. \A q \in Alone : UndoAlone(q)'
    <3> SUFFICES ASSUME NEW q \in Alone, q # p
                 PROVE  UndoAlone(q)'
      OBVIOUS
    <3>1. UndoAlone(q) /\ Same(q)
      BY <1>1, <1>2 DEF Undoing
    <3>2. /\ (Before(q)' <=> Before(q)) /\ (Out(q)' <=> Out(q)) /\ (Placed(q)' <=> Placed(q))
          /\ (NoStep(q)' <=> NoStep(q))
      BY <3>1, SamePath
    <3>3. /\ Has("undo", q)' <=> Has("undo", q)
          /\ Has("undone", q)' <=> Has("undone", q)
          /\ Has("restore", q)' <=> Has("restore", q)
      BY <3>1 DEF Same, Steps
    <3>4. ~Has("undone", q)
      <4>1. Has("undone", q) => "undone" = do /\ q = p
        BY <1>1, <1>2, NextStep DEF HalfDone
      <4> QED BY <4>1
    <3> QED BY <3>1, <3>2, <3>3, <3>4 DEF UndoAlone
  <2>4. NoStep(0)' \/ \A q \in Operations : Has("undo", q)'
    <3>1. CASE p # 0
      BY <1>2, <3>1, UndoOrder, SamePath
    <3>2. CASE p = 0
      BY <1>2, <1>5, <3>2, UndoOrder DEF Files, Steps
    <3> QED BY <3>1, <3>2
  <2>5. ok' => \A q \in Paths : Swept(q)' /\ check'[q] = Nothing
    <3> SUFFICES ASSUME ok, NEW q \in Paths
                 PROVE  Swept(q)' /\ check'[q] = Nothing
      OBVIOUS
    <3>1. Swept(q) /\ check[q] = Nothing
      BY <1>1 DEF Undoing
    <3>2. capt'[q] \in {capt[q], Nothing}
      BY DEF Same
    <3> QED BY <1>2, <3>1, <3>2 DEF Swept
  <2> QED BY <1>1, <1>2, <2>1, <2>2, <2>3, <2>4, <2>5 DEF Undoing
<1>7. TreeStands'
  <2>1. \A q \in Alone : Stands(q)'
    BY <1>1, <1>2, <1>6, UndoStandsNext
  <2>2. ASSUME Landed'
        PROVE  /\ \A q \in Alone \ {0} : Final(q)'
               /\ \A q \in Paths : Swept(q)'
    <3>1. p = 0 /\ Landed
      BY <2>2, UndoOrder
    <3>2. \A q \in Paths \ {0} : (Final(q)' <=> Final(q)) /\ (Swept(q)' <=> Swept(q))
      BY <3>1, SamePath
    <3>3. Swept(0)'
      BY <1>1, <1>2, <3>1 DEF TreeStands, Swept
    <3> QED BY <1>1, <1>2, <3>1, <3>2, <3>3 DEF TreeStands
  <2> QED BY <1>2, <2>1, <2>2 DEF TreeStands
<1>8. DirectoryFits'
  BY <1>1 DEF DirectoryFits
<1> QED BY <1>1, <1>3, <1>4, <1>6, <1>7, <1>8 DEF Fits, Executing, RecoveryFits, Ended, Cleaning

(* Where a step of _rollback_transaction starts from.                           *)
LEMMA UndoStart ==
  ASSUME Fits, NEW do, NEW p \in Paths, Doing("undo", do, p)
  PROVE  /\ TypeOK /\ EditsAreUsed /\ OperationsFit /\ journal = "written" /\ plan \in Plans
         /\ phase = "undo" /\ Has(do, p) /\ do \in Steps
         /\ p \in Operations \cup {0}
         /\ (p \in Alone => UndoAlone(p) /\ OpFacts(p))
         /\ (p \notin Captures => capt[p] = Nothing)
         /\ (p \in captured => p \in Captures) /\ (p \in installed => p \in Installs)
         /\ (p \in installed /\ p \in Captures => p \in captured)
         /\ \A e \in Steps : Has(e, p) => e = do
         /\ ~marker \/ ~ok
         /\ ~marker /\ ok =>
              aside \cap live \subseteq stranded \cup (IF do = "undone" THEN {moved} ELSE {})
<1>1. /\ TypeOK /\ EditsAreUsed /\ OperationsFit /\ HalfFirst /\ Undoing /\ DirectoryFits
      /\ AsideIsKnown
  BY DEF Fits
<1>2. phase = "undo" /\ Has(do, p) /\ do \in Steps
      /\ \A half \in HalfDone, q \in Paths : Has(half, q) => half = do /\ q = p
  BY <1>1, NextStep
<1>3. journal = "written" /\ plan \in Plans /\ (~marker \/ ~ok)
  BY <1>1, <1>2 DEF DirectoryFits, TypeOK
<1>4. p \in Alone => UndoAlone(p) /\ OpFacts(p)
  BY <1>1, <1>2, <1>3, OperationOf DEF Undoing
<1>5. \A e \in Steps : Has(e, p) => e = do
  BY <1>1, <1>2 DEF Undoing, OneStep
<1>6. ~marker /\ ok =>
        aside \cap live \subseteq stranded \cup (IF do = "undone" THEN {moved} ELSE {})
  <2>1. ~marker /\ ok => aside \cap live \subseteq stranded \cup InHand
    BY <1>1 DEF AsideIsKnown
  <2>2. \A q \in Paths : ~Has("recovered", q) /\ (Has("undone", q) => do = "undone")
    BY <1>1, <1>2 DEF HalfDone, Undoing, Steps
  <2>3. InHand \subseteq IF do = "undone" THEN {moved} ELSE {}
    BY <2>2 DEF InHand
  <2> QED BY <2>1, <2>3
<1> QED BY <1>1, <1>2, <1>3, <1>4, <1>5, <1>6 DEF OperationsFit, Undoing

(* Undo of one operation keeps the invariant.                                 *)
LEMMA UndoFits ==
  ASSUME Fits, NEW p \in Paths, Undo(p)
  PROVE  Fits'
<1>0. Doing("undo", "undo", p)
  BY DEF Undo
<1>1. /\ TypeOK /\ EditsAreUsed /\ OperationsFit /\ journal = "written" /\ plan \in Plans
      /\ phase = "undo" /\ Has("undo", p)
      /\ (p \in Alone => UndoAlone(p) /\ OpFacts(p))
      /\ (p \notin Captures => capt[p] = Nothing)
      /\ (p \in captured => p \in Captures) /\ (p \in installed => p \in Installs)
      /\ (p \in installed /\ p \in Captures => p \in captured)
      /\ \A e \in Steps : Has(e, p) => e = "undo"
      /\ (~marker /\ ok => aside \cap live \subseteq stranded)
  BY <1>0, UndoStart
<1>2. /\ at \in [Paths -> Known] /\ capt \in [Paths -> Known] /\ check \in [Paths -> Known]
      /\ cand \in [Paths -> {"old", "new", Nothing}] /\ Nothing \in Known
      /\ moved \in Known /\ aside \subseteq Known
      /\ Nothing \notin {"old", "new"}
      /\ (p \in Alone => New(p) = "new" \/ p \notin Installs)
      /\ (p \in Alone /\ p \notin Captures /\ p \in Installs => Old(p) = Nothing)
      /\ (op[p] = "create" => p \notin Captures)
      /\ (p \in Installs => op[p] = "create" \/ p \in Captures)
  BY <1>1, PlanFacts DEF EditsAreUsed, Known, OpFacts, Captures, Installs
<1>3. /\ UNCHANGED <<plan, cand, capt, check, linked, journal, op, marker, captured, installed,
                     answer, faults>>
  BY DEF Undo
<1>4. /\ Captures' = Captures /\ Installs' = Installs /\ Alone' = Alone
      /\ New(p)' = New(p) /\ Old(p)' = Old(p) /\ Aside(p)' = Aside(p)
  BY <1>3, World DEF Alone, faults
<1>5. CASE Done("undo", p) /\ UNCHANGED <<at, aside, moved>>
           /\ (ok' = ok \/ ok' = FALSE)
           /\ (p \in Alone => p \notin installed /\ p \notin captured)
  <2>1. Drops("undo", p)
    BY <1>5, StepsMove
  <2>2. \A q \in Paths \ {p} : Same(q)
    BY <1>3, <1>5, <2>1 DEF Same, Drops
  <2>3. TypeOK' /\ EditsAreUsed'
    <3>1. todo' \subseteq [do : Steps, path : Paths] /\ phase' = phase
      BY <1>1, <1>3, <1>5, TodoStays DEF Done
    <3> QED BY <1>1, <1>2, <1>3, <1>5, <3>1, TypesStay DEF faults, TypeOK
  <2>4. p \in Alone => UndoAlone(p)'
    <3>1. NoStep(p)'
      BY <1>1, <2>1 DEF Drops, NoStep
    <3>2. p \in Alone => Before(p)'
      BY <1>1, <1>3, <1>4, <1>5 DEF UndoAlone, Before
    <3> QED BY <3>1, <3>2 DEF UndoAlone, NoStep, Steps
  <2>5. AsideIsKnown'
    BY <1>1, <1>3, <1>5 DEF AsideIsKnown, Done, faults
  <2>6. Landed' => Landed
    BY <1>3, <1>5 DEF Landed
  <2>7. ok' => ok
    BY <1>5
  <2>8. capt'[p] \in {capt[p], Nothing}
    BY <1>3
  <2> QED BY <1>0, <1>3, <1>5, <2>2, <2>3, <2>4, <2>5, <2>6, <2>7, <2>8, UndoKeeps DEF faults
<1>6. CASE p \notin installed /\ p \in captured /\ Then("undo", p, "restore")
           /\ UNCHANGED <<at, aside, moved, ok>>
  <2>1. Turns("undo", p, "restore")
    BY <1>6, StepsMove
  <2>2. \A q \in Paths \ {p} : Same(q)
    BY <1>3, <1>6, <2>1 DEF Same, Turns
  <2>3. TypeOK' /\ EditsAreUsed'
    <3>1. todo' \subseteq [do : Steps, path : Paths] /\ phase' = phase
      BY <1>1, <1>3, <1>6, TodoStays DEF Then, Steps
    <3> QED BY <1>1, <1>2, <1>3, <1>6, <3>1, TypesStay DEF faults, TypeOK
  <2>4. \A e \in Steps : Has(e, p)' <=> e = "restore"
    BY <1>1, <2>1 DEF Turns, Steps
  <2>5. p \in Alone => UndoAlone(p)'
    <3>1. p \in Alone => Out(p)'
      BY <1>1, <1>3, <1>4, <1>6 DEF UndoAlone, Out
    <3> QED BY <2>4, <3>1 DEF UndoAlone, NoStep, Steps
  <2>6. AsideIsKnown'
    BY <1>1, <1>3, <1>6 DEF AsideIsKnown, Then, faults
  <2>7. (Landed' => Landed) /\ <<"undo", "restore">> \in Halves
    BY <1>3, <1>6 DEF Landed, Halves
  <2> QED BY <1>0, <1>3, <1>6, <2>2, <2>3, <2>5, <2>6, <2>7, UndoKeeps DEF faults
<1>7. CASE /\ p \in installed /\ at[p] # Nothing
           /\ moved' = at[p] /\ aside' = aside \cup {at[p]} /\ at' = [at EXCEPT ![p] = Nothing]
           /\ Then("undo", p, "undone") /\ UNCHANGED ok
  <2>1. Turns("undo", p, "undone")
    BY <1>7, StepsMove
  <2>2. \A q \in Paths \ {p} : Same(q)
    BY <1>2, <1>3, <1>7, <2>1 DEF Same, Turns
  <2>3. TypeOK' /\ EditsAreUsed'
    <3>1. todo' \subseteq [do : Steps, path : Paths] /\ phase' = phase
      BY <1>1, <1>3, <1>7, TodoStays DEF Then, Steps
    <3>2. at' \in [Paths -> Known] /\ aside' \subseteq Known /\ moved' \in Known
      BY <1>2, <1>7
    <3> QED BY <1>1, <1>2, <1>3, <1>7, <3>1, <3>2, TypesStay DEF faults, TypeOK
  <2>4. \A e \in Steps : Has(e, p)' <=> e = "undone"
    BY <1>1, <2>1 DEF Turns, Steps
  <2>5. at'[p] = Nothing
    BY <1>2, <1>7
  <2>6. p \in Alone => UndoAlone(p)'
    <3>1. p \in Alone => Placed(p) /\ linked # p
      BY <1>1, <1>7 DEF UndoAlone
    <3>2. p \in Alone => HalfBack(p)'
      BY <1>1, <1>2, <1>3, <1>4, <1>7, <2>5, <3>1 DEF Placed, Out, Before, HalfBack, Aside
    <3> QED BY <2>4, <3>2 DEF UndoAlone, NoStep, Steps
  <2>7. AsideIsKnown'
    <3>1. moved' \in InHand'
      BY <2>4, <1>3 DEF InHand, Steps, Paths
    <3> QED BY <1>1, <1>3, <1>7, <3>1 DEF AsideIsKnown, Then, faults
  <2>8. (Landed' => Landed) /\ <<"undo", "undone">> \in Halves
    <3>1. p # 0 => at'[0] = at[0]
      BY <1>1, <1>7, PlanFacts
    <3> QED BY <1>2, <1>3, <2>5, <3>1 DEF Landed, Halves
  <2> QED BY <1>0, <1>3, <1>7, <2>2, <2>3, <2>6, <2>7, <2>8, UndoKeeps DEF faults
<1> QED
  <2>1. CASE p \notin (IF op[p] = "create" THEN installed ELSE captured)
    <3>1. Done("undo", p) /\ UNCHANGED <<at, aside, moved, ok>>
      BY <2>1 DEF Undo
    <3>2. p \notin installed /\ p \notin captured
      BY <1>1, <1>2, <2>1
    <3> QED BY <1>5, <3>1, <3>2
  <2>2. CASE p \in (IF op[p] = "create" THEN installed ELSE captured) /\ p \notin installed
    <3>1. Then("undo", p, "restore") /\ UNCHANGED <<at, aside, moved, ok>>
      BY <2>2 DEF Undo
    <3> QED BY <1>6, <2>2, <3>1
  <2>3. CASE /\ p \in (IF op[p] = "create" THEN installed ELSE captured)
             /\ p \in installed /\ at[p] = Nothing
    <3>1. Done("undo", p) /\ ok' = FALSE /\ UNCHANGED <<at, aside, moved>>
      BY <2>3 DEF Undo
    <3>2. p \notin Alone
      BY <1>1, <1>2, <2>3 DEF UndoAlone, Placed
    <3> QED BY <1>5, <3>1, <3>2
  <2>4. CASE /\ p \in (IF op[p] = "create" THEN installed ELSE captured)
             /\ p \in installed /\ at[p] # Nothing
    <3>1. /\ moved' = at[p] /\ aside' = aside \cup {at[p]} /\ at' = [at EXCEPT ![p] = Nothing]
          /\ Then("undo", p, "undone") /\ UNCHANGED ok
      BY <2>4 DEF Undo
    <3> QED BY <1>7, <2>4, <3>1
  <2> QED BY <2>1, <2>2, <2>3, <2>4

(* Undone, the look at what was moved, keeps the invariant.                   *)
LEMMA UndoneFits ==
  ASSUME Fits, NEW p \in Paths, Undone(p)
  PROVE  Fits'
<1>0. Doing("undo", "undone", p)
  BY DEF Undone
<1>1. /\ TypeOK /\ EditsAreUsed /\ OperationsFit /\ journal = "written" /\ plan \in Plans
      /\ phase = "undo" /\ Has("undone", p)
      /\ (p \in Alone => UndoAlone(p) /\ OpFacts(p))
      /\ \A e \in Steps : Has(e, p) => e = "undone"
      /\ (~marker /\ ok => aside \cap live \subseteq stranded \cup {moved})
  BY <1>0, UndoStart
<1>2. /\ at \in [Paths -> Known] /\ capt \in [Paths -> Known] /\ check \in [Paths -> Known]
      /\ cand \in [Paths -> {"old", "new", Nothing}] /\ Nothing \in Known
      /\ moved \in Known /\ aside \subseteq Known /\ 0 \in Alone /\ 0 \in Paths
      /\ New(p) \notin live
      /\ (p \in Alone /\ op[p] = "create" => p \notin Captures)
      /\ (p \in Alone /\ op[p] # "create" /\ p \in Installs => p \in Captures)
  BY <1>1, PlanFacts, OperationOf DEF EditsAreUsed, Known, OpFacts, TypeOK
<1>3. /\ UNCHANGED <<plan, cand, capt, check, linked, journal, op, marker, captured, installed,
                     answer, faults>> /\ moved' = Nothing
  BY DEF Undone
<1>4. /\ Captures' = Captures /\ Installs' = Installs /\ Alone' = Alone
      /\ New(p)' = New(p) /\ Old(p)' = Old(p)
  BY <1>3, World DEF Alone, faults
<1>5. CASE moved = New(p) /\ op[p] = "create"
  <2>0. Done("undone", p) /\ UNCHANGED <<at, aside, ok>>
    BY <1>5 DEF Undone
  <2>1. Drops("undone", p)
    BY <2>0, StepsMove
  <2>2. \A q \in Paths \ {p} : Same(q)
    BY <1>3, <2>0, <2>1 DEF Same, Drops
  <2>3. TypeOK' /\ EditsAreUsed'
    <3>1. todo' \subseteq [do : Steps, path : Paths] /\ phase' = phase
      BY <1>1, <1>3, <2>0, TodoStays DEF Done
    <3> QED BY <1>1, <1>2, <1>3, <2>0, <3>1, TypesStay DEF faults, TypeOK
  <2>4. p \in Alone => UndoAlone(p)'
    <3>1. NoStep(p)'
      BY <1>1, <2>1 DEF Drops, NoStep
    <3>2. p \in Alone => Before(p)'
      BY <1>1, <1>2, <1>3, <1>4, <1>5, <2>0 DEF UndoAlone, Before, HalfBack
    <3> QED BY <3>1, <3>2 DEF UndoAlone, NoStep, Steps
  <2>5. AsideIsKnown'
    BY <1>1, <1>2, <1>3, <1>5, <2>0 DEF AsideIsKnown, Done, faults
  <2>6. Landed' => Landed
    BY <1>3, <2>0 DEF Landed
  <2> QED BY <1>0, <1>3, <2>0, <2>2, <2>3, <2>4, <2>5, <2>6, UndoKeeps DEF faults
<1>6. CASE moved = New(p) /\ op[p] # "create"
  <2>0. Then("undone", p, "restore") /\ UNCHANGED <<at, aside, ok>>
    BY <1>6 DEF Undone
  <2>1. Turns("undone", p, "restore")
    BY <2>0, StepsMove
  <2>2. \A q \in Paths \ {p} : Same(q)
    BY <1>3, <2>0, <2>1 DEF Same, Turns
  <2>3. TypeOK' /\ EditsAreUsed'
    <3>1. todo' \subseteq [do : Steps, path : Paths] /\ phase' = phase
      BY <1>1, <1>3, <2>0, TodoStays DEF Then, Steps
    <3> QED BY <1>1, <1>2, <1>3, <2>0, <3>1, TypesStay DEF faults, TypeOK
  <2>4. \A e \in Steps : Has(e, p)' <=> e = "restore"
    BY <1>1, <2>1 DEF Turns, Steps
  <2>5. p \in Alone => UndoAlone(p)'
    <3>1. p \in Alone => Out(p)'
      BY <1>1, <1>2, <1>3, <1>4, <1>6, <2>0 DEF UndoAlone, Out, HalfBack
    <3> QED BY <2>4, <3>1 DEF UndoAlone, NoStep, Steps
  <2>6. AsideIsKnown'
    BY <1>1, <1>2, <1>3, <1>6, <2>0 DEF AsideIsKnown, Then, faults
  <2>7. (Landed' => Landed) /\ <<"undone", "restore">> \in Halves
    BY <1>3, <2>0 DEF Landed, Halves
  <2> QED BY <1>0, <1>3, <2>0, <2>2, <2>3, <2>5, <2>6, <2>7, UndoKeeps DEF faults
<1>7. CASE moved # New(p)
  <2>0. /\ Done("undone", p) /\ ok' = FALSE
        /\ \/ at[p] = Nothing /\ at' = [at EXCEPT ![p] = moved] /\ aside' = aside \ {moved}
           \/ UNCHANGED <<at, aside>>
    BY <1>7 DEF Undone
  <2>1. Drops("undone", p)
    BY <2>0, StepsMove
  <2>2. p \notin Alone /\ p # 0
    BY <1>1, <1>2, <1>7 DEF UndoAlone, HalfBack
  <2>3. \A q \in Paths \ {p} : at'[q] = at[q]
    BY <1>2, <2>0
  <2>4. \A q \in Paths \ {p} : Same(q)
    BY <1>3, <2>1, <2>3 DEF Same, Drops
  <2>5. TypeOK' /\ EditsAreUsed'
    <3>1. todo' \subseteq [do : Steps, path : Paths] /\ phase' = phase
      BY <1>1, <1>3, <2>0, TodoStays DEF Done
    <3>2. at' \in [Paths -> Known] /\ aside' \subseteq Known
      BY <1>2, <2>0
    <3> QED BY <1>1, <1>2, <1>3, <2>0, <3>1, <3>2, TypesStay DEF faults, TypeOK
  <2>6. AsideIsKnown'
    BY <1>1, <2>0 DEF AsideIsKnown, Done
  <2>7. Landed' => Landed
    BY <1>2, <1>3, <2>2, <2>3 DEF Landed
  <2> QED BY <1>0, <1>3, <2>0, <2>2, <2>4, <2>5, <2>6, <2>7, UndoKeeps DEF faults
<1> QED BY <1>5, <1>6, <1>7

(* Restore of a capture keeps the invariant.                                  *)
LEMMA RestoreFits ==
  ASSUME Fits, NEW p \in Paths, Restore(p)
  PROVE  Fits'
<1>0. Doing("undo", "restore", p)
  BY DEF Restore
<1>1. /\ TypeOK /\ EditsAreUsed /\ OperationsFit /\ journal = "written" /\ plan \in Plans
      /\ phase = "undo" /\ Has("restore", p)
      /\ (p \in Alone => UndoAlone(p))
      /\ \A e \in Steps : Has(e, p) => e = "restore"
      /\ (~marker /\ ok => aside \cap live \subseteq stranded)
  BY <1>0, UndoStart
<1>2. /\ at \in [Paths -> Known] /\ capt \in [Paths -> Known] /\ check \in [Paths -> Known]
      /\ cand \in [Paths -> {"old", "new", Nothing}] /\ Nothing \in Known
      /\ moved \in Known /\ aside \subseteq Known /\ 0 \in Alone /\ 0 \in Paths
      /\ Old(0) # "new" /\ (p \in Alone => Out(p))
  BY <1>1, PlanFacts, OperationOf DEF EditsAreUsed, Known, UndoAlone
<1>3. /\ UNCHANGED <<plan, cand, check, linked, aside, journal, op, marker, captured,
                     installed, moved, answer, faults>>
      /\ Done("restore", p)
  BY DEF Restore
<1>4. /\ Captures' = Captures /\ Installs' = Installs /\ Alone' = Alone
      /\ New(p)' = New(p) /\ Old(p)' = Old(p)
  BY <1>3, World DEF Alone, faults
<1>5. \/ /\ at[p] = Nothing /\ at' = [at EXCEPT ![p] = capt[p]]
         /\ capt' = [capt EXCEPT ![p] = Nothing] /\ ok' = ok
      \/ at[p] # Nothing /\ ok' = FALSE /\ UNCHANGED <<at, capt>>
  BY DEF Restore
<1>6. Drops("restore", p)
  BY <1>3, StepsMove
<1>7. \A q \in Paths \ {p} : at'[q] = at[q] /\ capt'[q] = capt[q]
  BY <1>2, <1>5
<1>8. \A q \in Paths \ {p} : Same(q)
  BY <1>3, <1>6, <1>7 DEF Same, Drops
<1>9. TypeOK' /\ EditsAreUsed'
  <2>1. todo' \subseteq [do : Steps, path : Paths] /\ phase' = phase
    BY <1>1, <1>3, TodoStays DEF Done
  <2>2. at' \in [Paths -> Known] /\ capt' \in [Paths -> Known] /\ ok' \in BOOLEAN
    BY <1>1, <1>2, <1>5 DEF TypeOK
  <2> QED BY <1>1, <1>2, <1>3, <2>1, <2>2, TypesStay DEF faults, TypeOK
<1>10. /\ capt'[p] \in {capt[p], Nothing}
       /\ (p \in Alone => at'[p] = Old(p) /\ capt'[p] = Nothing)
       /\ (ok' => ok)
  BY <1>1, <1>2, <1>5 DEF Out, TypeOK
<1>11. p \in Alone => UndoAlone(p)'
  <2>1. NoStep(p)'
    BY <1>1, <1>6 DEF Drops, NoStep
  <2>2. p \in Alone => Before(p)'
    BY <1>2, <1>3, <1>4, <1>10 DEF Before, Out
  <2> QED BY <2>1, <2>2 DEF UndoAlone, NoStep, Steps
<1>12. AsideIsKnown'
  BY <1>1, <1>3, <1>10 DEF AsideIsKnown, Done, faults
<1>13. Landed' => Landed
  BY <1>2, <1>3, <1>7, <1>10 DEF Landed
<1> QED BY <1>0, <1>3, <1>8, <1>9, <1>10, <1>11, <1>12, <1>13, UndoKeeps DEF faults

(* Everything is undone: the tree is the predecessor's.                         *)
LEMMA UndoneMeans ==
  ASSUME Fits, phase = "undo", todo = {}
  PROVE  AllBefore
<1>1. /\ TypeOK /\ OperationsFit /\ Undoing /\ journal = "written"
  BY DEF Fits, DirectoryFits
<1>2. 0 \in Alone /\ Old(0) # "new" /\ Nothing # "new"
  BY <1>1, OperationOf, PlanFacts DEF TypeOK
<1>3. \A q \in Alone : Before(q)
  BY <1>1 DEF Undoing, UndoAlone, NoStep, Has
<1> QED BY <1>2, <1>3 DEF AllBefore, Landed, Before

(* The end of an undo keeps the invariant.                                    *)
LEMMA UndoEndsFits ==
  ASSUME Fits, UndoEnds
  PROVE  Fits'
<1>1. /\ TypeOK /\ EditsAreUsed /\ OperationsFit /\ Undoing /\ TreeStands /\ DirectoryFits
      /\ AsideIsKnown
      /\ phase = "undo" /\ todo = {} /\ journal = "written" /\ AllBefore /\ 0 \in Alone
  BY UndoneMeans, OperationOf DEF Fits, UndoEnds, DirectoryFits
<1>2. UNCHANGED <<plan, at, cand, capt, check, linked, aside, journal, op, faults>>
      /\ todo' = {}
  BY <1>1 DEF UndoEnds, Forget
<1>3. /\ TreeStands' /\ AllBefore' /\ Paths' = Paths /\ Captures' = Captures
      /\ Installs' = Installs /\ Alone' = Alone /\ \A q : Swept(q)' <=> Swept(q)
  BY <1>1, <1>2, TreeSame DEF faults
<1>4. OperationsFit' /\ EditsAreUsed' /\ HalfFirst'
  <2>1. Known' = Known
    BY <1>2 DEF Known, faults
  <2>2. moved' \in Known
    BY <1>1 DEF UndoEnds, Forget, EditsAreUsed, Known
  <2> QED BY <1>1, <1>2, <1>3, <2>1, <2>2 DEF OperationsFit, EditsAreUsed, HalfFirst, Has
<1>5. CASE ok
  <2>1. phase' = "failed" /\ UNCHANGED <<marker, answer, todo, captured, installed, moved, ok>>
    BY <1>5 DEF UndoEnds
  <2>2. TypeOK'
    BY <1>1, <1>2, <1>3, <2>1 DEF TypeOK, faults, Files, Contents
  <2>3. DirectoryFits'
    BY <1>1, <1>2, <1>5, <2>1 DEF DirectoryFits
  <2>4. Ended'
    BY <1>1, <1>2, <1>3, <1>5, <2>1 DEF Ended, Undoing, AllBefore, Before
  <2>5. AsideIsKnown'
    BY <1>1, <1>2, <1>5, <2>1 DEF AsideIsKnown, InHand, Has, faults
  <2> QED BY <1>3, <1>4, <2>1, <2>2, <2>3, <2>4, <2>5
          DEF Fits, Executing, Undoing, RecoveryFits
<1>6. CASE ~ok
  <2>1. /\ phase' = "idle" /\ marker' = TRUE /\ answer' = "failed"
        /\ captured' = {} /\ installed' = {} /\ moved' = Nothing /\ ok' = TRUE
    BY <1>6 DEF UndoEnds, Forget
  <2>2. TypeOK'
    BY <1>1, <1>2, <1>3, <2>1 DEF TypeOK, faults, Files, Contents
  <2>3. DirectoryFits'
    BY <1>1, <1>2, <2>1 DEF DirectoryFits
  <2>4. AsideIsKnown'
    BY <2>1 DEF AsideIsKnown
  <2> QED BY <1>3, <1>4, <2>1, <2>2, <2>3, <2>4
          DEF Fits, Executing, Undoing, RecoveryFits, Ended, Cleaning
<1> QED BY <1>5, <1>6

--------------------------------------------------------------------------------
(* Steps around a publication *)

(* The invariant holds of the predecessor's tree.                             *)
LEMMA InitFits ==
  ASSUME Init
  PROVE  Fits /\ UserBytesKept
<1>1. /\ plan \in Plans /\ 0 \in Paths /\ Nothing \notin Paths
      /\ \A p \in Paths : Old(p) \in {"old", Nothing}
      /\ Nothing \notin {"old", "new"} /\ MaxCrashes \in Nat
  BY PlanFacts, PlanAssumption DEF Init, PlanAssumption
<1>2. TypeOK
  <2>1. at \in [Paths -> Contents]
    BY <1>1 DEF Init, Contents
  <2>2. cand \in [Paths -> Contents] /\ capt = cand /\ check = cand
    BY DEF Init, Contents
  <2>3. op \in [Paths -> Kinds \cup {"skip"}] /\ crashes \in 0..MaxCrashes
    BY <1>1 DEF Init
  <2>4. \A slots \in {at, cand, capt, check} : slots \in [Paths -> Contents]
    BY <2>1, <2>2
  <2> QED BY <1>1, <2>3, <2>4 DEF Init, TypeOK, Contents
<1>3. EditsAreUsed
  BY <1>1 DEF Init, EditsAreUsed, Known
<1>4. Blank /\ AllBefore /\ \A p \in Paths : Before(p)
  BY <1>1 DEF Init, Blank, AllBefore, Landed, Before, Alone
<1>5. TreeStands
  BY <1>1, <1>4 DEF TreeStands, AllBefore, Stands, Alone
<1>6. DirectoryFits /\ OperationsFit
  BY <1>4 DEF Init, DirectoryFits, OperationsFit
<1>7. HalfFirst /\ Executing /\ Undoing /\ RecoveryFits /\ Ended
  BY DEF Init, HalfFirst, Has, Executing, Undoing, RecoveryFits, Ended, Cleaning
<1>8. AsideIsKnown /\ UserBytesKept
  BY DEF Init, AsideIsKnown, UserBytesKept
<1> QED BY <1>2, <1>3, <1>5, <1>6, <1>7, <1>8 DEF Fits

(* What is planned for a path no user touched is what the plan says.            *)
LEMMA PublishFits ==
  ASSUME Fits, Publish
  PROVE  Fits'
<1>1. /\ TypeOK /\ EditsAreUsed /\ TreeStands /\ AsideIsKnown /\ DirectoryFits
      /\ phase = "idle" /\ journal = "none" /\ at[0] = Old(0) /\ Blank /\ plan \in Plans
      /\ todo = {}
  BY DEF Fits, Publish, DirectoryFits, TypeOK
<1>2. /\ op' = [p \in Paths |-> Planned(p)] /\ journal' = "partial" /\ phase' = "prepare"
      /\ UNCHANGED <<plan, at, cand, capt, check, linked, aside, marker, todo, captured,
                     installed, moved, ok, answer, faults>>
  BY DEF Publish
<1>3. /\ Paths' = Paths /\ Files' = Files /\ Alone' = Alone /\ Alone \subseteq Paths
      /\ \A q : New(q)' = New(q) /\ Old(q)' = Old(q)
  BY <1>2, World DEF Alone, faults
<1>4. /\ 0 \in Paths /\ 0 \in Alone /\ plan \in [Paths -> Kinds] /\ New(0) = "new"
      /\ plan[0] \in {"create", "replace"} /\ Nothing \notin {"old", "new"}
      /\ Old(0) # "new" /\ Files = Paths \ {0}
  BY <1>1, PlanFacts DEF Alone, TypeOK, Files
<1>5. ~Landed
  BY <1>1, <1>4 DEF Landed, Blank
<1>6. AllBefore
  BY <1>1, <1>5 DEF DirectoryFits
<1>7. \A p \in Paths : Planned(p) \in Kinds \cup {"skip"}
  <2> TAKE p \in Paths
  <2>1. plan[p] \in Kinds
    BY <1>4
  <2>2. CASE p = 0 \/ plan[p] = "create"
    BY <2>1, <2>2 DEF Planned
  <2>3. CASE ~(p = 0 \/ plan[p] = "create")
    BY <2>1, <2>3 DEF Planned, Kinds
  <2> QED BY <2>2, <2>3
<1>8. \A p \in Alone : Planned(p) = IF plan[p] = "keep" THEN "skip" ELSE plan[p]
  <2> TAKE p \in Alone
  <2>1. at[p] = Old(p) /\ p \in Paths /\ plan[p] \in Kinds
    BY <1>3, <1>4, <1>6 DEF AllBefore, Before
  <2>2. CASE p = 0 \/ plan[p] = "create"
    BY <1>4, <2>1, <2>2 DEF Planned
  <2>3. CASE ~(p = 0 \/ plan[p] = "create")
    BY <1>4, <2>1, <2>3 DEF Planned, Kinds, Old
  <2> QED BY <2>2, <2>3
<1>9. OperationsFit'
  BY <1>1, <1>2, <1>3, <1>8 DEF OperationsFit, Blank
<1>10. Landed' <=> Landed
  BY <1>2 DEF Landed
<1>11. \A p : Before(p)' <=> Before(p)
  BY <1>2, <1>3 DEF Before
<1>12. AllBefore' /\ TreeStands'
  BY <1>3, <1>4, <1>5, <1>6, <1>10, <1>11 DEF AllBefore, TreeStands, Stands
<1>13. DirectoryFits'
  BY <1>1, <1>2, <1>3, <1>12 DEF DirectoryFits, Blank
<1>14. EditsAreUsed' /\ TypeOK'
  <2>1. Known' = Known
    BY <1>2 DEF Known, faults
  <2> QED BY <1>1, <1>2, <1>3, <1>7, <2>1 DEF EditsAreUsed, TypeOK, faults
<1>15. AsideIsKnown' /\ HalfFirst'
  BY <1>1, <1>2 DEF AsideIsKnown, Blank, HalfFirst, Has
<1> QED BY <1>2, <1>9, <1>12, <1>13, <1>14, <1>15
        DEF Fits, Executing, Undoing, RecoveryFits, Ended, Cleaning

(* A preparation that fails keeps the invariant.                              *)
LEMMA PrepareFailsFits ==
  ASSUME Fits, PrepareFails
  PROVE  Fits'
<1>1. /\ TypeOK /\ EditsAreUsed /\ TreeStands /\ AsideIsKnown /\ DirectoryFits
      /\ phase = "prepare" /\ Blank /\ AllBefore /\ todo = {}
  BY DEF Fits, PrepareFails, DirectoryFits
<1>2. /\ phase' = "idle" /\ journal' = "none" /\ answer' = "failed"
      /\ UNCHANGED <<plan, at, cand, capt, check, linked, aside, op, marker, todo,
                     captured, installed, moved, ok, faults>>
  BY DEF PrepareFails
<1>3. /\ TreeStands' /\ AllBefore' /\ Paths' = Paths /\ Files' = Files
  BY <1>1, <1>2, TreeSame, World DEF faults
<1>4. EditsAreUsed' /\ TypeOK'
  <2>1. Known' = Known
    BY <1>2 DEF Known, faults
  <2> QED BY <1>1, <1>2, <1>3, <2>1 DEF EditsAreUsed, TypeOK, faults
<1>5. DirectoryFits' /\ OperationsFit' /\ AsideIsKnown' /\ HalfFirst'
  BY <1>1, <1>2, <1>3 DEF DirectoryFits, OperationsFit, Blank, AsideIsKnown, HalfFirst, Has
<1> QED BY <1>2, <1>3, <1>4, <1>5 DEF Fits, Executing, Undoing, RecoveryFits, Ended, Cleaning

(* The captures and the candidates are thrown away, or some of them are.        *)
LEMMA SweepsKeep ==
  ASSUME Fits, Cleaning, UNCHANGED <<plan, at, op, touched>>, linked' \in {linked, Nothing},
         \A p \in Paths : capt'[p] \in {capt[p], Nothing} /\ check'[p] = Nothing
  PROVE  /\ TreeStands' /\ (Landed' <=> Landed)
         /\ AllBefore' \/ (Landed' /\ Final(0)')
         /\ \A p \in Paths : Swept(p)'
<1>1. /\ TypeOK /\ TreeStands /\ Ended /\ plan \in Plans
      /\ \A p \in Paths : Swept(p) /\ check[p] = Nothing
      /\ linked # 0 /\ (Landed \/ AllBefore)
  BY DEF Fits, Ended, Cleaning, TypeOK
<1>2. /\ Paths' = Paths /\ Alone' = Alone /\ Alone \subseteq Paths /\ 0 \in Paths /\ 0 \in Alone
      /\ \A q : New(q)' = New(q) /\ Old(q)' = Old(q)
      /\ New(0) = "new" /\ Nothing # "new" /\ Nothing \notin Paths
  BY <1>1, World, PlanFacts DEF Alone, TypeOK, Files
<1>3. Landed' <=> Landed
  BY <1>1, <1>2 DEF Landed
<1>4. \A p \in Paths : Swept(p)'
  BY <1>1, <1>2 DEF Swept
<1>5. CASE Landed
  <2>1. at[0] = New(0) /\ capt'[0] \in {Old(0), Nothing} /\ check'[0] = Nothing
    BY <1>1, <1>2, <1>5 DEF Landed, Swept
  <2>2. \A p \in Alone : Final(p) => Final(p)'
    BY <1>1, <1>2 DEF Final
  <2>3. Final(0)'
    BY <1>1, <1>2, <2>1 DEF Final
  <2> QED BY <1>1, <1>2, <1>3, <1>4, <1>5, <2>1, <2>2, <2>3 DEF TreeStands
<1>6. CASE ~Landed
  <2>1. \A p \in Alone : Before(p)'
    BY <1>1, <1>2, <1>6 DEF AllBefore, Before
  <2> QED BY <1>2, <1>3, <1>4, <1>6, <2>1 DEF TreeStands, AllBefore, Stands
<1> QED BY <1>3, <1>4, <1>5, <1>6

(* The removal of the transaction directory keeps the invariant.              *)
LEMMA CleanupFits ==
  ASSUME Fits, Cleanup
  PROVE  Fits'
<1>1. /\ TypeOK /\ EditsAreUsed /\ DirectoryFits /\ Cleaning /\ Ended
  BY DEF Fits, Cleanup
<1>2. /\ cand' = [p \in Paths |-> Nothing] /\ capt' = cand' /\ check' = cand'
      /\ linked' = Nothing /\ aside' = {} /\ journal' = "none" /\ marker' = FALSE
      /\ phase' = "idle" /\ todo' = {} /\ captured' = {} /\ installed' = {}
      /\ moved' = Nothing /\ ok' = TRUE
      /\ answer' = IF phase = "recovered" THEN answer ELSE phase
      /\ UNCHANGED <<plan, at, op, faults>>
  BY DEF Cleanup, Forget
<1>3. Paths' = Paths /\ Files' = Files
  BY <1>2, World
<1>4. TreeStands' /\ (AllBefore' \/ (Landed' /\ Final(0)'))
  BY <1>1, <1>2, SweepsKeep DEF faults
<1>5. EditsAreUsed' /\ TypeOK'
  <2>1. Known' = Known /\ Nothing \in Known
    BY <1>2 DEF Known, faults
  <2>2. answer' \in {"none", "published", "failed"}
    BY <1>1, <1>2 DEF TypeOK, Cleaning
  <2>3. cand' \in [Paths -> Contents] /\ Nothing \in Contents
    BY <1>2 DEF Contents
  <2> QED BY <1>1, <1>2, <1>3, <2>1, <2>2, <2>3 DEF EditsAreUsed, TypeOK, faults
<1>6. DirectoryFits' /\ OperationsFit' /\ AsideIsKnown' /\ HalfFirst'
  BY <1>2, <1>3, <1>4 DEF DirectoryFits, OperationsFit, Blank, AsideIsKnown, HalfFirst, Has
<1> QED BY <1>2, <1>4, <1>5, <1>6 DEF Fits, Executing, Undoing, RecoveryFits, Ended, Cleaning

(* A crash within that removal keeps the invariant.                           *)
LEMMA CleanupCrashesFits ==
  ASSUME Fits, CleanupCrashes
  PROVE  Fits'
<1>1. /\ TypeOK /\ EditsAreUsed /\ DirectoryFits /\ OperationsFit /\ Cleaning /\ Ended
      /\ crashes < MaxCrashes /\ MaxCrashes \in Nat /\ crashes' = crashes + 1
      /\ journal = "written" /\ ~marker
  BY PlanAssumption DEF Fits, CleanupCrashes, DirectoryFits, Cleaning, PlanAssumption
<1>2. PICK news \in SUBSET Paths, olds \in SUBSET Paths, swept \in BOOLEAN :
        /\ cand' = [p \in Paths |-> IF p \in news THEN Nothing ELSE cand[p]]
        /\ capt' = [p \in Paths |-> IF p \in olds THEN Nothing ELSE capt[p]]
        /\ journal' = IF swept THEN "partial" ELSE journal
  BY DEF CleanupCrashes
<1>3. /\ linked' = (IF linked # Nothing /\ cand'[linked] = Nothing THEN Nothing ELSE linked)
      /\ phase' = "idle" /\ todo' = {} /\ captured' = {} /\ installed' = {}
      /\ moved' = Nothing /\ ok' = TRUE /\ stranded' = stranded \cup (live \cap aside)
      /\ UNCHANGED <<plan, at, check, aside, op, marker, answer, used, live, touched>>
  BY <1>1 DEF CleanupCrashes, Forget, Strand
<1>4. /\ Paths' = Paths /\ Files' = Files /\ Captures' = Captures /\ Installs' = Installs
      /\ Alone' = Alone
  BY <1>3, World DEF Alone
<1>5. \A p \in Paths : capt'[p] \in {capt[p], Nothing} /\ check'[p] = Nothing
  BY <1>1, <1>2, <1>3 DEF Ended, Cleaning
<1>6. TreeStands' /\ (AllBefore' \/ (Landed' /\ Final(0)'))
  BY <1>1, <1>3, <1>5, SweepsKeep
<1>7. EditsAreUsed' /\ TypeOK'
  <2>1. Known' = Known /\ Nothing \in Known /\ Known \subseteq Contents
    BY <1>1, <1>3 DEF Known, Contents, TypeOK
  <2>2. capt' \in [Paths -> Known] /\ cand' \in [Paths -> {"old", "new", Nothing}]
    BY <1>1, <1>2, <2>1 DEF EditsAreUsed
  <2>3. capt' \in [Paths -> Contents] /\ cand' \in [Paths -> Contents]
    BY <2>1, <2>2 DEF Contents
  <2>4. EditsAreUsed'
    BY <1>1, <1>3, <1>4, <2>1, <2>2 DEF EditsAreUsed
  <2>5. /\ journal' \in {"none", "partial", "written"} /\ crashes' \in 0..MaxCrashes
        /\ linked' \in Paths \cup {Nothing} /\ stranded' \subseteq used
    BY <1>1, <1>2, <1>3 DEF TypeOK
  <2>6. /\ todo' \subseteq [do : Steps, path : Paths] /\ captured' \subseteq Paths
        /\ installed' \subseteq Paths /\ ok' \in BOOLEAN /\ moved' \in Contents
        /\ phase' = "idle"
    BY <1>3, <2>1
  <2>7. TypeOK'
    BY <1>1, <1>3, <1>4, <2>3, <2>5, <2>6 DEF TypeOK
  <2> QED BY <2>4, <2>7
<1>8. OperationsFit'
  BY <1>1, <1>2, <1>3, <1>4, <1>5 DEF OperationsFit
<1>9. DirectoryFits'
  BY <1>1, <1>2, <1>3, <1>6 DEF DirectoryFits
<1>10. AsideIsKnown' /\ HalfFirst'
  BY <1>3 DEF AsideIsKnown, HalfFirst, Has
<1> QED BY <1>3, <1>6, <1>7, <1>8, <1>9, <1>10
        DEF Fits, Executing, Undoing, RecoveryFits, Ended, Cleaning

(* A crash of the publisher keeps the invariant.                              *)
LEMMA CrashFits ==
  ASSUME Fits, Crash
  PROVE  Fits'
<1>1. /\ TypeOK /\ EditsAreUsed /\ DirectoryFits /\ OperationsFit /\ TreeStands /\ AsideIsKnown
      /\ phase # "idle" /\ ~Cleaning
      /\ crashes < MaxCrashes /\ MaxCrashes \in Nat /\ crashes' = crashes + 1
  BY PlanAssumption DEF Fits, Crash, PlanAssumption
<1>2. /\ phase' = "idle" /\ todo' = {} /\ captured' = {} /\ installed' = {}
      /\ moved' = Nothing /\ ok' = TRUE
      /\ stranded' = stranded \cup (IF marker THEN {} ELSE live \cap aside)
      /\ UNCHANGED <<plan, disk, answer, used, live, touched>>
  BY DEF Crash, Forget, Strand
<1>3. /\ TreeStands' /\ OperationsFit' /\ (AllBefore' <=> AllBefore) /\ Paths' = Paths
      /\ Files' = Files
  BY <1>1, <1>2, DiskSame, World
<1>4. EditsAreUsed' /\ TypeOK'
  <2>1. Known' = Known /\ Nothing \in Known /\ Known \subseteq Contents
    BY <1>1, <1>2 DEF Known, Contents, TypeOK
  <2> QED BY <1>1, <1>2, <1>3, <2>1 DEF EditsAreUsed, TypeOK, disk
<1>5. DirectoryFits'
  BY <1>1, <1>2, <1>3 DEF DirectoryFits, disk
<1>6. AsideIsKnown' /\ HalfFirst'
  BY <1>2 DEF AsideIsKnown, HalfFirst, Has, disk
<1> QED BY <1>2, <1>3, <1>4, <1>5, <1>6
        DEF Fits, Executing, Undoing, RecoveryFits, Ended, Cleaning

--------------------------------------------------------------------------------
(* The users *)

(* Whatever a user does to a file, the publisher's slots are as they were.      *)
LEMMA UserFits ==
  ASSUME Fits, NEW p \in Files, NEW e \in Edits, Displaces(p, e),
         \E bytes \in {e, Nothing} : at' = [at EXCEPT ![p] = bytes],
         live' \subseteq live \cup {e},
         UNCHANGED <<plan, cand, capt, check, aside, journal, op, marker, memory, answer,
                     crashes, stranded>>
  PROVE  Fits'
<1>1. /\ TypeOK /\ EditsAreUsed /\ DirectoryFits /\ OperationsFit /\ TreeStands /\ AsideIsKnown
      /\ HalfFirst /\ Executing /\ Undoing /\ RecoveryFits /\ Ended /\ plan \in Plans
  BY DEF Fits, TypeOK
<1>2. /\ e \in Edits \ used /\ used' = used \cup {e} /\ touched' = touched \cup {p}
      /\ linked' = IF linked = p THEN Nothing ELSE linked
      /\ p \in Paths /\ p # 0
      /\ UNCHANGED <<phase, todo, captured, installed, moved, ok>>
  BY DEF Displaces, Files, memory
<1>3. /\ Paths' = Paths /\ Files' = Files /\ Captures' = Captures /\ Installs' = Installs
      /\ Operations' = Operations /\ Alone' = Alone \ {p} /\ 0 \in Alone' /\ 0 \in Paths
      /\ \A q : New(q)' = New(q) /\ Old(q)' = Old(q)
      /\ Nothing \notin Paths /\ Alone \subseteq Paths
      /\ e \notin {"old", "new", Nothing}
  BY <1>1, <1>2, World, PlanFacts DEF Alone, TypeOK, Files
<1>4. /\ \A q \in Paths \ {p} : at'[q] = at[q] /\ (linked' = q <=> linked = q)
      /\ linked' # p /\ linked' \in {linked, Nothing}
  BY <1>1, <1>2, <1>3 DEF TypeOK
<1>5. \A q \in Paths \ {p} : Same(q)
  BY <1>2, <1>4 DEF Same, Has
<1>6. Landed' <=> Landed
  BY <1>2, <1>3, <1>4 DEF Landed
<1>7. \A q \in Paths : Swept(q)' <=> Swept(q)
  BY <1>3 DEF Swept
<1>8. TreeStands'
  <2>1. \A q \in Alone' : (Stands(q)' <=> Stands(q)) /\ (Final(q)' <=> Final(q))
    BY <1>3, <1>5, SamePath
  <2>2. at'[0] = at[0] /\ capt' = capt /\ check' = check
    BY <1>2, <1>3, <1>4
  <2> QED BY <1>1, <1>3, <1>6, <1>7, <2>1, <2>2 DEF TreeStands
<1>9. AllBefore => AllBefore'
  BY <1>3, <1>5, <1>6, SamePath DEF AllBefore
<1>10. DirectoryFits'
  <2>1. Blank => Blank'
    BY <1>3, <1>4 DEF Blank
  <2>2. Final(0)' <=> Final(0)
    BY <1>2, <1>3, <1>5, SamePath
  <2> QED BY <1>1, <1>2, <1>6, <1>9, <2>1, <2>2 DEF DirectoryFits
<1>11. OperationsFit'
  BY <1>1, <1>3 DEF OperationsFit
<1>12. EditsAreUsed' /\ TypeOK'
  <2>1. Known' = Known \cup {e} /\ Known \subseteq Contents /\ e \in Contents /\ Nothing \in Known
    BY <1>1, <1>2 DEF Known, Contents, TypeOK
  <2>2. at' \in [Paths -> Known \cup {e}]
    BY <1>1, <2>1 DEF EditsAreUsed
  <2>3. EditsAreUsed'
    BY <1>1, <1>2, <1>3, <2>1, <2>2 DEF EditsAreUsed
  <2>4. at' \in [Paths -> Contents]
    BY <2>1, <2>2
  <2>5. TypeOK'
    BY <1>1, <1>2, <1>3, <1>4, <2>4 DEF TypeOK
  <2> QED BY <2>3, <2>5
<1>13. HalfFirst'
  BY <1>1, <1>2, <1>3 DEF HalfFirst, Has, Precedes
<1>14. Executing'
  <2>1. ASSUME phase = "exec", NEW q \in Paths
        PROVE  ExecSteps(q)' /\ ExecSlots(q)'
    <3>1. ExecSteps(q) /\ ExecSlots(q)
      BY <1>1, <2>1 DEF Executing
    <3>2. CASE q # p
      BY <3>1, <3>2, <1>5, SamePath
    <3>3. CASE q = p
      <4>1. \A do : Has(do, q)' <=> Has(do, q)
        BY <1>2 DEF Has
      <4>2. linked' # q
        BY <1>4, <3>3
      <4>3. ExecSteps(q)'
        BY <1>3, <3>1, <4>1 DEF ExecSteps
      <4> QED BY <1>2, <1>3, <3>1, <4>1, <4>2, <4>3 DEF ExecSlots
    <3> QED BY <3>2, <3>3
  <2>2. ASSUME phase = "exec", NEW q \in Alone'
        PROVE  ExecAlone(q)'
    BY <1>1, <1>3, <1>5, <2>2, SamePath DEF Executing
  <2>3. (ManifestIsLast' <=> ManifestIsLast) /\ (Has("commit", 0)' <=> Has("commit", 0))
    BY <1>2, <1>3 DEF ManifestIsLast, NoStep, Has
  <2> QED BY <1>1, <1>2, <1>3, <2>1, <2>2, <2>3 DEF Executing
<1>15. Undoing'
  <2>1. ASSUME phase = "undo", NEW q \in Alone'
        PROVE  UndoAlone(q)'
    <3>1. UndoAlone(q) /\ q \in Paths \ {p}
      BY <1>1, <1>3, <2>1 DEF Undoing
    <3>2. /\ (Before(q)' <=> Before(q)) /\ (Out(q)' <=> Out(q)) /\ (Placed(q)' <=> Placed(q))
          /\ (NoStep(q)' <=> NoStep(q)) /\ (linked' = q <=> linked = q)
      BY <1>4, <1>5, <3>1, SamePath
    <3>3. \A do : Has(do, q)' <=> Has(do, q)
      BY <1>2 DEF Has
    <3> QED BY <1>2, <1>3, <3>1, <3>2, <3>3 DEF UndoAlone, HalfBack
  <2>2. \A do, q : Has(do, q)' <=> Has(do, q)
    BY <1>2 DEF Has
  <2>3. \A q : (OneStep(q)' <=> OneStep(q)) /\ (NoStep(q)' <=> NoStep(q))
    BY <2>2 DEF OneStep, NoStep
  <2> QED BY <1>1, <1>2, <1>3, <1>7, <2>1, <2>2, <2>3 DEF Undoing
<1>16. RecoveryFits'
  <2>1. ASSUME TakingBack
        PROVE  TakingBack'
    <3>1. ASSUME NEW q \in Alone' \ {0}
          PROVE  RecoverAlone(q)'
      <4>1. RecoverAlone(q) /\ q \in Paths \ {p}
        BY <1>3, <2>1, <3>1 DEF TakingBack
      <4>2. /\ (Before(q)' <=> Before(q)) /\ (Out(q)' <=> Out(q)) /\ (Placed(q)' <=> Placed(q))
            /\ (NoStep(q)' <=> NoStep(q)) /\ (linked' = q <=> linked = q)
        BY <1>4, <1>5, <4>1, SamePath
      <4>3. \A do : Has(do, q)' <=> Has(do, q)
        BY <1>2 DEF Has
      <4> QED BY <1>2, <1>3, <4>1, <4>2, <4>3 DEF RecoverAlone, HalfBack
    <3>2. \A do, q : Has(do, q)' <=> Has(do, q)
      BY <1>2 DEF Has
    <3>3. \A q : OneStep(q)' <=> OneStep(q)
      BY <3>2 DEF OneStep
    <3>4. (Before(0)' <=> Before(0)) /\ (Out(0)' <=> Out(0))
      BY <1>2, <1>3, <1>5, SamePath
    <3>5. Operations \subseteq Paths
      BY DEF Operations, Files
    <3> QED BY <1>3, <1>6, <1>7, <2>1, <3>1, <3>2, <3>3, <3>4, <3>5 DEF TakingBack
  <2> QED BY <1>1, <1>2, <2>1 DEF RecoveryFits
<1>17. Ended'
  BY <1>1, <1>2, <1>3, <1>4, <1>6, <1>7, <1>9 DEF Ended, Cleaning
<1>18. AsideIsKnown'
  <2>1. InHand' = InHand
    BY <1>2, <1>3 DEF InHand, Has
  <2>2. e \notin aside
    BY <1>1, <1>2, <1>3 DEF EditsAreUsed, Known
  <2> QED BY <1>1, <1>2, <2>1, <2>2 DEF AsideIsKnown
<1> QED BY <1>8, <1>10, <1>11, <1>12, <1>13, <1>14, <1>15, <1>16, <1>17, <1>18 DEF Fits

--------------------------------------------------------------------------------
(* Steps of recovery *)

(* The step of a recovery that looks at the manifest, or takes back a file.     *)
LEMMA RecoverStart ==
  ASSUME Fits, NEW do, NEW p \in Paths, Doing("recover", do, p)
  PROVE  /\ TypeOK /\ EditsAreUsed /\ OperationsFit /\ TreeStands
         /\ phase = "recover" /\ journal = "written" /\ plan \in Plans /\ ~marker
         /\ Has(do, p) /\ do \in Steps
         /\ (p \notin Captures => capt[p] = Nothing)
         /\ \/ do = "recover" /\ p = 0 /\ todo = {Step("recover", 0)}
            \/ p = 0 /\ do = "finish" /\ TakingBack
            \/ /\ p # 0 /\ p \in Operations /\ do \in {"recover", "remove", "recovered"}
               /\ TakingBack /\ \A e \in Steps : Has(e, p) => e = do
               /\ (p \in Alone => RecoverAlone(p) /\ Stands(p) /\ OpFacts(p))
         /\ aside \cap live \subseteq stranded \cup (IF do = "recovered" THEN {moved} ELSE {})
<1>1. /\ TypeOK /\ EditsAreUsed /\ OperationsFit /\ HalfFirst /\ RecoveryFits /\ DirectoryFits
      /\ AsideIsKnown /\ TreeStands
  BY DEF Fits
<1>2. phase = "recover" /\ Has(do, p) /\ do \in Steps
      /\ \A half \in HalfDone, q \in Paths : Has(half, q) => half = do /\ q = p
  BY <1>1, NextStep
<1>3. journal = "written" /\ plan \in Plans /\ ~marker
  BY <1>1, <1>2 DEF DirectoryFits, TypeOK
<1>4. CASE todo = {Step("recover", 0)}
  <2>1. do = "recover" /\ p = 0
    BY <1>2, <1>4, StepsAre DEF Has
  <2>2. InHand = {}
    BY <1>4, StepsAre DEF InHand, Has
  <2> QED BY <1>1, <1>2, <1>3, <1>4, <2>1, <2>2 DEF OperationsFit, AsideIsKnown
<1>5. CASE TakingBack
  <2>1. p = 0 => do = "finish"
    BY <1>2, <1>5 DEF TakingBack
  <2>2. p # 0 => do \in {"recover", "remove", "recovered"} /\ p \in Operations
    BY <1>2, <1>5 DEF TakingBack
  <2>3. \A e \in Steps : Has(e, p) => e = do
    BY <1>2, <1>5 DEF TakingBack, OneStep
  <2>4. p # 0 /\ p \in Alone => RecoverAlone(p) /\ Stands(p) /\ OpFacts(p)
    BY <1>1, <1>3, <1>5, OperationOf DEF TakingBack, TreeStands
  <2>5. \A q \in Paths : ~Has("undone", q)
    BY <1>5, <1>2 DEF HalfDone, TakingBack, Steps
  <2>6. InHand \subseteq IF do = "recovered" THEN {moved} ELSE {}
    BY <1>2, <2>5 DEF InHand, HalfDone
  <2> QED BY <1>1, <1>2, <1>3, <1>5, <2>1, <2>2, <2>3, <2>4, <2>6 DEF OperationsFit, AsideIsKnown
<1> QED BY <1>1, <1>2, <1>4, <1>5 DEF RecoveryFits

(* A step that takes one file back, or half of it.                              *)
LEMMA RecoverKeeps ==
  ASSUME Fits, TakingBack, NEW do, NEW p \in Operations, Doing("recover", do, p),
         \/ UNCHANGED <<phase, todo>>
         \/ Done(do, p)
         \/ \E next \in {"remove", "recovered"} : Then(do, p, next) /\ <<do, next>> \in Halves,
         UNCHANGED <<plan, op, journal, marker, touched>>,
         \A q \in Paths \ {p} : Near(q),
         capt'[p] \in {capt[p], Nothing}, check'[p] \in {check[p], Nothing},
         p \in Alone => Stands(p)' /\ RecoverAlone(p)',
         Has("recover", p)' \/ Swept(p)',
         TypeOK', EditsAreUsed', AsideIsKnown'
  PROVE  Fits'
<1>1. /\ TypeOK /\ OperationsFit /\ DirectoryFits /\ HalfFirst /\ TreeStands
      /\ phase = "recover" /\ journal = "written" /\ Has(do, p) /\ do \in Steps
      /\ ~Landed /\ p \in Paths /\ p # 0 /\ plan \in Plans
  BY NextStep DEF Fits, DirectoryFits, TakingBack, Operations, Files, TypeOK
<1>2. /\ Paths' = Paths /\ Files' = Files /\ Alone' = Alone /\ Captures' = Captures
      /\ Installs' = Installs /\ Operations' = Operations
      /\ 0 \in Paths /\ 0 \in Alone /\ Alone \subseteq Paths /\ Operations \subseteq Files
      /\ \A q : New(q)' = New(q) /\ Old(q)' = Old(q)
  BY <1>1, World, OperationOf DEF Alone
<1>3. phase' = "recover"
  BY <1>1 DEF Done, Then
<1>4. HalfFirst'
  <2>1. CASE UNCHANGED <<phase, todo>>
    BY <1>1, <1>2, <2>1 DEF HalfFirst, Has, Precedes
  <2>2. CASE ~UNCHANGED <<phase, todo>>
    BY <1>1, <2>2, HalfStays
  <2> QED BY <2>1, <2>2
<1>5. /\ \A q \in Paths \ {p}, e \in Steps : Has(e, q)' <=> Has(e, q)
      /\ \A e \in Steps : Has(e, p)' => e \in {"recover", "remove", "recovered"}
      /\ OneStep(p)'
  <2>1. OneStep(p) /\ \A e \in Steps : Has(e, p) => e \in {"recover", "remove", "recovered"}
    BY <1>1 DEF TakingBack
  <2>2. CASE UNCHANGED <<phase, todo>>
    BY <2>1, <2>2 DEF Has, OneStep
  <2>3. CASE Done(do, p)
    <3>1. Drops(do, p)
      BY <2>3, StepsMove
    <3> QED BY <2>1, <3>1, <1>1 DEF Drops, OneStep
  <2>4. ASSUME NEW next \in {"remove", "recovered"}, Then(do, p, next)
        PROVE  /\ \A q \in Paths \ {p}, e \in Steps : Has(e, q)' <=> Has(e, q)
               /\ \A e \in Steps : Has(e, p)' => e \in {"recover", "remove", "recovered"}
               /\ OneStep(p)'
    <3>1. Turns(do, p, next)
      BY <2>4, StepsMove
    <3>2. \A e \in Steps : Has(e, p)' <=> (Has(e, p) /\ e # do) \/ e = next
      BY <3>1, <1>1 DEF Turns
    <3>3. \A e \in Steps : Has(e, p) => e = do
      BY <1>1, <2>1 DEF OneStep
    <3>4. OneStep(p)'
      BY <3>2, <3>3 DEF OneStep
    <3>5. \A q \in Paths \ {p}, e \in Steps : Has(e, q)' <=> Has(e, q)
      BY <3>1 DEF Turns
    <3> QED BY <3>2, <3>3, <3>4, <3>5
  <2> QED BY <2>2, <2>3, <2>4
<1>6. Near(0) /\ (Landed' <=> Landed)
  BY <1>1, <1>2 DEF Near, Landed
<1>7. TakingBack'
  <2>1. Before(0)' \/ Out(0)'
    BY <1>6, NearPath DEF TakingBack
  <2>2. Has("finish", 0)'
    BY <1>1, <1>2, <1>5 DEF TakingBack, Steps
  <2>3. \A e \in Steps, q \in Paths :
          Has(e, q)' => IF q = 0 THEN e = "finish"
                        ELSE e \in {"recover", "remove", "recovered"} /\ q \in Operations
    BY <1>1, <1>5 DEF TakingBack
  <2>4. \A q \in Paths : OneStep(q)'
    <3> TAKE q \in Paths
    <3>1. OneStep(q)
      BY DEF TakingBack
    <3> QED BY <1>5, <3>1 DEF OneStep
  <2>5. \A q \in Alone \ {0} : RecoverAlone(q)'
    <3> SUFFICES ASSUME NEW q \in Alone \ {0}, q # p
                 PROVE  RecoverAlone(q)'
      OBVIOUS
    <3>1. RecoverAlone(q) /\ Near(q) /\ q \in Paths
      BY <1>2 DEF TakingBack
    <3>2. \A e \in Steps : Has(e, q)' <=> Has(e, q)
      BY <1>5, <3>1
    <3>3. ~Has("recovered", q) /\ ~Has("remove", q)
      BY <1>1, <3>1, NextStep DEF HalfDone
    <3>4. (Before(q)' <=> Before(q)) /\ (NoStep(q)' <=> NoStep(q))
      BY <3>1, <3>2, NearPath DEF NoStep
    <3> QED BY <3>1, <3>2, <3>3, <3>4 DEF RecoverAlone, Steps
  <2>6. \A q \in Operations : Has("recover", q)' \/ Swept(q)'
    <3> SUFFICES ASSUME NEW q \in Operations, q # p
                 PROVE  Has("recover", q)' \/ Swept(q)'
      OBVIOUS
    <3>1. q \in Paths /\ Near(q)
      BY DEF Operations, Files
    <3> QED BY <1>5, <3>1, NearPath DEF TakingBack, Steps
  <2> QED BY <1>1, <1>2, <1>6, <2>1, <2>2, <2>3, <2>4, <2>5, <2>6 DEF TakingBack
<1>8. OperationsFit'
  <2>1. \A q \in Paths \ {p} : capt'[q] = capt[q] /\ check'[q] = check[q]
    BY DEF Near
  <2> QED BY <1>1, <1>2, <2>1 DEF OperationsFit
<1>9. TreeStands'
  <2>1. \A q \in Alone : Stands(q)'
    <3> TAKE q \in Alone
    <3>1. Stands(q)
      BY <1>1 DEF TreeStands
    <3>2. CASE q # p
      BY <1>2, <3>1, <3>2, NearPath
    <3> QED BY <3>2
  <2> QED BY <1>1, <1>2, <1>6, <2>1 DEF TreeStands
<1>10. DirectoryFits'
  BY <1>1, <1>3 DEF DirectoryFits
<1> QED BY <1>3, <1>4, <1>7, <1>8, <1>9, <1>10
        DEF Fits, Executing, Undoing, RecoveryFits, Ended, Cleaning

(* A recovery that refuses leaves everything but what a user put there.         *)
LEMMA RefuseKeeps ==
  ASSUME Fits, phase = "recover", NEW p \in Paths, Refuse,
         UNCHANGED <<plan, op, journal, marker, touched, live>>,
         \A q \in Paths \ {p} : Near(q),
         Near(p) \/ (p \notin Alone /\ TakingBack),
         capt'[p] \in {capt[p], Nothing}, check'[p] \in {check[p], Nothing},
         aside' \subseteq aside,
         TypeOK', EditsAreUsed'
  PROVE  Fits'
<1>1. /\ TypeOK /\ OperationsFit /\ DirectoryFits /\ TreeStands /\ AsideIsKnown
      /\ journal = "written" /\ ~marker /\ plan \in Plans
  BY DEF Fits, DirectoryFits, TypeOK
<1>2. /\ Paths' = Paths /\ Alone' = Alone /\ Captures' = Captures /\ Installs' = Installs
      /\ 0 \in Paths /\ 0 \in Alone /\ Alone \subseteq Paths
      /\ \A q : New(q)' = New(q) /\ Old(q)' = Old(q)
  BY <1>1, World, OperationOf DEF Alone
<1>3. /\ phase' = "idle" /\ todo' = {} /\ captured' = {} /\ installed' = {}
      /\ stranded' = stranded \cup (live \cap aside)
  BY <1>1 DEF Refuse, Forget, Strand
<1>4. Near(0) /\ (Landed' <=> Landed)
  BY <1>1, <1>2 DEF Near, Landed
<1>5. \A q \in Alone : (Stands(q)' <=> Stands(q)) /\ (Final(q)' <=> Final(q))
  BY <1>2, NearPath
<1>6. TreeStands'
  <2>1. Landed => \A q \in Paths : Swept(q)'
    BY <1>1, NearPath DEF TreeStands, TakingBack
  <2> QED BY <1>1, <1>2, <1>4, <1>5, <2>1 DEF TreeStands, Near
<1>7. OperationsFit'
  <2>1. \A q \in Paths \ {p} : capt'[q] = capt[q] /\ check'[q] = check[q]
    BY DEF Near
  <2> QED BY <1>1, <1>2, <2>1 DEF OperationsFit
<1>8. DirectoryFits' /\ AsideIsKnown' /\ HalfFirst'
  BY <1>1, <1>3 DEF DirectoryFits, AsideIsKnown, HalfFirst, Has
<1> QED BY <1>3, <1>6, <1>7, <1>8 DEF Fits, Executing, Undoing, RecoveryFits, Ended, Cleaning

(* What recovery leaves in its slots are bytes it found there.                  *)
LEMMA RecoverTypes ==
  ASSUME TypeOK, EditsAreUsed,
         UNCHANGED <<plan, op, journal, answer, crashes, used, live, touched>>,
         UNCHANGED <<phase, todo, captured, installed, ok>>
           \/ (phase' = "recover" /\ todo' \subseteq [do : Steps, path : Paths]
               /\ UNCHANGED <<captured, installed, ok>>)
           \/ (phase' \in {"idle", "recovered"} /\ todo' = {} /\ captured' \subseteq captured
               /\ installed' \subseteq installed /\ ok' \in BOOLEAN),
         at' \in [Paths -> Known], capt' \in [Paths -> Known], check' \in [Paths -> Known],
         cand' \in [Paths -> {"old", "new", Nothing}],
         linked' \in {linked, Nothing}, aside' \subseteq Known, moved' \in Known,
         marker' \in BOOLEAN, stranded' \subseteq used
  PROVE  TypeOK' /\ EditsAreUsed'
<1>1. Paths' = Paths /\ Files' = Files /\ Known' = Known /\ Known \subseteq Contents
  BY World DEF Known, Contents, TypeOK
<1>2. EditsAreUsed'
  BY <1>1 DEF EditsAreUsed
<1>3. /\ at' \in [Paths -> Contents] /\ capt' \in [Paths -> Contents]
      /\ check' \in [Paths -> Contents] /\ cand' \in [Paths -> Contents]
      /\ aside' \subseteq Contents /\ moved' \in Contents
  BY <1>1 DEF Contents
<1>4. /\ phase' \in {"idle", "prepare", "exec", "undo", "recover", "published", "failed",
                     "recovered"}
      /\ todo' \subseteq [do : Steps, path : Paths] /\ captured' \subseteq Paths
      /\ installed' \subseteq Paths /\ ok' \in BOOLEAN
  BY DEF TypeOK
<1>5. TypeOK'
  BY <1>1, <1>3, <1>4 DEF TypeOK
<1> QED BY <1>2, <1>5

(* A recovery that refuses keeps the types.                                   *)
LEMMA RefuseTypes ==
  ASSUME TypeOK, EditsAreUsed, Refuse,
         UNCHANGED <<plan, cand, linked, journal, op, marker, answer, crashes, used, live,
                     touched>>,
         at' \in [Paths -> Known], capt' \in [Paths -> Known], check' \in [Paths -> Known],
         aside' \subseteq Known
  PROVE  TypeOK' /\ EditsAreUsed'
<1>1. /\ phase' = "idle" /\ todo' = {} /\ captured' = {} /\ installed' = {}
      /\ moved' = Nothing /\ ok' = TRUE
      /\ stranded' = stranded \cup (IF marker THEN {} ELSE live \cap aside)
  BY DEF Refuse, Forget, Strand
<1>2. stranded' \subseteq used
  BY <1>1 DEF TypeOK
<1>3. cand' \in [Paths -> {"old", "new", Nothing}] /\ moved' \in Known /\ marker' \in BOOLEAN
  BY <1>1 DEF EditsAreUsed, TypeOK, Known
<1> QED BY <1>1, <1>2, <1>3, RecoverTypes

(* The manifest is put in its place, or loses its candidate.                    *)
LEMMA ManifestKeeps ==
  ASSUME Fits, phase = "recover", todo = {Step("recover", 0)}, Landed, Landed',
         UNCHANGED <<plan, op, journal, marker, memory, touched, live, stranded, aside, capt>>,
         check'[0] \in {check[0], Nothing},
         \A q \in Paths \ {0} : Near(q),
         Stands(0)' \/ (at'[0] = New(0) /\ check'[0] = Nothing /\ capt'[0] \in {Old(0), Nothing}),
         TypeOK', EditsAreUsed'
  PROVE  Fits'
<1>1. /\ TypeOK /\ OperationsFit /\ DirectoryFits /\ TreeStands /\ AsideIsKnown
      /\ journal = "written"
  BY DEF Fits, DirectoryFits
<1>2. /\ Paths' = Paths /\ Alone' = Alone /\ Captures' = Captures /\ Installs' = Installs
      /\ 0 \in Paths /\ 0 \in Alone /\ Alone \subseteq Paths
      /\ \A q : New(q)' = New(q) /\ Old(q)' = Old(q)
      /\ UNCHANGED <<phase, todo, captured, installed, moved, ok>>
  BY <1>1, World, OperationOf DEF Alone, memory
<1>3. TreeStands'
  <2>1. \A q \in Alone \ {0} : Final(q)'
    BY <1>1, <1>2, NearPath DEF TreeStands
  <2>2. \A q \in Paths : Swept(q)'
    <3> TAKE q \in Paths
    <3>1. Swept(q)
      BY <1>1 DEF TreeStands
    <3>2. CASE q = 0
      BY <1>2, <3>1, <3>2 DEF Swept
    <3>3. CASE q # 0
      BY <1>2, <3>1, <3>3, NearPath
    <3> QED BY <3>2, <3>3
  <2> QED BY <1>2, <2>1, <2>2 DEF TreeStands
<1>4. OperationsFit'
  <2>1. \A q \in Paths \ {0} : check'[q] = check[q]
    BY DEF Near
  <2> QED BY <1>1, <1>2, <2>1 DEF OperationsFit
<1>5. DirectoryFits' /\ HalfFirst' /\ RecoveryFits'
  BY <1>1, <1>2, StepsAre DEF DirectoryFits, HalfFirst, HalfDone, Has, RecoveryFits
<1>6. AsideIsKnown'
  <2>1. InHand' = InHand
    BY <1>2 DEF InHand, Has
  <2> QED BY <1>1, <1>2, <2>1 DEF AsideIsKnown
<1> QED BY <1>2, <1>3, <1>4, <1>5, <1>6 DEF Fits, Executing, Undoing, Ended, Cleaning

(* RecoverPutBack, which ends a verification, keeps the invariant.            *)
LEMMA RecoverPutBackFits ==
  ASSUME Fits, NEW p \in Paths, RecoverPutBack(p)
  PROVE  Fits'
<1>0. Doing("recover", "recover", p) /\ Case(p) = "putBack"
  BY DEF RecoverPutBack, Recovering
<1>1. /\ TypeOK /\ EditsAreUsed /\ OperationsFit /\ TreeStands
      /\ phase = "recover" /\ plan \in Plans /\ ~marker /\ Has("recover", p)
      /\ (p \notin Captures => capt[p] = Nothing)
      /\ \/ p = 0 /\ todo = {Step("recover", 0)}
         \/ /\ p # 0 /\ p \in Operations /\ TakingBack
            /\ \A e \in Steps : Has(e, p) => e = "recover"
            /\ (p \in Alone => RecoverAlone(p) /\ Stands(p))
      /\ aside \cap live \subseteq stranded
  BY <1>0, RecoverStart
<1>2. /\ at \in [Paths -> Known] /\ capt \in [Paths -> Known] /\ check \in [Paths -> Known]
      /\ cand \in [Paths -> {"old", "new", Nothing}] /\ Nothing \in Known
      /\ moved \in Known /\ aside \subseteq Known /\ New(0) = "new"
  BY <1>1, PlanFacts DEF EditsAreUsed, Known
<1>3. /\ at' = [at EXCEPT ![p] = check[p]] /\ check' = [check EXCEPT ![p] = Nothing]
      /\ UNCHANGED <<plan, cand, capt, linked, aside, journal, op, marker, answer, crashes,
                     used, live, touched>>
      /\ at'[p] = check[p] /\ check'[p] = Nothing
  BY <1>2 DEF RecoverPutBack
<1>4. at' \in [Paths -> Known] /\ check' \in [Paths -> Known]
  BY <1>2, <1>3
<1>5. \A q \in Paths \ {p} : Near(q)
  BY <1>2, <1>3 DEF Near
<1>6. CASE p = 0
  <2>1. check[0] # Nothing
    BY <1>0, <1>6 DEF Case, ManifestCase
  <2>2. Held(0)
    BY <1>1, <2>1 DEF TreeStands, Stands, Before, Out, Placed
  <2>3. check[0] = New(0) /\ UNCHANGED <<memory, stranded>>
    BY <1>6, <2>2 DEF Held, RecoverPutBack
  <2>4. TypeOK' /\ EditsAreUsed'
    BY <1>1, <1>2, <1>3, <1>4, <2>3, RecoverTypes DEF memory, TypeOK
  <2>5. Landed /\ Landed'
    BY <1>2, <1>3, <1>6, <2>3 DEF Landed
  <2>6. Stands(0)'
    <3>1. Placed(0)'
      BY <1>3, <1>6, <2>2, World DEF Held, Placed
    <3> QED BY <3>1 DEF Stands
  <2> QED BY <1>1, <1>3, <1>5, <1>6, <2>3, <2>4, <2>5, <2>6, ManifestKeeps
<1>7. CASE p # 0
  <2>1. check[p] # Nothing /\ at[p] = Nothing
    BY <1>0, <1>7 DEF Case, FileCase
  <2>2. p \in Alone => Held(p)
    BY <1>1, <1>7, <2>1 DEF Stands, Before, Out, Placed
  <2>3. CASE check[p] = New(p)
    <3>1. UNCHANGED <<memory, stranded>>
      BY <2>3 DEF RecoverPutBack
    <3>2. TypeOK' /\ EditsAreUsed'
      BY <1>1, <1>2, <1>3, <1>4, <3>1, RecoverTypes DEF memory, TypeOK
    <3>3. \A e : Has(e, p)' <=> Has(e, p)
      BY <3>1 DEF Has, memory
    <3>4. p \in Alone => Stands(p)' /\ RecoverAlone(p)'
      <4>1. p \in Alone => Placed(p)'
        BY <1>3, <2>2, World DEF Held, Placed
      <4> QED BY <1>1, <1>7, <3>3, <4>1 DEF Stands, RecoverAlone, NoStep, Steps
    <3>5. AsideIsKnown'
      BY <1>1, <1>3, <3>1 DEF AsideIsKnown, memory
    <3> QED BY <1>0, <1>1, <1>3, <1>5, <1>7, <3>1, <3>2, <3>3, <3>4, <3>5, RecoverKeeps
            DEF memory
  <2>4. CASE check[p] # New(p)
    <3>1. Refuse
      BY <2>4 DEF RecoverPutBack
    <3>2. TypeOK' /\ EditsAreUsed'
      BY <1>1, <1>2, <1>3, <1>4, <3>1, RefuseTypes
    <3>3. p \notin Alone
      BY <2>2, <2>4 DEF Held
    <3> QED BY <1>1, <1>3, <1>5, <1>7, <3>1, <3>2, <3>3, RefuseKeeps
  <2> QED BY <2>3, <2>4
<1> QED BY <1>6, <1>7

(* RecoverFinishLink, which ends a link, keeps the invariant.                 *)
LEMMA RecoverFinishLinkFits ==
  ASSUME Fits, NEW p \in Paths, RecoverFinishLink(p)
  PROVE  Fits'
<1>0. Doing("recover", "recover", p) /\ Case(p) = "finishLink"
  BY DEF RecoverFinishLink, Recovering
<1>1. /\ TypeOK /\ EditsAreUsed /\ OperationsFit /\ TreeStands
      /\ phase = "recover" /\ plan \in Plans /\ ~marker /\ Has("recover", p)
      /\ \/ p = 0 /\ todo = {Step("recover", 0)}
         \/ /\ p # 0 /\ p \in Operations /\ TakingBack
            /\ \A e \in Steps : Has(e, p) => e = "recover"
            /\ (p \in Alone => RecoverAlone(p) /\ Stands(p))
      /\ aside \cap live \subseteq stranded
  BY <1>0, RecoverStart
<1>2. /\ at \in [Paths -> Known] /\ capt \in [Paths -> Known] /\ check \in [Paths -> Known]
      /\ cand \in [Paths -> {"old", "new", Nothing}] /\ Nothing \notin Paths
      /\ moved \in Known /\ aside \subseteq Known /\ New(0) = "new"
  BY <1>1, PlanFacts DEF EditsAreUsed, Known
<1>3. /\ cand' = [cand EXCEPT ![p] = Nothing] /\ linked' = Nothing
      /\ UNCHANGED <<plan, at, capt, check, aside, journal, op, marker, memory, answer, faults>>
  BY DEF RecoverFinishLink
<1>4. linked = p
  BY <1>0 DEF Case, FileCase, ManifestCase
<1>5. \A q \in Paths \ {p} : Near(q)
  BY <1>2, <1>3, <1>4 DEF Near
<1>6. TypeOK' /\ EditsAreUsed'
  <2>1. cand' \in [Paths -> {"old", "new", Nothing}]
    BY <1>2, <1>3
  <2> QED BY <1>1, <1>2, <1>3, <2>1, RecoverTypes DEF memory, faults, TypeOK
<1>7. CASE p = 0
  <2>1. at[0] = New(0)
    BY <1>1, <1>4, <1>7 DEF TreeStands, Stands, Before, Out, Placed, Held
  <2>2. Landed /\ Landed'
    BY <1>2, <1>3, <2>1 DEF Landed
  <2>3. Stands(0)' \/ (at'[0] = New(0) /\ check'[0] = Nothing /\ capt'[0] \in {Old(0), Nothing})
    <3>1. Placed(0) => Placed(0)'
      BY <1>3, World DEF Placed
    <3> QED BY <1>1, <1>3, <1>4, <1>7, <3>1 DEF TreeStands, Stands, Before, Out, Held
  <2> QED BY <1>1, <1>3, <1>5, <1>6, <1>7, <2>2, <2>3, ManifestKeeps DEF faults
<1>8. CASE p # 0
  <2>1. \A e : Has(e, p)' <=> Has(e, p)
    BY <1>3 DEF Has, memory
  <2>2. p \in Alone => Stands(p)' /\ RecoverAlone(p)'
    <3>1. p \in Alone => Placed(p)
      BY <1>1, <1>4, <1>8 DEF Stands, Before, Out, Held
    <3>2. p \in Alone => Placed(p)'
      BY <1>3, <3>1, World DEF Placed
    <3> QED BY <1>1, <1>8, <2>1, <3>2 DEF Stands, RecoverAlone, NoStep, Steps
  <2>3. AsideIsKnown'
    BY <1>1, <1>3 DEF AsideIsKnown, memory, faults
  <2> QED BY <1>0, <1>1, <1>3, <1>5, <1>6, <1>8, <2>1, <2>2, <2>3, RecoverKeeps
          DEF memory, faults
<1> QED BY <1>7, <1>8

(* The start of a recovery keeps the invariant.                               *)
LEMMA RecoverFits ==
  ASSUME Fits, Recover
  PROVE  Fits'
<1>1. /\ TypeOK /\ EditsAreUsed /\ DirectoryFits /\ OperationsFit /\ TreeStands /\ AsideIsKnown
      /\ phase = "idle" /\ journal = "written" /\ ~marker /\ todo = {} /\ plan \in Plans
  BY DEF Fits, Recover, DirectoryFits, TypeOK
<1>2. /\ phase' = "recover" /\ todo' = {Step("recover", 0)}
      /\ UNCHANGED <<plan, disk, captured, installed, moved, ok, answer, faults>>
  BY DEF Recover
<1>3. TreeStands' /\ OperationsFit' /\ Paths' = Paths
  BY <1>1, <1>2, DiskSame DEF faults
<1>4. TypeOK' /\ EditsAreUsed'
  <2>1. todo' \subseteq [do : Steps, path : Paths]
    BY <1>1, <1>2, PlanFacts DEF Step, Steps
  <2> QED BY <1>1, <1>2, <2>1, QuietTypes DEF TypeOK, EditsAreUsed
<1>5. HalfFirst' /\ RecoveryFits'
  BY <1>2, StepsAre DEF HalfFirst, HalfDone, Has, RecoveryFits
<1>6. AsideIsKnown'
  BY <1>1, <1>2 DEF AsideIsKnown, InHand, Has, disk, faults
<1>7. DirectoryFits'
  BY <1>1, <1>2 DEF DirectoryFits, disk
<1> QED BY <1>2, <1>3, <1>4, <1>5, <1>6, <1>7 DEF Fits, Executing, Undoing, Ended, Cleaning

(* A recovery that finds the desired tree whole keeps the invariant.          *)
LEMMA RecoverForwardFits ==
  ASSUME Fits, RecoverForward
  PROVE  Fits'
<1>0. Doing("recover", "recover", 0) /\ Case(0) = "forward" /\ 0 \in Paths
  BY PlanFacts DEF RecoverForward, Recovering, Fits, TypeOK
<1>1. /\ TypeOK /\ EditsAreUsed /\ OperationsFit /\ TreeStands /\ phase = "recover"
      /\ journal = "written" /\ plan \in Plans /\ ~marker
      /\ aside \cap live \subseteq stranded /\ New(0) = "new"
  BY <1>0, RecoverStart, PlanFacts
<1>2. /\ phase' = "recovered" /\ todo' = {}
      /\ UNCHANGED <<plan, disk, captured, installed, moved, ok, answer, faults>>
  BY DEF RecoverForward
<1>3. check[0] = Nothing /\ linked # 0 /\ at[0] = New(0)
  BY <1>0 DEF Case, ManifestCase
<1>4. Landed
  BY <1>1, <1>3 DEF Landed
<1>5. \A q \in Paths : Swept(q) /\ check[q] = Nothing
  BY <1>1, <1>3, <1>4 DEF TreeStands, Swept
<1>6. /\ TreeStands' /\ OperationsFit' /\ Paths' = Paths /\ (Landed' <=> Landed)
      /\ \A q : Swept(q)' <=> Swept(q)
  BY <1>1, <1>2, DiskSame DEF faults
<1>7. TypeOK' /\ EditsAreUsed'
  BY <1>1, <1>2, QuietTypes DEF TypeOK, EditsAreUsed
<1>8. Ended'
  BY <1>2, <1>3, <1>4, <1>5, <1>6 DEF Ended, disk
<1>9. AsideIsKnown' /\ DirectoryFits' /\ HalfFirst'
  BY <1>1, <1>2 DEF AsideIsKnown, DirectoryFits, HalfFirst, Has, disk, faults
<1> QED BY <1>2, <1>6, <1>7, <1>8, <1>9 DEF Fits, Executing, Undoing, RecoveryFits

(* A recovery that finds the desired tree damaged keeps the invariant.        *)
LEMMA RecoverDamagedFits ==
  ASSUME Fits, RecoverDamaged
  PROVE  Fits'
<1>0. Doing("recover", "recover", 0) /\ 0 \in Paths
  BY PlanFacts DEF RecoverDamaged, Recovering, Fits, TypeOK
<1>1. /\ TypeOK /\ EditsAreUsed /\ OperationsFit /\ TreeStands /\ journal = "written"
      /\ plan \in Plans
  BY <1>0, RecoverStart
<1>2. /\ marker' = TRUE /\ phase' = "idle" /\ todo' = {} /\ captured' = {} /\ installed' = {}
      /\ moved' = Nothing /\ ok' = TRUE
      /\ UNCHANGED <<plan, at, cand, capt, check, linked, aside, journal, op, answer, faults>>
  BY DEF RecoverDamaged, Forget
<1>3. TreeStands' /\ Captures' = Captures /\ Installs' = Installs /\ Alone' = Alone
      /\ Paths' = Paths
  BY <1>1, <1>2, TreeSame DEF faults
<1>4. TypeOK' /\ EditsAreUsed'
  <2>1. Nothing \in Known
    BY DEF Known
  <2> QED BY <1>1, <1>2, <2>1, RecoverTypes DEF faults, TypeOK, EditsAreUsed
<1>5. OperationsFit'
  BY <1>1, <1>2, <1>3 DEF OperationsFit
<1>6. AsideIsKnown' /\ DirectoryFits' /\ HalfFirst'
  BY <1>1, <1>2 DEF AsideIsKnown, DirectoryFits, HalfFirst, Has
<1> QED BY <1>2, <1>3, <1>4, <1>5, <1>6
        DEF Fits, Executing, Undoing, RecoveryFits, Ended, Cleaning

(* The manifest is not the desired one: every operation is to be taken back.    *)
LEMMA RecoverBackFits ==
  ASSUME Fits, RecoverBack
  PROVE  Fits'
<1>0. Doing("recover", "recover", 0) /\ Case(0) = "back" /\ 0 \in Paths
  BY PlanFacts DEF RecoverBack, Recovering, Fits, TypeOK
<1>1. /\ TypeOK /\ EditsAreUsed /\ OperationsFit /\ TreeStands /\ phase = "recover"
      /\ journal = "written" /\ plan \in Plans /\ ~marker
      /\ aside \cap live \subseteq stranded /\ New(0) = "new"
  BY <1>0, RecoverStart, PlanFacts
<1>2. /\ phase' = "recover"
      /\ todo' = {Step("recover", p) : p \in Operations} \cup {Step("finish", 0)}
      /\ UNCHANGED <<plan, disk, captured, installed, moved, ok, answer, faults>>
  BY <1>1 DEF RecoverBack
<1>3. check[0] = Nothing /\ linked # 0 /\ at[0] # New(0)
  BY <1>0 DEF Case, ManifestCase
<1>4. ~Landed /\ (Before(0) \/ Out(0))
  BY <1>1, <1>3, PlanFacts DEF Landed, TreeStands, Stands, Placed, Held
<1>5. /\ TreeStands' /\ OperationsFit' /\ Paths' = Paths /\ (Landed' <=> Landed)
      /\ Alone' = Alone /\ Operations' = Operations
      /\ \A q : (Before(q)' <=> Before(q)) /\ (Out(q)' <=> Out(q))
  BY <1>1, <1>2, DiskSame DEF faults
<1>6. /\ Operations \subseteq Files /\ Files \subseteq Paths /\ 0 \notin Files
      /\ Alone \subseteq Paths
  BY DEF Operations, Files, Alone
<1>7. \A e, q : Has(e, q)' <=> (e = "recover" /\ q \in Operations) \/ (e = "finish" /\ q = 0)
  BY <1>2, StepsAre DEF Has
<1>8. TypeOK' /\ EditsAreUsed'
  <2>1. todo' \subseteq [do : Steps, path : Paths]
    BY <1>0, <1>2, <1>6 DEF Step, Steps
  <2> QED BY <1>1, <1>2, <2>1, QuietTypes DEF TypeOK, EditsAreUsed
<1>9. TakingBack'
  <2>1. ASSUME NEW q \in Alone \ {0}
        PROVE  RecoverAlone(q)'
    <3>1. ~Has("remove", q)' /\ ~Has("recovered", q)'
      BY <1>7
    <3>2. ASSUME NoStep(q)'
          PROVE  Before(q)
      <4>1. q \notin Operations
        BY <1>7, <3>2 DEF NoStep, Steps
      <4>2. plan[q] = "keep" /\ q \notin Captures /\ q \notin Installs
        BY <1>1, <2>1, <4>1, OperationOf DEF OpFacts
      <4>3. Stands(q)
        BY <1>1, <1>4, <2>1 DEF TreeStands
      <4> QED BY <4>2, <4>3 DEF Stands, Out, Placed, Held
    <3> QED BY <1>5, <3>1, <3>2 DEF RecoverAlone
  <2>2. \A q \in Paths : OneStep(q)'
    BY <1>6, <1>7 DEF OneStep
  <2>3. \A e \in Steps, q \in Paths :
          Has(e, q)' => IF q = 0 THEN e = "finish"
                        ELSE e \in {"recover", "remove", "recovered"} /\ q \in Operations
    BY <1>6, <1>7
  <2> QED BY <1>4, <1>5, <1>7, <2>1, <2>2, <2>3 DEF TakingBack
<1>10. AsideIsKnown' /\ DirectoryFits' /\ HalfFirst'
  BY <1>1, <1>2, <1>7 DEF AsideIsKnown, DirectoryFits, HalfFirst, HalfDone, disk, faults, Fits
<1> QED BY <1>2, <1>5, <1>8, <1>9, <1>10 DEF Fits, Executing, Undoing, RecoveryFits, Ended, Cleaning

(* A file that recovery is to take back, and what its files say.                *)
LEMMA FileStart ==
  ASSUME Fits, NEW do, NEW p \in Files, Doing("recover", do, p)
  PROVE  /\ TypeOK /\ EditsAreUsed /\ OperationsFit /\ TakingBack /\ phase = "recover"
         /\ plan \in Plans /\ ~marker /\ Has(do, p) /\ do \in {"recover", "remove", "recovered"}
         /\ p \in Operations /\ p \in Paths /\ p # 0
         /\ (p \notin Captures => capt[p] = Nothing)
         /\ \A e \in Steps : Has(e, p) => e = do
         /\ (p \in Alone => RecoverAlone(p) /\ Stands(p) /\ OpFacts(p))
         /\ aside \cap live \subseteq stranded \cup (IF do = "recovered" THEN {moved} ELSE {})
         /\ at \in [Paths -> Known] /\ capt \in [Paths -> Known] /\ check \in [Paths -> Known]
         /\ cand \in [Paths -> {"old", "new", Nothing}] /\ Nothing \in Known
         /\ moved \in Known /\ aside \subseteq Known /\ Nothing \notin {"old", "new"}
         /\ (plan[p] = "create" => New(p) = "new" /\ Old(p) = Nothing)
         /\ (plan[p] = "replace" => New(p) = "new" /\ Old(p) = "old")
         /\ (plan[p] = "delete" => New(p) = Nothing /\ Old(p) = "old")
         /\ (op[p] = "create" <=> p \notin Captures /\ p \in Installs)
         /\ (op[p] = "replace" <=> p \in Captures /\ p \in Installs)
         /\ New(p) \notin live
         /\ do # "recover" => Swept(p)
<1>1. p \in Paths /\ p # 0
  BY DEF Files
<1>2. /\ TypeOK /\ EditsAreUsed /\ OperationsFit /\ TakingBack /\ phase = "recover"
      /\ plan \in Plans /\ ~marker /\ Has(do, p) /\ do \in {"recover", "remove", "recovered"}
      /\ p \in Operations
      /\ (p \notin Captures => capt[p] = Nothing)
      /\ \A e \in Steps : Has(e, p) => e = do
      /\ (p \in Alone => RecoverAlone(p) /\ Stands(p) /\ OpFacts(p))
      /\ aside \cap live \subseteq stranded \cup (IF do = "recovered" THEN {moved} ELSE {})
  BY <1>1, RecoverStart
<1>3. /\ at \in [Paths -> Known] /\ capt \in [Paths -> Known] /\ check \in [Paths -> Known]
      /\ cand \in [Paths -> {"old", "new", Nothing}] /\ Nothing \in Known
      /\ moved \in Known /\ aside \subseteq Known
  BY <1>2 DEF EditsAreUsed, Known
<1>4. /\ (op[p] = "create" <=> p \notin Captures /\ p \in Installs)
      /\ (op[p] = "replace" <=> p \in Captures /\ p \in Installs)
  BY <1>1 DEF Captures, Installs
<1>5. /\ (plan[p] = "create" => New(p) = "new" /\ Old(p) = Nothing)
      /\ (plan[p] = "replace" => New(p) = "new" /\ Old(p) = "old")
      /\ (plan[p] = "delete" => New(p) = Nothing /\ Old(p) = "old")
      /\ New(p) \notin live /\ Nothing \notin {"old", "new"}
  BY <1>1, <1>2, PlanFacts DEF TypeOK
<1>6. do # "recover" => Swept(p)
  BY <1>2 DEF TakingBack, Steps
<1> QED BY <1>1, <1>2, <1>3, <1>4, <1>5, <1>6

(* A file that has nothing to be taken back keeps the invariant.              *)
LEMMA RecoverDoneFits ==
  ASSUME Fits, NEW p \in Files, RecoverDone(p)
  PROVE  Fits'
<1>0. Doing("recover", "recover", p) /\ Case(p) = "done"
  BY DEF RecoverDone, Recovering
<1>1. /\ TypeOK /\ EditsAreUsed /\ TakingBack /\ phase = "recover" /\ ~marker
      /\ p \in Operations /\ p \in Paths /\ p # 0 /\ Has("recover", p)
      /\ (p \notin Captures => capt[p] = Nothing)
      /\ \A e \in Steps : Has(e, p) => e = "recover"
      /\ (p \in Alone => RecoverAlone(p) /\ Stands(p) /\ OpFacts(p))
      /\ aside \cap live \subseteq stranded /\ Nothing \notin {"old", "new"}
      /\ (plan[p] = "create" => New(p) = "new" /\ Old(p) = Nothing)
      /\ (plan[p] = "replace" => New(p) = "new" /\ Old(p) = "old")
      /\ (plan[p] = "delete" => New(p) = Nothing /\ Old(p) = "old")
      /\ (op[p] = "create" <=> p \notin Captures /\ p \in Installs)
  BY <1>0, FileStart
<1>2. Done("recover", p) /\ UNCHANGED <<plan, disk, captured, installed, moved, ok, answer, faults>>
  BY DEF RecoverDone
<1>3. /\ check[p] = Nothing /\ linked # p
      /\ \/ op[p] = "create" /\ at[p] = Nothing
         \/ op[p] # "create" /\ capt[p] = Nothing /\ at[p] = Old(p)
         \/ op[p] # "create" /\ capt[p] = Old(p) /\ at[p] = Old(p) /\ capt[p] # Nothing
  BY <1>0, <1>1 DEF Case, FileCase
<1>4. Swept(p)
  BY <1>1, <1>3 DEF Swept
<1>5. p \in Alone => Before(p)
  <2> SUFFICES ASSUME p \in Alone
               PROVE  Before(p)
    OBVIOUS
  <2>1. CASE capt[p] = Nothing
    BY <1>1, <1>3, <2>1 DEF Before, OpFacts
  <2>2. CASE capt[p] # Nothing
    BY <1>1, <1>3, <2>2 DEF Stands, Before, Out, Placed, Held, OpFacts
  <2> QED BY <2>1, <2>2
<1>6. Drops("recover", p)
  BY <1>2, StepsMove
<1>7. NoStep(p)'
  BY <1>1, <1>6 DEF Drops, NoStep
<1>8. /\ \A q : Near(q)
      /\ \A q : (Stands(q)' <=> Stands(q)) /\ (Before(q)' <=> Before(q)) /\ (Swept(q)' <=> Swept(q))
  BY <1>2, DiskSame DEF Near, disk, faults
<1>9. p \in Alone => Stands(p)' /\ RecoverAlone(p)'
  BY <1>1, <1>5, <1>7, <1>8 DEF RecoverAlone, NoStep, Steps
<1>10. TypeOK' /\ EditsAreUsed'
  <2>1. todo' \subseteq [do : Steps, path : Paths] /\ phase' = phase
    BY <1>1, <1>2, TodoStays DEF Done
  <2> QED BY <1>1, <1>2, <2>1, QuietTypes DEF TypeOK, EditsAreUsed
<1>11. AsideIsKnown'
  BY <1>1, <1>2 DEF AsideIsKnown, disk, faults
<1>12. capt'[p] = capt[p] /\ check'[p] = check[p] /\ Swept(p)'
  BY <1>2, <1>4, <1>8 DEF disk
<1> QED BY <1>0, <1>1, <1>2, <1>8, <1>9, <1>10, <1>11, <1>12, RecoverKeeps DEF disk, faults

(* The restore of a capture by recovery keeps the invariant.                  *)
LEMMA RecoverRestoreFits ==
  ASSUME Fits, NEW p \in Files, RecoverRestore(p)
  PROVE  Fits'
<1>0. Doing("recover", "recover", p) /\ Case(p) = "restore"
  BY DEF RecoverRestore, Recovering
<1>1. /\ TypeOK /\ EditsAreUsed /\ TakingBack /\ phase = "recover" /\ ~marker
      /\ p \in Operations /\ p \in Paths /\ p # 0 /\ Has("recover", p)
      /\ \A e \in Steps : Has(e, p) => e = "recover"
      /\ aside \cap live \subseteq stranded
      /\ at \in [Paths -> Known] /\ capt \in [Paths -> Known] /\ check \in [Paths -> Known]
      /\ cand \in [Paths -> {"old", "new", Nothing}] /\ Nothing \in Known
      /\ moved \in Known /\ aside \subseteq Known
  BY <1>0, FileStart
<1>2. /\ at' = [at EXCEPT ![p] = capt[p]] /\ capt' = [capt EXCEPT ![p] = Nothing]
      /\ Done("recover", p)
      /\ UNCHANGED <<plan, cand, check, linked, aside, journal, op, marker, captured,
                     installed, moved, ok, answer, faults>>
      /\ at'[p] = capt[p] /\ capt'[p] = Nothing
  BY <1>1 DEF RecoverRestore
<1>3. check[p] = Nothing /\ linked # p /\ capt[p] = Old(p) /\ at[p] = Nothing
  BY <1>0, <1>1 DEF Case, FileCase
<1>4. Old(p)' = Old(p)
  BY <1>2, World
<1>5. Swept(p)' /\ Before(p)'
  BY <1>2, <1>3, <1>4 DEF Swept, Before
<1>6. Drops("recover", p)
  BY <1>2, StepsMove
<1>7. NoStep(p)'
  BY <1>1, <1>6 DEF Drops, NoStep
<1>8. \A q \in Paths \ {p} : Near(q)
  BY <1>1, <1>2 DEF Near
<1>9. Stands(p)' /\ RecoverAlone(p)'
  BY <1>5, <1>7 DEF Stands, RecoverAlone, NoStep, Steps
<1>10. TypeOK' /\ EditsAreUsed'
  <2>1. todo' \subseteq [do : Steps, path : Paths] /\ phase' = phase
    BY <1>1, <1>2, TodoStays DEF Done
  <2>2. at' \in [Paths -> Known] /\ capt' \in [Paths -> Known]
    BY <1>1, <1>2
  <2> QED BY <1>1, <1>2, <2>1, <2>2, RecoverTypes DEF TypeOK, faults
<1>11. AsideIsKnown'
  BY <1>1, <1>2 DEF AsideIsKnown, faults
<1> QED BY <1>0, <1>1, <1>2, <1>5, <1>8, <1>9, <1>10, <1>11, RecoverKeeps DEF faults

(* The decision to remove a new file keeps the invariant.                     *)
LEMMA RecoverRemoveFits ==
  ASSUME Fits, NEW p \in Files, RecoverRemove(p)
  PROVE  Fits'
<1>0. Doing("recover", "recover", p) /\ Case(p) = "remove"
  BY DEF RecoverRemove, Recovering
<1>1. /\ TypeOK /\ EditsAreUsed /\ TakingBack /\ phase = "recover" /\ ~marker
      /\ p \in Operations /\ p \in Paths /\ p # 0 /\ Has("recover", p)
      /\ (p \notin Captures => capt[p] = Nothing)
      /\ \A e \in Steps : Has(e, p) => e = "recover"
      /\ (p \in Alone => RecoverAlone(p) /\ Stands(p) /\ OpFacts(p))
      /\ aside \cap live \subseteq stranded /\ Nothing \notin {"old", "new"}
      /\ (plan[p] = "create" => New(p) = "new" /\ Old(p) = Nothing)
      /\ (plan[p] = "replace" => New(p) = "new" /\ Old(p) = "old")
      /\ (plan[p] = "delete" => New(p) = Nothing /\ Old(p) = "old")
      /\ (op[p] = "create" <=> p \notin Captures /\ p \in Installs)
      /\ (op[p] = "replace" <=> p \in Captures /\ p \in Installs)
  BY <1>0, FileStart
<1>2. /\ Then("recover", p, "remove")
      /\ UNCHANGED <<plan, disk, captured, installed, moved, ok, answer, faults>>
  BY DEF RecoverRemove
<1>3. /\ check[p] = Nothing /\ linked # p /\ at[p] = New(p) /\ at[p] # Nothing
      /\ \/ op[p] = "create"
         \/ op[p] = "replace" /\ capt[p] = Old(p)
  BY <1>0, <1>1 DEF Case, FileCase
<1>4. Swept(p)
  BY <1>1, <1>3 DEF Swept
<1>5. p \in Alone => Placed(p)
  BY <1>1, <1>3 DEF Stands, Before, Out, Placed, Held, OpFacts
<1>6. Turns("recover", p, "remove")
  BY <1>2, StepsMove
<1>7. \A e \in Steps : Has(e, p)' <=> e = "remove"
  BY <1>1, <1>6 DEF Turns, Steps
<1>8. /\ \A q : Near(q) /\ linked' = linked
      /\ \A q : (Stands(q)' <=> Stands(q)) /\ (Placed(q)' <=> Placed(q)) /\ (Swept(q)' <=> Swept(q))
  BY <1>2, DiskSame DEF Near, disk, faults
<1>9. p \in Alone => Stands(p)' /\ RecoverAlone(p)'
  BY <1>1, <1>3, <1>5, <1>7, <1>8 DEF RecoverAlone, NoStep, Steps
<1>10. TypeOK' /\ EditsAreUsed'
  <2>1. todo' \subseteq [do : Steps, path : Paths] /\ phase' = phase
    BY <1>1, <1>2, TodoStays DEF Then, Steps
  <2> QED BY <1>1, <1>2, <2>1, QuietTypes DEF TypeOK, EditsAreUsed
<1>11. AsideIsKnown'
  BY <1>1, <1>2 DEF AsideIsKnown, disk, faults
<1>12. capt'[p] = capt[p] /\ check'[p] = check[p] /\ Swept(p)'
  BY <1>2, <1>4, <1>8 DEF disk
<1>13. <<"recover", "remove">> \in Halves
  BY DEF Halves
<1> QED BY <1>0, <1>1, <1>2, <1>8, <1>9, <1>10, <1>11, <1>12, <1>13, RecoverKeeps DEF disk, faults

(* Moving the new file aside keeps the invariant.                             *)
LEMMA RecoverRemovingFits ==
  ASSUME Fits, NEW p \in Files, RecoverRemoving(p)
  PROVE  Fits'
<1>0. Doing("recover", "remove", p)
  BY DEF RecoverRemoving
<1>1. /\ TypeOK /\ EditsAreUsed /\ TakingBack /\ phase = "recover" /\ ~marker
      /\ p \in Operations /\ p \in Paths /\ p # 0 /\ Has("remove", p)
      /\ \A e \in Steps : Has(e, p) => e = "remove"
      /\ (p \in Alone => RecoverAlone(p) /\ OpFacts(p)) /\ Swept(p)
      /\ aside \cap live \subseteq stranded /\ Nothing \notin {"old", "new"}
      /\ (plan[p] = "create" => New(p) = "new" /\ Old(p) = Nothing)
      /\ (plan[p] = "replace" => New(p) = "new" /\ Old(p) = "old")
      /\ (plan[p] = "delete" => New(p) = Nothing /\ Old(p) = "old")
      /\ at \in [Paths -> Known] /\ capt \in [Paths -> Known] /\ check \in [Paths -> Known]
      /\ cand \in [Paths -> {"old", "new", Nothing}] /\ Nothing \in Known
      /\ moved \in Known /\ aside \subseteq Known
  BY <1>0, FileStart
<1>2. UNCHANGED <<plan, cand, capt, check, linked, journal, op, marker, answer, crashes,
                  used, live, touched>>
  BY DEF RecoverRemoving
<1>3. CASE at[p] = Nothing
  <2>1. Refuse /\ UNCHANGED <<at, aside>>
    BY <1>3 DEF RecoverRemoving
  <2>2. TypeOK' /\ EditsAreUsed'
    BY <1>1, <1>2, <2>1, RefuseTypes
  <2>3. \A q : Near(q)
    BY <1>2, <2>1 DEF Near
  <2> QED BY <1>1, <1>2, <2>1, <2>2, <2>3, RefuseKeeps
<1>4. CASE at[p] # Nothing
  <2>1. /\ moved' = at[p] /\ aside' = aside \cup {at[p]}
        /\ at' = [at EXCEPT ![p] = Nothing] /\ Then("remove", p, "recovered")
        /\ UNCHANGED <<captured, installed, ok, stranded>>
        /\ at'[p] = Nothing
    BY <1>1, <1>4 DEF RecoverRemoving
  <2>2. Turns("remove", p, "recovered")
    BY <2>1, StepsMove
  <2>3. \A e \in Steps : Has(e, p)' <=> e = "recovered"
    BY <1>1, <2>2 DEF Turns, Steps
  <2>4. \A q \in Paths \ {p} : Near(q)
    BY <1>1, <1>2, <2>1 DEF Near
  <2>5. TypeOK' /\ EditsAreUsed'
    <3>1. todo' \subseteq [do : Steps, path : Paths] /\ phase' = "recover"
      BY <1>1, <1>2, <2>1, TodoStays DEF Then, Steps
    <3>2. at' \in [Paths -> Known] /\ aside' \subseteq Known /\ moved' \in Known
      BY <1>1, <2>1
    <3> QED BY <1>1, <1>2, <2>1, <3>1, <3>2, RecoverTypes DEF TypeOK
  <2>6. p \in Alone => Stands(p)' /\ RecoverAlone(p)'
    <3> SUFFICES ASSUME p \in Alone
                 PROVE  Stands(p)' /\ RecoverAlone(p)'
      OBVIOUS
    <3>1. Placed(p) /\ linked # p
      BY <1>1 DEF RecoverAlone
    <3>2. /\ New(p)' = New(p) /\ Old(p)' = Old(p) /\ Captures' = Captures
          /\ Installs' = Installs
      BY <1>2, World
    <3>3. HalfBack(p)'
      BY <1>1, <1>2, <2>1, <3>1, <3>2 DEF Placed, HalfBack, Out, Before, Aside, OpFacts
    <3>4. Stands(p)'
      BY <3>3 DEF HalfBack, Stands
    <3> QED BY <2>3, <3>3, <3>4 DEF RecoverAlone, NoStep, Steps
  <2>7. AsideIsKnown'
    <3>1. moved' \in InHand'
      BY <1>1, <1>2, <2>3 DEF InHand, Steps, Paths
    <3> QED BY <1>1, <1>2, <2>1, <3>1 DEF AsideIsKnown
  <2>8. Swept(p)'
    BY <1>1, <1>2, World DEF Swept
  <2>9. <<"remove", "recovered">> \in Halves /\ capt'[p] = capt[p] /\ check'[p] = check[p]
    BY <1>2 DEF Halves
  <2> QED BY <1>0, <1>1, <1>2, <2>1, <2>4, <2>5, <2>6, <2>7, <2>8, <2>9, RecoverKeeps
<1> QED BY <1>3, <1>4

(* The look at what was moved aside keeps the invariant.                      *)
LEMMA RecoverRemovedFits ==
  ASSUME Fits, NEW p \in Files, RecoverRemoved(p)
  PROVE  Fits'
<1>0. Doing("recover", "recovered", p)
  BY DEF RecoverRemoved
<1>1. /\ TypeOK /\ EditsAreUsed /\ TakingBack /\ phase = "recover" /\ ~marker
      /\ p \in Operations /\ p \in Paths /\ p # 0 /\ Has("recovered", p)
      /\ \A e \in Steps : Has(e, p) => e = "recovered"
      /\ (p \in Alone => RecoverAlone(p) /\ OpFacts(p)) /\ Swept(p)
      /\ aside \cap live \subseteq stranded \cup {moved} /\ Nothing \notin {"old", "new"}
      /\ (plan[p] = "create" => New(p) = "new" /\ Old(p) = Nothing)
      /\ (plan[p] = "replace" => New(p) = "new" /\ Old(p) = "old")
      /\ (plan[p] = "delete" => New(p) = Nothing /\ Old(p) = "old")
      /\ (op[p] = "replace" <=> p \in Captures /\ p \in Installs)
      /\ at \in [Paths -> Known] /\ capt \in [Paths -> Known] /\ check \in [Paths -> Known]
      /\ cand \in [Paths -> {"old", "new", Nothing}] /\ Nothing \in Known
      /\ moved \in Known /\ aside \subseteq Known /\ New(p) \notin live
  BY <1>0, FileStart
<1>2. UNCHANGED <<plan, cand, check, linked, journal, op, marker, answer, crashes, used,
                  live, touched>>
  BY DEF RecoverRemoved
<1>3. p \in Alone => HalfBack(p)
  BY <1>1 DEF RecoverAlone
<1>4. CASE moved # New(p)
  <2>1. /\ Refuse /\ capt' = capt
        /\ \/ at' = [at EXCEPT ![p] = moved] /\ aside' = aside \ {moved}
           \/ UNCHANGED <<at, aside>>
    BY <1>4 DEF RecoverRemoved
  <2>2. at' \in [Paths -> Known] /\ aside' \subseteq aside
    BY <1>1, <2>1
  <2>3. TypeOK' /\ EditsAreUsed'
    BY <1>1, <1>2, <2>1, <2>2, RefuseTypes
  <2>4. \A q \in Paths \ {p} : Near(q)
    BY <1>1, <1>2, <2>1 DEF Near
  <2>5. p \notin Alone /\ capt'[p] = capt[p] /\ check'[p] = check[p]
    BY <1>2, <1>3, <1>4, <2>1 DEF HalfBack
  <2> QED BY <1>1, <1>2, <2>1, <2>2, <2>3, <2>4, <2>5, RefuseKeeps
<1>5. CASE moved = New(p)
  <2>1. /\ Done("recovered", p) /\ moved' = Nothing
        /\ UNCHANGED <<aside, captured, installed, ok, stranded>>
        /\ IF op[p] = "replace" /\ at[p] = Nothing
             THEN /\ at' = [at EXCEPT ![p] = capt[p]]
                  /\ capt' = [capt EXCEPT ![p] = Nothing]
             ELSE UNCHANGED <<at, capt>>
    BY <1>5 DEF RecoverRemoved
  <2>2. /\ capt'[p] \in {capt[p], Nothing} /\ check'[p] = check[p]
        /\ at' \in [Paths -> Known] /\ capt' \in [Paths -> Known]
    BY <1>1, <1>2, <2>1
  <2>3. \A q \in Paths \ {p} : Near(q)
    BY <1>1, <1>2, <2>1 DEF Near
  <2>4. Drops("recovered", p)
    BY <2>1, StepsMove
  <2>5. NoStep(p)'
    BY <1>1, <2>4 DEF Drops, NoStep
  <2>6. TypeOK' /\ EditsAreUsed'
    <3>1. todo' \subseteq [do : Steps, path : Paths] /\ phase' = "recover"
      BY <1>1, <1>2, <2>1, TodoStays DEF Done
    <3> QED BY <1>1, <1>2, <2>1, <2>2, <3>1, RecoverTypes DEF TypeOK
  <2>7. /\ New(p)' = New(p) /\ Old(p)' = Old(p) /\ Captures' = Captures
        /\ Installs' = Installs
    BY <1>2, World
  <2>8. p \in Alone => Before(p)'
    <3> SUFFICES ASSUME p \in Alone
                 PROVE  Before(p)'
      OBVIOUS
    <3>1. CASE p \in Captures
      <4>1. Out(p) /\ op[p] = "replace"
        BY <1>1, <1>3, <3>1 DEF HalfBack
      <4>2. at'[p] = Old(p) /\ capt'[p] = Nothing
        BY <1>1, <2>1, <4>1 DEF Out
      <4> QED BY <1>2, <2>7, <4>1, <4>2 DEF Out, Before
    <3>2. CASE p \notin Captures
      <4>1. Before(p) /\ op[p] # "replace"
        BY <1>1, <1>3, <3>2 DEF HalfBack
      <4> QED BY <1>2, <2>1, <2>7, <4>1 DEF Before
    <3> QED BY <3>1, <3>2
  <2>9. p \in Alone => Stands(p)' /\ RecoverAlone(p)'
    BY <2>5, <2>8 DEF Stands, RecoverAlone, NoStep, Steps
  <2>10. Swept(p)'
    BY <1>1, <2>2, <2>7 DEF Swept
  <2>11. AsideIsKnown'
    BY <1>1, <1>2, <1>5, <2>1 DEF AsideIsKnown
  <2> QED BY <1>0, <1>1, <1>2, <2>1, <2>2, <2>3, <2>6, <2>9, <2>10, <2>11, RecoverKeeps
<1> QED BY <1>4, <1>5

(* A recovery that finds a stranger's file keeps the invariant.               *)
LEMMA RecoverRefusesFits ==
  ASSUME Fits, NEW p \in Paths, RecoverRefuses(p)
  PROVE  Fits'
<1>0. Doing("recover", "recover", p)
  BY DEF RecoverRefuses, Recovering
<1>1. TypeOK /\ EditsAreUsed /\ phase = "recover"
  BY <1>0, RecoverStart
<1>2. Refuse /\ UNCHANGED <<plan, disk, answer, crashes, used, live, touched>>
  BY DEF RecoverRefuses
<1>3. TypeOK' /\ EditsAreUsed'
  BY <1>1, <1>2, RefuseTypes DEF disk, EditsAreUsed
<1>4. \A q : Near(q)
  BY <1>2 DEF Near, disk
<1> QED BY <1>1, <1>2, <1>3, <1>4, RefuseKeeps DEF disk

(* Every file was taken back: the manifest, last, makes it the predecessor's.   *)
LEMMA RecoverFinishFits ==
  ASSUME Fits, RecoverFinish
  PROVE  Fits'
<1>0. Doing("recover", "finish", 0) /\ 0 \in Paths
  BY PlanFacts DEF RecoverFinish, Fits, TypeOK
<1>1. /\ TypeOK /\ EditsAreUsed /\ OperationsFit /\ phase = "recover"
      /\ journal = "written" /\ plan \in Plans /\ ~marker /\ TakingBack
      /\ aside \cap live \subseteq stranded /\ HalfFirst
      /\ (0 \notin Captures => capt[0] = Nothing)
  BY <1>0, RecoverStart DEF Fits
<1>2. /\ phase' = "recovered" /\ todo' = {}
      /\ IF at[0] = Nothing /\ capt[0] # Nothing
           THEN /\ at' = [at EXCEPT ![0] = capt[0]] /\ capt' = [capt EXCEPT ![0] = Nothing]
           ELSE UNCHANGED <<at, capt>>
      /\ UNCHANGED <<plan, cand, check, linked, aside, journal, op, marker, captured,
                     installed, moved, ok, answer, faults>>
  BY DEF RecoverFinish
<1>3. /\ at \in [Paths -> Known] /\ capt \in [Paths -> Known] /\ check \in [Paths -> Known]
      /\ cand \in [Paths -> {"old", "new", Nothing}]
      /\ moved \in Known /\ aside \subseteq Known
      /\ Paths \subseteq Nat /\ Old(0) # "new" /\ Nothing # "new"
      /\ Captures \subseteq Operations \cup {0} /\ Installs \subseteq Operations \cup {0}
      /\ Operations \subseteq Files
  BY <1>1, PlanFacts, OperationOf DEF EditsAreUsed
<1>4. /\ Paths' = Paths /\ Alone' = Alone /\ Captures' = Captures /\ Installs' = Installs
      /\ Alone \subseteq Paths /\ 0 \in Alone
      /\ \A q : New(q)' = New(q) /\ Old(q)' = Old(q)
  BY <1>1, <1>2, World, OperationOf DEF Alone, faults
<1>5. \A q \in Paths \ {0} : NoStep(q)
  <2> TAKE q \in Paths \ {0}
  <2>1. \A e \in Steps : Has(e, q) => PrecedesMeans("finish", 0, e, q)
    BY <1>0, <1>1, NextStep
  <2> QED BY <1>1, <1>3, <2>1 DEF PrecedesMeans, NoStep
<1>6. /\ \A q \in Alone \ {0} : Before(q)
      /\ \A q \in Operations : Swept(q)
  <2>1. \A q \in Operations : ~Has("recover", q)
    BY <1>3, <1>5 DEF NoStep, Steps, Files
  <2> QED BY <1>1, <1>4, <1>5, <2>1 DEF TakingBack, RecoverAlone
<1>7. \A q \in Paths \ {0} : Near(q)
  BY <1>2, <1>3 DEF Near
<1>8. Before(0)'
  <2>1. Before(0) \/ Out(0)
    BY <1>1 DEF TakingBack
  <2>2. CASE Before(0)
    BY <1>2, <1>4, <2>2 DEF Before
  <2>3. CASE Out(0)
    <3>1. at[0] = Nothing /\ capt[0] = Old(0) /\ check[0] = Nothing /\ linked # 0
      BY <2>3 DEF Out
    <3>2. at'[0] = Old(0) /\ capt'[0] = Nothing
      BY <1>0, <1>2, <1>3, <3>1
    <3> QED BY <1>2, <1>4, <3>1, <3>2 DEF Before
  <2> QED BY <2>1, <2>2, <2>3
<1>9. \A q \in Alone : Before(q)'
  BY <1>4, <1>6, <1>7, <1>8, NearPath, <1>2
<1>10. \A q \in Paths : Swept(q)' /\ check'[q] = Nothing
  <2> TAKE q \in Paths
  <2>1. CASE q = 0
    BY <1>4, <1>8, <2>1 DEF Before, Swept
  <2>2. CASE q # 0 /\ q \in Operations
    <3>1. Swept(q) /\ Near(q)
      BY <1>6, <1>7, <2>2
    <3>2. check'[q] = Nothing
      BY <2>2, <3>1 DEF Swept, Near
    <3> QED BY <1>2, <3>1, <3>2, NearPath
  <2>3. CASE q # 0 /\ q \notin Operations
    <3>1. capt[q] = Nothing /\ check[q] = Nothing /\ Near(q)
      BY <1>1, <1>3, <1>7, <2>3 DEF OperationsFit
    <3> QED BY <3>1 DEF Swept, Near
  <2> QED BY <2>1, <2>2, <2>3
<1>11. AllBefore'
  BY <1>3, <1>4, <1>8, <1>9, <1>10 DEF AllBefore, Landed, Before
<1>12. TreeStands'
  BY <1>4, <1>9, <1>11 DEF TreeStands, AllBefore, Stands
<1>13. TypeOK' /\ EditsAreUsed'
  <2>1. at' \in [Paths -> Known] /\ capt' \in [Paths -> Known]
    <3>1. Nothing \in Known
      BY DEF Known
    <3> QED BY <1>0, <1>2, <1>3, <3>1
  <2> QED BY <1>1, <1>2, <1>3, <2>1, RecoverTypes DEF TypeOK, faults
<1>14. OperationsFit'
  <2>1. \A q \in Paths \ Captures : capt'[q] = Nothing
    <3> TAKE q \in Paths \ Captures
    <3>1. CASE q = 0
      BY <1>8, <3>1 DEF Before
    <3>2. CASE q # 0
      BY <1>1, <1>7, <3>2 DEF OperationsFit, Near
    <3> QED BY <3>1, <3>2
  <2> QED BY <1>1, <1>2, <1>4, <1>10, <2>1 DEF OperationsFit
<1>15. Ended'
  BY <1>2, <1>4, <1>8, <1>10, <1>11 DEF Ended, Before
<1>16. AsideIsKnown' /\ DirectoryFits' /\ HalfFirst'
  BY <1>1, <1>2 DEF AsideIsKnown, DirectoryFits, HalfFirst, Has, faults
<1> QED BY <1>2, <1>12, <1>13, <1>14, <1>15, <1>16 DEF Fits, Executing, Undoing, RecoveryFits

--------------------------------------------------------------------------------
(* Every step *)

(* Every step of the publisher keeps the invariant.                           *)
LEMMA PublisherFits ==
  ASSUME Fits, Publisher
  PROVE  Fits'
<1>1. ASSUME NEW p \in Paths,
             \/ Capture(p) \/ Captured(p) \/ Link(p) \/ Linked(p) \/ LinkedAlone(p)
             \/ Verify(p) \/ Verified(p) \/ Undo(p) \/ Undone(p) \/ Restore(p)
      PROVE  Fits'
  BY <1>1, CaptureFits, CapturedFits, LinkFits, LinkedFits, LinkedAloneFits, VerifyFits,
     VerifiedFits, UndoFits, UndoneFits, RestoreFits
<1> QED BY <1>1, PublishFits, PrepareFailsFits, WriteJournalFits, CommitFits, StepFailsFits,
           UndoEndsFits, CleanupFits DEF Publisher

(* Every step of recovery keeps the invariant.                                *)
LEMMA RecoveryStepFits ==
  ASSUME Fits, Recovery
  PROVE  Fits'
<1>1. ASSUME NEW p \in Paths, RecoverPutBack(p) \/ RecoverFinishLink(p) \/ RecoverRefuses(p)
      PROVE  Fits'
  BY <1>1, RecoverPutBackFits, RecoverFinishLinkFits, RecoverRefusesFits
<1>2. ASSUME NEW p \in Files,
             \/ RecoverDone(p) \/ RecoverRestore(p) \/ RecoverRemove(p)
             \/ RecoverRemoving(p) \/ RecoverRemoved(p)
      PROVE  Fits'
  BY <1>2, RecoverDoneFits, RecoverRestoreFits, RecoverRemoveFits, RecoverRemovingFits,
     RecoverRemovedFits
<1> QED BY <1>1, <1>2, RecoverFits, RecoverForwardFits, RecoverDamagedFits, RecoverBackFits,
           RecoverFinishFits DEF Recovery

(* Every edit of a user keeps the invariant.                                  *)
LEMMA UserEditsFit ==
  ASSUME Fits, UserEdits
  PROVE  Fits'
<1>1. ASSUME NEW p \in Files, NEW e \in Edits, Edit(p, e)
      PROVE  Fits'
  BY <1>1, UserFits DEF Edit
<1>2. ASSUME NEW p \in Files, NEW e \in Edits, Discard(p, e)
      PROVE  Fits'
  BY <1>2, UserFits DEF Discard
<1> QED BY <1>1, <1>2 DEF UserEdits

(* A step that changes nothing keeps the invariant.                           *)
LEMMA StutterFits ==
  ASSUME Fits, UNCHANGED vars
  PROVE  Fits'
<1>1. UNCHANGED <<plan, disk, touched>>
  BY DEF vars, faults
<1>2. /\ (TreeStands' <=> TreeStands) /\ (AllBefore' <=> AllBefore) /\ (Landed' <=> Landed)
      /\ (OperationsFit' <=> OperationsFit) /\ (Blank' <=> Blank)
      /\ Alone' = Alone /\ Paths' = Paths /\ Operations' = Operations
      /\ \A q : /\ (Final(q)' <=> Final(q)) /\ (Swept(q)' <=> Swept(q))
                /\ (Before(q)' <=> Before(q)) /\ (Out(q)' <=> Out(q))
                /\ (Placed(q)' <=> Placed(q))
      /\ Captures' = Captures /\ Installs' = Installs /\ Files' = Files
      /\ \A q : New(q)' = New(q) /\ Old(q)' = Old(q)
  BY <1>1, DiskSame, World DEF disk
<1>3. /\ UNCHANGED <<phase, todo, captured, installed, moved, ok, answer, crashes, used, live,
                     touched, stranded>>
      /\ UNCHANGED <<plan, at, cand, capt, check, linked, aside, journal, op, marker>>
  BY DEF vars, memory, faults, disk
<1>4. \A e, q : Has(e, q)' <=> Has(e, q)
  BY <1>3 DEF Has
<1>5. \A q : (NoStep(q)' <=> NoStep(q)) /\ (OneStep(q)' <=> OneStep(q)) /\ Same(q)
  BY <1>3, <1>4 DEF NoStep, OneStep, Same
<1>6. TypeOK' /\ EditsAreUsed'
  BY <1>2, <1>3 DEF Fits, TypeOK, EditsAreUsed, Known
<1>7. TreeStands' /\ OperationsFit' /\ DirectoryFits'
  BY <1>2, <1>3 DEF Fits, DirectoryFits
<1>8. HalfFirst'
  BY <1>2, <1>3, <1>4 DEF Fits, HalfFirst, Precedes
<1>9. Executing'
  BY <1>2, <1>3, <1>4, <1>5, SamePath DEF Fits, Executing, ManifestIsLast
<1>10. Undoing'
  <2>1. \A q : UndoAlone(q)' <=> UndoAlone(q)
    BY <1>2, <1>3, <1>4, <1>5 DEF UndoAlone, HalfBack
  <2> QED BY <1>2, <1>3, <1>4, <1>5, <2>1 DEF Fits, Undoing
<1>11. RecoveryFits'
  <2>1. \A q : RecoverAlone(q)' <=> RecoverAlone(q)
    BY <1>2, <1>3, <1>4, <1>5 DEF RecoverAlone, HalfBack
  <2>2. TakingBack' <=> TakingBack
    BY <1>2, <1>3, <1>4, <1>5, <2>1 DEF TakingBack
  <2> QED BY <1>3, <2>2 DEF Fits, RecoveryFits
<1>12. Ended' /\ AsideIsKnown'
  BY <1>2, <1>3, <1>4 DEF Fits, Ended, Cleaning, AsideIsKnown, InHand
<1> QED BY <1>6, <1>7, <1>8, <1>9, <1>10, <1>11, <1>12 DEF Fits

(* Every step keeps the invariant.                                            *)
LEMMA NextFits ==
  ASSUME Fits, [Next]_vars
  PROVE  Fits'
  BY PublisherFits, RecoveryStepFits, UserEditsFit, CrashFits, CleanupCrashesFits, StutterFits
     DEF Next

--------------------------------------------------------------------------------
(* The users' bytes *)

(* A step that moves what one path had to where the path, or the evidence, is.  *)
LEMMA MovesKeep ==
  ASSUME TypeOK, UserBytesKept, NEW p \in Paths, UNCHANGED <<plan, live>>,
         stranded \subseteq stranded',
         \A q \in Paths \ {p} : at'[q] = at[q] /\ capt'[q] = capt[q] /\ check'[q] = check[q],
         \A e \in {at[p], capt[p], check[p]} \ {"old", "new", Nothing} :
           e \in {at'[p], capt'[p], check'[p]} \cup aside',
         aside \subseteq aside' \cup {at'[p]}
  PROVE  UserBytesKept'
<1>1. SUFFICES ASSUME NEW e \in live \ stranded
               PROVE  Kept(e)'
  BY DEF UserBytesKept
<1>2. Kept(e) /\ e \notin {"old", "new", Nothing} /\ Paths' = Paths
  BY <1>1, PlanFacts, World DEF UserBytesKept, TypeOK
<1>3. CASE e \in aside
  BY <1>2, <1>3 DEF Kept
<1>4. ASSUME NEW q \in Paths, e \in {at[q], capt[q], check[q]}
      PROVE  Kept(e)'
  <2>1. CASE q = p
    <3>1. e \in {at'[p], capt'[p], check'[p]} \cup aside'
      BY <1>2, <1>4, <2>1
    <3> QED BY <1>2, <3>1 DEF Kept
  <2>2. CASE q # p
    <3>1. e \in {at'[q], capt'[q], check'[q]}
      BY <1>4, <2>2
    <3> QED BY <1>2, <3>1 DEF Kept
  <2> QED BY <2>1, <2>2
<1> QED BY <1>2, <1>3, <1>4 DEF Kept

(* Nothing of anybody's is moved.                                               *)
LEMMA QuietKeeps ==
  ASSUME UserBytesKept, UNCHANGED <<plan, at, capt, check, aside, live>>,
         stranded \subseteq stranded'
  PROVE  UserBytesKept'
  BY World DEF UserBytesKept, Kept

(* What _execute_transaction moves, it moves to where nothing was.              *)
LEMMA ExecKeepsBytes ==
  ASSUME Fits, UserBytesKept, NEW p \in Paths,
         \/ Capture(p) \/ Captured(p) \/ Link(p) \/ Linked(p) \/ LinkedAlone(p)
         \/ Verify(p) \/ Verified(p)
  PROVE  UserBytesKept'
<1>1. /\ TypeOK /\ at \in [Paths -> Known] /\ capt \in [Paths -> Known]
      /\ check \in [Paths -> Known]
  BY DEF Fits, EditsAreUsed
<1>2. CASE Capture(p)
  <2>1. capt[p] = Nothing
    BY <1>2, ExecStart DEF Capture, ExecSlots
  <2>2. UNCHANGED <<plan, live, stranded, aside, check>>
    BY <1>2 DEF Capture, faults
  <2>3. \/ UNCHANGED <<at, capt>>
        \/ at' = [at EXCEPT ![p] = Nothing] /\ capt' = [capt EXCEPT ![p] = at[p]]
    BY <1>2 DEF Capture
  <2> QED BY <1>1, <2>1, <2>2, <2>3, MovesKeep
<1>3. CASE Captured(p)
  <2>1. UNCHANGED <<plan, live, stranded, aside, check>>
    BY <1>3 DEF Captured, faults
  <2>2. \/ UNCHANGED <<at, capt>>
        \/ /\ at[p] = Nothing
           /\ at' = [at EXCEPT ![p] = capt[p]] /\ capt' = [capt EXCEPT ![p] = Nothing]
    BY <1>3 DEF Captured
  <2> QED BY <1>1, <2>1, <2>2, MovesKeep
<1>4. CASE Link(p)
  <2>1. UNCHANGED <<plan, live, stranded, aside, check, capt>>
    BY <1>4 DEF Link, faults
  <2>2. UNCHANGED at \/ (at[p] = Nothing /\ at' = [at EXCEPT ![p] = cand[p]])
    BY <1>4 DEF Link
  <2> QED BY <1>1, <2>1, <2>2, MovesKeep
<1>5. CASE Linked(p) \/ LinkedAlone(p)
  <2>1. UNCHANGED <<plan, live, stranded, check, capt>>
    BY <1>5 DEF Linked, LinkedAlone, faults
  <2>2. UNCHANGED <<at, aside>> \/ PreserveConflict(p)
    BY <1>5 DEF Linked, LinkedAlone
  <2>3. CASE UNCHANGED <<at, aside>>
    BY <2>1, <2>3, QuietKeeps
  <2>4. CASE PreserveConflict(p)
    <3>1. /\ at' = [at EXCEPT ![p] = Nothing] /\ aside \subseteq aside'
          /\ at[p] \in aside' \cup {Nothing}
      BY <2>4 DEF PreserveConflict
    <3>2. \A q \in Paths \ {p} : at'[q] = at[q]
      BY <1>1, <3>1
    <3> QED BY <1>1, <2>1, <3>1, <3>2, MovesKeep
  <2> QED BY <2>2, <2>3, <2>4
<1>6. CASE Verify(p)
  <2>1. check[p] = Nothing
    <3>1. Has("verify", p) /\ ExecSlots(p) /\ ExecSteps(p)
      BY <1>6, ExecStart DEF Verify
    <3> QED BY <3>1 DEF ExecSlots, ExecSteps
  <2>2. UNCHANGED <<plan, live, stranded, aside, capt>>
    BY <1>6 DEF Verify, faults
  <2>3. \/ UNCHANGED <<at, check>>
        \/ at' = [at EXCEPT ![p] = Nothing] /\ check' = [check EXCEPT ![p] = at[p]]
    BY <1>6 DEF Verify
  <2> QED BY <1>1, <2>1, <2>2, <2>3, MovesKeep
<1>7. CASE Verified(p)
  <2>1. UNCHANGED <<plan, live, stranded, aside, capt>>
    BY <1>7 DEF Verified, faults
  <2>2. \/ UNCHANGED <<at, check>>
        \/ /\ at[p] = Nothing
           /\ at' = [at EXCEPT ![p] = check[p]] /\ check' = [check EXCEPT ![p] = Nothing]
    BY <1>7 DEF Verified
  <2> QED BY <1>1, <2>1, <2>2, MovesKeep
<1> QED BY <1>2, <1>3, <1>4, <1>5, <1>6, <1>7

(* What is undone is put aside, and a stranger's bytes are put back.            *)
LEMMA UndoKeepsBytes ==
  ASSUME Fits, UserBytesKept, NEW p \in Paths, Undo(p) \/ Undone(p) \/ Restore(p)
  PROVE  UserBytesKept'
<1>1. /\ TypeOK /\ at \in [Paths -> Known] /\ capt \in [Paths -> Known]
      /\ check \in [Paths -> Known]
  BY DEF Fits, EditsAreUsed
<1>2. CASE Undo(p)
  <2>1. UNCHANGED <<plan, live, stranded, check, capt>>
    BY <1>2 DEF Undo, faults
  <2>2. \/ UNCHANGED <<at, aside>>
        \/ at' = [at EXCEPT ![p] = Nothing] /\ aside' = aside \cup {at[p]}
    BY <1>2 DEF Undo
  <2> QED BY <1>1, <2>1, <2>2, MovesKeep
<1>3. CASE Undone(p)
  <2>1. UNCHANGED <<plan, live, stranded, check, capt>>
    BY <1>3 DEF Undone, faults
  <2>2. \/ UNCHANGED <<at, aside>>
        \/ /\ at[p] = Nothing
           /\ at' = [at EXCEPT ![p] = moved] /\ aside' = aside \ {moved}
    BY <1>3 DEF Undone
  <2> QED BY <1>1, <2>1, <2>2, MovesKeep
<1>4. CASE Restore(p)
  <2>1. UNCHANGED <<plan, live, stranded, aside, check>>
    BY <1>4 DEF Restore, faults
  <2>2. \/ UNCHANGED <<at, capt>>
        \/ /\ at[p] = Nothing
           /\ at' = [at EXCEPT ![p] = capt[p]] /\ capt' = [capt EXCEPT ![p] = Nothing]
    BY <1>4 DEF Restore
  <2> QED BY <1>1, <2>1, <2>2, MovesKeep
<1> QED BY <1>2, <1>3, <1>4

(* Recovery puts back what it finds in its slots only where nothing is.         *)
LEMMA RecoveryKeepsBytes ==
  ASSUME Fits, UserBytesKept, Recovery
  PROVE  UserBytesKept'
<1>1. /\ TypeOK /\ at \in [Paths -> Known] /\ capt \in [Paths -> Known]
      /\ check \in [Paths -> Known] /\ TreeStands /\ 0 \in Paths
  BY PlanFacts DEF Fits, EditsAreUsed, TypeOK
<1>2. CASE Recover \/ RecoverForward \/ RecoverDamaged \/ RecoverBack
  BY <1>2, QuietKeeps DEF Recover, RecoverForward, RecoverDamaged, RecoverBack, disk, faults
<1>3. ASSUME Refuse
      PROVE  stranded \subseteq stranded'
  BY <1>3 DEF Refuse, Strand
<1>4. ASSUME NEW p \in Paths, RecoverPutBack(p)
      PROVE  UserBytesKept'
  <2>1. at[p] \in {"old", "new", Nothing}
    <3>1. Case(p) = "putBack"
      BY <1>4 DEF RecoverPutBack, Recovering
    <3>2. CASE p = 0
      <4>1. check[0] # Nothing
        BY <3>1, <3>2 DEF Case, ManifestCase
      <4> QED BY <1>1, <3>2, <4>1 DEF TreeStands, Stands, Before, Out, Placed, Held
    <3>3. CASE p # 0
      BY <3>1, <3>3 DEF Case, FileCase
    <3> QED BY <3>2, <3>3
  <2>2. /\ at' = [at EXCEPT ![p] = check[p]] /\ check' = [check EXCEPT ![p] = Nothing]
        /\ UNCHANGED <<plan, live, aside, capt>> /\ stranded \subseteq stranded'
    BY <1>3, <1>4 DEF RecoverPutBack
  <2> QED BY <1>1, <2>1, <2>2, MovesKeep
<1>5. ASSUME NEW p \in Paths, RecoverFinishLink(p) \/ RecoverRefuses(p)
      PROVE  UserBytesKept'
  BY <1>3, <1>5, QuietKeeps DEF RecoverFinishLink, RecoverRefuses, disk, faults
<1>6. ASSUME NEW p \in Files, RecoverDone(p) \/ RecoverRemove(p)
      PROVE  UserBytesKept'
  BY <1>6, QuietKeeps DEF RecoverDone, RecoverRemove, disk, faults
<1>7. ASSUME NEW p \in Files, RecoverRestore(p)
      PROVE  UserBytesKept'
  <2>1. at[p] = Nothing /\ p \in Paths
    <3>1. Case(p) = "restore" /\ p # 0 /\ p \in Paths
      BY <1>7 DEF RecoverRestore, Recovering, Files
    <3> QED BY <3>1 DEF Case, FileCase
  <2>2. /\ at' = [at EXCEPT ![p] = capt[p]] /\ capt' = [capt EXCEPT ![p] = Nothing]
        /\ UNCHANGED <<plan, live, aside, check, stranded>>
    BY <1>7 DEF RecoverRestore, faults
  <2> QED BY <1>1, <2>1, <2>2, MovesKeep
<1>8. ASSUME NEW p \in Files, RecoverRemoving(p)
      PROVE  UserBytesKept'
  <2>1. /\ UNCHANGED <<plan, live, check, capt>> /\ stranded \subseteq stranded' /\ p \in Paths
    BY <1>3, <1>8 DEF RecoverRemoving, Files
  <2>2. \/ UNCHANGED <<at, aside>>
        \/ at' = [at EXCEPT ![p] = Nothing] /\ aside' = aside \cup {at[p]}
    BY <1>8 DEF RecoverRemoving
  <2> QED BY <1>1, <2>1, <2>2, MovesKeep
<1>9. ASSUME NEW p \in Files, RecoverRemoved(p)
      PROVE  UserBytesKept'
  <2>1. /\ UNCHANGED <<plan, live, check>> /\ stranded \subseteq stranded' /\ p \in Paths
    BY <1>3, <1>9 DEF RecoverRemoved, Files
  <2>2. \/ UNCHANGED <<at, aside, capt>>
        \/ /\ at[p] = Nothing /\ UNCHANGED capt
           /\ at' = [at EXCEPT ![p] = moved] /\ aside' = aside \ {moved}
        \/ /\ at[p] = Nothing /\ UNCHANGED aside
           /\ at' = [at EXCEPT ![p] = capt[p]] /\ capt' = [capt EXCEPT ![p] = Nothing]
    BY <1>9 DEF RecoverRemoved
  <2> QED BY <1>1, <2>1, <2>2, MovesKeep
<1>10. CASE RecoverFinish
  <2>1. UNCHANGED <<plan, live, aside, check, stranded>>
    BY <1>10 DEF RecoverFinish, faults
  <2>2. \/ UNCHANGED <<at, capt>>
        \/ /\ at[0] = Nothing
           /\ at' = [at EXCEPT ![0] = capt[0]] /\ capt' = [capt EXCEPT ![0] = Nothing]
    BY <1>10 DEF RecoverFinish
  <2> QED BY <1>1, <2>1, <2>2, MovesKeep
<1> QED BY <1>2, <1>4, <1>5, <1>6, <1>7, <1>8, <1>9, <1>10 DEF Recovery

(* The directory is removed when it holds no bytes that a user still wants.     *)
LEMMA CleanupKeepsBytes ==
  ASSUME Fits, UserBytesKept, Cleanup \/ CleanupCrashes
  PROVE  UserBytesKept'
<1>1. /\ TypeOK /\ DirectoryFits /\ Ended /\ AsideIsKnown /\ Cleaning /\ todo = {} /\ ~marker
      /\ \A p \in Paths : capt[p] \in {Old(p), Nothing} /\ check[p] = Nothing
  BY DEF Fits, Cleanup, CleanupCrashes, Ended, Cleaning, DirectoryFits, Swept
<1>2. /\ UNCHANGED <<plan, at, live>> /\ stranded \subseteq stranded' /\ Paths' = Paths
      /\ aside' = {} \/ aside' = aside
  BY World DEF Cleanup, CleanupCrashes, Strand, faults
<1>3. aside \cap live \subseteq stranded
  BY <1>1 DEF AsideIsKnown, InHand, Has, Cleaning
<1>4. SUFFICES ASSUME NEW e \in live, e \notin stranded
               PROVE  Kept(e)'
  BY <1>2 DEF UserBytesKept
<1>5. Kept(e) /\ e \notin aside /\ e \notin {"old", "new", Nothing}
  BY <1>1, <1>3, <1>4, PlanFacts DEF UserBytesKept, TypeOK
<1>6. PICK p \in Paths : e \in {at[p], capt[p], check[p]}
  BY <1>5 DEF Kept
<1>7. e = at[p]
  BY <1>1, <1>5, <1>6, PlanFacts DEF TypeOK
<1> QED BY <1>2, <1>7 DEF Kept

(* An edit displaces the bytes of the file it edits, and no others.             *)
LEMMA UserKeepsBytes ==
  ASSUME Fits, UserBytesKept, NEW p \in Files, NEW e \in Edits, Edit(p, e) \/ Discard(p, e)
  PROVE  UserBytesKept'
<1>1. at \in [Paths -> Known] /\ p \in Paths
  BY DEF Fits, EditsAreUsed, Files
<1>2. /\ UNCHANGED <<plan, capt, check, aside, stranded>> /\ Paths' = Paths
      /\ \/ at' = [at EXCEPT ![p] = e] /\ live' = (live \ {at[p]}) \cup {e}
         \/ at' = [at EXCEPT ![p] = Nothing] /\ live' = live \ {at[p]}
  BY World DEF Edit, Discard
<1>3. SUFFICES ASSUME NEW u \in live', u \notin stranded
               PROVE  Kept(u)'
  BY <1>2 DEF UserBytesKept
<1>4. CASE u \in live /\ u # at[p]
  <2>1. Kept(u)
    BY <1>3, <1>4 DEF UserBytesKept
  <2>2. ASSUME NEW q \in Paths, u \in {at[q], capt[q], check[q]}
        PROVE  u \in {at'[q], capt'[q], check'[q]}
    BY <1>1, <1>2, <1>4, <2>2
  <2> QED BY <1>2, <2>1, <2>2 DEF Kept
<1>5. CASE ~(u \in live /\ u # at[p])
  <2>1. u = at'[p]
    BY <1>1, <1>2, <1>3, <1>5
  <2> QED BY <1>1, <1>2, <2>1 DEF Kept
<1> QED BY <1>4, <1>5

(* Every step keeps the users' bytes.                                         *)
LEMMA NextKeepsBytes ==
  ASSUME Fits, UserBytesKept, [Next]_vars
  PROVE  UserBytesKept'
<1>1. CASE Publish \/ PrepareFails \/ WriteJournal \/ Commit \/ StepFails \/ UndoEnds
  <2>1. UNCHANGED <<plan, at, capt, check, aside, faults>>
    <3>1. CASE Publish \/ PrepareFails \/ WriteJournal
      BY <3>1 DEF Publish, PrepareFails, WriteJournal
    <3>2. CASE Commit \/ StepFails
      BY <3>2 DEF Commit, StepFails, disk
    <3>3. CASE UndoEnds
      BY <3>3 DEF UndoEnds
    <3> QED BY <1>1, <3>1, <3>2, <3>3
  <2> QED BY <2>1, QuietKeeps DEF faults
<1>2. CASE Crash
  BY <1>2, QuietKeeps DEF Crash, disk, Strand
<1>3. CASE UNCHANGED vars
  BY <1>3, QuietKeeps DEF vars, disk, faults
<1>4. CASE UserEdits
  BY <1>4, UserKeepsBytes DEF UserEdits
<1>5. ASSUME NEW p \in Paths,
             \/ Capture(p) \/ Captured(p) \/ Link(p) \/ Linked(p) \/ LinkedAlone(p)
             \/ Verify(p) \/ Verified(p) \/ Undo(p) \/ Undone(p) \/ Restore(p)
      PROVE  UserBytesKept'
  BY <1>5, ExecKeepsBytes, UndoKeepsBytes
<1>6. CASE Recovery
  BY <1>6, RecoveryKeepsBytes
<1>7. CASE Cleanup \/ CleanupCrashes
  BY <1>7, CleanupKeepsBytes
<1> QED BY <1>1, <1>2, <1>3, <1>4, <1>5, <1>6, <1>7 DEF Next, Publisher

--------------------------------------------------------------------------------
(* The manifest *)

(* Only the publisher that moves it, or undoes that, changes whether the        *)
(* desired manifest is in.                                                      *)
LEMMA LandedStays ==
  ASSUME Fits, [Next]_vars, phase \notin {"exec", "undo"}
  PROVE  Landed' <=> Landed
<1>1. /\ TypeOK /\ TreeStands /\ at \in [Paths -> Known] /\ check \in [Paths -> Known]
      /\ plan \in Plans /\ New(0) = "new" /\ Old(0) # "new" /\ Nothing # "new" /\ 0 \in Paths
  BY PlanFacts DEF Fits, TypeOK, EditsAreUsed
<1>2. CASE UNCHANGED <<at, check>>
  BY <1>2 DEF Landed
<1>3. ASSUME NEW p \in Paths, p # 0, NEW bytes, at' = [at EXCEPT ![p] = bytes],
             UNCHANGED check \/ check' = [check EXCEPT ![p] = Nothing]
      PROVE  Landed' <=> Landed
  BY <1>1, <1>3 DEF Landed
<1>4. CASE Publisher
  <2>1. ASSUME NEW p \in Paths,
               \/ Capture(p) \/ Captured(p) \/ Link(p) \/ Linked(p) \/ LinkedAlone(p)
               \/ Verify(p) \/ Verified(p) \/ Undo(p) \/ Undone(p) \/ Restore(p)
        PROVE  FALSE
    BY <2>1 DEF Capture, Captured, Link, Linked, LinkedAlone, Verify, Verified, Undo, Undone,
                Restore, Doing
  <2>2. ~Commit /\ ~StepFails /\ ~UndoEnds
    BY DEF Commit, StepFails, UndoEnds, Doing
  <2>3. CASE Publish \/ PrepareFails \/ WriteJournal
    BY <1>2, <2>3 DEF Publish, PrepareFails, WriteJournal
  <2>4. CASE Cleanup
    <3>1. at' = at /\ check[0] = Nothing /\ check'[0] = Nothing
      BY <1>1, <2>4 DEF Cleanup, Fits, Ended
    <3> QED BY <3>1 DEF Landed
  <2> QED BY <1>4, <2>1, <2>2, <2>3, <2>4 DEF Publisher
<1>5. CASE Recovery
  <2>1. CASE Recover \/ RecoverForward \/ RecoverDamaged \/ RecoverBack
    BY <1>2, <2>1 DEF Recover, RecoverForward, RecoverDamaged, RecoverBack, disk
  <2>2. ASSUME NEW p \in Paths, RecoverFinishLink(p) \/ RecoverRefuses(p)
        PROVE  Landed' <=> Landed
    BY <1>2, <2>2 DEF RecoverFinishLink, RecoverRefuses, disk
  <2>3. ASSUME NEW p \in Files, RecoverDone(p) \/ RecoverRemove(p)
        PROVE  Landed' <=> Landed
    BY <1>2, <2>3 DEF RecoverDone, RecoverRemove, disk
  <2>4. ASSUME NEW p \in Paths, RecoverPutBack(p)
        PROVE  Landed' <=> Landed
    <3>1. at' = [at EXCEPT ![p] = check[p]] /\ check' = [check EXCEPT ![p] = Nothing]
      BY <2>4 DEF RecoverPutBack
    <3>2. CASE p # 0
      BY <1>3, <3>1, <3>2
    <3>3. CASE p = 0
      <4>1. check[0] # Nothing
        BY <2>4, <3>3 DEF RecoverPutBack, Recovering, Case, ManifestCase
      <4>2. check[0] = "new"
        BY <1>1, <4>1 DEF TreeStands, Stands, Before, Out, Placed, Held
      <4> QED BY <1>1, <3>1, <3>3, <4>2 DEF Landed
    <3> QED BY <3>2, <3>3
  <2>5. ASSUME NEW p \in Files, RecoverRestore(p) \/ RecoverRemoving(p) \/ RecoverRemoved(p)
        PROVE  Landed' <=> Landed
    <3>1. p \in Paths /\ p # 0 /\ check' = check
      BY <2>5 DEF Files, RecoverRestore, RecoverRemoving, RecoverRemoved
    <3>2. at' = at \/ \E bytes : at' = [at EXCEPT ![p] = bytes]
      BY <2>5 DEF RecoverRestore, RecoverRemoving, RecoverRemoved
    <3> QED BY <1>2, <1>3, <3>1, <3>2
  <2>6. CASE RecoverFinish
    <3>1. Doing("recover", "finish", 0)
      BY <2>6 DEF RecoverFinish
    <3>2. ~Landed /\ (Before(0) \/ Out(0))
      BY <1>1, <3>1, RecoverStart DEF TakingBack
    <3>3. check' = check /\ (at' = at \/ at' = [at EXCEPT ![0] = capt[0]])
      BY <2>6 DEF RecoverFinish
    <3>4. capt[0] # "new"
      BY <1>1, <3>2 DEF Before, Out
    <3> QED BY <1>1, <3>2, <3>3, <3>4 DEF Landed
  <2> QED BY <1>5, <2>1, <2>2, <2>3, <2>4, <2>5, <2>6 DEF Recovery
<1>6. CASE Crash \/ CleanupCrashes \/ UNCHANGED vars
  BY <1>2, <1>6 DEF Crash, CleanupCrashes, vars, disk
<1>7. CASE UserEdits
  <2>1. PICK p \in Files, e \in Edits : Edit(p, e) \/ Discard(p, e)
    BY <1>7 DEF UserEdits
  <2>2. p \in Paths /\ p # 0 /\ check' = check /\ \E bytes : at' = [at EXCEPT ![p] = bytes]
    BY <2>1 DEF Files, Edit, Discard
  <2> QED BY <1>3, <2>2
<1> QED BY <1>4, <1>5, <1>6, <1>7 DEF Next

--------------------------------------------------------------------------------
(* The publication is atomic *)

Tree == IF Committed THEN "new" ELSE "old"

(* What a step is to the caller.                                                *)
Promised ==
  \/ Tree' = Tree /\ answer' = answer
  \/ Tree = "old" /\ Tree' = "new" /\ answer' = answer
  \/ Tree = "new" /\ answer' = "published" /\ Tree' = Tree
  \/ Tree = "old" /\ answer' = "failed" /\ Tree' = Tree

(* The publication is committed when its manifest is in and nobody undoes it. *)
LEMMA TreeIs ==
  /\ Committed <=> phase \notin {"exec", "undo"} /\ Landed
  /\ Committed' <=> phase' \notin {"exec", "undo"} /\ Landed'
  BY DEF Committed, Landed

(* Every step is one the caller was promised, or no step to the caller.       *)
LEMMA StepIsPromised ==
  ASSUME Fits, [Next]_vars
  PROVE  Promised
<1>1. /\ TypeOK /\ DirectoryFits /\ Ended
  BY DEF Fits
<1>2. CASE answer' = answer
  <2>1. CASE phase \notin {"exec", "undo"}
    <3>1. Landed' <=> Landed
      BY <2>1, LandedStays
    <3>2. phase' \in {"exec", "undo"} => ~Landed
      <4>1. ASSUME phase' \in {"exec", "undo"}
            PROVE  WriteJournal
        <5>1. ~(Recovery \/ Crash \/ CleanupCrashes \/ UserEdits \/ UNCHANGED vars)
          BY <2>1, <4>1 DEF Recovery, Recover, RecoverForward, RecoverDamaged, RecoverBack,
             RecoverFinish, RecoverPutBack, RecoverFinishLink, RecoverRefuses, RecoverDone,
             RecoverRestore, RecoverRemove, RecoverRemoving, RecoverRemoved, Recovering, Doing,
             Refuse, Done, Then, Crash, CleanupCrashes, UserEdits, Edit, Discard, memory, vars
        <5>2. ASSUME NEW p \in Paths,
                     \/ Capture(p) \/ Captured(p) \/ Link(p) \/ Linked(p) \/ LinkedAlone(p)
                     \/ Verify(p) \/ Verified(p) \/ Undo(p) \/ Undone(p) \/ Restore(p)
              PROVE  FALSE
          BY <2>1, <5>2 DEF Capture, Captured, Link, Linked, LinkedAlone, Verify, Verified,
                            Undo, Undone, Restore, Doing
        <5>3. ~(Publish \/ PrepareFails \/ Commit \/ StepFails \/ UndoEnds \/ Cleanup)
          BY <2>1, <4>1 DEF Publish, PrepareFails, Commit, StepFails, UndoEnds, Cleanup, Doing
        <5> QED BY <5>1, <5>2, <5>3 DEF Next, Publisher
      <4> QED BY <1>1, <4>1 DEF WriteJournal, DirectoryFits, AllBefore
    <3> QED BY <1>2, <2>1, <3>1, <3>2, TreeIs DEF Promised, Tree
  <2>2. CASE phase \in {"exec", "undo"}
    <3>1. ~Committed
      BY <2>2, TreeIs
    <3> QED BY <1>2, <3>1 DEF Promised, Tree
  <2> QED BY <2>1, <2>2
<1>3. CASE answer' # answer
  <2>1. CASE PrepareFails
    <3>1. phase = "prepare" /\ phase' = "idle" /\ answer' = "failed" /\ at' = at /\ check' = check
      BY <2>1 DEF PrepareFails
    <3>2. ~Landed /\ ~Landed'
      BY <1>1, <3>1 DEF DirectoryFits, AllBefore, Landed
    <3> QED BY <3>1, <3>2, TreeIs DEF Promised, Tree
  <2>2. CASE UndoEnds
    <3>1. phase = "undo" /\ todo = {} /\ answer' = "failed" /\ at' = at /\ check' = check
      BY <1>3, <2>2 DEF UndoEnds
    <3>2. ~Landed /\ ~Landed'
      BY <3>1, UndoneMeans DEF AllBefore, Landed
    <3> QED BY <3>1, <3>2, TreeIs DEF Promised, Tree
  <2>3. CASE Cleanup
    <3>1. /\ phase \in {"published", "failed"} /\ phase' = "idle" /\ answer' = phase
      BY <1>3, <2>3 DEF Cleanup, Cleaning
    <3>2. Landed' <=> Landed
      BY <3>1, LandedStays
    <3>3. (phase = "published" => Landed) /\ (phase = "failed" => ~Landed)
      BY <1>1 DEF Ended, AllBefore
    <3> QED BY <3>1, <3>2, <3>3, TreeIs DEF Promised, Tree
  <2>4. ~(Recovery \/ Crash \/ CleanupCrashes \/ UserEdits \/ UNCHANGED vars)
    BY <1>3 DEF Recovery, Recover, RecoverForward, RecoverDamaged, RecoverBack,
       RecoverFinish, RecoverPutBack, RecoverFinishLink, RecoverRefuses, RecoverDone,
       RecoverRestore, RecoverRemove, RecoverRemoving, RecoverRemoved,
       Crash, CleanupCrashes, UserEdits, Edit, Discard, vars
  <2>5. ASSUME NEW p \in Paths,
               \/ Capture(p) \/ Captured(p) \/ Link(p) \/ Linked(p) \/ LinkedAlone(p)
               \/ Verify(p) \/ Verified(p) \/ Undo(p) \/ Undone(p) \/ Restore(p)
        PROVE  FALSE
    BY <1>3, <2>5 DEF Capture, Captured, Link, Linked, LinkedAlone, Verify, Verified,
                      Undo, Undone, Restore
  <2>6. ~(Publish \/ WriteJournal \/ Commit \/ StepFails)
    <3>1. ~Publish /\ ~WriteJournal
      BY <1>3 DEF Publish, WriteJournal
    <3>2. ~Commit /\ ~StepFails
      BY <1>3 DEF Commit, StepFails
    <3> QED BY <3>1, <3>2
  <2> QED BY <2>1, <2>2, <2>3, <2>4, <2>5, <2>6 DEF Next, Publisher
<1> QED BY <1>2, <1>3

--------------------------------------------------------------------------------
(* The theorems *)

(* The invariant holds of every reachable state.                              *)
THEOREM JournalInvariant == Spec => []JournalInv
<1>1. Init => JournalInv
  BY InitFits DEF JournalInv
<1>2. JournalInv /\ [Next]_vars => JournalInv'
  BY NextFits, NextKeepsBytes DEF JournalInv
<1> QED BY <1>1, <1>2, PTL DEF Spec

(* The state of a publication is what the code keeps: each slot of the          *)
(* transaction directory holds managed bytes or an edit that was made, and the  *)
(* bounds on crashes and edits are met.                                         *)
THEOREM JournalTypeCorrect == Spec => []TypeOK
<1>1. JournalInv => TypeOK
  BY DEF JournalInv, Fits
<1> QED BY <1>1, JournalInvariant, PTL

(* With no transaction directory and no edit of a user the library is the       *)
(* predecessor or the desired tree in every file: _execute_transaction, its     *)
(* undo and recovery leave nothing in between, however often they crash.        *)
THEOREM TheTreeAtRestIsWhole == Spec => []RestingTreeIsWhole
<1>1. JournalInv => RestingTreeIsWhole
  <2> SUFFICES ASSUME JournalInv, phase = "idle", journal = "none", touched = {}
               PROVE  \/ \A p \in Paths : at[p] = Old(p)
                      \/ \A p \in Paths : at[p] = New(p)
    BY DEF RestingTreeIsWhole
  <2>1. /\ TreeStands /\ (AllBefore \/ (Landed /\ Final(0))) /\ Alone = Paths
    BY DEF JournalInv, Fits, DirectoryFits, Alone
  <2>2. CASE AllBefore
    BY <2>1, <2>2 DEF AllBefore, Before
  <2>3. CASE Landed /\ Final(0)
    BY <2>1, <2>3 DEF TreeStands, Final
  <2> QED BY <2>1, <2>2, <2>3
<1> QED BY <1>1, JournalInvariant, PTL

(* Until the desired manifest is in, what a publication can be taken back from  *)
(* is there for every file no user touched: in its place, in captures/, in      *)
(* verifications/ or in the hand of the undo.                                   *)
THEOREM OldBytesOutliveThePublisher == Spec => []OldBytesUntilCommit
<1>1. JournalInv => OldBytesUntilCommit
  <2> SUFFICES ASSUME JournalInv, at[0] # New(0), check[0] = Nothing,
                      NEW p \in Files \ touched, Old(p) # Nothing
               PROVE  Old(p) \in {at[p], capt[p], check[p], moved}
    BY DEF OldBytesUntilCommit
  <2>1. /\ TypeOK /\ TreeStands /\ DirectoryFits /\ OperationsFit /\ p \in Alone
        /\ New(0) = "new" /\ Nothing # "new"
    BY PlanFacts DEF JournalInv, Fits, TypeOK, Alone, Files
  <2>2. ~Landed
    BY <2>1 DEF Landed
  <2>3. CASE journal = "none"
    BY <2>1, <2>2, <2>3 DEF DirectoryFits, AllBefore, Before
  <2>4. CASE journal # "none"
    <3>1. OpFacts(p) /\ Stands(p)
      BY <2>1, <2>2, <2>4, OperationOf DEF TreeStands
    <3>2. p \in Installs /\ p \notin Captures => Old(p) = Nothing
      BY <3>1 DEF OpFacts, Old
    <3> QED BY <3>1, <3>2 DEF Stands, Before, Out, Placed, Held, Aside
  <2> QED BY <2>3, <2>4
<1> QED BY <1>1, JournalInvariant, PTL

(* What a user wrote and did not replace himself is in the library or in the    *)
(* evidence of a transaction, unless a crash left it in rollback/ or recovery/. *)
THEOREM TheUsersBytesAreKept == Spec => []UserBytesKept
<1>1. JournalInv => UserBytesKept
  BY DEF JournalInv
<1> QED BY <1>1, JournalInvariant, PTL

(* A publication is one instant to its caller: the desired manifest's last look *)
(* or the death of its publisher; "published" is never told before it, "failed" *)
(* never after.                                                                 *)
THEOREM PublicationIsAtomic == Spec => PublishIsAtomic
<1>1. Init => A!Init
  <2> SUFFICES ASSUME Init
               PROVE  A!Init
    OBVIOUS
  <2>1. Old(0) # "new" /\ Nothing # "new" /\ at[0] = Old(0) /\ check[0] = Nothing
    BY PlanFacts DEF Init
  <2>2. ~Committed /\ answer = "none"
    BY <2>1 DEF Committed, Init
  <2> QED BY <2>2 DEF A!Init
<1>2. Fits /\ [Next]_vars => [A!Next]_(A!vars)
  BY StepIsPromised DEF Promised, Tree, A!Next, A!Commit, A!Succeed, A!Fail, A!vars
<1>3. JournalInv => Fits
  BY DEF JournalInv
<1> QED BY <1>1, <1>2, <1>3, JournalInvariant, PTL DEF Spec, PublishIsAtomic, A!Spec

(* The desired tree is in, and nothing of its manifest is left to do.           *)
Settled == Committed /\ check[0] = Nothing /\ linked # 0

(* No step takes back a desired tree whose manifest is settled.               *)
LEMMA SettledStays ==
  ASSUME Fits, Settled, [Next]_vars
  PROVE  Settled'
<1>1. /\ TypeOK /\ DirectoryFits /\ Ended /\ RecoveryFits /\ Landed /\ phase \notin {"exec", "undo"}
      /\ check[0] = Nothing /\ linked # 0 /\ at[0] = New(0) /\ New(0) = "new" /\ Old(0) # "new"
      /\ Nothing # 0 /\ 0 \in Paths /\ check \in [Paths -> Known]
  BY TreeIs, PlanFacts DEF Fits, Settled, TypeOK, Landed, EditsAreUsed
<1>2. Landed' /\ phase # "prepare" /\ phase # "failed"
  BY <1>1, LandedStays DEF DirectoryFits, Ended, AllBefore
<1>3. phase = "recover" => todo = {Step("recover", 0)}
  BY <1>1 DEF RecoveryFits, TakingBack
<1>4. CASE phase' = phase /\ check' = check /\ linked' \in {linked, Nothing}
  BY <1>1, <1>2, <1>4, TreeIs DEF Settled
<1>5. CASE phase' \in {"idle", "recover", "recovered"} /\ check'[0] = Nothing
           /\ linked' \in {linked, Nothing}
  BY <1>1, <1>2, <1>5, TreeIs DEF Settled
<1>6. CASE Publisher
  <2>1. ASSUME NEW p \in Paths,
               \/ Capture(p) \/ Captured(p) \/ Link(p) \/ Linked(p) \/ LinkedAlone(p)
               \/ Verify(p) \/ Verified(p) \/ Undo(p) \/ Undone(p) \/ Restore(p)
        PROVE  FALSE
    BY <1>1, <2>1 DEF Capture, Captured, Link, Linked, LinkedAlone, Verify, Verified, Undo,
                      Undone, Restore, Doing
  <2>2. ~Commit /\ ~StepFails /\ ~UndoEnds /\ ~Publish /\ ~PrepareFails /\ ~WriteJournal
    <3>1. ~Commit /\ ~StepFails /\ ~UndoEnds
      BY <1>1 DEF Commit, StepFails, UndoEnds, Doing
    <3>2. ~Publish /\ ~PrepareFails /\ ~WriteJournal
      BY <1>1, <1>2 DEF Publish, PrepareFails, WriteJournal
    <3> QED BY <3>1, <3>2
  <2>3. CASE Cleanup
    BY <1>1, <1>5, <2>3 DEF Cleanup
  <2> QED BY <1>6, <2>1, <2>2, <2>3 DEF Publisher
<1>7. CASE Recovery
  <2>1. CASE Recover \/ RecoverForward \/ RecoverDamaged
    BY <1>1, <1>5, <2>1 DEF Recover, RecoverForward, RecoverDamaged, disk
  <2>2. ~RecoverBack /\ ~RecoverFinish
    BY <1>1, <1>3, StepsAre DEF RecoverBack, RecoverFinish, Recovering, Doing, Case, ManifestCase
  <2>3. ASSUME NEW p \in Paths, RecoverPutBack(p) \/ RecoverFinishLink(p) \/ RecoverRefuses(p)
        PROVE  FALSE
    <3>1. Doing("recover", "recover", p)
          /\ Case(p) \in {"putBack", "finishLink", "refuse"}
      BY <2>3 DEF RecoverPutBack, RecoverFinishLink, RecoverRefuses, Recovering
    <3>2. p = 0
      BY <1>3, <3>1, StepsAre DEF Doing
    <3> QED BY <1>1, <3>1, <3>2 DEF Case, ManifestCase
  <2>4. ASSUME NEW p \in Files, NEW do, Doing("recover", do, p)
        PROVE  FALSE
    BY <1>3, <2>4, StepsAre DEF Doing, Files
  <2> QED BY <1>7, <2>1, <2>2, <2>3, <2>4 DEF Recovery, RecoverDone, RecoverRestore,
          RecoverRemove, RecoverRemoving, RecoverRemoved, Recovering
<1>8. CASE Crash \/ CleanupCrashes
  BY <1>1, <1>5, <1>8 DEF Crash, CleanupCrashes, disk
<1>9. CASE UserEdits \/ UNCHANGED vars
  BY <1>4, <1>9 DEF UserEdits, Edit, Discard, Displaces, memory, vars, disk
<1> QED BY <1>6, <1>7, <1>8, <1>9 DEF Next

(* The desired tree that validate_published found whole is the tree at every    *)
(* later rest, unless a user changes a file: no recovery takes it back.         *)
THEOREM TheValidatedTreeIsKept == Spec => ValidatedTreeIsNeverUndone
<1>1. Fits /\ Validates /\ touched = {} => Settled
  <2> SUFFICES ASSUME Fits, Validates
               PROVE  Settled
    OBVIOUS
  <2>1. at[0] = New(0) /\ linked # 0 /\ phase = "idle" /\ TreeStands /\ New(0) = "new"
        /\ Nothing # "new"
    BY PlanFacts DEF Validates, Whole, Fits, TypeOK
  <2>2. check[0] = Nothing
    BY <2>1 DEF TreeStands, Stands, Before, Out, Placed, Held
  <2> QED BY <2>1, <2>2, TreeIs DEF Settled, Landed
<1>2. Fits /\ Settled /\ [Next]_vars => Settled'
  BY SettledStays
<1>3. Fits /\ Settled => (phase = "idle" /\ touched = {} => Whole)
  <2> SUFFICES ASSUME Fits, Settled, touched = {}
               PROVE  Whole
    OBVIOUS
  <2>1. /\ Landed /\ TreeStands /\ check[0] = Nothing /\ linked # 0 /\ New(0) = "new"
        /\ Nothing # "new" /\ Alone = Paths
    BY TreeIs, PlanFacts DEF Settled, Fits, TypeOK, Alone
  <2>2. at[0] = New(0) /\ \A p \in Files : Final(p)
    BY <2>1 DEF Landed, TreeStands, Files
  <2> QED BY <2>1, <2>2 DEF Whole, Final
<1>4. JournalInv => Fits
  BY DEF JournalInv
<1> QED BY <1>1, <1>2, <1>3, <1>4, JournalInvariant, PTL DEF Spec, ValidatedTreeIsNeverUndone

=================================================================================
