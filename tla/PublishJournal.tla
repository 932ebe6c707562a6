---------------------------- MODULE PublishJournal -----------------------------
(* The journaled file transaction of exporters/emby/exporter.py: how one author *)
(* tree replaces its predecessor on a file system that offers only rename, hard *)
(* link and unlink of one file, while the process may crash at any of them and  *)
(* the user may edit the library at any moment.                                 *)
(*                                                                              *)
(* A path is a managed file 1..n or the manifest, 0.  The transaction directory *)
(* holds a candidate (its new bytes), a capture (the old ones, moved aside) and *)
(* a verification slot for each; rollback/, recovery/ and conflicts/ are aside. *)
(* Contents are "old", "new", a user's edit or nothing.  The author lock lets   *)
(* one publisher in at a time and a crash frees it, so there is one publisher,  *)
(* restarted for ever.  Users edit media files, not the manifest, and replace   *)
(* or remove whole files; file reads do not fail (see README).                  *)
EXTENDS Integers

CONSTANTS Plans,       \* each a function 0..n -> Kinds: what the rendered tree does to each path
          Edits,       \* the user's edits: each is used once
          MaxCrashes,  \* bound on crashes of the publisher
          Nothing      \* no file / no path

Kinds == {"create", "replace", "keep", "delete"}

ASSUME PlanAssumption ==
  /\ \A desired \in Plans :
       /\ DOMAIN desired \subseteq Nat /\ desired \in [DOMAIN desired -> Kinds]
       /\ 0 \in DOMAIN desired /\ desired[0] \in {"create", "replace"}
       /\ desired[0] = "create" => \A p \in DOMAIN desired : desired[p] = "create"
       /\ Nothing \notin DOMAIN desired
  /\ MaxCrashes \in Nat
  /\ Edits \cap {"old", "new", Nothing} = {} /\ Nothing \notin {"old", "new"}

VARIABLES
  plan,      \* the desired tree against the predecessor
  at,        \* the author directory: path -> contents
  cand, capt, check,   \* candidates/, captures/, verifications/: path -> contents
  linked,    \* the path whose candidate and target are one inode (link done, unlink not)
  aside,     \* contents in rollback/, recovery/ and conflicts/
  journal,   \* "none" (no transaction directory) | "partial" (no journal in it) | "written"
  op,        \* the operations of the journal: path -> kind | "skip"
  marker,    \* RECOVERY_REQUIRED is in the transaction directory
  phase, todo, captured, installed, moved, ok,   \* the publisher's memory
  answer,    \* what publish last told its caller
  crashes, used, live, touched, stranded   \* faults so far; user bytes (see UserEdits)

disk == <<at, cand, capt, check, linked, aside, journal, op, marker>>
memory == <<phase, todo, captured, installed, moved, ok>>
faults == <<crashes, used, live, touched, stranded>>
vars == <<plan, disk, memory, answer, faults>>

Paths == DOMAIN plan
Files == Paths \ {0}

(* The managed bytes of a path before and after.                                *)
Old(p) == IF plan[p] = "create" THEN Nothing ELSE "old"
New(p) == CASE plan[p] = "keep" -> "old" [] plan[p] = "delete" -> Nothing [] OTHER -> "new"

Contents == {"old", "new", Nothing} \cup Edits

Step(do, p) == [do |-> do, path |-> p]

(* A half-done step names what its second half must do; moved is what it holds. *)
Steps == {"capture", "captured", "link", "linked", "verify", "verified", "commit",
          "undo", "undone", "restore", "recover", "remove", "recovered",
          "alone", "finish"}

TypeOK ==
  /\ plan \in Plans
  /\ \A slots \in {at, cand, capt, check} : slots \in [Paths -> Contents]
  /\ linked \in Paths \cup {Nothing} /\ aside \subseteq Contents
  /\ journal \in {"none", "partial", "written"}
  /\ op \in [Paths -> Kinds \cup {"skip"}] /\ marker \in BOOLEAN
  /\ phase \in {"idle", "prepare", "exec", "undo", "recover",
                "published", "failed", "recovered"}
  /\ todo \subseteq [do : Steps, path : Paths]
  /\ captured \subseteq Paths /\ installed \subseteq Paths /\ moved \in Contents
  /\ ok \in BOOLEAN /\ answer \in {"none", "published", "failed"}
  /\ crashes \in 0..MaxCrashes /\ used \subseteq Edits
  /\ live \subseteq used /\ stranded \subseteq used /\ touched \subseteq Files

Init ==
  /\ plan \in Plans
  /\ at = [p \in Paths |-> Old(p)]
  /\ cand = [p \in Paths |-> Nothing] /\ capt = cand /\ check = cand
  /\ linked = Nothing /\ aside = {} /\ journal = "none"
  /\ op = [p \in Paths |-> "skip"] /\ marker = FALSE
  /\ phase = "idle" /\ todo = {} /\ captured = {} /\ installed = {}
  /\ moved = Nothing /\ ok = TRUE /\ answer = "none"
  /\ crashes = 0 /\ used = {} /\ live = {} /\ touched = {} /\ stranded = {}

--------------------------------------------------------------------------------
(* Control of the publisher's steps.                                            *)

(* The loops of _execute_transaction: every file is moved, then every file is   *)
(* verified, then the manifest is moved and verified, and the tree is checked.  *)
Loop(s) ==
  IF s.do = "commit" THEN 5
  ELSE IF s.do \in {"verify", "verified"} THEN (IF s.path = 0 THEN 4 ELSE 2)
  ELSE (IF s.path = 0 THEN 3 ELSE 1)

(* Which of two remaining steps is taken first: operations in order and, when   *)
(* they are undone, the manifest and then backwards; a recovery ends with it.   *)
Precedes(s, t) ==
  CASE phase = "exec" -> \/ Loop(s) < Loop(t)
                         \/ Loop(s) = Loop(t) /\ s.path < t.path
                         \/ Loop(s) = Loop(t) /\ s.path = t.path /\ t.do = "link"
    [] phase = "undo" -> t.path # 0 /\ (s.path = 0 \/ s.path > t.path)
    [] OTHER -> s.path > t.path

Doing(when, do, p) ==
  /\ phase = when /\ Step(do, p) \in todo
  /\ \A t \in todo \ {Step(do, p)} : Precedes(Step(do, p), t)

Others(do, p) == todo \ {Step(do, p)}
Done(do, p) == todo' = Others(do, p) /\ UNCHANGED phase
Then(do, p, next) == todo' = Others(do, p) \cup {Step(next, p)} /\ UNCHANGED phase

Forget == todo' = {} /\ captured' = {} /\ installed' = {} /\ moved' = Nothing /\ ok' = TRUE

Operations == {p \in Files : op[p] # "skip"}

(* User bytes that nothing keeps but rollback/ or recovery/ when the publisher  *)
(* stops without a marker.                                                      *)
Strand == stranded' = stranded \cup (IF marker THEN {} ELSE live \cap aside)

(* Mutant: the undo forgets the manifest.                                       *)
AbortFilesOnly(undoable) ==
  /\ phase' = "undo" /\ ok' = undoable /\ moved' = Nothing
  /\ todo' = {Step("undo", p) : p \in Operations}

(* _execute_transaction's handler: undo everything this process knows it did.   *)
(* A conflict that may not be undone silently is reported whatever the undo says*)
Abort(undoable) ==
  /\ phase' = "undo" /\ ok' = undoable /\ moved' = Nothing
  /\ todo' = {Step("undo", p) : p \in Operations \cup {0}}

--------------------------------------------------------------------------------
(* _publish_locked: the predecessor is what the caller rendered against, and no *)
(* path has bytes that are neither missing nor the predecessor's.  A call that  *)
(* finds otherwise raises before it touches anything.                           *)

Clean(p) ==
  CASE plan[p] = "create" -> at[p] = Nothing
    [] plan[p] \in {"replace", "keep"} -> at[p] \in {Nothing, "old"}
    [] OTHER -> TRUE

Planned(p) ==
  CASE p = 0 \/ plan[p] = "create" -> plan[p]
    [] p # 0 /\ plan[p] = "replace" -> IF at[p] = Nothing THEN "create" ELSE "replace"
    [] p # 0 /\ plan[p] = "keep" -> IF at[p] = Nothing THEN "create" ELSE "skip"
    [] OTHER -> IF at[p] = "old" THEN "delete" ELSE "skip"

Publish ==
  /\ phase = "idle" /\ journal = "none" /\ answer # "published"
  /\ at[0] = Old(0) /\ \A p \in Files : Clean(p)
  /\ op' = [p \in Paths |-> Planned(p)]
  /\ journal' = "partial" /\ phase' = "prepare"
  /\ UNCHANGED <<plan, at, cand, capt, check, linked, aside, marker, todo, captured,
                 installed, moved, ok, answer, faults>>

(* _prepare_transaction failed (a staged file changed, a full disk): it removes *)
(* the directory again.                                                         *)
PrepareFails ==
  /\ phase = "prepare"
  /\ phase' = "idle" /\ journal' = "none" /\ answer' = "failed"
  /\ UNCHANGED <<plan, at, cand, capt, check, linked, aside, op, marker, todo,
                 captured, installed, moved, ok, faults>>

Captures == {p \in Paths : op[p] \in {"replace", "delete"}}
Installs == {p \in Paths : op[p] \in {"replace", "create"}}

(* Candidates are sealed and the journal is written before the first mutation.  *)
WriteJournal ==
  /\ phase = "prepare"
  /\ journal' = "written" /\ phase' = "exec"
  /\ cand' = [p \in Paths |-> IF p \in Installs THEN New(p) ELSE Nothing]
  /\ todo' = {Step("capture", p) : p \in Captures}
             \cup {Step(do, p) : do \in {"link", "verify"}, p \in Installs}
             \cup {Step("commit", 0)}
  /\ UNCHANGED <<plan, at, capt, check, linked, aside, op, marker, captured, installed,
                 moved, ok, answer, faults>>

--------------------------------------------------------------------------------
(* _execute_transaction, one system call at a time.                             *)

(* Mutant: the old file is unlinked where it should be moved aside.             *)
CaptureByUnlink(p) ==
  /\ Doing("exec", "capture", p)
  /\ at' = [at EXCEPT ![p] = Nothing] /\ captured' = captured \cup {p}
  /\ Done("capture", p)
  /\ UNCHANGED <<plan, cand, capt, check, linked, aside, journal, op, marker, moved, ok,
                 installed, answer, faults>>

(* _capture_existing: rename the old file away, then look at what it was.       *)
Capture(p) ==
  /\ Doing("exec", "capture", p)
  /\ IF at[p] = Nothing
       THEN Abort(TRUE) /\ UNCHANGED <<at, capt>>
       ELSE /\ at' = [at EXCEPT ![p] = Nothing] /\ capt' = [capt EXCEPT ![p] = at[p]]
            /\ Then("capture", p, "captured") /\ UNCHANGED <<moved, ok>>
  /\ UNCHANGED <<plan, cand, check, linked, aside, journal, op, marker, captured,
                 installed, answer, faults>>

Captured(p) ==
  /\ Doing("exec", "captured", p)
  /\ IF capt[p] = Old(p)
       THEN /\ captured' = captured \cup {p} /\ Done("captured", p)
            /\ UNCHANGED <<at, capt, moved, ok>>
       ELSE /\ IF at[p] = Nothing
                 THEN /\ at' = [at EXCEPT ![p] = capt[p]]
                      /\ capt' = [capt EXCEPT ![p] = Nothing] /\ Abort(TRUE)
                 ELSE Abort(FALSE) /\ UNCHANGED <<at, capt>>
            /\ UNCHANGED captured
  /\ UNCHANGED <<plan, cand, check, linked, aside, journal, op, marker, installed,
                 answer, faults>>

(* Mutant: the candidate is renamed over whatever is at the target.             *)
LinkClobbering(p) ==
  /\ Doing("exec", "link", p)
  /\ at' = [at EXCEPT ![p] = cand[p]] /\ linked' = p
  /\ Then("link", p, "linked")
  /\ UNCHANGED <<plan, cand, capt, check, aside, journal, op, marker, captured,
                 installed, moved, ok, answer, faults>>

(* _link_no_clobber: link, compare identities, unlink the source, look again.   *)
Link(p) ==
  /\ Doing("exec", "link", p)
  /\ IF at[p] # Nothing
       THEN Abort(TRUE) /\ UNCHANGED <<at, linked>>
       ELSE /\ at' = [at EXCEPT ![p] = cand[p]] /\ linked' = p
            /\ Then("link", p, "linked") /\ UNCHANGED <<moved, ok>>
  /\ UNCHANGED <<plan, cand, capt, check, aside, journal, op, marker, captured,
                 installed, answer, faults>>

(* _preserve_link_conflict                                                      *)
PreserveConflict(p) ==
  /\ aside' = IF at[p] = Nothing THEN aside ELSE aside \cup {at[p]}
  /\ at' = [at EXCEPT ![p] = Nothing] /\ marker' = TRUE

Linked(p) ==
  /\ Doing("exec", "linked", p)
  /\ \/ /\ linked = p
        /\ cand' = [cand EXCEPT ![p] = Nothing] /\ linked' = Nothing
        /\ Then("linked", p, "alone") /\ UNCHANGED <<at, aside, marker, moved, ok>>
     \/ /\ linked # p /\ Abort(TRUE)
        /\ UNCHANGED <<at, cand, linked, aside, marker>>
     \/ /\ linked # p /\ at[p] # Nothing
        /\ PreserveConflict(p) /\ Abort(FALSE)
        /\ UNCHANGED <<cand, linked>>
  /\ UNCHANGED <<plan, capt, check, journal, op, captured, installed, answer, faults>>

LinkedAlone(p) ==
  /\ Doing("exec", "alone", p)
  /\ IF at[p] = New(p)
       THEN /\ installed' = installed \cup {p} /\ Done("alone", p)
            /\ UNCHANGED <<at, aside, marker, moved, ok>>
       ELSE PreserveConflict(p) /\ Abort(FALSE) /\ UNCHANGED installed
  /\ UNCHANGED <<plan, cand, capt, check, linked, journal, op, captured, answer, faults>>

(* Before the manifest, every installed file is renamed away, read and put back.*)
Verify(p) ==
  /\ Doing("exec", "verify", p)
  /\ IF at[p] = Nothing
       THEN Abort(TRUE) /\ UNCHANGED <<at, check>>
       ELSE /\ at' = [at EXCEPT ![p] = Nothing] /\ check' = [check EXCEPT ![p] = at[p]]
            /\ Then("verify", p, "verified") /\ UNCHANGED <<moved, ok>>
  /\ UNCHANGED <<plan, cand, capt, linked, aside, journal, op, marker, captured,
                 installed, answer, faults>>

Verified(p) ==
  /\ Doing("exec", "verified", p)
  /\ IF at[p] = Nothing
       THEN /\ at' = [at EXCEPT ![p] = check[p]] /\ check' = [check EXCEPT ![p] = Nothing]
            /\ IF check[p] = New(p) THEN Done("verified", p) /\ UNCHANGED <<moved, ok>>
                                    ELSE Abort(TRUE)
       ELSE Abort(FALSE) /\ UNCHANGED <<at, check>>
  /\ UNCHANGED <<plan, cand, capt, linked, aside, journal, op, marker, captured,
                 installed, answer, faults>>

(* _verify_complete_publication, with the lock and the journal still held.      *)
Whole == at[0] = New(0) /\ linked # 0
         /\ \A p \in Files : plan[p] # "delete" => at[p] = New(p) /\ linked # p

Commit ==
  /\ Doing("exec", "commit", 0)
  /\ IF Whole THEN /\ phase' = "published" /\ todo' = {} /\ UNCHANGED <<moved, ok>>
              ELSE Abort(TRUE)
  /\ UNCHANGED <<plan, disk, captured, installed, answer, faults>>

(* Any other exception between two steps: a full disk, an interrupt.            *)
StepFails ==
  /\ \E do \in {"capture", "link", "verify", "commit"}, p \in Paths : Doing("exec", do, p)
  /\ Abort(TRUE)
  /\ UNCHANGED <<plan, disk, captured, installed, answer, faults>>

--------------------------------------------------------------------------------
(* _rollback_transaction: each operation is undone as far as it can be.         *)

Undo(p) ==
  /\ Doing("undo", "undo", p)
  /\ IF p \notin (IF op[p] = "create" THEN installed ELSE captured)
       THEN Done("undo", p) /\ UNCHANGED <<at, aside, moved, ok>>
     ELSE IF p \notin installed
       THEN Then("undo", p, "restore") /\ UNCHANGED <<at, aside, moved, ok>>
     ELSE IF at[p] = Nothing
       THEN Done("undo", p) /\ ok' = FALSE /\ UNCHANGED <<at, aside, moved>>
       ELSE /\ moved' = at[p] /\ aside' = aside \cup {at[p]}
            /\ at' = [at EXCEPT ![p] = Nothing]
            /\ Then("undo", p, "undone") /\ UNCHANGED ok
  /\ UNCHANGED <<plan, cand, capt, check, linked, journal, op, marker, captured,
                 installed, answer, faults>>

(* Mutant: what was installed is thrown away without a look at it.              *)
UndoneUnseen(p) ==
  /\ Doing("undo", "undone", p)
  /\ moved' = Nothing /\ UNCHANGED ok
  /\ IF op[p] = "create" THEN Done("undone", p) ELSE Then("undone", p, "restore")
  /\ aside' = aside \ {moved}
  /\ UNCHANGED <<plan, at, cand, capt, check, linked, journal, op, marker, captured,
                 installed, answer, faults>>

(* _rollback_remove_installed looks at what it moved and puts back a stranger's.*)
Undone(p) ==
  /\ Doing("undo", "undone", p)
  /\ moved' = Nothing
  /\ IF moved = New(p)
       THEN /\ IF op[p] = "create" THEN Done("undone", p) ELSE Then("undone", p, "restore")
            /\ UNCHANGED <<at, aside, ok>>
       ELSE /\ Done("undone", p) /\ ok' = FALSE
            /\ IF at[p] = Nothing
                 THEN at' = [at EXCEPT ![p] = moved] /\ aside' = aside \ {moved}
                 ELSE UNCHANGED <<at, aside>>
  /\ UNCHANGED <<plan, cand, capt, check, linked, journal, op, marker, captured,
                 installed, answer, faults>>

Restore(p) ==
  /\ Doing("undo", "restore", p) /\ Done("restore", p)
  /\ IF at[p] = Nothing
       THEN /\ at' = [at EXCEPT ![p] = capt[p]] /\ capt' = [capt EXCEPT ![p] = Nothing]
            /\ UNCHANGED ok
       ELSE ok' = FALSE /\ UNCHANGED <<at, capt>>
  /\ UNCHANGED <<plan, cand, check, linked, aside, journal, op, marker, captured,
                 installed, moved, answer, faults>>

(* The undo is complete: clean up, or keep the evidence under a marker.         *)
UndoEnds ==
  /\ phase = "undo" /\ todo = {}
  /\ IF ok THEN phase' = "failed" /\ UNCHANGED <<marker, answer, todo, captured,
                                                 installed, moved, ok>>
           ELSE phase' = "idle" /\ marker' = TRUE /\ answer' = "failed" /\ Forget
  /\ UNCHANGED <<plan, at, cand, capt, check, linked, aside, journal, op, faults>>

--------------------------------------------------------------------------------
(* Mutant: a recovery answers the call it found interrupted.                    *)
CleanupAnswers ==
  /\ phase \in {"published", "failed", "recovered"}
  /\ cand' = [p \in Paths |-> Nothing] /\ capt' = cand' /\ check' = cand'
  /\ linked' = Nothing /\ aside' = {} /\ journal' = "none" /\ marker' = FALSE
  /\ phase' = "idle" /\ Forget
  /\ answer' = phase
  /\ UNCHANGED <<plan, at, op, faults>>

(* _cleanup_transaction removes the directory entry by entry, in any order.     *)

Cleaning == phase \in {"published", "failed", "recovered"}

Cleanup ==
  /\ Cleaning
  /\ cand' = [p \in Paths |-> Nothing] /\ capt' = cand' /\ check' = cand'
  /\ linked' = Nothing /\ aside' = {} /\ journal' = "none" /\ marker' = FALSE
  /\ phase' = "idle" /\ Forget
  /\ answer' = IF phase = "recovered" THEN answer ELSE phase
  /\ UNCHANGED <<plan, at, op, faults>>

(* A crash leaves any part of the directory behind.                             *)
CleanupCrashes ==
  /\ Cleaning /\ crashes < MaxCrashes /\ crashes' = crashes + 1
  /\ \E news, olds \in SUBSET Paths, swept \in BOOLEAN :
       /\ news \subseteq {p \in Paths : cand[p] # Nothing}
       /\ olds \subseteq {p \in Paths : capt[p] # Nothing}
       /\ cand' = [p \in Paths |-> IF p \in news THEN Nothing ELSE cand[p]]
       /\ capt' = [p \in Paths |-> IF p \in olds THEN Nothing ELSE capt[p]]
       /\ journal' = IF swept THEN "partial" ELSE journal
  /\ linked' = IF linked # Nothing /\ cand'[linked] = Nothing THEN Nothing ELSE linked
  /\ phase' = "idle" /\ Forget /\ Strand
  /\ UNCHANGED <<plan, at, check, aside, op, marker, answer, used, live, touched>>

Crash ==
  /\ phase # "idle" /\ ~Cleaning /\ crashes < MaxCrashes
  /\ crashes' = crashes + 1 /\ phase' = "idle" /\ Forget /\ Strand
  /\ UNCHANGED <<plan, disk, answer, used, live, touched>>

--------------------------------------------------------------------------------
(* _recover_pending_transactions, at the start of every later render or publish.*)
(* A marker or a directory without a journal is publish_recovery_required for   *)
(* good: no action is enabled then, until an operator repairs the directory.    *)

Recover ==
  /\ phase = "idle" /\ journal = "written" /\ ~marker
  /\ phase' = "recover" /\ todo' = {Step("recover", 0)}
  /\ UNCHANGED <<plan, disk, captured, installed, moved, ok, answer, faults>>

(* Mutant: recovery rolls back whatever the manifest says.                      *)
ManifestCaseBackwards ==
  IF check[0] = Nothing /\ linked # 0 THEN "back"
  ELSE IF linked = 0 THEN "finishLink" ELSE "putBack"

(* Mutant: a manifest that a crash caught in its capture is nobody's.           *)
ManifestCaseStrict ==
  IF check[0] # Nothing THEN "putBack"
  ELSE IF linked = 0 THEN "finishLink"
  ELSE IF at[0] = New(0) THEN (IF Whole THEN "forward" ELSE "damaged")
  ELSE IF at[0] = Old(0) THEN "back"
  ELSE "refuse"

(* _recover_transaction decides by the manifest.                                *)
ManifestCase ==
  IF check[0] # Nothing THEN "putBack"
  ELSE IF linked = 0 THEN "finishLink"
  ELSE IF at[0] = New(0) THEN (IF Whole THEN "forward" ELSE "damaged")
  ELSE IF at[0] = Old(0) \/ (at[0] = Nothing /\ capt[0] = Old(0)) THEN "back"
  ELSE "refuse"

(* _recover_rollback_operation                                                  *)
FileCase(p) ==
  IF check[p] # Nothing THEN (IF at[p] = Nothing THEN "putBack" ELSE "refuse")
  ELSE IF linked = p THEN "finishLink"
  ELSE IF op[p] = "create"
    THEN IF at[p] = Nothing THEN "done" ELSE IF at[p] = New(p) THEN "remove" ELSE "refuse"
  ELSE IF capt[p] = Nothing THEN (IF at[p] = Old(p) THEN "done" ELSE "refuse")
  ELSE IF capt[p] # Old(p) THEN "refuse"
  ELSE IF at[p] = Nothing THEN "restore"
  ELSE IF op[p] = "replace" /\ at[p] = New(p) THEN "remove"
  ELSE IF at[p] = Old(p) THEN "done" ELSE "refuse"

Case(p) == IF p = 0 THEN ManifestCase ELSE FileCase(p)

Recovering(p, case) == Doing("recover", "recover", p) /\ Case(p) = case

Refuse == phase' = "idle" /\ Forget /\ Strand

(* A verification was interrupted: the file it holds goes back, then is judged. *)
RecoverPutBack(p) ==
  /\ Recovering(p, "putBack")
  /\ at' = [at EXCEPT ![p] = check[p]] /\ check' = [check EXCEPT ![p] = Nothing]
  /\ IF check[p] = New(p) THEN UNCHANGED <<memory, stranded>> ELSE Refuse
  /\ UNCHANGED <<plan, cand, capt, linked, aside, journal, op, marker, answer, crashes,
                 used, live, touched>>

(* _finish_interrupted_link                                                     *)
RecoverFinishLink(p) ==
  /\ Recovering(p, "finishLink")
  /\ cand' = [cand EXCEPT ![p] = Nothing] /\ linked' = Nothing
  /\ UNCHANGED <<plan, at, capt, check, aside, journal, op, marker, memory, answer, faults>>

RecoverForward ==
  /\ Recovering(0, "forward")
  /\ phase' = "recovered" /\ todo' = {}
  /\ UNCHANGED <<plan, disk, captured, installed, moved, ok, answer, faults>>

RecoverDamaged ==
  /\ Recovering(0, "damaged")
  /\ marker' = TRUE /\ phase' = "idle" /\ Forget
  /\ UNCHANGED <<plan, at, cand, capt, check, linked, aside, journal, op, answer, faults>>

RecoverBack ==
  /\ Recovering(0, "back")
  /\ todo' = {Step("recover", p) : p \in Operations} \cup {Step("finish", 0)}
  /\ UNCHANGED <<plan, disk, phase, captured, installed, moved, ok, answer, faults>>

RecoverDone(p) ==
  /\ Recovering(p, "done") /\ Done("recover", p)
  /\ UNCHANGED <<plan, disk, captured, installed, moved, ok, answer, faults>>

RecoverRestore(p) ==
  /\ Recovering(p, "restore") /\ Done("recover", p)
  /\ at' = [at EXCEPT ![p] = capt[p]] /\ capt' = [capt EXCEPT ![p] = Nothing]
  /\ UNCHANGED <<plan, cand, check, linked, aside, journal, op, marker, captured,
                 installed, moved, ok, answer, faults>>

(* _recover_remove_new: rename, look, put back what is not ours.                *)
RecoverRemove(p) ==
  /\ Recovering(p, "remove") /\ Then("recover", p, "remove")
  /\ UNCHANGED <<plan, disk, captured, installed, moved, ok, answer, faults>>

RecoverRemoving(p) ==
  /\ Doing("recover", "remove", p)
  /\ IF at[p] = Nothing
       THEN Refuse /\ UNCHANGED <<at, aside>>
       ELSE /\ moved' = at[p] /\ aside' = aside \cup {at[p]}
            /\ at' = [at EXCEPT ![p] = Nothing] /\ Then("remove", p, "recovered")
            /\ UNCHANGED <<captured, installed, ok, stranded>>
  /\ UNCHANGED <<plan, cand, capt, check, linked, journal, op, marker, answer, crashes,
                 used, live, touched>>

RecoverRemoved(p) ==
  /\ Doing("recover", "recovered", p)
  /\ IF moved # New(p)
       THEN /\ Refuse /\ UNCHANGED capt
            /\ IF at[p] = Nothing
                 THEN at' = [at EXCEPT ![p] = moved] /\ aside' = aside \ {moved}
                 ELSE UNCHANGED <<at, aside>>
       ELSE /\ Done("recovered", p) /\ moved' = Nothing
            /\ IF op[p] = "replace" /\ at[p] = Nothing
                 THEN /\ at' = [at EXCEPT ![p] = capt[p]]
                      /\ capt' = [capt EXCEPT ![p] = Nothing]
                 ELSE UNCHANGED <<at, capt>>
            /\ UNCHANGED <<aside, captured, installed, ok, stranded>>
  /\ UNCHANGED <<plan, cand, check, linked, journal, op, marker, answer, crashes, used,
                 live, touched>>

RecoverRefuses(p) ==
  /\ Recovering(p, "refuse") /\ Refuse
  /\ UNCHANGED <<plan, disk, answer, crashes, used, live, touched>>

RecoverFinish ==
  /\ Doing("recover", "finish", 0)
  /\ phase' = "recovered" /\ todo' = {}
  /\ IF at[0] = Nothing /\ capt[0] # Nothing
       THEN /\ at' = [at EXCEPT ![0] = capt[0]] /\ capt' = [capt EXCEPT ![0] = Nothing]
       ELSE UNCHANGED <<at, capt>>
  /\ UNCHANGED <<plan, cand, check, linked, aside, journal, op, marker, captured,
                 installed, moved, ok, answer, faults>>

--------------------------------------------------------------------------------
(* UserEdits: a file is saved over, created or removed.  live is what the user  *)
(* still wants: an edit leaves it when the user edits the same file again.      *)

Displaces(p, e) ==
  /\ e \in Edits \ used /\ used' = used \cup {e} /\ touched' = touched \cup {p}
  /\ linked' = IF linked = p THEN Nothing ELSE linked

Edit(p, e) ==
  /\ Displaces(p, e)
  /\ at' = [at EXCEPT ![p] = e] /\ live' = (live \ {at[p]}) \cup {e}
  /\ UNCHANGED <<plan, cand, capt, check, aside, journal, op, marker, memory, answer,
                 crashes, stranded>>

Discard(p, e) ==
  /\ at[p] # Nothing /\ Displaces(p, e)
  /\ at' = [at EXCEPT ![p] = Nothing] /\ live' = live \ {at[p]}
  /\ UNCHANGED <<plan, cand, capt, check, aside, journal, op, marker, memory, answer,
                 crashes, stranded>>

Publisher ==
  \/ Publish \/ PrepareFails \/ WriteJournal
  \/ \E p \in Paths : \/ Capture(p) \/ Captured(p) \/ Link(p) \/ Linked(p)
                      \/ LinkedAlone(p) \/ Verify(p) \/ Verified(p)
                      \/ Undo(p) \/ Undone(p) \/ Restore(p)
  \/ Commit \/ StepFails \/ UndoEnds \/ Cleanup

Recovery ==
  \/ Recover \/ RecoverForward \/ RecoverDamaged \/ RecoverBack \/ RecoverFinish
  \/ \E p \in Paths : \/ RecoverPutBack(p) \/ RecoverFinishLink(p) \/ RecoverRefuses(p)
  \/ \E p \in Files : \/ RecoverDone(p) \/ RecoverRestore(p) \/ RecoverRemove(p)
                      \/ RecoverRemoving(p) \/ RecoverRemoved(p)

UserEdits == \E p \in Files, e \in Edits : Edit(p, e) \/ Discard(p, e)

Next == Publisher \/ Recovery \/ Crash \/ CleanupCrashes \/ UserEdits

Spec == Init /\ [][Next]_vars

(* A running publisher runs on, and a later call recovers: export jobs are      *)
(* retried and every render starts with recovery.                               *)
Fairness == WF_vars(Publisher) /\ WF_vars(Recovery)

FairSpec == Spec /\ Fairness

--------------------------------------------------------------------------------
(* No user touched the library and no directory awaits recovery: the library is *)
(* one tree, down to the last file.                                             *)
RestingTreeIsWhole ==
  phase = "idle" /\ journal = "none" /\ touched = {} =>
    \/ \A p \in Paths : at[p] = Old(p)
    \/ \A p \in Paths : at[p] = New(p)

(* Until the desired manifest is in, the predecessor's bytes of every file the  *)
(* user left alone are in the library or in the captures, whatever crashed.     *)
OldBytesUntilCommit ==
  at[0] # New(0) /\ check[0] = Nothing =>
    \A p \in Files \ touched : Old(p) # Nothing => Old(p) \in {at[p], capt[p], check[p], moved}

Kept(e) == \/ \E p \in Paths : e \in {at[p], capt[p], check[p]}
           \/ e \in aside

(* User-modified bytes are preserved: still in the library, or in the evidence  *)
(* of a transaction.  Excepted are bytes that a crash left in rollback/ or      *)
(* recovery/, which the recovery's cleanup deletes: without the exception the   *)
(* property is false of the code.                                               *)
UserBytesKept == \A e \in live \ stranded : Kept(e)

(* What validate_published accepts as the desired tree, once no publisher runs, *)
(* stays: the database may finalize it, though recovery has not run yet.        *)
Validates == phase = "idle" /\ Whole
ValidatedTreeIsNeverUndone ==
  [](Validates /\ touched = {} => [](phase = "idle" /\ touched = {} => Whole))

(* The abstract publication.  The manifest commits once this publisher can no   *)
(* longer undo it: by its last look, or by its death.                           *)
Committed == phase \notin {"exec", "undo"} /\ "new" \in {at[0], check[0]}
A == INSTANCE AtomicPublish WITH tree <- IF Committed THEN "new" ELSE "old"
PublishIsAtomic == A!Spec

(* An interrupted transaction is rolled forward or back by later calls, unless  *)
(* the crash took its journal or a user's edit needs an operator.               *)
InterruptedPublishSettles ==
  journal = "written" ~> (journal # "written" \/ touched # {})
================================================================================
