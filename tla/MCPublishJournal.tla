-------------------------- MODULE MCPublishJournal -----------------------------
(* Two plans: a first publication, and a successor that replaces one file and   *)
(* drops another; a third keeps a file and adds one.                            *)
EXTENDS PublishJournal, TLC

CONSTANTS u1, u2   \* the edits of the users

MCPlans ==
  { (0 :> "create")  @@ (1 :> "create"),
    (0 :> "replace") @@ (1 :> "replace") @@ (2 :> "delete"),
    (0 :> "replace") @@ (1 :> "keep") @@ (2 :> "create") }
MCEdits == {u1, u2}
================================================================================
