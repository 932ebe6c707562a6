----------------------------- MODULE AtomicPublish -----------------------------
(* What exporters/emby/exporter.py promises its caller about one publication of *)
(* an author's tree over a predecessor: the directory is the predecessor until  *)
(* one instant and the desired tree for ever after; a caller is told "published"*)
(* only after that instant, and is told "failed" only when it has not come.     *)
(* The instant may come with no answer at all: a crash may be the commit.       *)
VARIABLES tree,     \* "old" | "new": the tree the directory stands for
          answer    \* what publish last returned: "none" | "published" | "failed"

vars == <<tree, answer>>

Init == tree = "old" /\ answer = "none"

Commit  == tree = "old" /\ tree' = "new" /\ UNCHANGED answer
Succeed == tree = "new" /\ answer' = "published" /\ UNCHANGED tree
Fail    == tree = "old" /\ answer' = "failed" /\ UNCHANGED tree

Next == Commit \/ Succeed \/ Fail

Spec == Init /\ [][Next]_vars
================================================================================
