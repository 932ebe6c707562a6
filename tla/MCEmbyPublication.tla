--------------------------- MODULE MCEmbyPublication ---------------------------
(* EmbyPublication on two snapshots of one author: enough for a tree to go and  *)
(* to come back.                                                                *)
EXTENDS EmbyPublication, TLC

CONSTANTS w1, w2

Symmetry == Permutations({w1, w2})
================================================================================
