---------------------------- MODULE MCAccountLogin ----------------------------
(* AccountLogin with model values for the lock holders that are no Operation.   *)
EXTENDS AccountLogin, TLC
================================================================================
