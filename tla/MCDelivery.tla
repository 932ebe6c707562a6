------------------------------- MODULE MCDelivery -------------------------------
(* An attempt is named by its number.                                            *)
EXTENDS Delivery

MCTokens == 1..MaxAttempts
================================================================================
