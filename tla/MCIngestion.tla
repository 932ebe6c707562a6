------------------------------ MODULE MCIngestion ------------------------------
(* Three records upstream, the last two of one date.                             *)
EXTENDS Ingestion, TLC

MCDates == <<1, 2, 2>>

(* Bound: one capture outside the scheduler, of something, to be ingested as      *)
(* often as one likes.                                                           *)
OneCrawlByHand ==
  LET made == {p \in Runs : MadeByHand(p)}
  IN Cardinality(made) <= 1 /\ \A p \in made : out[p].records # {}
================================================================================
