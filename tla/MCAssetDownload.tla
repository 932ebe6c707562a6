---------------------------- MODULE MCAssetDownload ----------------------------
(* A finite instance of AssetDownload for TLC.  The lock file admits one worker *)
(* at a time and an idle one remembers nothing, so one worker is all of them.   *)
EXTENDS AssetDownload, TLC

CONSTANTS c1, c2

VARIABLE calm   \* no fault happens any more; it may never come to that

(* Which of the unused tokens an attempt draws makes no difference.  Symmetry   *)
(* would say so too, but not for a liveness property.                           *)
DrawsFirstToken ==
  \A w \in Workers :
    worker'[w].token \in FreshTokens =>
      worker'[w].token = CHOOSE token \in FreshTokens : TRUE

FairInit == Init /\ calm = FALSE

FairNext ==
  \/ (World \/ \E w \in Workers : Run(w)) /\ DrawsFirstToken /\ UNCHANGED calm
  \/ Fault /\ ~calm /\ UNCHANGED calm
  \/ ~calm /\ calm' = TRUE /\ UNCHANGED vars

FairSpec == FairInit /\ [][FairNext]_<<vars, calm>> /\ Fairness

(* However many attempts crash, time out, lose their generation and are         *)
(* recovered before the faults end, an asset whose upstream serves acceptable   *)
(* media ends verified or failed for good.                                      *)
DownloadSettles ==
  <>calm /\ [](upstream \notin Unacceptable)
    => <>[](asset.status \in {"verified", "failed_terminal"})

(* docs/architecture.md: "A crashed worker makes the Job reclaimable only after *)
(* lease expiry".  Once the faults end, the Job of the row's generation does    *)
(* not stay running under an expired lease.                                     *)
CrashedJobIsReclaimed ==
  <>calm =>
    \A g \in Generations :
      (asset.gen = g /\ Expired(job[g])) ~> ~(asset.gen = g /\ Expired(job[g]))
================================================================================
