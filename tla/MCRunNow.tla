-------------------------------- MODULE MCRunNow --------------------------------
(* Scheduler with a record of the run-now requests no later cycle has answered. *)
EXTENDS MCScheduler

VARIABLE asked   \* subscriptions whose run_now came after their last materialisation

RunNowInit == Init /\ asked = {}

Answered == {s \in asked : sub'[s].revision = sub[s].revision}

RunNowNext ==
  \/ \E s \in Subs : RunNow(s) /\ asked' = asked \cup {s}
  \/ (SchedulerNext \/ WorkerNext) /\ asked' = Answered

RunNowSpec == RunNowInit /\ [][RunNowNext]_<<vars, asked>>

(* run_now "makes an enabled subscription immediately due", and run-now affects *)
(* future materialisation: an accepted request stays due until a later cycle is *)
(* materialised for it.                                                         *)
RunNowIsHonoured == \A s \in asked : sub[s].due
=================================================================================
