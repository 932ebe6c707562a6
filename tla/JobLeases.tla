------------------------------- MODULE JobLeases -------------------------------
(* The generic durable Job of infrastructure/db/repositories.py (JobRepository),*)
(* under which assets are downloaded, authors are exported and pipelines run.   *)
(* Every operator is one UPDATE of the repository as a function from the Job    *)
(* row to the next row; the component modules apply them inside transactions.   *)
(*                                                                              *)
(* A clock comparison is a timer that has fired: a lease is "live" or           *)
(* "expired" (lease_expires_at <= now).  The lease owner is left out: the token *)
(* is drawn anew at every claim and takeover, and no two workers ever hold the  *)
(* same one.  No caller passes retry_at or a later available_at for these Jobs  *)
(* except the pipeline (see there), so a requeued Job is available at once.     *)
EXTENDS Integers

CONSTANTS Tokens,       \* new_uuid() of a claim or a takeover
          NoToken,      \* lease_token IS NULL
          MaxAttempts   \* max_attempts of the Job

ASSUME JobAssumption == NoToken \notin Tokens /\ MaxAttempts \in Nat \ {0}

JobStatuses ==
  {"absent", "queued", "claimed", "running", "failed_retryable", "failed_terminal",
   "succeeded"}

JobErrors == {"none", "lease_expired", "other"}   \* last_error_code

JobRows == [status   : JobStatuses,
            attempts : 0..MaxAttempts,
            lease    : {"none", "live", "expired"},
            token    : Tokens \cup {NoToken},
            error    : JobErrors]

NoJobRow == [status |-> "absent", attempts |-> 0, lease |-> "none",
             token |-> NoToken, error |-> "none"]

Unleased(row, status) == [row EXCEPT !.status = status, !.lease = "none", !.token = NoToken]

Leased(row, token) == [row EXCEPT !.lease = "live", !.token = token]

(* enqueue: the natural key makes it idempotent.                                *)
Enqueued(row) == IF row.status = "absent" THEN [row EXCEPT !.status = "queued"] ELSE row

Expired(row) == row.status \in {"claimed", "running"} /\ row.lease = "expired"

(* reclaim_expired                                                              *)
Reclaimed(row) ==
  IF ~Expired(row) THEN row
  ELSE [Unleased(row, IF row.attempts < MaxAttempts THEN "failed_retryable" ELSE "failed_terminal")
          EXCEPT !.error = "lease_expired"]

(* Mutant: a claim that requeues whatever failed.                               *)
ClaimableAnyFailure(row) ==
  Reclaimed(row).status \in {"queued", "failed_retryable", "failed_terminal"}

(* claim requeues a retryable Job and takes a queued one, if attempts are left. *)
Claimable(row) ==
  Reclaimed(row).status \in {"queued", "failed_retryable"} /\ row.attempts < MaxAttempts

Claimed(row, token) ==
  [Leased(Reclaimed(row), token) EXCEPT !.status = "claimed", !.attempts = @ + 1]

(* start, complete, fail and renew_lease demand a live lease under the token;   *)
(* renew_unreclaimed_lease only that nobody has reclaimed it.                   *)
Owns(row, token) == row.token = token /\ row.lease = "live"
OwnsUnreclaimed(row, token) == row.token = token /\ row.status = "running"

Started(row)   == [row EXCEPT !.status = "running"]
Renewed(row)   == [row EXCEPT !.lease = "live"]
Completed(row) == [Unleased(row, "succeeded") EXCEPT !.error = "none"]

(* Mutant: retryable whether or not an attempt is left.                         *)
FailedHopefully(row, retryable) ==
  [Unleased(row, IF retryable THEN "failed_retryable" ELSE "failed_terminal")
     EXCEPT !.error = "other"]

Failed(row, retryable) ==
  [Unleased(row, IF retryable /\ row.attempts < MaxAttempts
                   THEN "failed_retryable" ELSE "failed_terminal")
     EXCEPT !.error = "other"]

(* takeover_expired_running_lease: the expired holder's exact token gives way   *)
(* to a new one, within the same attempt.                                       *)
CanTakeOver(row, token) == row.status = "running" /\ row.token = token /\ row.lease = "expired"

(* resume_reclaimed_prepared_result: a Job that failed for its expired lease    *)
(* alone runs again, within the same attempt.                                   *)
CanResume(row, status) ==
  /\ row.status = status /\ row.error = "lease_expired" /\ row.token = NoToken
  /\ IF status = "failed_retryable" THEN row.attempts < MaxAttempts
                                    ELSE row.attempts >= MaxAttempts

TakenOver(row, token) == Leased(row, token)
Resumed(row, token)   == [Leased(row, token) EXCEPT !.status = "running", !.error = "none"]

(* Mutant: a live lease does not protect its owner.                             *)
CanRecoverAnyone(row) == row.attempts >= 1 /\ row.status # "succeeded"

(* complete_recovered_publication: whatever the row says now is what the caller  *)
(* read in the same transaction; only a live owner stands in the way.            *)
CanRecover(row) ==
  /\ row.attempts >= 1
  /\ \/ Expired(row)
     \/ row.status \in {"queued", "failed_retryable", "failed_terminal"}

Lapsed(row) == [row EXCEPT !.lease = "expired"]
================================================================================
