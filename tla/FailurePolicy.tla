------------------------------ MODULE FailurePolicy ------------------------------
(* The closed failure vocabulary of scheduler/policy.py.  classify_failure maps  *)
(* every code a handler or the worker may report to a disposition and to the     *)
(* question whether the failure counts against the lane circuits.  Codes with    *)
(* the same classification are one value here, named for the class:              *)
(*   temporary    temporary_upstream, rate_limited, upstream_*, and every code   *)
(*                outside the vocabulary (unexpected_handler_failure)            *)
(*   account_busy account_busy                                                   *)
(*   auth         auth_expired, credentials_unavailable                          *)
(*   user         captcha_required, interactive_required, qr_required, ...       *)
(*   conflict     content_ownership_conflict                                     *)
(*   unsupported  bili_dynamic_unsupported, ..._identity_mismatch, ..._invalid   *)
(*   terminal     configuration_invalid, schema_invalid, output_security_failed, *)
(*                scheduler_heartbeat_failed, scheduler_finalize_failed, ...     *)

Failures == {"temporary", "account_busy", "auth", "user", "conflict", "unsupported",
             "terminal"}

Disposition ==
  [temporary    |-> "retry",
   account_busy |-> "retry",
   auth         |-> "waiting_auth",
   user         |-> "waiting_user",
   conflict     |-> "terminal",
   unsupported  |-> "terminal",
   terminal     |-> "terminal"]

AffectsCircuit(code) == code \in {"temporary", "auth", "terminal"}

Retryable(code) == Disposition[code] = "retry"

Waiting(code) == Disposition[code] \in {"waiting_auth", "waiting_user"}
==================================================================================
