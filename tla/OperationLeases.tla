---------------------------- MODULE OperationLeases ----------------------------
(* The durable Operation of infrastructure/db/operation_repository.py: each     *)
(* operator is one UPDATE of OperationRepository as a function from the row to  *)
(* the next row; the component modules apply them inside transactions.          *)
(*                                                                              *)
(* An Operation is claimed once, in the transaction that creates it, so its     *)
(* state is never seen queued and its lease token never changes: to own it is   *)
(* to find it running.  No owner's write looks at lease_expires_at except the   *)
(* fence of an effect.  A clock comparison is a timer that has fired, and the   *)
(* two failed states, told apart by their retry advice only, are one.           *)
EXTENDS Integers

Kinds == {"account-login", "account-cookie-login"}

TerminalStates == {"succeeded", "failed", "cancelled", "interrupted"}

OperationRows == [kind      : Kinds,
                  state     : {"absent", "running"} \cup TerminalStates,
                  lease     : {"none", "live", "expired"},
                  cancelled : BOOLEAN]      \* cancel_requested_at is set

NoOperation(kind) == [kind |-> kind, state |-> "absent", lease |-> "none", cancelled |-> FALSE]

(* create_or_replay and claim, in one transaction                               *)
Claimed(row) == [row EXCEPT !.state = "running", !.lease = "live"]

Running(row) == row.state = "running"

(* heartbeat revives an expired lease as long as nobody has reconciled it.      *)
Beaten(row) == [row EXCEPT !.lease = "live"]
Lapsed(row) == [row EXCEPT !.lease = "expired"]

(* request_cancel                                                               *)
CancelRequested(row) == [row EXCEPT !.cancelled = TRUE]

(* _finish, and the terminal write of reconcile                                 *)
Finished(row, state) == [row EXCEPT !.state = state, !.lease = "none"]

(* Mutant: the fence of an effect forgets the request to cancel.                *)
FencedNoCancel(row) == Running(row) /\ row.lease = "live"

(* The fence of commit_effect                                                   *)
Fenced(row) == Running(row) /\ row.lease = "live" /\ ~row.cancelled

(* list_expired_candidates                                                      *)
Recoverable(row) == Running(row) /\ row.lease = "expired"
================================================================================
