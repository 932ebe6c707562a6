------------------------------ MODULE CycleLedger ------------------------------
(* What the scheduler promises about a subscription, without workers, leases,   *)
(* Runs, retries or lanes (docs/architecture.md, "Durable subscription          *)
(* scheduler"): every schedule revision is opened exactly once and in order, at *)
(* most one cycle is open, every open cycle gets at most one verdict that never *)
(* changes, and a success owes exactly one delivery from that very moment on.   *)
EXTENDS Integers

CONSTANTS Subs, MaxRevision

Cycles   == Subs \X (0..MaxRevision - 1)
Verdicts == {"succeeded", "failed", "cancelled"}

VARIABLES revision,  \* [Subs -> 0..MaxRevision]
          verdict,   \* [Cycles -> {"none", "open"} \cup Verdicts]
          delivery   \* [Cycles -> {"none", "owed", "over"}]

ledger == <<revision, verdict, delivery>>

Init ==
  /\ revision = [s \in Subs |-> 0]
  /\ verdict = [c \in Cycles |-> "none"]
  /\ delivery = [c \in Cycles |-> "none"]

Open(s) ==
  /\ revision[s] < MaxRevision
  /\ \A c \in Cycles : c[1] = s => verdict[c] # "open"
  /\ revision' = [revision EXCEPT ![s] = @ + 1]
  /\ verdict' = [verdict EXCEPT ![<<s, revision[s]>>] = "open"]
  /\ UNCHANGED delivery

Judge(c, v) ==
  /\ verdict[c] = "open"
  /\ verdict' = [verdict EXCEPT ![c] = v]
  /\ delivery' = IF v = "succeeded" THEN [delivery EXCEPT ![c] = "owed"] ELSE delivery
  /\ UNCHANGED revision

(* A removal may end several pending deliveries at once, and the cycle with it. *)
Deliver(done) ==
  /\ \A c \in done : delivery[c] = "owed"
  /\ delivery' = [c \in Cycles |-> IF c \in done THEN "over" ELSE delivery[c]]
  /\ \/ UNCHANGED verdict
     \/ \E c \in Cycles : verdict[c] = "open" /\ verdict' = [verdict EXCEPT ![c] = "cancelled"]
  /\ UNCHANGED revision

Next ==
  \/ \E s \in Subs : Open(s)
  \/ \E c \in Cycles, v \in Verdicts : Judge(c, v)
  \/ \E done \in SUBSET Cycles : Deliver(done)

Spec == Init /\ [][Next]_ledger
================================================================================
