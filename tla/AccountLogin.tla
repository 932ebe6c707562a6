------------------------------ MODULE AccountLogin ------------------------------
(* Logging one MediaCrawler account in.  Four parties write the account:        *)
(*   - Operations (application/operations.py), whose thread runs a QR login     *)
(*     (application/authentication.py) or a cookie login                        *)
(*     (application/cookie_login.py), while the monitor thread keeps the lease, *)
(*     an operator may cancel, and the process may die;                         *)
(*   - the reconciler of expired Operations;                                    *)
(*   - the supervisor's sweep of expired login sessions;                        *)
(*   - a scheduled capture that finds the saved session expired.                *)
(* The child that drives the browser profile runs under a file lock of the      *)
(* account, inherited by the child itself: it outlives a dead service until the *)
(* child is gone.                                                               *)
(*                                                                              *)
(* Account states that accept the same commands are one: "required" stands for  *)
(* unknown, required and failed.                                                *)
EXTENDS OperationLeases

CONSTANTS MaxOps,       \* bound of the number of Operations
          Supervisor,   \* the sweeping process
          Free          \* nobody holds the account lock

ASSUME LoginAssumption ==
  MaxOps \in Nat \ {0} /\ Supervisor \notin Nat /\ Free \notin Nat \cup {Supervisor}

VARIABLES
  op,         \* the Operations of the account, in the order of submission
  login,      \* what the Operation did: its login session, or its credential
  account,    \* the Account row
  lastLogin,  \* history: the Operation that wrote the account last
  lock,       \* holder of the account's file lock
  proc,       \* the threads of the Operations and the sweep
  listed      \* Operations in the hands of a reconciler, rows not written since

vars == <<op, login, account, lastLogin, lock, proc, listed>>

--------------------------------------------------------------------------------
(* States *)

OpIds == 1..MaxOps
Sweepers == OpIds \cup {Supervisor}

(* "credential" is a history value: the cookie of this Operation is published.  *)
LoginStatuses == {"none", "waiting_user", "succeeded", "expired", "failed", "cancelled",
                  "credential"}

(* The deadline of a session that has ended means nothing.                      *)
Closed(status) == [status |-> status, due |-> FALSE]

Accounts == [method : {"qr", "saved_session", "cookie"},
             status : {"required", "authenticating", "authenticated", "expired"}]

Points == {"idle", "start", "reconcile", "listed", "recover", "scope", "lock", "locked",
           "child", "returned", "finish", "late", "abort", "publish", "finishing",
           "deferred", "retained", "orphan"}

Results == {"none", "authenticated", "succeeded", "expired", "failed", "cancelled"}

Threads == [pc        : Points,
            cancelled : BOOLEAN,            \* handle.cancellation
            result    : Results,            \* of the child, then the terminal intent
            due       : BOOLEAN,            \* observed.expires_at <= finished_at
            candidate : {0} \cup OpIds,     \* ExpiredLoginSessionCandidate
            fresh     : BOOLEAN]            \* the account is still as observed

Idle == [pc |-> "idle", cancelled |-> FALSE, result |-> "none", due |-> FALSE,
         candidate |-> 0, fresh |-> FALSE]

Sweeping == [Idle EXCEPT !.pc = "reconcile"]

TypeOK ==
  /\ op \in [OpIds -> OperationRows]
  /\ login \in [OpIds -> [status : LoginStatuses, due : BOOLEAN]]
  /\ account \in Accounts
  /\ lastLogin \in {0} \cup OpIds
  /\ lock \in OpIds \cup {Supervisor, Free}
  /\ proc \in [Sweepers -> Threads]
  /\ listed \subseteq OpIds

Init ==
  /\ op = [o \in OpIds |-> NoOperation("account-login")]
  /\ login = [o \in OpIds |-> Closed("none")]
  /\ account = [method |-> "qr", status |-> "required"]
  /\ lastLogin = 0
  /\ lock = Free
  /\ proc = [p \in Sweepers |-> IF p = Supervisor THEN Sweeping ELSE Idle]
  /\ listed = {}

Active(o) == login[o].status = "waiting_user"
ActiveLogins == {o \in OpIds : Active(o)}

Goto(p, pc) == proc' = [proc EXCEPT ![p].pc = pc]
Ended(result) == [Idle EXCEPT !.pc = "finishing", !.result = result]
End(p, result) == proc' = [proc EXCEPT ![p] = Ended(result)]

(* Every committed change of the account row moves auth_revision, which the     *)
(* cookie logins in flight have observed.                                       *)
Stale(threads) == [p \in Sweepers |-> [threads[p] EXCEPT !.fresh = FALSE]]

(* A write of the row invalidates the candidate a reconciler has listed.        *)
Touched(o) == listed' = listed \ {o}

--------------------------------------------------------------------------------
(* OperationCoordinator: submission and the end of a thread *)

(* submit: one transaction, under the exclusive key of the account; then the    *)
(* thread, whose start may fail.                                                *)
Submit(o, kind) ==
  /\ op[o].state = "absent" /\ \A q \in OpIds : q < o => op[q].state # "absent"
  /\ \A q \in OpIds : ~Running(op[q])
  /\ proc[o].pc = "idle"
  /\ op' = [op EXCEPT ![o] = Claimed(NoOperation(kind))]
  /\ \E end \in {"start", "finishing"} :
       IF end = "finishing" THEN End(o, "failed")
       ELSE proc' = [proc EXCEPT ![o] = [Idle EXCEPT !.pc = "start",
                                                     !.fresh = (kind = "account-cookie-login")]]
  /\ UNCHANGED <<login, account, lastLogin, lock, listed>>

(* _execute_bound, and the first phase a QR login reports.                      *)
Start(o) ==
  /\ proc[o].pc = "start"
  /\ IF proc[o].cancelled THEN End(o, "cancelled") /\ UNCHANGED listed
     ELSE IF op[o].kind = "account-cookie-login" THEN Goto(o, "lock") /\ UNCHANGED listed
     ELSE IF ~Running(op[o]) THEN End(o, "failed") /\ UNCHANGED listed
     ELSE /\ IF op[o].cancelled THEN End(o, "cancelled") ELSE Goto(o, "reconcile")
          /\ Touched(o)
  /\ UNCHANGED <<op, login, account, lastLogin, lock>>

(* Mutant: the end of a thread is written over whatever state is found.         *)
FinishIntentAnyState(o) ==
  /\ proc[o].pc \in {"finishing", "deferred"}
  /\ op' = [op EXCEPT ![o] = Finished(@, proc[o].result)]
  /\ proc' = [proc EXCEPT ![o] = [Idle EXCEPT !.pc = IF lock = o THEN "retained" ELSE "idle"]]
  /\ Touched(o)
  /\ UNCHANGED <<login, account, lastLogin, lock>>

(* _finish_intent, by the thread or by the monitor; a reconciled Operation is   *)
(* left as it is.  A cookie login whose child may still run keeps its lock.     *)
FinishIntent(o) ==
  /\ proc[o].pc \in {"finishing", "deferred"}
  /\ IF Running(op[o])
       THEN /\ op' = [op EXCEPT ![o] = Finished(@, proc[o].result)]
            /\ Touched(o)
       ELSE UNCHANGED <<op, listed>>
  /\ proc' = [proc EXCEPT ![o] = [Idle EXCEPT !.pc = IF lock = o THEN "retained" ELSE "idle"]]
  /\ UNCHANGED <<login, account, lastLogin, lock>>

(* _defer_terminal: the store failed, the monitor will try again.               *)
DeferTerminal(o) ==
  /\ proc[o].pc = "finishing"
  /\ Goto(o, "deferred")
  /\ UNCHANGED <<op, login, account, lastLogin, lock, listed>>

--------------------------------------------------------------------------------
(* Recovery of an expired login session: the sweep, and every QR login first *)

(* list_expired_mediacrawler_qr_candidates                                      *)
ListExpired(p) ==
  LET due == {o \in ActiveLogins : login[o].due}
  IN /\ proc[p].pc = "reconcile"
     /\ \/ due = {} /\ p # Supervisor /\ Goto(p, "scope")
        \/ \E o \in due : proc' = [proc EXCEPT ![p].pc = "listed", ![p].candidate = o]
     /\ UNCHANGED <<op, login, account, lastLogin, lock, listed>>

(* Mutant: the session is recovered without the account lock.                   *)
LockExpiredNever(p) ==
  /\ proc[p].pc = "listed"
  /\ Goto(p, "recover")
  /\ UNCHANGED <<op, login, account, lastLogin, lock, listed>>

LockExpired(p) ==
  /\ proc[p].pc = "listed"
  /\ \/ lock = Free /\ lock' = p /\ Goto(p, "recover")
     \/ /\ lock # Free /\ UNCHANGED lock
        /\ IF p = Supervisor THEN proc' = [proc EXCEPT ![p] = Sweeping] ELSE End(p, "failed")
  /\ UNCHANGED <<op, login, account, lastLogin, listed>>

(* _current_session_condition                                                   *)
Current(o) == /\ ActiveLogins = {o}
              /\ account = [method |-> "qr", status |-> "authenticating"]

(* Mutant: the session expires and its account is left to the next login.       *)
RecoverExpiredSessionOnly(p) ==
  LET o == proc[p].candidate
  IN /\ proc[p].pc = "recover"
     /\ login' = IF Current(o) /\ login[o].due
                   THEN [login EXCEPT ![o] = Closed("expired")] ELSE login
     /\ lock' = IF lock = p THEN Free ELSE lock
     /\ proc' = [proc EXCEPT ![p].pc = IF p = Supervisor THEN "reconcile" ELSE "scope"]
     /\ UNCHANGED <<op, account, lastLogin, listed>>

(* recover_expired_mediacrawler_qr, and the release of the lock.                *)
RecoverExpired(p) ==
  LET o == proc[p].candidate
      next == [proc EXCEPT ![p].pc = IF p = Supervisor THEN "reconcile" ELSE "scope",
                           ![p].candidate = 0]
  IN /\ proc[p].pc = "recover"
     /\ IF Current(o) /\ login[o].due
          THEN /\ login' = [login EXCEPT ![o] = Closed("expired")]
               /\ account' = [account EXCEPT !.status = "required"]
               /\ proc' = Stale(next)
          ELSE proc' = next /\ UNCHANGED <<login, account>>
     /\ lock' = IF lock = p THEN Free ELSE lock
     /\ UNCHANGED <<op, lastLogin, listed>>

--------------------------------------------------------------------------------
(* The account lock *)

(* account_lock.acquire: once, without waiting.                                 *)
TakeLock(o) ==
  /\ proc[o].pc = "lock"
  /\ IF lock = Free THEN lock' = o /\ Goto(o, "locked")
                    ELSE End(o, "failed") /\ UNCHANGED lock
  /\ UNCHANGED <<op, login, account, lastLogin, listed>>

Release(o) == lock' = IF lock = o THEN Free ELSE lock

--------------------------------------------------------------------------------
(* MediaCrawlerQrLoginService *)

Eligible == \/ account = [method |-> "qr", status |-> "required"]
            \/ account = [method |-> "saved_session", status |-> "expired"]

(* _load_scope *)
LoadScope(o) ==
  /\ proc[o].pc = "scope"
  /\ IF Eligible THEN Goto(o, "lock") ELSE End(o, "failed")
  /\ UNCHANGED <<op, login, account, lastLogin, lock, listed>>

(* start_waiting_session: the session, the account and the Operation's subject  *)
(* in one transaction.  An Operation somebody reconciled cannot link one.       *)
StartSession(o) ==
  /\ proc[o].pc = "locked" /\ op[o].kind = "account-login"
  /\ IF ~proc[o].cancelled /\ Eligible /\ ActiveLogins = {} /\ Running(op[o])
       THEN /\ login' = [login EXCEPT ![o].status = "waiting_user"]
            /\ account' = [method |-> "qr", status |-> "authenticating"]
            /\ lastLogin' = o
            /\ proc' = Stale([proc EXCEPT ![o].pc = "child"])
            /\ Touched(o)
            /\ UNCHANGED lock
       ELSE /\ End(o, "failed") /\ Release(o)
            /\ UNCHANGED <<login, account, lastLogin, listed>>
  /\ UNCHANGED op

(* MediaCrawlerLoginProcessRunner: the child ends by itself, by its timeout or  *)
(* by the cancellation; the lock is released before the result is recorded.     *)
(* "abort" is a runner that raised.                                             *)
ChildReturns(o) ==
  /\ proc[o].pc = "child" /\ op[o].kind = "account-login"
  /\ \/ \E r \in {"authenticated", "expired", "failed"} :
          proc' = [proc EXCEPT ![o].pc = "returned", ![o].result = r]
     \/ proc[o].cancelled
        /\ proc' = [proc EXCEPT ![o].pc = "returned", ![o].result = "cancelled"]
     \/ proc' = [proc EXCEPT ![o].pc = "abort", ![o].result = "failed"]
  /\ Release(o)
  /\ UNCHANGED <<op, login, account, lastLogin, listed>>

(* finished_at is read before the transaction that uses it.                     *)
ReadClock(o) ==
  /\ proc[o].pc = "returned"
  /\ proc' = [proc EXCEPT ![o].pc = "finish", ![o].due = login[o].due]
  /\ UNCHANGED <<op, login, account, lastLogin, lock, listed>>

(* The condition of _finish_mediacrawler_qr                                     *)
MayFinish(o) == /\ Current(o)
                /\ proc[o].result = "authenticated" => ~proc[o].due

(* Mutant: whatever is no success is handed on as it is.                        *)
OutcomeByStatus(result) == IF result = "authenticated" THEN "succeeded" ELSE result

(* run_login: the outcome of the Operation for the result of its login.         *)
Outcome(result) == IF result = "authenticated" THEN "succeeded"
                   ELSE IF result = "cancelled" THEN result ELSE "failed"

Settled(o, status, method, auth) ==
  /\ login' = [login EXCEPT ![o] = Closed(status)]
  /\ account' = [method |-> method, status |-> auth]

(* _finish and _finish_mediacrawler_qr: session and account in one transaction, *)
(* which may also fail, or commit without telling its caller.                   *)
FinishLogin(o) ==
  LET r == proc[o].result
      ended(result) == [proc EXCEPT ![o] = Ended(result)]
  IN /\ proc[o].pc = "finish"
     /\ \/ /\ MayFinish(o)
           /\ IF r = "authenticated" THEN Settled(o, "succeeded", "saved_session", "authenticated")
                                     ELSE Settled(o, r, account.method, "required")
           /\ \E told \in BOOLEAN :
                proc' = Stale(ended(IF told THEN Outcome(r) ELSE "failed"))
        \/ /\ ~MayFinish(o) /\ UNCHANGED <<login, account>>
           /\ IF r = "authenticated" /\ proc[o].due
                THEN Goto(o, "late") ELSE proc' = ended("failed")
        \/ proc' = ended("failed") /\ UNCHANGED <<login, account>>
     /\ UNCHANGED <<op, lastLogin, lock, listed>>

(* _expire_late_authenticated and _finish_failed: best effort, and the outcome  *)
(* is a failure either way.                                                     *)
Abandon(o) ==
  /\ proc[o].pc \in {"late", "abort"}
  /\ \/ /\ Current(o)
        /\ Settled(o, IF proc[o].pc = "late" THEN "expired" ELSE "failed",
                   account.method, "required")
        /\ proc' = Stale([proc EXCEPT ![o] = Ended("failed")])
     \/ End(o, "failed") /\ UNCHANGED <<login, account>>
  /\ UNCHANGED <<op, lastLogin, lock, listed>>

--------------------------------------------------------------------------------
(* CookieLoginService *)

(* CookieAccountRepository._account and the compared revision                   *)
Observed(o) == proc[o].fresh /\ account.status # "authenticating" /\ ActiveLogins = {}

(* commit_effect(snapshot) *)
Snapshot(o) ==
  /\ proc[o].pc = "locked" /\ op[o].kind = "account-cookie-login"
  /\ IF ~proc[o].cancelled /\ Fenced(op[o]) /\ Observed(o)
       THEN Goto(o, "child") /\ Touched(o) /\ UNCHANGED lock
       ELSE End(o, "failed") /\ Release(o) /\ UNCHANGED listed
  /\ UNCHANGED <<op, login, account, lastLogin>>

(* The candidate is verified by a child of its own; when the child's end is not *)
(* certain the lock is kept until the process ends.                             *)
Verify(o) ==
  /\ proc[o].pc = "child" /\ op[o].kind = "account-cookie-login"
  /\ \/ End(o, "failed") /\ UNCHANGED lock
     \/ \E r \in {"failed", "cancelled"} :
          (r = "cancelled" => proc[o].cancelled) /\ End(o, r) /\ Release(o)
     \/ ~proc[o].cancelled /\ Goto(o, "publish") /\ UNCHANGED lock
  /\ UNCHANGED <<op, login, account, lastLogin, listed>>

Published(o) ==
  /\ login' = [login EXCEPT ![o] = Closed("credential")]
  /\ account' = [method |-> "cookie", status |-> "authenticated"]
  /\ lastLogin' = o

(* Mutant: the credential is committed, and the Operation is finished after it. *)
PublishThenFinish(o) ==
  /\ proc[o].pc = "publish"
  /\ IF ~proc[o].cancelled /\ Fenced(op[o]) /\ Observed(o)
       THEN /\ Published(o)
            /\ proc' = Stale([proc EXCEPT ![o] = Ended("succeeded")])
       ELSE End(o, "failed") /\ UNCHANGED <<login, account, lastLogin>>
  /\ Release(o)
  /\ UNCHANGED <<op, listed>>

(* commit_success(publish): the credential and the end of the Operation in one  *)
(* transaction.  When its acknowledgement is lost, the retry finds the          *)
(* Operation finished and the thread ends as a failure nobody records.          *)
Publish(o) ==
  /\ proc[o].pc = "publish"
  /\ IF ~proc[o].cancelled /\ Fenced(op[o]) /\ Observed(o)
       THEN /\ Published(o)
            /\ op' = [op EXCEPT ![o] = Finished(@, "succeeded")]
            /\ Touched(o)
            /\ \E told \in BOOLEAN :
                 proc' = Stale([proc EXCEPT ![o] = Ended(IF told THEN "succeeded" ELSE "failed")])
       ELSE End(o, "failed") /\ UNCHANGED <<op, login, account, lastLogin, listed>>
  /\ Release(o)

--------------------------------------------------------------------------------
(* The monitor and the operator *)

HasHandle(o) == proc[o].pc \notin {"idle", "retained", "orphan"}

(* A thread that has its result does not look at the cancellation any more.     *)
Working(o) == HasHandle(o) /\ proc[o].pc \notin {"finishing", "deferred"}

(* _monitor_handle; a deferred terminal is retried instead.                     *)
Heartbeat(o) ==
  /\ HasHandle(o) /\ proc[o].pc # "deferred"
  /\ IF Running(op[o])
       THEN /\ op' = [op EXCEPT ![o] = Beaten(@)] /\ Touched(o)
            /\ UNCHANGED proc
       ELSE /\ Working(o)
            /\ proc' = [proc EXCEPT ![o].cancelled = TRUE]
            /\ UNCHANGED <<op, listed>>
  /\ UNCHANGED <<login, account, lastLogin, lock>>

(* Any failure of the heartbeat sets the local cancellation.                    *)
HeartbeatFails(o) ==
  /\ Working(o)
  /\ proc' = [proc EXCEPT ![o].cancelled = TRUE]
  /\ UNCHANGED <<op, login, account, lastLogin, lock, listed>>

RequestCancel(o) ==
  /\ Running(op[o]) /\ ~op[o].cancelled
  /\ op' = [op EXCEPT ![o] = CancelRequested(@)]
  /\ Touched(o)
  /\ UNCHANGED <<login, account, lastLogin, lock, proc>>

(* _observe_cancel, after the request or from the monitor                       *)
ObserveCancel(o) ==
  /\ Working(o) /\ op[o].cancelled /\ ~proc[o].cancelled
  /\ proc' = [proc EXCEPT ![o].cancelled = TRUE]
  /\ listed' = IF Running(op[o]) THEN listed \ {o} ELSE listed
  /\ UNCHANGED <<op, login, account, lastLogin, lock>>

--------------------------------------------------------------------------------
(* reconcile_expired *)

ListExpiredOperations ==
  /\ listed = {}
  /\ \E o \in OpIds : Recoverable(op[o])
  /\ listed' = {o \in OpIds : Recoverable(op[o])}
  /\ UNCHANGED <<op, login, account, lastLogin, lock, proc>>

(* Mutant: a session somebody has ended is a login somebody has ended.          *)
DecisionByStatus(o) ==
  IF login[o].status = "succeeded" THEN "succeeded"
  ELSE IF login[o].status \in {"cancelled", "expired"} THEN "cancelled"
  ELSE IF login[o].status = "failed" THEN "failed"
  ELSE "interrupted"

(* _reconciliation_decision, _reconcile_login                                   *)
Decision(o) ==
  IF op[o].kind # "account-login" THEN "interrupted"
  ELSE IF login[o].status = "succeeded" /\ account.status = "authenticated" THEN "succeeded"
  ELSE IF login[o].status = "cancelled" THEN "cancelled"
  ELSE IF login[o].status \in {"expired", "failed"} THEN "failed"
  ELSE "interrupted"

(* reconcile: compares the whole candidate, so it touches only a row that       *)
(* nobody has written since it was listed.                                      *)
Reconcile(o) ==
  /\ o \in listed
  /\ op' = [op EXCEPT ![o] = Finished(@, Decision(o))]
  /\ Touched(o)
  /\ UNCHANGED <<login, account, lastLogin, lock, proc>>

--------------------------------------------------------------------------------
(* The world *)

(* A scheduled capture or download finds the saved session expired.             *)
SavedSessionExpires ==
  /\ account = [method |-> "saved_session", status |-> "authenticated"]
  /\ account' = [account EXCEPT !.status = "expired"]
  /\ proc' = Stale(proc)
  /\ UNCHANGED <<op, login, lastLogin, lock, listed>>

Deadline(o) ==
  /\ Active(o) /\ ~login[o].due
  /\ login' = [login EXCEPT ![o].due = TRUE]
  /\ UNCHANGED <<op, account, lastLogin, lock, proc, listed>>

Lapse(o) ==
  /\ Running(op[o]) /\ op[o].lease = "live"
  /\ op' = [op EXCEPT ![o] = Lapsed(@)]
  /\ UNCHANGED <<login, account, lastLogin, lock, proc, listed>>

(* The service dies with all its threads and handles.  A child that holds the   *)
(* lock lives on until it notices.                                              *)
HasChild(o) == lock = o /\ proc[o].pc \in {"child", "finishing", "deferred", "retained", "orphan"}

ServiceDies ==
  /\ \E o \in OpIds : HasHandle(o) \/ proc[o].pc = "retained"
  /\ proc' = [p \in Sweepers |->
                IF p = Supervisor THEN proc[p]
                ELSE IF HasChild(p) THEN [Idle EXCEPT !.pc = "orphan"] ELSE Idle]
  /\ lock' = IF lock \in OpIds /\ ~HasChild(lock) THEN Free ELSE lock
  /\ listed' = {}
  /\ UNCHANGED <<op, login, account, lastLogin>>

OrphanEnds(o) ==
  /\ proc[o].pc = "orphan"
  /\ proc' = [proc EXCEPT ![o] = Idle]
  /\ Release(o)
  /\ UNCHANGED <<op, login, account, lastLogin, listed>>

(* A supervisor that dies drops its lock; the next one begins a round.          *)
SupervisorDies ==
  /\ proc[Supervisor] # Sweeping
  /\ proc' = [proc EXCEPT ![Supervisor] = Sweeping]
  /\ Release(Supervisor)
  /\ UNCHANGED <<op, login, account, lastLogin, listed>>

--------------------------------------------------------------------------------
Thread(o) == \/ Start(o) \/ FinishIntent(o)
             \/ ListExpired(o) \/ LockExpired(o) \/ RecoverExpired(o)
             \/ TakeLock(o) \/ LoadScope(o) \/ StartSession(o) \/ ChildReturns(o)
             \/ ReadClock(o) \/ FinishLogin(o) \/ Abandon(o)
             \/ Snapshot(o) \/ Verify(o) \/ Publish(o)

Round == \/ ListExpired(Supervisor) \/ LockExpired(Supervisor) \/ RecoverExpired(Supervisor)

Next == \/ \E o \in OpIds : \/ \E kind \in Kinds : Submit(o, kind)
                           \/ Thread(o) \/ DeferTerminal(o)
                           \/ Heartbeat(o) \/ HeartbeatFails(o)
                           \/ RequestCancel(o) \/ ObserveCancel(o)
                           \/ Reconcile(o) \/ Lapse(o) \/ Deadline(o) \/ OrphanEnds(o)
        \/ ListExpiredOperations
        \/ Round \/ SupervisorDies
        \/ SavedSessionExpires \/ ServiceDies

Spec == Init /\ [][Next]_vars

--------------------------------------------------------------------------------
(* Properties *)

(* The account says what the last login that wrote it says: it is               *)
(* authenticating exactly while that login's session waits, its saved session   *)
(* comes from a session that succeeded and its cookie from an Operation that    *)
(* published it; every earlier session has ended.  No owner that comes back     *)
(* late, sweep or recovery leaves the two rows apart.                           *)
AccountFollowsLastLogin ==
  /\ ActiveLogins \subseteq {lastLogin}
  /\ account.status = "authenticating" <=> ActiveLogins # {}
  /\ account.method = "saved_session" => lastLogin # 0 /\ login[lastLogin].status = "succeeded"
  /\ account.method = "cookie" => lastLogin # 0 /\ login[lastLogin].status = "credential"

(* While the child of a QR login drives the browser profile, even after its     *)
(* service died, its session is neither expired by a sweep nor replaced by      *)
(* another login, although its deadline may have passed.                        *)
ChildKeepsItsSession ==
  \A o \in OpIds :
    op[o].kind = "account-login" /\ proc[o].pc \in {"child", "orphan"} => Active(o) /\ lock = o

(* The verdict of an Operation is true of the account's history, whoever gave   *)
(* it: its thread, the monitor after a failed write, or the reconciler.  A QR   *)
(* login that succeeded has its session; a cookie login has succeeded exactly   *)
(* when its credential is in the account; a cancelled one left nothing behind,  *)
(* and a cancellation on record wins over the credential, however the two race. *)
VerdictIsTrue ==
  \A o \in OpIds :
    /\ op[o].kind = "account-login" /\ op[o].state = "succeeded" =>
         login[o].status = "succeeded"
    /\ op[o].kind = "account-cookie-login" =>
         (op[o].state = "succeeded" <=> login[o].status = "credential")
    /\ op[o].state = "cancelled" => login[o].status \in {"none", "cancelled"}
    /\ op[o].cancelled => login[o].status # "credential"
================================================================================
