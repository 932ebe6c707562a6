--------------------------- MODULE AccountLoginProofs --------------------------
(* Proofs about AccountLogin for every number of Operations.                    *)
EXTENDS AccountLogin, TLAPS

USE LoginAssumption DEF LoginAssumption

--------------------------------------------------------------------------------
(* The inductive invariant *)

QR(o) == op[o].kind = "account-login"
Cookie(o) == op[o].kind = "account-cookie-login"

(* A login belongs to the kind of its Operation, and to an Operation.           *)
LoginsHaveTheirKind ==
  \A o \in OpIds :
    /\ op[o].state = "absent" => QR(o) /\ login[o].status = "none" /\ proc[o].pc = "idle"
    /\ QR(o) => login[o].status # "credential"
    /\ Cookie(o) => login[o].status \in {"none", "credential"}

(* Who is past the lock holds it, and a QR login holds it only to recover a     *)
(* session or while its child may run.                                          *)
LockIsHeld ==
  /\ \A p \in Sweepers : proc[p].pc = "recover" => lock = p
  /\ \A o \in OpIds :
       /\ proc[o].pc \in {"locked", "child", "publish", "retained", "orphan"} => lock = o
       /\ QR(o) /\ lock = o => proc[o].pc \in {"recover", "locked", "child", "orphan"}

(* Where a thread is says what it runs, what it has written and what it knows.  *)
PointsAreTrue ==
  \A o \in OpIds :
    /\ proc[o].pc \in {"reconcile", "listed", "recover", "scope", "returned", "finish",
                       "late", "abort"} => QR(o)
    /\ proc[o].pc = "publish" => Cookie(o)
    /\ proc[o].pc \in {"start", "reconcile", "listed", "recover", "scope", "lock", "locked"}
         => login[o].status = "none"
    /\ Cookie(o) /\ proc[o].pc \in {"child", "publish"} => login[o].status = "none"
    /\ proc[o].pc \in {"returned", "finish"}
         => proc[o].result \in {"authenticated", "expired", "failed", "cancelled"}

(* The end a thread is about to record is true.                                 *)
EndsAreTrue ==
  \A o \in OpIds :
    proc[o].pc \in {"finishing", "deferred"} =>
      /\ proc[o].result \in {"succeeded", "failed", "cancelled"}
      /\ proc[o].result = "succeeded" /\ QR(o) => login[o].status = "succeeded"
      /\ proc[o].result = "succeeded" /\ Cookie(o) => op[o].state = "succeeded"
      /\ proc[o].result = "cancelled" => login[o].status \in {"none", "cancelled"}

(* What a reconciler holds is still as it was listed.                           *)
ListedAreRecoverable == \A o \in listed : Recoverable(op[o])

IInv == /\ TypeOK
        /\ LoginsHaveTheirKind /\ LockIsHeld /\ PointsAreTrue /\ EndsAreTrue
        /\ ListedAreRecoverable
        /\ AccountFollowsLastLogin /\ ChildKeepsItsSession /\ VerdictIsTrue

--------------------------------------------------------------------------------
(* Type correctness *)

(* Every write of an Operation keeps the row's type; what it keeps and sets.  *)
LEMMA RowTypes ==
  ASSUME NEW row \in OperationRows
  PROVE  /\ Beaten(row) \in OperationRows /\ Lapsed(row) \in OperationRows
         /\ CancelRequested(row) \in OperationRows
         /\ Beaten(row).kind = row.kind /\ Beaten(row).state = row.state
         /\ Lapsed(row).kind = row.kind /\ Lapsed(row).state = row.state
         /\ CancelRequested(row).kind = row.kind /\ CancelRequested(row).state = row.state
         /\ Lapsed(row).lease = "expired"
         /\ \A s \in TerminalStates :
              /\ Finished(row, s) \in OperationRows
              /\ Finished(row, s).kind = row.kind /\ Finished(row, s).state = s
         /\ \A kind \in Kinds :
              /\ Claimed(NoOperation(kind)) \in OperationRows
              /\ Claimed(NoOperation(kind)).kind = kind
              /\ Claimed(NoOperation(kind)).state = "running"
              /\ ~Claimed(NoOperation(kind)).cancelled
BY DEF OperationRows, Beaten, Lapsed, CancelRequested, Finished, TerminalStates, Claimed, NoOperation

(* The states of a thread the actions write are threads.                      *)
LEMMA ThreadTypes ==
  /\ Idle \in Threads /\ Sweeping \in Threads
  /\ \A r \in Results : Ended(r) \in Threads
  /\ \A t \in Threads, pc \in Points : [t EXCEPT !.pc = pc] \in Threads
BY DEF Idle, Sweeping, Ended, Threads, Points, Results

(* Every write of a variable keeps its type.                                  *)
LEMMA WriteTypes ==
  ASSUME TypeOK
  PROVE  /\ \A p \in Sweepers, t \in Threads : [proc EXCEPT ![p] = t] \in [Sweepers -> Threads]
         /\ \A p \in Sweepers, pc \in Points : Goto(p, pc) => proc' \in [Sweepers -> Threads]
         /\ \A p \in Sweepers, r \in Results : End(p, r) => proc' \in [Sweepers -> Threads]
         /\ \A threads \in [Sweepers -> Threads] : Stale(threads) \in [Sweepers -> Threads]
         /\ \A o \in OpIds, row \in OperationRows :
              [op EXCEPT ![o] = row] \in [OpIds -> OperationRows]
         /\ \A p \in Sweepers : Release(p) => lock' \in OpIds \cup {Supervisor, Free}
         /\ \A o : Touched(o) => listed' \subseteq OpIds
<1> USE DEF TypeOK
<1>1. \A p \in Sweepers, t \in Threads : [proc EXCEPT ![p] = t] \in [Sweepers -> Threads]
  OBVIOUS
<1>2. \A p \in Sweepers, pc \in Points : Goto(p, pc) => proc' \in [Sweepers -> Threads]
  BY ThreadTypes DEF Goto
<1>3. \A p \in Sweepers, r \in Results : End(p, r) => proc' \in [Sweepers -> Threads]
  BY ThreadTypes DEF End
<1>4. \A threads \in [Sweepers -> Threads] : Stale(threads) \in [Sweepers -> Threads]
  BY DEF Stale, Threads
<1>5. \A o \in OpIds, row \in OperationRows : [op EXCEPT ![o] = row] \in [OpIds -> OperationRows]
  OBVIOUS
<1>6. \A p \in Sweepers : Release(p) => lock' \in OpIds \cup {Supervisor, Free}
  BY DEF Release
<1>7. \A o : Touched(o) => listed' \subseteq OpIds
  BY DEF Touched
<1> QED BY <1>1, <1>2, <1>3, <1>4, <1>5, <1>6, <1>7

--------------------------------------------------------------------------------
(* Steps of a thread that write no row *)

(* The lock is kept, taken when free, or given back.                            *)
LockMoves(p) == \/ lock' = lock
                \/ lock = Free /\ lock' = p
                \/ lock = p /\ lock' = Free

(* A state t of the thread of o that the rows and the lock allow.               *)
Fits(o, t) ==
  /\ op[o].state # "absent"
  /\ t.pc \in {"recover", "locked", "child", "publish", "retained", "orphan"} => lock' = o
  /\ QR(o) /\ lock' = o => t.pc \in {"recover", "locked", "child", "orphan"}
  /\ t.pc \in {"reconcile", "listed", "recover", "scope", "returned", "finish",
               "late", "abort"} => QR(o)
  /\ t.pc = "publish" => Cookie(o)
  /\ t.pc \in {"start", "reconcile", "listed", "recover", "scope", "lock", "locked"}
       => login[o].status = "none"
  /\ Cookie(o) /\ t.pc \in {"child", "publish"} => login[o].status = "none"
  /\ t.pc \in {"returned", "finish"}
       => t.result \in {"authenticated", "expired", "failed", "cancelled"}
  /\ t.pc \in {"finishing", "deferred"} =>
       /\ t.result \in {"succeeded", "failed", "cancelled"}
       /\ t.result = "succeeded" /\ QR(o) => login[o].status = "succeeded"
       /\ t.result = "succeeded" /\ Cookie(o) => op[o].state = "succeeded"
       /\ t.result = "cancelled" => login[o].status \in {"none", "cancelled"}
  /\ QR(o) /\ t.pc \in {"child", "orphan"} => Active(o)

(* A thread that moves to such a state, writing nothing, keeps the invariant.   *)
LEMMA ThreadMoves ==
  ASSUME IInv, NEW o \in OpIds, NEW t \in Threads, Fits(o, t),
         proc' = [proc EXCEPT ![o] = t], LockMoves(o), listed' \subseteq listed,
         UNCHANGED <<op, login, account, lastLogin>>
  PROVE  IInv'
<1> USE DEF IInv
<1>0. /\ o \in Sweepers /\ o # Supervisor /\ o # Free
      /\ proc \in [Sweepers -> Threads]
      /\ proc'[o] = t /\ \A p \in Sweepers : p # o => proc'[p] = proc[p]
      /\ OpIds \subseteq Sweepers /\ Free \notin Sweepers
  BY DEF Sweepers, OpIds, TypeOK
<1>1. TypeOK'
  BY <1>0 DEF TypeOK, LockMoves
<1>2. LoginsHaveTheirKind'
  BY <1>0 DEF LoginsHaveTheirKind, Fits, QR, Cookie
<1>3. LockIsHeld'
  <2>1. \A p \in Sweepers : proc'[p].pc = "recover" => lock' = p
    BY <1>0 DEF LockIsHeld, LockMoves, Fits
  <2>2. ASSUME NEW q \in OpIds
        PROVE  /\ proc'[q].pc \in {"locked", "child", "publish", "retained", "orphan"} => lock' = q
               /\ QR(q)' /\ lock' = q => proc'[q].pc \in {"recover", "locked", "child", "orphan"}
    BY <1>0 DEF LockIsHeld, LockMoves, Fits, QR
  <2> QED BY <2>1, <2>2 DEF LockIsHeld
<1>4. PointsAreTrue'
  BY <1>0 DEF PointsAreTrue, Fits, QR, Cookie
<1>5. EndsAreTrue'
  BY <1>0 DEF EndsAreTrue, Fits, QR, Cookie
<1>6. ListedAreRecoverable'
  BY DEF ListedAreRecoverable, Recoverable, Running
<1>7. AccountFollowsLastLogin'
  BY DEF AccountFollowsLastLogin, ActiveLogins, Active
<1>8. ChildKeepsItsSession'
  BY <1>0 DEF ChildKeepsItsSession, Fits, QR, Active, LockMoves
<1>9. VerdictIsTrue'
  BY DEF VerdictIsTrue
<1> QED BY <1>1, <1>2, <1>3, <1>4, <1>5, <1>6, <1>7, <1>8, <1>9

(* What the invariant says of one thread that is not idle.                      *)
LEMMA ThreadFits ==
  ASSUME IInv, NEW o \in OpIds, proc[o].pc # "idle"
  PROVE  /\ proc[o] \in Threads /\ o \in Sweepers
         /\ op[o].state # "absent" /\ op[o].kind \in Kinds
         /\ lock' = lock => Fits(o, proc[o])
BY DEF IInv, TypeOK, OperationRows, Sweepers, LoginsHaveTheirKind, LockIsHeld, PointsAreTrue, EndsAreTrue,
       ChildKeepsItsSession, Fits, QR, Cookie

(* A thread goes on, or ends with a failure, which is always true.              *)
LEMMA ThreadGoes ==
  ASSUME IInv, NEW o \in OpIds, proc[o].pc # "idle",
         LockMoves(o), listed' \subseteq listed, UNCHANGED <<op, login, account, lastLogin>>
  PROVE  /\ \A pc \in Points : Goto(o, pc) /\ Fits(o, [proc[o] EXCEPT !.pc = pc]) => IInv'
         /\ \A r \in Results : End(o, r) /\ Fits(o, Ended(r)) => IInv'
<1>1. ASSUME NEW pc \in Points, Goto(o, pc), Fits(o, [proc[o] EXCEPT !.pc = pc])
      PROVE  IInv'
  <2>1. [proc[o] EXCEPT !.pc = pc] \in Threads
    BY ThreadFits, ThreadTypes
  <2> QED BY <1>1, <2>1, ThreadMoves DEF Goto
<1>2. ASSUME NEW r \in Results, End(o, r), Fits(o, Ended(r))
      PROVE  IInv'
  BY <1>2, ThreadTypes, ThreadMoves DEF End
<1> QED BY <1>1, <1>2

(* A failure may always end a thread that has given its lock back, and a      *)
(* cancellation may end it when it left nothing behind.                       *)
LEMMA EndFits ==
  ASSUME IInv, NEW o \in OpIds, proc[o].pc # "idle", NEW r \in {"failed", "cancelled"},
         QR(o) => lock' # o,
         r = "cancelled" => login[o].status \in {"none", "cancelled"}
  PROVE  Fits(o, Ended(r))
<1>1. Ended(r).pc = "finishing" /\ Ended(r).result = r
  BY DEF Ended, Idle
<1> QED BY <1>1, ThreadFits DEF Fits

(* The first step of a thread.                                                *)
LEMMA StartStep == ASSUME IInv, NEW o \in OpIds, Start(o) PROVE IInv'
<1>1. /\ proc[o].pc = "start" /\ proc[o].pc # "idle" /\ login[o].status = "none"
      /\ lock' = lock /\ LockMoves(o) /\ (QR(o) => lock' # o)
      /\ UNCHANGED <<op, login, account, lastLogin>> /\ listed' \subseteq listed
  BY DEF Start, IInv, PointsAreTrue, LockIsHeld, LockMoves, Touched
<1>2. op[o].state # "absent" /\ (QR(o) \/ Cookie(o))
  BY <1>1, ThreadFits DEF QR, Cookie, Kinds
<1>3. Fits(o, Ended("failed")) /\ Fits(o, Ended("cancelled"))
  BY <1>1, EndFits
<1>4. ~QR(o) => Fits(o, [proc[o] EXCEPT !.pc = "lock"])
  BY <1>1, <1>2, ThreadFits DEF Fits, Threads
<1>5. QR(o) => Fits(o, [proc[o] EXCEPT !.pc = "reconcile"])
  BY <1>1, <1>2, ThreadFits DEF Fits, Threads, Cookie, QR
<1>6. \/ End(o, "cancelled") \/ End(o, "failed")
      \/ ~QR(o) /\ Goto(o, "lock")
      \/ QR(o) /\ Goto(o, "reconcile")
  BY <1>2 DEF Start, QR, Cookie
<1> QED BY <1>1, <1>3, <1>4, <1>5, <1>6, ThreadGoes DEF Points, Results

(* The end is kept for the monitor to record.                                 *)
LEMMA DeferTerminalStep == ASSUME IInv, NEW o \in OpIds, DeferTerminal(o) PROVE IInv'
<1>1. /\ proc[o].pc = "finishing" /\ lock' = lock /\ LockMoves(o) /\ Goto(o, "deferred")
      /\ UNCHANGED <<op, login, account, lastLogin>> /\ listed' \subseteq listed
  BY DEF DeferTerminal, LockMoves
<1>2. Fits(o, [proc[o] EXCEPT !.pc = "deferred"])
  BY <1>1, ThreadFits DEF Fits, Threads
<1> QED BY <1>1, <1>2, ThreadGoes DEF Points

(* A QR login looks for overdue sessions first.                               *)
LEMMA ListExpiredStep == ASSUME IInv, NEW o \in OpIds, ListExpired(o) PROVE IInv'
<1>1. /\ proc[o].pc = "reconcile" /\ lock' = lock /\ LockMoves(o)
      /\ UNCHANGED <<op, login, account, lastLogin>> /\ listed' \subseteq listed
  BY DEF ListExpired, LockMoves
<1>2. CASE Goto(o, "scope")
  <2>1. Fits(o, [proc[o] EXCEPT !.pc = "scope"])
    BY <1>1, ThreadFits DEF Fits, Threads
  <2> QED BY <1>1, <1>2, <2>1, ThreadGoes DEF Points
<1>3. ASSUME NEW q \in OpIds, proc' = [proc EXCEPT ![o].pc = "listed", ![o].candidate = q]
      PROVE  IInv'
  <2> DEFINE t == [proc[o] EXCEPT !.pc = "listed", !.candidate = q]
  <2>1. proc' = [proc EXCEPT ![o] = t]
    BY <1>3
  <2>2. t \in Threads /\ t.pc = "listed"
    BY <1>1, ThreadFits DEF Threads, Points
  <2>3. Fits(o, t)
    BY <1>1, <2>2, ThreadFits DEF Fits
  <2> QED BY <1>1, <2>1, <2>2, <2>3, ThreadMoves
<1> QED BY <1>2, <1>3 DEF ListExpired, ActiveLogins

(* It takes the lock to recover one, or ends.                                 *)
LEMMA LockExpiredStep == ASSUME IInv, NEW o \in OpIds, LockExpired(o) PROVE IInv'
<1>1. /\ proc[o].pc = "listed" /\ LockMoves(o) /\ o # Supervisor
      /\ UNCHANGED <<op, login, account, lastLogin>> /\ listed' \subseteq listed
      /\ \/ lock' = o /\ Goto(o, "recover")
         \/ lock' = lock /\ lock # Free /\ End(o, "failed")
  BY DEF LockExpired, LockMoves, OpIds
<1>2. CASE lock' = o /\ Goto(o, "recover")
  <2>1. Fits(o, [proc[o] EXCEPT !.pc = "recover"])
    BY <1>1, <1>2, ThreadFits DEF Fits, Threads, IInv, PointsAreTrue
  <2> QED BY <1>1, <1>2, <2>1, ThreadGoes DEF Points
<1>3. CASE lock' = lock /\ End(o, "failed")
  <2>1. QR(o) => lock' # o
    BY <1>1, <1>3 DEF IInv, LockIsHeld
  <2>2. Fits(o, Ended("failed"))
    BY <1>1, <2>1, EndFits
  <2> QED BY <1>1, <1>3, <2>2, ThreadGoes DEF Results
<1> QED BY <1>1, <1>2, <1>3

(* It takes the lock for its own child, or ends.                              *)
LEMMA TakeLockStep == ASSUME IInv, NEW o \in OpIds, TakeLock(o) PROVE IInv'
<1>1. /\ proc[o].pc = "lock" /\ LockMoves(o) /\ login[o].status = "none"
      /\ UNCHANGED <<op, login, account, lastLogin>> /\ listed' \subseteq listed
      /\ \/ lock' = o /\ Goto(o, "locked")
         \/ lock' = lock /\ End(o, "failed")
  BY DEF TakeLock, LockMoves, IInv, PointsAreTrue
<1>2. CASE lock' = o /\ Goto(o, "locked")
  <2>1. Fits(o, [proc[o] EXCEPT !.pc = "locked"])
    BY <1>1, <1>2, ThreadFits DEF Fits, Threads
  <2> QED BY <1>1, <1>2, <2>1, ThreadGoes DEF Points
<1>3. CASE lock' = lock /\ End(o, "failed")
  <2>1. QR(o) => lock' # o
    BY <1>1, <1>3 DEF IInv, LockIsHeld
  <2>2. Fits(o, Ended("failed"))
    BY <1>1, <2>1, EndFits
  <2> QED BY <1>1, <1>3, <2>2, ThreadGoes DEF Results
<1> QED BY <1>1, <1>2, <1>3

(* It looks whether the account may be logged in at all.                      *)
LEMMA LoadScopeStep == ASSUME IInv, NEW o \in OpIds, LoadScope(o) PROVE IInv'
<1>1. /\ proc[o].pc = "scope" /\ lock' = lock /\ LockMoves(o) /\ (QR(o) => lock' # o)
      /\ UNCHANGED <<op, login, account, lastLogin>> /\ listed' \subseteq listed
      /\ Goto(o, "lock") \/ End(o, "failed")
  BY DEF LoadScope, LockMoves, IInv, LockIsHeld
<1>2. Fits(o, [proc[o] EXCEPT !.pc = "lock"]) /\ Fits(o, Ended("failed"))
  BY <1>1, ThreadFits, EndFits DEF Fits, Threads
<1> QED BY <1>1, <1>2, ThreadGoes DEF Points, Results

(* The lock after its release.                                                  *)
LEMMA Released ==
  ASSUME IInv, NEW o \in OpIds, Release(o)
  PROVE  LockMoves(o) /\ lock' # o
BY DEF Release, LockMoves, OpIds

(* The child is gone, and the lock with it, before anything is recorded.      *)
LEMMA ChildReturnsStep == ASSUME IInv, NEW o \in OpIds, ChildReturns(o) PROVE IInv'
<1>1. /\ proc[o].pc = "child" /\ QR(o) /\ LockMoves(o) /\ lock' # o
      /\ UNCHANGED <<op, login, account, lastLogin>> /\ listed' \subseteq listed
  BY Released DEF ChildReturns, QR
<1>2. PICK pc \in {"returned", "abort"}, r \in {"authenticated", "expired", "failed", "cancelled"} :
        proc' = [proc EXCEPT ![o].pc = pc, ![o].result = r]
  BY DEF ChildReturns
<1> DEFINE t == [proc[o] EXCEPT !.pc = pc, !.result = r]
<1>3. proc' = [proc EXCEPT ![o] = t]
  BY <1>2
<1>4. t \in Threads /\ t.pc = pc /\ t.result = r
  BY <1>1, ThreadFits DEF Threads, Points, Results
<1>5. Fits(o, t)
  BY <1>1, <1>4, ThreadFits DEF Fits
<1> QED BY <1>1, <1>3, <1>4, <1>5, ThreadMoves

(* The clock is read before the transaction.                                  *)
LEMMA ReadClockStep == ASSUME IInv, NEW o \in OpIds, ReadClock(o) PROVE IInv'
<1> DEFINE t == [proc[o] EXCEPT !.pc = "finish", !.due = login[o].due]
<1>1. /\ proc[o].pc = "returned" /\ lock' = lock /\ LockMoves(o)
      /\ UNCHANGED <<op, login, account, lastLogin>> /\ listed' \subseteq listed
      /\ proc' = [proc EXCEPT ![o] = t]
  BY DEF ReadClock, LockMoves
<1>2. t \in Threads /\ t.pc = "finish" /\ t.result = proc[o].result
  BY <1>1, ThreadFits DEF Threads, Points, IInv, TypeOK
<1>3. Fits(o, t)
  BY <1>1, <1>2, ThreadFits DEF Fits
<1> QED BY <1>1, <1>2, <1>3, ThreadMoves

(* A cookie login starts its child, or ends.                                  *)
LEMMA SnapshotStep == ASSUME IInv, NEW o \in OpIds, Snapshot(o) PROVE IInv'
<1>1. /\ proc[o].pc = "locked" /\ Cookie(o) /\ ~QR(o) /\ lock = o /\ login[o].status = "none"
      /\ UNCHANGED <<op, login, account, lastLogin>> /\ listed' \subseteq listed
      /\ \/ lock' = lock /\ Goto(o, "child")
         \/ Release(o) /\ End(o, "failed")
  BY DEF Snapshot, Cookie, QR, IInv, LockIsHeld, PointsAreTrue, Touched
<1>2. CASE lock' = lock /\ Goto(o, "child")
  <2>1. Fits(o, [proc[o] EXCEPT !.pc = "child"])
    BY <1>1, <1>2, ThreadFits DEF Fits, Threads
  <2> QED BY <1>1, <1>2, <2>1, ThreadGoes DEF Points, LockMoves
<1>3. CASE Release(o) /\ End(o, "failed")
  <2>1. Fits(o, Ended("failed"))
    BY <1>1, EndFits
  <2> QED BY <1>1, <1>3, <2>1, Released, ThreadGoes DEF Results
<1> QED BY <1>1, <1>2, <1>3

(* The candidate is accepted or the thread ends, perhaps keeping the lock.    *)
LEMMA VerifyStep == ASSUME IInv, NEW o \in OpIds, Verify(o) PROVE IInv'
<1>1. /\ proc[o].pc = "child" /\ Cookie(o) /\ ~QR(o) /\ lock = o /\ login[o].status = "none"
      /\ UNCHANGED <<op, login, account, lastLogin>> /\ listed' \subseteq listed
      /\ lock' = lock \/ Release(o)
      /\ LockMoves(o)
      /\ \/ lock' = lock /\ Goto(o, "publish")
         \/ \E r \in {"failed", "cancelled"} : End(o, r)
  BY Released DEF Verify, Cookie, QR, IInv, LockIsHeld, PointsAreTrue, LockMoves
<1>2. lock' = lock => Fits(o, [proc[o] EXCEPT !.pc = "publish"])
  BY <1>1, ThreadFits DEF Fits, Threads
<1>3. \A r \in {"failed", "cancelled"} : Fits(o, Ended(r))
  BY <1>1, EndFits
<1> QED BY <1>1, <1>2, <1>3, ThreadGoes DEF Points, Results

(* A reconciler lists what it is going to write.                              *)
LEMMA ListExpiredOperationsStep == ASSUME IInv, ListExpiredOperations PROVE IInv'
<1>1. UNCHANGED <<op, login, account, lastLogin, lock, proc>>
      /\ listed' = {o \in OpIds : Recoverable(op[o])}
  BY DEF ListExpiredOperations
<1> QED BY <1>1
        DEF IInv, TypeOK, LoginsHaveTheirKind, LockIsHeld, PointsAreTrue, EndsAreTrue,
            ListedAreRecoverable, AccountFollowsLastLogin, ChildKeepsItsSession, VerdictIsTrue,
            Recoverable, Running, QR, Cookie, Active, ActiveLogins

--------------------------------------------------------------------------------
(* Steps that change the row of an Operation *)

(* A row that stays true of the login, its thread where it was or gone.         *)
LEMMA RowMoves ==
  ASSUME IInv, NEW o \in OpIds, op[o].state # "absent",
         NEW row \in OperationRows, row.kind = op[o].kind, row.state # "absent",
         op' = [op EXCEPT ![o] = row],
         NEW t \in Threads, proc' = [proc EXCEPT ![o] = t],
         \/ t = proc[o]
         \/ t.pc = "idle" /\ lock # o
         \/ t.pc = "retained" /\ lock = o /\ ~QR(o),
         listed' \subseteq listed, o \in listed' => Recoverable(row),
         QR(o) /\ row.state = "succeeded" => login[o].status = "succeeded",
         Cookie(o) => (row.state = "succeeded" <=> login[o].status = "credential"),
         row.state = "cancelled" => login[o].status \in {"none", "cancelled"},
         row.cancelled => login[o].status # "credential",
         UNCHANGED <<login, account, lastLogin, lock>>
  PROVE  IInv'
<1> USE DEF IInv
<1>0. /\ op'[o] = row /\ \A q \in OpIds : q # o => op'[q] = op[q]
      /\ proc'[o] = t /\ \A p \in Sweepers : p # o => proc'[p] = proc[p]
      /\ OpIds \subseteq Sweepers
      /\ \A q \in OpIds : (QR(q)' <=> QR(q)) /\ (Cookie(q)' <=> Cookie(q))
  BY DEF TypeOK, Sweepers, QR, Cookie
<1>1. TypeOK'
  BY <1>0 DEF TypeOK
<1>2. LoginsHaveTheirKind'
  BY <1>0 DEF LoginsHaveTheirKind
<1>3. LockIsHeld'
  BY <1>0 DEF LockIsHeld
<1>4. PointsAreTrue'
  BY <1>0 DEF PointsAreTrue
<1>5. EndsAreTrue'
  BY <1>0 DEF EndsAreTrue, VerdictIsTrue, Cookie, QR
<1>6. ListedAreRecoverable'
  BY <1>0 DEF ListedAreRecoverable, Recoverable, Running, TypeOK
<1>7. AccountFollowsLastLogin'
  BY DEF AccountFollowsLastLogin, ActiveLogins, Active
<1>8. ChildKeepsItsSession'
  BY <1>0 DEF ChildKeepsItsSession, QR, Active
<1>9. VerdictIsTrue'
  BY <1>0 DEF VerdictIsTrue, QR, Cookie
<1> QED BY <1>1, <1>2, <1>3, <1>4, <1>5, <1>6, <1>7, <1>8, <1>9

(* The same where the thread does not move at all.                              *)
LEMMA RowWritten ==
  ASSUME IInv, NEW o \in OpIds, Running(op[o]),
         NEW row \in OperationRows, row.kind = op[o].kind, row.state # "absent",
         op' = [op EXCEPT ![o] = row],
         listed' \subseteq listed, o \in listed' => Recoverable(row),
         QR(o) /\ row.state = "succeeded" => login[o].status = "succeeded",
         Cookie(o) => row.state # "succeeded",
         row.state = "cancelled" => login[o].status \in {"none", "cancelled"},
         UNCHANGED <<login, account, lastLogin, lock, proc>>
  PROVE  IInv'
<1>1. /\ op[o].state = "running" /\ proc[o] \in Threads /\ proc' = [proc EXCEPT ![o] = proc[o]]
  BY DEF Running, IInv, TypeOK, Sweepers
<1>2. /\ login[o].status # "credential"
      /\ Cookie(o) => (row.state = "succeeded" <=> login[o].status = "credential")
  BY <1>1 DEF IInv, VerdictIsTrue, LoginsHaveTheirKind, QR, Cookie, TypeOK, OperationRows, Kinds
<1> QED BY <1>1, <1>2, RowMoves

(* The monitor renews the lease, or tells the thread that it is lost.         *)
LEMMA HeartbeatStep == ASSUME IInv, NEW o \in OpIds, Heartbeat(o) PROVE IInv'
<1>1. CASE Running(op[o])
  <2>1. /\ op' = [op EXCEPT ![o] = Beaten(op[o])] /\ listed' = listed \ {o}
        /\ UNCHANGED <<login, account, lastLogin, lock, proc>>
    BY <1>1 DEF Heartbeat, Touched
  <2>2. /\ Beaten(op[o]) \in OperationRows /\ Beaten(op[o]).kind = op[o].kind
        /\ Beaten(op[o]).state = "running"
    <3>1. op[o] \in OperationRows
      BY DEF IInv, TypeOK
    <3> QED BY <1>1, <3>1, RowTypes DEF Running
  <2> DEFINE row == Beaten(op[o])
  <2>3. /\ row \in OperationRows /\ row.kind = op[o].kind
        /\ row.state # "absent" /\ row.state # "succeeded" /\ row.state # "cancelled"
        /\ op' = [op EXCEPT ![o] = row] /\ listed' \subseteq listed /\ o \notin listed'
    BY <2>1, <2>2
  <2> HIDE DEF row
  <2> QED BY <1>1, <2>1, <2>3, RowWritten DEF QR, Cookie
<1>2. CASE ~Running(op[o])
  <2>1. /\ proc[o].pc # "idle" /\ proc' = [proc EXCEPT ![o].cancelled = TRUE]
        /\ UNCHANGED <<op, listed, login, account, lastLogin, lock>>
    BY <1>2 DEF Heartbeat, HasHandle
  <2> DEFINE t == [proc[o] EXCEPT !.cancelled = TRUE]
  <2>2. t \in Threads /\ t.pc = proc[o].pc /\ t.result = proc[o].result
    BY <2>1, ThreadFits DEF Threads
  <2>3. Fits(o, t)
    BY <2>1, <2>2, ThreadFits DEF Fits
  <2>4. proc' = [proc EXCEPT ![o] = t] /\ LockMoves(o)
    BY <2>1 DEF LockMoves
  <2> QED BY <2>1, <2>2, <2>3, <2>4, ThreadMoves
<1> QED BY <1>1, <1>2

(* A thread that is told to stop, and nothing else.                             *)
LEMMA CancelStep ==
  ASSUME IInv, NEW o \in OpIds, HeartbeatFails(o) \/ ObserveCancel(o)
  PROVE  IInv'
<1>1. /\ proc[o].pc # "idle" /\ proc' = [proc EXCEPT ![o].cancelled = TRUE]
      /\ UNCHANGED <<op, login, account, lastLogin, lock>> /\ listed' \subseteq listed
  BY DEF HeartbeatFails, ObserveCancel, Working, HasHandle
<1> DEFINE t == [proc[o] EXCEPT !.cancelled = TRUE]
<1>2. t \in Threads /\ t.pc = proc[o].pc /\ t.result = proc[o].result
  BY <1>1, ThreadFits DEF Threads
<1>3. Fits(o, t)
  BY <1>1, <1>2, ThreadFits DEF Fits
<1>4. proc' = [proc EXCEPT ![o] = t] /\ LockMoves(o)
  BY <1>1 DEF LockMoves
<1> QED BY <1>1, <1>2, <1>3, <1>4, ThreadMoves

(* The request only marks the row.                                            *)
LEMMA RequestCancelStep == ASSUME IInv, NEW o \in OpIds, RequestCancel(o) PROVE IInv'
<1>1. /\ op' = [op EXCEPT ![o] = CancelRequested(op[o])] /\ listed' = listed \ {o}
      /\ UNCHANGED <<login, account, lastLogin, lock, proc>> /\ Running(op[o])
  BY DEF RequestCancel, Touched
<1>2. /\ CancelRequested(op[o]) \in OperationRows /\ CancelRequested(op[o]).kind = op[o].kind
      /\ CancelRequested(op[o]).state = "running"
  <2>1. op[o] \in OperationRows
    BY DEF IInv, TypeOK
  <2> QED BY <1>1, <2>1, RowTypes DEF Running
<1> DEFINE row == CancelRequested(op[o])
<1>3. /\ row \in OperationRows /\ row.kind = op[o].kind
      /\ row.state # "absent" /\ row.state # "succeeded" /\ row.state # "cancelled"
      /\ op' = [op EXCEPT ![o] = row] /\ listed' \subseteq listed
      /\ o \in listed' => Recoverable(row)
  BY <1>1, <1>2
<1> HIDE DEF row
<1> QED BY <1>1, <1>3, RowWritten

(* A lease that runs out only marks the row.                                  *)
LEMMA LapseStep == ASSUME IInv, NEW o \in OpIds, Lapse(o) PROVE IInv'
<1>1. /\ op' = [op EXCEPT ![o] = Lapsed(op[o])] /\ listed' = listed /\ Running(op[o])
      /\ UNCHANGED <<login, account, lastLogin, lock, proc>>
  BY DEF Lapse
<1>2. /\ Lapsed(op[o]) \in OperationRows /\ Lapsed(op[o]).kind = op[o].kind
      /\ Lapsed(op[o]).state = "running" /\ Recoverable(Lapsed(op[o]))
  <2>1. op[o] \in OperationRows
    BY DEF IInv, TypeOK
  <2> QED BY <1>1, <2>1, RowTypes DEF Running, Recoverable
<1> DEFINE row == Lapsed(op[o])
<1>3. /\ row \in OperationRows /\ row.kind = op[o].kind
      /\ row.state # "absent" /\ row.state # "succeeded" /\ row.state # "cancelled"
      /\ op' = [op EXCEPT ![o] = row] /\ listed' \subseteq listed
      /\ o \in listed' => Recoverable(row)
  BY <1>1, <1>2
<1> HIDE DEF row
<1> QED BY <1>1, <1>3, RowWritten

(* The reconciler writes only what the session says.                            *)
LEMMA ReconcileStep == ASSUME IInv, NEW o \in OpIds, Reconcile(o) PROVE IInv'
<1> DEFINE row == Finished(op[o], Decision(o))
<1>1. /\ op' = [op EXCEPT ![o] = row] /\ listed' = listed \ {o} /\ Running(op[o])
      /\ UNCHANGED <<login, account, lastLogin, lock, proc>>
  BY DEF Reconcile, Touched, IInv, ListedAreRecoverable, Recoverable
<1>2. /\ Decision(o) \in TerminalStates
      /\ Decision(o) = "succeeded" => QR(o) /\ login[o].status = "succeeded"
      /\ Decision(o) = "cancelled" => login[o].status = "cancelled"
  BY DEF Decision, TerminalStates, QR
<1>3. row \in OperationRows /\ row.kind = op[o].kind /\ row.state = Decision(o)
  <2>1. op[o] \in OperationRows
    BY DEF IInv, TypeOK
  <2> QED BY <1>2, <2>1, RowTypes
<1>4. row.state # "absent" /\ (Cookie(o) => row.state # "succeeded")
  BY <1>2, <1>3 DEF TerminalStates, QR, Cookie
<1>5. /\ row.state = "succeeded" => login[o].status = "succeeded"
      /\ row.state = "cancelled" => login[o].status \in {"none", "cancelled"}
      /\ op' = [op EXCEPT ![o] = row] /\ listed' \subseteq listed /\ o \notin listed'
  BY <1>1, <1>2, <1>3
<1> HIDE DEF row
<1> QED BY <1>1, <1>3, <1>4, <1>5, RowWritten

(* A thread records its end, or finds that somebody else has.                   *)
LEMMA FinishIntentStep == ASSUME IInv, NEW o \in OpIds, FinishIntent(o) PROVE IInv'
<1> DEFINE t == [Idle EXCEPT !.pc = IF lock = o THEN "retained" ELSE "idle"]
           row == Finished(op[o], proc[o].result)
<1>1. /\ proc[o].pc \in {"finishing", "deferred"} /\ proc[o].pc # "idle"
      /\ proc' = [proc EXCEPT ![o] = t]
      /\ UNCHANGED <<login, account, lastLogin, lock>>
  BY DEF FinishIntent
<1>2. /\ t \in Threads /\ t.pc = IF lock = o THEN "retained" ELSE "idle"
      /\ lock = o => ~QR(o)
      /\ op[o].state # "absent" /\ op[o].kind \in Kinds
  <2>1. t \in Threads
    BY ThreadTypes DEF Points
  <2>2. t.pc = IF lock = o THEN "retained" ELSE "idle"
    BY DEF Idle
  <2>3. lock = o => ~QR(o)
    BY <1>1 DEF IInv, LockIsHeld
  <2> QED BY <1>1, <2>1, <2>2, <2>3, ThreadFits
<1>3. CASE Running(op[o])
  <2>1. op' = [op EXCEPT ![o] = row] /\ listed' = listed \ {o}
    BY <1>3 DEF FinishIntent, Touched
  <2>2. /\ proc[o].result \in {"succeeded", "failed", "cancelled"}
        /\ proc[o].result = "succeeded" /\ QR(o) => login[o].status = "succeeded"
        /\ ~(proc[o].result = "succeeded" /\ Cookie(o))
        /\ proc[o].result = "cancelled" => login[o].status \in {"none", "cancelled"}
    BY <1>1, <1>3 DEF IInv, EndsAreTrue, Running
  <2>3. /\ row \in OperationRows /\ row.kind = op[o].kind /\ row.state = proc[o].result
        /\ row.state # "absent"
    <3>1. op[o] \in OperationRows /\ proc[o].result \in TerminalStates
      BY <2>2 DEF IInv, TypeOK, TerminalStates
    <3>2. proc[o].result # "absent"
      BY <2>2
    <3>3. \A s \in TerminalStates :
            /\ Finished(op[o], s) \in OperationRows
            /\ Finished(op[o], s).kind = op[o].kind /\ Finished(op[o], s).state = s
      BY <3>1, RowTypes
    <3> QED BY <3>1, <3>2, <3>3
  <2>4. /\ login[o].status # "credential"
        /\ Cookie(o) => (row.state = "succeeded" <=> login[o].status = "credential")
    <3>1. op[o].state = "running" /\ (QR(o) \/ Cookie(o))
      BY <1>2, <1>3 DEF Running, QR, Cookie, Kinds
    <3>2. login[o].status # "credential"
      BY <3>1 DEF IInv, VerdictIsTrue, LoginsHaveTheirKind, Cookie
    <3> QED BY <2>2, <2>3, <3>2
  <2> HIDE DEF row, t
  <2> QED BY <1>1, <1>2, <2>1, <2>2, <2>3, <2>4, RowMoves
<1>4. CASE ~Running(op[o])
  <2>1. UNCHANGED <<op, listed>> /\ LockMoves(o)
    BY <1>1, <1>4 DEF FinishIntent, LockMoves
  <2>2. Fits(o, t)
    BY <1>1, <1>2 DEF Fits
  <2> QED BY <1>1, <1>2, <2>1, <2>2, ThreadMoves
<1> QED BY <1>3, <1>4

--------------------------------------------------------------------------------
(* The sweep *)

(* The sweep moves, takes the lock or gives it back, and writes no row.       *)
LEMMA SweepMoves ==
  ASSUME IInv, NEW t \in Threads, proc' = [proc EXCEPT ![Supervisor] = t],
         LockMoves(Supervisor), t.pc = "recover" => lock' = Supervisor,
         UNCHANGED <<op, login, account, lastLogin, listed>>
  PROVE  IInv'
<1> USE DEF IInv
<1>0. /\ Supervisor \notin OpIds /\ Free \notin Sweepers /\ Supervisor \in Sweepers
      /\ proc'[Supervisor] = t /\ \A p \in Sweepers : p # Supervisor => proc'[p] = proc[p]
      /\ \A o \in OpIds : proc'[o] = proc[o] /\ o \in Sweepers
  BY DEF Sweepers, OpIds, TypeOK
<1>1. TypeOK'
  BY <1>0 DEF TypeOK, LockMoves
<1>2. LoginsHaveTheirKind'
  BY <1>0 DEF LoginsHaveTheirKind, QR, Cookie
<1>3. LockIsHeld'
  BY <1>0 DEF LockIsHeld, LockMoves, QR
<1>4. PointsAreTrue'
  BY <1>0 DEF PointsAreTrue, QR, Cookie
<1>5. EndsAreTrue'
  BY <1>0 DEF EndsAreTrue, QR, Cookie
<1>6. ListedAreRecoverable'
  BY DEF ListedAreRecoverable
<1>7. AccountFollowsLastLogin'
  BY DEF AccountFollowsLastLogin, ActiveLogins, Active
<1>8. ChildKeepsItsSession'
  BY <1>0 DEF ChildKeepsItsSession, QR, Active, LockMoves
<1>9. VerdictIsTrue'
  BY DEF VerdictIsTrue
<1> QED BY <1>1, <1>2, <1>3, <1>4, <1>5, <1>6, <1>7, <1>8, <1>9

(* So do all its steps but the recovery itself.                               *)
LEMMA SweepStep ==
  ASSUME IInv, ListExpired(Supervisor) \/ LockExpired(Supervisor) \/ SupervisorDies
  PROVE  IInv'
<1>0. proc[Supervisor] \in Threads /\ Sweeping \in Threads /\ Sweeping.pc = "reconcile"
  BY ThreadTypes DEF IInv, TypeOK, Sweepers, Sweeping, Idle
<1>1. CASE ListExpired(Supervisor)
  <2>1. PICK q \in OpIds : proc' = [proc EXCEPT ![Supervisor].pc = "listed",
                                               ![Supervisor].candidate = q]
    BY <1>1 DEF ListExpired, ActiveLogins
  <2> DEFINE t == [proc[Supervisor] EXCEPT !.pc = "listed", !.candidate = q]
  <2>2. proc' = [proc EXCEPT ![Supervisor] = t] /\ t \in Threads /\ t.pc = "listed"
    BY <1>0, <2>1 DEF Threads, Points
  <2> QED BY <1>1, <2>2, SweepMoves DEF ListExpired, LockMoves
<1>2. CASE LockExpired(Supervisor)
  <2> DEFINE t == [proc[Supervisor] EXCEPT !.pc = "recover"]
  <2>1. t \in Threads /\ t.pc = "recover"
    BY <1>0 DEF Threads, Points
  <2>2. CASE lock = Free /\ lock' = Supervisor /\ Goto(Supervisor, "recover")
    BY <1>2, <2>1, <2>2, SweepMoves DEF LockExpired, LockMoves, Goto
  <2>3. CASE UNCHANGED lock /\ proc' = [proc EXCEPT ![Supervisor] = Sweeping]
    BY <1>0, <1>2, <2>3, SweepMoves DEF LockExpired, LockMoves
  <2> QED BY <1>2, <2>2, <2>3 DEF LockExpired
<1>3. CASE SupervisorDies
  BY <1>0, <1>3, SweepMoves DEF SupervisorDies, LockMoves, Release
<1> QED BY <1>1, <1>2, <1>3

--------------------------------------------------------------------------------
(* The end of a session *)

(* Whoever ends the one active session, its rows stay together.                 *)
LEMMA SessionEnds ==
  ASSUME IInv, NEW q \in OpIds, Current(q),
         NEW s \in {"succeeded", "expired", "failed", "cancelled"},
         login' = [login EXCEPT ![q] = Closed(s)],
         account' \in Accounts, account'.status # "authenticating",
         account'.method = "qr" \/ (account'.method = "saved_session" /\ s = "succeeded"),
         \A o \in OpIds : proc'[o].pc = "idle" <=> proc[o].pc = "idle",
         UNCHANGED <<op, lastLogin, listed>>
  PROVE  /\ login' \in [OpIds -> [status : LoginStatuses, due : BOOLEAN]]
         /\ QR(q) /\ login[q].status = "waiting_user" /\ lastLogin = q
         /\ \A o \in OpIds : login'[o].status = IF o = q THEN s ELSE login[o].status
         /\ \A o \in OpIds : ~Active(o)'
         /\ LoginsHaveTheirKind' /\ AccountFollowsLastLogin' /\ VerdictIsTrue'
         /\ ListedAreRecoverable'
<1> USE DEF IInv
<1>1. /\ Closed(s) \in [status : LoginStatuses, due : BOOLEAN] /\ Closed(s).status = s
      /\ login' \in [OpIds -> [status : LoginStatuses, due : BOOLEAN]]
  BY DEF TypeOK, Closed, LoginStatuses
<1>2. \A o \in OpIds : login'[o].status = IF o = q THEN s ELSE login[o].status
  BY <1>1 DEF TypeOK
<1>3. /\ login[q].status = "waiting_user" /\ lastLogin = q
      /\ \A o \in OpIds : o # q => login[o].status # "waiting_user"
  BY DEF Current, ActiveLogins, Active, AccountFollowsLastLogin
<1>4. QR(q)
  BY <1>3 DEF LoginsHaveTheirKind, QR, Cookie, TypeOK, OperationRows, Kinds
<1>5. \A o \in OpIds : ~Active(o)'
  BY <1>2, <1>3 DEF Active
<1>6. LoginsHaveTheirKind'
  BY <1>2, <1>3, <1>4 DEF LoginsHaveTheirKind, QR, Cookie
<1>7. AccountFollowsLastLogin'
  <2>1. ActiveLogins' = {}
    BY <1>5 DEF ActiveLogins
  <2>2. /\ account'.method = "saved_session" => lastLogin' # 0 /\ login'[lastLogin'].status = "succeeded"
        /\ account'.method # "cookie"
    BY <1>2, <1>3 DEF OpIds
  <2> QED BY <2>1, <2>2 DEF AccountFollowsLastLogin
<1>8. VerdictIsTrue'
  <2>1. \A o \in OpIds : o # q => login'[o].status = login[o].status
    BY <1>2
  <2>2. /\ op[q].state # "succeeded" /\ op[q].state # "cancelled"
        /\ login'[q].status # "credential"
    BY <1>2, <1>3, <1>4 DEF VerdictIsTrue, QR
  <2> QED BY <1>4, <2>1, <2>2 DEF VerdictIsTrue, QR
<1>9. ListedAreRecoverable'
  BY DEF ListedAreRecoverable, Recoverable, Running
<1> QED BY <1>1, <1>2, <1>3, <1>4, <1>5, <1>6, <1>7, <1>8, <1>9

(* A change of the account leaves every thread where it is.                     *)
LEMMA StaleThreads ==
  ASSUME NEW threads \in [Sweepers -> Threads]
  PROVE  /\ Stale(threads) \in [Sweepers -> Threads]
         /\ \A p \in Sweepers : /\ Stale(threads)[p].pc = threads[p].pc
                               /\ Stale(threads)[p].result = threads[p].result
BY DEF Stale, Threads

(* The thread that runs the session ends it.                                    *)
LEMMA OwnerEndsSession ==
  ASSUME IInv, NEW o \in OpIds, Current(o),
         proc[o].pc \in {"finish", "late", "abort"},
         NEW s \in {"succeeded", "expired", "failed", "cancelled"},
         NEW r \in {"succeeded", "failed", "cancelled"},
         r = "failed" \/ r = s,
         login' = [login EXCEPT ![o] = Closed(s)],
         account' \in Accounts, account'.status # "authenticating",
         account'.method = "qr" \/ (account'.method = "saved_session" /\ s = "succeeded"),
         proc' = Stale([proc EXCEPT ![o] = Ended(r)]),
         UNCHANGED <<op, lastLogin, lock, listed>>
  PROVE  IInv'
<1> USE DEF IInv
<1> DEFINE next == [proc EXCEPT ![o] = Ended(r)]
<1>1. /\ next \in [Sweepers -> Threads] /\ o \in Sweepers
      /\ next[o].pc = "finishing" /\ next[o].result = r
      /\ \A p \in Sweepers : p # o => next[p] = proc[p]
  BY ThreadTypes DEF TypeOK, Sweepers, Ended, Idle, Results
<1>2. /\ proc' \in [Sweepers -> Threads]
      /\ \A p \in Sweepers : proc'[p].pc = next[p].pc /\ proc'[p].result = next[p].result
  BY <1>1, StaleThreads
<1> HIDE DEF next
<1>3. /\ proc'[o].pc = "finishing" /\ proc'[o].result = r
      /\ \A p \in Sweepers : p # o => proc'[p].pc = proc[p].pc /\ proc'[p].result = proc[p].result
      /\ OpIds \subseteq Sweepers
  BY <1>1, <1>2 DEF Sweepers
<1>4. \A p \in OpIds : proc'[p].pc = "idle" <=> proc[p].pc = "idle"
  BY <1>3
<1>5. /\ login' \in [OpIds -> [status : LoginStatuses, due : BOOLEAN]]
      /\ QR(o) /\ login[o].status = "waiting_user" /\ lastLogin = o
      /\ \A p \in OpIds : login'[p].status = IF p = o THEN s ELSE login[p].status
      /\ \A p \in OpIds : ~Active(p)'
      /\ LoginsHaveTheirKind' /\ AccountFollowsLastLogin' /\ VerdictIsTrue'
      /\ ListedAreRecoverable'
  BY <1>4, SessionEnds
<1>6. \A p \in OpIds : (QR(p)' <=> QR(p)) /\ (Cookie(p)' <=> Cookie(p))
  BY DEF QR, Cookie
<1>7. TypeOK'
  BY <1>2, <1>5 DEF TypeOK
<1>8. LockIsHeld'
  BY <1>3, <1>6 DEF LockIsHeld
<1>9. PointsAreTrue'
  BY <1>3, <1>5, <1>6 DEF PointsAreTrue
<1>10. EndsAreTrue'
  <2>1. ASSUME NEW w \in OpIds, w # o, proc'[w].pc \in {"finishing", "deferred"}
        PROVE  /\ proc[w].pc = proc'[w].pc /\ proc'[w].result = proc[w].result
               /\ login'[w].status = login[w].status
    BY <1>3, <1>5, <2>1
  <2>2. ~Cookie(o)'
    BY <1>5, <1>6 DEF QR, Cookie
  <2>3. /\ proc'[o].result \in {"succeeded", "failed", "cancelled"}
        /\ proc'[o].result = "succeeded" => login'[o].status = "succeeded"
        /\ proc'[o].result = "cancelled" => login'[o].status = "cancelled"
    BY <1>3, <1>5
  <2> QED BY <1>6, <2>1, <2>2, <2>3 DEF EndsAreTrue
<1>11. ChildKeepsItsSession'
  <2> SUFFICES ASSUME NEW p \in OpIds, QR(p), proc'[p].pc \in {"child", "orphan"}
               PROVE  FALSE
    BY <1>6 DEF ChildKeepsItsSession, QR
  <2>1. p # o /\ proc[p].pc \in {"child", "orphan"}
    BY <1>3
  <2>2. login[p].status = "waiting_user"
    BY <2>1 DEF ChildKeepsItsSession, QR, Active
  <2> QED BY <2>1, <2>2, <1>5 DEF Active
<1> QED BY <1>5, <1>7, <1>8, <1>9, <1>10, <1>11

(* A QR login records its result, or fails to.                                *)
LEMMA FinishLoginStep == ASSUME IInv, NEW o \in OpIds, FinishLogin(o) PROVE IInv'
<1> DEFINE r == proc[o].result
<1>1. /\ proc[o].pc = "finish" /\ QR(o) /\ lock' = lock /\ lock # o /\ LockMoves(o)
      /\ r \in {"authenticated", "expired", "failed", "cancelled"}
      /\ UNCHANGED <<op, lastLogin, listed>>
  BY DEF FinishLogin, IInv, PointsAreTrue, LockIsHeld, LockMoves
<1>2. CASE /\ MayFinish(o)
           /\ IF r = "authenticated" THEN Settled(o, "succeeded", "saved_session", "authenticated")
                                     ELSE Settled(o, r, account.method, "required")
           /\ \E told \in BOOLEAN :
                proc' = Stale([proc EXCEPT ![o] = Ended(IF told THEN Outcome(r) ELSE "failed")])
  <2>1. Current(o) /\ account.method = "qr"
    BY <1>2 DEF MayFinish, Current
  <2> DEFINE s == IF r = "authenticated" THEN "succeeded" ELSE r
  <2>2. /\ s \in {"succeeded", "expired", "failed", "cancelled"}
        /\ login' = [login EXCEPT ![o] = Closed(s)]
        /\ account' \in Accounts /\ account'.status # "authenticating"
        /\ account'.method = "qr" \/ (account'.method = "saved_session" /\ s = "succeeded")
    BY <1>1, <1>2, <2>1 DEF Settled, Accounts
  <2>3. PICK e \in {"succeeded", "failed", "cancelled"} :
          /\ e = "failed" \/ e = s
          /\ proc' = Stale([proc EXCEPT ![o] = Ended(e)])
    BY <1>1, <1>2, <2>2 DEF Outcome
  <2>4. proc[o].pc \in {"finish", "late", "abort"} /\ UNCHANGED <<op, lastLogin, lock, listed>>
    BY <1>1
  <2> HIDE DEF s, r
  <2> QED BY <2>1, <2>2, <2>3, <2>4, OwnerEndsSession
<1>3. CASE proc' = [proc EXCEPT ![o] = Ended("failed")] /\ UNCHANGED <<login, account>>
  <2>1. Fits(o, Ended("failed")) /\ End(o, "failed")
    BY <1>1, <1>3, EndFits DEF End
  <2> QED BY <1>1, <1>3, <2>1, ThreadGoes DEF Results
<1>4. CASE Goto(o, "late") /\ UNCHANGED <<login, account>>
  <2>1. Fits(o, [proc[o] EXCEPT !.pc = "late"])
    BY <1>1, ThreadFits DEF Fits, Threads
  <2> QED BY <1>1, <1>4, <2>1, ThreadGoes DEF Points
<1> QED BY <1>2, <1>3, <1>4 DEF FinishLogin

(* A QR login that cannot record its result closes its session, or fails to.  *)
LEMMA AbandonStep == ASSUME IInv, NEW o \in OpIds, Abandon(o) PROVE IInv'
<1>1. /\ proc[o].pc \in {"late", "abort"} /\ QR(o) /\ lock' = lock /\ lock # o /\ LockMoves(o)
      /\ UNCHANGED <<op, lastLogin, listed>>
  BY DEF Abandon, IInv, PointsAreTrue, LockIsHeld, LockMoves
<1>2. CASE /\ Current(o)
           /\ Settled(o, IF proc[o].pc = "late" THEN "expired" ELSE "failed",
                      account.method, "required")
           /\ proc' = Stale([proc EXCEPT ![o] = Ended("failed")])
  <2>1. account.method = "qr"
    BY <1>2 DEF Current
  <2> DEFINE s == IF proc[o].pc = "late" THEN "expired" ELSE "failed"
  <2>2. /\ s \in {"succeeded", "expired", "failed", "cancelled"}
        /\ login' = [login EXCEPT ![o] = Closed(s)]
        /\ account' \in Accounts /\ account'.status # "authenticating"
        /\ account'.method = "qr"
    BY <1>2, <2>1 DEF Settled, Accounts
  <2> HIDE DEF s
  <2>3. /\ proc[o].pc \in {"finish", "late", "abort"} /\ Current(o)
        /\ proc' = Stale([proc EXCEPT ![o] = Ended("failed")])
        /\ UNCHANGED <<op, lastLogin, lock, listed>>
    BY <1>1, <1>2
  <2> QED BY <2>2, <2>3, OwnerEndsSession
<1>3. CASE End(o, "failed") /\ UNCHANGED <<login, account>>
  <2>1. Fits(o, Ended("failed"))
    BY <1>1, EndFits
  <2> QED BY <1>1, <1>3, <2>1, ThreadGoes DEF Results
<1> QED BY <1>2, <1>3 DEF Abandon

(* Somebody else, holding the lock, ends a session that is overdue.             *)
LEMMA RecoverExpiredStep == ASSUME IInv, NEW p \in Sweepers, RecoverExpired(p) PROVE IInv'
<1> USE DEF IInv
<1> DEFINE pc == IF p = Supervisor THEN "reconcile" ELSE "scope"
           t == [proc[p] EXCEPT !.pc = pc, !.candidate = 0]
           next == [proc EXCEPT ![p] = t]
           o == proc[p].candidate
<1>1. /\ proc[p].pc = "recover" /\ lock = p /\ lock' = Free /\ LockMoves(p)
      /\ UNCHANGED <<op, lastLogin, listed>>
      /\ p # Supervisor => p \in OpIds
  BY DEF RecoverExpired, LockIsHeld, LockMoves, Sweepers
<1>2. t \in Threads /\ t.pc = pc /\ t.result = proc[p].result /\ pc \in {"reconcile", "scope"}
  BY DEF TypeOK, Threads, Points
<1>3. /\ next \in [Sweepers -> Threads]
      /\ next[p] = t /\ \A w \in Sweepers : w # p => next[w] = proc[w]
      /\ Free \notin Sweepers
  <2> HIDE DEF t
  <2>1. Free \notin Sweepers
    BY DEF Sweepers, OpIds
  <2> QED BY <1>2, <2>1 DEF TypeOK
<1>6. [proc EXCEPT ![p].pc = pc, ![p].candidate = 0] = next
  OBVIOUS
<1>4. CASE proc' = next /\ UNCHANGED <<login, account>>
  <2>1. CASE p = Supervisor
    BY <1>1, <1>2, <1>4, <2>1, SweepMoves
  <2>2. CASE p # Supervisor
    <3>1. Fits(p, t)
      BY <1>1, <1>2, <1>3, <2>2, ThreadFits DEF Fits, PointsAreTrue
    <3> QED BY <1>1, <1>2, <1>4, <2>2, <3>1, ThreadMoves
  <2> QED BY <2>1, <2>2
<1>5. CASE /\ Current(o) /\ login' = [login EXCEPT ![o] = Closed("expired")]
           /\ account' = [account EXCEPT !.status = "required"]
           /\ proc' = Stale(next)
  <2>1. o \in OpIds
    BY <1>5 DEF Current, ActiveLogins
  <2>2. /\ account' \in Accounts /\ account'.status # "authenticating" /\ account'.method = "qr"
    BY <1>5 DEF Current, Accounts
  <2>3. /\ proc' \in [Sweepers -> Threads]
        /\ \A w \in Sweepers : proc'[w].pc = next[w].pc /\ proc'[w].result = next[w].result
    <3> HIDE DEF next
    <3> QED BY <1>3, <1>5, StaleThreads
  <2> HIDE DEF o, t, next, pc
  <2>4. /\ proc'[p].pc \in {"reconcile", "scope"}
        /\ \A w \in Sweepers : w # p => proc'[w].pc = proc[w].pc /\ proc'[w].result = proc[w].result
        /\ OpIds \subseteq Sweepers
    BY <1>2, <1>3, <2>3 DEF Sweepers
  <2>5. \A w \in OpIds : proc'[w].pc = "idle" <=> proc[w].pc = "idle"
    BY <1>1, <2>4
  <2>6. /\ login' \in [OpIds -> [status : LoginStatuses, due : BOOLEAN]]
        /\ QR(o) /\ login[o].status = "waiting_user" /\ lastLogin = o
        /\ \A w \in OpIds : login'[w].status = IF w = o THEN "expired" ELSE login[w].status
        /\ \A w \in OpIds : ~Active(w)'
        /\ LoginsHaveTheirKind' /\ AccountFollowsLastLogin' /\ VerdictIsTrue'
        /\ ListedAreRecoverable'
    <3>1. Current(o) /\ login' = [login EXCEPT ![o] = Closed("expired")]
      BY <1>5
    <3>2. UNCHANGED <<op, lastLogin, listed>>
      BY <1>1
    <3> QED BY <2>1, <2>2, <2>5, <3>1, <3>2, SessionEnds
  <2>7. \A w \in OpIds : (QR(w)' <=> QR(w)) /\ (Cookie(w)' <=> Cookie(w))
    BY <1>1 DEF QR, Cookie
  <2>8. p \in OpIds => p # o /\ QR(p) /\ login[p].status = "none"
    BY <1>1, <2>6 DEF PointsAreTrue
  <2>9. TypeOK'
    BY <1>1, <2>2, <2>3, <2>6 DEF TypeOK
  <2>10. LockIsHeld'
    <3>1. \A w \in Sweepers : proc'[w].pc # "recover"
      BY <1>1, <2>4 DEF LockIsHeld
    <3>2. \A w \in OpIds : proc'[w].pc \notin {"locked", "child", "publish", "retained", "orphan"}
      BY <1>1, <2>4 DEF LockIsHeld
    <3>3. \A w \in OpIds : lock' # w
      BY <1>1, <1>3, <2>4
    <3> QED BY <3>1, <3>2, <3>3 DEF LockIsHeld
  <2>11. PointsAreTrue'
    <3>1. ASSUME NEW w \in OpIds, w # p
          PROVE  /\ proc'[w].pc = proc[w].pc /\ proc'[w].result = proc[w].result
                 /\ login[w].status = "none" => login'[w].status = "none"
      BY <2>4, <2>6, <3>1
    <3>2. p \in OpIds => login'[p].status = "none" /\ QR(p)' /\ ~Cookie(p)'
      BY <2>6, <2>7, <2>8 DEF QR, Cookie
    <3> QED BY <2>4, <2>7, <3>1, <3>2 DEF PointsAreTrue
  <2>12. EndsAreTrue'
    <3>1. ASSUME NEW w \in OpIds, proc'[w].pc \in {"finishing", "deferred"}
          PROVE  /\ w # p /\ proc[w].pc = proc'[w].pc /\ proc'[w].result = proc[w].result
                 /\ login[w].status \in {"none", "cancelled", "succeeded"} =>
                       login'[w].status = login[w].status
      BY <2>4, <2>6, <3>1
    <3> QED BY <1>1, <2>7, <3>1 DEF EndsAreTrue
  <2>13. ChildKeepsItsSession'
    <3>1. \A w \in OpIds : proc'[w].pc \notin {"child", "orphan"}
      BY <1>1, <2>4 DEF LockIsHeld
    <3> QED BY <3>1 DEF ChildKeepsItsSession
  <2> QED BY <2>6, <2>9, <2>10, <2>11, <2>12, <2>13
<1> QED BY <1>4, <1>5, <1>6 DEF RecoverExpired

--------------------------------------------------------------------------------
(* The steps that begin something, and the world *)

(* A login begins only when no other is active, so the account follows it.      *)
LEMMA StartSessionStep == ASSUME IInv, NEW o \in OpIds, StartSession(o) PROVE IInv'
<1> USE DEF IInv
<1>1. /\ proc[o].pc = "locked" /\ QR(o) /\ ~Cookie(o) /\ lock = o /\ login[o].status = "none"
      /\ op' = op /\ o \in Sweepers /\ OpIds \subseteq Sweepers /\ o # 0
  BY DEF StartSession, QR, Cookie, LockIsHeld, PointsAreTrue, Sweepers, OpIds
<1>2. CASE End(o, "failed") /\ Release(o) /\ UNCHANGED <<login, account, lastLogin, listed>>
  <2>1. Fits(o, Ended("failed")) /\ LockMoves(o)
    BY <1>1, <1>2, EndFits, Released
  <2> QED BY <1>1, <1>2, <2>1, ThreadGoes DEF Results
<1>3. CASE /\ ActiveLogins = {} /\ Running(op[o])
           /\ login' = [login EXCEPT ![o].status = "waiting_user"]
           /\ account' = [method |-> "qr", status |-> "authenticating"]
           /\ lastLogin' = o
           /\ proc' = Stale([proc EXCEPT ![o].pc = "child"])
           /\ Touched(o) /\ lock' = lock
  <2> DEFINE next == [proc EXCEPT ![o].pc = "child"]
  <2>1. /\ next \in [Sweepers -> Threads] /\ next[o].pc = "child"
        /\ \A w \in Sweepers : w # o => next[w] = proc[w]
    <3>1. /\ [proc[o] EXCEPT !.pc = "child"] \in Threads
          /\ [proc[o] EXCEPT !.pc = "child"].pc = "child"
      BY <1>1 DEF TypeOK, Threads, Points
    <3> QED BY <1>1, <3>1 DEF TypeOK
  <2>2. /\ proc' \in [Sweepers -> Threads]
        /\ \A w \in Sweepers : proc'[w].pc = next[w].pc /\ proc'[w].result = next[w].result
    <3> HIDE DEF next
    <3> QED BY <1>3, <2>1, StaleThreads DEF next
  <2> HIDE DEF next
  <2>3. /\ proc'[o].pc = "child"
        /\ \A w \in Sweepers : w # o => proc'[w].pc = proc[w].pc /\ proc'[w].result = proc[w].result
    BY <1>1, <2>1, <2>2
  <2>4. /\ login' \in [OpIds -> [status : LoginStatuses, due : BOOLEAN]]
        /\ \A w \in OpIds : login'[w].status = IF w = o THEN "waiting_user" ELSE login[w].status
    BY <1>3 DEF TypeOK, LoginStatuses
  <2>5. \A w \in OpIds : Active(w)' <=> w = o
    BY <1>3, <2>4 DEF ActiveLogins, Active
  <2>6. \A w \in OpIds : (QR(w)' <=> QR(w)) /\ (Cookie(w)' <=> Cookie(w))
    BY <1>1 DEF QR, Cookie
  <2>7. op[o].state = "running" /\ listed' = listed \ {o}
    BY <1>3 DEF Running, Touched
  <2>8. TypeOK'
    <3>1. account' \in Accounts
      BY <1>3 DEF Accounts
    <3> QED BY <1>1, <1>3, <2>2, <2>4, <2>7, <3>1 DEF TypeOK
  <2>9. LoginsHaveTheirKind'
    BY <1>1, <2>3, <2>4, <2>6, <2>7 DEF LoginsHaveTheirKind
  <2>10. LockIsHeld'
    BY <1>1, <1>3, <2>3, <2>6 DEF LockIsHeld
  <2>11. PointsAreTrue'
    BY <1>1, <2>3, <2>4, <2>6 DEF PointsAreTrue
  <2>12. EndsAreTrue'
    <3>1. ASSUME NEW w \in OpIds, proc'[w].pc \in {"finishing", "deferred"}
          PROVE  /\ proc[w].pc = proc'[w].pc /\ proc'[w].result = proc[w].result
                 /\ login'[w].status = login[w].status
      BY <1>1, <2>3, <2>4, <3>1
    <3> QED BY <1>1, <2>6, <3>1 DEF EndsAreTrue
  <2>13. ListedAreRecoverable'
    BY <1>1, <2>7 DEF ListedAreRecoverable
  <2>14. AccountFollowsLastLogin'
    <3>1. ActiveLogins' = {o}
      BY <2>5 DEF ActiveLogins
    <3> QED BY <1>3, <3>1 DEF AccountFollowsLastLogin
  <2>15. ChildKeepsItsSession'
    <3>1. ASSUME NEW w \in OpIds, w # o, QR(w), proc'[w].pc \in {"child", "orphan"}
          PROVE  FALSE
      <4>1. Active(w)
        BY <2>3, <3>1, <1>1 DEF ChildKeepsItsSession, QR
      <4> QED BY <1>3, <4>1 DEF ActiveLogins
    <3> QED BY <1>1, <1>3, <2>5, <2>6, <3>1 DEF ChildKeepsItsSession, QR
  <2>16. VerdictIsTrue'
    <3>1. \A w \in OpIds : w # o => login'[w].status = login[w].status
      BY <2>4
    <3>2. login'[o].status = "waiting_user"
      BY <2>4
    <3> QED BY <1>1, <2>7, <3>1, <3>2 DEF VerdictIsTrue, QR
  <2> QED BY <2>8, <2>9, <2>10, <2>11, <2>12, <2>13, <2>14, <2>15, <2>16
<1> QED BY <1>2, <1>3 DEF StartSession

(* The credential and the end of its Operation are one write.                   *)
LEMMA PublishStep == ASSUME IInv, NEW o \in OpIds, Publish(o) PROVE IInv'
<1> USE DEF IInv
<1>1. /\ proc[o].pc = "publish" /\ Cookie(o) /\ ~QR(o) /\ lock = o /\ login[o].status = "none"
      /\ Release(o) /\ lock' = Free
      /\ o \in Sweepers /\ OpIds \subseteq Sweepers /\ Free \notin Sweepers
  BY DEF Publish, QR, Cookie, LockIsHeld, PointsAreTrue, Sweepers, OpIds, Release
<1>2. CASE End(o, "failed") /\ UNCHANGED <<op, login, account, lastLogin, listed>>
  <2>1. Fits(o, Ended("failed")) /\ LockMoves(o)
    BY <1>1, EndFits, Released
  <2> QED BY <1>1, <1>2, <2>1, ThreadGoes DEF Results
<1>3. ASSUME Fenced(op[o]), Observed(o), Published(o),
             op' = [op EXCEPT ![o] = Finished(@, "succeeded")], Touched(o),
             NEW e \in {"succeeded", "failed"},
             proc' = Stale([proc EXCEPT ![o] = Ended(e)])
      PROVE  IInv'
  <2> DEFINE next == [proc EXCEPT ![o] = Ended(e)]
  <2>1. /\ next \in [Sweepers -> Threads]
        /\ next[o].pc = "finishing" /\ next[o].result = e
        /\ \A w \in Sweepers : w # o => next[w] = proc[w]
    BY <1>1, ThreadTypes DEF TypeOK, Ended, Idle, Results
  <2>2. /\ proc' \in [Sweepers -> Threads]
        /\ \A w \in Sweepers : proc'[w].pc = next[w].pc /\ proc'[w].result = next[w].result
    <3> HIDE DEF next
    <3> QED BY <1>3, <2>1, StaleThreads DEF next
  <2> HIDE DEF next
  <2>3. /\ proc'[o].pc = "finishing" /\ proc'[o].result = e
        /\ \A w \in Sweepers : w # o => proc'[w].pc = proc[w].pc /\ proc'[w].result = proc[w].result
    BY <1>1, <2>1, <2>2
  <2>4. /\ login' \in [OpIds -> [status : LoginStatuses, due : BOOLEAN]]
        /\ \A w \in OpIds : login'[w].status = IF w = o THEN "credential" ELSE login[w].status
        /\ account' = [method |-> "cookie", status |-> "authenticated"] /\ lastLogin' = o
    BY <1>3 DEF Published, Closed, TypeOK, LoginStatuses
  <2>5. ActiveLogins = {} /\ ActiveLogins' = {}
    BY <1>3, <2>4 DEF Observed, ActiveLogins, Active
  <2>6. /\ op[o] \in OperationRows /\ op[o].state = "running" /\ ~op[o].cancelled
    BY <1>3 DEF Fenced, Running, TypeOK
  <2>7. /\ Finished(op[o], "succeeded") \in OperationRows
        /\ Finished(op[o], "succeeded").kind = op[o].kind
        /\ Finished(op[o], "succeeded").state = "succeeded"
        /\ Finished(op[o], "succeeded").cancelled = op[o].cancelled
    <3>1. Finished(op[o], "succeeded").cancelled = op[o].cancelled
      BY <2>6 DEF Finished, OperationRows
    <3>2. "succeeded" \in TerminalStates
      BY DEF TerminalStates
    <3>3. /\ Finished(op[o], "succeeded") \in OperationRows
          /\ Finished(op[o], "succeeded").kind = op[o].kind
          /\ Finished(op[o], "succeeded").state = "succeeded"
      BY <2>6, <3>2, RowTypes
    <3> QED BY <3>1, <3>3
  <2>8. /\ op' \in [OpIds -> OperationRows]
        /\ op'[o].kind = op[o].kind /\ op'[o].state = "succeeded" /\ ~op'[o].cancelled
        /\ \A w \in OpIds : w # o => op'[w] = op[w]
    BY <1>3, <2>6, <2>7 DEF TypeOK
  <2>9. \A w \in OpIds : (QR(w)' <=> QR(w)) /\ (Cookie(w)' <=> Cookie(w))
    BY <2>8 DEF QR, Cookie
  <2>10. listed' = listed \ {o}
    BY <1>3 DEF Touched
  <2>11. TypeOK'
    <3>1. account' \in Accounts
      BY <2>4 DEF Accounts
    <3> QED BY <1>1, <2>2, <2>4, <2>8, <2>10, <3>1 DEF TypeOK
  <2>12. LoginsHaveTheirKind'
    BY <1>1, <2>3, <2>4, <2>8, <2>9 DEF LoginsHaveTheirKind
  <2>13. LockIsHeld'
    <3>1. \A w \in Sweepers : lock' # w
      BY <1>1
    <3>2. \A w \in Sweepers : proc'[w].pc # "recover"
      BY <1>1, <2>3 DEF LockIsHeld
    <3>3. \A w \in OpIds : proc'[w].pc \notin {"locked", "child", "publish", "retained", "orphan"}
      BY <1>1, <2>3 DEF LockIsHeld
    <3> QED BY <1>1, <3>1, <3>2, <3>3 DEF LockIsHeld
  <2>14. PointsAreTrue'
    BY <1>1, <2>3, <2>4, <2>9 DEF PointsAreTrue
  <2>15. EndsAreTrue'
    <3>1. ASSUME NEW w \in OpIds, w # o, proc'[w].pc \in {"finishing", "deferred"}
          PROVE  /\ proc[w].pc = proc'[w].pc /\ proc'[w].result = proc[w].result
                 /\ login'[w].status = login[w].status /\ op'[w] = op[w]
      BY <1>1, <2>3, <2>4, <2>8, <3>1
    <3>2. ~QR(o)' /\ proc'[o].result \in {"succeeded", "failed"}
      BY <1>1, <2>3, <2>9
    <3> QED BY <2>3, <2>8, <2>9, <3>1, <3>2 DEF EndsAreTrue
  <2>16. ListedAreRecoverable'
    BY <2>8, <2>10 DEF ListedAreRecoverable, Recoverable, Running, TypeOK
  <2>17. AccountFollowsLastLogin'
    <3>1. lastLogin' # 0 /\ login'[lastLogin'].status = "credential"
      BY <2>4 DEF OpIds
    <3> QED BY <2>4, <2>5, <3>1 DEF AccountFollowsLastLogin
  <2>18. ChildKeepsItsSession'
    <3>1. \A w \in OpIds : proc'[w].pc \notin {"child", "orphan"}
      BY <1>1, <2>3 DEF LockIsHeld
    <3> QED BY <3>1 DEF ChildKeepsItsSession
  <2>19. VerdictIsTrue'
    <3>1. \A w \in OpIds : w # o => login'[w].status = login[w].status /\ op'[w] = op[w]
      BY <2>4, <2>8
    <3>2. login'[o].status = "credential" /\ op'[o].kind = "account-cookie-login"
      BY <1>1, <2>4, <2>8 DEF Cookie
    <3> QED BY <2>8, <3>1, <3>2 DEF VerdictIsTrue
  <2> QED BY <2>11, <2>12, <2>13, <2>14, <2>15, <2>16, <2>17, <2>18, <2>19
<1>4. CASE Fenced(op[o]) /\ Observed(o) /\ ~proc[o].cancelled
  <2>1. PICK told \in BOOLEAN :
          proc' = Stale([proc EXCEPT ![o] = Ended(IF told THEN "succeeded" ELSE "failed")])
    BY <1>4 DEF Publish
  <2>2. /\ Published(o) /\ Touched(o)
        /\ op' = [op EXCEPT ![o] = Finished(@, "succeeded")]
    BY <1>4 DEF Publish
  <2>3. CASE told
    BY <1>3, <1>4, <2>1, <2>2, <2>3
  <2>4. CASE ~told
    BY <1>3, <1>4, <2>1, <2>2, <2>4
  <2> QED BY <2>3, <2>4
<1> QED BY <1>2, <1>4 DEF Publish

(* A new Operation has done nothing yet, and nobody acts for it.                *)
LEMMA SubmitStep ==
  ASSUME IInv, NEW o \in OpIds, NEW kind \in Kinds, Submit(o, kind)
  PROVE  IInv'
<1> USE DEF IInv
<1> DEFINE row == Claimed(NoOperation(kind))
<1>1. /\ op[o].state = "absent" /\ proc[o].pc = "idle" /\ login[o].status = "none"
      /\ QR(o) /\ lock # o
      /\ op' = [op EXCEPT ![o] = row] /\ UNCHANGED <<login, account, lastLogin, lock, listed>>
      /\ o \in Sweepers /\ OpIds \subseteq Sweepers
  BY DEF Submit, LoginsHaveTheirKind, LockIsHeld, Sweepers
<1>2. /\ row \in OperationRows /\ row.kind = kind /\ row.state = "running" /\ ~row.cancelled
  BY RowTypes, <1>1 DEF TypeOK
<1> HIDE DEF row
<1>3. PICK t \in Threads :
        /\ proc' = [proc EXCEPT ![o] = t]
        /\ t.pc \in {"start", "finishing"}
        /\ t.pc = "finishing" => t.result = "failed"
  <2>1. CASE End(o, "failed")
    BY <2>1, ThreadTypes DEF End, Ended, Idle, Results
  <2>2. CASE proc' = [proc EXCEPT ![o] = [Idle EXCEPT !.pc = "start",
                                                     !.fresh = (kind = "account-cookie-login")]]
    <3> DEFINE t == [Idle EXCEPT !.pc = "start", !.fresh = (kind = "account-cookie-login")]
    <3>1. t \in Threads /\ t.pc = "start"
      BY DEF Idle, Threads, Points, Results
    <3> QED BY <2>2, <3>1
  <2> QED BY <2>1, <2>2 DEF Submit
<1>4. /\ proc'[o] = t /\ \A w \in Sweepers : w # o => proc'[w] = proc[w]
      /\ op'[o] = row /\ \A w \in OpIds : w # o => op'[w] = op[w]
  <2>1. proc'[o] = t /\ \A w \in Sweepers : w # o => proc'[w] = proc[w]
    BY <1>1, <1>3 DEF TypeOK
  <2>2. op'[o] = row /\ \A w \in OpIds : w # o => op'[w] = op[w]
    BY <1>1 DEF TypeOK
  <2> QED BY <2>1, <2>2
<1>5. o \notin listed
  BY <1>1 DEF ListedAreRecoverable, Recoverable, Running
<1>6. \A w \in OpIds : w # o => (QR(w)' <=> QR(w)) /\ (Cookie(w)' <=> Cookie(w))
  BY <1>4 DEF QR, Cookie
<1>7. TypeOK'
  BY <1>1, <1>2, <1>3 DEF TypeOK
<1>8. LoginsHaveTheirKind'
  BY <1>1, <1>2, <1>4, <1>6 DEF LoginsHaveTheirKind
<1>9. LockIsHeld'
  BY <1>1, <1>3, <1>4, <1>6 DEF LockIsHeld
<1>10. PointsAreTrue'
  BY <1>1, <1>3, <1>4, <1>6 DEF PointsAreTrue
<1>11. EndsAreTrue'
  BY <1>1, <1>3, <1>4, <1>6 DEF EndsAreTrue
<1>12. ListedAreRecoverable'
  BY <1>1, <1>4, <1>5 DEF ListedAreRecoverable, TypeOK
<1>13. AccountFollowsLastLogin'
  BY <1>1 DEF AccountFollowsLastLogin, ActiveLogins, Active
<1>14. ChildKeepsItsSession'
  BY <1>1, <1>3, <1>4 DEF ChildKeepsItsSession, Active
<1>15. VerdictIsTrue'
  BY <1>1, <1>2, <1>4 DEF VerdictIsTrue
<1> QED BY <1>7, <1>8, <1>9, <1>10, <1>11, <1>12, <1>13, <1>14, <1>15

(* A deadline that passes changes no status.                                  *)
LEMMA DeadlineStep == ASSUME IInv, NEW o \in OpIds, Deadline(o) PROVE IInv'
<1> USE DEF IInv
<1>1. /\ login' = [login EXCEPT ![o].due = TRUE]
      /\ UNCHANGED <<op, account, lastLogin, lock, proc, listed>>
  BY DEF Deadline
<1>2. /\ login' \in [OpIds -> [status : LoginStatuses, due : BOOLEAN]]
      /\ \A w \in OpIds : login'[w].status = login[w].status
  BY <1>1 DEF TypeOK
<1>3. ActiveLogins' = ActiveLogins /\ \A w \in OpIds : Active(w)' <=> Active(w)
  BY <1>2 DEF ActiveLogins, Active
<1>4. TypeOK'
  BY <1>1, <1>2 DEF TypeOK
<1>5. LoginsHaveTheirKind'
  BY <1>1, <1>2 DEF LoginsHaveTheirKind, QR, Cookie
<1>6. LockIsHeld'
  BY <1>1 DEF LockIsHeld, QR
<1>7. PointsAreTrue'
  BY <1>1, <1>2 DEF PointsAreTrue, QR, Cookie
<1>8. EndsAreTrue'
  BY <1>1, <1>2 DEF EndsAreTrue, QR, Cookie
<1>9. ListedAreRecoverable'
  BY <1>1 DEF ListedAreRecoverable
<1>10. AccountFollowsLastLogin'
  <2>1. lastLogin # 0 => login'[lastLogin].status = login[lastLogin].status
    BY <1>2 DEF TypeOK
  <2> QED BY <1>1, <1>3, <2>1 DEF AccountFollowsLastLogin
<1>11. ChildKeepsItsSession'
  BY <1>1, <1>3 DEF ChildKeepsItsSession
<1>12. VerdictIsTrue'
  BY <1>1, <1>2 DEF VerdictIsTrue
<1> QED BY <1>4, <1>5, <1>6, <1>7, <1>8, <1>9, <1>10, <1>11, <1>12

(* An expired saved session is still the session of its login.                *)
LEMMA SavedSessionExpiresStep == ASSUME IInv, SavedSessionExpires PROVE IInv'
<1> USE DEF IInv
<1>1. /\ account = [method |-> "saved_session", status |-> "authenticated"]
      /\ account' = [account EXCEPT !.status = "expired"]
      /\ proc' = Stale(proc) /\ UNCHANGED <<op, login, lastLogin, lock, listed>>
  BY DEF SavedSessionExpires
<1>2. /\ proc' \in [Sweepers -> Threads] /\ OpIds \subseteq Sweepers
      /\ \A w \in Sweepers : proc'[w].pc = proc[w].pc /\ proc'[w].result = proc[w].result
  BY <1>1, StaleThreads DEF TypeOK, Sweepers
<1>3. /\ account' \in Accounts /\ account'.method = "saved_session" /\ account'.status = "expired"
      /\ account.method = "saved_session" /\ account.status = "authenticated"
  BY <1>1 DEF Accounts
<1>4. TypeOK'
  BY <1>1, <1>2, <1>3 DEF TypeOK
<1>5. LoginsHaveTheirKind'
  BY <1>1, <1>2 DEF LoginsHaveTheirKind, QR, Cookie
<1>6. LockIsHeld'
  BY <1>1, <1>2 DEF LockIsHeld, QR
<1>7. PointsAreTrue'
  BY <1>1, <1>2 DEF PointsAreTrue, QR, Cookie
<1>8. EndsAreTrue'
  BY <1>1, <1>2 DEF EndsAreTrue, QR, Cookie
<1>9. ListedAreRecoverable'
  BY <1>1 DEF ListedAreRecoverable
<1>10. AccountFollowsLastLogin'
  BY <1>1, <1>3 DEF AccountFollowsLastLogin, ActiveLogins, Active
<1>11. ChildKeepsItsSession'
  BY <1>1, <1>2 DEF ChildKeepsItsSession, Active
<1>12. VerdictIsTrue'
  BY <1>1 DEF VerdictIsTrue
<1> QED BY <1>4, <1>5, <1>6, <1>7, <1>8, <1>9, <1>10, <1>11, <1>12

(* A child that outlived its service gives its lock back.                     *)
LEMMA OrphanEndsStep == ASSUME IInv, NEW o \in OpIds, OrphanEnds(o) PROVE IInv'
<1>1. /\ proc[o].pc = "orphan" /\ proc' = [proc EXCEPT ![o] = Idle]
      /\ LockMoves(o) /\ lock' # o
      /\ UNCHANGED <<op, login, account, lastLogin>> /\ listed' \subseteq listed
  BY Released DEF OrphanEnds
<1>2. Idle \in Threads /\ Idle.pc = "idle"
  BY ThreadTypes DEF Idle
<1>3. Fits(o, Idle)
  BY <1>1, <1>2, ThreadFits DEF Fits
<1> QED BY <1>1, <1>2, <1>3, ThreadMoves

(* A service that dies leaves its children, their locks and their sessions.     *)
LEMMA ServiceDiesStep == ASSUME IInv, ServiceDies PROVE IInv'
<1> USE DEF IInv
<1>1. /\ proc' = [p \in Sweepers |->
                   IF p = Supervisor THEN proc[p]
                   ELSE IF HasChild(p) THEN [Idle EXCEPT !.pc = "orphan"] ELSE Idle]
      /\ lock' = IF lock \in OpIds /\ ~HasChild(lock) THEN Free ELSE lock
      /\ listed' = {} /\ UNCHANGED <<op, login, account, lastLogin>>
  BY DEF ServiceDies
<1> DEFINE orphan == [Idle EXCEPT !.pc = "orphan"]
<1>2. /\ Idle \in Threads /\ Idle.pc = "idle"
      /\ orphan \in Threads /\ orphan.pc = "orphan"
  BY DEF Idle, Threads, Points, Results
<1>3. /\ proc' \in [Sweepers -> Threads]
      /\ proc'[Supervisor] = proc[Supervisor]
      /\ \A o \in OpIds : proc'[o] = IF HasChild(o) THEN orphan ELSE Idle
      /\ Supervisor \notin OpIds /\ Free \notin OpIds /\ OpIds \subseteq Sweepers
  <2>1. Supervisor \notin OpIds /\ Free \notin OpIds
    BY DEF OpIds
  <2> HIDE DEF orphan
  <2> QED BY <1>1, <1>2, <2>1 DEF Sweepers, TypeOK, orphan
<1> HIDE DEF orphan
<1>4. /\ \A o \in OpIds : proc'[o].pc = IF HasChild(o) THEN "orphan" ELSE "idle"
      /\ \A o \in OpIds : lock' = o => lock = o /\ HasChild(o)
      /\ \A o \in OpIds : HasChild(o) => lock' = o
      /\ lock = Supervisor => lock' = Supervisor
      /\ lock' \in OpIds \cup {Supervisor, Free}
  <2>1. \A o \in OpIds : HasChild(o) => lock = o
    BY DEF HasChild
  <2> QED BY <1>1, <1>2, <1>3, <2>1 DEF TypeOK
<1>5. \A o \in OpIds : QR(o) /\ HasChild(o) => Active(o)
  BY DEF HasChild, LockIsHeld, ChildKeepsItsSession, QR
<1>6. \A o \in OpIds : (QR(o)' <=> QR(o)) /\ (Active(o)' <=> Active(o))
  BY <1>1 DEF QR, Active
<1>7. TypeOK'
  BY <1>1, <1>3, <1>4 DEF TypeOK
<1>8. LoginsHaveTheirKind'
  BY <1>1, <1>4 DEF LoginsHaveTheirKind, QR, Cookie, HasChild
<1>9. LockIsHeld'
  <2>1. \A p \in Sweepers : p \in OpIds \/ p = Supervisor
    BY DEF Sweepers
  <2> QED BY <1>3, <1>4, <1>6, <2>1 DEF LockIsHeld
<1>10. PointsAreTrue'
  BY <1>4 DEF PointsAreTrue
<1>11. EndsAreTrue'
  BY <1>4 DEF EndsAreTrue
<1>12. ListedAreRecoverable'
  BY <1>1 DEF ListedAreRecoverable
<1>13. AccountFollowsLastLogin'
  BY <1>1 DEF AccountFollowsLastLogin, ActiveLogins, Active
<1>14. ChildKeepsItsSession'
  BY <1>4, <1>5, <1>6 DEF ChildKeepsItsSession, QR
<1>15. VerdictIsTrue'
  BY <1>1 DEF VerdictIsTrue
<1> QED BY <1>7, <1>8, <1>9, <1>10, <1>11, <1>12, <1>13, <1>14, <1>15

--------------------------------------------------------------------------------
(* The invariant, and what follows from it *)

(* The invariant holds before the first login.                                *)
LEMMA Initially == Init => IInv
<1> SUFFICES ASSUME Init PROVE IInv
  OBVIOUS
<1>1. /\ \A o \in OpIds : op[o] = NoOperation("account-login") /\ login[o] = Closed("none")
      /\ \A o \in OpIds : proc[o] = Idle
      /\ proc[Supervisor] = Sweeping
      /\ Supervisor \notin OpIds /\ Free \notin Sweepers
      /\ account = [method |-> "qr", status |-> "required"] /\ lastLogin = 0 /\ lock = Free
      /\ listed = {}
  BY DEF Init, Sweepers, OpIds
<1>2. /\ NoOperation("account-login") \in OperationRows
      /\ NoOperation("account-login").state = "absent"
      /\ NoOperation("account-login").kind = "account-login"
      /\ ~NoOperation("account-login").cancelled
      /\ Closed("none") \in [status : LoginStatuses, due : BOOLEAN] /\ Closed("none").status = "none"
      /\ Idle \in Threads /\ Idle.pc = "idle" /\ Sweeping \in Threads /\ Sweeping.pc = "reconcile"
  BY ThreadTypes
     DEF NoOperation, OperationRows, Kinds, Closed, LoginStatuses, Idle, Sweeping
<1>3. TypeOK
  BY <1>1, <1>2 DEF Init, TypeOK, Accounts, Sweepers
<1>4. LoginsHaveTheirKind /\ PointsAreTrue /\ EndsAreTrue /\ ListedAreRecoverable
  BY <1>1, <1>2
     DEF LoginsHaveTheirKind, PointsAreTrue, EndsAreTrue, ListedAreRecoverable, QR, Cookie
<1>5. LockIsHeld
  BY <1>1, <1>2 DEF LockIsHeld, Sweepers
<1>6. AccountFollowsLastLogin
  BY <1>1, <1>2 DEF AccountFollowsLastLogin, ActiveLogins, Active
<1>7. ChildKeepsItsSession /\ VerdictIsTrue
  BY <1>1, <1>2 DEF ChildKeepsItsSession, VerdictIsTrue
<1> QED BY <1>3, <1>4, <1>5, <1>6, <1>7 DEF IInv

(* Every step of every party keeps the invariant.                               *)
LEMMA Inductive == IInv /\ [Next]_vars => IInv'
<1> SUFFICES ASSUME IInv, [Next]_vars PROVE IInv'
  OBVIOUS
<1>1. CASE UNCHANGED vars
  BY <1>1
     DEF vars, IInv, TypeOK, LoginsHaveTheirKind, LockIsHeld, PointsAreTrue, EndsAreTrue,
         ListedAreRecoverable, AccountFollowsLastLogin, ChildKeepsItsSession, VerdictIsTrue,
         Recoverable, Running, QR, Cookie, Active, ActiveLogins
<1>2. ASSUME NEW o \in OpIds, Thread(o)
      PROVE  IInv'
  <2>1. o \in Sweepers
    BY DEF Sweepers
  <2> QED BY <1>2, <2>1, StartStep, FinishIntentStep, ListExpiredStep, LockExpiredStep,
             RecoverExpiredStep, TakeLockStep, LoadScopeStep, StartSessionStep, ChildReturnsStep,
             ReadClockStep, FinishLoginStep, AbandonStep, SnapshotStep, VerifyStep, PublishStep
          DEF Thread
<1>3. ASSUME Round \/ SupervisorDies
      PROVE  IInv'
  <2>1. Supervisor \in Sweepers
    BY DEF Sweepers
  <2> QED BY <1>3, <2>1, SweepStep, RecoverExpiredStep DEF Round
<1>4. ASSUME NEW o \in OpIds, DeferTerminal(o) \/ Heartbeat(o) \/ HeartbeatFails(o)
                              \/ RequestCancel(o) \/ ObserveCancel(o) \/ Reconcile(o)
                              \/ Lapse(o) \/ Deadline(o) \/ OrphanEnds(o)
      PROVE  IInv'
  BY <1>4, DeferTerminalStep, HeartbeatStep, CancelStep, RequestCancelStep, ReconcileStep,
     LapseStep, DeadlineStep, OrphanEndsStep
<1> QED BY <1>1, <1>2, <1>3, <1>4, SubmitStep, ListExpiredOperationsStep,
           SavedSessionExpiresStep, ServiceDiesStep
        DEF Next

(* The induction over the steps.                                              *)
LEMMA Invariant == Spec => []IInv
BY Initially, Inductive, PTL DEF Spec

(* The rows keep the values of the enumerations of the code.                    *)
THEOREM TypeCorrect == Spec => []TypeOK
<1>1. IInv => TypeOK
  BY DEF IInv
<1> QED BY <1>1, Invariant, PTL

(* Whatever late owners, sweeps, recoveries and reconcilers write, the account  *)
(* and the session of its last login tell the same story.                       *)
THEOREM AccountFollows == Spec => []AccountFollowsLastLogin
<1>1. IInv => AccountFollowsLastLogin
  BY DEF IInv
<1> QED BY <1>1, Invariant, PTL

(* No sweep and no other login takes the session from a child that may still    *)
(* drive the browser profile.                                                   *)
THEOREM ChildIsUndisturbed == Spec => []ChildKeepsItsSession
<1>1. IInv => ChildKeepsItsSession
  BY DEF IInv
<1> QED BY <1>1, Invariant, PTL

(* Whoever ends an Operation, what it says is what happened to the account.     *)
THEOREM VerdictsAreTrue == Spec => []VerdictIsTrue
<1>1. IInv => VerdictIsTrue
  BY DEF IInv
<1> QED BY <1>1, Invariant, PTL
================================================================================
