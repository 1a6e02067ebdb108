------------------------------- MODULE BinSem -------------------------------
(***************************************************************************)
(* One binary semaphore of the POSIX layer: OS_BinSemGive, OS_BinSemFlush, *)
(* OS_BinSemTake, OS_BinSemTimedWait and OS_BinSemDelete, as implemented   *)
(* by src/os/posix/src/os-impl-binsem.c over a priority inheriting mutex   *)
(* and a condition variable.                                               *)
(*                                                                         *)
(* The operations look the semaphore up with OS_LOCK_MODE_NONE, so nothing *)
(* keeps a delete away from a task that has passed its lookup.             *)
(*                                                                         *)
(* A task waits on the condition variable while its pc is "blocked".  It   *)
(* is woken by a signal, a broadcast or spuriously ("woken"), by its       *)
(* timeout ("expired") or by pthread_cancel ("cancelled"), and then has to *)
(* get the mutex again before pthread_cond_wait returns.                   *)
(***************************************************************************)
EXTENDS Naturals, FiniteSets

CONSTANTS
  Tasks,        \* the threads that use the semaphore
  NoTask,       \* "nobody holds the mutex"
  DESTROYED,    \* the mutex after pthread_mutex_destroy
  Cancellable,  \* tasks that another task may delete (pthread_cancel)
  Deletable,    \* may a task delete the semaphore
  MaxFlush      \* flushes start only while fewer have been counted

ASSUME TasksAssumption ==
  /\ NoTask \notin Tasks /\ DESTROYED \notin Tasks /\ NoTask # DESTROYED
  /\ Cancellable \subseteq Tasks
ASSUME BoundAssumption == MaxFlush \in Nat /\ Deletable \in BOOLEAN

VARIABLES
  active_id,      \* "valid", "reserved" by a delete, or "free"
  mutex,          \* sem->id: its owner, NoTask or DESTROYED
  current_value,  \* sem->current_value
  flush_request,  \* sem->flush_request
  pc,             \* task -> where it is in its call
  timeout,        \* task -> its timeout, NULL for OS_BinSemTake
  flush_count,    \* task -> its snapshot of flush_request
  rc              \* task -> return code of its last take

vars == <<active_id, mutex, current_value, flush_request, pc, timeout,
          flush_count, rc>>

sem == <<current_value, flush_request>>
locals == <<timeout, flush_count, rc>>

LockPcs == {"take_lock", "give_lock", "flush_lock"}
CondPcs == {"blocked", "woken", "expired", "cancelled"}
OwnerPcs == {"take_snapshot", "take_check", "take_wait", "take_end", "give_set",
             "give_signal", "flush_set", "flush_broadcast", "unlock", "cleanup"}
Pcs == LockPcs \cup CondPcs \cup OwnerPcs
         \cup {"idle", "delete_cv", "delete_mutex", "gone"}

TypeOK ==
  /\ active_id \in {"valid", "reserved", "free"}
  /\ mutex \in Tasks \cup {NoTask, DESTROYED}
  /\ current_value \in 0..1
  /\ flush_request \in Nat
  /\ pc \in [Tasks -> Pcs]
  /\ timeout \in [Tasks -> {"NULL", "given"}]
  /\ flush_count \in [Tasks -> Nat]
  /\ rc \in [Tasks -> {"none", "success", "timeout"}]

(* OS_BinSemCreate has returned; values above 1 were taken as 1.           *)
Init ==
  /\ active_id = "valid"
  /\ mutex = NoTask
  /\ current_value \in 0..1
  /\ flush_request = 0
  /\ pc = [t \in Tasks |-> "idle"]
  /\ timeout = [t \in Tasks |-> "NULL"]
  /\ flush_count = [t \in Tasks |-> 0]
  /\ rc = [t \in Tasks |-> "none"]

Goto(t, from, to) == pc[t] = from /\ pc' = [pc EXCEPT ![t] = to]

(* The locals of a call end with it.                                       *)
Forget(t) ==
  /\ timeout' = [timeout EXCEPT ![t] = "NULL"]
  /\ flush_count' = [flush_count EXCEPT ![t] = 0]

-----------------------------------------------------------------------------
(* The public calls: a lookup without a lock, which needs a valid id.      *)

BinSemTake(t) ==
  /\ active_id = "valid"
  /\ Goto(t, "idle", "take_lock")
  /\ \E ts \in {"NULL", "given"} : timeout' = [timeout EXCEPT ![t] = ts]
  /\ UNCHANGED <<active_id, mutex, sem, flush_count, rc>>

BinSemGive(t) ==
  /\ active_id = "valid"
  /\ Goto(t, "idle", "give_lock")
  /\ UNCHANGED <<active_id, mutex, sem, locals>>

BinSemFlush(t) ==
  /\ active_id = "valid" /\ flush_request < MaxFlush
  /\ Goto(t, "idle", "flush_lock")
  /\ UNCHANGED <<active_id, mutex, sem, locals>>

(* OS_Posix_BinSemAcquireMutex: lock, or fail after two seconds or when    *)
(* the clock cannot be read.                                               *)
Inside == [p \in LockPcs |-> CASE p = "take_lock"  -> "take_snapshot"
                               [] p = "give_lock"  -> "give_set"
                               [] p = "flush_lock" -> "flush_set"]

(* Mutant: a give does not lock, so that it never has to wait.             *)
AcquireMutex_GiveSkips(t) ==
  /\ pc[t] \in LockPcs
  /\ \/ pc[t] = "give_lock" /\ UNCHANGED mutex
     \/ pc[t] # "give_lock" /\ mutex = NoTask /\ mutex' = t
  /\ pc' = [pc EXCEPT ![t] = Inside[pc[t]]]
  /\ UNCHANGED <<active_id, sem, locals>>

AcquireMutex(t) ==
  /\ pc[t] \in LockPcs
  /\ mutex = NoTask
  /\ mutex' = t
  /\ pc' = [pc EXCEPT ![t] = Inside[pc[t]]]
  /\ UNCHANGED <<active_id, sem, locals>>

AcquireFails(t) ==
  /\ pc[t] \in LockPcs
  /\ pc' = [pc EXCEPT ![t] = "idle"]
  /\ Forget(t)
  /\ UNCHANGED <<active_id, mutex, sem, rc>>

(* pthread_mutex_unlock; a priority inheriting mutex refuses a non-owner.  *)
Release(t) == mutex' = IF mutex = t THEN NoTask ELSE mutex

Unlock(t) ==
  /\ Goto(t, "unlock", "idle")
  /\ Release(t) /\ Forget(t)
  /\ UNCHANGED <<active_id, sem, rc>>

-----------------------------------------------------------------------------
(* OS_BinSemGive_Impl                                                      *)

GiveSet(t) ==
  /\ Goto(t, "give_set", "give_signal")
  /\ current_value' = 1
  /\ UNCHANGED <<active_id, mutex, flush_request, locals>>

Blocked == {t \in Tasks : pc[t] = "blocked"}

(* pthread_cond_signal wakes one waiting task, if there is one.            *)
GiveSignal(t) ==
  /\ pc[t] = "give_signal"
  /\ IF Blocked = {}
       THEN pc' = [pc EXCEPT ![t] = "unlock"]
       ELSE \E w \in Blocked : pc' = [pc EXCEPT ![t] = "unlock", ![w] = "woken"]
  /\ UNCHANGED <<active_id, mutex, sem, locals>>

(* OS_BinSemFlush_Impl *)

FlushSet(t) ==
  /\ Goto(t, "flush_set", "flush_broadcast")
  /\ flush_request' = flush_request + 1
  /\ UNCHANGED <<active_id, mutex, current_value, locals>>

FlushBroadcast(t) ==
  /\ pc[t] = "flush_broadcast"
  /\ pc' = [u \in Tasks |-> IF u = t THEN "unlock"
                            ELSE IF u \in Blocked THEN "woken" ELSE pc[u]]
  /\ UNCHANGED <<active_id, mutex, sem, locals>>

-----------------------------------------------------------------------------
(* OS_GenericBinSemTake_Impl                                               *)

TakeSnapshot(t) ==
  /\ Goto(t, "take_snapshot", "take_check")
  /\ flush_count' = [flush_count EXCEPT ![t] = flush_request]
  /\ rc' = [rc EXCEPT ![t] = "none"]
  /\ UNCHANGED <<active_id, mutex, sem, timeout>>

(* Mutant: the loop looks at the value only.                               *)
MustPend_IgnoresFlush(t) == current_value = 0

MustPend(t) == current_value = 0 /\ flush_request = flush_count[t]

TakeCheck(t) ==
  /\ Goto(t, "take_check", IF MustPend(t) THEN "take_wait" ELSE "take_end")
  /\ UNCHANGED <<active_id, mutex, sem, locals>>

(* pthread_cond_wait: start to wait and release the mutex, in one step.    *)
CondWait(t) ==
  /\ Goto(t, "take_wait", "blocked")
  /\ Release(t)
  /\ UNCHANGED <<active_id, sem, locals>>

WakeSpuriously(t) ==
  /\ Goto(t, "blocked", "woken")
  /\ UNCHANGED <<active_id, mutex, sem, locals>>

Expire(t) ==
  /\ timeout[t] # "NULL"
  /\ Goto(t, "blocked", "expired")
  /\ UNCHANGED <<active_id, mutex, sem, locals>>

CancelTask(t) ==
  /\ t \in Cancellable
  /\ Goto(t, "blocked", "cancelled")
  /\ UNCHANGED <<active_id, mutex, sem, locals>>

(* pthread_cond_wait returns, or unwinds, with the mutex locked again.     *)
Reacquire(t) ==
  /\ mutex = NoTask
  /\ mutex' = t
  /\ \/ /\ Goto(t, "woken", "take_check")
        /\ UNCHANGED rc
     \/ /\ Goto(t, "expired", "unlock")
        /\ rc' = [rc EXCEPT ![t] = "timeout"]
     \/ /\ Goto(t, "cancelled", "cleanup")
        /\ UNCHANGED rc
  /\ UNCHANGED <<active_id, sem, timeout, flush_count>>

(* Mutant: a flushed task takes the semaphore.                             *)
TakeEnd_IgnoresFlush(t) ==
  /\ Goto(t, "take_end", "unlock")
  /\ current_value' = 0
  /\ rc' = [rc EXCEPT ![t] = "success"]
  /\ UNCHANGED <<active_id, mutex, flush_request, timeout, flush_count>>

(* The end of the loop: only a task that was not flushed takes.            *)
TakeEnd(t) ==
  /\ Goto(t, "take_end", "unlock")
  /\ current_value' = IF flush_request = flush_count[t] THEN 0 ELSE current_value
  /\ rc' = [rc EXCEPT ![t] = "success"]
  /\ UNCHANGED <<active_id, mutex, flush_request, timeout, flush_count>>

(* The cleanup handler of a cancelled task.                                *)
ReleaseMutex(t) ==
  /\ Goto(t, "cleanup", "gone")
  /\ Release(t) /\ Forget(t)
  /\ UNCHANGED <<active_id, sem, rc>>
-----------------------------------------------------------------------------
(* OS_BinSemDelete under an EXCLUSIVE transaction, which withdraws the id. *)

BinSemDelete(t) ==
  /\ Deletable /\ active_id = "valid"
  /\ Goto(t, "idle", "delete_cv")
  /\ active_id' = "reserved"
  /\ UNCHANGED <<mutex, sem, locals>>

InCondWait == {t \in Tasks : pc[t] \in CondPcs}

(* pthread_cond_destroy reports a condition variable in use, and           *)
(* OS_ObjectIdFinalizeDelete then puts the id back.                        *)
DestroyCvFails(t) ==
  /\ InCondWait # {}
  /\ Goto(t, "delete_cv", "idle")
  /\ active_id' = "valid"
  /\ UNCHANGED <<mutex, sem, locals>>

DestroyCv(t) ==
  /\ InCondWait = {}
  /\ Goto(t, "delete_cv", "delete_mutex")
  /\ UNCHANGED <<active_id, mutex, sem, locals>>

(* pthread_mutex_destroy leaves a locked mutex alone; its result is        *)
(* ignored.                                                                *)
DestroyMutex(t) ==
  /\ Goto(t, "delete_mutex", "idle")
  /\ mutex' = IF mutex = NoTask THEN DESTROYED ELSE mutex
  /\ active_id' = "free"
  /\ UNCHANGED <<sem, locals>>
-----------------------------------------------------------------------------
Call(t) == BinSemTake(t) \/ BinSemGive(t) \/ BinSemFlush(t) \/ BinSemDelete(t)

Lock(t) == AcquireMutex(t) \/ Reacquire(t)

Owner(t) ==
  \/ TakeSnapshot(t) \/ TakeCheck(t) \/ CondWait(t) \/ TakeEnd(t)
  \/ GiveSet(t) \/ GiveSignal(t) \/ FlushSet(t) \/ FlushBroadcast(t)
  \/ Unlock(t) \/ ReleaseMutex(t)

Environment(t) == WakeSpuriously(t) \/ Expire(t) \/ CancelTask(t) \/ AcquireFails(t)

Delete(t) == DestroyCv(t) \/ DestroyCvFails(t) \/ DestroyMutex(t)

Next == \E t \in Tasks :
  Call(t) \/ Lock(t) \/ Owner(t) \/ Environment(t) \/ Delete(t)

Spec == Init /\ [][Next]_vars

(* The kernel runs every runnable thread, and a priority inheriting mutex  *)
(* is handed to its waiters in order: no task of equal priority waits for  *)
(* it for ever while it is free again and again.                           *)
FairSpec == Spec /\ \A t \in Tasks : WF_vars(Owner(t)) /\ SF_vars(Lock(t))
-----------------------------------------------------------------------------
Pending == {t \in Tasks : pc[t] \in CondPcs \cup {"take_check", "take_wait", "take_end"}}
Flushed == {t \in Pending : flush_count[t] # flush_request}

(* A given semaphore is not overlooked: while its value is 1 and tasks     *)
(* that no flush has released are blocked on it, the giver has yet to      *)
(* signal, or another task is on its way to take it.  (The comment in      *)
(* OS_BinSemGive_Impl on why it takes the lock.)                           *)
NoLostWakeup ==
  current_value = 1 /\ Blocked \ Flushed # {} =>
    \E t \in Tasks :
      \/ pc[t] = "give_signal"
      \/ pc[t] \in {"woken", "take_check", "take_end"} /\ t \notin Flushed

(* A flush reaches every task that pends: none stays blocked behind a      *)
(* changed flush counter once the broadcast is done (OS_BinSemFlush_Impl). *)
FlushWakesAll ==
  Blocked \cap Flushed # {} => \E t \in Tasks : pc[t] = "flush_broadcast"

(* The promise of a binary semaphore, BinSemSpec: one give lets at most    *)
(* one take through, a flush releases exactly the tasks that pend and      *)
(* leaves the value alone, a timeout takes nothing.                        *)
Abstract == INSTANCE BinSemSpec WITH
  available <- current_value = 1, pending <- Pending, flushed <- Flushed,
  outcome <- rc
ImplementsBinSem == Abstract!Spec

(* A given semaphore on which a task is blocked is taken, or the tasks     *)
(* stop waiting: OS_BinSemGive is never without effect on them, unless the *)
(* semaphore is deleted.                                                   *)
GiveIsNoticed ==
  (current_value = 1 /\ Blocked # {})
    ~> (current_value = 0 \/ Blocked = {} \/ active_id = "free")

(* A flushed task returns from its take, or is deleted, unless the         *)
(* semaphore is deleted before it gets the mutex.                          *)
FlushReleases ==
  \A t \in Tasks :
    (t \in Flushed) ~> (pc[t] \in {"idle", "gone"} \/ active_id = "free")
=============================================================================
