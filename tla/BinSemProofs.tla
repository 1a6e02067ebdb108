---------------------------- MODULE BinSemProofs ----------------------------
(***************************************************************************)
(* Proofs about BinSem, for any set of tasks and any number of flushes:    *)
(* type correctness, no lost wake-up, flushes reach every pending task,    *)
(* and that the implementation implements BinSemSpec.                      *)
(***************************************************************************)
EXTENDS BinSem, TLAPS

(* Only the owner of the mutex is in the locked part of an operation.      *)
LockInv == \A t \in Tasks : pc[t] \in OwnerPcs => mutex = t

(* What a task has found out under the mutex still holds while it keeps    *)
(* it, a snapshot of the flush counter is never ahead of it, and a pending *)
(* take has no result yet.                                                 *)
TakeInv ==
  \A t \in Tasks :
    /\ t \in Pending => flush_count[t] <= flush_request /\ rc[t] = "none"
    /\ pc[t] = "take_wait" => current_value = 0 /\ flush_count[t] = flush_request
    /\ pc[t] = "take_end" /\ flush_count[t] = flush_request => current_value = 1

IInv == TypeOK /\ LockInv /\ TakeInv /\ FlushWakesAll /\ NoLostWakeup

Step(t) == Call(t) \/ Lock(t) \/ Owner(t) \/ Environment(t) \/ Delete(t)

(* Every step keeps the types of the variables.                            *)
LEMMA TypeNext == ASSUME TypeOK, [Next]_vars PROVE TypeOK'
<1>. USE DEF TypeOK, Pcs, LockPcs, CondPcs, OwnerPcs, sem, locals, Goto
<1>1. CASE UNCHANGED vars
  BY <1>1 DEF vars
<1>2. ASSUME NEW t \in Tasks, Call(t) PROVE TypeOK'
  BY <1>2 DEF Call, BinSemTake, BinSemGive, BinSemFlush, BinSemDelete
<1>3. ASSUME NEW t \in Tasks, Lock(t) PROVE TypeOK'
  <2>1. CASE AcquireMutex(t)
    BY <2>1 DEF AcquireMutex, Inside
  <2>2. CASE Reacquire(t)
    BY <2>2 DEF Reacquire
  <2>. QED
    BY <1>3, <2>1, <2>2 DEF Lock
<1>4. ASSUME NEW t \in Tasks, Owner(t) PROVE TypeOK'
  <2>1. CASE TakeSnapshot(t) \/ TakeCheck(t) \/ CondWait(t) \/ TakeEnd(t)
    BY <2>1 DEF TakeSnapshot, TakeCheck, CondWait, TakeEnd, Release
  <2>2. CASE GiveSet(t) \/ GiveSignal(t)
    BY <2>2 DEF GiveSet, GiveSignal, Blocked
  <2>3. CASE FlushSet(t) \/ FlushBroadcast(t)
    BY <2>3 DEF FlushSet, FlushBroadcast, Blocked
  <2>4. CASE Unlock(t) \/ ReleaseMutex(t)
    BY <2>4 DEF Unlock, ReleaseMutex, Release, Forget
  <2>. QED
    BY <1>4, <2>1, <2>2, <2>3, <2>4 DEF Owner
<1>5. ASSUME NEW t \in Tasks, Environment(t) PROVE TypeOK'
  BY <1>5 DEF Environment, WakeSpuriously, Expire, CancelTask, AcquireFails, Forget
<1>6. ASSUME NEW t \in Tasks, Delete(t) PROVE TypeOK'
  BY <1>6 DEF Delete, DestroyCv, DestroyCvFails, DestroyMutex
<1>. QED
  BY <1>1, <1>2, <1>3, <1>4, <1>5, <1>6 DEF Next

LEMMA TypeInit == ASSUME Init PROVE TypeOK
BY DEF Init, TypeOK, Pcs

(* The variables keep their types: in particular the value stays a bit     *)
(* however often the semaphore is given (OS_BinSemGive_Impl).              *)
THEOREM TypeCorrect == Spec => []TypeOK
BY TypeInit, TypeNext, PTL DEF Spec
-----------------------------------------------------------------------------
(* Every step keeps the mutex exclusive.                                   *)
LEMMA LockNext == ASSUME TypeOK, LockInv, [Next]_vars PROVE LockInv'
<1>. USE TasksAssumption DEF TypeOK, LockInv, LockPcs, OwnerPcs, CondPcs, sem, locals, Goto
<1>1. CASE UNCHANGED vars
  BY <1>1 DEF vars
<1>2. ASSUME NEW t \in Tasks, Call(t) PROVE LockInv'
  BY <1>2 DEF Call, BinSemTake, BinSemGive, BinSemFlush, BinSemDelete
<1>3. ASSUME NEW t \in Tasks, Lock(t) PROVE LockInv'
  BY <1>3 DEF Lock, AcquireMutex, Reacquire
<1>4. ASSUME NEW t \in Tasks, Owner(t) PROVE LockInv'
  <2>1. CASE TakeSnapshot(t) \/ TakeCheck(t) \/ CondWait(t) \/ TakeEnd(t)
    BY <2>1 DEF TakeSnapshot, TakeCheck, CondWait, TakeEnd, Release
  <2>2. CASE GiveSet(t) \/ GiveSignal(t) \/ FlushSet(t) \/ FlushBroadcast(t)
    BY <2>2 DEF GiveSet, GiveSignal, FlushSet, FlushBroadcast, Blocked
  <2>3. CASE Unlock(t) \/ ReleaseMutex(t)
    BY <2>3 DEF Unlock, ReleaseMutex, Release, Forget
  <2>. QED
    BY <1>4, <2>1, <2>2, <2>3 DEF Owner
<1>5. ASSUME NEW t \in Tasks, Environment(t) PROVE LockInv'
  BY <1>5 DEF Environment, WakeSpuriously, Expire, CancelTask, AcquireFails
<1>6. ASSUME NEW t \in Tasks, Delete(t) PROVE LockInv'
  BY <1>6 DEF Delete, DestroyCv, DestroyCvFails, DestroyMutex
<1>. QED
  BY <1>1, <1>2, <1>3, <1>4, <1>5, <1>6 DEF Next

(* What an owner knows of the semaphore stays true until it lets go.       *)
LEMMA TakeNext == ASSUME TypeOK, LockInv, TakeInv, [Next]_vars PROVE TakeInv'
<1>. USE DEF TypeOK, LockInv, TakeInv, Pending, CondPcs, LockPcs, OwnerPcs, sem, locals, Goto
<1>1. CASE UNCHANGED vars
  BY <1>1 DEF vars
<1>2. ASSUME NEW t \in Tasks, Call(t) PROVE TakeInv'
  BY <1>2 DEF Call, BinSemTake, BinSemGive, BinSemFlush, BinSemDelete
<1>3. ASSUME NEW t \in Tasks, Lock(t) PROVE TakeInv'
  <2>1. CASE AcquireMutex(t)
    BY <2>1 DEF AcquireMutex, Inside
  <2>2. CASE Reacquire(t)
    BY SMTT(30), <2>2 DEF Reacquire
  <2>. QED
    BY <1>3, <2>1, <2>2 DEF Lock
<1>4. ASSUME NEW t \in Tasks, Owner(t) PROVE TakeInv'
  <2>1. CASE TakeSnapshot(t) \/ CondWait(t)
    BY <2>1 DEF TakeSnapshot, CondWait, Release
  <2>2. CASE TakeCheck(t)
    BY <2>2 DEF TakeCheck, MustPend
  <2>3. CASE TakeEnd(t)
    BY <2>3 DEF TakeEnd
  <2>4. CASE GiveSet(t) \/ GiveSignal(t)
    BY <2>4 DEF GiveSet, GiveSignal, Blocked
  <2>5. CASE FlushSet(t)
    BY <2>5 DEF FlushSet
  <2>6. CASE FlushBroadcast(t)
    BY <2>6 DEF FlushBroadcast, Blocked
  <2>7. CASE Unlock(t) \/ ReleaseMutex(t)
    BY <2>7 DEF Unlock, ReleaseMutex, Release, Forget
  <2>. QED
    BY <1>4, <2>1, <2>2, <2>3, <2>4, <2>5, <2>6, <2>7 DEF Owner
<1>5. ASSUME NEW t \in Tasks, Environment(t) PROVE TakeInv'
  BY <1>5 DEF Environment, WakeSpuriously, Expire, CancelTask, AcquireFails, Forget
<1>6. ASSUME NEW t \in Tasks, Delete(t) PROVE TakeInv'
  BY <1>6 DEF Delete, DestroyCv, DestroyCvFails, DestroyMutex
<1>. QED
  BY <1>1, <1>2, <1>3, <1>4, <1>5, <1>6 DEF Next
(* A flush leaves no task blocked behind it.                               *)
LEMMA FlushNext ==
  ASSUME TypeOK, LockInv, TakeInv, FlushWakesAll, [Next]_vars PROVE FlushWakesAll'
<1>. USE DEF TypeOK, LockInv, TakeInv, FlushWakesAll, Blocked, Flushed, Pending,
             CondPcs, LockPcs, OwnerPcs, sem, locals, Goto
<1>1. CASE UNCHANGED vars
  BY <1>1 DEF vars
<1>2. ASSUME NEW t \in Tasks, Call(t) PROVE FlushWakesAll'
  BY <1>2 DEF Call, BinSemTake, BinSemGive, BinSemFlush, BinSemDelete
<1>3. ASSUME NEW t \in Tasks, Lock(t) PROVE FlushWakesAll'
  <2>1. CASE AcquireMutex(t)
    BY <2>1 DEF AcquireMutex, Inside
  <2>2. CASE Reacquire(t)
    BY SMTT(30), <2>2 DEF Reacquire
  <2>. QED
    BY <1>3, <2>1, <2>2 DEF Lock
<1>4. ASSUME NEW t \in Tasks, Owner(t) PROVE FlushWakesAll'
  <2>1. CASE TakeSnapshot(t) \/ CondWait(t)
    BY <2>1 DEF TakeSnapshot, CondWait, Release
  <2>2. CASE TakeCheck(t) \/ TakeEnd(t)
    BY <2>2 DEF TakeCheck, TakeEnd
  <2>3. CASE GiveSet(t) \/ GiveSignal(t)
    BY <2>3 DEF GiveSet, GiveSignal
  <2>4. CASE FlushSet(t) \/ FlushBroadcast(t)
    BY <2>4 DEF FlushSet, FlushBroadcast
  <2>5. CASE Unlock(t) \/ ReleaseMutex(t)
    BY <2>5 DEF Unlock, ReleaseMutex, Release, Forget
  <2>. QED
    BY <1>4, <2>1, <2>2, <2>3, <2>4, <2>5 DEF Owner
<1>5. ASSUME NEW t \in Tasks, Environment(t) PROVE FlushWakesAll'
  BY <1>5 DEF Environment, WakeSpuriously, Expire, CancelTask, AcquireFails, Forget
<1>6. ASSUME NEW t \in Tasks, Delete(t) PROVE FlushWakesAll'
  BY SMTT(30), <1>6 DEF Delete, DestroyCv, DestroyCvFails, DestroyMutex
<1>. QED
  BY <1>1, <1>2, <1>3, <1>4, <1>5, <1>6 DEF Next

(* A given semaphore keeps a task on its way to it.  A task starts to wait *)
(* only when the value is 0; a signal wakes a task that no flush released, *)
(* since a flush in progress would hold the mutex.                         *)
LEMMA WakeupNext ==
  ASSUME TypeOK, LockInv, TakeInv, FlushWakesAll, NoLostWakeup, [Next]_vars
  PROVE  NoLostWakeup'
<1>. USE DEF TypeOK, LockInv, TakeInv, NoLostWakeup, Blocked, Flushed, Pending,
             CondPcs, LockPcs, OwnerPcs, sem, locals, Goto
<1>1. CASE UNCHANGED vars
  BY <1>1 DEF vars
<1>2. ASSUME NEW t \in Tasks, Call(t) PROVE NoLostWakeup'
  BY SMTT(30), <1>2 DEF Call, BinSemTake, BinSemGive, BinSemFlush, BinSemDelete
<1>3. ASSUME NEW t \in Tasks, Lock(t) PROVE NoLostWakeup'
  <2>1. CASE AcquireMutex(t)
    BY <2>1 DEF AcquireMutex, Inside
  <2>2. CASE Reacquire(t)
    BY SMTT(30), <2>2 DEF Reacquire
  <2>. QED
    BY <1>3, <2>1, <2>2 DEF Lock
<1>4. ASSUME NEW t \in Tasks, Owner(t) PROVE NoLostWakeup'
  <2>1. CASE TakeSnapshot(t) \/ CondWait(t)
    BY <2>1 DEF TakeSnapshot, CondWait, Release
  <2>2. CASE TakeCheck(t)
    BY <2>2 DEF TakeCheck, MustPend
  <2>3. CASE TakeEnd(t)
    BY <2>3 DEF TakeEnd
  <2>4. CASE GiveSet(t)
    BY <2>4 DEF GiveSet
  <2>5. CASE GiveSignal(t)
    BY <2>5 DEF GiveSignal, FlushWakesAll
  <2>6. CASE FlushSet(t)
    BY <2>6 DEF FlushSet
  <2>7. CASE FlushBroadcast(t)
    BY <2>7 DEF FlushBroadcast
  <2>8. CASE Unlock(t) \/ ReleaseMutex(t)
    BY <2>8 DEF Unlock, ReleaseMutex, Release, Forget
  <2>. QED
    BY <1>4, <2>1, <2>2, <2>3, <2>4, <2>5, <2>6, <2>7, <2>8 DEF Owner
<1>5. ASSUME NEW t \in Tasks, Environment(t) PROVE NoLostWakeup'
  BY <1>5 DEF Environment, WakeSpuriously, Expire, CancelTask, AcquireFails, Forget
<1>6. ASSUME NEW t \in Tasks, Delete(t) PROVE NoLostWakeup'
  BY <1>6 DEF Delete, DestroyCv, DestroyCvFails, DestroyMutex
<1>. QED
  BY <1>1, <1>2, <1>3, <1>4, <1>5, <1>6 DEF Next

(* The inductive invariant holds in every state.                           *)
LEMMA IInvHolds == Spec => []IInv
<1>1. ASSUME Init PROVE IInv
  BY <1>1, TypeInit DEF IInv, Init, LockInv, TakeInv, FlushWakesAll, NoLostWakeup,
     Blocked, Flushed, Pending, CondPcs, OwnerPcs
<1>2. ASSUME IInv, [Next]_vars PROVE IInv'
  BY <1>2, TypeNext, LockNext, TakeNext, FlushNext, WakeupNext DEF IInv
<1>. QED
  BY <1>1, <1>2, PTL DEF Spec

(* A given semaphore is never overlooked by the tasks blocked on it        *)
(* (OS_BinSemGive_Impl against OS_GenericBinSemTake_Impl).                 *)
THEOREM NoWakeupIsLost == Spec => []NoLostWakeup
<1>1. IInv => NoLostWakeup
  BY DEF IInv
<1>. QED
  BY <1>1, IInvHolds, PTL

(* A flush wakes every task that pends (OS_BinSemFlush_Impl).              *)
THEOREM FlushReachesAll == Spec => []FlushWakesAll
<1>1. IInv => FlushWakesAll
  BY DEF IInv
<1>. QED
  BY <1>1, IInvHolds, PTL
-----------------------------------------------------------------------------
(* The state that BinSemSpec sees, and a step that it does not see.        *)
Stutter == UNCHANGED <<current_value, rc>> /\ Pending' = Pending /\ Flushed' = Flushed

(* Every step is a step of BinSemSpec or leaves its variables alone.  A    *)
(* take is pending from its snapshot to the step that decides its result.  *)
LEMMA AbstractStep ==
  ASSUME IInv, NEW t \in Tasks, Step(t) PROVE Stutter \/ Abstract!Next
<1>. USE DEF IInv, TypeOK, TakeInv, Pending, Flushed, CondPcs, LockPcs, sem, locals, Goto
<1>1. CASE Call(t)
  BY <1>1 DEF Call, BinSemTake, BinSemGive, BinSemFlush, BinSemDelete, Stutter
<1>2. CASE AcquireMutex(t)
  BY <1>2 DEF AcquireMutex, Inside, Stutter
<1>3. CASE Reacquire(t)
  <2>1. CASE pc[t] = "woken"
    BY <1>3, <2>1 DEF Reacquire, Stutter
  <2>2. CASE pc[t] = "expired"
    <3>1. Abstract!Leave(t, "timeout") /\ t \in Pending /\ UNCHANGED current_value
      BY <1>3, <2>2 DEF Reacquire, Abstract!Leave
    <3>. QED
      BY <3>1 DEF Abstract!Next, Abstract!StopWaiting
  <2>3. CASE pc[t] = "cancelled"
    <3>1. Abstract!Leave(t, "none") /\ t \in Pending /\ UNCHANGED current_value
      BY <1>3, <2>3 DEF Reacquire, Abstract!Leave
    <3>. QED
      BY <3>1 DEF Abstract!Next, Abstract!StopWaiting
  <2>. QED
    BY <1>3, <2>1, <2>2, <2>3 DEF Reacquire
<1>4. CASE TakeSnapshot(t)
  <2>1. Abstract!Arrive(t)
    BY <1>4 DEF TakeSnapshot, Abstract!Arrive
  <2>. QED
    BY <2>1 DEF Abstract!Next
<1>5. CASE TakeCheck(t) \/ CondWait(t)
  BY <1>5 DEF TakeCheck, CondWait, Stutter
<1>6. CASE TakeEnd(t)
  <2>1. Abstract!Leave(t, "success") /\ t \in Pending
    BY <1>6 DEF TakeEnd, Abstract!Leave
  <2>2. CASE flush_request = flush_count[t]
    <3>1. current_value = 1 /\ current_value' = 0 /\ t \notin Flushed
      BY <1>6, <2>2 DEF TakeEnd
    <3>. QED
      BY <2>1, <3>1 DEF Abstract!Next, Abstract!Take
  <2>3. CASE flush_request # flush_count[t]
    <3>1. UNCHANGED current_value /\ t \in Flushed
      BY <1>6, <2>3 DEF TakeEnd
    <3>. QED
      BY <2>1, <3>1 DEF Abstract!Next, Abstract!LeaveFlushed
  <2>. QED
    BY <2>2, <2>3
<1>7. CASE GiveSet(t)
  <2>1. Abstract!Give
    BY <1>7 DEF GiveSet, Abstract!Give
  <2>. QED
    BY <2>1 DEF Abstract!Next
<1>8. CASE GiveSignal(t)
  BY <1>8 DEF GiveSignal, Blocked, Stutter
<1>9. CASE FlushSet(t)
  <2>1. Abstract!Flush
    BY <1>9 DEF FlushSet, Abstract!Flush
  <2>. QED
    BY <2>1 DEF Abstract!Next
<1>10. CASE FlushBroadcast(t)
  BY <1>10 DEF FlushBroadcast, Blocked, Stutter
<1>11. CASE Unlock(t) \/ ReleaseMutex(t)
  BY <1>11 DEF Unlock, ReleaseMutex, Forget, Stutter
<1>12. CASE Environment(t)
  BY <1>12 DEF Environment, WakeSpuriously, Expire, CancelTask, AcquireFails, Forget, Stutter
<1>13. CASE Delete(t)
  BY <1>13 DEF Delete, DestroyCv, DestroyCvFails, DestroyMutex, Stutter
<1>. QED
  BY SMTT(30), <1>1, <1>2, <1>3, <1>4, <1>5, <1>6, <1>7, <1>8, <1>9, <1>10, <1>11, <1>12, <1>13
     DEF Step, Lock, Owner

(* The POSIX binary semaphore implements the one that the OSAL API         *)
(* promises: a give lets at most one take through, a flush releases the    *)
(* pending tasks without changing the value, a timeout takes nothing.      *)
THEOREM ImplementsSpec == Spec => ImplementsBinSem
<1>1. ASSUME Init PROVE Abstract!Init
  BY <1>1 DEF Init, Abstract!Init, Pending, Flushed, CondPcs
<1>2. ASSUME IInv, [Next]_vars PROVE [Abstract!Next]_(Abstract!absvars)
  <2>1. CASE UNCHANGED vars
    BY <2>1 DEF vars, Abstract!absvars, Pending, Flushed
  <2>2. CASE Next
    <3>1. PICK t \in Tasks : Step(t)
      BY <2>2 DEF Next, Step
    <3>. QED
      BY <1>2, <3>1, AbstractStep DEF Stutter, Abstract!absvars
  <2>. QED
    BY SMTT(30), <1>2, <2>1, <2>2
<1>. QED
  BY <1>1, <1>2, IInvHolds, PTL DEF Spec, ImplementsBinSem, Abstract!Spec
=============================================================================
