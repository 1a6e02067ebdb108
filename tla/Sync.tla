-------------------------------- MODULE Sync --------------------------------
(***************************************************************************)
(* The calls by which tasks wait for each other, on ONE object: a mutex, a *)
(* counting semaphore, a condition variable, a read/write lock or a queue. *)
(* src/os/shared/src/osapi-mutex.c, -countsem.c, -condvar.c, -rwlock.c and *)
(* -queue.c look the object up without any lock (OS_LOCK_MODE_NONE) and    *)
(* hand over to the pthread, semaphore or mqueue calls of                  *)
(* src/os/posix/src/os-impl-*.c.  (Binary semaphores: module BinSem.)      *)
(*                                                                         *)
(* What matters here is where a task may be when it is deleted: the calls  *)
(* that wait for a lock do not react to pthread_cancel, the others do.     *)
(* Of a queue the number of messages is kept, of a take the owner that the *)
(* shared layer records.                                                   *)
(***************************************************************************)
EXTENDS Integers, FiniteSets

CONSTANTS
  Actors,    \* the threads that call OSAL
  NOBODY,    \* OS_OBJECT_ID_UNDEFINED as the recorded owner
  MaxValue,  \* SEM_VALUE_MAX, or the depth of the queue
  MaxDepth   \* nested takes of a mutex

AllKinds == {"mutex", "countsem", "condvar", "rwlock", "queue"}

VARIABLES
  kind,        \* what the object is
  active_id,   \* its table entry: "valid", "reserved" to make or delete it, "free"
  depth,       \* thread -> how often it holds the mutex or the write lock
  readers,     \* threads that hold the read lock
  last_owner,  \* mutex->last_owner, rwlock->last_writer
  value,       \* value of the semaphore, messages in the queue
  pc           \* thread -> where it is

object == <<kind, active_id, depth, readers, last_owner, value>>

\* Inside a call: in pthread calls that are no cancellation points, and in
\* calls that are.
LockPcs == {"lock", "owner", "unlock", "read_lock", "read_unlock", "post",
            "cond_enter", "signal", "broadcast", "relock"}
WaitPcs == {"wait", "timed_wait", "cond_wait", "cond_timed"}
SyncPcs == LockPcs \cup WaitPcs

TypeOfSync ==
  /\ kind \in AllKinds
  /\ active_id \in {"valid", "reserved", "free"}
  /\ depth \in [Actors -> 0 .. MaxDepth]
  /\ readers \subseteq Actors
  /\ last_owner \in Actors \cup {NOBODY}
  /\ value \in 0 .. MaxValue
  /\ DOMAIN pc = Actors

InitSync ==
  /\ active_id = "free" /\ depth = [t \in Actors |-> 0] /\ readers = {}
  /\ last_owner = NOBODY /\ value = 0

Goto(t, from, to) == pc[t] = from /\ pc' = [pc EXCEPT ![t] = to]

\* A call of the application: the lookup finds the object.
Call(t, kinds, to) ==
  Goto(t, "run", to) /\ kind \in kinds /\ active_id = "valid"

\* The host's mutex or write lock is free for t; nobody else has it.
FreeFor(t) == \A u \in Actors \ {t} : depth[u] = 0
Holds(t) == depth[t] > 0 \/ t \in readers

-----------------------------------------------------------------------------
(* Creation.  Mutexes and locks are made unlocked and queues empty; only a *)
(* counting semaphore has a value to begin with, and a limit to it.        *)

\* OS_ObjectIdAllocateNew and OS_OBJECT_INIT, which clears the owner.
SyncCreate(t) ==
  /\ Goto(t, "setup", "make")
  /\ active_id = "free" /\ active_id' = "reserved" /\ last_owner' = NOBODY
  /\ UNCHANGED <<kind, depth, readers, value>>

Made(t, v) ==
  /\ Goto(t, "make", "run")
  /\ active_id' = "valid" /\ value' = v
  /\ UNCHANGED <<kind, depth, readers, last_owner>>

MutSemCreate(t) == kind = "mutex" /\ Made(t, 0)
CondVarCreate(t) == kind = "condvar" /\ Made(t, 0)
RwLockCreate(t) == kind = "rwlock" /\ Made(t, 0)
QueueCreate(t) == kind = "queue" /\ Made(t, 0)
CountSemCreate(t) ==
  kind = "countsem" /\ \E sem_initial_value \in 0 .. MaxValue : Made(t, sem_initial_value)

\* The host refuses, or the value of a semaphore is above SEM_VALUE_MAX.
MakeFails(t) ==
  /\ Goto(t, "make", "run")
  /\ active_id' = "free"
  /\ UNCHANGED <<kind, depth, readers, last_owner, value>>

-----------------------------------------------------------------------------
(* OS_MutSemTake, OS_MutSemGive, OS_RwLock..., OS_CondVarLock and Unlock.  *)
(* A mutex is recursive: a task may take it again, before it first gives   *)
(* it.  The application takes the other locks only when it has them not,   *)
(* and gives them back only when it has them.                              *)

MutSemTake(t) ==
  /\ Call(t, {"mutex"}, "lock") /\ depth[t] < MaxDepth
  /\ depth[t] = 0 \/ last_owner = t
  /\ UNCHANGED object

RwLockWriteTake(t) ==
  Call(t, {"rwlock"}, "lock") /\ ~Holds(t) /\ UNCHANGED object

CondVarLock(t) ==
  Call(t, {"condvar"}, "lock") /\ ~Holds(t) /\ UNCHANGED object

\* pthread_mutex_lock, or pthread_rwlock_wrlock, returns.
Lock(t, to) ==
  /\ Goto(t, "lock", to)
  /\ FreeFor(t) /\ readers = {}
  /\ depth' = [depth EXCEPT ![t] = @ + 1]
  /\ UNCHANGED <<kind, active_id, readers, last_owner, value>>

MutexLocked(t) == kind = "mutex" /\ Lock(t, "owner")
WriteLocked(t) == kind = "rwlock" /\ Lock(t, "owner")
CondVarLocked(t) == kind = "condvar" /\ Lock(t, "run")
Locked(t) == MutexLocked(t) \/ WriteLocked(t) \/ CondVarLocked(t)

\* The take records the owner.
SetOwner(t) ==
  /\ Goto(t, "owner", "run")
  /\ last_owner' = t
  /\ UNCHANGED <<kind, active_id, depth, readers, value>>

\* The owner is cleared before the mutex is given, whoever calls.
MutSemGive(t) ==
  /\ Call(t, {"mutex"}, "unlock")
  /\ last_owner' = NOBODY
  /\ UNCHANGED <<kind, active_id, depth, readers, value>>

RwLockWriteGive(t) ==
  /\ Call(t, {"rwlock"}, "unlock") /\ depth[t] > 0
  /\ last_owner' = NOBODY
  /\ UNCHANGED <<kind, active_id, depth, readers, value>>

CondVarUnlock(t) ==
  Call(t, {"condvar"}, "unlock") /\ depth[t] > 0 /\ UNCHANGED object

UnlockTo(t, n) ==
  /\ Goto(t, "unlock", "run")
  /\ depth' = [depth EXCEPT ![t] = n]
  /\ UNCHANGED <<kind, active_id, readers, last_owner, value>>

\* pthread_mutex_unlock; a recursive mutex that the caller does not own
\* answers EPERM.
MutexUnlocked(t) ==
  kind = "mutex" /\ UnlockTo(t, IF depth[t] > 0 THEN depth[t] - 1 ELSE 0)
WriteUnlocked(t) == kind = "rwlock" /\ UnlockTo(t, 0)
CondVarUnlocked(t) == kind = "condvar" /\ UnlockTo(t, 0)

RwLockReadTake(t) ==
  Call(t, {"rwlock"}, "read_lock") /\ ~Holds(t) /\ UNCHANGED object

ReadLocked(t) ==
  /\ Goto(t, "read_lock", "run")
  /\ FreeFor(t)
  /\ readers' = readers \cup {t}
  /\ UNCHANGED <<kind, active_id, depth, last_owner, value>>

RwLockReadGive(t) ==
  Call(t, {"rwlock"}, "read_unlock") /\ t \in readers /\ UNCHANGED object

ReadUnlock(t) ==
  /\ Goto(t, "read_unlock", "run")
  /\ readers' = readers \ {t}
  /\ UNCHANGED <<kind, active_id, depth, last_owner, value>>

-----------------------------------------------------------------------------
(* OS_CountSemGive, Take, TimedWait; OS_QueuePut and OS_QueueGet.          *)

CountSemGive(t) == Call(t, {"countsem"}, "post") /\ UNCHANGED object
QueuePut(t) == Call(t, {"queue"}, "post") /\ UNCHANGED object

Post(t) ==
  /\ Goto(t, "post", "run")
  /\ value' = IF value < MaxValue THEN value + 1 ELSE value
  /\ UNCHANGED <<kind, active_id, depth, readers, last_owner>>

\* sem_post, which fails at SEM_VALUE_MAX.
Posted(t) == kind = "countsem" /\ Post(t)

\* mq_timedsend with a time that has passed: OS_QUEUE_FULL, it never waits.
Sent(t) == kind = "queue" /\ Post(t)

CountSemTake(t) == Call(t, {"countsem"}, "wait") /\ UNCHANGED object
CountSemTimedWait(t) == Call(t, {"countsem"}, "timed_wait") /\ UNCHANGED object

\* OS_PEND waits; OS_CHECK and a number of milliseconds wait until then.
QueueGet(t) ==
  /\ Call(t, {"queue"}, "wait") \/ Call(t, {"queue"}, "timed_wait")
  /\ UNCHANGED object

TakeOne(t, from) ==
  /\ Goto(t, from, "run")
  /\ value > 0
  /\ value' = value - 1
  /\ UNCHANGED <<kind, active_id, depth, readers, last_owner>>

\* sem_wait
Taken(t) == kind = "countsem" /\ TakeOne(t, "wait")

\* A signal ends sem_wait, which is not repeated: OS_SEM_FAILURE.
Interrupted(t) == kind = "countsem" /\ Goto(t, "wait", "run") /\ UNCHANGED object

\* sem_timedwait
TimedWaited(t) ==
  \/ kind = "countsem" /\ TakeOne(t, "timed_wait")
  \/ kind = "countsem" /\ Goto(t, "timed_wait", "run") /\ UNCHANGED object

\* mq_receive, which is repeated after a signal, and mq_timedreceive.
Received(t) ==
  \/ kind = "queue" /\ (TakeOne(t, "wait") \/ TakeOne(t, "timed_wait"))
  \/ kind = "queue" /\ Goto(t, "timed_wait", "run") /\ UNCHANGED object

-----------------------------------------------------------------------------
(* OS_CondVarWait, TimedWait, Signal and Broadcast.                        *)

CondVarWait(t) ==
  Call(t, {"condvar"}, "cond_enter") /\ depth[t] > 0 /\ UNCHANGED object

\* pthread_cond_wait and pthread_cond_timedwait give the mutex and wait.
CondEnter(t) ==
  /\ \E p \in {"cond_wait", "cond_timed"} : Goto(t, "cond_enter", p)
  /\ depth' = [depth EXCEPT ![t] = 0]
  /\ UNCHANGED <<kind, active_id, readers, last_owner, value>>

CondVarSignal(t) == Call(t, {"condvar"}, "signal") /\ UNCHANGED object
CondVarBroadcast(t) == Call(t, {"condvar"}, "broadcast") /\ UNCHANGED object

Waiters == {t \in Actors : pc[t] \in {"cond_wait", "cond_timed"}}
Wake(t, woken) ==
  /\ pc' = [u \in Actors |-> IF u = t THEN "run"
                             ELSE IF u \in woken THEN "relock" ELSE pc[u]]
  /\ UNCHANGED object

\* pthread_cond_signal and pthread_cond_broadcast
Signal(t) ==
  /\ pc[t] = "signal"
  /\ IF Waiters = {} THEN Wake(t, {}) ELSE \E w \in Waiters : Wake(t, {w})

Broadcast(t) == pc[t] = "broadcast" /\ Wake(t, Waiters)

\* The time of OS_CondVarTimedWait is over.
CondExpires(t) == Goto(t, "cond_timed", "relock") /\ UNCHANGED object

\* pthread_cond_wait gets the mutex again and returns.
Relocked(t) ==
  /\ Goto(t, "relock", "run")
  /\ FreeFor(t)
  /\ depth' = [depth EXCEPT ![t] = 1]
  /\ UNCHANGED <<kind, active_id, readers, last_owner, value>>

-----------------------------------------------------------------------------
(* Deletion of the object, once OS_LOCK_MODE_EXCLUSIVE has reserved it.    *)

Destroyed(t, ok) ==
  /\ Goto(t, "destroy", "sweep_end") /\ active_id = "reserved"
  /\ active_id' = IF ok THEN "free" ELSE "valid"
  /\ UNCHANGED <<kind, depth, readers, last_owner, value>>

\* pthread_mutex_destroy answers EBUSY for a mutex that is locked.
MutSemDelete(t) == kind = "mutex" /\ Destroyed(t, \A u \in Actors : ~Holds(u))

\* pthread_cond_destroy waits for the waiters.
CondVarDelete(t) ==
  kind = "condvar" /\ Waiters = {} /\ Destroyed(t, \A u \in Actors : ~Holds(u))

\* sem_destroy and mq_close
CountSemDelete(t) == kind = "countsem" /\ Destroyed(t, TRUE)
QueueDelete(t) == kind = "queue" /\ Destroyed(t, TRUE)

SyncDelete(t) ==
  MutSemDelete(t) \/ CondVarDelete(t) \/ CountSemDelete(t) \/ QueueDelete(t)

-----------------------------------------------------------------------------
SyncCall(t) ==
  \/ MutSemTake(t) \/ MutSemGive(t) \/ RwLockWriteTake(t) \/ RwLockWriteGive(t)
  \/ RwLockReadTake(t) \/ RwLockReadGive(t) \/ CondVarLock(t) \/ CondVarUnlock(t)
  \/ CondVarWait(t) \/ CondVarSignal(t) \/ CondVarBroadcast(t)
  \/ CountSemGive(t) \/ CountSemTake(t) \/ CountSemTimedWait(t)
  \/ QueuePut(t) \/ QueueGet(t)

SyncSetup(t) ==
  \/ SyncCreate(t) \/ MutSemCreate(t) \/ CondVarCreate(t) \/ RwLockCreate(t)
  \/ QueueCreate(t) \/ CountSemCreate(t) \/ MakeFails(t)

SyncStep(t) ==
  \/ Locked(t) \/ SetOwner(t) \/ MutexUnlocked(t) \/ WriteUnlocked(t)
  \/ CondVarUnlocked(t) \/ ReadLocked(t) \/ ReadUnlock(t) \/ Posted(t) \/ Sent(t)
  \/ Taken(t) \/ TimedWaited(t) \/ Received(t) \/ CondEnter(t) \/ Signal(t)
  \/ Broadcast(t) \/ CondExpires(t) \/ Relocked(t)

=============================================================================
