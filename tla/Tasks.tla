------------------------------- MODULE Tasks -------------------------------
(***************************************************************************)
(* The life of tasks: src/os/shared/src/osapi-task.c over the threads of   *)
(* src/os/posix/src/os-impl-tasks.c, and OS_DeleteAllObjects of            *)
(* src/os/shared/src/osapi-common.c, for tasks that work with an object of *)
(* module Sync.                                                            *)
(*                                                                         *)
(* The task table keeps the promises of ObjTable.  OS_TaskCreate starts    *)
(* one thread for every id it allocates, so the thread of task i is called *)
(* i, and impl[slot] = i stands for the pthread_t of the record.  A lookup *)
(* with OS_LOCK_MODE_GLOBAL and what is done before its release are one    *)
(* step: the table lock is held and nothing in between waits.              *)
(***************************************************************************)
EXTENDS ObjTable, Sync, FiniteSetsExt

CONSTANTS
  Main,         \* the thread that called OS_API_Init: it is no OSAL task
  Apps,         \* applications: kinds of objects, ids, calls of Main and tasks
  MaxAttempts,  \* rounds of OS_ObjectIdConvertToken (5 in the code)
  MaxTries      \* OS_DeleteAllObjects tries once more than this (4)

ASSUME TasksAssumption ==
  /\ MaxId \in Nat \ {0} /\ Ids \subseteq Nat /\ Main \notin Ids
  /\ Actors = Ids \cup {Main} /\ NOBODY \notin Actors
  /\ MaxAttempts \in Nat \ {0} /\ MaxTries \in Nat
  /\ \A a \in Apps : a.kinds \subseteq AllKinds /\ a.ids \subseteq Ids

VARIABLES
  last_id,    \* the id issued last
  impl,       \* slot -> OS_impl_task_table[].id
  hook,       \* slot -> delete_hook_pointer, named after the task that set it
  thread,     \* task -> what the host knows of its thread
  cancelled,  \* threads with a pending pthread_cancel
  arg,        \* thread -> the id its call is about
  attempts,   \* thread -> rounds of its lookup
  saved,      \* thread -> delete_hook of OS_TaskDelete
  sweep,      \* OS_DeleteAllObjects: pass, place of the iterator, counters
  app         \* the application that runs

table == <<obj, last_id, impl, hook>>
host  == <<thread, cancelled>>
calls == <<arg, attempts, saved, sweep>>
vars  == <<table, host, calls, object, pc, app>>

NoSweep == [pass |-> 0, at |-> 0, count |-> 0, tries |-> 0]

TypeOK ==
  /\ TypeOfObj /\ TypeOfSync
  /\ last_id \in Ids \cup {NONE}
  /\ impl \in [Slots -> Ids \cup {NONE}] /\ hook \in [Slots -> Ids \cup {NONE}]
  /\ thread \in [Ids -> {"none", "joinable", "detached", "joined"}]
  /\ cancelled \subseteq Ids
  /\ arg \in [Actors -> Ids \cup {NONE}]
  /\ attempts \in [Actors -> 0 .. (MaxAttempts - 1)]
  /\ saved \in [Actors -> Ids \cup {NONE}]
  /\ sweep.pass \in 0 .. 2 /\ sweep.at \in 0 .. MaxId
  /\ sweep.count \in 0 .. 1 /\ sweep.tries \in 0 .. MaxTries
  /\ app \in Apps

Init ==
  /\ InitObj /\ InitSync /\ last_id = NONE
  /\ impl = [s \in Slots |-> NONE] /\ hook = [s \in Slots |-> NONE]
  /\ thread = [i \in Ids |-> "none"] /\ cancelled = {}
  /\ arg = [t \in Actors |-> NONE] /\ attempts = [t \in Actors |-> 0]
  /\ saved = [t \in Actors |-> NONE] /\ sweep = NoSweep
  /\ app \in Apps /\ kind \in app.kinds
  /\ pc = [t \in Actors |-> IF t # Main THEN "none"
                           ELSE IF "sync" \in app.task THEN "setup" ELSE "run"]

May(t, name) == name \in (IF t = Main THEN app.main ELSE app.task)
Slot(t) == SlotOf(arg[t])
Self(t) == arg[t] = t

-----------------------------------------------------------------------------
(* Lookups by id, OS_ObjectIdGetById with GLOBAL or EXCLUSIVE.             *)

LookupPcs == {"start", "delete", "exit"}
Target(t) == IF pc[t] = "delete" THEN arg[t] ELSE t

\* The entry is RESERVED by a creation or a deletion.
Busy(i) == obj[SlotOf(i)].st \in {"new", "exclusive"}

\* OS_WaitForStateChange, and once more.
Retry(t) ==
  /\ pc[t] \in LookupPcs /\ Busy(Target(t))
  /\ attempts[t] < MaxAttempts - 1
  /\ attempts' = [attempts EXCEPT ![t] = @ + 1]
  /\ UNCHANGED <<table, host, arg, saved, sweep, object, pc, app>>

\* OS_ERR_INVALID_ID or OS_ERR_OBJECT_IN_USE
Failed(t) ==
  LET i == Target(t) IN
  IF Busy(i) THEN attempts[t] = MaxAttempts - 1 ELSE ~Valid(i)

Done(t) == attempts' = [attempts EXCEPT ![t] = 0]
Forget(t) == arg' = [arg EXCEPT ![t] = NONE]

-----------------------------------------------------------------------------
(* OS_TaskCreate.                                                          *)

NextIds == {i \in app.ids : i > last_id /\ i <= last_id + MaxId
                        /\ obj[SlotOf(i)].st = "free"}

(* Mutant: the record of the slot's last task is not reset.                *)
TaskCreate_KeepsRecord(t) ==
  /\ Goto(t, "run", "spawn") /\ May(t, "create")
  /\ NextIds # {}
  /\ LET i == Min(NextIds) IN
     /\ Allocate(i) /\ last_id' = i
     /\ arg' = [arg EXCEPT ![t] = i]
  /\ UNCHANGED <<impl, hook, host, attempts, saved, sweep, object, app>>

\* OS_ObjectIdAllocateNew and OS_OBJECT_INIT.
TaskCreate(t) ==
  /\ Goto(t, "run", "spawn") /\ May(t, "create")
  /\ NextIds # {}
  /\ LET i == Min(NextIds) IN
     /\ Allocate(i) /\ last_id' = i
     /\ hook' = [hook EXCEPT ![SlotOf(i)] = NONE]
     /\ arg' = [arg EXCEPT ![t] = i]
  /\ UNCHANGED <<impl, host, attempts, saved, sweep, object, app>>

\* pthread_create: the thread may run before the creator goes on.
Spawn(t) ==
  /\ pc[t] = "spawn"
  /\ pc' = [pc EXCEPT ![t] = "finalize", ![arg[t]] = "start"]
  /\ impl' = [impl EXCEPT ![Slot(t)] = arg[t]]
  /\ thread' = [thread EXCEPT ![arg[t]] = "joinable"]
  /\ UNCHANGED <<obj, last_id, hook, cancelled, calls, object, app>>

\* OS_ObjectIdFinalizeNew
Finalize(t) ==
  /\ Goto(t, "finalize", "run")
  /\ Created(Slot(t)) /\ Forget(t)
  /\ UNCHANGED <<last_id, impl, hook, host, attempts, saved, sweep, object, app>>

SpawnFails(t) ==
  /\ Goto(t, "spawn", "run")
  /\ NotCreated(Slot(t)) /\ Forget(t)
  /\ UNCHANGED <<last_id, impl, hook, host, attempts, saved, sweep, object, app>>

-----------------------------------------------------------------------------
(* OS_TaskEntryPoint, run by the new thread.                               *)

(* Mutant: an entry that is still being created will do.                   *)
TaskPrepare_New(t) ==
  /\ \E p \in {"run", "exit"} : Goto(t, "start", p)
  /\ Valid(t) \/ obj[SlotOf(t)].st = "new"
  /\ Done(t)
  /\ UNCHANGED <<table, host, arg, saved, sweep, object, app>>

\* OS_TaskPrepare: the record is found and is that of this thread, the id is
\* registered.  The event handler may refuse the task.
TaskPrepare(t) ==
  /\ \E p \in {"run", "exit"} : Goto(t, "start", p)
  /\ Valid(t) /\ impl[SlotOf(t)] = t
  /\ Done(t)
  /\ UNCHANGED <<table, host, arg, saved, sweep, object, app>>

\* OS_TaskExit of a thread that has not registered an id finds no record.
PrepareFails(t) ==
  /\ Goto(t, "start", "ending")
  /\ Failed(t) \/ (Valid(t) /\ impl[SlotOf(t)] # t)
  /\ Done(t)
  /\ UNCHANGED <<table, host, arg, saved, sweep, object, app>>

\* OS_TaskInstallDeleteHandler
InstallDeleteHandler(t) ==
  /\ pc[t] = "run" /\ t # Main /\ May(t, "install") /\ Valid(t)
  /\ hook' = [hook EXCEPT ![SlotOf(t)] = t]
  /\ UNCHANGED <<obj, last_id, impl, host, calls, object, pc, app>>

-----------------------------------------------------------------------------
(* OS_TaskExit.                                                            *)

\* The task's function returns.  A task gives its locks before.
CallExit(t) ==
  /\ Goto(t, "run", "exit") /\ t # Main /\ May(t, "exit") /\ ~Holds(t)
  /\ UNCHANGED <<table, host, calls, object, app>>

(* Mutant: the thread is detached also when the record is not its own.     *)
TaskExit_Always(t) ==
  /\ Goto(t, "exit", "ending")
  /\ obj' = IF Valid(t) THEN [obj EXCEPT ![SlotOf(t)] = Free] ELSE obj
  /\ thread' = [thread EXCEPT ![t] = "detached"]
  /\ Done(t)
  /\ UNCHANGED <<last_id, impl, hook, cancelled, arg, saved, sweep, object, app>>

\* pthread_detach and OS_ObjectIdFinalizeDelete, both under the table lock.
TaskExit(t) ==
  /\ Goto(t, "exit", "ending")
  /\ Valid(t)
  /\ thread' = [thread EXCEPT ![impl[SlotOf(t)]] = "detached"]
  /\ obj' = [obj EXCEPT ![SlotOf(t)] = Free]
  /\ Done(t)
  /\ UNCHANGED <<last_id, impl, hook, cancelled, arg, saved, sweep, object, app>>

ExitFails(t) ==
  /\ Goto(t, "exit", "ending")
  /\ Failed(t)
  /\ Done(t)
  /\ UNCHANGED <<table, host, arg, saved, sweep, object, app>>

\* pthread_exit
TaskEnd(t) ==
  Goto(t, "ending", "ended") /\ UNCHANGED <<table, host, calls, object, app>>

-----------------------------------------------------------------------------
(* OS_TaskDelete.                                                          *)

Back(t) == IF t = Main /\ sweep.pass > 0 THEN "sweep" ELSE "run"

CallDelete(t) ==
  /\ Goto(t, "run", "delete")
  /\ \E i \in Ids : /\ i <= last_id
                    /\ May(t, IF i = t THEN "delete_self" ELSE "delete")
                    /\ arg' = [arg EXCEPT ![t] = i]
  /\ UNCHANGED <<table, host, attempts, saved, sweep, object, app>>

\* The id is withdrawn, and the delete hook remembered.
DeleteReserve(t) ==
  /\ Goto(t, "delete", "cancel")
  /\ Reserve(arg[t])
  /\ saved' = [saved EXCEPT ![t] = hook[Slot(t)]]
  /\ Done(t)
  /\ UNCHANGED <<last_id, impl, hook, host, arg, sweep, object, app>>

DeleteFails(t) ==
  /\ Goto(t, "delete", Back(t))
  /\ Failed(t)
  /\ Done(t) /\ Forget(t)
  /\ UNCHANGED <<table, host, saved, sweep, object, app>>

\* pthread_cancel
Cancel(t) ==
  /\ Goto(t, "cancel", "join")
  /\ cancelled' = cancelled \cup {impl[Slot(t)]}
  /\ UNCHANGED <<table, thread, calls, object, app>>

(* Mutant: the thread is only asked to end.                                *)
Join_NoWait(t) ==
  /\ Goto(t, "join", "free")
  /\ thread' = [thread EXCEPT ![impl[Slot(t)]] = "joined"]
  /\ UNCHANGED <<table, cancelled, calls, object, app>>

\* pthread_join waits until the thread has ended; EDEADLK for oneself.
Join(t) ==
  LET i == impl[Slot(t)] IN
  /\ Goto(t, "join", "free")
  /\ i = t \/ pc[i] = "ended"
  /\ thread' = IF i = t THEN thread ELSE [thread EXCEPT ![i] = "joined"]
  /\ UNCHANGED <<table, cancelled, calls, object, app>>

\* OS_ObjectIdFinalizeDelete
DeleteFinalize(t) ==
  /\ Goto(t, "free", "hook")
  /\ Deleted(Slot(t))
  /\ UNCHANGED <<last_id, impl, hook, host, calls, object, app>>

\* delete_hook runs, with nothing locked.
DeleteHook(t) ==
  /\ Goto(t, "hook", Back(t))
  /\ saved' = [saved EXCEPT ![t] = NONE] /\ Forget(t)
  /\ UNCHANGED <<table, host, attempts, sweep, object, app>>

-----------------------------------------------------------------------------
(* The thread reacts to pthread_cancel, at a cancellation point only.      *)

(* Mutant: the waits do not react, as with PTHREAD_CANCEL_DISABLE.         *)
AtCancelPoint_NoWaits(t) ==
  \/ pc[t] = "run"
  \/ pc[t] = "join" /\ impl[Slot(t)] # t
  \/ pc[t] \in LookupPcs /\ attempts[t] > 0

\* The application's code (OS_TaskDelay, any input or output), the waits of
\* Sync, pthread_join, and the wait of a lookup.
AtCancelPoint(t) ==
  \/ pc[t] \in WaitPcs \cup {"run"}
  \/ pc[t] = "join" /\ impl[Slot(t)] # t
  \/ pc[t] \in LookupPcs /\ attempts[t] > 0

\* pthread_cond_wait takes the mutex before the cleanup handler runs.
ActOnCancel(t) ==
  /\ t \in cancelled /\ AtCancelPoint(t)
  /\ Goto(t, pc[t], IF t \in Waiters THEN "cancel_relock" ELSE "ended")
  /\ UNCHANGED <<table, host, calls, object, app>>

CancelRelocked(t) ==
  /\ Goto(t, "cancel_relock", "cleanup")
  /\ FreeFor(t)
  /\ depth' = [depth EXCEPT ![t] = 1]
  /\ UNCHANGED <<table, host, calls, kind, active_id, readers, last_owner, value, app>>

(* Mutant: no cleanup handler is installed around pthread_cond_wait.       *)
CondVarReleaseMutex_None(t) ==
  Goto(t, "cleanup", "ended") /\ UNCHANGED <<table, host, calls, object, app>>

\* OS_Posix_CondVarReleaseMutex, the cleanup handler.
CondVarReleaseMutex(t) ==
  /\ Goto(t, "cleanup", "ended")
  /\ depth' = [depth EXCEPT ![t] = 0]
  /\ UNCHANGED <<table, host, calls, kind, active_id, readers, last_owner, value, app>>

-----------------------------------------------------------------------------
(* OS_DeleteAllObjects, called by Main: passes over the tasks, over the    *)
(* tasks again with all other types, until nothing was found.  (Timers and *)
(* time bases, which come first: module TimeBase.)                         *)

DeleteAllObjects ==
  /\ Goto(Main, "run", "sweep") /\ May(Main, "delete_all")
  /\ sweep' = [NoSweep EXCEPT !.pass = 1]
  /\ UNCHANGED <<table, host, arg, attempts, saved, object, app>>

\* The iterator skips entries that are RESERVED.
Unvisited == {s \in Slots : s >= sweep.at /\ obj[s].st = "valid"}

(* Mutant: the other objects are deleted before the tasks.                 *)
SweepTask_Last ==
  /\ Goto(Main, "sweep", "sweep_object") /\ sweep' = [sweep EXCEPT !.pass = 2]
  /\ UNCHANGED <<table, host, arg, attempts, saved, object, app>>

\* OS_CleanUpObject of the next task.
SweepTask ==
  /\ Goto(Main, "sweep", "delete") /\ Unvisited # {}
  /\ LET s == Min(Unvisited) IN
     /\ arg' = [arg EXCEPT ![Main] = obj[s].id]
     /\ sweep' = [sweep EXCEPT !.at = s + 1, !.count = 1]
  /\ UNCHANGED <<table, host, attempts, saved, object, app>>

SweepTasksEnd ==
  /\ Goto(Main, "sweep", IF sweep.pass = 1 THEN "sweep" ELSE "sweep_object")
  /\ Unvisited = {}
  /\ sweep' = [sweep EXCEPT !.at = 0, !.pass = 2]
  /\ UNCHANGED <<table, host, arg, attempts, saved, object, app>>

\* OS_CleanUpObject of the object; it has no case for a read/write lock.
SweepObject ==
  /\ Goto(Main, "sweep_object",
          IF active_id = "valid" /\ kind # "rwlock" THEN "destroy" ELSE "sweep_end")
  /\ active_id' = IF active_id = "valid" /\ kind # "rwlock" THEN "reserved"
                  ELSE active_id
  /\ sweep' = IF active_id = "valid" THEN [sweep EXCEPT !.count = 1] ELSE sweep
  /\ UNCHANGED <<table, host, arg, attempts, saved, kind, depth, readers,
                 last_owner, value, app>>

Destroy == SyncDelete(Main) /\ UNCHANGED <<table, host, calls, app>>

SweepEnd ==
  LET last == sweep.count = 0 \/ sweep.tries = MaxTries IN
  /\ Goto(Main, "sweep_end", IF last THEN "done" ELSE "sweep")
  /\ sweep' = IF last THEN NoSweep
              ELSE [NoSweep EXCEPT !.pass = 1, !.tries = sweep.tries + 1]
  /\ UNCHANGED <<table, host, arg, attempts, saved, object, app>>

-----------------------------------------------------------------------------
\* A thread in user code calls OSAL, or gets a signal: nothing makes it.
UserCall(t) ==
  \/ TaskCreate(t) \/ InstallDeleteHandler(t) \/ CallExit(t) \/ CallDelete(t)
  \/ May(t, "sync") /\ (SyncCall(t) \/ Interrupted(t)) /\ UNCHANGED <<table, host, calls, app>>

\* A thread goes on in OSAL or the host.
Step(t) ==
  \/ Retry(t) \/ Spawn(t) \/ SpawnFails(t) \/ Finalize(t)
  \/ TaskPrepare(t) \/ PrepareFails(t) \/ TaskExit(t) \/ ExitFails(t) \/ TaskEnd(t)
  \/ DeleteReserve(t) \/ DeleteFails(t) \/ Cancel(t) \/ Join(t)
  \/ DeleteFinalize(t) \/ DeleteHook(t) \/ CancelRelocked(t) \/ CondVarReleaseMutex(t)
  \/ (SyncSetup(t) \/ SyncStep(t)) /\ UNCHANGED <<table, host, calls, app>>

Sweep ==
  \/ SweepTask \/ SweepTasksEnd \/ SweepObject \/ Destroy \/ SweepEnd

Next ==
  \/ \E t \in Actors : UserCall(t) \/ Step(t) \/ ActOnCancel(t)
  \/ DeleteAllObjects \/ Sweep

Spec == Init /\ [][Next]_vars

\* A thread that waits for a lock gets it; one that has it gives it.
LockUse(t) ==
  \/ CancelRelocked(t)
  \/ /\ \/ Locked(t) \/ ReadLocked(t) \/ Relocked(t)
        \/ /\ Holds(t) /\ May(t, "sync")
           /\ MutSemGive(t) \/ RwLockWriteGive(t) \/ RwLockReadGive(t) \/ CondVarUnlock(t)
     /\ UNCHANGED <<table, host, calls, app>>

(* Threads that can run do run, and the host does not pass by for ever a   *)
(* thread that waits for a lock.  Of the application it is asked that its  *)
(* tasks give their locks and keep coming to cancellation points.          *)
FairSpec ==
  /\ Spec
  /\ WF_vars(Step(Main) \/ Sweep)
  /\ \A t \in Ids : WF_vars(Step(t)) /\ SF_vars(LockUse(t)) /\ SF_vars(ActOnCancel(t))

-----------------------------------------------------------------------------
Listed(i) == obj[SlotOf(i)].id = i /\ obj[SlotOf(i)].st \in {"valid", "exclusive"}

\* pthread_cancel, join, detach, equal and setschedprio are given only the
\* handle of a thread that exists and is joinable: the record of a task that
\* can be looked up, or that a delete is working on, names its own thread.
HandlesLive ==
  /\ \A s \in Slots : obj[s].st = "valid" =>
       impl[s] = obj[s].id /\ thread[impl[s]] = "joinable"
  /\ \A t \in Actors : pc[t] \in {"cancel", "join"} =>
       impl[Slot(t)] = arg[t] /\ thread[arg[t]] = "joinable"

\* A task leaves the table only with its thread joined or detached.
NoThreadLeaked ==
  \A i \in Ids : thread[i] = "joinable" /\ obj[SlotOf(i)].id # i => i \in cancelled

(* Every thread is joined or detached exactly once, by OS_TaskDelete or    *)
(* OS_TaskExit, whoever comes first: no handle is used after that, and     *)
(* the host can free the thread when its task leaves the table; except for *)
(* a task that deletes itself, whose join fails.                           *)
ThreadFreedOnce == HandlesLive /\ NoThreadLeaked

(* When OS_TaskDelete has removed another task, its thread has really      *)
(* ended, so that the code it ran may be unloaded (the comment in          *)
(* OS_TaskDelete_Impl).                                                    *)
DeletedHasEnded ==
  \A t \in Actors : pc[t] = "hook" /\ ~Self(t) => pc[arg[t]] = "ended"

(* A thread runs the function of its task only while the table lists the   *)
(* task, created to the end; the one exception is a thread that has        *)
(* deleted itself and has not come to a cancellation point yet.            *)
RunningIsListed ==
  \A i \in Ids : pc[i] \in SyncPcs \cup {"run"} => Listed(i) \/ i \in cancelled

(* OS_TaskDelete calls only the delete hook that the deleted task itself   *)
(* installed, never that of an earlier task in the same slot.              *)
HookOfTask == \A t \in Actors : saved[t] # NONE => saved[t] = arg[t]

(* OS_DeleteAllObjects deletes tasks first, "as they could be actively     *)
(* using other object types": no task is in a call on an object when it is *)
(* destroyed, although those calls take no lock on it.                     *)
DeleteAllSafe ==
  active_id # "valid" =>
    \A i \in Ids : pc[i] \notin SyncPcs \cup {"cancel_relock", "cleanup"}

(* A task that is deleted while it waits on a condition variable does not  *)
(* leave the mutex of the condition variable locked.                       *)
WaitLeavesNoLock ==
  [][\A t \in Ids : pc[t] \in WaitPcs \cup {"cancel_relock", "cleanup"}
                    /\ pc'[t] = "ended" => depth'[t] = 0]_vars

\* A task waits, deaf to pthread_cancel, for a lock of a task that has ended.
Orphaned ==
  /\ \E t \in Ids : pc[t] \in {"lock", "read_lock", "relock", "cancel_relock"}
  /\ \E u \in Ids : pc[u] = "ended" /\ Holds(u)

\* No task, and no object but a read/write lock, or one that a deleted task
\* had locked.
Cleaned ==
  /\ \A s \in Slots : obj[s] = Free
  /\ active_id = "free" \/ kind = "rwlock" \/ \E i \in Ids : Holds(i)

(* OS_TaskDelete returns: the thread it waits for ends, unless it waits    *)
(* for a lock that went down with another task.  (Every task is deleted    *)
(* once, so nobody waits in the end.)  So does OS_DeleteAllObjects, also   *)
(* when there is an object it cannot delete, with everything else deleted. *)
DeletionsReturn ==
  /\ (\E t \in Actors : pc[t] = "join") ~> (\A t \in Actors : pc[t] # "join") \/ Orphaned
  /\ pc[Main] = "sweep" ~> (pc[Main] = "done" /\ Cleaned) \/ Orphaned
=============================================================================
