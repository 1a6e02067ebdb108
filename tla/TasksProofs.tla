---------------------------- MODULE TasksProofs ----------------------------
(****************************************************************************)
(* The threads of OS_TaskCreate, OS_TaskExit and OS_TaskDelete, and the     *)
(* order of OS_DeleteAllObjects, for every instance of Tasks: any number of *)
(* tasks, slots, attempts and applications.                                 *)
(****************************************************************************)
EXTENDS Tasks, TLAPS

USE ZenonT(60)

Makers == {"spawn", "finalize"}
Deleters == {"cancel", "join", "free"}
Workers == Makers \cup Deleters

\* Where only Main can be, and where only a task can.
MainPcs == {"setup", "make", "sweep", "sweep_object", "destroy", "sweep_end", "done"}
TaskPcs == {"none", "start", "exit", "ending", "ended", "cancel_relock", "cleanup"}

\* A thread that has not begun to run its task, or that has left it.
Outside == {"none", "start", "ending", "ended"}

Sweeps == [pass : 0 .. 2, at : 0 .. MaxId, count : 0 .. 1, tries : 0 .. MaxTries]

Types ==
  /\ TypeOfObj /\ last_id \in Ids \cup {NONE}
  /\ impl \in [Slots -> Ids \cup {NONE}] /\ hook \in [Slots -> Ids \cup {NONE}]
  /\ thread \in [Ids -> {"none", "joinable", "detached", "joined"}]
  /\ cancelled \subseteq Ids
  /\ arg \in [Actors -> Ids \cup {NONE}] /\ saved \in [Actors -> Ids \cup {NONE}]
  /\ sweep \in Sweeps /\ DOMAIN pc = Actors /\ app \in Apps

\* The record of a task names its own thread, and its own delete hook.
RecordOf(s) ==
  \/ obj[s] = Free
  \/ /\ obj[s].id \in Ids /\ obj[s].id <= last_id /\ SlotOf(obj[s].id) = s
     /\ obj[s].st \in {"new", "valid", "exclusive"}
     /\ obj[s].users = (IF obj[s].st = "valid" THEN 0 ELSE 1)
     /\ hook[s] \in {NONE, obj[s].id}
     /\ obj[s].st = "valid" =>
          impl[s] = obj[s].id /\ thread[obj[s].id] = "joinable"

Records == \A s \in Slots : RecordOf(s)

Has(t, st) ==
  arg[t] \in Ids /\ obj[Slot(t)].id = arg[t] /\ obj[Slot(t)].st = st

\* What a call knows about the task it creates or deletes.
CallOf(t) ==
  /\ pc[t] \in Makers => Has(t, "new")
  /\ pc[t] \in Deleters => Has(t, "exclusive")
  /\ pc[t] = "spawn" => pc[arg[t]] = "none"
  /\ pc[t] \in {"finalize", "cancel", "join"} =>
       impl[Slot(t)] = arg[t] /\ thread[arg[t]] = "joinable"
  /\ pc[t] \in {"join", "free", "hook"} => arg[t] \in cancelled
  /\ pc[t] \in {"free", "hook"} /\ arg[t] # t =>
       pc[arg[t]] = "ended" /\ thread[arg[t]] = "joined"
  /\ pc[t] = "delete" => arg[t] \in Ids
  /\ saved[t] # NONE =>
       saved[t] = arg[t] /\ pc[t] \in Deleters \cup {"hook", "ended"}

Calls == \A t \in Actors : CallOf(t)

\* One call at most creates or deletes a task.
Apart ==
  \A t, u \in Actors : pc[t] \in Workers /\ pc[u] \in Workers /\ arg[t] = arg[u] => t = u

ThreadOf(i) ==
  /\ last_id < i => pc[i] = "none"
  /\ pc[i] = "none" <=> thread[i] = "none"
  /\ i \in cancelled => pc[i] # "none"
  /\ thread[i] = "joinable" /\ obj[SlotOf(i)].id # i => i \in cancelled
  /\ pc[i] \notin Outside => Listed(i) \/ i \in cancelled
  /\ pc[i] \notin MainPcs

Threads == (\A i \in Ids : ThreadOf(i)) /\ pc[Main] \notin TaskPcs

Core == Types /\ Records /\ Calls /\ Apart /\ Threads

-----------------------------------------------------------------------------
(* OS_DeleteAllObjects.                                                    *)

\* While Main deletes everything, nobody else creates or deletes tasks.
Orderly ==
  \A a \in Apps : "delete_all" \in a.main =>
    a.task \cap {"create", "delete", "delete_self"} = {}

SweepPcs == {"sweep", "sweep_object", "destroy", "sweep_end"}

\* How far the setup and OS_DeleteAllObjects are.
Passes ==
  /\ pc[Main] = "make" => active_id = "reserved"
  /\ sweep.pass > 0 => /\ pc[Main] \in SweepPcs \cup Deleters \cup {"delete", "hook"}
                       /\ "delete_all" \in app.main
  /\ pc[Main] \in SweepPcs => sweep.pass > 0
  /\ pc[Main] \in SweepPcs \ {"sweep"} => sweep.pass = 2

\* Main alone creates and deletes.
Working == Workers \cup {"delete", "hook"}
OnlyMain == \A i \in Ids : pc[i] \notin Working
MainsSlots ==
  \A s \in Slots : obj[s].st \in {"new", "exclusive"} => pc[Main] \in Workers /\ Slot(Main) = s
MainsThreads ==
  \A i \in cancelled : pc[i] = "ended" \/ (pc[Main] = "join" /\ arg[Main] = i)

\* The tasks that OS_DeleteAllObjects has passed are gone.
Passed(s) == s < sweep.at \/ sweep.pass = 2
Gone ==
  sweep.pass > 0 => \A s \in Slots : Passed(s) =>
    \/ obj[s].st = "free"
    \/ pc[Main] \in Deleters \cup {"delete"} /\ Slot(Main) = s /\ obj[s].id = arg[Main]

Swept ==
  "delete_all" \in app.main => OnlyMain /\ MainsSlots /\ MainsThreads /\ Gone

\* Where a thread may be on an object of which kind; only locks are held.
Lockless == kind \in {"countsem", "queue"}
LockingPcs == {"lock", "cond_enter", "cond_wait", "cond_timed", "relock",
               "cancel_relock", "cleanup"}
Suits(p) == p \notin (IF Lockless THEN LockingPcs ELSE {"wait", "timed_wait"})

Kinds ==
  /\ DOMAIN depth = Actors
  /\ \A t \in Actors : Suits(pc[t]) /\ (Lockless => depth[t] = 0)

IInv == Core /\ Passes /\ Swept /\ Kinds /\ DeleteAllSafe

-----------------------------------------------------------------------------
(* Numbers, and steps that leave the table and the threads alone.          *)

LEMMA FreeFields == Free.st = "free" /\ Free.id = NONE
  BY DEF Free

LEMMA Numbers ==
  /\ NONE \notin Ids /\ Main \notin Ids /\ Actors = Ids \cup {Main}
  /\ \A i \in Ids : SlotOf(i) \in Slots /\ NONE < i
  /\ \A i, j \in Ids \cup {NONE} : i < j => i <= j /\ ~ (j <= i)
  /\ \A i, j \in Ids \cup {NONE} : i <= j => ~ (j < i)
  /\ \A i, j, k \in Ids \cup {NONE} : /\ i <= j /\ j < k => i <= k
                                      /\ i < j /\ j < k => i < k
                                      /\ i <= j /\ j <= k => i <= k
  /\ \A i \in Ids \cup {NONE} : i <= i /\ ~ (i < i)
<1>1. Ids \subseteq Nat /\ MaxId \in Nat \ {0}
  BY TasksAssumption
<1>2. \A i \in Ids : SlotOf(i) \in Slots /\ NONE < i
  BY <1>1, SMTT(30) DEF SlotOf, Slots, NONE
<1>3. NONE \notin Ids /\ \A i \in Ids \cup {NONE} : i \in Int
  BY <1>1, SMTT(30) DEF NONE
<1>4. /\ \A i, j \in Int : i < j => i <= j /\ ~ (j <= i)
      /\ \A i, j \in Int : i <= j => ~ (j < i)
      /\ \A i, j, k \in Int : (i <= j /\ j < k => i <= k) /\ (i < j /\ j < k => i < k)
      /\ \A i, j, k \in Int : i <= j /\ j <= k => i <= k
      /\ \A i \in Int : i <= i /\ ~ (i < i)
  BY SMTT(30)
<1>5. Main \notin Ids /\ Actors = Ids \cup {Main}
  BY TasksAssumption
<1>. QED
  BY <1>2, <1>3, <1>4, <1>5

LEMMA Less == \A i, j \in Ids \cup {NONE} : i < j \/ j <= i
<1>1. \A i \in Ids \cup {NONE} : i \in Int
  BY TasksAssumption, SMTT(30) DEF NONE
<1>. QED
  BY <1>1, SMTT(30)

Moved(t) ==
  DOMAIN pc' = Actors /\ \A u \in Actors \ {t} : pc'[u] = pc[u]

LEMMA GotoStep ==
  ASSUME Types, NEW t \in Actors, NEW from, NEW to, Goto(t, from, to)
  PROVE  pc[t] = from /\ pc'[t] = to /\ Moved(t)
  BY DEF Types, Goto, Moved

\* What a thread does that begins no creation or deletion.
Keeps(u) ==
  /\ pc[u] = "none" <=> pc'[u] = "none"
  /\ pc[u] = "ended" => pc'[u] = "ended"
  /\ pc'[u] \in Workers => pc[u] \in Workers /\ arg'[u] = arg[u]
  /\ u = Main => pc'[u] \notin TaskPcs
  /\ u \in Ids => /\ pc'[u] \notin MainPcs
                  /\ pc'[u] \notin Outside => pc[u] \notin Outside \/ Listed(u)

Stays(u) == pc'[u] = pc[u] /\ arg'[u] = arg[u] /\ saved'[u] = saved[u]

LEMMA StaysKeeps ==
  ASSUME Core, NEW u \in Actors, Stays(u)
  PROVE  Keeps(u)
  BY DEF Core, Threads, ThreadOf, Stays, Keeps

LEMMA PcStep ==
  ASSUME Core, UNCHANGED <<table, host>>, Types',
         \A u \in Actors : Keeps(u) /\ (CallOf(u)' \/ Stays(u))
  PROVE  Core'
<1>1. UNCHANGED <<obj, last_id, impl, hook, thread, cancelled>>
  BY DEF table, host
<1>2. Records'
  BY <1>1 DEF Core, Records, RecordOf
<1>3. Calls'
  <2>1. SUFFICES ASSUME NEW u \in Actors, Stays(u) PROVE CallOf(u)'
    BY DEF Calls
  <2>2. CallOf(u) /\ Slot(u)' = Slot(u)
    BY <2>1 DEF Core, Calls, Stays, Slot
  <2>3. arg[u] \in Ids => /\ pc[arg[u]] = "none" => pc'[arg[u]] = "none"
                          /\ pc[arg[u]] = "ended" => pc'[arg[u]] = "ended"
    BY Numbers DEF Keeps
  <2>4. pc[u] \in {"free", "hook"} => arg[u] \in Ids
    BY <2>2 DEF CallOf, Core, Types
  <2>. QED
    BY <1>1, <2>1, <2>2, <2>3, <2>4 DEF CallOf, Has, Stays, Makers
<1>4. Apart'
  BY DEF Core, Apart, Keeps
<1>5. Threads'
  <2>1. ASSUME NEW i \in Ids PROVE ThreadOf(i)'
    BY <1>1, Numbers DEF Core, Threads, ThreadOf, Keeps, Listed
  <2>2. pc'[Main] \notin TaskPcs
    BY Numbers DEF Keeps
  <2>. QED
    BY <2>1, <2>2 DEF Threads
<1>. QED
  BY <1>2, <1>3, <1>4, <1>5 DEF Core

-----------------------------------------------------------------------------
(* The calls of module Sync.                                               *)

Inside == SyncPcs \cup {"run"}

\* A thread begins a call on the object.
LEMMA SyncCallStep ==
  ASSUME Types, NEW t \in Actors, SyncCall(t)
  PROVE  /\ Moved(t) /\ pc[t] = "run" /\ pc'[t] \in SyncPcs /\ Suits(pc'[t])
         /\ active_id = "valid" /\ UNCHANGED <<kind, active_id, depth>>
<1>. DEFINE Begins(p) == /\ Goto(t, "run", p) /\ active_id = "valid" /\ Suits(p)
                         /\ UNCHANGED <<kind, active_id, depth>>
<1>1. ASSUME NEW p \in SyncPcs, Begins(p)
      PROVE  /\ Moved(t) /\ pc[t] = "run" /\ pc'[t] \in SyncPcs /\ Suits(pc'[t])
             /\ active_id = "valid" /\ UNCHANGED <<kind, active_id, depth>>
  BY <1>1, GotoStep
<1>2. SyncPcs = {"lock", "owner", "unlock", "read_lock", "read_unlock", "post",
                 "cond_enter", "signal", "broadcast", "relock", "wait", "timed_wait",
                 "cond_wait", "cond_timed"}
  BY DEF SyncPcs, LockPcs, WaitPcs
<1>3. ASSUME MutSemTake(t) \/ RwLockWriteTake(t) \/ CondVarLock(t) PROVE Begins("lock")
  BY <1>3 DEF MutSemTake, RwLockWriteTake, CondVarLock, Call, object, Suits, Lockless, LockingPcs
<1>4. ASSUME MutSemGive(t) \/ RwLockWriteGive(t) \/ CondVarUnlock(t) PROVE Begins("unlock")
  BY <1>4 DEF MutSemGive, RwLockWriteGive, CondVarUnlock, Call, object, Suits, Lockless, LockingPcs
<1>5. ASSUME RwLockReadTake(t) PROVE Begins("read_lock")
  BY <1>5 DEF RwLockReadTake, Call, object, Suits, Lockless, LockingPcs
<1>6. ASSUME RwLockReadGive(t) PROVE Begins("read_unlock")
  BY <1>6 DEF RwLockReadGive, Call, object, Suits, Lockless, LockingPcs
<1>7. ASSUME CondVarWait(t) PROVE Begins("cond_enter")
  BY <1>7 DEF CondVarWait, Call, object, Suits, Lockless, LockingPcs
<1>8. ASSUME CondVarSignal(t) PROVE Begins("signal")
  BY <1>8 DEF CondVarSignal, Call, object, Suits, Lockless, LockingPcs
<1>9. ASSUME CondVarBroadcast(t) PROVE Begins("broadcast")
  BY <1>9 DEF CondVarBroadcast, Call, object, Suits, Lockless, LockingPcs
<1>10. ASSUME CountSemGive(t) \/ QueuePut(t) PROVE Begins("post")
  BY <1>10 DEF CountSemGive, QueuePut, Call, object, Suits, Lockless, LockingPcs
<1>11. ASSUME CountSemTake(t) \/ CountSemTimedWait(t) \/ QueueGet(t)
       PROVE  Begins("wait") \/ Begins("timed_wait")
  BY <1>11 DEF CountSemTake, CountSemTimedWait, QueueGet, Call, object, Suits, Lockless,
     LockingPcs
<1>. HIDE DEF Begins
<1>. QED
  BY <1>1, <1>2, <1>3, <1>4, <1>5, <1>6, <1>7, <1>8, <1>9, <1>10, <1>11
  DEF SyncCall

\* Threads go on in, or return from, their calls on the object.
SyncMove ==
  /\ DOMAIN pc' = Actors /\ kind' = kind /\ (Kinds => Kinds')
  /\ \A u \in Actors : \/ pc'[u] = pc[u]
                       \/ pc[u] \in SyncPcs /\ pc'[u] \in Inside

\* One thread does.
LEMMA SyncOne ==
  ASSUME Types, NEW t \in Actors, NEW from \in SyncPcs, NEW to \in Inside,
         Goto(t, from, to), kind' = kind,
         Kinds => /\ Suits(to) /\ DOMAIN depth' = Actors
                  /\ Lockless => \A u \in Actors : depth'[u] = 0
  PROVE  SyncMove
<1>1. pc[t] = from /\ pc'[t] = to /\ Moved(t)
  BY GotoStep
<1>2. ASSUME Kinds PROVE Kinds'
  BY <1>1, <1>2 DEF Kinds, Moved, Suits, Lockless
<1>. QED
  BY <1>1, <1>2 DEF SyncMove, Moved

LEMMA SyncStepMoves ==
  ASSUME Types, NEW t \in Actors, SyncStep(t) \/ Interrupted(t)
  PROVE  SyncMove /\ active_id' = active_id
<1>1. SyncPcs = {"lock", "owner", "unlock", "read_lock", "read_unlock", "post",
                 "cond_enter", "signal", "broadcast", "relock", "wait", "timed_wait",
                 "cond_wait", "cond_timed"} /\ Inside = SyncPcs \cup {"run"}
  BY DEF SyncPcs, LockPcs, WaitPcs, Inside
<1>2. ASSUME Locked(t) PROVE SyncMove /\ active_id' = active_id
  <2>1. ~ Lockless /\ (Goto(t, "lock", "owner") \/ Goto(t, "lock", "run"))
    BY <1>2 DEF Locked, MutexLocked, WriteLocked, CondVarLocked, Lock, Lockless
  <2>2. depth' = [depth EXCEPT ![t] = @ + 1] /\ kind' = kind /\ active_id' = active_id
    BY <1>2 DEF Locked, MutexLocked, WriteLocked, CondVarLocked, Lock
  <2>. QED
    BY <1>1, <2>1, <2>2, SyncOne DEF Kinds, Suits
<1>3. ASSUME MutexUnlocked(t) \/ WriteUnlocked(t) \/ CondVarUnlocked(t)
      PROVE  SyncMove /\ active_id' = active_id
  <2>1. /\ ~ Lockless /\ Goto(t, "unlock", "run") /\ kind' = kind /\ active_id' = active_id
        /\ \E n : depth' = [depth EXCEPT ![t] = n]
    BY <1>3 DEF MutexUnlocked, WriteUnlocked, CondVarUnlocked, UnlockTo, Lockless
  <2>. QED
    BY <1>1, <2>1, SyncOne DEF Kinds, Suits
<1>4. ASSUME SetOwner(t) \/ ReadLocked(t) \/ ReadUnlock(t) \/ Posted(t) \/ Sent(t)
      PROVE  SyncMove /\ active_id' = active_id
  <2>1. /\ \E p \in SyncPcs : Goto(t, p, "run")
        /\ UNCHANGED <<kind, active_id, depth>>
    BY <1>1, <1>4 DEF SetOwner, ReadLocked, ReadUnlock, Posted, Sent, Post
  <2>. QED
    BY <1>1, <2>1, SyncOne DEF Kinds, Suits, LockingPcs
<1>5. ASSUME Taken(t) \/ TimedWaited(t) \/ Received(t) \/ Interrupted(t)
      PROVE  SyncMove /\ active_id' = active_id
  <2>1. /\ \E p \in SyncPcs : Goto(t, p, "run")
        /\ UNCHANGED <<kind, active_id, depth>>
    BY <1>1, <1>5 DEF Taken, TimedWaited, Received, Interrupted, TakeOne, object
  <2>. QED
    BY <1>1, <2>1, SyncOne DEF Kinds, Suits, LockingPcs
<1>6. ASSUME CondEnter(t) PROVE SyncMove /\ active_id' = active_id
  <2>1. Kinds => ~ Lockless
    BY <1>6 DEF CondEnter, Goto, Kinds, Suits, LockingPcs
  <2>2. /\ Goto(t, "cond_enter", "cond_wait") \/ Goto(t, "cond_enter", "cond_timed")
        /\ depth' = [depth EXCEPT ![t] = 0] /\ kind' = kind /\ active_id' = active_id
    BY <1>6 DEF CondEnter
  <2>. QED
    BY <1>1, <2>1, <2>2, SyncOne DEF Kinds, Suits
<1>7. ASSUME CondExpires(t) PROVE SyncMove /\ active_id' = active_id
  <2>1. Kinds => ~ Lockless
    BY <1>7 DEF CondExpires, Goto, Kinds, Suits, LockingPcs
  <2>2. Goto(t, "cond_timed", "relock") /\ UNCHANGED <<kind, active_id, depth>>
    BY <1>7 DEF CondExpires, object
  <2>. QED
    BY <1>1, <2>1, <2>2, SyncOne DEF Kinds, Suits
<1>8. ASSUME Relocked(t) PROVE SyncMove /\ active_id' = active_id
  <2>1. Kinds => ~ Lockless
    BY <1>8 DEF Relocked, Goto, Kinds, Suits, LockingPcs
  <2>2. /\ Goto(t, "relock", "run") /\ kind' = kind /\ active_id' = active_id
        /\ depth' = [depth EXCEPT ![t] = 1]
    BY <1>8 DEF Relocked
  <2>. QED
    BY <1>1, <2>1, <2>2, SyncOne DEF Kinds, Suits
<1>9. ASSUME Signal(t) \/ Broadcast(t) PROVE SyncMove /\ active_id' = active_id
  <2>1. PICK woken \in SUBSET Waiters : pc[t] \in {"signal", "broadcast"} /\ Wake(t, woken)
    BY <1>9 DEF Signal, Broadcast
  <2>2. UNCHANGED <<kind, active_id, depth>> /\ DOMAIN pc' = Actors
    BY <2>1 DEF Wake, object
  <2>3. ASSUME NEW u \in Actors
        PROVE  \/ pc'[u] = pc[u]
               \/ pc[u] \in SyncPcs /\ pc'[u] = "run"
               \/ pc[u] \in {"cond_wait", "cond_timed"} /\ pc'[u] = "relock"
    BY <1>1, <2>1 DEF Wake, Waiters
  <2>4. ASSUME Kinds, NEW u \in Actors PROVE Suits(pc'[u])
    BY <2>3, <2>4 DEF Kinds, Suits, LockingPcs
  <2>. QED
    BY <1>1, <2>2, <2>3, <2>4 DEF SyncMove, Kinds, Suits, Lockless
<1>. QED
  BY <1>2, <1>3, <1>4, <1>5, <1>6, <1>7, <1>8, <1>9 DEF SyncStep

-----------------------------------------------------------------------------
(* Steps of one thread that leave the table and the threads alone.         *)

LEMMA OneStep ==
  ASSUME Core, NEW t \in Actors, UNCHANGED <<table, host>>, Types', Moved(t),
         \A u \in Actors \ {t} : arg'[u] = arg[u] /\ saved'[u] = saved[u],
         Keeps(t), CallOf(t)'
  PROVE  Core'
<1>1. \A u \in Actors \ {t} : Stays(u)
  BY DEF Moved, Stays
<1>. QED
  BY <1>1, StaysKeeps, PcStep

LEMMA TypesStep ==
  ASSUME Types, UNCHANGED <<table, host, arg, saved, sweep, app>>, DOMAIN pc' = Actors
  PROVE  Types'
  BY DEF Types, table, host, TypeOfObj

\* A thread that is nowhere in OS_TaskCreate or OS_TaskDelete, or leaves it for good.
LEMMA Walks ==
  ASSUME Core, NEW t \in Actors, UNCHANGED <<table, host, arg, saved>>, Types', Moved(t),
         pc[t] \notin {"none", "ended"},
         pc'[t] \notin Workers \cup {"hook", "delete", "none"},
         pc[t] \in Deleters \cup {"hook"} => pc'[t] = "ended",
         t = Main => pc'[t] \notin TaskPcs,
         t \in Ids => /\ pc'[t] \notin MainPcs
                      /\ pc'[t] \in Outside \/ pc[t] \notin Outside \/ Listed(t)
  PROVE  Core'
<1>1. CallOf(t)'
  <2>1. saved[t] # NONE => saved[t] = arg[t] /\ pc'[t] = "ended"
    BY DEF Core, Calls, CallOf
  <2>. QED
    BY <2>1 DEF CallOf, Workers, Makers, Deleters
<1>2. Keeps(t)
  BY DEF Keeps
<1>. QED
  BY <1>1, <1>2, OneStep

LEMMA TaskThread ==
  ASSUME Core, NEW t \in Actors, pc[t] \in TaskPcs
  PROVE  t \in Ids
  BY Numbers DEF Core, Threads

LEMMA MainThread ==
  ASSUME Core, NEW t \in Actors, pc[t] \in MainPcs
  PROVE  t = Main
  BY Numbers DEF Core, Threads, ThreadOf

\* The step leaves the table, the threads and what the calls know alone.
Frame == UNCHANGED <<table, host, arg, saved, sweep, app>>

LEMMA PrepareCore ==
  ASSUME Core, NEW t \in Actors, TaskPrepare(t) \/ PrepareFails(t)
  PROVE  Core'
<1>1. Frame /\ \/ Goto(t, "start", "ending")
               \/ (Goto(t, "start", "run") \/ Goto(t, "start", "exit")) /\ Valid(t)
  BY DEF TaskPrepare, PrepareFails, Frame
<1>2. /\ pc[t] = "start" /\ Moved(t)
      /\ pc'[t] = "ending" \/ (pc'[t] \in {"run", "exit"} /\ Valid(t))
  BY <1>1, GotoStep DEF Core
<1>3. t \in Ids
  BY <1>2, TaskThread DEF TaskPcs
<1>4. Types'
  BY <1>1, <1>2, TypesStep DEF Frame, Core, Moved
<1>5. pc'[t] \in Outside \/ Listed(t)
  BY <1>2 DEF Outside, Listed, Valid
<1>. QED
  BY <1>1, <1>2, <1>3, <1>4, <1>5, Walks, Numbers
  DEF Frame, Workers, Makers, Deleters, MainPcs

\* A task leaves its function, or a wait that was cancelled.
LEMMA EndCore ==
  ASSUME Core, NEW t \in Actors,
         \/ CallExit(t) \/ ExitFails(t) \/ TaskEnd(t)
         \/ CancelRelocked(t) \/ CondVarReleaseMutex(t)
  PROVE  Core'
<1>1. /\ Frame
      /\ \/ Goto(t, "run", "exit") /\ t # Main
         \/ Goto(t, "exit", "ending") \/ Goto(t, "ending", "ended")
         \/ Goto(t, "cancel_relock", "cleanup") \/ Goto(t, "cleanup", "ended")
  BY DEF CallExit, ExitFails, TaskEnd, CancelRelocked, CondVarReleaseMutex, Frame, calls
<1>2. /\ Moved(t) /\ t \in Ids
      /\ pc[t] \in {"run", "exit", "cancel_relock", "cleanup", "ending"}
      /\ pc'[t] \in {"exit", "cleanup", "ending", "ended"}
      /\ pc[t] = "ending" => pc'[t] = "ended"
  <2>1. /\ Moved(t) /\ pc[t] \in {"run", "exit", "cancel_relock", "cleanup", "ending"}
        /\ pc'[t] \in {"exit", "cleanup", "ending", "ended"}
        /\ pc[t] = "ending" => pc'[t] = "ended"
    BY <1>1 DEF Goto, Moved, Core, Types
  <2>2. pc[t] = "run" => t # Main
    BY <1>1 DEF Goto
  <2>3. pc[t] # "run" => pc[t] \in TaskPcs
    BY <2>1 DEF TaskPcs
  <2>4. t \in Ids
    BY <2>2, <2>3, TaskThread, Numbers
  <2>. QED
    BY <2>1, <2>4
<1>3. Types'
  BY <1>1, <1>2, TypesStep DEF Frame, Core, Moved
<1>. QED
  BY <1>1, <1>2, <1>3, Walks, Numbers
  DEF Frame, Workers, Makers, Deleters, MainPcs, Outside

LEMMA ActOnCancelCore ==
  ASSUME Core, NEW t \in Actors, ActOnCancel(t)
  PROVE  Core'
<1>1. /\ Frame /\ t \in Ids
      /\ pc[t] \in {"run", "join", "start", "delete", "exit", "wait", "timed_wait",
                    "cond_wait", "cond_timed"}
      /\ \/ Goto(t, pc[t], "ended")
         \/ Goto(t, pc[t], "cancel_relock") /\ pc[t] \in {"cond_wait", "cond_timed"}
  BY DEF Core, Types, ActOnCancel, AtCancelPoint, Frame, calls, LookupPcs, Waiters, WaitPcs
<1>2. /\ Moved(t)
      /\ \/ pc'[t] = "ended"
         \/ pc'[t] = "cancel_relock" /\ pc[t] \in {"cond_wait", "cond_timed"}
  BY <1>1 DEF Core, Types, Goto, Moved
<1>3. Types'
  BY <1>1, <1>2, TypesStep DEF Frame, Core, Moved
<1>. QED
  BY <1>1, <1>2, <1>3, Walks, Numbers
  DEF Frame, Workers, Makers, Deleters, MainPcs, Outside

LEMMA RetryCore ==
  ASSUME Core, NEW t \in Actors, Retry(t)
  PROVE  Core'
<1>1. Types'
  BY TypesStep DEF Retry, Core, Types
<1>2. \A u \in Actors : Stays(u)
  BY DEF Retry, Stays
<1>. QED
  BY <1>1, <1>2, StaysKeeps, PcStep DEF Retry

LEMMA SyncCore ==
  ASSUME Core, NEW t \in Actors, SyncCall(t) \/ SyncSetup(t) \/ SyncStep(t) \/ Interrupted(t),
         UNCHANGED <<table, host, calls, app>>
  PROVE  Core'
<1>1. Frame /\ Types
  BY DEF Frame, calls, Core
<1>2. ASSUME SyncCall(t) PROVE Core'
  <2>1. Moved(t) /\ pc[t] = "run" /\ pc'[t] \in SyncPcs
    BY <1>1, <1>2, SyncCallStep
  <2>2. Types'
    BY <1>1, <2>1, TypesStep DEF Frame, Moved
  <2>. QED
    BY <1>1, <2>1, <2>2, Walks
    DEF Frame, SyncPcs, LockPcs, WaitPcs, Workers, Makers, Deleters, MainPcs, TaskPcs, Outside
<1>3. ASSUME SyncSetup(t) PROVE Core'
  <2>1. Goto(t, "setup", "make") \/ Goto(t, "make", "run")
    BY <1>3 DEF SyncSetup, SyncCreate, MutSemCreate, CondVarCreate, RwLockCreate, QueueCreate,
       CountSemCreate, MakeFails, Made
  <2>2. Moved(t) /\ pc[t] \in {"setup", "make"} /\ pc'[t] \in {"make", "run"} /\ t = Main
    BY <1>1, <2>1, GotoStep, MainThread DEF MainPcs
  <2>3. Types'
    BY <1>1, <2>2, TypesStep DEF Frame, Moved
  <2>. QED
    BY <1>1, <2>2, <2>3, Walks, Numbers DEF Frame, Workers, Makers, Deleters, TaskPcs
<1>4. ASSUME SyncStep(t) \/ Interrupted(t) PROVE Core'
  <2>1. SyncMove
    BY <1>1, <1>4, SyncStepMoves
  <2>2. Types'
    BY <1>1, <2>1, TypesStep DEF Frame, SyncMove
  <2>3. ASSUME NEW u \in Actors PROVE Keeps(u) /\ (CallOf(u)' \/ Stays(u))
    <3>1. CASE pc'[u] = pc[u]
      BY <1>1, <3>1, StaysKeeps DEF Frame, Stays
    <3>2. CASE pc[u] \in SyncPcs /\ pc'[u] \in Inside
      <4>1. /\ pc'[u] \notin Workers \cup MainPcs \cup TaskPcs \cup {"hook", "delete"}
            /\ pc[u] \notin Workers \cup MainPcs \cup TaskPcs \cup {"hook", "delete"}
        BY <3>2 DEF Inside, SyncPcs, LockPcs, WaitPcs, Workers, Makers, Deleters, MainPcs,
           TaskPcs
      <4>2. saved[u] = NONE
        BY <4>1 DEF Core, Calls, CallOf, Workers, TaskPcs
      <4>. QED
        BY <1>1, <4>1, <4>2 DEF Keeps, CallOf, Frame, Workers, Makers, Deleters, TaskPcs, Outside
    <3>. QED
      BY <2>1, <3>1, <3>2 DEF SyncMove
  <2>. QED
    BY <1>1, <2>2, <2>3, PcStep DEF Frame
<1>. QED
  BY <1>2, <1>3, <1>4

-----------------------------------------------------------------------------
(* Calls of OS_TaskDelete that do not change the table.                    *)

LEMMA TypesArg ==
  ASSUME Types, UNCHANGED <<table, host, app>>, DOMAIN pc' = Actors, sweep' \in Sweeps,
         NEW t \in Actors,
         arg' = arg \/ \E i \in Ids \cup {NONE} : arg' = [arg EXCEPT ![t] = i],
         saved' = saved \/ saved' = [saved EXCEPT ![t] = NONE]
  PROVE  /\ Types'
         /\ \A u \in Actors \ {t} : arg'[u] = arg[u] /\ saved'[u] = saved[u]
<1>1. arg' \in [Actors -> Ids \cup {NONE}] /\ saved' \in [Actors -> Ids \cup {NONE}]
  BY DEF Types
<1>2. \A u \in Actors \ {t} : arg'[u] = arg[u] /\ saved'[u] = saved[u]
  BY DEF Types
<1>. QED
  BY <1>1, <1>2 DEF Types, table, host, TypeOfObj

LEMMA CallDeleteCore ==
  ASSUME Core, NEW t \in Actors, CallDelete(t)
  PROVE  Core'
<1>1. PICK i \in Ids : arg' = [arg EXCEPT ![t] = i]
  BY DEF CallDelete
<1>2. pc[t] = "run" /\ pc'[t] = "delete" /\ Moved(t)
  BY GotoStep DEF Core, CallDelete
<1>3. /\ Types' /\ \A u \in Actors \ {t} : arg'[u] = arg[u] /\ saved'[u] = saved[u]
  BY <1>1, <1>2, TypesArg DEF Core, Types, CallDelete, Moved
<1>4. arg'[t] = i /\ saved'[t] = NONE
  BY <1>1, <1>2 DEF Core, Types, Calls, CallOf, CallDelete, Deleters
<1>5. CallOf(t)' /\ Keeps(t)
  BY <1>2, <1>4, Numbers
  DEF CallOf, Keeps, Workers, Makers, Deleters, TaskPcs, MainPcs, Outside
<1>. QED
  BY <1>2, <1>3, <1>5, OneStep DEF CallDelete

\* OS_TaskDelete returns.
LEMMA DeleteReturnsCore ==
  ASSUME Core, NEW t \in Actors, DeleteFails(t) \/ DeleteHook(t)
  PROVE  Core'
<1>1. /\ pc[t] \in {"delete", "hook"} /\ pc'[t] \in {"run", "sweep"} /\ Moved(t)
      /\ pc'[t] = "sweep" => t = Main
  BY DEF Core, Types, DeleteFails, DeleteHook, Back, Goto, Moved
<1>2. /\ UNCHANGED <<table, host, sweep, app>> /\ arg' = [arg EXCEPT ![t] = NONE]
      /\ saved' = saved \/ saved' = [saved EXCEPT ![t] = NONE]
  BY DEF DeleteFails, DeleteHook, Forget
<1>3. /\ Types' /\ \A u \in Actors \ {t} : arg'[u] = arg[u] /\ saved'[u] = saved[u]
  BY <1>1, <1>2, TypesArg DEF Core, Types, Moved
<1>4. saved'[t] = NONE
  <2>1. DeleteFails(t) => pc[t] = "delete" /\ saved' = saved
    BY DEF DeleteFails, Goto
  <2>2. pc[t] = "delete" => saved[t] = NONE
    BY DEF Core, Calls, CallOf, Deleters
  <2>. QED
    BY <2>1, <2>2 DEF DeleteHook, Core, Types
<1>5. CallOf(t)' /\ Keeps(t)
  BY <1>1, <1>4, Numbers
  DEF CallOf, Keeps, Workers, Makers, Deleters, TaskPcs, MainPcs, Outside
<1>. QED
  BY <1>1, <1>2, <1>3, <1>5, OneStep

-----------------------------------------------------------------------------
(* OS_DeleteAllObjects.                                                    *)

\* What is used of sets of numbers.
Least == \A X \in SUBSET Nat : X # {} => Min(X) \in X /\ \A n \in X : Min(X) <= n

LEMMA NextSlot ==
  ASSUME Least, Core, Unvisited # {}
  PROVE  /\ Min(Unvisited) \in Slots /\ obj[Min(Unvisited)].st = "valid"
         /\ obj[Min(Unvisited)].id \in Ids
         /\ \A s \in Slots : s < Min(Unvisited) /\ obj[s].st = "valid" => s < sweep.at
<1>1. Unvisited \in SUBSET Nat /\ MaxId \in Nat
  BY TasksAssumption, SMTT(30) DEF Unvisited, Slots
<1>2. Min(Unvisited) \in Unvisited /\ \A s \in Unvisited : Min(Unvisited) <= s
  BY <1>1 DEF Least
<1>3. Min(Unvisited) \in Slots /\ obj[Min(Unvisited)].st = "valid"
  BY <1>2 DEF Unvisited
<1>4. obj[Min(Unvisited)].id \in Ids
  <2>1. obj[Min(Unvisited)] # Free
    BY <1>3, FreeFields
  <2>. QED
    BY <1>3, <2>1 DEF Core, Records, RecordOf
<1>5. \A s \in Slots : s < Min(Unvisited) => s \notin Unvisited
  BY <1>1, <1>2, <1>3, SMTT(30) DEF Slots
<1>6. \A s \in Slots : s >= sweep.at \/ s < sweep.at
  BY <1>1, SMTT(30) DEF Core, Types, Sweeps, Slots
<1>. QED
  BY <1>3, <1>4, <1>5, <1>6 DEF Unvisited

LEMMA SweepTypes ==
  ASSUME Least, Core, DeleteAllObjects \/ Sweep
  PROVE  sweep' \in Sweeps
<1>1. MaxId \in Nat /\ MaxTries \in Nat /\ sweep \in Sweeps
  BY TasksAssumption DEF Core, Types
<1>2. NoSweep \in Sweeps /\ [NoSweep EXCEPT !.pass = 1] \in Sweeps
  BY <1>1, SMTT(30) DEF NoSweep, Sweeps
<1>3. ASSUME SweepTask PROVE sweep' \in Sweeps
  <2>1. Min(Unvisited) \in Slots
    BY <1>3, NextSlot DEF SweepTask
  <2>2. Min(Unvisited) + 1 \in 0 .. MaxId /\ 1 \in 0 .. 1
    BY <1>1, <2>1, SMTT(30) DEF Slots
  <2>3. sweep' = [sweep EXCEPT !.at = Min(Unvisited) + 1, !.count = 1]
    BY <1>3 DEF SweepTask
  <2>. QED
    BY <1>1, <2>2, <2>3 DEF Sweeps
<1>4. ASSUME SweepEnd, sweep.tries # MaxTries
      PROVE  [NoSweep EXCEPT !.pass = 1, !.tries = sweep.tries + 1] \in Sweeps
  <2>1. sweep.tries \in 0 .. MaxTries
    BY <1>1 DEF Sweeps
  <2>2. sweep.tries + 1 \in 0 .. MaxTries /\ 1 \in 0 .. 2
    BY <1>1, <1>4, <2>1, SMTT(30)
  <2>. QED
    BY <1>2, <2>2 DEF Sweeps
<1>5. ASSUME SweepTasksEnd \/ SweepObject PROVE sweep' \in Sweeps
  <2>1. 0 \in 0 .. MaxId /\ 2 \in 0 .. 2 /\ 1 \in 0 .. 1
    BY <1>1, SMTT(30)
  <2>. QED
    BY <1>1, <1>5, <2>1 DEF SweepTasksEnd, SweepObject, Sweeps
<1>6. ASSUME SweepEnd PROVE sweep' \in Sweeps
  BY <1>2, <1>4, <1>6 DEF SweepEnd
<1>. QED
  BY <1>1, <1>2, <1>3, <1>5, <1>6 DEF DeleteAllObjects, Sweep, Destroy, calls

LEMMA SweepCore ==
  ASSUME Least, Core, DeleteAllObjects \/ Sweep
  PROVE  Core'
<1>1. sweep' \in Sweeps /\ Main \in Actors
  BY SweepTypes, Numbers DEF Core
<1>2. ASSUME SweepTask PROVE Core'
  <2>1. PICK i \in Ids : arg' = [arg EXCEPT ![Main] = i]
    BY <1>2, NextSlot DEF SweepTask
  <2>2. pc[Main] = "sweep" /\ pc'[Main] = "delete" /\ Moved(Main)
    BY <1>1, <1>2, GotoStep DEF Core, SweepTask
  <2>3. /\ Types' /\ \A u \in Actors \ {Main} : arg'[u] = arg[u] /\ saved'[u] = saved[u]
    BY <1>1, <1>2, <2>1, <2>2, TypesArg DEF Core, SweepTask, Moved
  <2>4. arg'[Main] = i /\ saved'[Main] = NONE
    BY <1>1, <1>2, <2>1, <2>2 DEF Core, Types, Calls, CallOf, SweepTask, Deleters
  <2>5. CallOf(Main)' /\ Keeps(Main)
    BY <2>2, <2>4, Numbers
    DEF CallOf, Keeps, Workers, Makers, Deleters, TaskPcs
  <2>. QED
    BY <1>1, <1>2, <2>2, <2>3, <2>5, OneStep DEF SweepTask
<1>3. ASSUME DeleteAllObjects \/ SweepTasksEnd \/ SweepObject \/ Destroy \/ SweepEnd
      PROVE  Core'
  <2>1. /\ UNCHANGED <<table, host, arg, saved, app>>
        /\ \E p \in {"run"} \cup MainPcs, q \in MainPcs : Goto(Main, p, q)
    BY <1>3 DEF DeleteAllObjects, SweepTasksEnd, SweepObject, Destroy, SweepEnd, calls, SyncDelete,
       MutSemDelete, CondVarDelete, CountSemDelete, QueueDelete, Destroyed, MainPcs
  <2>2. pc[Main] \in {"run"} \cup MainPcs /\ pc'[Main] \in MainPcs /\ Moved(Main)
    BY <1>1, <2>1, GotoStep DEF Core
  <2>3. Types'
    BY <1>1, <2>1, <2>2, TypesArg DEF Core, Moved
  <2>. QED
    BY <1>1, <2>1, <2>2, <2>3, Walks, Numbers
    DEF Workers, Makers, Deleters, MainPcs, TaskPcs
<1>. QED
  BY <1>2, <1>3 DEF Sweep

-----------------------------------------------------------------------------
(* Steps that create or delete a task.                                     *)

\* Thread t changes task i, and nothing else.
Works(t, i) ==
  /\ \A s \in Slots \ {SlotOf(i)} : obj'[s] = obj[s] /\ impl'[s] = impl[s] /\ hook'[s] = hook[s]
  /\ \A j \in Ids \ {i} : thread'[j] = thread[j] /\ (j \in cancelled' <=> j \in cancelled)
  /\ \A u \in Actors \ {t, i} : Stays(u)
  /\ thread[i] = "joined" => thread'[i] = "joined"
  /\ i \in cancelled => i \in cancelled'
  /\ pc[i] = "ended" => pc'[i] = "ended"
  /\ last_id <= last_id'

\* No other call creates or deletes a task in slot s.
Alone(t, s) == \A u \in Actors \ {t} : pc[u] \in Workers => Slot(u) # s

LEMMA AloneAtWork ==
  ASSUME Core, NEW t \in Actors, pc[t] \in Workers
  PROVE  Alone(t, Slot(t)) /\ arg[t] \in Ids /\ obj[Slot(t)].id = arg[t]
<1>1. \A u \in Actors : pc[u] \in Workers => arg[u] \in Ids /\ obj[Slot(u)].id = arg[u]
  BY DEF Core, Calls, CallOf, Has, Workers
<1>. QED
  BY <1>1 DEF Core, Apart, Alone

LEMMA AloneIfIdle ==
  ASSUME Core, NEW t \in Actors, NEW s \in Slots, obj[s].st \in {"free", "valid"}
  PROVE  Alone(t, s)
<1>1. \A u \in Actors : pc[u] \in Workers => obj[Slot(u)].st \in {"new", "exclusive"}
  BY DEF Core, Calls, CallOf, Has, Workers
<1>. QED
  BY <1>1 DEF Alone

LEMMA OtherCalls ==
  ASSUME Core, NEW t \in Actors, NEW i \in Ids, Works(t, i), Alone(t, SlotOf(i)),
         pc[t] \notin Outside, NEW u \in Actors \ {t}, Stays(u)
  PROVE  CallOf(u)'
<1>1. CallOf(u) /\ Slot(u)' = Slot(u)
  BY DEF Core, Calls, Stays, Slot
<1>2. \A j \in Ids : /\ pc[j] = "ended" => pc'[j] = "ended"
                     /\ pc[j] = "none" /\ j # i => pc'[j] = "none"
  BY Numbers DEF Works, Stays, Outside
<1>3. CASE pc[u] \in Workers
  <2>1. arg[u] \in Ids /\ Slot(u) \in Slots \ {SlotOf(i)} /\ arg[u] # i
    BY <1>3, Numbers, AloneAtWork DEF Alone, Slot
  <2>2. /\ obj'[Slot(u)] = obj[Slot(u)] /\ impl'[Slot(u)] = impl[Slot(u)]
        /\ thread'[arg[u]] = thread[arg[u]] /\ (arg[u] \in cancelled' <=> arg[u] \in cancelled)
    BY <2>1 DEF Works
  <2>3. (pc[u] \in Makers => Has(u, "new")') /\ (pc[u] \in Deleters => Has(u, "exclusive")')
    BY <1>1, <2>2 DEF CallOf, Has, Stays
  <2>. QED
    BY <1>1, <1>2, <2>1, <2>2, <2>3 DEF CallOf, Stays
<1>4. CASE pc[u] \notin Workers
  <2>1. pc[u] = "hook" => arg[u] \in Ids
    BY <1>1 DEF CallOf, Core, Types
  <2>2. \A j \in Ids : /\ j \in cancelled => j \in cancelled'
                       /\ thread[j] = "joined" => thread'[j] = "joined"
    BY DEF Works
  <2>. QED
    BY <1>1, <1>2, <1>4, <2>1, <2>2 DEF CallOf, Stays, Workers, Makers, Deleters
<1>. QED
  BY <1>3, <1>4

LEMMA WorkStep ==
  ASSUME Core, Types', NEW t \in Actors, NEW i \in Ids, Works(t, i), Alone(t, SlotOf(i)),
         obj[SlotOf(i)].id \in {NONE, i}, pc[t] \notin Outside,
         i # t => \/ Stays(i)
                  \/ CallOf(i)' /\ pc'[i] \notin Workers,
         t # i => pc'[t] \in Workers \cup {"run", "hook"},
         pc'[t] \in Workers => arg'[t] = i,
         RecordOf(SlotOf(i))', CallOf(t)', ThreadOf(i)'
  PROVE  Core'
<1>. last_id \in Ids \cup {NONE} /\ last_id' \in Ids \cup {NONE} /\ last_id <= last_id'
  BY DEF Core, Types, Works
<1>1. Records'
  <2>1. SUFFICES ASSUME NEW s \in Slots \ {SlotOf(i)} PROVE RecordOf(s)'
    BY DEF Records
  <2>2. obj'[s] = obj[s] /\ impl'[s] = impl[s] /\ hook'[s] = hook[s] /\ RecordOf(s)
    BY DEF Core, Records, Works
  <2>3. CASE obj[s] = Free
    BY <2>2, <2>3 DEF RecordOf
  <2>4. CASE obj[s] # Free
    <3>1. obj[s].id \in Ids \ {i} /\ obj[s].id <= last_id
      BY <2>2, <2>4 DEF RecordOf
    <3>2. thread'[obj[s].id] = thread[obj[s].id]
      BY <3>1 DEF Works
    <3>3. obj[s].id <= last_id'
      BY <3>1, Numbers
    <3>. QED
      BY <2>2, <3>2, <3>3 DEF RecordOf
  <2>. QED
    BY <2>3, <2>4
<1>2. Calls'
  BY OtherCalls DEF Calls, Works
<1>3. Apart'
  <2>1. ASSUME NEW u \in Actors \ {t}, pc'[u] \in Workers
        PROVE  pc[u] \in Workers /\ arg'[u] = arg[u] /\ arg[u] # i
    BY <2>1 DEF Works, Stays, Alone, Slot
  <2>. QED
    BY <2>1 DEF Apart, Core
<1>4. Threads'
  <2>1. ASSUME NEW j \in Ids \ {i}, pc'[j] = pc[j] \/ j = t PROVE ThreadOf(j)'
    <3>1. ThreadOf(j) /\ thread'[j] = thread[j] /\ (j \in cancelled' <=> j \in cancelled)
      BY DEF Core, Threads, Works
    <3>2. pc'[j] = "none" <=> pc[j] = "none"
      <4>1. CASE j = t
        <5>1. pc[j] # "none"
          BY <4>1 DEF Outside
        <5>2. pc'[j] # "none"
          BY <4>1 DEF Workers, Makers, Deleters
        <5>. QED
          BY <5>1, <5>2
      <4>. QED
        BY <2>1, <4>1
    <3>3. pc'[j] \notin MainPcs /\ (pc'[j] \in Outside \/ pc[j] \notin Outside)
      <4>1. CASE j = t
        BY <4>1 DEF MainPcs, Workers, Makers, Deleters
      <4>2. CASE pc'[j] = pc[j]
        BY <3>1, <4>2 DEF ThreadOf
      <4>. QED
        BY <2>1, <4>1, <4>2
    <3>4. last_id' < j => last_id < j
      <4>1. j \in Ids \cup {NONE} /\ (last_id < j \/ j <= last_id)
        BY Less
      <4>. QED
        BY <4>1, Numbers
    <3>5. /\ obj'[SlotOf(j)].id # j => obj[SlotOf(j)].id # j
          /\ Listed(j) => Listed(j)'
      <4>1. CASE SlotOf(j) = SlotOf(i)
        BY <4>1, Numbers DEF Listed
      <4>2. CASE SlotOf(j) # SlotOf(i)
        BY <4>2, Numbers DEF Works, Listed
      <4>. QED
        BY <4>1, <4>2
    <3>. QED
      BY <3>1, <3>2, <3>3, <3>4, <3>5 DEF ThreadOf
  <2>2. ASSUME NEW j \in Ids \ {i} PROVE pc'[j] = pc[j] \/ j = t
    BY Numbers DEF Works, Stays
  <2>3. pc'[Main] \notin TaskPcs
    <3>1. CASE t = Main
      BY <3>1, Numbers DEF TaskPcs, Workers, Makers, Deleters
    <3>2. CASE t # Main
      BY <3>2, Numbers DEF Works, Stays, Core, Threads
    <3>. QED
      BY <3>1, <3>2
  <2>. QED
    BY <2>1, <2>2, <2>3 DEF Threads
<1>. QED
  BY <1>1, <1>2, <1>3, <1>4 DEF Core

ObjSts == {"free", "new", "valid", "waiting", "exclusive"}

LEMMA ObjReplaced ==
  ASSUME TypeOfObj, NEW s \in Slots,
         NEW r \in [st : ObjSts, id : Ids \cup {NONE}, users : Nat],
         obj' = [obj EXCEPT ![s] = r]
  PROVE  TypeOfObj' /\ obj'[s] = r /\ \A q \in Slots \ {s} : obj'[q] = obj[q]
  BY DEF TypeOfObj, ObjSts

Becomes(s, st, n) == obj' = [obj EXCEPT ![s].st = st, ![s].users = n]

LEMMA ObjChanges ==
  ASSUME TypeOfObj, NEW s \in Slots, NEW st \in ObjSts, NEW n \in Nat, Becomes(s, st, n)
  PROVE  /\ TypeOfObj' /\ obj'[s].st = st /\ obj'[s].id = obj[s].id /\ obj'[s].users = n
         /\ \A r \in Slots \ {s} : obj'[r] = obj[r]
<1>. DEFINE r == [st |-> st, id |-> obj[s].id, users |-> n]
<1>1. DOMAIN obj = Slots /\ obj[s] \in [st : ObjSts, id : Ids \cup {NONE}, users : Nat]
  BY DEF TypeOfObj, ObjSts
<1>2. obj' = [obj EXCEPT ![s] = r] /\ r \in [st : ObjSts, id : Ids \cup {NONE}, users : Nat]
  <2>1. obj' = [obj EXCEPT ![s] = [obj[s] EXCEPT !.st = st, !.users = n]]
    BY <1>1 DEF Becomes
  <2>2. obj' = [obj EXCEPT ![s] = obj'[s]] /\ obj'[s] = r
    BY <1>1, <2>1
  <2>. QED
    BY <1>1, <2>2
<1>3. r.st = st /\ r.id = obj[s].id /\ r.users = n
  OBVIOUS
<1>. HIDE DEF r
<1>4. TypeOfObj' /\ obj'[s] = r /\ \A q \in Slots \ {s} : obj'[q] = obj[q]
  BY <1>2, ObjReplaced
<1>. QED
  BY <1>3, <1>4

LEMMA ObjFreed ==
  ASSUME TypeOfObj, NEW s \in Slots, obj' = [obj EXCEPT ![s] = Free]
  PROVE  TypeOfObj' /\ obj'[s] = Free /\ \A q \in Slots \ {s} : obj'[q] = obj[q]
<1>1. Free \in [st : ObjSts, id : Ids \cup {NONE}, users : Nat]
  BY SMTT(30) DEF Free, ObjSts
<1>. QED
  BY <1>1, ObjReplaced

LEMMA TaskCreateCore ==
  ASSUME Least, Core, NEW t \in Actors, TaskCreate(t)
  PROVE  Core'
<1>0. PICK i \in Ids : i = Min(NextIds) /\ last_id < i /\ obj[SlotOf(i)].st = "free"
  <2>1. NextIds \in SUBSET Nat /\ NextIds \in SUBSET Ids /\ NextIds # {}
    BY TasksAssumption DEF NextIds, TaskCreate, Core, Types
  <2>2. Min(NextIds) \in NextIds
    BY <2>1 DEF Least
  <2>3. \A i \in Ids : i > last_id <=> last_id < i
    BY TasksAssumption, SMTT(30) DEF Core, Types, NONE
  <2>. QED
    BY <2>1, <2>2, <2>3 DEF NextIds
<1>. DEFINE s == SlotOf(i)
<1>1. s \in Slots /\ obj[s].st = "free" /\ last_id < i
  BY <1>0, Numbers
<1>2. obj[s] = Free /\ obj[s].id = NONE
  BY <1>1, FreeFields DEF Core, Records, RecordOf
<1>3. pc[t] = "run" /\ pc'[t] = "spawn" /\ Moved(t)
  BY GotoStep DEF Core, TaskCreate
<1>4. pc[i] = "none" /\ pc'[i] = "none" /\ t # i
  BY <1>1, <1>3, Numbers DEF Core, Threads, ThreadOf, Moved
<1>5. /\ obj' = [obj EXCEPT ![s] = [st |-> "new", id |-> i, users |-> 1]] /\ last_id' = i
      /\ hook' = [hook EXCEPT ![s] = NONE] /\ arg' = [arg EXCEPT ![t] = i]
      /\ UNCHANGED <<impl, thread, cancelled, saved, sweep, app>>
  BY <1>0 DEF TaskCreate, Allocate, host
<1>. HIDE DEF s
<1>6. /\ TypeOfObj' /\ obj'[s] = [st |-> "new", id |-> i, users |-> 1]
      /\ \A q \in Slots \ {s} : obj'[q] = obj[q]
  <2>1. [st |-> "new", id |-> i, users |-> 1] \in [st : ObjSts, id : Ids \cup {NONE}, users : Nat]
    BY <1>1, SMTT(30) DEF ObjSts
  <2>. QED
    BY <1>1, <1>5, <2>1, ObjReplaced DEF Core, Types
<1>7. obj'[s].st = "new" /\ obj'[s].id = i /\ obj'[s].users = 1
  BY <1>6, SMTT(30)
<1>8. Types'
  BY <1>1, <1>3, <1>5, <1>6 DEF Core, Types, Moved
<1>9. arg'[t] = i /\ hook'[s] = NONE /\ saved'[t] = NONE /\ s = SlotOf(i)
  <2>1. saved[t] = NONE
    BY <1>3 DEF Core, Calls, CallOf, Deleters
  <2>. QED
    BY <1>1, <1>5, <2>1 DEF Core, Types, s
<1>10. Works(t, i)
  <2>1. last_id <= last_id'
    BY <1>1, <1>5, Numbers DEF Core, Types
  <2>2. \A u \in Actors \ {t, i} : Stays(u)
    BY <1>3, <1>5 DEF Moved, Stays, Core, Types
  <2>3. \A q \in Slots \ {s} : hook'[q] = hook[q]
    BY <1>5 DEF Core, Types
  <2>. QED
    BY <1>4, <1>5, <1>6, <1>9, <2>1, <2>2, <2>3 DEF Works
<1>11. Alone(t, SlotOf(i))
  BY <1>1, <1>9, AloneIfIdle
<1>12. RecordOf(SlotOf(i))'
  <2>1. i <= last_id'
    BY <1>5, Numbers
  <2>. QED
    BY <1>7, <1>9, <2>1 DEF RecordOf
<1>13. CallOf(t)'
  BY <1>1, <1>3, <1>4, <1>7, <1>9 DEF CallOf, Has, Slot, Makers, Deleters
<1>14. ThreadOf(i)'
  <2>1. ThreadOf(i)
    BY DEF Core, Threads
  <2>2. thread'[i] = "none" /\ i \notin cancelled'
    BY <1>4, <1>5, <2>1 DEF ThreadOf
  <2>. QED
    BY <1>4, <2>2 DEF ThreadOf, Outside, MainPcs
<1>15. pc[t] \notin Outside /\ pc'[t] \in Workers
  BY <1>3 DEF Outside, Workers, Makers
<1>16. Stays(i)
  BY <1>1, <1>3, <1>4, <1>5, Numbers DEF Stays, Moved, Core, Types
<1>. QED
  BY <1>1, <1>2, <1>8, <1>9, <1>10, <1>11, <1>12, <1>13, <1>14, <1>15, <1>16, WorkStep

\* Only t moves.
LEMMA MoveWorks ==
  ASSUME Core, NEW t \in Actors, NEW i \in Ids, Moved(t), pc[t] \notin Outside,
         last_id' = last_id, impl' = impl,
         \A q \in Slots \ {SlotOf(i)} : obj'[q] = obj[q] /\ hook'[q] = hook[q],
         \A j \in Ids \ {i} : thread'[j] = thread[j] /\ (j \in cancelled' <=> j \in cancelled),
         thread[i] = "joined" => thread'[i] = "joined", i \in cancelled => i \in cancelled',
         \A u \in Actors \ {t} : arg'[u] = arg[u] /\ saved'[u] = saved[u]
  PROVE  Works(t, i) /\ (i # t => Stays(i))
<1>1. \A u \in Actors \ {t} : Stays(u)
  BY DEF Moved, Stays
<1>2. pc[i] = "ended" => pc'[i] = "ended"
  BY Numbers DEF Moved, Outside
<1>3. last_id <= last_id'
  BY Numbers DEF Core, Types
<1>. QED
  BY <1>1, <1>2, <1>3, Numbers DEF Works

\* What is known of the task that a call creates or deletes.
AtWork(t, i) ==
  /\ arg[t] = i /\ Slot(t) = SlotOf(i) /\ SlotOf(i) \in Slots
  /\ obj[SlotOf(i)].id = i /\ obj[SlotOf(i)] # Free /\ RecordOf(SlotOf(i))
  /\ CallOf(t) /\ ThreadOf(i) /\ Alone(t, SlotOf(i)) /\ ~ (last_id < i)

LEMMA WorkerKnows ==
  ASSUME Core, NEW t \in Actors, pc[t] \in Workers
  PROVE  \E i \in Ids : AtWork(t, i)
<1>1. PICK i \in Ids : i = arg[t]
  BY AloneAtWork
<1>2. arg[t] = i /\ Slot(t) = SlotOf(i) /\ SlotOf(i) \in Slots /\ obj[SlotOf(i)].id = i
  BY <1>1, AloneAtWork, Numbers DEF Slot
<1>3. obj[SlotOf(i)] # Free
  BY <1>2, FreeFields, Numbers
<1>4. RecordOf(SlotOf(i)) /\ CallOf(t) /\ ThreadOf(i)
  BY <1>2 DEF Core, Records, Calls, Threads
<1>5. i <= last_id
  BY <1>2, <1>3, <1>4 DEF RecordOf
<1>6. ~ (last_id < i)
  BY <1>5, Numbers DEF Core, Types
<1>. QED
  BY <1>2, <1>3, <1>4, <1>6, AloneAtWork DEF AtWork

LEMMA SpawnCore ==
  ASSUME Core, NEW t \in Actors, Spawn(t)
  PROVE  Core'
<1>1. pc[t] = "spawn" /\ pc[t] \in Workers
  BY DEF Spawn, Workers, Makers
<1>2. PICK i \in Ids : AtWork(t, i)
  BY <1>1, WorkerKnows
<1>. DEFINE s == SlotOf(i)
<1>3. /\ arg[t] = i /\ s \in Slots /\ Slot(t) = s /\ pc[i] = "none" /\ i # t
      /\ obj[s].st = "new" /\ obj[s].id = i
  BY <1>1, <1>2 DEF AtWork, CallOf, Has, Makers
<1>4. /\ pc' = [pc EXCEPT ![t] = "finalize", ![i] = "start"] /\ impl' = [impl EXCEPT ![s] = i]
      /\ thread' = [thread EXCEPT ![i] = "joinable"]
      /\ UNCHANGED <<obj, last_id, hook, cancelled, arg, saved, sweep, app>>
  BY <1>3 DEF Spawn, calls
<1>. HIDE DEF s
<1>5. /\ DOMAIN pc' = Actors /\ pc'[t] = "finalize" /\ pc'[i] = "start"
      /\ \A u \in Actors \ {t, i} : pc'[u] = pc[u]
  BY <1>3, <1>4, Numbers DEF Core, Types
<1>6. Types' /\ impl'[s] = i /\ thread'[i] = "joinable"
  <2>1. impl' \in [Slots -> Ids \cup {NONE}] /\ impl'[s] = i
    BY <1>3, <1>4 DEF Core, Types
  <2>2. thread' \in [Ids -> {"none", "joinable", "detached", "joined"}] /\ thread'[i] = "joinable"
    BY <1>4 DEF Core, Types
  <2>. QED
    BY <1>4, <1>5, <2>1, <2>2 DEF Core, Types, TypeOfObj
<1>7. thread[i] = "none" /\ saved[i] = NONE /\ i \in Actors
  <2>1. thread[i] = "none" /\ i \in Actors
    BY <1>2, <1>3, Numbers DEF AtWork, ThreadOf
  <2>2. CallOf(i)
    BY <2>1 DEF Core, Calls
  <2>. QED
    BY <1>3, <2>1, <2>2 DEF CallOf, Deleters
<1>8. Works(t, i)
  <2>1. \A q \in Slots \ {s} : impl'[q] = impl[q]
    BY <1>4 DEF Core, Types
  <2>2. \A j \in Ids \ {i} : thread'[j] = thread[j]
    BY <1>4 DEF Core, Types
  <2>3. last_id <= last_id'
    BY <1>4, Numbers DEF Core, Types
  <2>. QED
    BY <1>3, <1>4, <1>5, <1>7, <2>1, <2>2, <2>3 DEF Works, Stays, s
<1>9. RecordOf(SlotOf(i))'
  BY <1>2, <1>3, <1>4 DEF AtWork, RecordOf, s
<1>10. CallOf(t)'
  <2>1. Slot(t)' = s /\ Has(t, "new")' /\ saved[t] = NONE
    BY <1>1, <1>2, <1>3, <1>4 DEF AtWork, CallOf, Slot, Has, Deleters, s
  <2>. QED
    BY <1>3, <1>4, <1>5, <1>6, <2>1 DEF CallOf, Makers, Deleters
<1>11. CallOf(i)' /\ pc'[i] \notin Workers
  BY <1>4, <1>5, <1>7 DEF CallOf, Workers, Makers, Deleters
<1>12. ThreadOf(i)'
  BY <1>2, <1>3, <1>4, <1>5, <1>6 DEF AtWork, ThreadOf, Outside, MainPcs, s
<1>13. pc[t] \notin Outside /\ pc'[t] \in Workers
  BY <1>1, <1>5 DEF Outside, Workers, Makers
<1>14. Alone(t, SlotOf(i)) /\ obj[SlotOf(i)].id = i /\ arg'[t] = i
  BY <1>2, <1>4 DEF AtWork
<1>. QED
  BY <1>6, <1>8, <1>9, <1>10, <1>11, <1>12, <1>13, <1>14, WorkStep

\* OS_ObjectIdFinalizeNew, after success or failure.
LEMMA FinalizeCore ==
  ASSUME Core, NEW t \in Actors, Finalize(t) \/ SpawnFails(t)
  PROVE  Core'
<1>1. pc[t] \in {"finalize", "spawn"} /\ pc'[t] = "run" /\ Moved(t)
  BY GotoStep DEF Core, Finalize, SpawnFails
<1>2. PICK i \in Ids : AtWork(t, i)
  BY <1>1, WorkerKnows DEF Workers, Makers
<1>. DEFINE s == SlotOf(i)
<1>3. s \in Slots /\ Slot(t) = s /\ obj[s].id = i /\ arg[t] = i /\ TypeOfObj
  BY <1>2 DEF AtWork, Core, Types
<1>4. /\ arg' = [arg EXCEPT ![t] = NONE]
      /\ UNCHANGED <<last_id, impl, hook, thread, cancelled, saved, sweep, app>>
  BY DEF Finalize, SpawnFails, Forget, host
<1>5. ASSUME Finalize(t)
      PROVE  /\ TypeOfObj' /\ obj'[s].st = "valid" /\ obj'[s].id = i /\ obj'[s].users = 0
             /\ \A q \in Slots \ {s} : obj'[q] = obj[q]
  <2>1. Becomes(s, "valid", 0) /\ "valid" \in ObjSts /\ 0 \in Nat
    BY <1>3, <1>5 DEF Finalize, Created, Becomes, ObjSts
  <2>. QED
    BY <1>3, <2>1, ObjChanges
<1>6. ASSUME SpawnFails(t)
      PROVE  TypeOfObj' /\ obj'[s] = Free /\ \A q \in Slots \ {s} : obj'[q] = obj[q]
  BY <1>3, <1>6, ObjFreed DEF SpawnFails, NotCreated
<1>. HIDE DEF s
<1>7. Types' /\ arg'[t] = NONE /\ saved[t] = NONE
  <2>1. saved[t] = NONE
    BY <1>1, <1>2 DEF AtWork, CallOf, Deleters
  <2>2. arg' \in [Actors -> Ids \cup {NONE}] /\ arg'[t] = NONE
    BY <1>4 DEF Core, Types
  <2>. QED
    BY <1>1, <1>4, <1>5, <1>6, <2>1, <2>2 DEF Core, Types, Moved
<1>8. Works(t, i) /\ (i # t => Stays(i)) /\ pc[t] \notin Outside
  <2>1. \A u \in Actors \ {t} : arg'[u] = arg[u]
    BY <1>4 DEF Core, Types
  <2>2. pc[t] \notin Outside
    BY <1>1 DEF Outside
  <2>. QED
    BY <1>1, <1>4, <1>5, <1>6, <2>1, <2>2, MoveWorks DEF s
<1>9. CallOf(t)'
  BY <1>1, <1>4, <1>7 DEF CallOf, Makers, Deleters
<1>10. ASSUME Finalize(t) PROVE RecordOf(SlotOf(i))' /\ ThreadOf(i)'
  <2>1. pc[t] = "finalize" /\ impl[s] = i /\ thread[i] = "joinable" /\ pc[i] # "none"
    BY <1>2, <1>3, <1>10 DEF Finalize, Goto, AtWork, CallOf, ThreadOf
  <2>2. RecordOf(SlotOf(i))'
    BY <1>2, <1>3, <1>4, <1>5, <1>10, <2>1 DEF AtWork, RecordOf, s
  <2>3. pc'[i] \notin MainPcs /\ pc'[i] # "none"
    BY <1>1, <1>2, <2>1, Numbers DEF Moved, AtWork, ThreadOf, MainPcs
  <2>4. Listed(i)'
    BY <1>5, <1>10 DEF Listed, s
  <2>. QED
    BY <1>2, <1>4, <1>5, <1>10, <2>1, <2>2, <2>3, <2>4 DEF ThreadOf, AtWork, s
<1>11. ASSUME SpawnFails(t) PROVE RecordOf(SlotOf(i))' /\ ThreadOf(i)'
  <2>1. pc[t] = "spawn" /\ pc[i] = "none" /\ pc'[i] = "none"
    BY <1>1, <1>2, <1>11, Numbers DEF SpawnFails, Goto, AtWork, CallOf, Moved
  <2>2. RecordOf(SlotOf(i))'
    BY <1>6, <1>11 DEF RecordOf, s
  <2>3. thread[i] = "none" /\ i \notin cancelled
    BY <1>2, <2>1 DEF AtWork, ThreadOf
  <2>. QED
    BY <1>4, <2>1, <2>2, <2>3 DEF ThreadOf, Outside, MainPcs
<1>12. Alone(t, SlotOf(i)) /\ obj[SlotOf(i)].id = i
  BY <1>2 DEF AtWork
<1>13. pc'[t] \notin Workers
  BY <1>1 DEF Workers, Makers, Deleters
<1>. QED
  BY <1>1, <1>7, <1>8, <1>9, <1>10, <1>11, <1>12, <1>13, WorkStep

\* A lookup has found task i.
Found(i) ==
  /\ SlotOf(i) \in Slots /\ obj[SlotOf(i)].id = i /\ obj[SlotOf(i)].st = "valid"
  /\ obj[SlotOf(i)].users = 0 /\ RecordOf(SlotOf(i)) /\ ThreadOf(i) /\ i <= last_id /\ ~ (last_id < i)
  /\ impl[SlotOf(i)] = i /\ thread[i] = "joinable" /\ hook[SlotOf(i)] \in {NONE, i}
  /\ \A t \in Actors : Alone(t, SlotOf(i))

LEMMA ValidFound ==
  ASSUME Core, NEW i \in Ids, Valid(i)
  PROVE  Found(i)
<1>1. SlotOf(i) \in Slots /\ obj[SlotOf(i)].id = i /\ obj[SlotOf(i)].st = "valid"
  BY Numbers DEF Valid
<1>2. RecordOf(SlotOf(i)) /\ ThreadOf(i) /\ obj[SlotOf(i)] # Free
  BY <1>1, FreeFields DEF Core, Records, Threads
<1>3. /\ obj[SlotOf(i)].users = 0 /\ impl[SlotOf(i)] = i /\ thread[i] = "joinable"
      /\ hook[SlotOf(i)] \in {NONE, i} /\ i <= last_id
  BY <1>1, <1>2 DEF RecordOf
<1>4. ~ (last_id < i)
  BY <1>3, Numbers DEF Core, Types
<1>. QED
  BY <1>1, <1>2, <1>3, <1>4, AloneIfIdle DEF Found

LEMMA InstallCore ==
  ASSUME Core, NEW t \in Actors, InstallDeleteHandler(t)
  PROVE  Core'
<1>1. t \in Ids /\ pc[t] = "run" /\ Valid(t)
  BY Numbers DEF InstallDeleteHandler
<1>2. Found(t)
  BY <1>1, ValidFound
<1>3. /\ hook' = [hook EXCEPT ![SlotOf(t)] = t]
      /\ UNCHANGED <<obj, last_id, impl, thread, cancelled, arg, saved, sweep, pc, app>>
  BY DEF InstallDeleteHandler, host, calls
<1>4. Types' /\ hook'[SlotOf(t)] = t
  <2>1. hook' \in [Slots -> Ids \cup {NONE}] /\ hook'[SlotOf(t)] = t
    BY <1>1, <1>2, <1>3 DEF Found, Core, Types
  <2>. QED
    BY <1>3, <2>1 DEF Core, Types, TypeOfObj
<1>5. Works(t, t) /\ pc[t] \notin Outside
  <2>1. Moved(t) /\ pc[t] \notin Outside
    BY <1>1, <1>3 DEF Moved, Outside, Core, Types
  <2>2. \A q \in Slots \ {SlotOf(t)} : hook'[q] = hook[q]
    BY <1>3 DEF Core, Types
  <2>. QED
    BY <1>1, <1>3, <2>1, <2>2, MoveWorks
<1>6. RecordOf(SlotOf(t))'
  BY <1>2, <1>3, <1>4 DEF Found, RecordOf
<1>7. CallOf(t)' /\ ThreadOf(t)'
  <2>1. CallOf(t) /\ saved[t] = NONE
    BY <1>1 DEF Core, Calls, CallOf, Deleters
  <2>2. CallOf(t)'
    BY <1>1, <1>3, <2>1 DEF CallOf, Makers, Deleters
  <2>. QED
    BY <1>2, <1>3, <2>2 DEF Found, ThreadOf, Listed
<1>8. pc'[t] \notin Workers
  BY <1>1, <1>3 DEF Workers, Makers, Deleters
<1>9. Alone(t, SlotOf(t)) /\ obj[SlotOf(t)].id = t
  BY <1>2 DEF Found
<1>. QED
  BY <1>1, <1>4, <1>5, <1>6, <1>7, <1>8, <1>9, WorkStep

LEMMA TaskExitCore ==
  ASSUME Core, NEW t \in Actors, TaskExit(t)
  PROVE  Core'
<1>1. pc[t] = "exit" /\ pc'[t] = "ending" /\ Moved(t)
  BY GotoStep DEF Core, TaskExit
<1>2. t \in Ids
  BY <1>1, TaskThread DEF TaskPcs
<1>3. Found(t)
  BY <1>2, ValidFound DEF TaskExit
<1>. DEFINE s == SlotOf(t)
<1>4. /\ thread' = [thread EXCEPT ![t] = "detached"] /\ obj' = [obj EXCEPT ![s] = Free]
      /\ UNCHANGED <<last_id, impl, hook, cancelled, arg, saved, sweep, app>>
  BY <1>3 DEF TaskExit, Found
<1>5. TypeOfObj' /\ obj'[s] = Free /\ \A q \in Slots \ {s} : obj'[q] = obj[q]
  BY <1>3, <1>4, ObjFreed DEF Found, Core, Types
<1>. HIDE DEF s
<1>6. Types' /\ thread'[t] = "detached"
  <2>1. thread' \in [Ids -> {"none", "joinable", "detached", "joined"}] /\ thread'[t] = "detached"
    BY <1>2, <1>4 DEF Core, Types
  <2>. QED
    BY <1>1, <1>4, <1>5, <2>1 DEF Core, Types, Moved
<1>7. Works(t, t) /\ pc[t] \notin Outside
  <2>1. pc[t] \notin Outside
    BY <1>1 DEF Outside
  <2>2. \A j \in Ids \ {t} : thread'[j] = thread[j]
    BY <1>4 DEF Core, Types
  <2>3. thread[t] # "joined"
    BY <1>3 DEF Found
  <2>. QED
    BY <1>1, <1>2, <1>4, <1>5, <2>1, <2>2, <2>3, MoveWorks DEF s
<1>8. RecordOf(SlotOf(t))'
  BY <1>5 DEF RecordOf, s
<1>9. CallOf(t)'
  <2>1. saved[t] = NONE
    BY <1>1 DEF Core, Calls, CallOf, Deleters
  <2>. QED
    BY <1>1, <1>4, <2>1 DEF CallOf, Makers, Deleters
<1>10. ThreadOf(t)'
  BY <1>1, <1>3, <1>4, <1>6 DEF Found, ThreadOf, Outside, MainPcs
<1>11. pc'[t] \notin Workers
  BY <1>1 DEF Workers, Makers, Deleters
<1>12. Alone(t, SlotOf(t)) /\ obj[SlotOf(t)].id = t
  BY <1>3 DEF Found
<1>. QED
  BY <1>2, <1>6, <1>7, <1>8, <1>9, <1>10, <1>11, <1>12, WorkStep

LEMMA DeleteReserveCore ==
  ASSUME Core, NEW t \in Actors, DeleteReserve(t)
  PROVE  Core'
<1>1. pc[t] = "delete" /\ pc'[t] = "cancel" /\ Moved(t)
  BY GotoStep DEF Core, DeleteReserve
<1>2. PICK i \in Ids : i = arg[t]
  BY <1>1 DEF Core, Calls, CallOf
<1>. DEFINE s == SlotOf(i)
<1>3. Found(i)
  BY <1>2, ValidFound DEF DeleteReserve, Reserve
<1>4. /\ saved' = [saved EXCEPT ![t] = hook[s]] /\ Becomes(s, "exclusive", 1)
      /\ UNCHANGED <<last_id, impl, hook, thread, cancelled, arg, sweep, app>>
  BY <1>2, <1>3 DEF DeleteReserve, Reserve, Found, Becomes, host, Slot
<1>5. /\ TypeOfObj' /\ obj'[s].st = "exclusive" /\ obj'[s].id = i /\ obj'[s].users = 1
      /\ \A q \in Slots \ {s} : obj'[q] = obj[q]
  <2>1. "exclusive" \in ObjSts /\ 1 \in Nat
    BY SMTT(30) DEF ObjSts
  <2>2. TypeOfObj /\ s \in Slots /\ obj[s].id = i /\ Becomes(s, "exclusive", 1)
    BY <1>3, <1>4 DEF Found, Core, Types
  <2>. HIDE DEF s
  <2>. QED
    BY <2>1, <2>2, ObjChanges
<1>. HIDE DEF s
<1>6. Types' /\ saved'[t] \in {NONE, i}
  <2>1. hook[s] \in {NONE, i}
    BY <1>3 DEF Found, s
  <2>2. saved' \in [Actors -> Ids \cup {NONE}] /\ saved'[t] = hook[s]
    BY <1>4, <2>1 DEF Core, Types
  <2>. QED
    BY <1>1, <1>4, <1>5, <2>1, <2>2 DEF Core, Types, Moved
<1>7. Works(t, i) /\ (i # t => Stays(i)) /\ pc[t] \notin Outside
  <2>1. pc[t] \notin Outside
    BY <1>1 DEF Outside
  <2>2. \A u \in Actors \ {t} : saved'[u] = saved[u]
    BY <1>4 DEF Core, Types
  <2>. QED
    BY <1>1, <1>4, <1>5, <2>1, <2>2, MoveWorks DEF s
<1>8. RecordOf(SlotOf(i))'
  <2>1. i <= last_id' /\ hook'[s] \in {NONE, i}
    BY <1>3, <1>4 DEF Found, s
  <2>. QED
    BY <1>5, <2>1 DEF RecordOf, s
<1>9. CallOf(t)'
  <2>1. Slot(t)' = s /\ arg'[t] = i /\ Has(t, "exclusive")'
    BY <1>2, <1>4, <1>5 DEF Has, Slot, s
  <2>2. impl'[s] = i /\ thread'[i] = "joinable"
    BY <1>3, <1>4 DEF Found, s
  <2>. QED
    BY <1>1, <1>6, <2>1, <2>2 DEF CallOf, Makers, Deleters
<1>10. ThreadOf(i)'
  <2>1. Listed(i)'
    BY <1>5 DEF Listed, s
  <2>2. pc'[i] \notin MainPcs /\ pc'[i] # "none" /\ pc[i] # "none"
    BY <1>1, <1>3, Numbers DEF Found, ThreadOf, Moved, MainPcs
  <2>. QED
    BY <1>3, <1>4, <1>5, <2>1, <2>2 DEF Found, ThreadOf, s
<1>11. pc'[t] \in Workers /\ arg'[t] = i
  BY <1>1, <1>2, <1>4 DEF Workers, Deleters
<1>12. Alone(t, SlotOf(i)) /\ obj[SlotOf(i)].id = i
  BY <1>3 DEF Found
<1>. QED
  BY <1>6, <1>7, <1>8, <1>9, <1>10, <1>11, <1>12, WorkStep

\* pthread_cancel and pthread_join.
LEMMA CancelJoinCore ==
  ASSUME Core, NEW t \in Actors, Cancel(t) \/ Join(t)
  PROVE  Core'
<1>1. /\ Moved(t) /\ pc[t] \in {"cancel", "join"} /\ pc'[t] \in {"join", "free"}
      /\ Cancel(t) => pc'[t] = "join"
      /\ Join(t) => pc[t] = "join"
  BY GotoStep DEF Core, Cancel, Join
<1>2. PICK i \in Ids : AtWork(t, i)
  BY <1>1, WorkerKnows DEF Workers, Deleters
<1>. DEFINE s == SlotOf(i)
<1>3. /\ arg[t] = i /\ s \in Slots /\ Slot(t) = s /\ impl[s] = i
      /\ thread[i] = "joinable" /\ obj[s].st = "exclusive" /\ obj[s].id = i
  BY <1>1, <1>2 DEF AtWork, CallOf, Has, Deleters
<1>4. UNCHANGED <<obj, last_id, impl, hook, arg, saved, sweep, app>>
  BY DEF Cancel, Join, table, calls
<1>5. ASSUME Cancel(t)
      PROVE  thread' = thread /\ cancelled' = cancelled \cup {i}
  BY <1>3, <1>5 DEF Cancel
<1>6. ASSUME Join(t)
      PROVE  /\ cancelled' = cancelled /\ i \in cancelled /\ pc'[t] = "free"
             /\ i = t \/ pc[i] = "ended"
             /\ thread' = IF i = t THEN thread ELSE [thread EXCEPT ![i] = "joined"]
  <2>1. i \in cancelled
    BY <1>1, <1>2, <1>6 DEF AtWork, CallOf
  <2>2. pc'[t] = "free"
    BY <1>6, GotoStep DEF Join, Core
  <2>. QED
    BY <1>3, <1>6, <2>1, <2>2 DEF Join
<1>. HIDE DEF s
<1>7. /\ cancelled' \subseteq Ids /\ i \in cancelled' /\ thread'[i] \in {"joinable", "joined"}
      /\ \A j \in Ids \ {i} : thread'[j] = thread[j] /\ (j \in cancelled' <=> j \in cancelled)
      /\ thread' \in [Ids -> {"none", "joinable", "detached", "joined"}]
  <2>1. CASE Cancel(t)
    BY <1>3, <1>5, <2>1 DEF Core, Types
  <2>2. CASE Join(t)
    BY <1>3, <1>6, <2>2 DEF Core, Types
  <2>. QED
    BY <2>1, <2>2
<1>8. Types'
  BY <1>1, <1>4, <1>7 DEF Core, Types, Moved, TypeOfObj
<1>9. Works(t, i) /\ (i # t => Stays(i)) /\ pc[t] \notin Outside
  <2>1. pc[t] \notin Outside /\ thread[i] # "joined"
    BY <1>1, <1>3 DEF Outside
  <2>. QED
    BY <1>1, <1>4, <1>7, <2>1, MoveWorks
<1>10. RecordOf(SlotOf(i))'
  BY <1>2, <1>3, <1>4 DEF AtWork, RecordOf, s
<1>11. CallOf(t)'
  <2>1. Slot(t)' = s /\ arg'[t] = i /\ Has(t, "exclusive")' /\ impl'[s] = i
    BY <1>3, <1>4 DEF Has, Slot
  <2>2. saved'[t] # NONE => saved'[t] = i
    BY <1>2, <1>3, <1>4 DEF AtWork, CallOf
  <2>3. CASE Cancel(t)
    BY <1>1, <1>3, <1>5, <1>7, <2>1, <2>2, <2>3 DEF CallOf, Makers, Deleters
  <2>4. CASE Join(t)
    <3>1. i # t => pc'[i] = "ended" /\ thread'[i] = "joined"
      <4>1. i # t => thread' = [thread EXCEPT ![i] = "joined"] /\ pc[i] = "ended"
        BY <1>6, <2>4
      <4>2. i # t => pc'[i] = pc[i]
        BY <1>1, Numbers DEF Moved
      <4>. QED
        BY <4>1, <4>2 DEF Core, Types
    <3>. QED
      BY <1>6, <1>7, <2>1, <2>2, <2>4, <3>1 DEF CallOf, Makers, Deleters
  <2>. QED
    BY <2>3, <2>4
<1>12. ThreadOf(i)'
  <2>1. pc[i] # "none" /\ pc[i] \notin MainPcs
    BY <1>2, <1>3 DEF AtWork, ThreadOf
  <2>2. pc'[i] # "none" /\ pc'[i] \notin MainPcs
    BY <1>1, <2>1, Numbers DEF Moved, MainPcs
  <2>. QED
    BY <1>2, <1>4, <1>7, <2>2 DEF AtWork, ThreadOf
<1>13. pc'[t] \in Workers /\ arg'[t] = i
  BY <1>1, <1>3, <1>4 DEF Workers, Deleters
<1>14. Alone(t, SlotOf(i)) /\ obj[SlotOf(i)].id = i
  BY <1>2 DEF AtWork
<1>. QED
  BY <1>8, <1>9, <1>10, <1>11, <1>12, <1>13, <1>14, WorkStep

LEMMA DeleteFinalizeCore ==
  ASSUME Core, NEW t \in Actors, DeleteFinalize(t)
  PROVE  Core'
<1>1. pc[t] = "free" /\ pc'[t] = "hook" /\ Moved(t)
  BY GotoStep DEF Core, DeleteFinalize
<1>2. PICK i \in Ids : AtWork(t, i)
  BY <1>1, WorkerKnows DEF Workers, Deleters
<1>. DEFINE s == SlotOf(i)
<1>3. s \in Slots /\ Slot(t) = s /\ arg[t] = i /\ i \in cancelled
  BY <1>1, <1>2 DEF AtWork, CallOf
<1>4. /\ obj' = [obj EXCEPT ![s] = Free]
      /\ UNCHANGED <<last_id, impl, hook, thread, cancelled, arg, saved, sweep, app>>
  BY <1>3 DEF DeleteFinalize, Deleted, host, calls
<1>5. TypeOfObj' /\ obj'[s] = Free /\ \A q \in Slots \ {s} : obj'[q] = obj[q]
  BY <1>3, <1>4, ObjFreed DEF Core, Types
<1>. HIDE DEF s
<1>6. Types'
  BY <1>1, <1>4, <1>5 DEF Core, Types, Moved
<1>7. Works(t, i) /\ (i # t => Stays(i)) /\ pc[t] \notin Outside
  <2>1. pc[t] \notin Outside
    BY <1>1 DEF Outside
  <2>. QED
    BY <1>1, <1>4, <1>5, <2>1, MoveWorks DEF s
<1>8. RecordOf(SlotOf(i))'
  BY <1>5 DEF RecordOf, s
<1>9. CallOf(t)'
  <2>1. i # t => pc'[i] = "ended" /\ thread'[i] = "joined"
    BY <1>1, <1>2, <1>3, <1>4, Numbers DEF AtWork, CallOf, Moved
  <2>2. saved'[t] # NONE => saved'[t] = i
    BY <1>2, <1>3, <1>4 DEF AtWork, CallOf
  <2>. QED
    BY <1>1, <1>3, <1>4, <2>1, <2>2 DEF CallOf, Makers, Deleters
<1>10. ThreadOf(i)'
  <2>1. pc'[i] \notin MainPcs /\ pc'[i] # "none" /\ thread[i] # "none"
    BY <1>1, <1>2, <1>3, Numbers DEF Moved, AtWork, ThreadOf, MainPcs
  <2>. QED
    BY <1>2, <1>3, <1>4, <2>1 DEF AtWork, ThreadOf
<1>11. pc'[t] \notin Workers
  BY <1>1 DEF Workers, Makers, Deleters
<1>12. Alone(t, SlotOf(i)) /\ obj[SlotOf(i)].id = i
  BY <1>2 DEF AtWork
<1>. QED
  BY <1>1, <1>6, <1>7, <1>8, <1>9, <1>10, <1>11, <1>12, WorkStep

-----------------------------------------------------------------------------
LEMMA CoreStep ==
  ASSUME Least, Core, [Next]_vars
  PROVE  Core'
<1>1. ASSUME NEW t \in Actors, UserCall(t) PROVE Core'
  BY <1>1, TaskCreateCore, InstallCore, EndCore, CallDeleteCore, SyncCore DEF UserCall
<1>2. ASSUME NEW t \in Actors, Step(t) PROVE Core'
  BY <1>2, RetryCore, SpawnCore, FinalizeCore, PrepareCore, TaskExitCore, EndCore,
     DeleteReserveCore, DeleteReturnsCore, CancelJoinCore, DeleteFinalizeCore, SyncCore
  DEF Step
<1>3. ASSUME UNCHANGED vars PROVE Core'
  <2>1. UNCHANGED <<table, host, arg, saved, sweep, app, pc>>
    BY <1>3 DEF vars, calls
  <2>2. Types'
    BY <2>1, TypesStep DEF Core, Types
  <2>3. \A u \in Actors : Stays(u)
    BY <2>1 DEF Stays
  <2>. QED
    BY <2>1, <2>2, <2>3, StaysKeeps, PcStep
<1>. QED
  BY <1>1, <1>2, <1>3, ActOnCancelCore, SweepCore DEF Next

LEMMA CoreInit == Init => Core
<1>. SUFFICES ASSUME Init PROVE Core
  OBVIOUS
<1>1. /\ obj = [s \in Slots |-> Free] /\ DOMAIN pc = Actors
      /\ \A i \in Ids : pc[i] = "none"
      /\ pc[Main] \in {"setup", "run"}
  BY Numbers DEF Init, InitObj
<1>2. Types
  <2>1. TypeOfObj
    <3>1. Free \in [st : ObjSts, id : Ids \cup {NONE}, users : Nat]
      BY SMTT(30) DEF Free, ObjSts
    <3>. QED
      BY <1>1, <3>1 DEF TypeOfObj, ObjSts
  <2>2. NoSweep \in Sweeps
    BY TasksAssumption, SMTT(30) DEF NoSweep, Sweeps
  <2>. QED
    BY <1>1, <2>1, <2>2 DEF Types, Init
<1>3. Records
  BY <1>1 DEF Records, RecordOf
<1>4. \A t \in Actors : pc[t] \in {"none", "setup", "run"}
  BY <1>1, Numbers
<1>5. Calls
  BY <1>4 DEF Calls, CallOf, Makers, Deleters, Init
<1>6. Apart
  BY <1>4 DEF Apart, Workers, Makers, Deleters
<1>7. Threads
  BY <1>1 DEF Threads, ThreadOf, Outside, MainPcs, TaskPcs, Init
<1>. QED
  BY <1>2, <1>3, <1>5, <1>6, <1>7 DEF Core

-----------------------------------------------------------------------------
(* Where the threads go, in the steps that have nothing to do with Sync.   *)

TaskMoves(t) ==
  \/ TaskCreate(t) \/ InstallDeleteHandler(t) \/ CallExit(t) \/ CallDelete(t)
  \/ Retry(t) \/ Spawn(t) \/ SpawnFails(t) \/ Finalize(t)
  \/ TaskPrepare(t) \/ PrepareFails(t) \/ TaskExit(t) \/ ExitFails(t) \/ TaskEnd(t)
  \/ DeleteReserve(t) \/ DeleteFails(t) \/ Cancel(t) \/ Join(t)
  \/ DeleteFinalize(t) \/ DeleteHook(t)

Deleting == Deleters \cup {"delete", "hook"}
Moving == Workers \cup {"run", "start", "exit", "ending", "ended", "delete", "hook"}

\* From p to q, by thread t.
Way(t, p, q) ==
  /\ p \in Moving \ {"ended"} /\ q \in Moving \cup {Back(t)}
  /\ p \in Deleting => q \in Deleting \cup {Back(t)}

LEMMA TaskMovesWay ==
  ASSUME Core, NEW t \in Actors, TaskMoves(t)
  PROVE  /\ UNCHANGED <<kind, depth, active_id, sweep, app>> /\ DOMAIN pc' = Actors
         /\ Way(t, pc[t], pc'[t])
         /\ \A u \in Actors \ {t} : pc'[u] = pc[u] \/ (u \in Ids /\ pc[u] = "none" /\ pc'[u] = "start")
<1>. DEFINE Plain == /\ UNCHANGED <<kind, depth, active_id, sweep, app>>
                     /\ \E p, q : Goto(t, p, q) /\ Way(t, p, q)
<1>1. /\ Moving = {"spawn", "finalize", "cancel", "join", "free", "run", "start", "exit",
                   "ending", "ended", "delete", "hook"}
      /\ Deleting = {"cancel", "join", "free", "delete", "hook"}
  BY DEF Moving, Deleting, Workers, Makers, Deleters
<1>2. ASSUME TaskCreate(t) PROVE Plain
  <2>1. Way(t, "run", "spawn")
    BY <1>1 DEF Way
  <2>. QED
    BY <1>2, <2>1 DEF TaskCreate, object
<1>3. ASSUME CallExit(t) \/ CallDelete(t) PROVE Plain
  <2>1. Way(t, "run", "exit") /\ Way(t, "run", "delete")
    BY <1>1 DEF Way
  <2>. QED
    BY <1>3, <2>1 DEF CallExit, CallDelete, object, calls
<1>4. ASSUME SpawnFails(t) \/ Finalize(t) PROVE Plain
  <2>1. Way(t, "spawn", "run") /\ Way(t, "finalize", "run")
    BY <1>1 DEF Way
  <2>. QED
    BY <1>4, <2>1 DEF SpawnFails, Finalize, object
<1>5. ASSUME TaskPrepare(t) \/ PrepareFails(t) PROVE Plain
  <2>1. Way(t, "start", "run") /\ Way(t, "start", "exit") /\ Way(t, "start", "ending")
    BY <1>1 DEF Way
  <2>. QED
    BY <1>5, <2>1 DEF TaskPrepare, PrepareFails, object
<1>6. ASSUME TaskExit(t) \/ ExitFails(t) \/ TaskEnd(t) PROVE Plain
  <2>1. Way(t, "exit", "ending") /\ Way(t, "ending", "ended")
    BY <1>1 DEF Way
  <2>. QED
    BY <1>6, <2>1 DEF TaskExit, ExitFails, TaskEnd, object, calls
<1>7. ASSUME DeleteReserve(t) \/ DeleteFails(t) PROVE Plain
  <2>1. Way(t, "delete", "cancel") /\ Way(t, "delete", Back(t))
    BY <1>1 DEF Way
  <2>. QED
    BY <1>7, <2>1 DEF DeleteReserve, DeleteFails, object
<1>8. ASSUME Cancel(t) \/ Join(t) \/ DeleteFinalize(t) \/ DeleteHook(t) PROVE Plain
  <2>1. /\ Way(t, "cancel", "join") /\ Way(t, "join", "free")
        /\ Way(t, "free", "hook") /\ Way(t, "hook", Back(t))
    BY <1>1 DEF Way
  <2>. QED
    BY <1>8, <2>1 DEF Cancel, Join, DeleteFinalize, DeleteHook, object, calls
<1>9. ASSUME Plain
      PROVE  /\ UNCHANGED <<kind, depth, active_id, sweep, app>> /\ DOMAIN pc' = Actors
             /\ Way(t, pc[t], pc'[t])
             /\ \A u \in Actors \ {t} : pc'[u] = pc[u] \/ (u \in Ids /\ pc[u] = "none" /\ pc'[u] = "start")
  BY <1>9, GotoStep DEF Core, Moved
<1>. HIDE DEF Plain
<1>10. ASSUME InstallDeleteHandler(t) \/ Retry(t)
       PROVE  /\ UNCHANGED <<kind, depth, active_id, sweep, app, pc>>
              /\ pc[t] \in {"run", "start", "delete", "exit"}
  BY <1>10 DEF InstallDeleteHandler, Retry, LookupPcs, object, calls
<1>11. ASSUME InstallDeleteHandler(t) \/ Retry(t) PROVE Way(t, pc[t], pc'[t])
  BY <1>1, <1>10, <1>11 DEF Way
<1>12. ASSUME Spawn(t)
       PROVE  /\ UNCHANGED <<kind, depth, active_id, sweep, app>> /\ DOMAIN pc' = Actors
              /\ pc[t] = "spawn" /\ pc'[t] = "finalize"
              /\ \A u \in Actors \ {t} : pc'[u] = pc[u] \/ (u \in Ids /\ pc[u] = "none" /\ pc'[u] = "start")
  <2>1. pc[t] = "spawn" /\ arg[t] \in Ids /\ pc[arg[t]] = "none"
    BY <1>12 DEF Spawn, Core, Calls, CallOf, Has, Makers
  <2>. QED
    BY <1>12, <2>1, Numbers DEF Spawn, object, calls, Core, Types
<1>13. Way(t, "spawn", "finalize")
  BY <1>1 DEF Way
<1>. QED
  BY <1>2, <1>3, <1>4, <1>5, <1>6, <1>7, <1>8, <1>9, <1>10, <1>11, <1>12, <1>13
  DEF TaskMoves, Core, Types

WaitMoves(t) == ActOnCancel(t) \/ CancelRelocked(t) \/ CondVarReleaseMutex(t)

LEMMA WaitMovesWay ==
  ASSUME Core, NEW t \in Actors, WaitMoves(t)
  PROVE  /\ t \in Ids /\ Moved(t) /\ Frame /\ UNCHANGED <<kind, active_id>>
         /\ \/ pc[t] = "cleanup" /\ pc'[t] = "ended" /\ depth' = [depth EXCEPT ![t] = 0]
            \/ pc[t] = "cancel_relock" /\ pc'[t] = "cleanup" /\ depth' = [depth EXCEPT ![t] = 1]
            \/ /\ pc[t] \in {"cond_wait", "cond_timed"} /\ pc'[t] = "cancel_relock"
               /\ depth' = depth
            \/ pc[t] \notin {"cond_wait", "cond_timed"} /\ pc'[t] = "ended" /\ depth' = depth
<1>1. ASSUME CancelRelocked(t)
      PROVE  /\ Goto(t, "cancel_relock", "cleanup") /\ depth' = [depth EXCEPT ![t] = 1]
             /\ Frame /\ UNCHANGED <<kind, active_id>>
  BY <1>1 DEF CancelRelocked, Frame, calls
<1>2. ASSUME CondVarReleaseMutex(t)
      PROVE  /\ Goto(t, "cleanup", "ended") /\ depth' = [depth EXCEPT ![t] = 0]
             /\ Frame /\ UNCHANGED <<kind, active_id>>
  BY <1>2 DEF CondVarReleaseMutex, Frame, calls
<1>3. ASSUME ActOnCancel(t)
      PROVE  /\ Frame /\ UNCHANGED <<kind, active_id, depth>> /\ t \in Ids
             /\ Goto(t, pc[t], IF t \in Waiters THEN "cancel_relock" ELSE "ended")
  BY <1>3 DEF ActOnCancel, Frame, calls, object, Core, Types
<1>4. CASE CancelRelocked(t)
  <2>1. pc[t] = "cancel_relock" /\ pc'[t] = "cleanup" /\ Moved(t)
    BY <1>1, <1>4, GotoStep DEF Core
  <2>. QED
    BY <1>1, <1>4, <2>1, TaskThread DEF TaskPcs
<1>5. CASE CondVarReleaseMutex(t)
  <2>1. pc[t] = "cleanup" /\ pc'[t] = "ended" /\ Moved(t)
    BY <1>2, <1>5, GotoStep DEF Core
  <2>. QED
    BY <1>2, <1>5, <2>1, TaskThread DEF TaskPcs
<1>6. CASE ActOnCancel(t)
  <2>1. Moved(t) /\ pc'[t] = IF t \in Waiters THEN "cancel_relock" ELSE "ended"
    BY <1>3, <1>6 DEF Core, Types, Goto, Moved
  <2>. QED
    BY <1>3, <1>6, <2>1 DEF Waiters
<1>. QED
  BY <1>4, <1>5, <1>6 DEF WaitMoves

SyncMoves(t) ==
  /\ SyncCall(t) \/ SyncSetup(t) \/ SyncStep(t) \/ Interrupted(t)
  /\ UNCHANGED <<table, host, calls, app>>

LEMMA SetupWay ==
  ASSUME Core, NEW t \in Actors, SyncSetup(t)
  PROVE  /\ t = Main /\ Moved(t) /\ UNCHANGED <<kind, depth>>
         /\ \/ /\ pc[t] = "setup" /\ pc'[t] = "make"
               /\ active_id = "free" /\ active_id' = "reserved"
            \/ pc[t] = "make" /\ pc'[t] = "run"
<1>1. /\ UNCHANGED <<kind, depth>>
      /\ \/ /\ Goto(t, "setup", "make")
            /\ active_id = "free" /\ active_id' = "reserved"
         \/ Goto(t, "make", "run")
  BY DEF SyncSetup, SyncCreate, MutSemCreate, CondVarCreate, RwLockCreate, QueueCreate,
     CountSemCreate, MakeFails, Made
<1>2. /\ Moved(t)
      /\ \/ /\ pc[t] = "setup" /\ pc'[t] = "make"
            /\ active_id = "free" /\ active_id' = "reserved"
         \/ pc[t] = "make" /\ pc'[t] = "run"
  BY <1>1, GotoStep DEF Core
<1>. QED
  BY <1>1, <1>2, MainThread DEF MainPcs

LEMMA NextMoves ==
  ASSUME Next
  PROVE  \/ \E t \in Actors : TaskMoves(t) \/ WaitMoves(t) \/ SyncMoves(t)
         \/ DeleteAllObjects \/ Sweep
  BY DEF Next, UserCall, Step, TaskMoves, WaitMoves, SyncMoves

LEMMA SweepWay ==
  ASSUME Core, DeleteAllObjects \/ Sweep
  PROVE  /\ Moved(Main) /\ UNCHANGED <<kind, depth>>
         /\ pc[Main] \in {"run"} \cup SweepPcs
         /\ pc'[Main] \in {"delete", "done"} \cup SweepPcs
<1>1. Main \in Actors
  BY Numbers
<1>2. UNCHANGED <<kind, depth>>
  BY DEF DeleteAllObjects, Sweep, SweepTask, SweepTasksEnd, SweepObject, SweepEnd, Destroy,
     SyncDelete, MutSemDelete, CondVarDelete, CountSemDelete, QueueDelete, Destroyed, object
<1>3. \E p \in {"run"} \cup SweepPcs, q \in {"delete", "done"} \cup SweepPcs : Goto(Main, p, q)
  <2>1. CASE DeleteAllObjects
    BY <2>1 DEF DeleteAllObjects, SweepPcs
  <2>2. CASE SweepTask \/ SweepTasksEnd
    BY <2>2 DEF SweepTask, SweepTasksEnd, SweepPcs
  <2>3. CASE SweepObject \/ SweepEnd
    BY <2>3 DEF SweepObject, SweepEnd, SweepPcs
  <2>4. CASE Destroy
    BY <2>4 DEF Destroy, SyncDelete, MutSemDelete, CondVarDelete, CountSemDelete, QueueDelete,
       Destroyed, SweepPcs
  <2>. QED
    BY <2>1, <2>2, <2>3, <2>4 DEF Sweep
<1>. QED
  BY <1>1, <1>2, <1>3, GotoStep DEF Core

-----------------------------------------------------------------------------
(* Only locks are held, and waited for.                                    *)

LEMMA KindsFrame ==
  ASSUME Kinds, UNCHANGED <<kind, depth>>,
         \A u \in Actors : pc'[u] = pc[u] \/ Suits(pc'[u])
  PROVE  Kinds'
  BY DEF Kinds, Suits, Lockless

LEMMA KindsStep ==
  ASSUME Core, Kinds, [Next]_vars
  PROVE  Kinds'
<1>1. /\ \A p \in Moving \cup {"make", "sweep", "sweep_object", "destroy", "sweep_end", "done"} :
           Suits(p)
      /\ \A t \in Actors : Suits(Back(t))
  BY DEF Suits, LockingPcs, Moving, Workers, Makers, Deleters, Back
<1>2. ASSUME NEW t \in Actors, TaskMoves(t) PROVE Kinds'
  <2>1. \A u \in Actors : pc'[u] = pc[u] \/ pc'[u] \in Moving \cup {Back(t)}
    BY <1>2, TaskMovesWay DEF Way, Moving
  <2>. QED
    BY <1>1, <1>2, <2>1, TaskMovesWay, KindsFrame
<1>3. ASSUME NEW t \in Actors, WaitMoves(t) PROVE Kinds'
  <2>1. Moved(t) /\ kind' = kind /\ Suits("ended")
    BY <1>1, <1>3, WaitMovesWay DEF Moving
  <2>2. ASSUME pc'[t] = "ended", depth' = depth PROVE Kinds'
    BY <2>1, <2>2, KindsFrame DEF Moved
  <2>3. ASSUME pc'[t] = "ended", depth' = [depth EXCEPT ![t] = 0] PROVE Kinds'
    BY <2>1, <2>3 DEF Kinds, Moved, Suits, Lockless
  <2>4. ASSUME pc[t] \in {"cond_wait", "cond_timed"}, pc'[t] = "cancel_relock", depth' = depth
        PROVE  Kinds'
    <3>1. Suits("cancel_relock")
      BY <2>4 DEF Kinds, Suits, LockingPcs
    <3>. QED
      BY <2>1, <2>4, <3>1, KindsFrame DEF Moved
  <2>5. ASSUME pc[t] = "cancel_relock", pc'[t] = "cleanup", depth' = [depth EXCEPT ![t] = 1]
        PROVE  Kinds'
    <3>1. ~ Lockless /\ Suits("cleanup")
      BY <2>5 DEF Kinds, Suits, LockingPcs
    <3>. QED
      BY <2>1, <2>5, <3>1 DEF Kinds, Moved, Suits, Lockless
  <2>. QED
    BY <1>3, <2>2, <2>3, <2>4, <2>5, WaitMovesWay
<1>4. ASSUME NEW t \in Actors, SyncMoves(t) PROVE Kinds'
  <2>1. CASE SyncCall(t)
    BY <2>1, SyncCallStep, KindsFrame DEF Core, Moved
  <2>2. CASE SyncSetup(t)
    BY <1>1, <2>2, SetupWay, KindsFrame DEF Moved, Moving
  <2>3. CASE SyncStep(t) \/ Interrupted(t)
    BY <2>3, SyncStepMoves DEF Core, SyncMove
  <2>. QED
    BY <1>4, <2>1, <2>2, <2>3 DEF SyncMoves
<1>5. ASSUME DeleteAllObjects \/ Sweep PROVE Kinds'
  BY <1>1, <1>5, SweepWay, KindsFrame DEF Moved, Moving, SweepPcs
<1>6. ASSUME UNCHANGED vars PROVE Kinds'
  BY <1>6, KindsFrame DEF vars, object
<1>. QED
  BY <1>2, <1>3, <1>4, <1>5, <1>6, NextMoves

-----------------------------------------------------------------------------
(* How far OS_DeleteAllObjects is.                                         *)

LEMMA SweepFields ==
  ASSUME Core
  PROVE  /\ DeleteAllObjects => sweep'.pass = 1 /\ sweep'.at = 0
         /\ SweepTask => sweep'.pass = sweep.pass /\ sweep'.at = Min(Unvisited) + 1
         /\ SweepTasksEnd => sweep'.pass = 2
         /\ SweepObject => sweep'.pass = sweep.pass
         /\ Destroy => sweep' = sweep
         /\ SweepEnd => \/ sweep'.pass = 0 /\ pc'[Main] = "done"
                        \/ sweep'.pass = 1 /\ sweep'.at = 0 /\ pc'[Main] = "sweep"
<1>1. sweep \in Sweeps /\ Main \in Actors
  BY Numbers DEF Core, Types
<1>2. DeleteAllObjects => sweep'.pass = 1 /\ sweep'.at = 0
  BY DEF DeleteAllObjects, NoSweep
<1>3. SweepTask => sweep'.pass = sweep.pass /\ sweep'.at = Min(Unvisited) + 1
  BY <1>1 DEF SweepTask, Sweeps
<1>4. SweepTasksEnd => sweep'.pass = 2
  BY <1>1 DEF SweepTasksEnd, Sweeps
<1>5. SweepObject => sweep'.pass = sweep.pass
  BY <1>1 DEF SweepObject, Sweeps
<1>6. Destroy => sweep' = sweep
  BY DEF Destroy, calls
<1>7. SweepEnd => \/ sweep'.pass = 0 /\ pc'[Main] = "done"
                  \/ sweep'.pass = 1 /\ sweep'.at = 0 /\ pc'[Main] = "sweep"
  <2>1. /\ NoSweep.pass = 0
        /\ \A n : /\ [NoSweep EXCEPT !.pass = 1, !.tries = n].pass = 1
                  /\ [NoSweep EXCEPT !.pass = 1, !.tries = n].at = 0
    BY DEF NoSweep
  <2>2. SweepEnd => \/ sweep' = NoSweep /\ Goto(Main, "sweep_end", "done")
                    \/ /\ sweep' = [NoSweep EXCEPT !.pass = 1, !.tries = sweep.tries + 1]
                       /\ Goto(Main, "sweep_end", "sweep")
    BY DEF SweepEnd
  <2>3. SweepEnd => \/ sweep' = NoSweep /\ pc'[Main] = "done"
                    \/ /\ sweep' = [NoSweep EXCEPT !.pass = 1, !.tries = sweep.tries + 1]
                       /\ pc'[Main] = "sweep"
    BY <1>1, <2>2, GotoStep DEF Core
  <2>. QED
    BY <2>1, <2>3
<1>. QED
  BY <1>2, <1>3, <1>4, <1>5, <1>6, <1>7

LEMMA Positive == 1 > 0 /\ 2 > 0 /\ ~ (0 > 0)
  BY SMTT(30)

LEMMA SweepPasses ==
  ASSUME Core, Passes, DeleteAllObjects \/ Sweep
  PROVE  Passes'
<1>. USE Numbers
<1>1. Main \in Actors /\ (pc'[Main] = "make" => active_id' = "reserved") /\ app' = app
  <2>1. pc'[Main] # "make"
    BY SweepWay DEF SweepPcs
  <2>. QED
    BY <2>1 DEF DeleteAllObjects, Sweep, SweepTask, SweepTasksEnd, SweepObject, SweepEnd, Destroy
<1>2. CASE DeleteAllObjects
  <2>1. pc'[Main] = "sweep" /\ "delete_all" \in app.main
    BY <1>1, <1>2, GotoStep DEF DeleteAllObjects, May, Core
  <2>. QED
    BY <1>1, <1>2, <2>1, SweepFields, Positive DEF Passes, SweepPcs
<1>3. CASE SweepTask
  <2>1. pc[Main] = "sweep" /\ pc'[Main] = "delete"
    BY <1>1, <1>3, GotoStep DEF SweepTask, Core
  <2>. QED
    BY <1>1, <1>3, <2>1, SweepFields DEF Passes, SweepPcs
<1>4. CASE SweepTasksEnd
  <2>1. pc[Main] = "sweep" /\ pc'[Main] \in {"sweep", "sweep_object"}
    BY <1>1, <1>4, GotoStep DEF SweepTasksEnd, Core
  <2>. QED
    BY <1>1, <1>4, <2>1, SweepFields, Positive DEF Passes, SweepPcs
<1>5. CASE SweepObject
  <2>1. pc[Main] = "sweep_object" /\ pc'[Main] \in {"destroy", "sweep_end"}
    BY <1>1, <1>5, GotoStep DEF SweepObject, Core
  <2>. QED
    BY <1>1, <1>5, <2>1, SweepFields DEF Passes, SweepPcs
<1>6. CASE Destroy
  <2>1. Goto(Main, "destroy", "sweep_end")
    BY <1>6 DEF Destroy, SyncDelete, MutSemDelete, CondVarDelete, CountSemDelete, QueueDelete,
       Destroyed
  <2>2. pc[Main] = "destroy" /\ pc'[Main] = "sweep_end"
    BY <1>1, <2>1, GotoStep DEF Core
  <2>. QED
    BY <1>1, <1>6, <2>2, SweepFields DEF Passes, SweepPcs
<1>7. CASE SweepEnd
  <2>1. pc[Main] = "sweep_end"
    BY <1>7 DEF SweepEnd, Goto
  <2>. QED
    BY <1>1, <1>7, <2>1, SweepFields, Positive DEF Passes, SweepPcs
<1>. QED
  BY <1>2, <1>3, <1>4, <1>5, <1>6, <1>7 DEF Sweep

LEMMA PassesStep ==
  ASSUME Core, Passes, [Next]_vars
  PROVE  Passes'
<1>1. Main \in Actors
  BY Numbers
<1>2. ASSUME UNCHANGED <<sweep, app, active_id>>, pc'[Main] = pc[Main] PROVE Passes'
  BY <1>2 DEF Passes
<1>3. ASSUME NEW t \in Actors, TaskMoves(t) PROVE Passes'
  <2>1. UNCHANGED <<sweep, app, active_id>>
    BY <1>3, TaskMovesWay
  <2>2. CASE t # Main
    <3>1. pc'[Main] = pc[Main]
      BY <1>1, <1>3, <2>2, TaskMovesWay, Numbers
    <3>. QED
      BY <1>2, <2>1, <3>1
  <2>3. CASE t = Main
    <3>1. Way(Main, pc[Main], pc'[Main])
      BY <1>3, <2>3, TaskMovesWay
    <3>2. pc[Main] \notin SweepPcs
      BY <3>1 DEF Way, Moving, Workers, Makers, Deleters, SweepPcs
    <3>3. CASE sweep.pass > 0
      <4>1. Back(Main) = "sweep" /\ pc[Main] \in Deleting
        BY <3>2, <3>3 DEF Back, Passes, Deleting
      <4>2. pc'[Main] \in Deleting \cup {"sweep"}
        BY <3>1, <4>1 DEF Way
      <4>. QED
        BY <2>1, <3>3, <4>2 DEF Passes, Deleting, Deleters, SweepPcs
    <3>4. CASE ~ (sweep.pass > 0)
      <4>1. pc'[Main] \in Moving \cup {"run"}
        BY <3>1, <3>4 DEF Way, Back
      <4>. QED
        BY <2>1, <3>4, <4>1 DEF Passes, Moving, Workers, Makers, Deleters, SweepPcs
    <3>. QED
      BY <3>3, <3>4
  <2>. QED
    BY <2>2, <2>3
<1>4. ASSUME NEW t \in Actors, WaitMoves(t) PROVE Passes'
  <2>1. pc'[Main] = pc[Main] /\ UNCHANGED <<sweep, app, active_id>>
    BY <1>1, <1>4, WaitMovesWay, Numbers DEF Moved, Frame
  <2>. QED
    BY <1>2, <2>1
<1>5. ASSUME NEW t \in Actors, SyncMoves(t) PROVE Passes'
  <2>1. UNCHANGED <<sweep, app>>
    BY <1>5 DEF SyncMoves, calls
  <2>2. \/ pc'[Main] = pc[Main] /\ active_id' = active_id
        \/ pc[Main] \in Inside /\ pc'[Main] \in Inside
        \/ pc[Main] = "setup" /\ pc'[Main] = "make" /\ active_id' = "reserved"
        \/ pc[Main] = "make" /\ pc'[Main] = "run"
    <3>1. CASE SyncCall(t)
      BY <1>1, <3>1, SyncCallStep DEF Core, Moved, Inside
    <3>2. CASE SyncSetup(t)
      BY <3>2, SetupWay
    <3>3. CASE SyncStep(t) \/ Interrupted(t)
      BY <1>1, <3>3, SyncStepMoves DEF Core, SyncMove, Inside
    <3>. QED
      BY <1>5, <3>1, <3>2, <3>3 DEF SyncMoves
  <2>3. CASE pc[Main] \in Inside \cup {"setup", "make"}
    <3>1. ~ (sweep.pass > 0)
      BY <2>3 DEF Passes, Inside, SyncPcs, LockPcs, WaitPcs, SweepPcs, Deleters
    <3>2. pc'[Main] \notin SweepPcs
      BY <2>2, <2>3 DEF Inside, SyncPcs, LockPcs, WaitPcs, SweepPcs
    <3>3. pc'[Main] = "make" => active_id' = "reserved"
      BY <2>2, <2>3 DEF Passes, Inside, SyncPcs, LockPcs, WaitPcs
    <3>. QED
      BY <2>1, <3>1, <3>2, <3>3 DEF Passes
  <2>. QED
    BY <1>2, <2>1, <2>2, <2>3
<1>6. ASSUME UNCHANGED vars PROVE Passes'
  BY <1>2, <1>6 DEF vars, calls, object
<1>. QED
  BY <1>3, <1>4, <1>5, <1>6, NextMoves, SweepPasses

-----------------------------------------------------------------------------
(* Main alone creates and deletes, if it calls OS_DeleteAllObjects.        *)

Rule == "delete_all" \in app.main /\ OnlyMain /\ MainsSlots /\ MainsThreads /\ Gone

\* Main stays where it is, or was not at work, and the others only free their slots.
LEMMA RuleFrame ==
  ASSUME Core, Rule, app' = app, cancelled' = cancelled, sweep' = sweep,
         \/ pc'[Main] = pc[Main] /\ arg'[Main] = arg[Main]
         \/ pc[Main] \notin Workers /\ ~ (sweep.pass > 0),
         \A i \in Ids : pc'[i] \notin Working /\ (pc[i] = "ended" => pc'[i] = "ended"),
         \A s \in Slots : obj'[s] = obj[s] \/ obj'[s] = Free
  PROVE  Rule'
<1>1. OnlyMain'
  BY DEF OnlyMain
<1>2. MainsThreads'
  <2>1. cancelled \subseteq Ids
    BY DEF Core, Types
  <2>. QED
    BY <2>1 DEF Rule, MainsThreads, Workers, Deleters
<1>3. MainsSlots'
  <2>1. SUFFICES ASSUME NEW s \in Slots, obj'[s].st \in {"new", "exclusive"}
                 PROVE  pc'[Main] \in Workers /\ Slot(Main)' = s
    BY DEF MainsSlots
  <2>2. obj'[s] = obj[s]
    BY <2>1, FreeFields
  <2>3. pc[Main] \in Workers /\ Slot(Main) = s
    BY <2>1, <2>2 DEF Rule, MainsSlots
  <2>. QED
    BY <2>3 DEF Slot
<1>4. Gone'
  <2>1. SUFFICES ASSUME sweep.pass > 0, NEW s \in Slots, Passed(s), obj'[s].st # "free"
                 PROVE  /\ pc'[Main] \in Deleters \cup {"delete"} /\ Slot(Main)' = s
                        /\ obj'[s].id = arg'[Main]
    BY DEF Gone, Passed
  <2>2. obj'[s] = obj[s]
    BY <2>1, FreeFields
  <2>. QED
    BY <2>1, <2>2 DEF Rule, Gone, Slot
<1>. QED
  BY <1>1, <1>2, <1>3, <1>4 DEF Rule

LEMMA MayNot ==
  ASSUME Orderly, Core, Rule, NEW i \in Ids
  PROVE  /\ ~ May(i, "create") /\ ~ May(i, "delete") /\ ~ May(i, "delete_self")
         /\ i # Main /\ i \in Actors
<1>1. app \in Apps /\ "delete_all" \in app.main
  BY DEF Core, Types, Rule
<1>. QED
  BY <1>1, Numbers DEF Orderly, May

\* What is left to the tasks.
LEMMA TaskRule ==
  ASSUME Orderly, Core, Rule, NEW t \in Ids, TaskMoves(t)
  PROVE  Rule'
<1>1. pc[t] \notin Working /\ t \in Actors /\ t # Main
  BY MayNot DEF Rule, OnlyMain
<1>2. /\ ~ Spawn(t) /\ ~ SpawnFails(t) /\ ~ Finalize(t) /\ ~ DeleteReserve(t) /\ ~ DeleteFails(t)
      /\ ~ Cancel(t) /\ ~ Join(t) /\ ~ DeleteFinalize(t) /\ ~ DeleteHook(t)
  BY <1>1 DEF Spawn, SpawnFails, Finalize, DeleteReserve, DeleteFails, Cancel, Join,
     DeleteFinalize, DeleteHook, Goto, Working, Workers, Makers, Deleters
<1>3. ~ TaskCreate(t) /\ ~ CallDelete(t)
  BY MayNot DEF TaskCreate, CallDelete
<1>4. /\ UNCHANGED <<arg, cancelled, sweep, app>>
      /\ obj' = obj \/ obj' = [obj EXCEPT ![SlotOf(t)] = Free]
      /\ pc' = pc \/ \E p, q : Goto(t, p, q) /\ p # "ended" /\ q \notin Working
  <2>0. /\ "run" \notin Working /\ "exit" \notin Working
        /\ "ending" \notin Working /\ "ended" \notin Working
    BY DEF Working, Workers, Makers, Deleters
  <2>1. CASE InstallDeleteHandler(t) \/ Retry(t)
    BY <2>1 DEF InstallDeleteHandler, Retry, calls, host, table
  <2>2. CASE CallExit(t) \/ TaskPrepare(t) \/ PrepareFails(t)
    BY <2>0, <2>2 DEF CallExit, TaskPrepare, PrepareFails, calls, host, table
  <2>3. CASE TaskExit(t) \/ ExitFails(t) \/ TaskEnd(t)
    BY <2>0, <2>3 DEF TaskExit, ExitFails, TaskEnd, calls, host, table
  <2>. QED
    BY <1>2, <1>3, <2>1, <2>2, <2>3 DEF TaskMoves
<1>5. \A s \in Slots : obj'[s] = obj[s] \/ obj'[s] = Free
  BY <1>4 DEF Core, Types, TypeOfObj
<1>6. pc' = pc \/ (Moved(t) /\ pc[t] # "ended" /\ pc'[t] \notin Working)
  BY <1>1, <1>4, GotoStep DEF Core
<1>7. \A i \in Ids : pc'[i] \notin Working /\ (pc[i] = "ended" => pc'[i] = "ended")
  BY <1>6, Numbers DEF Rule, OnlyMain, Moved
<1>8. pc'[Main] = pc[Main]
  BY <1>1, <1>6, Numbers DEF Moved
<1>. QED
  BY <1>4, <1>5, <1>7, <1>8, RuleFrame

LEMMA WaitRule ==
  ASSUME Core, Rule, NEW t \in Actors, WaitMoves(t)
  PROVE  Rule'
<1>1. /\ t \in Ids /\ Moved(t) /\ Frame /\ pc[t] # "ended"
      /\ pc'[t] \in {"ended", "cleanup", "cancel_relock"}
  <2>1. ActOnCancel(t) => pc[t] # "ended"
    BY DEF ActOnCancel, AtCancelPoint, WaitPcs, LookupPcs
  <2>2. CancelRelocked(t) \/ CondVarReleaseMutex(t) => pc[t] # "ended"
    BY DEF CancelRelocked, CondVarReleaseMutex, Goto
  <2>. QED
    BY <2>1, <2>2, WaitMovesWay DEF WaitMoves
<1>2. \A i \in Ids : pc'[i] \notin Working /\ (pc[i] = "ended" => pc'[i] = "ended")
  BY <1>1, Numbers DEF Rule, OnlyMain, Moved, Working, Workers, Makers, Deleters
<1>3. pc'[Main] = pc[Main]
  BY <1>1, Numbers DEF Moved
<1>4. UNCHANGED <<app, cancelled, sweep, arg, obj>>
  BY <1>1 DEF Frame, table, host
<1>. QED
  BY <1>2, <1>3, <1>4, RuleFrame

LEMMA SyncRule ==
  ASSUME Core, Passes, Rule, NEW t \in Actors, SyncMoves(t)
  PROVE  Rule'
<1>1. \A u \in Actors : \/ pc'[u] = pc[u]
                        \/ pc[u] \in Inside /\ pc'[u] \in Inside
                        \/ u = Main /\ pc[u] \in {"setup", "make"}
  <2>1. CASE SyncCall(t)
    BY <2>1, SyncCallStep DEF Core, Moved, Inside
  <2>2. CASE SyncSetup(t)
    BY <2>2, SetupWay DEF Moved
  <2>3. CASE SyncStep(t) \/ Interrupted(t)
    BY <2>3, SyncStepMoves DEF Core, SyncMove, Inside
  <2>. QED
    BY <2>1, <2>2, <2>3 DEF SyncMoves
<1>2. /\ "ended" \notin Inside /\ \A p \in Inside : p \notin Working
      /\ \A p \in Inside \cup {"setup", "make"} :
           p \notin Workers /\ p \notin SweepPcs \cup Deleters \cup {"delete", "hook"}
  BY DEF Inside, SyncPcs, LockPcs, WaitPcs, Working, Workers, Makers, Deleters, SweepPcs
<1>3. \A i \in Ids : pc'[i] \notin Working /\ (pc[i] = "ended" => pc'[i] = "ended")
  BY <1>1, <1>2, Numbers DEF Rule, OnlyMain
<1>4. pc'[Main] = pc[Main] \/ (pc[Main] \notin Workers /\ ~ (sweep.pass > 0))
  BY <1>1, <1>2, Numbers DEF Passes
<1>5. UNCHANGED <<app, cancelled, sweep, arg, obj>>
  BY DEF SyncMoves, table, host, calls
<1>. QED
  BY <1>3, <1>4, <1>5, RuleFrame

\* Main changes the slot s of the task it works on.
LEMMA SlotsKept ==
  ASSUME MainsSlots, NEW s, \A r \in Slots \ {s} : obj'[r] = obj[r],
         pc[Main] \in Workers => Slot(Main) = s,
         \/ obj'[s].st \notin {"new", "exclusive"}
         \/ pc'[Main] \in Workers /\ Slot(Main)' = s
  PROVE  MainsSlots'
<1>1. SUFFICES ASSUME NEW r \in Slots, obj'[r].st \in {"new", "exclusive"}
               PROVE  pc'[Main] \in Workers /\ Slot(Main)' = r
  BY DEF MainsSlots
<1>2. CASE r = s
  BY <1>1, <1>2
<1>3. CASE r # s
  <2>1. obj[r].st \in {"new", "exclusive"}
    BY <1>1, <1>3
  <2>2. Slot(Main) = r /\ Slot(Main) = s
    BY <2>1 DEF MainsSlots
  <2>. QED
    BY <1>3, <2>2
<1>. QED
  BY <1>2, <1>3

LEMMA GoneKept ==
  ASSUME Gone, sweep' = sweep, NEW s, \A r \in Slots \ {s} : obj'[r] = obj[r],
         pc[Main] \in Deleters \cup {"delete"} => Slot(Main) = s,
         \/ obj'[s].st = "free"
         \/ /\ pc'[Main] \in Deleters \cup {"delete"}
            /\ Slot(Main)' = s /\ obj'[s].id = arg'[Main]
  PROVE  Gone'
  BY DEF Gone, Passed

LEMMA ThreadsKept ==
  ASSUME Core, MainsThreads, pc[Main] # "join", cancelled' = cancelled,
         \A i \in Ids : pc[i] = "ended" => pc'[i] = "ended"
  PROVE  MainsThreads'
  BY DEF MainsThreads, Core, Types

LEMMA MainMoves ==
  ASSUME Core, Rule, TaskMoves(Main)
  PROVE  /\ app' = app /\ sweep' = sweep /\ OnlyMain'
         /\ \A i \in Ids : pc[i] = "ended" => pc'[i] = "ended"
<1>1. Main \in Actors /\ \A i \in Ids : i \in Actors \ {Main}
  BY Numbers
<1>2. \A i \in Ids : pc'[i] = pc[i] \/ (pc[i] = "none" /\ pc'[i] = "start")
  BY <1>1, TaskMovesWay
<1>3. OnlyMain'
  BY <1>2 DEF Rule, OnlyMain, Working, Workers, Makers, Deleters
<1>4. app' = app /\ sweep' = sweep
  BY <1>1, TaskMovesWay
<1>. QED
  BY <1>2, <1>3, <1>4

\* OS_TaskCreate, which OS_DeleteAllObjects does not call.
LEMMA CreateRule ==
  ASSUME Core, Passes, Rule,
         TaskCreate(Main) \/ Spawn(Main) \/ Finalize(Main) \/ SpawnFails(Main)
  PROVE  Rule'
<1>1. /\ app' = app /\ sweep' = sweep /\ OnlyMain' /\ Main \in Actors
      /\ \A i \in Ids : pc[i] = "ended" => pc'[i] = "ended"
  BY MainMoves, Numbers DEF TaskMoves
<1>2. pc[Main] \in {"run", "spawn", "finalize"}
  BY DEF TaskCreate, Spawn, Finalize, SpawnFails, Goto
<1>3. Gone'
  <2>1. ~ (sweep.pass > 0)
    BY <1>2 DEF Passes, SweepPcs, Deleters
  <2>. QED
    BY <1>1, <2>1 DEF Gone
<1>4. MainsThreads'
  <2>1. cancelled' = cancelled /\ pc[Main] # "join"
    BY <1>2 DEF TaskCreate, Spawn, Finalize, SpawnFails, host
  <2>. QED
    BY <1>1, <2>1, ThreadsKept DEF Rule
<1>5. ASSUME pc[Main] \in Workers
      PROVE  \E i \in Ids : AtWork(Main, i)
  BY <1>1, <1>5, WorkerKnows
<1>6. CASE TaskCreate(Main)
  <2>1. PICK i : /\ obj' = [obj EXCEPT ![SlotOf(i)] = [st |-> "new", id |-> i, users |-> 1]]
                 /\ arg' = [arg EXCEPT ![Main] = i]
    BY <1>6 DEF TaskCreate, Allocate
  <2>2. pc[Main] = "run" /\ pc'[Main] = "spawn" /\ Slot(Main)' = SlotOf(i)
    BY <1>1, <1>6, <2>1, GotoStep DEF TaskCreate, Slot, Core, Types
  <2>3. \A r \in Slots \ {SlotOf(i)} : obj'[r] = obj[r]
    BY <2>1 DEF Core, Types, TypeOfObj
  <2>4. pc[Main] \notin Workers /\ pc'[Main] \in Workers
    BY <2>2 DEF Workers, Makers, Deleters
  <2>. QED
    BY <1>1, <1>3, <1>4, <2>2, <2>3, <2>4, SlotsKept DEF Rule
<1>7. CASE Spawn(Main)
  <2>1. pc[Main] \in Workers
    BY <1>7 DEF Spawn, Workers, Makers
  <2>2. obj' = obj /\ arg' = arg
    BY <1>7 DEF Spawn, calls
  <2>3. pc'[Main] \in Workers
    <3>1. PICK i \in Ids : arg[Main] = i
      BY <1>5, <2>1 DEF AtWork
    <3>2. pc'[Main] = "finalize"
      BY <1>1, <1>7, <3>1, Numbers DEF Spawn, Core, Types
    <3>. QED
      BY <3>2 DEF Workers, Makers
  <2>4. MainsSlots'
    BY <2>2, <2>3, SlotsKept DEF Rule, Slot
  <2>. QED
    BY <1>1, <1>3, <1>4, <2>4 DEF Rule
<1>8. CASE Finalize(Main) \/ SpawnFails(Main)
  <2>1. pc[Main] \in Workers
    BY <1>8 DEF Finalize, SpawnFails, Goto, Workers, Makers
  <2>2. Slot(Main) \in Slots /\ TypeOfObj
    BY <1>5, <2>1 DEF AtWork, Core, Types
  <2>3. /\ obj'[Slot(Main)].st \in {"valid", "free"}
        /\ \A r \in Slots \ {Slot(Main)} : obj'[r] = obj[r]
    <3>1. CASE Finalize(Main)
      <4>1. Becomes(Slot(Main), "valid", 0) /\ "valid" \in ObjSts /\ 0 \in Nat
        BY <3>1 DEF Finalize, Created, Becomes, ObjSts
      <4>. QED
        BY <2>2, <4>1, ObjChanges
    <3>2. CASE SpawnFails(Main)
      BY <2>2, <3>2, ObjFreed, FreeFields DEF SpawnFails, NotCreated
    <3>. QED
      BY <1>8, <3>1, <3>2
  <2>4. MainsSlots'
    BY <2>3, SlotsKept DEF Rule
  <2>. QED
    BY <1>1, <1>3, <1>4, <2>4 DEF Rule
<1>. QED
  BY <1>6, <1>7, <1>8

LEMMA DeleteRule ==
  ASSUME Core, Rule,
         DeleteReserve(Main) \/ Cancel(Main) \/ Join(Main) \/ DeleteFinalize(Main)
  PROVE  Rule'
<1>1. /\ app' = app /\ sweep' = sweep /\ OnlyMain' /\ Main \in Actors /\ Main \notin Ids
      /\ \A i \in Ids : pc[i] = "ended" => pc'[i] = "ended"
  BY MainMoves, Numbers DEF TaskMoves
<1>2. arg' = arg
  BY DEF DeleteReserve, Cancel, Join, DeleteFinalize, calls
<1>3. Slot(Main)' = Slot(Main)
  BY <1>2 DEF Slot
<1>4. ASSUME pc[Main] \in Deleters
      PROVE  \E i \in Ids : AtWork(Main, i)
  BY <1>1, <1>4, WorkerKnows DEF Workers
<1>5. MainsThreads'
  <2>1. CASE DeleteReserve(Main) \/ DeleteFinalize(Main)
    <3>1. cancelled' = cancelled /\ pc[Main] # "join"
      BY <2>1 DEF DeleteReserve, DeleteFinalize, Goto, host
    <3>. QED
      BY <1>1, <3>1, ThreadsKept DEF Rule
  <2>2. CASE Cancel(Main)
    <3>1. pc[Main] = "cancel" /\ pc'[Main] = "join" /\ cancelled' = cancelled \cup {impl[Slot(Main)]}
      BY <1>1, <2>2, GotoStep DEF Cancel, Core
    <3>2. impl[Slot(Main)] = arg[Main] /\ cancelled \subseteq Ids
      BY <1>1, <3>1 DEF Core, Calls, CallOf, Types
    <3>3. \A i \in cancelled : pc[i] = "ended"
      BY <3>1 DEF Rule, MainsThreads
    <3>4. \A i \in cancelled : pc'[i] = "ended"
      BY <1>1, <3>2, <3>3
    <3>. QED
      BY <1>2, <3>1, <3>2, <3>4 DEF MainsThreads
  <2>3. CASE Join(Main)
    <3>1. pc[Main] = "join" /\ cancelled' = cancelled
      BY <1>1, <2>3, GotoStep DEF Join, Core
    <3>2. PICK i \in Ids : AtWork(Main, i)
      BY <1>4, <3>1 DEF Deleters
    <3>3. arg[Main] = i /\ impl[Slot(Main)] = i
      BY <3>1, <3>2 DEF AtWork, CallOf
    <3>4. pc[i] = "ended"
      BY <1>1, <2>3, <3>3 DEF Join
    <3>5. \A c \in cancelled : pc[c] = "ended"
      BY <3>3, <3>4 DEF Rule, MainsThreads
    <3>. QED
      BY <1>1, <3>1, <3>5 DEF MainsThreads, Core, Types
  <2>. QED
    BY <2>1, <2>2, <2>3
<1>6. pc[Main] \in Deleters \cup {"delete"}
  BY DEF DeleteReserve, Cancel, Join, DeleteFinalize, Goto, Deleters
<1>7. CASE DeleteReserve(Main)
  <2>0. pc[Main] = "delete" /\ pc'[Main] = "cancel" /\ Reserve(arg[Main])
    BY <1>1, <1>7, GotoStep DEF DeleteReserve, Core
  <2>1. PICK i \in Ids : i = arg[Main] /\ Slot(Main) = SlotOf(i)
    BY <1>1, <2>0 DEF Core, Calls, CallOf, Slot
  <2>2. Found(i) /\ Becomes(SlotOf(i), "exclusive", 1) /\ pc'[Main] = "cancel" /\ TypeOfObj
    <3>1. Found(i) /\ TypeOfObj
      BY <2>0, <2>1, ValidFound DEF Reserve, Core, Types
    <3>. QED
      BY <2>0, <2>1, <3>1 DEF Reserve, Found, Becomes
  <2>3. obj'[SlotOf(i)].id = i /\ \A r \in Slots \ {SlotOf(i)} : obj'[r] = obj[r]
    <3>1. "exclusive" \in ObjSts /\ 1 \in Nat
      BY DEF ObjSts
    <3>. QED
      BY <2>2, <3>1, ObjChanges DEF Found
  <2>4. pc'[Main] \in Workers /\ pc'[Main] \in Deleters
    BY <2>2 DEF Workers, Deleters
  <2>5. MainsSlots'
    BY <1>3, <2>1, <2>3, <2>4, SlotsKept DEF Rule
  <2>6. Gone'
    BY <1>1, <1>2, <1>3, <2>1, <2>3, <2>4, GoneKept DEF Rule
  <2>. QED
    BY <1>1, <1>5, <2>5, <2>6 DEF Rule
<1>8. CASE Cancel(Main) \/ Join(Main)
  <2>1. obj' = obj /\ pc[Main] \in Deleters /\ pc'[Main] \in Deleters
    BY <1>1, <1>8, GotoStep DEF Cancel, Join, Core, Deleters, table
  <2>2. PICK i \in Ids : AtWork(Main, i)
    BY <1>4, <2>1
  <2>3. obj'[Slot(Main)].id = arg'[Main] /\ pc'[Main] \in Workers
    BY <1>2, <2>1, <2>2 DEF AtWork, Workers
  <2>4. MainsSlots'
    BY <1>3, <2>1, <2>3, SlotsKept DEF Rule
  <2>5. Gone'
    BY <1>1, <1>3, <2>1, <2>3, GoneKept DEF Rule
  <2>. QED
    BY <1>1, <1>5, <2>4, <2>5 DEF Rule
<1>9. CASE DeleteFinalize(Main)
  <2>1. PICK i \in Ids : AtWork(Main, i)
    BY <1>4, <1>9 DEF DeleteFinalize, Goto, Deleters
  <2>2. obj'[Slot(Main)].st = "free" /\ \A r \in Slots \ {Slot(Main)} : obj'[r] = obj[r]
    BY <1>9, <2>1, ObjFreed, FreeFields DEF AtWork, DeleteFinalize, Deleted, Core, Types
  <2>3. MainsSlots'
    BY <2>2, SlotsKept DEF Rule
  <2>4. Gone'
    BY <1>1, <2>2, GoneKept DEF Rule
  <2>. QED
    BY <1>1, <1>5, <2>3, <2>4 DEF Rule
<1>. QED
  BY <1>7, <1>8, <1>9

\* Nothing is being created or deleted while Main is not at it.
LEMMA Settled ==
  ASSUME Core, Rule, pc[Main] \notin Workers
  PROVE  \A s \in Slots : \/ obj[s].st = "free"
                          \/ /\ obj[s].st = "valid" /\ obj[s].id \in Ids
                             /\ SlotOf(obj[s].id) = s
<1>1. SUFFICES ASSUME NEW s \in Slots
               PROVE  \/ obj[s].st = "free"
                      \/ obj[s].st = "valid" /\ obj[s].id \in Ids /\ SlotOf(obj[s].id) = s
  OBVIOUS
<1>2. obj[s].st \notin {"new", "exclusive"}
  BY <1>1 DEF Rule, MainsSlots
<1>3. RecordOf(s)
  BY <1>1 DEF Core, Records
<1>. QED
  BY <1>2, <1>3, FreeFields DEF RecordOf

LEMMA LeavingRule ==
  ASSUME Core, Rule, DeleteFails(Main) \/ DeleteHook(Main)
  PROVE  Rule'
<1>1. /\ app' = app /\ sweep' = sweep /\ OnlyMain' /\ Main \in Actors
      /\ \A i \in Ids : pc[i] = "ended" => pc'[i] = "ended"
  BY MainMoves, Numbers DEF TaskMoves
<1>2. pc[Main] \in {"delete", "hook"} /\ obj' = obj /\ cancelled' = cancelled
  BY DEF DeleteFails, DeleteHook, Goto, table, host
<1>3. pc[Main] \notin Workers /\ pc[Main] # "join"
  BY <1>2 DEF Workers, Makers, Deleters
<1>4. MainsThreads'
  BY <1>1, <1>2, <1>3, ThreadsKept DEF Rule
<1>5. MainsSlots'
  BY <1>2, <1>3 DEF Rule, MainsSlots
<1>6. Gone'
  <2>1. SUFFICES ASSUME sweep.pass > 0, NEW s \in Slots, Passed(s), obj[s].st # "free"
                 PROVE  FALSE
    BY <1>1, <1>2 DEF Gone, Passed
  <2>2. pc[Main] = "delete" /\ Slot(Main) = s /\ obj[s].id = arg[Main]
    BY <1>2, <2>1 DEF Rule, Gone, Deleters
  <2>3. obj[s].st = "valid" /\ Target(Main) = arg[Main]
    BY <1>3, <2>1, <2>2, Settled DEF Target
  <2>4. Valid(arg[Main]) /\ ~ Busy(arg[Main])
    BY <2>2, <2>3 DEF Valid, Busy, Slot
  <2>5. Failed(Main)
    BY <2>2 DEF DeleteFails, DeleteHook, Goto
  <2>. QED
    BY <2>3, <2>4, <2>5 DEF Failed
<1>. QED
  BY <1>1, <1>4, <1>5, <1>6 DEF Rule

LEMMA MainRule ==
  ASSUME Core, Passes, Rule, TaskMoves(Main)
  PROVE  Rule'
<1>1. /\ app' = app /\ sweep' = sweep /\ OnlyMain' /\ Main \in Actors
      /\ \A i \in Ids : pc[i] = "ended" => pc'[i] = "ended"
  BY MainMoves, Numbers
<1>2. pc[Main] \notin {"start", "exit", "ending"}
  BY DEF Core, Threads, TaskPcs
<1>3. CASE CallDelete(Main) \/ Retry(Main)
  <2>1. obj' = obj /\ cancelled' = cancelled
    BY <1>3 DEF CallDelete, Retry, table, host
  <2>2. CASE CallDelete(Main)
    <3>1. pc[Main] = "run"
      BY <2>2 DEF CallDelete, Goto
    <3>2. pc[Main] \notin Workers /\ ~ (sweep.pass > 0)
      BY <3>1 DEF Passes, SweepPcs, Workers, Makers, Deleters
    <3>. QED
      BY <1>1, <2>1, <3>2, RuleFrame DEF OnlyMain
  <2>3. CASE Retry(Main)
    BY <1>1, <2>1, <2>3, RuleFrame DEF Retry, OnlyMain
  <2>. QED
    BY <1>3, <2>2, <2>3
<1>4. CASE TaskCreate(Main) \/ Spawn(Main) \/ Finalize(Main) \/ SpawnFails(Main)
  BY <1>4, CreateRule
<1>5. CASE DeleteReserve(Main) \/ Cancel(Main) \/ Join(Main) \/ DeleteFinalize(Main)
  BY <1>5, DeleteRule
<1>6. CASE DeleteFails(Main) \/ DeleteHook(Main)
  BY <1>6, LeavingRule
<1>7. /\ ~ InstallDeleteHandler(Main) /\ ~ CallExit(Main) /\ ~ TaskPrepare(Main)
      /\ ~ PrepareFails(Main) /\ ~ TaskExit(Main) /\ ~ ExitFails(Main) /\ ~ TaskEnd(Main)
  BY <1>2 DEF InstallDeleteHandler, CallExit, TaskPrepare, PrepareFails, TaskExit, ExitFails,
     TaskEnd, Goto
<1>. QED
  BY <1>3, <1>4, <1>5, <1>6, <1>7 DEF TaskMoves

LEMMA Places ==
  /\ \A s \in Slots : ~ (s < 0) /\ \A n \in 0 .. MaxId : s >= n \/ s < n
  /\ \A r, s \in Slots : s < r + 1 => s < r \/ s = r
  /\ 1 # 2 /\ 0 # 2
<1>1. MaxId \in Nat
  BY TasksAssumption
<1>. QED
  BY <1>1, SMTT(30) DEF Slots

LEMMA SweepRule ==
  ASSUME Least, Core, Passes, Rule, DeleteAllObjects \/ Sweep
  PROVE  Rule'
<1>1. Moved(Main) /\ Main \in Actors /\ Main \notin Ids /\ Ids \subseteq Actors
  BY SweepWay, Numbers
<1>2. obj' = obj /\ cancelled' = cancelled /\ app' = app
  BY DEF DeleteAllObjects, Sweep, SweepTask, SweepTasksEnd, SweepObject, SweepEnd, Destroy,
     table, host
<1>3. pc[Main] \notin Working /\ pc[Main] # "join"
  BY SweepWay DEF SweepPcs, Working, Workers, Makers, Deleters
<1>4. OnlyMain'
  BY <1>1 DEF Rule, OnlyMain, Moved
<1>5. MainsThreads'
  BY <1>1, <1>2, <1>3, ThreadsKept DEF Rule, Moved
<1>6. MainsSlots'
  BY <1>2, <1>3 DEF Rule, MainsSlots, Working
<1>7. \A s \in Slots : \/ obj[s].st = "free"
                       \/ /\ obj[s].st = "valid" /\ obj[s].id \in Ids
                          /\ SlotOf(obj[s].id) = s
  BY <1>3, Settled DEF Working
<1>8. ASSUME sweep.pass > 0, NEW s \in Slots, Passed(s)
      PROVE  obj[s].st = "free"
  BY <1>3, <1>8 DEF Rule, Gone, Working, Workers
<1>9. CASE DeleteAllObjects \/ SweepEnd
  <2>1. ~ (sweep'.pass > 0) \/ \A s \in Slots : ~ Passed(s)'
    <3>1. \/ sweep'.pass = 0
          \/ sweep'.pass = 1 /\ sweep'.at = 0
      BY <1>9, SweepFields
    <3>2. sweep'.pass = 0 => ~ (sweep'.pass > 0)
      BY Positive
    <3>3. sweep'.pass = 1 /\ sweep'.at = 0 => \A s \in Slots : ~ Passed(s)'
      BY Places DEF Passed
    <3>. QED
      BY <3>1, <3>2, <3>3
  <2>2. Gone'
    BY <2>1 DEF Gone
  <2>. QED
    BY <1>2, <1>4, <1>5, <1>6, <2>2 DEF Rule
<1>10. ASSUME SweepTask \/ SweepTasksEnd \/ SweepObject \/ Destroy
       PROVE  sweep.pass > 0
  BY <1>10 DEF SweepTask, SweepTasksEnd, SweepObject, Destroy, SyncDelete, MutSemDelete,
     CondVarDelete, CountSemDelete, QueueDelete, Destroyed, Goto, Passes, SweepPcs
<1>11. CASE SweepTask
  <2>1. PICK m \in Slots : m = Min(Unvisited) /\ obj[m].st = "valid" /\ obj[m].id \in Ids
    BY <1>11, NextSlot DEF SweepTask
  <2>2. /\ arg' = [arg EXCEPT ![Main] = obj[m].id] /\ pc'[Main] = "delete"
        /\ \A s \in Slots : s < m /\ obj[s].st = "valid" => s < sweep.at
        /\ sweep'.pass = sweep.pass /\ sweep'.at = m + 1
    <3>1. Unvisited # {} /\ Goto(Main, "sweep", "delete") /\ arg' = [arg EXCEPT ![Main] = obj[m].id]
      BY <1>11, <2>1 DEF SweepTask
    <3>2. pc'[Main] = "delete"
      BY <1>1, <3>1, GotoStep DEF Core
    <3>3. \A s \in Slots : s < m /\ obj[s].st = "valid" => s < sweep.at
      BY <2>1, <3>1, NextSlot
    <3>4. sweep'.pass = sweep.pass /\ sweep'.at = m + 1
      BY <1>11, <2>1, SweepFields
    <3>. QED
      BY <3>1, <3>2, <3>3, <3>4
  <2>3. arg'[Main] = obj[m].id /\ Slot(Main)' = m
    <3>1. SlotOf(obj[m].id) = m
      BY <1>7, <2>1
    <3>2. arg'[Main] = obj[m].id
      BY <1>1, <2>2 DEF Core, Types
    <3>. QED
      BY <3>1, <3>2 DEF Slot
  <2>4. ASSUME NEW s \in Slots, Passed(s)', s # m
        PROVE  obj[s].st = "free"
    <3>1. s < m \/ sweep.pass = 2
      BY <2>2, <2>4, Places DEF Passed
    <3>2. obj[s].st = "valid" => Passed(s)
      BY <2>2, <2>4, <3>1 DEF Passed
    <3>. QED
      BY <1>7, <1>8, <1>10, <1>11, <2>4, <3>2
  <2>5. Gone'
    BY <1>2, <2>2, <2>3, <2>4 DEF Gone
  <2>. QED
    BY <1>2, <1>4, <1>5, <1>6, <2>5 DEF Rule
<1>12. CASE SweepTasksEnd \/ SweepObject \/ Destroy
  <2>1. ASSUME NEW s \in Slots, obj[s].st = "valid"
        PROVE  FALSE
    <3>1. Passed(s)
      <4>1. CASE SweepTasksEnd
        <5>1. ~ (s >= sweep.at)
          BY <2>1, <4>1 DEF SweepTasksEnd, Unvisited
        <5>2. sweep.at \in 0 .. MaxId
          BY DEF Core, Types, Sweeps
        <5>. QED
          BY <5>1, <5>2, Places DEF Passed
      <4>2. CASE SweepObject \/ Destroy
        BY <4>2 DEF SweepObject, Destroy, SyncDelete, MutSemDelete, CondVarDelete,
           CountSemDelete, QueueDelete, Destroyed, Goto, Passes, SweepPcs, Passed
      <4>. QED
        BY <1>12, <4>1, <4>2
    <3>. QED
      BY <1>8, <1>10, <1>12, <2>1, <3>1
  <2>2. Gone'
    BY <1>2, <1>7, <2>1 DEF Gone
  <2>. QED
    BY <1>2, <1>4, <1>5, <1>6, <2>2 DEF Rule
<1>. QED
  BY <1>9, <1>11, <1>12 DEF Sweep

LEMMA SweptStep ==
  ASSUME Orderly, Least, Core, Passes, Swept, [Next]_vars
  PROVE  Swept'
<1>1. SUFFICES ASSUME "delete_all" \in app'.main
               PROVE  Rule'
  BY DEF Swept, Rule
<1>2. CASE Next
  <2>1. app' = app
    BY <1>2 DEF Next, UserCall, Step, ActOnCancel, DeleteAllObjects, Sweep, TaskCreate,
       InstallDeleteHandler, CallExit, CallDelete, Retry, Spawn, SpawnFails, Finalize,
       TaskPrepare, PrepareFails, TaskExit, ExitFails, TaskEnd, DeleteReserve, DeleteFails,
       Cancel, Join, DeleteFinalize, DeleteHook, CancelRelocked, CondVarReleaseMutex,
       SweepTask, SweepTasksEnd, SweepObject, Destroy, SweepEnd
  <2>2. Rule
    BY <1>1, <2>1 DEF Swept, Rule
  <2>3. CASE \E t \in Actors : TaskMoves(t) \/ WaitMoves(t) \/ SyncMoves(t)
    BY <2>2, <2>3, Numbers, TaskRule, MainRule, WaitRule, SyncRule
  <2>4. CASE DeleteAllObjects \/ Sweep
    BY <2>2, <2>4, SweepRule
  <2>. QED
    BY <1>2, <2>3, <2>4, NextMoves
<1>3. CASE UNCHANGED vars
  <2>1. UNCHANGED <<app, pc, obj, arg, cancelled, sweep>>
    BY <1>3 DEF vars, table, host, calls
  <2>. QED
    BY <1>1, <2>1 DEF Swept, Rule, OnlyMain, MainsSlots, MainsThreads, Gone, Passed, Slot
<1>. QED
  BY <1>2, <1>3

-----------------------------------------------------------------------------
(* No task is in a call on the object when it goes.                        *)

InCall == SyncPcs \cup {"cancel_relock", "cleanup"}

LEMMA CallPcs ==
  /\ SyncPcs = {"lock", "owner", "unlock", "read_lock", "read_unlock", "post",
                "cond_enter", "signal", "broadcast", "relock", "wait", "timed_wait",
                "cond_wait", "cond_timed"}
  /\ \A p \in Moving \cup {"sweep"} : p \notin InCall
  /\ \A p \in InCall : p \notin Outside
  BY DEF InCall, SyncPcs, LockPcs, WaitPcs, Moving, Workers, Makers, Deleters, Outside

\* A call on the object begins only while the object is valid.
LEMMA NoNewCall ==
  ASSUME Core, Next, active_id # "valid", NEW i \in Ids, pc[i] \notin InCall
  PROVE  pc'[i] \notin InCall
<1>1. i \in Actors /\ i # Main
  BY Numbers
<1>2. ASSUME NEW t \in Actors, TaskMoves(t) PROVE pc'[i] \notin InCall
  <2>1. Back(t) \in Moving \cup {"sweep"} /\ "start" \in Moving
    BY DEF Back, Moving
  <2>2. Way(t, pc[t], pc'[t])
        /\ \A u \in Actors \ {t} : pc'[u] = pc[u] \/ (u \in Ids /\ pc[u] = "none" /\ pc'[u] = "start")
    BY <1>2, TaskMovesWay
  <2>3. CASE i = t
    BY <2>1, <2>2, <2>3, CallPcs DEF Way
  <2>4. CASE i # t
    BY <1>1, <2>1, <2>2, <2>4, CallPcs
  <2>. QED
    BY <2>3, <2>4
<1>3. ASSUME NEW t \in Actors, WaitMoves(t) PROVE pc'[i] \notin InCall
  <2>1. Moved(t) /\ (pc'[t] = "ended" \/ pc[t] \in InCall)
    BY <1>3, WaitMovesWay, CallPcs DEF InCall
  <2>2. "ended" \notin InCall
    BY CallPcs DEF Moving
  <2>. QED
    BY <1>1, <2>1, <2>2 DEF Moved
<1>4. ASSUME NEW t \in Actors, SyncMoves(t) PROVE pc'[i] \notin InCall
  <2>1. ~ SyncCall(t)
    BY <1>4, SyncCallStep DEF Core
  <2>2. CASE SyncSetup(t)
    BY <1>1, <2>2, SetupWay DEF Moved
  <2>3. CASE SyncStep(t) \/ Interrupted(t)
    BY <1>1, <2>3, SyncStepMoves DEF Core, SyncMove, InCall
  <2>. QED
    BY <1>4, <2>1, <2>2, <2>3 DEF SyncMoves
<1>5. ASSUME DeleteAllObjects \/ Sweep PROVE pc'[i] \notin InCall
  BY <1>1, <1>5, SweepWay DEF Moved
<1>. QED
  BY <1>2, <1>3, <1>4, <1>5, NextMoves

\* Only OS_DeleteAllObjects takes the object away.
LEMMA OnlySweepObject ==
  ASSUME Core, Passes, Next, active_id = "valid", active_id' # "valid"
  PROVE  SweepObject
<1>1. ASSUME NEW t \in Actors, TaskMoves(t) \/ WaitMoves(t) PROVE FALSE
  BY <1>1, TaskMovesWay, WaitMovesWay
<1>2. ASSUME NEW t \in Actors, SyncMoves(t) PROVE FALSE
  <2>1. ~ SyncCall(t)
    BY SyncCallStep DEF Core
  <2>2. ~ SyncSetup(t)
    BY SetupWay DEF Passes
  <2>3. ~ (SyncStep(t) \/ Interrupted(t))
    BY SyncStepMoves DEF Core
  <2>. QED
    BY <1>2, <2>1, <2>2, <2>3 DEF SyncMoves
<1>3. ~ DeleteAllObjects /\ ~ SweepTask /\ ~ SweepTasksEnd /\ ~ SweepEnd
  BY DEF DeleteAllObjects, SweepTask, SweepTasksEnd, SweepEnd, object
<1>4. ~ Destroy
  BY DEF Destroy, SyncDelete, MutSemDelete, CondVarDelete, CountSemDelete, QueueDelete, Destroyed
<1>. QED
  BY <1>1, <1>2, <1>3, <1>4, NextMoves DEF Sweep

LEMMA SafeStep ==
  ASSUME Core, Passes, Swept, DeleteAllSafe, [Next]_vars
  PROVE  DeleteAllSafe'
<1>1. SUFFICES ASSUME Next, active_id' # "valid", NEW i \in Ids
               PROVE  pc'[i] \notin InCall
  BY DEF DeleteAllSafe, InCall, vars, object
<1>2. CASE active_id # "valid"
  BY <1>1, <1>2, NoNewCall DEF DeleteAllSafe, InCall
<1>3. CASE active_id = "valid"
  <2>1. SweepObject /\ pc[Main] = "sweep_object"
    BY <1>1, <1>3, OnlySweepObject DEF SweepObject, Goto
  <2>2. sweep.pass > 0 /\ sweep.pass = 2 /\ "delete_all" \in app.main
    BY <2>1 DEF Passes, SweepPcs
  <2>3. MainsThreads /\ Gone /\ pc[Main] \notin Deleters \cup {"delete"}
    BY <2>1, <2>2 DEF Swept, Deleters
  <2>4. \A s \in Slots : obj[s].st = "free"
    BY <2>2, <2>3 DEF Gone, Passed
  <2>5. ~ Listed(i)
    BY <2>4, Numbers DEF Listed
  <2>6. i \in cancelled => pc[i] = "ended"
    BY <2>1, <2>3 DEF MainsThreads
  <2>7. pc[i] \in Outside
    BY <2>5, <2>6 DEF Core, Threads, ThreadOf, Outside
  <2>8. pc'[i] = pc[i]
    BY <2>1, SweepWay, Numbers DEF Sweep, Moved
  <2>. QED
    BY <2>7, <2>8, CallPcs
<1>. QED
  BY <1>2, <1>3

LEMMA OthersInit == Init => Passes /\ Swept /\ Kinds /\ DeleteAllSafe
<1>. SUFFICES ASSUME Init PROVE Passes /\ Swept /\ Kinds /\ DeleteAllSafe
  OBVIOUS
<1>1. /\ \A i \in Ids : pc[i] = "none"
      /\ pc[Main] \in {"setup", "run"}
      /\ \A t \in Actors : pc[t] \in {"none", "setup", "run"}
  BY Numbers DEF Init
<1>2. sweep.pass = 0 /\ ~ (sweep.pass > 0)
  BY Positive DEF Init, NoSweep
<1>3. Passes
  BY <1>1, <1>2 DEF Passes, SweepPcs
<1>4. Swept
  BY <1>1, <1>2, FreeFields
  DEF Swept, OnlyMain, MainsSlots, MainsThreads, Gone, Init, InitObj, Working, Workers, Makers,
      Deleters
<1>5. Kinds
  BY <1>1 DEF Kinds, Suits, LockingPcs, Init, InitSync
<1>6. DeleteAllSafe
  BY <1>1 DEF DeleteAllSafe, SyncPcs, LockPcs, WaitPcs
<1>. QED
  BY <1>3, <1>4, <1>5, <1>6

LEMMA EndsUnlocked ==
  ASSUME Core, Kinds, [Next]_vars, NEW t \in Ids,
         pc[t] \in WaitPcs \cup {"cancel_relock", "cleanup"}, pc'[t] = "ended"
  PROVE  depth'[t] = 0
<1>1. t \in Actors /\ t # Main
  BY Numbers
<1>2. pc[t] \in InCall /\ "ended" \notin InCall /\ "ended" \notin Inside
  BY CallPcs DEF InCall, SyncPcs, Inside, Moving
<1>3. pc'[t] # pc[t]
  BY <1>2
<1>4. ASSUME NEW u \in Actors, TaskMoves(u) PROVE FALSE
  <2>1. Way(u, pc[u], pc'[u])
        /\ \A v \in Actors \ {u} : pc'[v] = pc[v] \/ (v \in Ids /\ pc[v] = "none" /\ pc'[v] = "start")
    BY <1>4, TaskMovesWay
  <2>2. u = t
    BY <1>1, <1>3, <2>1
  <2>. QED
    BY <1>2, <2>1, <2>2, CallPcs DEF Way
<1>5. ASSUME NEW u \in Actors, SyncMoves(u) PROVE FALSE
  <2>1. ~ SyncCall(u)
    BY <1>1, <1>2, <1>3, SyncCallStep DEF Core, Moved, InCall
  <2>2. ~ SyncSetup(u)
    BY <1>1, <1>3, SetupWay DEF Moved
  <2>3. ~ (SyncStep(u) \/ Interrupted(u))
    BY <1>1, <1>2, <1>3, SyncStepMoves DEF Core, SyncMove
  <2>. QED
    BY <1>5, <2>1, <2>2, <2>3 DEF SyncMoves
<1>6. ~ (DeleteAllObjects \/ Sweep)
  BY <1>1, <1>3, SweepWay DEF Moved
<1>7. PICK u \in Actors : WaitMoves(u)
  <2>1. pc' # pc
    BY <1>3
  <2>. QED
    BY <1>4, <1>5, <1>6, <2>1, NextMoves DEF vars
<1>8. u = t
  <2>1. Moved(u)
    BY <1>7, WaitMovesWay
  <2>. QED
    BY <1>1, <1>3, <2>1 DEF Moved
<1>9. CASE CondVarReleaseMutex(t)
  BY <1>1, <1>9 DEF CondVarReleaseMutex, Kinds
<1>10. CASE ActOnCancel(t)
  <2>1. pc[t] \in WaitPcs /\ depth' = depth
    BY <1>10 DEF ActOnCancel, AtCancelPoint, LookupPcs, WaitPcs, object
  <2>2. pc[t] \notin {"cond_wait", "cond_timed"}
    <3>1. ASSUME pc[t] \in {"cond_wait", "cond_timed"} PROVE pc'[t] = "cancel_relock"
      BY <1>1, <1>10, <3>1 DEF ActOnCancel, Waiters, Goto, Core, Types
    <3>. QED
      BY <3>1
  <2>3. Lockless
    BY <1>1, <2>1, <2>2 DEF WaitPcs, Kinds, Suits
  <2>. QED
    BY <1>1, <2>1, <2>3 DEF Kinds
<1>11. ~ CancelRelocked(t)
  <2>1. ASSUME CancelRelocked(t) PROVE pc'[t] = "cleanup"
    BY <1>1, <2>1 DEF CancelRelocked, Goto, Core, Types
  <2>. QED
    BY <2>1
<1>. QED
  BY <1>7, <1>8, <1>9, <1>10, <1>11 DEF WaitMoves

-----------------------------------------------------------------------------
INSTANCE WellFoundedInduction

LEMMA LeastHolds == Least
<1>1. ASSUME NEW X \in SUBSET Nat, X # {}
      PROVE  Min(X) \in X /\ \A r \in X : Min(X) <= r
  <2>1. PICK n \in X : \A m \in X : ~ (<<m, n>> \in OpToRel(<, Nat))
    BY <1>1, WFMin, NatLessThanWellFounded
  <2>2. ASSUME NEW m \in X PROVE n <= m
    <3>1. <<m, n>> \in Nat \X Nat /\ ~ (<<m, n>> \in {p \in Nat \X Nat : p[1] < p[2]})
      BY <2>1 DEF OpToRel
    <3>. QED
      BY <3>1, SMTT(30)
  <2>. QED
    BY <2>2 DEF Min
<1>. QED
  BY <1>1 DEF Least

(* Whatever tasks the application creates, deletes and lets exit, and      *)
(* whenever: every record that is in use names the thread of its task,     *)
(* every call of OS_TaskCreate and OS_TaskDelete has a record of its own,  *)
(* and a thread runs its task only while the record is there or the thread *)
(* has been cancelled.                                                     *)
THEOREM CoreInvariant == Spec => [](Core /\ Passes /\ Kinds)
<1>1. Init => Core /\ Passes /\ Kinds
  BY CoreInit, OthersInit
<1>2. Core /\ Passes /\ Kinds /\ [Next]_vars => (Core /\ Passes /\ Kinds)'
  BY LeastHolds, CoreStep, PassesStep, KindsStep
<1>. QED
  BY <1>1, <1>2, PTL DEF Spec

(* Every thread is joined or detached exactly once, by OS_TaskDelete or    *)
(* OS_TaskExit, and no pthread_t is used after that.                       *)
THEOREM ThreadFreedOnceHolds == Spec => []ThreadFreedOnce
<1>1. Core => ThreadFreedOnce
  <2>. SUFFICES ASSUME Core PROVE ThreadFreedOnce
    OBVIOUS
  <2>1. ASSUME NEW s \in Slots, obj[s].st = "valid"
        PROVE  impl[s] = obj[s].id /\ thread[impl[s]] = "joinable"
    <3>1. RecordOf(s) /\ obj[s] # Free
      BY <2>1, FreeFields DEF Core, Records
    <3>. QED
      BY <2>1, <3>1 DEF RecordOf
  <2>2. ASSUME NEW t \in Actors, pc[t] \in {"cancel", "join"}
        PROVE  impl[Slot(t)] = arg[t] /\ thread[arg[t]] = "joinable"
    BY <2>2 DEF Core, Calls, CallOf
  <2>3. NoThreadLeaked
    BY DEF NoThreadLeaked, Core, Threads, ThreadOf
  <2>. QED
    BY <2>1, <2>2, <2>3 DEF ThreadFreedOnce, HandlesLive
<1>. QED
  BY <1>1, CoreInvariant, PTL

(* When OS_TaskDelete has removed another task, the thread of the task has *)
(* ended: pthread_join has waited for it.                                  *)
THEOREM DeletedHasEndedHolds == Spec => []DeletedHasEnded
<1>1. Core => DeletedHasEnded
  BY DEF Core, Calls, CallOf, DeletedHasEnded, Self
<1>. QED
  BY <1>1, CoreInvariant, PTL

(* A thread that runs the function of its task is listed in the task       *)
(* table, or it has been cancelled.                                        *)
THEOREM RunningIsListedHolds == Spec => []RunningIsListed
<1>1. Core => RunningIsListed
  <2>1. \A p \in SyncPcs \cup {"run"} : p \notin Outside
    BY DEF SyncPcs, LockPcs, WaitPcs, Outside
  <2>. QED
    BY <2>1 DEF Core, Threads, ThreadOf, RunningIsListed
<1>. QED
  BY <1>1, CoreInvariant, PTL

(* OS_TaskDelete calls the delete hook of the task it deletes, and not one *)
(* that an earlier task left in the record: OS_TaskCreate resets it.       *)
THEOREM HookOfTaskHolds == Spec => []HookOfTask
<1>1. Core => HookOfTask
  BY DEF Core, Calls, CallOf, HookOfTask
<1>. QED
  BY <1>1, CoreInvariant, PTL

(* A task that is deleted while it waits on a condition variable has given *)
(* the mutex back when its thread ends, by the cleanup handler that        *)
(* OS_CondVarWait_Impl installs.                                           *)
THEOREM WaitLeavesNoLockHolds == Spec => WaitLeavesNoLock
<1>1. Core /\ Kinds /\ [Next]_vars =>
        [\A t \in Ids : pc[t] \in WaitPcs \cup {"cancel_relock", "cleanup"}
                        /\ pc'[t] = "ended" => depth'[t] = 0]_vars
  BY EndsUnlocked
<1>. QED
  BY <1>1, CoreInvariant, PTL DEF Spec, WaitLeavesNoLock

(* In an application whose tasks leave creating and deleting tasks to the  *)
(* thread that calls OS_DeleteAllObjects, the tasks it has passed over are *)
(* gone and stay so.                                                       *)
THEOREM Invariant ==
  ASSUME Orderly
  PROVE  Spec => []IInv
<1>1. Init => IInv
  BY CoreInit, OthersInit DEF IInv
<1>2. IInv /\ [Next]_vars => IInv'
  BY LeastHolds, CoreStep, PassesStep, KindsStep, SweptStep, SafeStep DEF IInv
<1>. QED
  BY <1>1, <1>2, PTL DEF Spec

(* OS_DeleteAllObjects deletes the tasks first, so that none of them is in *)
(* a call on an object when it is destroyed.                               *)
THEOREM DeleteAllSafeHolds ==
  ASSUME Orderly
  PROVE  Spec => []DeleteAllSafe
<1>1. IInv => DeleteAllSafe
  BY DEF IInv
<1>. QED
  BY <1>1, Invariant, PTL

=============================================================================
