------------------------------ MODULE TimeBase ------------------------------
(***************************************************************************)
(* The life of time bases: OS_TimeBaseCreate and OS_TimeBaseDelete         *)
(* (src/os/shared/src/osapi-timebase.c, src/os/posix/src/                  *)
(* os-impl-timebase.c), the callback thread of each time base, the timers  *)
(* that hold a reference to it, and the dedicated time bases of            *)
(* OS_TimerCreate and OS_TimerDelete (osapi-time.c).                       *)
(*                                                                         *)
(* A step between two steps of this module is a region under the lock of   *)
(* the time base table, or one without it.  A lookup that meets a RESERVED *)
(* id waits: it is not enabled.  What a timer is beyond its reference and  *)
(* its place in the ring is modelled in TimerRing.                         *)
(***************************************************************************)
EXTENDS Integers, FiniteSets, FiniteSetsExt

CONSTANTS
  TimeBases,  \* the time base ids; an id is issued once
  Slots,      \* the entries of the time base table
  Users,      \* application tasks that call the API
  NONE,       \* OS_OBJECT_ID_UNDEFINED, and "nobody" for the mutexes
  RESERVED,   \* OS_OBJECT_ID_RESERVED
  MaxTimers,  \* timers that one time base is given
  Signals,    \* the real-time signals, SIGRTMIN..SIGRTMAX
  Faults      \* what may go wrong outside: see Fault

ASSUME IdsAssumption ==
  {NONE, RESERVED} \cap (TimeBases \cup Users) = {} /\ NONE # RESERVED
ASSUME SizesAssumption ==
  /\ MaxTimers \in Nat /\ Signals \subseteq Nat \ {0} /\ IsFiniteSet(Signals)
  /\ IsFiniteSet(Users)

\* "slow_create": a create takes longer than a lookup waits;
\* the others: the host call of that name fails.
Fault == {"slow_create", "pthread_create", "timer_create"}
ASSUME FaultsAssumption == Faults \subseteq Fault

VARIABLES
  active_id,        \* slot -> id, NONE or RESERVED
  refcount,         \* slot -> references
  external_sync,    \* slot -> "NULL", "external" or "sigwait"
  ring,             \* slot -> number of timers in the callback ring
  handler_mutex,    \* slot -> the user or the time base whose thread holds it
  assigned_signal,  \* slot -> signal, or 0
  slot,             \* time base -> its slot
  life,             \* time base -> "unused", "creating", "live" or "ended"
  dedicated,        \* the time bases made by OS_TimerCreate
  tpc,              \* time base -> where its callback thread is
  syncfunc,         \* time base -> what the thread calls
  cancelled,        \* time bases whose thread has a cancellation pending
  pc,               \* user -> where it is
  arg               \* user -> the time base it works on

entries == <<active_id, refcount, external_sync, ring, assigned_signal>>
threads == <<tpc, syncfunc, cancelled>>
users   == <<pc, arg>>
vars    == <<entries, handler_mutex, slot, life, dedicated, threads, users>>

UserPcs == {"idle", "create_thread", "create_signal", "create_timer",
            "create_fail", "create_finalize", "add_ref", "add_link",
            "timer_release", "delete_try", "delete_wait", "delete_cancel",
            "delete_timer", "delete_finalize"}
ThreadPcs == {"none", "lookup", "sync", "pend", "delay", "ticked", "serve",
              "callback", "exited"}

TypeOK ==
  /\ active_id \in [Slots -> TimeBases \cup {NONE, RESERVED}]
  /\ refcount \in [Slots -> Nat]
  /\ external_sync \in [Slots -> {"NULL", "external", "sigwait"}]
  /\ ring \in [Slots -> 0..MaxTimers]
  /\ handler_mutex \in [Slots -> Users \cup TimeBases \cup {NONE}]
  /\ assigned_signal \in [Slots -> Signals \cup {0}]
  /\ slot \in [TimeBases -> Slots]
  /\ life \in [TimeBases -> {"unused", "creating", "live", "ended"}]
  /\ dedicated \subseteq TimeBases
  /\ tpc \in [TimeBases -> ThreadPcs]
  /\ syncfunc \in [TimeBases -> {"NULL", "external", "sigwait"}]
  /\ cancelled \subseteq TimeBases
  /\ pc \in [Users -> UserPcs]
  /\ arg \in [Users -> TimeBases \cup {NONE}]

Init ==
  /\ active_id = [s \in Slots |-> NONE]
  /\ refcount = [s \in Slots |-> 0]
  /\ external_sync = [s \in Slots |-> "NULL"]
  /\ ring = [s \in Slots |-> 0]
  /\ handler_mutex = [s \in Slots |-> NONE]
  /\ assigned_signal = [s \in Slots |-> 0]
  /\ slot \in [TimeBases -> Slots]
  /\ life = [b \in TimeBases |-> "unused"]
  /\ dedicated = {}
  /\ tpc = [b \in TimeBases |-> "none"]
  /\ syncfunc = [b \in TimeBases |-> "NULL"]
  /\ cancelled = {}
  /\ pc = [u \in Users |-> "idle"]
  /\ arg = [u \in Users |-> NONE]

Goto(u, from, to) ==
  /\ pc[u] = from
  /\ pc' = [pc EXCEPT ![u] = to]
  /\ arg' = IF to = "idle" THEN [arg EXCEPT ![u] = NONE] ELSE arg

Begin(u, to, b) ==
  /\ pc[u] = "idle"
  /\ pc' = [pc EXCEPT ![u] = to]
  /\ arg' = [arg EXCEPT ![u] = b]
-----------------------------------------------------------------------------
(* OS_TimeBaseCreate, also as the first half of OS_TimerCreate.            *)

\* OS_ObjectIdAllocateNew and the reset of the record.  The id determines the
\* slot; the entry is reserved and its table is unlocked.
TimeBaseCreate(u) ==
  \E b \in TimeBases, sync \in {"NULL", "external"}, own \in BOOLEAN :
    LET s == slot[b] IN
    /\ Begin(u, "create_thread", b)
    /\ life[b] = "unused" /\ active_id[s] = NONE
    /\ own => sync = "NULL" /\ MaxTimers > 0
    /\ life' = [life EXCEPT ![b] = "creating"]
    /\ dedicated' = IF own THEN dedicated \cup {b} ELSE dedicated
    /\ active_id' = [active_id EXCEPT ![s] = RESERVED]
    /\ refcount' = [refcount EXCEPT ![s] = 1]
    /\ external_sync' = [external_sync EXCEPT ![s] = sync]
    /\ ring' = [ring EXCEPT ![s] = 0]
    /\ UNCHANGED <<handler_mutex, assigned_signal, slot, threads>>

\* OS_TimeBaseCreate_Impl: the thread runs from here on.
CreateThread(u) ==
  LET b == arg[u] IN
  /\ Goto(u, "create_thread",
          IF external_sync[slot[b]] = "NULL" THEN "create_signal"
          ELSE "create_finalize")
  /\ tpc' = [tpc EXCEPT ![b] = "lookup"]
  /\ assigned_signal' = [assigned_signal EXCEPT ![slot[b]] = 0]
  /\ UNCHANGED <<active_id, refcount, external_sync, ring, handler_mutex,
                 slot, life, dedicated, syncfunc, cancelled>>

\* OS_Posix_InternalTaskCreate_Impl fails: nothing to undo but the entry.
CreateThreadFails(u) ==
  LET b == arg[u] IN
  /\ "pthread_create" \in Faults
  /\ Goto(u, "create_thread", "idle")
  /\ active_id' = [active_id EXCEPT ![slot[b]] = NONE]
  /\ refcount' = [refcount EXCEPT ![slot[b]] = 0]
  /\ life' = [life EXCEPT ![b] = "ended"]
  /\ UNCHANGED <<external_sync, ring, assigned_signal, handler_mutex, slot,
                 dedicated, threads>>

\* The signals that no valid entry uses.
FreeSignals ==
  Signals \ {assigned_signal[s] : s \in {r \in Slots : active_id[r] \in TimeBases}}

CreateSignal(u) ==
  LET s == slot[arg[u]] IN
  /\ Goto(u, "create_signal",
          IF FreeSignals = {} THEN "create_fail" ELSE "create_timer")
  /\ assigned_signal' =
       IF FreeSignals = {} THEN assigned_signal
       ELSE [assigned_signal EXCEPT ![s] = Min(FreeSignals)]
  /\ UNCHANGED <<active_id, refcount, external_sync, ring, handler_mutex,
                 slot, life, dedicated, threads>>

\* timer_create, and the sync function that waits for the signal.
CreateTimer(u) ==
  /\ Goto(u, "create_timer", "create_finalize")
  /\ external_sync' = [external_sync EXCEPT ![slot[arg[u]]] = "sigwait"]
  /\ UNCHANGED <<active_id, refcount, ring, assigned_signal, handler_mutex,
                 slot, life, dedicated, threads>>

CreateTimerFails(u) ==
  /\ "timer_create" \in Faults
  /\ Goto(u, "create_timer", "create_fail")
  /\ UNCHANGED <<entries, handler_mutex, slot, life, dedicated, threads>>

\* The thread is cancelled, and OS_ObjectIdFinalizeNew clears the entry.
CreateFail(u) ==
  LET b == arg[u] IN
  /\ Goto(u, "create_fail", "idle")
  /\ cancelled' = cancelled \cup {b}
  /\ assigned_signal' = [assigned_signal EXCEPT ![slot[b]] = 0]
  /\ active_id' = [active_id EXCEPT ![slot[b]] = NONE]
  /\ refcount' = [refcount EXCEPT ![slot[b]] = 0]
  /\ life' = [life EXCEPT ![b] = "ended"]
  /\ UNCHANGED <<external_sync, ring, handler_mutex, slot, dedicated, tpc,
                 syncfunc>>

\* OS_ObjectIdFinalizeNew; OS_TimerCreate goes on with OS_DoTimerAdd.
CreateFinalize(u) ==
  LET b == arg[u] IN
  /\ Goto(u, "create_finalize", IF b \in dedicated THEN "add_ref" ELSE "idle")
  /\ active_id' = [active_id EXCEPT ![slot[b]] = b]
  /\ refcount' = [refcount EXCEPT ![slot[b]] = @ - 1]
  /\ life' = [life EXCEPT ![b] = "live"]
  /\ UNCHANGED <<external_sync, ring, assigned_signal, handler_mutex, slot,
                 dedicated, threads>>
-----------------------------------------------------------------------------
(* The timers of a time base.                                              *)

\* OS_DoTimerAdd takes a reference, for the life of the timer.
AddRef(u, b) ==
  LET s == slot[b] IN
  /\ active_id[s] = b /\ refcount[s] < MaxTimers
  /\ refcount' = [refcount EXCEPT ![s] = @ + 1]
  /\ UNCHANGED <<active_id, external_sync, ring, assigned_signal,
                 handler_mutex, slot, life, dedicated, threads>>

TimerAdd(u) ==
  \E b \in TimeBases \ dedicated : Begin(u, "add_link", b) /\ AddRef(u, b)

TimerCreateAdds(u) ==
  arg[u] # NONE /\ Goto(u, "add_ref", "add_link") /\ AddRef(u, arg[u])

\* Into the ring, under the time base lock.
AddLink(u) ==
  LET s == slot[arg[u]] IN
  /\ Goto(u, "add_link", "idle")
  /\ handler_mutex[s] = NONE
  /\ ring' = [ring EXCEPT ![s] = @ + 1]
  /\ UNCHANGED <<active_id, refcount, external_sync, assigned_signal,
                 handler_mutex, slot, life, dedicated, threads>>

\* No timer is free: the reference is released, and OS_TimerCreate deletes
\* the time base it has just made.
AddFails(u) ==
  LET b == arg[u] IN
  /\ Goto(u, "add_link", IF b \in dedicated THEN "delete_try" ELSE "idle")
  /\ refcount' = [refcount EXCEPT ![slot[b]] = @ - 1]
  /\ UNCHANGED <<active_id, external_sync, ring, assigned_signal,
                 handler_mutex, slot, life, dedicated, threads>>

\* OS_TimerDelete: out of the ring, under the time base lock, ...
TimerDelete(u) ==
  \E b \in TimeBases :
    LET s == slot[b] IN
    /\ Begin(u, "timer_release", b)
    /\ life[b] = "live" /\ ring[s] > 0 /\ handler_mutex[s] = NONE
    /\ ring' = [ring EXCEPT ![s] = @ - 1]
    /\ UNCHANGED <<active_id, refcount, external_sync, assigned_signal,
                   handler_mutex, slot, life, dedicated, threads>>

\* ... then the reference is released and the dedicated time base deleted.
TimerRelease(u) ==
  LET b == arg[u] IN
  /\ Goto(u, "timer_release", IF b \in dedicated THEN "delete_try" ELSE "idle")
  /\ refcount' = [refcount EXCEPT ![slot[b]] = @ - 1]
  /\ UNCHANGED <<active_id, external_sync, ring, assigned_signal,
                 handler_mutex, slot, life, dedicated, threads>>
-----------------------------------------------------------------------------
(* OS_TimeBaseDelete.                                                      *)

(* Mutant: the references are not looked at.                               *)
Unused_Always(s) == TRUE

\* The condition of an EXCLUSIVE transaction.
Unused(s) == refcount[s] = 0

\* The id is withdrawn at once, also when the delete then has to wait for
\* the references to be released.
DeleteReserve(u, b) ==
  LET s == slot[b] IN
  /\ active_id[s] = b
  /\ active_id' = [active_id EXCEPT ![s] = RESERVED]
  /\ refcount' = IF Unused(s) THEN [refcount EXCEPT ![s] = @ + 1] ELSE refcount
  /\ UNCHANGED <<external_sync, ring, assigned_signal, handler_mutex, slot,
                 life, dedicated, threads>>

Reserved(b) == IF Unused(slot[b]) THEN "delete_cancel" ELSE "delete_wait"

TimeBaseDelete(u) ==
  \E b \in TimeBases \ dedicated :
    Begin(u, Reserved(b), b) /\ DeleteReserve(u, b)

DeleteDedicated(u) ==
  /\ pc[u] = "delete_try"
  /\ Goto(u, "delete_try", Reserved(arg[u])) /\ DeleteReserve(u, arg[u])

DeleteGranted(u) ==
  LET s == slot[arg[u]] IN
  /\ Goto(u, "delete_wait", "delete_cancel")
  /\ Unused(s)
  /\ refcount' = [refcount EXCEPT ![s] = @ + 1]
  /\ UNCHANGED <<active_id, external_sync, ring, assigned_signal,
                 handler_mutex, slot, life, dedicated, threads>>

\* OS_ERR_OBJECT_IN_USE: the id is put back.
DeleteGivesUp(u) ==
  LET b == arg[u] IN
  /\ Goto(u, "delete_wait", "idle")
  /\ ~Unused(slot[b])
  /\ active_id' = [active_id EXCEPT ![slot[b]] = b]
  /\ UNCHANGED <<refcount, external_sync, ring, assigned_signal,
                 handler_mutex, slot, life, dedicated, threads>>

(* Mutant: the thread is left to notice by itself.                         *)
DeleteCancel_Not(u) ==
  /\ Goto(u, "delete_cancel", "delete_timer")
  /\ UNCHANGED <<entries, handler_mutex, slot, life, dedicated, threads>>

\* OS_TimeBaseDelete_Impl
DeleteCancel(u) ==
  /\ Goto(u, "delete_cancel", "delete_timer")
  /\ cancelled' = cancelled \cup {arg[u]}
  /\ UNCHANGED <<entries, handler_mutex, slot, life, dedicated, tpc, syncfunc>>

\* timer_delete fails only for an id that is not a timer: it succeeds here.
DeleteTimer(u) ==
  /\ Goto(u, "delete_timer", "delete_finalize")
  /\ assigned_signal' = [assigned_signal EXCEPT ![slot[arg[u]]] = 0]
  /\ UNCHANGED <<active_id, refcount, external_sync, ring, handler_mutex,
                 slot, life, dedicated, threads>>

\* OS_ObjectIdFinalizeDelete frees the entry.
DeleteFinalize(u) ==
  LET b == arg[u] IN
  /\ Goto(u, "delete_finalize", "idle")
  /\ active_id' = [active_id EXCEPT ![slot[b]] = NONE]
  /\ refcount' = [refcount EXCEPT ![slot[b]] = @ - 1]
  /\ life' = [life EXCEPT ![b] = "ended"]
  /\ UNCHANGED <<external_sync, ring, assigned_signal, handler_mutex, slot,
                 dedicated, threads>>
-----------------------------------------------------------------------------
(* OS_TimeBase_CallbackThread of time base b.                              *)

Step(b, from, to) == tpc[b] = from /\ tpc' = [tpc EXCEPT ![b] = to]

(* Mutant: an entry that is being created is accepted.                     *)
ThreadLookup_Reserved(b) ==
  LET found == active_id[slot[b]] \in {b, RESERVED} IN
  /\ Step(b, "lookup", IF found THEN "sync" ELSE "exited")
  /\ syncfunc' = IF found THEN [syncfunc EXCEPT ![b] = external_sync[slot[b]]]
                 ELSE syncfunc
  /\ UNCHANGED <<entries, handler_mutex, slot, life, dedicated, cancelled, users>>

\* The GLOBAL lookup waits while the id is RESERVED.
ThreadLookup(b) ==
  LET found == active_id[slot[b]] = b IN
  /\ active_id[slot[b]] # RESERVED
  /\ Step(b, "lookup", IF found THEN "sync" ELSE "exited")
  /\ syncfunc' = IF found THEN [syncfunc EXCEPT ![b] = external_sync[slot[b]]]
                 ELSE syncfunc
  /\ UNCHANGED <<entries, handler_mutex, slot, life, dedicated, cancelled, users>>

\* ... but only four times.
ThreadGivesUp(b) ==
  /\ "slow_create" \in Faults
  /\ active_id[slot[b]] = RESERVED
  /\ Step(b, "lookup", "exited")
  /\ UNCHANGED <<entries, handler_mutex, slot, life, dedicated, syncfunc,
                 cancelled, users>>

\* The call of the sync function; OS_TimeBase_SigWaitImpl returns 0 at once
\* when it does not find the id.  A thread that gets 0 again and again sleeps.
ThreadSync(b) ==
  /\ \/ /\ syncfunc[b] = "external" \/ active_id[slot[b]] = b
        /\ Step(b, "sync", "pend")
     \/ /\ syncfunc[b] = "sigwait" /\ active_id[slot[b]] # b
        /\ \E to \in {"ticked", "delay"} : Step(b, "sync", to)
  /\ UNCHANGED <<entries, handler_mutex, slot, life, dedicated, syncfunc,
                 cancelled, users>>

\* The tick comes, or the sleep ends.
ThreadWakes(b) ==
  /\ \E from \in {"pend", "delay"} : Step(b, from, "ticked")
  /\ UNCHANGED <<entries, handler_mutex, slot, life, dedicated, syncfunc,
                 cancelled, users>>

(* Mutant: the thread trusts the entry it was started for.                 *)
StillOurs_Always(b) == TRUE

\* "check that our ID still matches"
StillOurs(b) == active_id[slot[b]] = b

ThreadTick(b) ==
  /\ handler_mutex[slot[b]] = NONE
  /\ Step(b, "ticked", IF StillOurs(b) THEN "serve" ELSE "exited")
  /\ handler_mutex' = [handler_mutex EXCEPT ![slot[b]] =
                         IF StillOurs(b) THEN b ELSE NONE]
  /\ UNCHANGED <<entries, slot, life, dedicated, syncfunc, cancelled, users>>

\* A callback, with the time base locked.
ThreadCallback(b) ==
  /\ \/ Step(b, "serve", "callback") /\ ring[slot[b]] > 0
     \/ Step(b, "callback", "serve")
  /\ UNCHANGED <<entries, handler_mutex, slot, life, dedicated, syncfunc,
                 cancelled, users>>

ThreadUnlock(b) ==
  /\ Step(b, "serve", "sync")
  /\ handler_mutex' = [handler_mutex EXCEPT ![slot[b]] = NONE]
  /\ UNCHANGED <<entries, slot, life, dedicated, syncfunc, cancelled, users>>

\* A cancellation acts where the thread may block: in the lookup, in the
\* sync function, in the sleep and in a callback.  No cleanup handler is
\* installed for the time base lock.
ThreadCancelled(b) ==
  /\ b \in cancelled
  /\ \/ Step(b, "lookup", "exited") /\ active_id[slot[b]] = RESERVED
     \/ \E from \in {"pend", "delay", "callback"} : Step(b, from, "exited")
  /\ UNCHANGED <<entries, handler_mutex, slot, life, dedicated, syncfunc,
                 cancelled, users>>
-----------------------------------------------------------------------------
Call(u) ==
  TimeBaseCreate(u) \/ TimerAdd(u) \/ TimerDelete(u) \/ TimeBaseDelete(u)

Work(u) ==
  \/ CreateThread(u) \/ CreateSignal(u) \/ CreateTimer(u) \/ CreateFinalize(u)
  \/ CreateThreadFails(u) \/ CreateTimerFails(u) \/ CreateFail(u)
  \/ TimerCreateAdds(u) \/ AddLink(u) \/ AddFails(u) \/ TimerRelease(u)
  \/ DeleteDedicated(u) \/ DeleteGranted(u) \/ DeleteGivesUp(u)
  \/ DeleteCancel(u) \/ DeleteTimer(u) \/ DeleteFinalize(u)

Run(b) ==
  \/ ThreadLookup(b) \/ ThreadSync(b) \/ ThreadTick(b) \/ ThreadCallback(b)
  \/ ThreadUnlock(b) \/ ThreadCancelled(b)

Next ==
  \/ \E u \in Users : Call(u) \/ Work(u)
  \/ \E b \in TimeBases : Run(b) \/ ThreadGivesUp(b) \/ ThreadWakes(b)

Spec == Init /\ [][Next]_vars

(* The kernel runs every thread that can run, the priority inheriting time *)
(* base lock included, and the walk of a tick around the ring ends         *)
(* (TimerRing).  No tick is promised.                                      *)
FairSpec ==
  Spec /\ \A b \in TimeBases : SF_vars(Run(b)) /\ SF_vars(ThreadUnlock(b))
-----------------------------------------------------------------------------
(* A time base lives as long as its timers: once a delete is granted the   *)
(* ring is empty and stays empty; and the time base of OS_TimerCreate ends *)
(* with its timer: no live dedicated one is without its timer when no task *)
(* works on it.                                                            *)
LivesWithTimers ==
  /\ \A u \in Users :
       pc[u] \in {"delete_cancel", "delete_timer", "delete_finalize"} =>
         ring[slot[arg[u]]] = 0
  /\ \A b \in dedicated :
       life[b] = "live" /\ (\A u \in Users : arg[u] # b) => ring[slot[b]] = 1

(* The thread of a deleted time base never calls the timers of the time    *)
(* base that was created in its slot.                                      *)
NoForeignCallback ==
  \A b, d \in TimeBases :
    tpc[b] = "callback" /\ slot[d] = slot[b] /\ d # b => life[d] # "live"

(* The thread is started before the sync function is known, and never      *)
(* calls a NULL one.                                                       *)
SyncFunctionKnown ==
  \A b \in TimeBases :
    tpc[b] \notin {"none", "lookup", "exited"} => syncfunc[b] # "NULL"

(* The thread of a deleted time base ends.                                 *)
DeletedThreadEnds ==
  \A b \in TimeBases :
    life[b] = "ended" ~> tpc[b] \in {"none", "exited"}
=============================================================================
