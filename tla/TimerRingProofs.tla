-------------------------- MODULE TimerRingProofs --------------------------
(***************************************************************************)
(* What the timers of a time base keep for every number of timers and      *)
(* tasks, every tick length and every setting: the safety properties of    *)
(* TimerRing that do not depend on the shape of the ring.                  *)
(*                                                                         *)
(* The inductive invariant says who holds the time base lock, that a       *)
(* timer being added or deleted is reserved by one task, that the thread   *)
(* never stands on a timer that has left the ring, and where wait_time may *)
(* be negative: only for the timer being served, and not below the length  *)
(* of the tick.                                                            *)
(***************************************************************************)
EXTENDS TimerRing, TLAPS

Places ==
  /\ pc[Thread] \in ThreadPcs
  /\ \A u \in Users : pc[u] \in UserPcs /\ (pc[u] # "idle" => arg[u] \in Timers)

Locks ==
  /\ handler_mutex = Thread <=> pc[Thread] # "sync"
  /\ \A u \in Users : handler_mutex = u <=> pc[u] \in {"add_prev", "delete_next"}

Reserving == {"add_first", "add_prev", "add_finalize",
              "delete_prev", "delete_next", "delete_finalize"}

\* A timer that is being added or deleted is reserved by one task.
Owned ==
  \A u \in Users : pc[u] \in Reserving =>
    /\ active_id[arg[u]] = "reserved"
    /\ \A v \in Users : pc[v] \in Reserving /\ arg[v] = arg[u] => v = u

Walking == pc[Thread] \in {"visit", "loop", "callback", "next"}

\* The thread does not stand on a timer that has left the ring.
Token ==
  Walking =>
    /\ cb_token \in Timers
    /\ active_id[cb_token] \in {"valid", "reserved"}
    /\ \A u \in Users : pc[u] = "delete_finalize" => arg[u] # cb_token

\* Only the timer being served is behind.
Behind ==
  /\ \A c \in Timers :
       wait_time[c] < 0 => pc[Thread] \in {"loop", "callback"} /\ c = cb_token
  /\ pc[Thread] = "callback" =>
       saved_wait_time > 0 /\ wait_time[cb_token] >= -interval_time[cb_token]

\* With every callback the timer catches up by one interval.
Backlog ==
  /\ calls <= 3
  /\ pc[Thread] = "loop" =>
       /\ calls > 0 => /\ saved_wait_time > 0 /\ interval_time[cb_token] > 0
                       /\ wait_time[cb_token] >= -interval_time[cb_token]
       /\ calls > 1 => wait_time[cb_token] >= 0
       /\ calls > 2 => wait_time[cb_token] > 0
  /\ pc[Thread] = "callback" =>
       /\ calls <= 2
       /\ calls > 0 => interval_time[cb_token] > 0 /\ wait_time[cb_token] >= 0
       /\ calls > 1 => wait_time[cb_token] > 0

\* A one-shot timer that fired waits for nothing.
Spent ==
  \A c \in Timers : interval_time[c] = 0 =>
    /\ fired[c] > 0 =>
         /\ fired[c] = 1 /\ wait_time[c] <= 0
         /\ c = cb_token /\ pc[Thread] = "loop" => saved_wait_time <= 0
         /\ ~(c = cb_token /\ pc[Thread] = "callback")
    /\ c = cb_token /\ pc[Thread] = "callback" => wait_time[c] <= 0

IInv == /\ TypeOK /\ Places /\ Locks /\ Owned
        /\ Token /\ Behind /\ Backlog /\ Spent

-----------------------------------------------------------------------------
\* The invariant holds before the first timer is added.
LEMMA InitInv == Init => IInv
  BY ActorsAssumption, TimesAssumption
  DEF Init, IInv, TypeOK, Places, Locks, Owned, Reserving, Token, Walking,
      Behind, Backlog, Spent, Actors, UserPcs, ThreadPcs

\* A step of a task in the timer API keeps it.
LEMMA UserStep == ASSUME NEW a \in Users, IInv, Call(a) \/ Work(a) PROVE IInv'
<1> USE ActorsAssumption, TimesAssumption
    DEF IInv, TypeOK, Places, Actors, locks, ring, times, thread
<1>1. CASE TimerAdd(a)
  <2> USE <1>1 DEF TimerAdd, TableFree, Calls, ContextAllows
  <2>1. TypeOK'
    BY DEF Token, Walking, Behind, UserPcs, ThreadPcs
  <2>2. Places' /\ Locks'
    BY DEF Locks, UserPcs, ThreadPcs
  <2>3. Owned'
    BY DEF Owned, Reserving
  <2>4. Token'
    BY DEF Locks, Owned, Reserving, Token, Walking
  <2>5. Behind' /\ Backlog' /\ Spent'
    BY DEF Locks, Token, Walking, Behind, Backlog, Spent
  <2> HIDE <1>1 DEF TypeOK, Places
  <2> QED  BY <2>1, <2>2, <2>3, <2>4, <2>5
<1>2. CASE AddFirst(a)
  <2> USE <1>2 DEF AddFirst, Goto, Found
  <2>1. TypeOK'
    BY DEF Token, Walking, Behind, UserPcs, ThreadPcs
  <2>2. Places' /\ Locks'
    BY DEF Locks, UserPcs, ThreadPcs
  <2>3. Owned'
    BY DEF Owned, Reserving
  <2>4. Token'
    BY DEF Locks, Owned, Reserving, Token, Walking
  <2>5. Behind' /\ Backlog' /\ Spent'
    BY DEF Locks, Token, Walking, Behind, Backlog, Spent
  <2> HIDE <1>2 DEF TypeOK, Places
  <2> QED  BY <2>1, <2>2, <2>3, <2>4, <2>5
<1>3. CASE AddPrev(a)
  <2> USE <1>3 DEF AddPrev, Goto, Found
  <2>1. TypeOK'
    BY DEF Token, Walking, Behind, UserPcs, ThreadPcs
  <2>2. Places' /\ Locks'
    BY DEF Locks, UserPcs, ThreadPcs
  <2>3. Owned'
    BY DEF Owned, Reserving
  <2>4. Token'
    BY DEF Locks, Owned, Reserving, Token, Walking
  <2>5. Behind' /\ Backlog' /\ Spent'
    BY DEF Locks, Token, Walking, Behind, Backlog, Spent
  <2> HIDE <1>3 DEF TypeOK, Places
  <2> QED  BY <2>1, <2>2, <2>3, <2>4, <2>5
<1>4. CASE AddFinalize(a)
  <2> USE <1>4 DEF AddFinalize, TableFree, Return, Goto
  <2>1. TypeOK'
    BY DEF Token, Walking, Behind, UserPcs, ThreadPcs
  <2>2. Places' /\ Locks'
    BY DEF Locks, UserPcs, ThreadPcs
  <2>3. Owned'
    BY DEF Owned, Reserving
  <2>4. Token'
    BY DEF Locks, Owned, Reserving, Token, Walking
  <2>5. Behind' /\ Backlog' /\ Spent'
    BY DEF Locks, Token, Walking, Behind, Backlog, Spent
  <2> HIDE <1>4 DEF TypeOK, Places
  <2> QED  BY <2>1, <2>2, <2>3, <2>4, <2>5
<1>5. CASE TimerSet(a)
  <2> USE <1>5 DEF TimerSet, Calls, ContextAllows, Found
  <2>1. TypeOK'
    BY DEF Token, Walking, Behind, UserPcs, ThreadPcs
  <2>2. Places' /\ Locks'
    BY DEF Locks, UserPcs, ThreadPcs
  <2>3. Owned'
    BY DEF Owned, Reserving
  <2>4. Token'
    BY DEF Locks, Owned, Reserving, Token, Walking
  <2>5. Behind' /\ Backlog' /\ Spent'
    BY DEF Locks, Token, Walking, Behind, Backlog, Spent
  <2> HIDE <1>5 DEF TypeOK, Places
  <2> QED  BY <2>1, <2>2, <2>3, <2>4, <2>5
<1>6. CASE SetApply(a)
  <2> USE <1>6 DEF SetApply, Return, Goto
  <2>1. TypeOK'
    BY DEF Token, Walking, Behind, UserPcs, ThreadPcs
  <2>2. Places' /\ Locks'
    BY DEF Locks, UserPcs, ThreadPcs
  <2>3. Owned'
    BY DEF Owned, Reserving
  <2>4. Token'
    BY DEF Locks, Owned, Reserving, Token, Walking
  <2>5. Behind' /\ Backlog' /\ Spent'
    BY DEF Locks, Token, Walking, Behind, Backlog, Spent
  <2> HIDE <1>6 DEF TypeOK, Places
  <2> QED  BY <2>1, <2>2, <2>3, <2>4, <2>5
<1>7. CASE TimerDelete(a)
  <2> USE <1>7 DEF TimerDelete, TableFree, Calls, ContextAllows, Found
  <2>1. TypeOK'
    BY DEF Token, Walking, Behind, UserPcs, ThreadPcs
  <2>2. Places' /\ Locks'
    BY DEF Locks, UserPcs, ThreadPcs
  <2>3. Owned'
    BY DEF Owned, Reserving
  <2>4. Token'
    BY DEF Locks, Owned, Reserving, Token, Walking
  <2>5. Behind' /\ Backlog' /\ Spent'
    BY DEF Locks, Token, Walking, Behind, Backlog, Spent
  <2> HIDE <1>7 DEF TypeOK, Places
  <2> QED  BY <2>1, <2>2, <2>3, <2>4, <2>5
<1>8. CASE DeletePrev(a)
  <2> USE <1>8 DEF DeletePrev, Goto, Found, FirstAfterDelete
  <2>1. TypeOK'
    BY DEF Token, Walking, Behind, UserPcs, ThreadPcs
  <2>2. Places' /\ Locks'
    BY DEF Locks, UserPcs, ThreadPcs
  <2>3. Owned'
    BY DEF Owned, Reserving
  <2>4. Token'
    BY DEF Locks, Owned, Reserving, Token, Walking
  <2>5. Behind' /\ Backlog' /\ Spent'
    BY DEF Locks, Token, Walking, Behind, Backlog, Spent
  <2> HIDE <1>8 DEF TypeOK, Places
  <2> QED  BY <2>1, <2>2, <2>3, <2>4, <2>5
<1>9. CASE DeleteNext(a)
  <2> USE <1>9 DEF DeleteNext, Goto, Found
  <2>1. TypeOK'
    BY DEF Token, Walking, Behind, UserPcs, ThreadPcs
  <2>2. Places' /\ Locks'
    BY DEF Locks, UserPcs, ThreadPcs
  <2>3. Owned'
    BY DEF Owned, Reserving
  <2>4. Token'
    BY DEF Locks, Owned, Reserving, Token, Walking
  <2>5. Behind' /\ Backlog' /\ Spent'
    BY DEF Locks, Token, Walking, Behind, Backlog, Spent
  <2> HIDE <1>9 DEF TypeOK, Places
  <2> QED  BY <2>1, <2>2, <2>3, <2>4, <2>5
<1>10. CASE DeleteFinalize(a)
  <2> USE <1>10 DEF DeleteFinalize, TableFree, Return, Goto
  <2>1. TypeOK'
    BY DEF Token, Walking, Behind, UserPcs, ThreadPcs
  <2>2. Places' /\ Locks'
    BY DEF Locks, UserPcs, ThreadPcs
  <2>3. Owned'
    BY DEF Owned, Reserving
  <2>4. Token'
    BY DEF Locks, Owned, Reserving, Token, Walking
  <2>5. Behind' /\ Backlog' /\ Spent'
    BY DEF Locks, Token, Walking, Behind, Backlog, Spent
  <2> HIDE <1>10 DEF TypeOK, Places
  <2> QED  BY <2>1, <2>2, <2>3, <2>4, <2>5
<1> HIDE DEF IInv
<1> QED  BY <1>1, <1>2, <1>3, <1>4, <1>5, <1>6, <1>7, <1>8, <1>9, <1>10 DEF Call, Work

\* A step of the callback thread keeps it.
LEMMA ThreadStep == ASSUME IInv, TickBegin \/ Serve PROVE IInv'
<1> USE ActorsAssumption, TimesAssumption
    DEF IInv, TypeOK, Places, Actors, locks, ring, times, thread
<1>1. CASE TickBegin
  <2> USE <1>1 DEF TickBegin, Goto, Found
  <2>1. TypeOK'
    BY DEF Token, Walking, Behind, UserPcs, ThreadPcs
  <2>2. Places' /\ Locks'
    BY DEF Locks, UserPcs, ThreadPcs
  <2>3. Owned'
    BY DEF Owned, Reserving
  <2>4. Token'
    BY DEF Locks, Owned, Reserving, Token, Walking
  <2>5. Behind' /\ Backlog' /\ Spent'
    BY DEF Locks, Token, Walking, Behind, Backlog, Spent
  <2> HIDE <1>1 DEF TypeOK, Places
  <2> QED  BY <2>1, <2>2, <2>3, <2>4, <2>5
<1>2. CASE VisitTimer
  <2> USE <1>2 DEF VisitTimer, Goto
  <2>1. TypeOK'
    BY DEF Token, Walking, Behind, UserPcs, ThreadPcs
  <2>2. Places' /\ Locks'
    BY DEF Locks, UserPcs, ThreadPcs
  <2>3. Owned'
    BY DEF Owned, Reserving
  <2>4. Token'
    BY DEF Locks, Owned, Reserving, Token, Walking
  <2>5. Behind' /\ Backlog' /\ Spent'
    BY DEF Locks, Token, Walking, Behind, Backlog, Spent
  <2> HIDE <1>2 DEF TypeOK, Places
  <2> QED  BY <2>1, <2>2, <2>3, <2>4, <2>5
<1>3. CASE LoopStep
  <2> USE <1>3 DEF LoopStep, Goto, Capped
  <2>1. TypeOK'
    BY DEF Token, Walking, Behind, UserPcs, ThreadPcs
  <2>2. Places' /\ Locks'
    BY DEF Locks, UserPcs, ThreadPcs
  <2>3. Owned'
    BY DEF Owned, Reserving
  <2>4. Token'
    BY DEF Locks, Owned, Reserving, Token, Walking
  <2>5. Behind' /\ Backlog' /\ Spent'
    BY DEF Locks, Token, Walking, Behind, Backlog, Spent
  <2> HIDE <1>3 DEF TypeOK, Places
  <2> QED  BY <2>1, <2>2, <2>3, <2>4, <2>5
<1>4. CASE LoopEnd
  <2> USE <1>4 DEF LoopEnd, Goto
  <2>1. TypeOK'
    BY DEF Token, Walking, Behind, UserPcs, ThreadPcs
  <2>2. Places' /\ Locks'
    BY DEF Locks, UserPcs, ThreadPcs
  <2>3. Owned'
    BY DEF Owned, Reserving
  <2>4. Token'
    BY DEF Locks, Owned, Reserving, Token, Walking
  <2>5. Behind' /\ Backlog' /\ Spent'
    BY DEF Locks, Token, Walking, Behind, Backlog, Spent
  <2> HIDE <1>4 DEF TypeOK, Places
  <2> QED  BY <2>1, <2>2, <2>3, <2>4, <2>5
<1>5. CASE Callback
  <2> USE <1>5 DEF Callback, Goto
  <2>1. TypeOK'
    BY DEF Token, Walking, Behind, UserPcs, ThreadPcs
  <2>2. Places' /\ Locks'
    BY DEF Locks, UserPcs, ThreadPcs
  <2>3. Owned'
    BY DEF Owned, Reserving
  <2>4. Token'
    BY DEF Locks, Owned, Reserving, Token, Walking
  <2>5. Behind' /\ Backlog' /\ Spent'
    BY DEF Locks, Token, Walking, Behind, Backlog, Spent
  <2> HIDE <1>5 DEF TypeOK, Places
  <2> QED  BY <2>1, <2>2, <2>3, <2>4, <2>5
<1>6. CASE NextTimer
  <2> USE <1>6 DEF NextTimer, Goto, Found
  <2>1. TypeOK'
    BY DEF Token, Walking, Behind, UserPcs, ThreadPcs
  <2>2. Places' /\ Locks'
    BY DEF Locks, UserPcs, ThreadPcs
  <2>3. Owned'
    BY DEF Owned, Reserving
  <2>4. Token'
    BY DEF Locks, Owned, Reserving, Token, Walking
  <2>5. Behind' /\ Backlog' /\ Spent'
    BY DEF Locks, Token, Walking, Behind, Backlog, Spent
  <2> HIDE <1>6 DEF TypeOK, Places
  <2> QED  BY <2>1, <2>2, <2>3, <2>4, <2>5
<1>7. CASE TickEnd
  <2> USE <1>7 DEF TickEnd, Goto
  <2>1. TypeOK'
    BY DEF Token, Walking, Behind, UserPcs, ThreadPcs
  <2>2. Places' /\ Locks'
    BY DEF Locks, UserPcs, ThreadPcs
  <2>3. Owned'
    BY DEF Owned, Reserving
  <2>4. Token'
    BY DEF Locks, Owned, Reserving, Token, Walking
  <2>5. Behind' /\ Backlog' /\ Spent'
    BY DEF Locks, Token, Walking, Behind, Backlog, Spent
  <2> HIDE <1>7 DEF TypeOK, Places
  <2> QED  BY <2>1, <2>2, <2>3, <2>4, <2>5
<1> HIDE DEF IInv
<1> QED  BY <1>1, <1>2, <1>3, <1>4, <1>5, <1>6, <1>7 DEF Serve

\* Every step keeps it: the callback thread is not let into the timer API.
LEMMA NextInv == IInv /\ [Next]_vars => IInv'
<1> SUFFICES ASSUME IInv, [Next]_vars PROVE IInv'
  OBVIOUS
<1>1. ASSUME NEW a \in Actors, Call(a) \/ Work(a) PROVE IInv'
  <2>1. a # Thread
    BY <1>1, ActorsAssumption
    DEF IInv, Places, ThreadPcs, Call, Work, TimerAdd, TimerSet, TimerDelete, Calls,
        ContextAllows, AddFirst, AddPrev, AddFinalize, SetApply, DeletePrev,
        DeleteNext, DeleteFinalize, Goto, Return
  <2> QED  BY <1>1, <2>1, UserStep DEF Actors
<1>2. CASE TickBegin \/ Serve
  BY <1>2, ThreadStep
<1>3. CASE UNCHANGED vars
  BY <1>3 DEF IInv, TypeOK, Places, Locks, Owned, Token, Walking, Behind, Backlog,
              Spent, vars, locks, ring, times, thread
<1> QED  BY <1>1, <1>2, <1>3 DEF Next

\* The invariant holds in every behaviour.
LEMMA Invariance == Spec => []IInv
  BY InitInv, NextInv, PTL DEF Spec
-----------------------------------------------------------------------------
(* The fields of the timers keep their types: wait_time, which the thread  *)
(* decreases by every tick and increases by the interval, never leaves the *)
(* range of an int32 (OS_TimeBase_CallbackThread).                         *)
THEOREM TypeCorrect == Spec => []TypeOK
  BY Invariance, PTL DEF IInv

(* OS_TimerDelete returns only when the callback of the timer can no       *)
(* longer run.                                                             *)
THEOREM DeletedIsSilent == Spec => []NoCallbackAfterDelete
<1>1. IInv => NoCallbackAfterDelete
  BY DEF IInv, Token, Walking, NoCallbackAfterDelete
<1> QED  BY <1>1, Invariance, PTL

(* At most three callbacks of a timer for one tick, for every length of    *)
(* the tick and every interval.                                            *)
THEOREM LateTicksAreBounded == Spec => []BacklogBounded
<1>1. IInv => BacklogBounded
  BY DEF IInv, Backlog, BacklogBounded
<1> QED  BY <1>1, Invariance, PTL

(* A timer without an interval is called back at most once for each        *)
(* OS_TimerSet.                                                            *)
THEOREM OneShotFiresOnce == Spec => []OneShotOnce
<1>1. IInv => OneShotOnce
  BY DEF IInv, TypeOK, Spent, OneShotOnce
<1> QED  BY <1>1, Invariance, PTL

(* Nobody waits for the time base lock while holding it.                   *)
THEOREM NobodyWaitsForItself == Spec => []NoSelfDeadlock
<1>1. IInv => NoSelfDeadlock
  BY DEF IInv, Places, Locks, ThreadPcs, Actors, NoSelfDeadlock
<1> QED  BY <1>1, Invariance, PTL
=============================================================================
