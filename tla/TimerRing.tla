----------------------------- MODULE TimerRing -----------------------------
(***************************************************************************)
(* The timers of one time base: OS_TimerAdd, OS_TimerSet and               *)
(* OS_TimerDelete (src/os/shared/src/osapi-time.c) and the thread that     *)
(* serves the ticks (OS_TimeBase_CallbackThread in osapi-timebase.c).      *)
(*                                                                         *)
(* The timers form a doubly linked ring of object ids that starts at       *)
(* first_cb.  All links are read and written under handler_mutex.  The     *)
(* ids in the ring are looked up with OS_LOCK_MODE_NONE, which finds an    *)
(* entry only while its active_id is valid; and that changes under another *)
(* lock, the one of the timer table: an entry is RESERVED from allocation  *)
(* to OS_ObjectIdFinalizeNew, and during its deletion.                     *)
(***************************************************************************)
EXTENDS Integers, FiniteSets

CONSTANTS
  Timers,     \* the timer ids; an id is issued once
  Users,      \* application tasks that call the timer API
  Thread,     \* the callback thread of the time base
  NONE,       \* OS_OBJECT_ID_UNDEFINED, and "nobody" for the mutexes
  IntMax,     \* INT32_MAX
  TickTimes,  \* what the sync function may return
  Settings    \* the <<start_time, interval_time>> that OS_TimerSet is given

ASSUME ActorsAssumption ==
  Thread \notin Users /\ NONE \notin Users \cup {Thread} \cup Timers
ASSUME TimesAssumption ==
  /\ IntMax \in Nat /\ TickTimes \subseteq 0..IntMax
  /\ Settings \subseteq (0..IntMax) \X (0..IntMax)
  /\ \A s \in Settings : s[1] # 0 \/ s[2] # 0

VARIABLES
  active_id,      \* timer -> "unused", "reserved", "valid" or "deleted"
  table_mutex,    \* the lock of the timer table
  handler_mutex,  \* the lock of the time base
  first_cb,       \* OS_timebase_internal_record_t.first_cb
  prev_cb,        \* timer -> OS_timecb_internal_record_t.prev_cb
  next_cb,        \* timer -> next_cb
  wait_time,      \* timer -> wait_time
  interval_time,  \* timer -> interval_time
  pc,             \* actor -> where it is
  arg,            \* user -> the timer it adds, sets or deletes
  tick_time,      \* the thread's tick_time
  cb_token,       \* the timer the thread works on
  saved_wait_time,\* the thread's saved_wait_time
  calls,          \* callbacks of that timer in this tick
  fired           \* timer -> callbacks since it was set, counted up to 2

ring   == <<first_cb, prev_cb, next_cb>>
times  == <<wait_time, interval_time>>
locks  == <<table_mutex, handler_mutex>>
thread == <<tick_time, cb_token, saved_wait_time, calls>>
vars   == <<active_id, locks, ring, times, pc, arg, thread, fired>>

Actors == Users \cup {Thread}
UserPcs == {"idle", "add_first", "add_prev", "add_finalize", "set_apply",
            "delete_prev", "delete_next", "delete_finalize"}
ThreadPcs == {"sync", "visit", "loop", "callback", "next", "end"}

TypeOK ==
  /\ active_id \in [Timers -> {"unused", "reserved", "valid", "deleted"}]
  /\ table_mutex \in Actors \cup {NONE} /\ handler_mutex \in Actors \cup {NONE}
  /\ first_cb \in Timers \cup {NONE}
  /\ prev_cb \in [Timers -> Timers] /\ next_cb \in [Timers -> Timers]
  /\ wait_time \in [Timers -> -IntMax..IntMax]
  /\ interval_time \in [Timers -> 0..IntMax]
  /\ pc \in [Actors -> UserPcs \cup ThreadPcs]
  /\ arg \in [Actors -> Timers \cup {NONE}]
  /\ tick_time \in TickTimes \cup {0}
  /\ cb_token \in Timers \cup {NONE}
  /\ saved_wait_time \in -IntMax..IntMax
  /\ calls \in Nat /\ fired \in [Timers -> 0..2]

Init ==
  /\ active_id = [c \in Timers |-> "unused"]
  /\ table_mutex = NONE /\ handler_mutex = NONE
  /\ first_cb = NONE
  /\ prev_cb = [c \in Timers |-> c] /\ next_cb = [c \in Timers |-> c]
  /\ wait_time = [c \in Timers |-> 0]
  /\ interval_time = [c \in Timers |-> 0]
  /\ pc = [a \in Actors |-> IF a = Thread THEN "sync" ELSE "idle"]
  /\ arg = [a \in Actors |-> NONE]
  /\ tick_time = 0 /\ cb_token = NONE /\ saved_wait_time = 0 /\ calls = 0
  /\ fired = [c \in Timers |-> 0]

Goto(a, from, to) == pc[a] = from /\ pc' = [pc EXCEPT ![a] = to]
Return(a, from) == Goto(a, from, "idle") /\ arg' = [arg EXCEPT ![a] = NONE]

\* OS_ObjectIdGetById with OS_LOCK_MODE_NONE.
Found(id) == id # NONE /\ active_id[id] = "valid"

\* A transaction on the timer table that ends within one step.
TableFree == table_mutex = NONE /\ UNCHANGED table_mutex

-----------------------------------------------------------------------------
(* The timer API, called by a task or from a callback.                     *)

\* Not allowed to use the timer API from a timer callback.
ContextAllows(a) == a # Thread

Calls(a, to, c) ==
  /\ pc[a] \in {"idle", "callback"} /\ ContextAllows(a)
  /\ pc' = [pc EXCEPT ![a] = to]
  /\ arg' = [arg EXCEPT ![a] = c]

\* OS_DoTimerAdd up to the time base lock: the timer is allocated with its
\* links to itself.
TimerAdd(a) ==
  \E c \in Timers :
    /\ active_id[c] = "unused" /\ TableFree
    /\ Calls(a, "add_first", c)
    /\ active_id' = [active_id EXCEPT ![c] = "reserved"]
    /\ prev_cb' = [prev_cb EXCEPT ![c] = c]
    /\ next_cb' = [next_cb EXCEPT ![c] = c]
    /\ UNCHANGED <<handler_mutex, first_cb, times, thread, fired>>

\* Under the time base lock: look up the first timer of the ring.
AddFirst(a) ==
  LET c == arg[a] IN
  /\ handler_mutex = NONE
  /\ IF Found(first_cb)
       THEN /\ Goto(a, "add_first", "add_prev")
            /\ handler_mutex' = a
            /\ next_cb' = [next_cb EXCEPT ![c] = first_cb]
            /\ prev_cb' = [prev_cb EXCEPT ![c] = prev_cb[first_cb]]
            /\ UNCHANGED first_cb
       ELSE /\ Goto(a, "add_first", "add_finalize")
            /\ first_cb' = c
            /\ UNCHANGED <<handler_mutex, prev_cb, next_cb>>
  /\ UNCHANGED <<active_id, table_mutex, times, arg, thread, fired>>

\* Look up the last one, link the new timer between the two and make it the
\* first; release the time base lock.
AddPrev(a) ==
  LET c == arg[a] IN
  /\ Goto(a, "add_prev", "add_finalize")
  /\ IF Found(prev_cb[c])
       THEN /\ prev_cb' = [prev_cb EXCEPT ![next_cb[c]] = c]
            /\ next_cb' = [next_cb EXCEPT ![prev_cb[c]] = c]
       ELSE UNCHANGED <<prev_cb, next_cb>>
  /\ first_cb' = c /\ handler_mutex' = NONE
  /\ UNCHANGED <<active_id, table_mutex, times, arg, thread, fired>>

\* OS_ObjectIdFinalizeNew: now the id can be looked up.
AddFinalize(a) ==
  /\ Return(a, "add_finalize")
  /\ TableFree
  /\ active_id' = [active_id EXCEPT ![arg[a]] = "valid"]
  /\ UNCHANGED <<handler_mutex, ring, times, thread, fired>>

\* OS_TimerSet keeps the table lock while it waits for the time base lock.
TimerSet(a) ==
  \E c \in Timers :
    /\ table_mutex = NONE /\ Found(c)
    /\ Calls(a, "set_apply", c)
    /\ table_mutex' = a
    /\ UNCHANGED <<active_id, handler_mutex, ring, times, thread, fired>>

SetApply(a) ==
  /\ Return(a, "set_apply")
  /\ handler_mutex = NONE
  /\ \E s \in Settings :
       /\ wait_time' = [wait_time EXCEPT ![arg[a]] = s[1]]
       /\ interval_time' = [interval_time EXCEPT ![arg[a]] = s[2]]
  /\ fired' = [fired EXCEPT ![arg[a]] = 0]
  /\ table_mutex' = NONE
  /\ UNCHANGED <<active_id, handler_mutex, ring, thread>>

\* OS_TimerDelete: the exclusive transaction withdraws the id.
TimerDelete(a) ==
  \E c \in Timers :
    /\ TableFree /\ Found(c)
    /\ Calls(a, "delete_prev", c)
    /\ active_id' = [active_id EXCEPT ![c] = "reserved"]
    /\ UNCHANGED <<handler_mutex, ring, times, thread, fired>>

(* Mutant: the ring start is left alone.                                   *)
FirstAfterDelete_Kept(c) == first_cb

FirstAfterDelete(c) ==
  IF first_cb # c THEN first_cb
  ELSE IF next_cb[c] = c THEN NONE ELSE next_cb[c]

(* Mutant: the ring is changed without the time base lock.                 *)
DeletePrev_Unlocked(a) ==
  LET c == arg[a] IN
  /\ Goto(a, "delete_prev", "delete_next")
  /\ first_cb' = FirstAfterDelete(c)
  /\ next_cb' = IF Found(prev_cb[c])
                  THEN [next_cb EXCEPT ![prev_cb[c]] = next_cb[c]] ELSE next_cb
  /\ UNCHANGED <<active_id, locks, prev_cb, times, arg, thread, fired>>

\* Under the time base lock: correct first_cb and the timer before ...
DeletePrev(a) ==
  LET c == arg[a] IN
  /\ handler_mutex = NONE /\ handler_mutex' = a
  /\ Goto(a, "delete_prev", "delete_next")
  /\ first_cb' = FirstAfterDelete(c)
  /\ next_cb' = IF Found(prev_cb[c])
                  THEN [next_cb EXCEPT ![prev_cb[c]] = next_cb[c]] ELSE next_cb
  /\ UNCHANGED <<active_id, table_mutex, prev_cb, times, arg, thread, fired>>

\* ... then the timer after; release the time base lock.
DeleteNext(a) ==
  LET c == arg[a]
      after == IF Found(next_cb[c])
                 THEN [prev_cb EXCEPT ![next_cb[c]] = prev_cb[c]] ELSE prev_cb
  IN
  /\ Goto(a, "delete_next", "delete_finalize")
  /\ prev_cb' = [after EXCEPT ![c] = c]
  /\ next_cb' = [next_cb EXCEPT ![c] = c]
  /\ handler_mutex' = NONE
  /\ UNCHANGED <<active_id, table_mutex, first_cb, times, arg, thread, fired>>

\* OS_ObjectIdFinalizeDelete
DeleteFinalize(a) ==
  /\ Return(a, "delete_finalize")
  /\ TableFree
  /\ active_id' = [active_id EXCEPT ![arg[a]] = "deleted"]
  /\ UNCHANGED <<handler_mutex, ring, times, thread, fired>>

-----------------------------------------------------------------------------
(* OS_TimeBase_CallbackThread, from the return of the sync function.       *)

TickBegin ==
  /\ handler_mutex = NONE /\ handler_mutex' = Thread
  /\ \E d \in TickTimes : tick_time' = d
  /\ IF Found(first_cb)
       THEN Goto(Thread, "sync", "visit") /\ cb_token' = first_cb
       ELSE Goto(Thread, "sync", "end") /\ UNCHANGED cb_token
  /\ UNCHANGED <<active_id, table_mutex, ring, times, arg, saved_wait_time,
                 calls, fired>>

VisitTimer ==
  /\ Goto(Thread, "visit", "loop")
  /\ saved_wait_time' = wait_time[cb_token]
  /\ wait_time' = [wait_time EXCEPT ![cb_token] = @ - tick_time]
  /\ calls' = 0
  /\ UNCHANGED <<active_id, locks, ring, interval_time, arg, tick_time,
                 cb_token, fired>>

\* Only as far negative as one interval.
Capped(wait, interval) == IF wait < -interval THEN -interval ELSE wait

(* Mutant: the backlog is not limited.                                     *)
LoopStep_NoCap ==
  LET interval == interval_time[cb_token]
      wait == wait_time[cb_token] + interval
  IN
  /\ Goto(Thread, "loop", IF saved_wait_time > 0 THEN "callback"
                          ELSE IF interval <= 0 THEN "next" ELSE "loop")
  /\ wait_time[cb_token] <= 0
  /\ wait_time' = [wait_time EXCEPT ![cb_token] = wait]
  /\ UNCHANGED <<active_id, locks, ring, interval_time, arg, thread, fired>>

\* The body of the loop up to the callback, which is given only when the
\* wait time went from positive to zero or below in this tick.
LoopStep ==
  LET interval == interval_time[cb_token]
      wait == wait_time[cb_token] + interval
  IN
  /\ Goto(Thread, "loop", IF saved_wait_time > 0 THEN "callback"
                          ELSE IF interval <= 0 THEN "next" ELSE "loop")
  /\ wait_time[cb_token] <= 0
  /\ wait_time' = [wait_time EXCEPT ![cb_token] = Capped(wait, interval)]
  /\ UNCHANGED <<active_id, locks, ring, interval_time, arg, thread, fired>>

LoopEnd ==
  /\ Goto(Thread, "loop", "next")
  /\ wait_time[cb_token] > 0
  /\ UNCHANGED <<active_id, locks, ring, times, arg, thread, fired>>

\* The callback runs, with the time base locked.
Callback ==
  /\ Goto(Thread, "callback", IF interval_time[cb_token] <= 0 THEN "next" ELSE "loop")
  /\ calls' = calls + 1
  /\ fired' = [fired EXCEPT ![cb_token] = IF @ < 2 THEN @ + 1 ELSE 2]
  /\ UNCHANGED <<active_id, locks, ring, times, arg, tick_time, cb_token,
                 saved_wait_time>>

\* The next timer, until one is not found or the ring is closed.
NextTimer ==
  LET next == next_cb[cb_token]
      more == Found(next) /\ next # first_cb
  IN
  /\ Goto(Thread, "next", IF more THEN "visit" ELSE "end")
  /\ cb_token' = IF more THEN next ELSE cb_token
  /\ UNCHANGED <<active_id, locks, ring, times, arg, tick_time,
                 saved_wait_time, calls, fired>>

TickEnd ==
  /\ Goto(Thread, "end", "sync")
  /\ handler_mutex' = NONE
  /\ tick_time' = 0 /\ cb_token' = NONE /\ saved_wait_time' = 0 /\ calls' = 0
  /\ UNCHANGED <<active_id, table_mutex, ring, times, arg, fired>>
-----------------------------------------------------------------------------
Call(a) == TimerAdd(a) \/ TimerSet(a) \/ TimerDelete(a)

Work(a) ==
  \/ AddFirst(a) \/ AddPrev(a) \/ AddFinalize(a) \/ SetApply(a)
  \/ DeletePrev(a) \/ DeleteNext(a) \/ DeleteFinalize(a)

Serve ==
  \/ VisitTimer \/ LoopStep \/ LoopEnd \/ Callback \/ NextTimer \/ TickEnd

Next == (\E a \in Actors : Call(a) \/ Work(a)) \/ TickBegin \/ Serve

Spec == Init /\ [][Next]_vars

(* The kernel runs every thread that can run.  The time base lock is a     *)
(* priority inheriting mutex and the callback thread has the highest       *)
(* priority, so nobody keeps passing it by.                                *)
FairSpec ==
  /\ Spec
  /\ WF_vars(Serve) /\ SF_vars(TickBegin)
  /\ \A a \in Users : SF_vars(Work(a))
-----------------------------------------------------------------------------
\* The timers on the way from c.
Reach(c) ==
  LET Walk[n \in 0..Cardinality(Timers)] ==
        IF n = 0 THEN {c}
        ELSE Walk[n - 1] \cup {next_cb[d] : d \in Walk[n - 1]}
  IN Walk[Cardinality(Timers)]

InRing == IF first_cb = NONE THEN {} ELSE Reach(first_cb)

(* Every timer that OS_TimerAdd has returned, and that nobody deletes, is  *)
(* in the ring, whatever was added and deleted around it.                  *)
EveryTimerInRing == \A c \in Timers : active_id[c] = "valid" => c \in InRing

(* The callback of a timer is never running when its deletion has          *)
(* returned, although the thread holds no reference to the timer.          *)
NoCallbackAfterDelete ==
  pc[Thread] \in {"visit", "loop", "callback", "next"} =>
    active_id[cb_token] \in {"valid", "reserved"}

(* However late a tick is, a timer is called back at most three times for  *)
(* it: the backlog is limited to one interval.                             *)
BacklogBounded == calls <= 3

(* A one-shot timer is called back at most once after it was set.          *)
OneShotOnce ==
  \A c \in Timers : interval_time[c] = 0 => fired[c] <= 1

(* No actor waits for the time base lock while it holds it, which is what  *)
(* the context check of the timer API is for.                              *)
NoSelfDeadlock ==
  \A a \in Actors :
    handler_mutex = a => pc[a] \notin {"add_first", "set_apply", "delete_prev"}

(* A timer that was set is called back, set again or deleted.              *)
TimerFires ==
  \A c \in Timers :
    (active_id[c] = "valid" /\ wait_time[c] > 0 /\ fired[c] = 0)
      ~> (fired[c] > 0 \/ active_id[c] # "valid"
            \/ \E a \in Users : pc[a] = "set_apply" /\ arg[a] = c)
=============================================================================
