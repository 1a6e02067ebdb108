--------------------------- MODULE TimeBaseProofs ---------------------------
(***************************************************************************)
(* The safety properties of TimeBase for every number of time bases,       *)
(* slots, tasks, timers and signals.                                       *)
(*                                                                         *)
(* The inductive invariant says who may work on an entry, that the         *)
(* references of a time base are its timers and the tasks that add or      *)
(* delete one, and what the callback thread may rely on while it holds the *)
(* time base lock.                                                         *)
(***************************************************************************)
EXTENDS TimeBase, FiniteSetTheorems, WellFoundedInduction, TLAPS

USE ZenonT(60)

CreatePcs  == {"create_thread", "create_signal", "create_timer", "create_fail",
               "create_finalize"}
GrantedPcs == {"delete_cancel", "delete_timer", "delete_finalize"}
TimerPcs   == {"add_link", "timer_release"}

\* A task that has an entry for itself, or waits to.
Reserving(u) == pc[u] \in CreatePcs \cup GrantedPcs \cup {"delete_wait"}

\* The tasks that add a timer to time base b or delete one.
Working(b) == {u \in Users : arg[u] = b /\ pc[u] \in TimerPcs}

Alive(b) == life[b] \in {"creating", "live"}

\* Where a task is tells what it works on.
Places ==
  \A u \in Users :
    /\ pc[u] = "idle" <=> arg[u] = NONE
    /\ pc[u] \in CreatePcs => life[arg[u]] = "creating"
    /\ pc[u] \notin CreatePcs \cup {"idle"} => life[arg[u]] = "live"
    /\ pc[u] \in {"add_ref", "delete_try"} => arg[u] \in dedicated
    /\ pc[u] = "delete_wait" => arg[u] \notin dedicated
    /\ pc[u] = "create_finalize" => external_sync[slot[arg[u]]] # "NULL"
    /\ Reserving(u) =>
         /\ active_id[slot[arg[u]]] = RESERVED
         /\ \A v \in Users : Reserving(v) /\ arg[v] = arg[u] => v = u

\* A slot has at most one time base, and shows its id or RESERVED.
EntryOf(b) ==
  /\ life[b] = "creating" => active_id[slot[b]] = RESERVED
  /\ life[b] = "live" => /\ active_id[slot[b]] \in {b, RESERVED}
                         /\ external_sync[slot[b]] # "NULL"
  /\ active_id[slot[b]] = b => life[b] = "live"
  /\ \A d \in TimeBases :
       Alive(b) /\ Alive(d) /\ slot[d] = slot[b] => d = b

\* The references of a time base are its timers, and the tasks that are about
\* to add or have just deleted one; a delete that was granted has found none.
CountOf(b) ==
  /\ life[b] = "creating" => refcount[slot[b]] = 1 /\ ring[slot[b]] = 0
  /\ life[b] = "live" =>
       /\ ring[slot[b]] + Cardinality(Working(b)) <= MaxTimers
       /\ (\A u \in Users : arg[u] = b => pc[u] \notin GrantedPcs) =>
            refcount[slot[b]] = ring[slot[b]] + Cardinality(Working(b))
  /\ \A u \in Users : arg[u] = b /\ pc[u] \in GrantedPcs =>
       refcount[slot[b]] = 1 /\ ring[slot[b]] = 0 /\ Working(b) = {}

\* A dedicated time base has its timer, or one task works on it.
DedicatedOf(b) ==
  b \in dedicated /\ life[b] = "live" =>
    \/ ring[slot[b]] = 1 /\ \A u \in Users : arg[u] # b
    \/ /\ ring[slot[b]] = 0
       /\ \E u \in Users : arg[u] = b /\ \A v \in Users : arg[v] = b => v = u

Bases == \A b \in TimeBases : EntryOf(b) /\ CountOf(b) /\ DedicatedOf(b)

\* What a callback thread has found out stays true while it has the lock.
Threads ==
  \A b \in TimeBases :
    /\ tpc[b] \in {"serve", "callback"} => handler_mutex[slot[b]] = b
    /\ tpc[b] = "serve" => life[b] = "live" \/ ring[slot[b]] = 0
    /\ tpc[b] = "callback" => life[b] = "live" /\ ring[slot[b]] > 0

IInv == TypeOK /\ Places /\ Bases /\ Threads /\ SyncFunctionKnown

-----------------------------------------------------------------------------
(* Facts about the operators.                                              *)

\* A nonempty set of numbers has a least one.
LEMMA MinIn ==
  ASSUME NEW S \in SUBSET Nat, S # {}
  PROVE  Min(S) \in S
<1>1. PICK s \in S : \A r \in S : ~ (<<r, s>> \in OpToRel(<, Nat))
  BY WFMin, NatLessThanWellFounded
<1>2. ASSUME NEW r \in S PROVE s <= r
  <2>1. <<r, s>> \in Nat \X Nat /\ ~ (<<r, s>> \in {p \in Nat \X Nat : p[1] < p[2]})
    BY <1>1 DEF OpToRel
  <2>. QED
    BY <2>1, SMTT(30)
<1>. QED
  BY <1>2 DEF Min

\* A signal that CreateSignal assigns is one of the real-time signals.
LEMMA FreeSignal == FreeSignals # {} => Min(FreeSignals) \in Signals
<1>1. FreeSignals \subseteq Signals /\ FreeSignals \in SUBSET Nat
  BY SizesAssumption DEF FreeSignals
<1>. QED
  BY <1>1, MinIn

\* Counting the tasks at work on the timers of a time base.
LEMMA WorkingFinite ==
  ASSUME NEW b
  PROVE  /\ IsFiniteSet(Working(b)) /\ Cardinality(Working(b)) \in Nat
         /\ Cardinality(Working(b)) = 0 <=> Working(b) = {}
<1>1. IsFiniteSet(Working(b))
  BY SizesAssumption, FS_Subset DEF Working
<1>. QED
  BY <1>1, FS_CardinalityType, FS_EmptySet

\* A step of one task changes the count by that task.
LEMMA WorkingStep ==
  ASSUME NEW u \in Users, NEW b,
         \A v \in Users \ {u} : pc'[v] = pc[v] /\ arg'[v] = arg[v]
  PROVE  /\ \A v \in Users \ {u} : v \in Working(b)' <=> v \in Working(b)
         /\ u \in Working(b)' /\ u \notin Working(b) =>
              Cardinality(Working(b)') = Cardinality(Working(b)) + 1
         /\ u \notin Working(b)' /\ u \in Working(b) =>
              Cardinality(Working(b)') = Cardinality(Working(b)) - 1
         /\ (u \in Working(b)' <=> u \in Working(b)) =>
              Working(b)' = Working(b)
<1>1. \A v \in Users \ {u} : v \in Working(b)' <=> v \in Working(b)
  BY DEF Working
<1>2. IsFiniteSet(Working(b)) /\ Working(b) \subseteq Users /\ Working(b)' \subseteq Users
  BY WorkingFinite DEF Working
<1>3. CASE u \in Working(b)' /\ u \notin Working(b)
  <2>1. Working(b)' = Working(b) \cup {u}
    BY <1>1, <1>2, <1>3
  <2>2. Cardinality(Working(b)') = Cardinality(Working(b)) + 1
    BY <1>2, <1>3, <2>1, FS_AddElement
  <2>. QED
    BY <1>1, <1>3, <2>2
<1>4. CASE u \notin Working(b)' /\ u \in Working(b)
  <2>1. Working(b)' = Working(b) \ {u}
    BY <1>1, <1>2, <1>4
  <2>2. Cardinality(Working(b)') = Cardinality(Working(b)) - 1
    BY <1>2, <1>4, <2>1, FS_RemoveElement
  <2>. QED
    BY <1>1, <1>4, <2>2
<1>5. CASE u \in Working(b)' <=> u \in Working(b)
  BY <1>1, <1>2, <1>5, SMTT(30)
<1>. QED
  BY <1>3, <1>4, <1>5

-----------------------------------------------------------------------------
\* Task u works on time base b, and the step changes the entry of b only.
Touches(u, b) ==
  /\ \A v \in Users \ {u} : pc'[v] = pc[v] /\ arg'[v] = arg[v]
  /\ arg[u] \in {b, NONE} /\ arg'[u] \in {b, NONE} /\ slot' = slot
  /\ \A s \in Slots \ {slot[b]} :
       /\ active_id'[s] = active_id[s] /\ refcount'[s] = refcount[s]
       /\ external_sync'[s] = external_sync[s] /\ ring'[s] = ring[s]
  /\ \A d \in TimeBases \ {b} : life'[d] = life[d] /\ (d \in dedicated' <=> d \in dedicated)
  /\ Alive(b) \/ active_id[slot[b]] = NONE
  /\ active_id'[slot[b]] \in {b, NONE, RESERVED}

\* Then what holds of the other time bases goes on to hold.
LEMMA Others ==
  ASSUME NEW u \in Users, NEW b \in TimeBases, IInv, Touches(u, b),
         NEW d \in TimeBases \ {b}
  PROVE  /\ EntryOf(d)' /\ CountOf(d)' /\ DedicatedOf(d)'
         /\ Alive(d) => slot[d] # slot[b]
<1>1. TypeOK /\ EntryOf(d) /\ CountOf(d) /\ DedicatedOf(d) /\ EntryOf(b)
  BY DEF IInv, Bases
<1>2. Alive(d) => slot[d] # slot[b]
  BY <1>1, IdsAssumption DEF EntryOf, Alive, Touches
<1>3. (Alive(d)' <=> Alive(d)) /\ slot[d] \in Slots /\ slot' = slot
  BY <1>1 DEF Alive, Touches, TypeOK
<1>4. EntryOf(d)'
  <2>1. \A e \in TimeBases : Alive(d)' /\ Alive(e)' /\ slot[e] = slot[d] => e = d
    BY <1>1, <1>2, <1>3 DEF EntryOf, Alive, Touches
  <2>. QED
    BY <1>1, <1>3, IdsAssumption, SMTT(30) DEF EntryOf, Alive, Touches
<1>5. Working(d)' = Working(d)
  BY IdsAssumption, SMTT(30) DEF Working, Touches
<1>6. \A v \in Users : (arg'[v] = d <=> arg[v] = d) /\ (arg[v] = d => pc'[v] = pc[v])
  BY IdsAssumption DEF Touches, TypeOK
<1>7. CountOf(d)'
  BY <1>1, <1>2, <1>3, <1>5, <1>6, SMTT(30)
  DEF IInv, Places, GrantedPcs, CountOf, Alive, Touches
<1>8. DedicatedOf(d)'
  BY <1>1, <1>2, <1>3, <1>6, SMTT(30) DEF DedicatedOf, Alive, Touches
<1>. QED
  BY <1>2, <1>4, <1>7, <1>8

\* The invariant holds before the first time base is created.
LEMMA InitInv == Init => IInv
  BY IdsAssumption, SizesAssumption, SMTT(30)
  DEF Init, IInv, TypeOK, Places, Reserving, CreatePcs, GrantedPcs, Alive,
      Bases, EntryOf, CountOf, DedicatedOf, Threads, SyncFunctionKnown,
      UserPcs, ThreadPcs

LEMMA TimeBaseCreateInv == ASSUME NEW u \in Users, IInv, TimeBaseCreate(u) PROVE IInv'
<1>1. TypeOK /\ Places /\ Bases /\ Threads /\ SyncFunctionKnown
  BY DEF IInv
<1>2. PICK b \in TimeBases, sync \in {"NULL", "external"} :
        LET s == slot[b] IN
        /\ Begin(u, "create_thread", b)
        /\ life[b] = "unused" /\ active_id[s] = NONE
        /\ life' = [life EXCEPT ![b] = "creating"]
        /\ dedicated' \in {dedicated, dedicated \cup {b}}
        /\ active_id' = [active_id EXCEPT ![s] = RESERVED]
        /\ refcount' = [refcount EXCEPT ![s] = 1]
        /\ external_sync' = [external_sync EXCEPT ![s] = sync]
        /\ ring' = [ring EXCEPT ![s] = 0]
        /\ UNCHANGED <<handler_mutex, assigned_signal, slot, threads>>
  BY DEF TimeBaseCreate
<1>3. EntryOf(b) /\ CountOf(b) /\ DedicatedOf(b)
  BY <1>1 DEF Bases
<1>4. Touches(u, b)
  BY <1>1, <1>2, <1>3, SMTT(30) DEF Touches, Places, Begin
<1>5. Working(b)' = Working(b)
  <2>1. u \in Working(b)' <=> u \in Working(b)
    BY <1>1, <1>2 DEF Working, TimerPcs, TypeOK, Begin
  <2>. QED
    BY <1>4, <2>1, WorkingStep DEF Touches
<1>6. TypeOK'
  BY <1>1, <1>2, SizesAssumption, SMTT(30)
  DEF TypeOK, UserPcs, ThreadPcs, Begin, threads
<1>7. Places'
  BY <1>1, <1>2, <1>3, IdsAssumption, SMTT(30)
  DEF Touches, TypeOK, Places, Reserving, CreatePcs, GrantedPcs, EntryOf, Begin
<1>8. EntryOf(b)'
  BY <1>1, <1>2, <1>3, <1>4, Others, IdsAssumption, SMTT(30)
  DEF TypeOK, CreatePcs, GrantedPcs, EntryOf, Alive
<1>9. CountOf(b)'
  BY <1>1, <1>2, <1>3, <1>5 DEF TypeOK, GrantedPcs, CountOf, Begin
<1>10. DedicatedOf(b)'
  BY <1>1, <1>2 DEF DedicatedOf, TypeOK
<1>11. Threads' /\ SyncFunctionKnown'
  BY <1>1, <1>2, <1>3, <1>4, Others, SMTT(30)
  DEF Threads, SyncFunctionKnown, Places, CountOf, Alive, threads
<1>. QED
  BY <1>4, <1>6, <1>7, <1>8, <1>9, <1>10, <1>11, Others DEF IInv, Bases

LEMMA CreateThreadInv == ASSUME NEW u \in Users, IInv, CreateThread(u) PROVE IInv'
<1>1. TypeOK /\ Places /\ Bases /\ Threads /\ SyncFunctionKnown
  BY DEF IInv
<1>2. PICK b \in TimeBases : b = arg[u]
  BY <1>1, SMTT(30) DEF TypeOK, Places, CreateThread, Goto
<1>3. EntryOf(b) /\ CountOf(b) /\ DedicatedOf(b)
  BY <1>1 DEF Bases
<1>4. Touches(u, b)
  BY <1>1, <1>2, <1>3, IdsAssumption
  DEF Touches, TypeOK, Alive, Places, EntryOf, CreateThread, Goto
<1>5. Working(b)' = Working(b)
  <2>1. u \in Working(b)' <=> u \in Working(b)
    BY <1>1 DEF Working, TimerPcs, CreateThread, Goto, TypeOK
  <2>. QED
    BY <1>4, <2>1, WorkingStep DEF Touches
<1>6. TypeOK'
  BY <1>1, <1>2 DEF TypeOK, UserPcs, ThreadPcs, CreateThread, Goto
<1>7. Places'
  BY <1>1, <1>3, SMTT(30)
  DEF TypeOK, Places, Reserving, CreatePcs, Alive, CreateThread, Goto
<1>8. EntryOf(b)'
  BY <1>3, <1>4, Others, IdsAssumption
  DEF GrantedPcs, EntryOf, CreateThread, Goto
<1>9. CountOf(b)'
  BY <1>1, <1>2, <1>3, <1>5
  DEF TypeOK, Reserving, GrantedPcs, CountOf, CreateThread, Goto
<1>10. DedicatedOf(b)'
  BY <1>2, <1>3, <1>4, IdsAssumption
  DEF CreatePcs, DedicatedOf, CreateThread, Goto
<1>11. Threads' /\ SyncFunctionKnown'
  BY <1>1, <1>2 DEF TypeOK, Threads, SyncFunctionKnown, CreateThread
<1>. QED
  BY <1>4, <1>6, <1>7, <1>8, <1>9, <1>10, <1>11, Others DEF IInv, Bases

LEMMA CreateThreadFailsInv == ASSUME NEW u \in Users, IInv, CreateThreadFails(u) PROVE IInv'
<1>1. TypeOK /\ Places /\ Bases /\ Threads /\ SyncFunctionKnown
  BY DEF IInv
<1>2. PICK b \in TimeBases : b = arg[u]
  BY <1>1, SMTT(30) DEF TypeOK, Places, CreateThreadFails, Goto
<1>3. EntryOf(b) /\ CountOf(b) /\ DedicatedOf(b)
  BY <1>1 DEF Bases
<1>4. Touches(u, b)
  BY <1>1, <1>2, <1>3, IdsAssumption
  DEF Touches, TypeOK, Alive, Places, CreatePcs, EntryOf, CreateThreadFails,
      Goto
<1>5. Working(b)' = Working(b)
  <2>1. u \in Working(b)' <=> u \in Working(b)
    BY <1>1 DEF Working, TimerPcs, CreateThreadFails, Goto, TypeOK
  <2>. QED
    BY <1>4, <2>1, WorkingStep DEF Touches
<1>6. TypeOK'
  BY <1>1, <1>2, IdsAssumption, SizesAssumption
  DEF TypeOK, UserPcs, ThreadPcs, CreateThreadFails, Goto, threads
<1>7. Places'
  BY <1>1, <1>3, <1>4, SMTT(30)
  DEF Touches, TypeOK, Places, Reserving, CreatePcs, GrantedPcs, EntryOf,
      Alive, CreateThreadFails, Goto
<1>8. EntryOf(b)'
  BY <1>1, <1>2, <1>4
  DEF TypeOK, Places, CreatePcs, GrantedPcs, EntryOf, Alive, CreateThreadFails,
      Goto
<1>9. CountOf(b)'
  BY <1>1, <1>2, <1>3, <1>4, <1>5, IdsAssumption, SizesAssumption, SMTT(30)
  DEF TypeOK, Places, CreatePcs, GrantedPcs, EntryOf, CountOf,
      CreateThreadFails, Goto
<1>10. DedicatedOf(b)'
  BY <1>1, <1>2 DEF DedicatedOf, CreateThreadFails, TypeOK
<1>11. Threads' /\ SyncFunctionKnown'
  BY <1>1, <1>3, <1>4, IdsAssumption, SMTT(30)
  DEF TypeOK, Threads, SyncFunctionKnown, Places, CreatePcs, GrantedPcs,
      CountOf, Touches, Alive, CreateThreadFails, Goto, threads
<1>. QED
  BY <1>4, <1>6, <1>7, <1>8, <1>9, <1>10, <1>11, Others DEF IInv, Bases

LEMMA CreateSignalInv == ASSUME NEW u \in Users, IInv, CreateSignal(u) PROVE IInv'
<1>1. TypeOK /\ Places /\ Bases /\ Threads /\ SyncFunctionKnown
  BY DEF IInv
<1>2. PICK b \in TimeBases : b = arg[u]
  BY <1>1, SMTT(30) DEF TypeOK, Places, CreateSignal, Goto
<1>3. EntryOf(b) /\ CountOf(b) /\ DedicatedOf(b)
  BY <1>1 DEF Bases
<1>4. Touches(u, b)
  BY <1>1, <1>2, <1>3, IdsAssumption
  DEF Touches, TypeOK, Alive, Places, EntryOf, CreateSignal, Goto
<1>5. Working(b)' = Working(b)
  <2>1. u \in Working(b)' <=> u \in Working(b)
    BY <1>1 DEF Working, TimerPcs, CreateSignal, Goto, TypeOK
  <2>. QED
    BY <1>4, <2>1, WorkingStep DEF Touches
<1>6. TypeOK'
  BY <1>1, <1>2, IdsAssumption, SizesAssumption, FreeSignal
  DEF TypeOK, UserPcs, ThreadPcs, CreateSignal, Goto, threads
<1>7. Places'
  BY <1>1, <1>4, IdsAssumption, SMTT(30)
  DEF Places, Reserving, CreatePcs, GrantedPcs, EntryOf, Alive, CreateSignal,
      Goto
<1>8. EntryOf(b)'
  BY <1>3 DEF TypeOK, CreatePcs, EntryOf, Alive, CreateSignal, Goto
<1>9. CountOf(b)'
  BY <1>3, <1>5, <1>1 DEF TypeOK, GrantedPcs, CountOf, CreateSignal, Goto
<1>10. DedicatedOf(b)'
  BY <1>1, <1>2 DEF Touches, Places, CreatePcs, DedicatedOf, CreateSignal, Goto
<1>11. Threads' /\ SyncFunctionKnown'
  BY <1>1 DEF TypeOK, Threads, SyncFunctionKnown, CreateSignal, threads
<1>. QED
  BY <1>4, <1>6, <1>7, <1>8, <1>9, <1>10, <1>11, Others DEF IInv, Bases

LEMMA CreateTimerInv == ASSUME NEW u \in Users, IInv, CreateTimer(u) PROVE IInv'
<1>1. TypeOK /\ Places /\ Bases /\ Threads /\ SyncFunctionKnown
  BY DEF IInv
<1>2. PICK b \in TimeBases : b = arg[u]
  BY <1>1, SMTT(30) DEF TypeOK, Places, CreateTimer, Goto
<1>3. EntryOf(b) /\ CountOf(b) /\ DedicatedOf(b)
  BY <1>1 DEF Bases
<1>4. Touches(u, b)
  BY <1>1, <1>2, <1>3, IdsAssumption
  DEF Touches, Alive, Places, EntryOf, CreateTimer, Goto, TypeOK
<1>5. Working(b)' = Working(b)
  <2>1. u \in Working(b)' <=> u \in Working(b)
    BY <1>1 DEF Working, TimerPcs, CreateTimer, Goto, TypeOK
  <2>. QED
    BY <1>4, <2>1, WorkingStep DEF Touches
<1>6. TypeOK'
  BY <1>1, <1>2, IdsAssumption, SizesAssumption
  DEF TypeOK, UserPcs, CreateTimer, Goto, threads
<1>7. Places'
  BY <1>1, <1>2, <1>4, IdsAssumption, SMTT(30)
  DEF TypeOK, Places, Reserving, CreatePcs, GrantedPcs, CreateTimer, Goto
<1>8. EntryOf(b)'
  BY <1>3, <1>4, Others, IdsAssumption, <1>1
  DEF Touches, Places, CreatePcs, EntryOf, CreateTimer, Goto
<1>9. CountOf(b)'
  BY <1>1, <1>2, <1>3, <1>4, SMTT(30)
  DEF TypeOK, Places, CreatePcs, GrantedPcs, EntryOf, CountOf, CreateTimer,
      Goto
<1>10. DedicatedOf(b)'
  BY <1>1, <1>2 DEF TypeOK, Places, CreatePcs, DedicatedOf, CreateTimer, Goto
<1>11. Threads' /\ SyncFunctionKnown'
  BY <1>1, <1>3, IdsAssumption
  DEF Threads, SyncFunctionKnown, CreateTimer, Goto, threads
<1>. QED
  BY <1>4, <1>6, <1>7, <1>8, <1>9, <1>10, <1>11, Others DEF IInv, Bases

LEMMA CreateTimerFailsInv == ASSUME NEW u \in Users, IInv, CreateTimerFails(u) PROVE IInv'
<1>1. TypeOK /\ Places /\ Bases /\ Threads /\ SyncFunctionKnown
  BY DEF IInv
<1>2. PICK b \in TimeBases : b = arg[u]
  BY <1>1, SMTT(30) DEF TypeOK, Places, CreateTimerFails, Goto
<1>3. EntryOf(b) /\ CountOf(b) /\ DedicatedOf(b)
  BY <1>1 DEF Bases
<1>4. Touches(u, b)
  BY <1>1, <1>2, <1>3, IdsAssumption
  DEF Touches, TypeOK, Alive, Places, EntryOf, CreateTimerFails, Goto, entries
<1>5. Working(b)' = Working(b)
  <2>1. u \in Working(b)' <=> u \in Working(b)
    BY <1>1 DEF Working, TimerPcs, CreateTimerFails, Goto, TypeOK
  <2>. QED
    BY <1>4, <2>1, WorkingStep DEF Touches
<1>6. TypeOK'
  BY <1>1 DEF TypeOK, UserPcs, CreateTimerFails, Goto, threads, entries
<1>7. Places'
  BY <1>1, SMTT(30)
  DEF TypeOK, Places, Reserving, CreatePcs, CreateTimerFails, Goto, entries
<1>8. EntryOf(b)'
  BY <1>1, <1>3, <1>4, Others, IdsAssumption
  DEF TypeOK, CreatePcs, EntryOf, CreateTimerFails, Goto, entries
<1>9. CountOf(b)'
  BY <1>3, <1>5, <1>1
  DEF TypeOK, GrantedPcs, CountOf, CreateTimerFails, Goto, entries
<1>10. DedicatedOf(b)'
  BY <1>3, <1>4 DEF TypeOK, DedicatedOf, CreateTimerFails, Goto, entries
<1>11. Threads' /\ SyncFunctionKnown'
  BY <1>1, <1>2, IdsAssumption
  DEF TypeOK, Threads, SyncFunctionKnown, CreateTimerFails, Goto, threads,
      entries
<1>. QED
  BY <1>4, <1>6, <1>7, <1>8, <1>9, <1>10, <1>11, Others DEF IInv, Bases

LEMMA CreateFailInv == ASSUME NEW u \in Users, IInv, CreateFail(u) PROVE IInv'
<1>1. TypeOK /\ Places /\ Bases /\ Threads /\ SyncFunctionKnown
  BY DEF IInv
<1>2. PICK b \in TimeBases : b = arg[u]
  BY <1>1, SMTT(30) DEF TypeOK, Places, CreateFail, Goto
<1>3. EntryOf(b) /\ CountOf(b) /\ DedicatedOf(b)
  BY <1>1 DEF Bases
<1>4. Touches(u, b)
  BY <1>1, <1>2, IdsAssumption
  DEF Touches, TypeOK, Alive, Places, CreatePcs, EntryOf, CreateFail, Goto
<1>5. Working(b)' = Working(b)
  <2>1. u \in Working(b)' <=> u \in Working(b)
    BY <1>1 DEF Working, TimerPcs, CreateFail, Goto, TypeOK
  <2>. QED
    BY <1>4, <2>1, WorkingStep DEF Touches
<1>6. TypeOK'
  BY <1>1, <1>2, SizesAssumption DEF TypeOK, UserPcs, CreateFail, Goto
<1>7. Places'
  BY <1>1, <1>2, <1>3, <1>4, IdsAssumption, SMTT(30)
  DEF TypeOK, Places, Reserving, CreatePcs, GrantedPcs, EntryOf, Alive,
      CreateFail, Goto
<1>8. EntryOf(b)'
  BY <1>1, <1>2, IdsAssumption
  DEF Touches, TypeOK, Places, CreatePcs, GrantedPcs, EntryOf, Alive,
      CreateFail, Goto
<1>9. CountOf(b)'
  BY <1>1, <1>2, IdsAssumption, SizesAssumption
  DEF TypeOK, Places, CreatePcs, GrantedPcs, CountOf, CreateFail, Goto
<1>10. DedicatedOf(b)'
  BY <1>1, <1>2, <1>3, <1>4 DEF TypeOK, DedicatedOf, CreateFail
<1>11. Threads' /\ SyncFunctionKnown'
  BY <1>1, <1>2, <1>3, <1>4, Others, IdsAssumption, SMTT(30)
  DEF TypeOK, Threads, SyncFunctionKnown, Places, CreatePcs, GrantedPcs,
      Touches, CreateFail, Goto, threads
<1>. QED
  BY <1>4, <1>6, <1>7, <1>8, <1>9, <1>10, <1>11, Others DEF IInv, Bases

LEMMA CreateFinalizeInv == ASSUME NEW u \in Users, IInv, CreateFinalize(u) PROVE IInv'
<1>1. TypeOK /\ Places /\ Bases /\ Threads /\ SyncFunctionKnown
  BY DEF IInv
<1>2. PICK b \in TimeBases : b = arg[u]
  BY <1>1, SMTT(30) DEF TypeOK, Places, CreateFinalize, Goto
<1>3. EntryOf(b) /\ CountOf(b) /\ DedicatedOf(b)
  BY <1>1 DEF Bases
<1>4. Touches(u, b)
  <2>1. Alive(b)
    BY <1>1, <1>2 DEF Alive, Places, CreatePcs, CreateFinalize, Goto
  <2>. QED
    BY <1>1, <1>2, <2>1 DEF Touches, TypeOK, CreateFinalize, Goto
<1>5. Working(b)' = Working(b)
  <2>1. u \in Working(b)' <=> u \in Working(b)
    BY <1>1 DEF Working, TimerPcs, CreateFinalize, Goto, TypeOK
  <2>. QED
    BY <1>4, <2>1, WorkingStep DEF Touches
<1>6. (\A v \in Users \ {u} : arg[v] # b) /\ Cardinality(Working(b)) = 0
  <2>1. (\A v \in Users \ {u} : arg[v] # b) /\ Working(b) = {}
    BY <1>1, <1>2
    DEF Places, Reserving, CreatePcs, GrantedPcs, Working, TimerPcs,
        CreateFinalize, Goto
  <2>. QED
    BY <2>1, FS_EmptySet
<1>7. TypeOK'
  BY <1>1, <1>2, <1>6, <1>3, SMTT(30)
  DEF TypeOK, UserPcs, CreateFinalize, Goto, threads, Places, CreatePcs,
      CountOf
<1>8. Places'
  BY <1>1, <1>2, <1>3, SMTT(30)
  DEF TypeOK, Places, Reserving, CreatePcs, GrantedPcs, EntryOf, Alive,
      CreateFinalize, Goto
<1>9. EntryOf(b)'
  BY <1>1, <1>2, <1>4, Others, SMTT(30)
  DEF TypeOK, Places, EntryOf, CreateFinalize, Goto
<1>10. CountOf(b)'
  BY <1>1, <1>2, <1>3, <1>4, <1>5, <1>6, SMTT(30)
  DEF TypeOK, Places, CreatePcs, GrantedPcs, CountOf, CreateFinalize, Goto
<1>11. DedicatedOf(b)'
  BY <1>1, <1>2, <1>3, <1>4, <1>6, IdsAssumption, SMTT(30)
  DEF TypeOK, Places, CreatePcs, DedicatedOf, CreateFinalize, Goto, CountOf
<1>12. Threads' /\ SyncFunctionKnown'
  BY <1>1, <1>2, <1>3, <1>6, <1>4, Others, IdsAssumption
  DEF TypeOK, Threads, SyncFunctionKnown, Places, CreatePcs, GrantedPcs, Alive,
      CreateFinalize, Goto, threads
<1>. QED
  BY <1>4, <1>7, <1>8, <1>9, <1>10, <1>11, <1>12, Others DEF IInv, Bases

LEMMA TimerAddInv == ASSUME NEW u \in Users, IInv, TimerAdd(u) PROVE IInv'
<1>1. TypeOK /\ Places /\ Bases /\ Threads /\ SyncFunctionKnown
  BY DEF IInv
<1>2. PICK b \in TimeBases \ dedicated : Begin(u, "add_link", b) /\ AddRef(u, b)
  BY DEF TimerAdd
<1>3. EntryOf(b) /\ CountOf(b) /\ DedicatedOf(b)
  BY <1>1 DEF Bases
<1>4. Touches(u, b)
  BY <1>1, <1>2, <1>3, IdsAssumption, SMTT(30)
  DEF Touches, Alive, Places, EntryOf, Begin, AddRef
<1>5. Cardinality(Working(b)') = Cardinality(Working(b)) + 1
  <2>1. u \in Working(b)' /\ u \notin Working(b)
    BY <1>1, <1>2 DEF Working, TimerPcs, TypeOK, Begin
  <2>. QED
    BY <1>4, <2>1, WorkingStep DEF Touches
<1>6. /\ life[b] = "live" /\ \A v \in Users : arg[v] = b => pc[v] \notin GrantedPcs
      /\ refcount[slot[b]] = ring[slot[b]] + Cardinality(Working(b))
      /\ ring[slot[b]] + Cardinality(Working(b)) <= MaxTimers
      /\ Cardinality(Working(b)) \in Nat /\ ring[slot[b]] \in Nat
      /\ Cardinality(Working(b)) = 0 <=> Working(b) = {}
  <2>1. life[b] = "live" /\ \A v \in Users : arg[v] = b => pc[v] \notin GrantedPcs
    BY <1>1, <1>2, <1>3, IdsAssumption, SMTT(30)
    DEF Places, Reserving, CreatePcs, EntryOf, AddRef
  <2>2. ring[slot[b]] \in Nat
    BY <1>1, SMTT(30) DEF TypeOK
  <2>. QED
    BY <1>3, <2>1, <2>2, WorkingFinite DEF CountOf
<1>7. TypeOK'
  BY <1>1, <1>2, <1>6, SMTT(30) DEF TypeOK, UserPcs, Begin, AddRef, threads
<1>8. Places'
  BY <1>1, <1>2, <1>3, <1>6, <1>4, IdsAssumption, SMTT(30)
  DEF TypeOK, Places, Reserving, CreatePcs, GrantedPcs, Begin, AddRef
<1>9. EntryOf(b)'
  BY <1>1, <1>2, <1>3, IdsAssumption DEF EntryOf, Alive, Begin, AddRef
<1>10. CountOf(b)'
  BY <1>1, <1>2, <1>4, <1>5, <1>6, IdsAssumption, SizesAssumption, SMTT(30)
  DEF TypeOK, GrantedPcs, CountOf, Begin, AddRef
<1>11. DedicatedOf(b)'
  BY <1>1, <1>2, <1>3, <1>4, <1>6, IdsAssumption DEF DedicatedOf, Begin, AddRef
<1>12. Threads' /\ SyncFunctionKnown'
  BY <1>1, <1>2, IdsAssumption
  DEF Threads, SyncFunctionKnown, Begin, AddRef, threads
<1>. QED
  BY <1>4, <1>7, <1>8, <1>9, <1>10, <1>11, <1>12, Others DEF IInv, Bases

LEMMA TimerCreateAddsInv == ASSUME NEW u \in Users, IInv, TimerCreateAdds(u) PROVE IInv'
<1>1. TypeOK /\ Places /\ Bases /\ Threads /\ SyncFunctionKnown
  BY DEF IInv
<1>2. PICK b \in TimeBases : b = arg[u]
  BY <1>1 DEF TypeOK, TimerCreateAdds
<1>3. EntryOf(b) /\ CountOf(b) /\ DedicatedOf(b)
  BY <1>1 DEF Bases
<1>4. Touches(u, b)
  BY <1>2, <1>3, <1>1
  DEF Touches, Alive, EntryOf, TimerCreateAdds, Goto, AddRef, TypeOK
<1>5. Cardinality(Working(b)') = Cardinality(Working(b)) + 1
  <2>1. u \in Working(b)' /\ u \notin Working(b)
    BY <1>1, <1>2 DEF Working, TimerPcs, TypeOK, TimerCreateAdds, Goto
  <2>. QED
    BY <1>4, <2>1, WorkingStep DEF Touches
<1>6. /\ life[b] = "live" /\ \A v \in Users : arg[v] = b => pc[v] \notin GrantedPcs
      /\ refcount[slot[b]] = ring[slot[b]] + Cardinality(Working(b))
      /\ ring[slot[b]] + Cardinality(Working(b)) <= MaxTimers
      /\ Cardinality(Working(b)) \in Nat /\ ring[slot[b]] \in Nat
      /\ Cardinality(Working(b)) = 0 <=> Working(b) = {}
  <2>1. life[b] = "live" /\ \A v \in Users : arg[v] = b => pc[v] \notin GrantedPcs
    BY <1>1, <1>2, IdsAssumption
    DEF Places, Reserving, TimerCreateAdds, AddRef, TypeOK
  <2>2. ring[slot[b]] \in Nat
    BY <1>1, SMTT(30) DEF TypeOK
  <2>. QED
    BY <1>3, <2>1, <2>2, WorkingFinite DEF CountOf
<1>7. TypeOK'
  BY <1>1, <1>2, SMTT(30)
  DEF TypeOK, UserPcs, ThreadPcs, TimerCreateAdds, Goto, AddRef, threads
<1>8. Places'
  BY <1>1, <1>2, <1>3, <1>6, <1>4, IdsAssumption, SMTT(30)
  DEF Places, Reserving, CreatePcs, GrantedPcs, TimerCreateAdds, Goto, AddRef
<1>9. EntryOf(b)'
  BY <1>1, <1>2, <1>3, <1>4, <1>6, Others, IdsAssumption
  DEF TypeOK, EntryOf, TimerCreateAdds, AddRef
<1>10. CountOf(b)'
  BY <1>1, <1>2, <1>4, <1>5, <1>6, SizesAssumption, SMTT(30)
  DEF TypeOK, GrantedPcs, CountOf, TimerCreateAdds, Goto, AddRef, Places,
      CreatePcs
<1>11. DedicatedOf(b)'
  BY <1>1, <1>2, <1>3, <1>4, <1>6, IdsAssumption, SMTT(30)
  DEF Touches, TypeOK, CreatePcs, DedicatedOf, TimerCreateAdds, Goto, AddRef
<1>12. Threads' /\ SyncFunctionKnown'
  BY <1>1, IdsAssumption
  DEF Threads, SyncFunctionKnown, TimerCreateAdds, Goto, AddRef, threads
<1>. QED
  BY <1>4, <1>7, <1>8, <1>9, <1>10, <1>11, <1>12, Others DEF IInv, Bases

LEMMA AddLinkInv == ASSUME NEW u \in Users, IInv, AddLink(u) PROVE IInv'
<1>1. TypeOK /\ Places /\ Bases /\ Threads /\ SyncFunctionKnown
  BY DEF IInv
<1>2. PICK b \in TimeBases : b = arg[u]
  BY <1>1, SMTT(30) DEF TypeOK, Places, AddLink, Goto
<1>3. EntryOf(b) /\ CountOf(b) /\ DedicatedOf(b)
  BY <1>1 DEF Bases
<1>4. Touches(u, b)
  BY <1>1, <1>2, <1>3, IdsAssumption
  DEF Touches, TypeOK, Alive, Places, CreatePcs, EntryOf, AddLink, Goto
<1>5. Cardinality(Working(b)') = Cardinality(Working(b)) - 1 /\ Working(b) # {}
  <2>1. u \notin Working(b)' /\ u \in Working(b)
    BY <1>1, <1>2 DEF Working, TimerPcs, TypeOK, AddLink, Goto
  <2>. QED
    BY <1>4, <2>1, WorkingStep DEF Touches
<1>6. /\ life[b] = "live" /\ \A v \in Users : arg[v] = b => pc[v] \notin GrantedPcs
      /\ refcount[slot[b]] = ring[slot[b]] + Cardinality(Working(b))
      /\ ring[slot[b]] + Cardinality(Working(b)) <= MaxTimers
      /\ Cardinality(Working(b)) \in Nat /\ ring[slot[b]] \in Nat
      /\ Cardinality(Working(b)) = 0 <=> Working(b) = {}
  <2>1. life[b] = "live" /\ \A v \in Users : arg[v] = b => pc[v] \notin GrantedPcs
    BY <1>1, <1>2, <1>3, <1>5 DEF Places, CreatePcs, CountOf, AddLink, Goto
  <2>2. ring[slot[b]] \in Nat
    BY <1>1, SMTT(30) DEF TypeOK
  <2>. QED
    BY <1>3, <2>1, <2>2, WorkingFinite DEF CountOf
<1>7. TypeOK'
  BY <1>1, <1>2, <1>6, SizesAssumption, <1>5, SMTT(30)
  DEF TypeOK, UserPcs, ThreadPcs, AddLink, Goto, threads
<1>8. Places'
  BY <1>1, SMTT(30)
  DEF Touches, TypeOK, Places, Reserving, CreatePcs, GrantedPcs, EntryOf,
      Alive, AddLink, Goto
<1>9. EntryOf(b)'
  BY <1>3, <1>4 DEF TypeOK, EntryOf, Alive, AddLink
<1>10. CountOf(b)'
  BY <1>1, <1>2, <1>5, <1>6, IdsAssumption, SMTT(30)
  DEF TypeOK, CountOf, AddLink, Goto
<1>11. DedicatedOf(b)'
  BY <1>1, <1>2, <1>3, SMTT(30)
  DEF TypeOK, Places, CreatePcs, DedicatedOf, AddLink, Goto
<1>12. Threads' /\ SyncFunctionKnown'
  BY <1>1, Others, IdsAssumption
  DEF TypeOK, Threads, SyncFunctionKnown, AddLink, Goto, threads
<1>. QED
  BY <1>4, <1>7, <1>8, <1>9, <1>10, <1>11, <1>12, Others DEF IInv, Bases

LEMMA AddFailsInv == ASSUME NEW u \in Users, IInv, AddFails(u) PROVE IInv'
<1>1. TypeOK /\ Places /\ Bases /\ Threads /\ SyncFunctionKnown
  BY DEF IInv
<1>2. PICK b \in TimeBases : b = arg[u]
  BY <1>1, SMTT(30) DEF TypeOK, Places, AddFails, Goto
<1>3. EntryOf(b) /\ CountOf(b) /\ DedicatedOf(b)
  BY <1>1 DEF Bases
<1>4. Touches(u, b)
  BY <1>1, <1>2, <1>3, IdsAssumption
  DEF Touches, TypeOK, Alive, Places, EntryOf, AddFails, Goto
<1>5. Cardinality(Working(b)') = Cardinality(Working(b)) - 1 /\ Working(b) # {}
  <2>1. u \notin Working(b)' /\ u \in Working(b)
    BY <1>1, <1>2 DEF Working, TimerPcs, TypeOK, AddFails, Goto
  <2>. QED
    BY <1>4, <2>1, WorkingStep DEF Touches
<1>6. /\ life[b] = "live" /\ \A v \in Users : arg[v] = b => pc[v] \notin GrantedPcs
      /\ refcount[slot[b]] = ring[slot[b]] + Cardinality(Working(b))
      /\ ring[slot[b]] + Cardinality(Working(b)) <= MaxTimers
      /\ Cardinality(Working(b)) \in Nat /\ ring[slot[b]] \in Nat
      /\ Cardinality(Working(b)) = 0 <=> Working(b) = {}
  <2>1. life[b] = "live" /\ \A v \in Users : arg[v] = b => pc[v] \notin GrantedPcs
    BY <1>1, <1>2, <1>3, <1>5 DEF Places, CreatePcs, CountOf, AddFails, Goto
  <2>2. ring[slot[b]] \in Nat
    BY <1>1, SMTT(30) DEF TypeOK
  <2>. QED
    BY <1>3, <2>1, <2>2, WorkingFinite DEF CountOf
<1>7. TypeOK'
  BY <1>1, <1>2, <1>6, IdsAssumption, SizesAssumption, <1>5, SMTT(30)
  DEF TypeOK, UserPcs, AddFails, Goto, threads
<1>8. Places'
  BY <1>1, <1>2, <1>6, IdsAssumption, SMTT(30)
  DEF TypeOK, Places, Reserving, CreatePcs, GrantedPcs, EntryOf, Alive,
      AddFails, Goto
<1>9. EntryOf(b)'
  BY <1>3, <1>4, Others DEF EntryOf, AddFails
<1>10. CountOf(b)'
  BY <1>1, <1>2, <1>4, <1>5, <1>6, IdsAssumption, SizesAssumption, SMTT(30)
  DEF Touches, TypeOK, GrantedPcs, CountOf, AddFails, Goto
<1>11. DedicatedOf(b)'
  BY <1>2, <1>3, <1>6 DEF DedicatedOf, AddFails, Goto
<1>12. Threads' /\ SyncFunctionKnown'
  BY <1>1, <1>2, <1>3 DEF TypeOK, Threads, SyncFunctionKnown, AddFails, threads
<1>. QED
  BY <1>4, <1>7, <1>8, <1>9, <1>10, <1>11, <1>12, Others DEF IInv, Bases

LEMMA TimerDeleteInv == ASSUME NEW u \in Users, IInv, TimerDelete(u) PROVE IInv'
<1>1. TypeOK /\ Places /\ Bases /\ Threads /\ SyncFunctionKnown
  BY DEF IInv
<1>2. PICK b \in TimeBases :
        /\ Begin(u, "timer_release", b)
        /\ life[b] = "live" /\ ring[slot[b]] > 0 /\ handler_mutex[slot[b]] = NONE
        /\ ring' = [ring EXCEPT ![slot[b]] = @ - 1]
        /\ UNCHANGED <<active_id, refcount, external_sync, assigned_signal,
                       handler_mutex, slot, life, dedicated, threads>>
  BY DEF TimerDelete
<1>3. EntryOf(b) /\ CountOf(b) /\ DedicatedOf(b)
  BY <1>1 DEF Bases
<1>4. Touches(u, b)
  <2>1. Alive(b) /\ active_id[slot[b]] \in {b, RESERVED}
    BY <1>2, <1>3 DEF Alive, EntryOf
  <2>2. arg[u] = NONE
    BY <1>1, <1>2 DEF Places, Begin
  <2>. QED
    BY <1>1, <1>2, <2>1, <2>2 DEF Touches, TypeOK, Begin
<1>5. Cardinality(Working(b)') = Cardinality(Working(b)) + 1
  <2>1. u \in Working(b)' /\ u \notin Working(b)
    BY <1>1, <1>2 DEF Working, TimerPcs, TypeOK, Begin
  <2>. QED
    BY <1>4, <2>1, WorkingStep DEF Touches
<1>6. /\ life[b] = "live" /\ \A v \in Users : arg[v] = b => pc[v] \notin GrantedPcs
      /\ refcount[slot[b]] = ring[slot[b]] + Cardinality(Working(b))
      /\ ring[slot[b]] + Cardinality(Working(b)) <= MaxTimers
      /\ Cardinality(Working(b)) \in Nat /\ ring[slot[b]] \in Nat
      /\ Cardinality(Working(b)) = 0 <=> Working(b) = {}
  <2>1. life[b] = "live" /\ \A v \in Users : arg[v] = b => pc[v] \notin GrantedPcs
    BY <1>1, <1>2, <1>3, SMTT(30) DEF CreatePcs, GrantedPcs, CountOf, TypeOK
  <2>2. ring[slot[b]] \in Nat
    BY <1>1, SMTT(30) DEF TypeOK
  <2>. QED
    BY <1>3, <2>1, <2>2, WorkingFinite DEF CountOf
<1>7. TypeOK'
  BY <1>1, <1>2, SizesAssumption, SMTT(30) DEF TypeOK, UserPcs, Begin, threads
<1>8. Places'
  BY <1>1, <1>2, <1>4, IdsAssumption, SMTT(30)
  DEF TypeOK, Places, Reserving, CreatePcs, GrantedPcs, Begin
<1>9. EntryOf(b)'
  BY <1>2, <1>3, <1>4, <1>6, Others, IdsAssumption DEF EntryOf
<1>10. CountOf(b)'
  <2>1. /\ ring'[slot[b]] = ring[slot[b]] - 1 /\ refcount'[slot[b]] = refcount[slot[b]]
        /\ slot' = slot /\ life'[b] = "live"
    BY <1>1, <1>2 DEF TypeOK
  <2>2. \A v \in Users : arg'[v] = b => pc'[v] \notin GrantedPcs
    BY <1>2, <1>6, <1>1 DEF GrantedPcs, Begin, TypeOK
  <2>. QED
    BY <1>5, <1>6, <2>1, <2>2, SMTT(30) DEF CountOf
<1>11. DedicatedOf(b)'
  BY <1>1, <1>2, <1>3, SMTT(30) DEF TypeOK, DedicatedOf, Begin
<1>12. Threads'
  <2>1. ASSUME NEW d \in TimeBases, tpc[d] \in {"serve", "callback"}
        PROVE  ring'[slot[d]] = ring[slot[d]]
    BY <1>1, <1>2, <2>1, IdsAssumption DEF TypeOK, Threads
  <2>. QED
    BY <1>1, <1>2, <2>1 DEF Threads, threads
<1>13. SyncFunctionKnown'
  BY <1>1, <1>2 DEF SyncFunctionKnown, threads
<1>. QED
  BY <1>4, <1>7, <1>8, <1>9, <1>10, <1>11, <1>12, <1>13,
     Others DEF IInv, Bases

LEMMA TimerReleaseInv == ASSUME NEW u \in Users, IInv, TimerRelease(u) PROVE IInv'
<1>1. TypeOK /\ Places /\ Bases /\ Threads /\ SyncFunctionKnown
  BY DEF IInv
<1>2. PICK b \in TimeBases : b = arg[u]
  BY <1>1, SMTT(30) DEF TypeOK, Places, TimerRelease, Goto
<1>3. EntryOf(b) /\ CountOf(b) /\ DedicatedOf(b)
  BY <1>1 DEF Bases
<1>4. Touches(u, b)
  BY <1>1, <1>2, <1>3, IdsAssumption
  DEF Touches, TypeOK, Alive, Places, EntryOf, TimerRelease, Goto
<1>5. Cardinality(Working(b)') = Cardinality(Working(b)) - 1 /\ Working(b) # {}
  <2>1. u \notin Working(b)' /\ u \in Working(b)
    BY <1>1, <1>2 DEF Working, TimerPcs, TypeOK, TimerRelease, Goto
  <2>. QED
    BY <1>4, <2>1, WorkingStep DEF Touches
<1>6. /\ life[b] = "live" /\ \A v \in Users : arg[v] = b => pc[v] \notin GrantedPcs
      /\ refcount[slot[b]] = ring[slot[b]] + Cardinality(Working(b))
      /\ ring[slot[b]] + Cardinality(Working(b)) <= MaxTimers
      /\ Cardinality(Working(b)) \in Nat /\ ring[slot[b]] \in Nat
      /\ Cardinality(Working(b)) = 0 <=> Working(b) = {}
  <2>1. life[b] = "live" /\ \A v \in Users : arg[v] = b => pc[v] \notin GrantedPcs
    BY <1>1, <1>2, <1>3, <1>5
    DEF Places, Reserving, CreatePcs, CountOf, TimerRelease, Goto
  <2>2. ring[slot[b]] \in Nat
    BY <1>1, SMTT(30) DEF TypeOK
  <2>. QED
    BY <1>3, <2>1, <2>2, WorkingFinite DEF CountOf
<1>7. TypeOK'
  BY <1>1, <1>2, <1>6, <1>5, SMTT(30)
  DEF TypeOK, UserPcs, TimerRelease, Goto, threads
<1>8. Places'
  BY <1>1, <1>2, <1>3, <1>6, <1>4, IdsAssumption, SMTT(30)
  DEF Touches, TypeOK, Places, Reserving, CreatePcs, GrantedPcs, TimerRelease,
      Goto
<1>9. EntryOf(b)'
  BY <1>1, <1>2, <1>3, <1>4, <1>6, Others
  DEF TypeOK, GrantedPcs, EntryOf, TimerRelease
<1>10. CountOf(b)'
  BY <1>1, <1>2, <1>4, <1>5, <1>6, IdsAssumption, SizesAssumption, SMTT(30)
  DEF Touches, TypeOK, GrantedPcs, CountOf, TimerRelease, Goto
<1>11. DedicatedOf(b)'
  BY <1>1, <1>2, <1>3, <1>4, <1>6, IdsAssumption
  DEF TypeOK, CreatePcs, DedicatedOf, TimerRelease, Goto
<1>12. Threads' /\ SyncFunctionKnown'
  BY <1>1 DEF Threads, SyncFunctionKnown, TimerRelease, Goto, threads
<1>. QED
  BY <1>4, <1>7, <1>8, <1>9, <1>10, <1>11, <1>12, Others DEF IInv, Bases

LEMMA TimeBaseDeleteInv == ASSUME NEW u \in Users, IInv, TimeBaseDelete(u) PROVE IInv'
<1>1. TypeOK /\ Places /\ Bases /\ Threads /\ SyncFunctionKnown
  BY DEF IInv
<1>2. PICK b \in TimeBases \ dedicated :
        Begin(u, Reserved(b), b) /\ DeleteReserve(u, b)
  BY DEF TimeBaseDelete
<1>3. EntryOf(b) /\ CountOf(b) /\ DedicatedOf(b)
  BY <1>1 DEF Bases
<1>4. Touches(u, b)
  <2>1. Alive(b)
    BY <1>2, <1>3 DEF Alive, EntryOf, DeleteReserve
  <2>2. arg[u] = NONE
    BY <1>1, <1>2 DEF Places, Begin
  <2>. QED
    BY <1>1, <1>2, <2>1, <2>2 DEF Touches, TypeOK, Begin, DeleteReserve
<1>5. Working(b)' = Working(b)
  <2>1. u \in Working(b)' <=> u \in Working(b)
    BY <1>2, <1>1 DEF Working, TimerPcs, Begin, Reserved, TypeOK
  <2>. QED
    BY <1>4, <2>1, WorkingStep DEF Touches
<1>6. /\ life[b] = "live" /\ \A v \in Users : arg[v] = b => pc[v] \notin GrantedPcs
      /\ refcount[slot[b]] = ring[slot[b]] + Cardinality(Working(b))
      /\ ring[slot[b]] + Cardinality(Working(b)) <= MaxTimers
      /\ Cardinality(Working(b)) \in Nat /\ ring[slot[b]] \in Nat
      /\ Cardinality(Working(b)) = 0 <=> Working(b) = {}
  <2>1. life[b] = "live" /\ \A v \in Users : arg[v] = b => pc[v] \notin GrantedPcs
    <3>1. active_id[slot[b]] = b /\ b # RESERVED
      BY <1>2, IdsAssumption DEF DeleteReserve
    <3>2. life[b] = "live"
      BY <1>3, <3>1 DEF EntryOf
    <3>3. \A v \in Users : Reserving(v) => active_id[slot[arg[v]]] = RESERVED
      BY <1>1 DEF Places
    <3>. QED
      BY <3>1, <3>2, <3>3 DEF Reserving
  <2>2. ring[slot[b]] \in Nat
    BY <1>1, SMTT(30) DEF TypeOK
  <2>. QED
    BY <1>3, <2>1, <2>2, WorkingFinite DEF CountOf
<1>7. TypeOK'
  BY <1>1, <1>2, <1>6, SMTT(30)
  DEF TypeOK, UserPcs, ThreadPcs, Begin, DeleteReserve, Reserved, threads
<1>8. Places'
  BY <1>1, <1>2, <1>3, <1>4, IdsAssumption, SMTT(30)
  DEF TypeOK, Places, Reserving, CreatePcs, GrantedPcs, EntryOf, Alive, Begin,
      DeleteReserve, Reserved, Unused
<1>9. EntryOf(b)'
  <2>1. active_id'[slot[b]] = RESERVED /\ UNCHANGED <<life, slot, external_sync>>
    BY <1>1, <1>2 DEF TypeOK, DeleteReserve
  <2>. QED
    BY <1>3, <1>6, <2>1, IdsAssumption DEF EntryOf, Alive
<1>10. CountOf(b)'
  <2>1. /\ UNCHANGED <<life, ring, slot>> /\ life[b] # "creating"
        /\ refcount[slot[b]] = 0 => refcount'[slot[b]] = 1
        /\ refcount[slot[b]] # 0 => refcount' = refcount
    BY <1>1, <1>2, <1>6, SMTT(30) DEF TypeOK, DeleteReserve, Unused
  <2>2. /\ refcount[slot[b]] = 0 => pc'[u] = "delete_cancel"
        /\ refcount[slot[b]] # 0 => pc'[u] = "delete_wait"
        /\ arg'[u] = b /\ \A v \in Users \ {u} : pc'[v] = pc[v] /\ arg'[v] = arg[v]
    BY <1>1, <1>2 DEF TypeOK, Begin, Reserved, Unused
  <2>3. CASE refcount[slot[b]] = 0
    <3>1. ring[slot[b]] = 0 /\ Cardinality(Working(b)) = 0
      BY <1>6, <2>3, SMTT(30)
    <3>2. "delete_cancel" \in GrantedPcs
      BY DEF GrantedPcs
    <3>. QED
      BY <1>5, <1>6, <2>1, <2>2, <2>3, <3>1, <3>2 DEF CountOf
  <2>4. CASE refcount[slot[b]] # 0
    <3>1. \A v \in Users : arg'[v] = b => pc'[v] \notin GrantedPcs
      BY <1>6, <2>2, <2>4 DEF GrantedPcs
    <3>. QED
      BY <1>5, <1>6, <2>1, <2>4, <3>1 DEF CountOf
  <2>. QED
    BY <2>3, <2>4
<1>11. DedicatedOf(b)'
  BY <1>2, <1>4, <1>6, IdsAssumption
  DEF CreatePcs, DedicatedOf, Begin, DeleteReserve, Reserved, Unused
<1>12. Threads' /\ SyncFunctionKnown'
  BY <1>1, <1>2 DEF Threads, SyncFunctionKnown, Begin, DeleteReserve, threads
<1>. QED
  BY <1>4, <1>7, <1>8, <1>9, <1>10, <1>11, <1>12, Others DEF IInv, Bases

LEMMA DeleteDedicatedInv == ASSUME NEW u \in Users, IInv, DeleteDedicated(u) PROVE IInv'
<1>1. TypeOK /\ Places /\ Bases /\ Threads /\ SyncFunctionKnown
  BY DEF IInv
<1>2. PICK b \in TimeBases : b = arg[u]
  BY <1>1 DEF TypeOK, Places, DeleteDedicated
<1>3. EntryOf(b) /\ CountOf(b) /\ DedicatedOf(b)
  BY <1>1 DEF Bases
<1>4. Touches(u, b)
  BY <1>1, <1>2, <1>3
  DEF Touches, Alive, EntryOf, DeleteDedicated, Goto, DeleteReserve, Reserved,
      TypeOK
<1>5. Working(b)' = Working(b)
  <2>1. u \in Working(b)' <=> u \in Working(b)
    BY <1>1 DEF Working, TimerPcs, TypeOK, DeleteDedicated, Goto, Reserved
  <2>. QED
    BY <1>4, <2>1, WorkingStep DEF Touches
<1>6. /\ \A v \in Users \ {u} : arg[v] # b
      /\ ring[slot[b]] = 0 /\ refcount[slot[b]] = 0 /\ Working(b) = {}
  <2>1. ring[slot[b]] = 0 /\ \A v \in Users \ {u} : arg[v] # b
    BY <1>1, <1>2, <1>3 DEF Places, CreatePcs, DedicatedOf, DeleteDedicated
  <2>2. Working(b) = {}
    BY <2>1 DEF Working, TimerPcs, DeleteDedicated
  <2>3. Cardinality(Working(b)) = 0
    BY <2>2, FS_EmptySet
  <2>4. life[b] = "live" /\ \A v \in Users : arg[v] = b => pc[v] \notin GrantedPcs
    BY <1>1, <1>2, <2>1 DEF Places, CreatePcs, GrantedPcs, DeleteDedicated
  <2>. QED
    BY <1>3, <2>1, <2>2, <2>3, <2>4, SMTT(30) DEF CountOf
<1>7. TypeOK'
  BY <1>1, <1>2, <1>6, SMTT(30)
  DEF TypeOK, UserPcs, DeleteDedicated, Goto, DeleteReserve, Reserved, threads
<1>8. Places'
  BY <1>1, <1>2, <1>6, <1>4, SMTT(30)
  DEF TypeOK, Places, Reserving, CreatePcs, Alive, DeleteDedicated, Goto,
      DeleteReserve, Reserved, Unused
<1>9. EntryOf(b)'
  <2>1. active_id'[slot[b]] = RESERVED /\ UNCHANGED <<life, slot, external_sync>>
    BY <1>1, <1>2 DEF TypeOK, DeleteDedicated, DeleteReserve
  <2>2. life[b] = "live"
    BY <1>1, <1>2 DEF Places, CreatePcs, DeleteDedicated
  <2>. QED
    BY <1>3, <2>1, <2>2, IdsAssumption DEF EntryOf, Alive
<1>10. CountOf(b)'
  BY <1>1, <1>2, <1>3, <1>5, <1>6, IdsAssumption, SizesAssumption, SMTT(30)
  DEF TypeOK, GrantedPcs, CountOf, DeleteDedicated, Goto, DeleteReserve,
      Reserved, Unused
<1>11. DedicatedOf(b)'
  BY <1>1, <1>2, <1>3, <1>4, <1>6
  DEF TypeOK, CreatePcs, DedicatedOf, DeleteDedicated, Goto, DeleteReserve,
      Reserved, Unused
<1>12. Threads' /\ SyncFunctionKnown'
  BY <1>1, <1>2, <1>6
  DEF Threads, SyncFunctionKnown, DeleteDedicated, Goto, DeleteReserve,
      Reserved, Unused, threads
<1>. QED
  BY <1>4, <1>7, <1>8, <1>9, <1>10, <1>11, <1>12, Others DEF IInv, Bases

LEMMA DeleteGrantedInv == ASSUME NEW u \in Users, IInv, DeleteGranted(u) PROVE IInv'
<1>1. TypeOK /\ Places /\ Bases /\ Threads /\ SyncFunctionKnown
  BY DEF IInv
<1>2. PICK b \in TimeBases : b = arg[u]
  BY <1>1, SMTT(30) DEF TypeOK, Places, DeleteGranted, Goto
<1>3. EntryOf(b) /\ CountOf(b) /\ DedicatedOf(b)
  BY <1>1 DEF Bases
<1>4. Touches(u, b)
  BY <1>1, <1>2, <1>3, IdsAssumption
  DEF Touches, TypeOK, Alive, Places, EntryOf, DeleteGranted, Goto
<1>5. Working(b)' = Working(b)
  <2>1. u \in Working(b)' <=> u \in Working(b)
    BY <1>1 DEF Working, TimerPcs, DeleteGranted, Goto, TypeOK
  <2>. QED
    BY <1>4, <2>1, WorkingStep DEF Touches
<1>6. /\ life[b] = "live" /\ \A v \in Users : arg[v] = b => pc[v] \notin GrantedPcs
      /\ refcount[slot[b]] = ring[slot[b]] + Cardinality(Working(b))
      /\ ring[slot[b]] + Cardinality(Working(b)) <= MaxTimers
      /\ Cardinality(Working(b)) \in Nat /\ ring[slot[b]] \in Nat
      /\ Cardinality(Working(b)) = 0 <=> Working(b) = {}
  <2>1. life[b] = "live" /\ \A v \in Users : arg[v] = b => pc[v] \notin GrantedPcs
    BY <1>1, <1>2
    DEF Places, Reserving, CreatePcs, GrantedPcs, DeleteGranted, Goto
  <2>2. ring[slot[b]] \in Nat
    BY <1>1, SMTT(30) DEF TypeOK
  <2>. QED
    BY <1>3, <2>1, <2>2, WorkingFinite DEF CountOf
<1>7. TypeOK'
  BY <1>1, <1>2, SizesAssumption, SMTT(30)
  DEF TypeOK, UserPcs, ThreadPcs, DeleteGranted, Goto, threads
<1>8. Places'
  BY <1>1, <1>2, <1>3, IdsAssumption, SMTT(30)
  DEF TypeOK, Places, Reserving, CreatePcs, DeleteGranted, Goto
<1>9. EntryOf(b)'
  BY <1>3, <1>4
  DEF Places, CreatePcs, EntryOf, Alive, DeleteGranted, Goto, Unused
<1>10. CountOf(b)'
  BY <1>1, <1>2, <1>5, <1>6, IdsAssumption, SMTT(30)
  DEF TypeOK, GrantedPcs, CountOf, DeleteGranted, Goto, Unused
<1>11. DedicatedOf(b)'
  BY <1>1, <1>2, <1>3, <1>4, <1>6
  DEF Touches, TypeOK, DedicatedOf, DeleteGranted, Goto, Unused
<1>12. Threads' /\ SyncFunctionKnown'
  BY <1>1, <1>2
  DEF TypeOK, Threads, SyncFunctionKnown, DeleteGranted, Goto, Unused, threads
<1>. QED
  BY <1>4, <1>7, <1>8, <1>9, <1>10, <1>11, <1>12, Others DEF IInv, Bases

LEMMA DeleteGivesUpInv == ASSUME NEW u \in Users, IInv, DeleteGivesUp(u) PROVE IInv'
<1>1. TypeOK /\ Places /\ Bases /\ Threads /\ SyncFunctionKnown
  BY DEF IInv
<1>2. PICK b \in TimeBases : b = arg[u]
  BY <1>1, SMTT(30) DEF TypeOK, Places, DeleteGivesUp, Goto
<1>3. EntryOf(b) /\ CountOf(b) /\ DedicatedOf(b)
  BY <1>1 DEF Bases
<1>4. Touches(u, b)
  BY <1>1, <1>2, IdsAssumption
  DEF Touches, TypeOK, Alive, Places, DeleteGivesUp, Goto
<1>5. Working(b)' = Working(b)
  <2>1. u \in Working(b)' <=> u \in Working(b)
    BY <1>1 DEF Working, TimerPcs, TypeOK, DeleteGivesUp, Goto
  <2>. QED
    BY <1>4, <2>1, WorkingStep DEF Touches
<1>6. TypeOK'
  BY <1>1, <1>2, IdsAssumption, SizesAssumption
  DEF TypeOK, UserPcs, DeleteGivesUp, Goto, threads
<1>7. Places'
  BY <1>1, <1>2, <1>3, <1>4, IdsAssumption, SMTT(30)
  DEF TypeOK, Places, Reserving, CreatePcs, GrantedPcs, EntryOf, Alive,
      DeleteGivesUp, Goto, Unused
<1>8. EntryOf(b)'
  <2>1. active_id'[slot[b]] = b /\ UNCHANGED <<life, slot, external_sync>>
    BY <1>1, <1>2 DEF TypeOK, DeleteGivesUp
  <2>2. life[b] = "live"
    BY <1>1, <1>2 DEF Places, CreatePcs, DeleteGivesUp, Goto
  <2>. QED
    BY <1>3, <2>1, <2>2, IdsAssumption DEF EntryOf, Alive
<1>9. CountOf(b)'
  <2>1. UNCHANGED <<life, refcount, ring, slot>>
    BY DEF DeleteGivesUp
  <2>2. arg'[u] # b /\ \A v \in Users \ {u} : arg'[v] = arg[v] /\ pc'[v] = pc[v]
    BY <1>1, <1>2, IdsAssumption DEF TypeOK, DeleteGivesUp, Goto
  <2>3. arg[u] = b /\ pc[u] \notin GrantedPcs
    BY <1>2 DEF GrantedPcs, DeleteGivesUp, Goto
  <2>4. (\A v \in Users : arg'[v] = b => pc'[v] \notin GrantedPcs)
          => \A v \in Users : arg[v] = b => pc[v] \notin GrantedPcs
    BY <2>2, <2>3
  <2>5. \A v \in Users : arg'[v] = b /\ pc'[v] \in GrantedPcs =>
          arg[v] = b /\ pc[v] \in GrantedPcs
    BY <2>2
  <2>. QED
    BY <1>3, <1>5, <2>1, <2>4, <2>5 DEF CountOf
<1>10. DedicatedOf(b)'
  BY <1>1, <1>2 DEF Places, DedicatedOf, DeleteGivesUp, Goto
<1>11. Threads' /\ SyncFunctionKnown'
  BY <1>1, IdsAssumption
  DEF TypeOK, Threads, SyncFunctionKnown, DeleteGivesUp, threads
<1>. QED
  BY <1>4, <1>6, <1>7, <1>8, <1>9, <1>10, <1>11, Others DEF IInv, Bases

LEMMA DeleteCancelInv == ASSUME NEW u \in Users, IInv, DeleteCancel(u) PROVE IInv'
<1>1. TypeOK /\ Places /\ Bases /\ Threads /\ SyncFunctionKnown
  BY DEF IInv
<1>2. PICK b \in TimeBases : b = arg[u]
  BY <1>1, SMTT(30) DEF TypeOK, Places, DeleteCancel, Goto
<1>3. EntryOf(b) /\ CountOf(b) /\ DedicatedOf(b)
  BY <1>1 DEF Bases
<1>4. Touches(u, b)
  BY <1>1, <1>2, <1>3, IdsAssumption
  DEF Touches, TypeOK, Alive, Places, EntryOf, DeleteCancel, Goto, entries
<1>5. Working(b)' = Working(b)
  <2>1. u \in Working(b)' <=> u \in Working(b)
    BY <1>1 DEF Working, TimerPcs, TypeOK, DeleteCancel, Goto
  <2>. QED
    BY <1>4, <2>1, WorkingStep DEF Touches
<1>6. TypeOK'
  BY <1>1, <1>2 DEF TypeOK, UserPcs, DeleteCancel, Goto, entries
<1>7. Places'
  BY <1>1, <1>2, <1>3, <1>4, SMTT(30)
  DEF Places, Reserving, CreatePcs, GrantedPcs, Alive, DeleteCancel, Goto,
      entries
<1>8. EntryOf(b)'
  BY <1>3, <1>4, Others, IdsAssumption
  DEF Touches, TypeOK, Places, CreatePcs, GrantedPcs, EntryOf, DeleteCancel,
      Goto, entries
<1>9. CountOf(b)'
  BY <1>3, <1>5, <1>1
  DEF TypeOK, GrantedPcs, CountOf, DeleteCancel, Goto, entries
<1>10. DedicatedOf(b)'
  BY <1>3 DEF DedicatedOf, DeleteCancel, Goto, entries
<1>11. Threads' /\ SyncFunctionKnown'
  BY <1>1 DEF Threads, SyncFunctionKnown, DeleteCancel, entries
<1>. QED
  BY <1>4, <1>6, <1>7, <1>8, <1>9, <1>10, <1>11, Others DEF IInv, Bases

LEMMA DeleteTimerInv == ASSUME NEW u \in Users, IInv, DeleteTimer(u) PROVE IInv'
<1>1. TypeOK /\ Places /\ Bases /\ Threads /\ SyncFunctionKnown
  BY DEF IInv
<1>2. PICK b \in TimeBases : b = arg[u]
  BY <1>1, SMTT(30) DEF TypeOK, Places, DeleteTimer, Goto
<1>3. EntryOf(b) /\ CountOf(b) /\ DedicatedOf(b)
  BY <1>1 DEF Bases
<1>4. Touches(u, b)
  BY <1>1, <1>2, <1>3, IdsAssumption
  DEF Touches, TypeOK, Alive, Places, CreatePcs, EntryOf, DeleteTimer, Goto
<1>5. Working(b)' = Working(b)
  <2>1. u \in Working(b)' <=> u \in Working(b)
    BY <1>1, <1>2 DEF Working, TimerPcs, TypeOK, DeleteTimer, Goto
  <2>. QED
    BY <1>4, <2>1, WorkingStep DEF Touches
<1>6. TypeOK'
  BY <1>1, <1>2, IdsAssumption DEF TypeOK, UserPcs, DeleteTimer, Goto, threads
<1>7. Places'
  BY <1>1, SMTT(30)
  DEF Touches, TypeOK, Places, Reserving, CreatePcs, GrantedPcs, EntryOf,
      Alive, DeleteTimer, Goto
<1>8. EntryOf(b)'
  BY <1>3, Others, IdsAssumption
  DEF TypeOK, CreatePcs, EntryOf, Alive, DeleteTimer, Goto
<1>9. CountOf(b)'
  BY <1>1, <1>2, <1>3, <1>5 DEF GrantedPcs, CountOf, DeleteTimer, Goto, TypeOK
<1>10. DedicatedOf(b)'
  BY <1>1, <1>2, <1>3, <1>4, IdsAssumption, SMTT(30)
  DEF TypeOK, Places, DedicatedOf, DeleteTimer, Goto
<1>11. Threads' /\ SyncFunctionKnown'
  BY <1>1, <1>3, IdsAssumption
  DEF Threads, SyncFunctionKnown, DeleteTimer, Goto, threads
<1>. QED
  BY <1>4, <1>6, <1>7, <1>8, <1>9, <1>10, <1>11, Others DEF IInv, Bases

LEMMA DeleteFinalizeInv == ASSUME NEW u \in Users, IInv, DeleteFinalize(u) PROVE IInv'
<1>1. TypeOK /\ Places /\ Bases /\ Threads /\ SyncFunctionKnown
  BY DEF IInv
<1>2. PICK b \in TimeBases : b = arg[u]
  BY <1>1, SMTT(30) DEF TypeOK, Places, DeleteFinalize, Goto
<1>3. EntryOf(b) /\ CountOf(b) /\ DedicatedOf(b)
  BY <1>1 DEF Bases
<1>4. Touches(u, b)
  <2>1. Alive(b)
    BY <1>1, <1>2 DEF Alive, Places, CreatePcs, DeleteFinalize, Goto
  <2>. QED
    BY <1>1, <1>2, <2>1 DEF Touches, TypeOK, DeleteFinalize, Goto
<1>5. Working(b)' = Working(b)
  <2>1. u \in Working(b)' <=> u \in Working(b)
    BY <1>1 DEF Working, TimerPcs, TypeOK, DeleteFinalize, Goto
  <2>. QED
    BY <1>4, <2>1, WorkingStep DEF Touches
<1>6. refcount[slot[b]] = 1 /\ \A v \in Users \ {u} : arg[v] # b
  <2>1. refcount[slot[b]] = 1 /\ Working(b) = {}
    BY <1>2, <1>3 DEF GrantedPcs, CountOf, DeleteFinalize, Goto
  <2>2. ASSUME NEW v \in Users \ {u}, arg[v] = b PROVE FALSE
    <3>1. pc[v] \in {"add_ref", "delete_try"}
      BY <1>1, <1>2, <2>1, <2>2, SMTT(30)
      DEF TypeOK, Places, Reserving, CreatePcs, GrantedPcs, Working, TimerPcs,
          UserPcs, DeleteFinalize, Goto
    <3>2. b \in dedicated /\ life[b] = "live"
      BY <1>1, <1>2, <2>2, <3>1 DEF Places, CreatePcs
    <3>. QED
      BY <1>2, <1>3, <2>2, <3>2 DEF DedicatedOf
  <2>. QED
    BY <2>1, <2>2
<1>7. TypeOK'
  BY <1>1, <1>2, <1>6, IdsAssumption, SMTT(30)
  DEF TypeOK, UserPcs, DeleteFinalize, Goto, threads
<1>8. Places'
  BY <1>1, <1>2, <1>3, <1>6, SMTT(30)
  DEF Touches, TypeOK, Places, Reserving, CreatePcs, GrantedPcs, EntryOf,
      Alive, DeleteFinalize, Goto
<1>9. EntryOf(b)'
  <2>1. active_id'[slot[b]] = NONE /\ life'[b] = "ended" /\ slot' = slot
    BY <1>1, <1>2 DEF TypeOK, DeleteFinalize
  <2>. QED
    BY <2>1, IdsAssumption DEF EntryOf, Alive
<1>10. CountOf(b)'
  BY <1>1, <1>2, <1>5, <1>6
  DEF Touches, TypeOK, GrantedPcs, CountOf, DeleteFinalize, Goto
<1>11. DedicatedOf(b)'
  BY <1>1, <1>2 DEF Touches, TypeOK, Places, DedicatedOf, DeleteFinalize
<1>12. Threads'
  <2>1. UNCHANGED <<tpc, handler_mutex, ring, slot>>
    BY DEF DeleteFinalize, threads
  <2>2. ring[slot[b]] = 0
    BY <1>2, <1>3 DEF GrantedPcs, CountOf, DeleteFinalize, Goto
  <2>3. \A d \in TimeBases \ {b} : life'[d] = life[d]
    BY <1>4 DEF Touches
  <2>. QED
    BY <1>1, <2>1, <2>2, <2>3, SMTT(30) DEF Threads
<1>13. SyncFunctionKnown'
  BY <1>1 DEF SyncFunctionKnown, DeleteFinalize, threads
<1>. QED
  BY <1>4, <1>7, <1>8, <1>9, <1>10, <1>11, <1>12, <1>13,
     Others DEF IInv, Bases

-----------------------------------------------------------------------------
(* The steps of a callback thread.                                         *)

\* A callback thread leaves the table and the tasks alone.
LEMMA ThreadKeeps ==
  ASSUME IInv, UNCHANGED <<entries, slot, life, dedicated, users>>
  PROVE  Places' /\ Bases'
<1>. USE DEF entries, users
<1>1. Places /\ Bases
  BY DEF IInv
<1>2. Places'
  BY <1>1, SMTT(30) DEF Places, Reserving
<1>3. ASSUME NEW d \in TimeBases PROVE EntryOf(d)' /\ DedicatedOf(d)'
  BY <1>1, SMTT(30) DEF Bases, EntryOf, Alive, DedicatedOf
<1>4. ASSUME NEW d \in TimeBases PROVE CountOf(d)'
  <2>1. Working(d)' = Working(d)
    BY DEF Working
  <2>. QED
    BY <1>1, <2>1 DEF Bases, CountOf
<1>. QED
  BY <1>2, <1>3, <1>4 DEF Bases

\* The entry of a time base whose id is found has a sync function.
LEMMA ThreadLookupInv == ASSUME NEW b \in TimeBases, IInv, ThreadLookup(b) PROVE IInv'
<1>1. TypeOK /\ Bases /\ Threads /\ SyncFunctionKnown
  BY DEF IInv
<1>2. Places' /\ Bases'
  BY ThreadKeeps DEF ThreadLookup
<1>3. TypeOK'
  BY <1>1 DEF TypeOK, ThreadPcs, ThreadLookup, Step, entries, users
<1>4. Threads' /\ SyncFunctionKnown'
  BY <1>1
  DEF TypeOK, Bases, EntryOf, Threads, SyncFunctionKnown, ThreadLookup, Step,
      entries
<1>. QED
  BY <1>2, <1>3, <1>4 DEF IInv

LEMMA ThreadGivesUpInv == ASSUME NEW b \in TimeBases, IInv, ThreadGivesUp(b) PROVE IInv'
<1>1. TypeOK /\ Bases /\ Threads /\ SyncFunctionKnown
  BY DEF IInv
<1>2. Places' /\ Bases'
  BY ThreadKeeps DEF ThreadGivesUp
<1>3. TypeOK'
  BY <1>1 DEF TypeOK, ThreadPcs, ThreadGivesUp, Step, entries, users
<1>4. Threads' /\ SyncFunctionKnown'
  BY <1>1, IdsAssumption, SizesAssumption, SMTT(30)
  DEF EntryOf, Threads, SyncFunctionKnown, ThreadGivesUp, Step, entries
<1>. QED
  BY <1>2, <1>3, <1>4 DEF IInv

LEMMA ThreadSyncInv == ASSUME NEW b \in TimeBases, IInv, ThreadSync(b) PROVE IInv'
<1>1. TypeOK /\ Bases /\ Threads /\ SyncFunctionKnown
  BY DEF IInv
<1>2. Places' /\ Bases'
  BY ThreadKeeps DEF ThreadSync
<1>3. TypeOK'
  BY <1>1, SMTT(30) DEF TypeOK, ThreadPcs, ThreadSync, Step, entries, users
<1>4. Threads' /\ SyncFunctionKnown'
  BY <1>1, SMTT(30)
  DEF TypeOK, Threads, SyncFunctionKnown, ThreadSync, Step, entries
<1>. QED
  BY <1>2, <1>3, <1>4 DEF IInv

LEMMA ThreadWakesInv == ASSUME NEW b \in TimeBases, IInv, ThreadWakes(b) PROVE IInv'
<1>1. TypeOK /\ Bases /\ Threads /\ SyncFunctionKnown
  BY DEF IInv
<1>2. Places' /\ Bases'
  BY ThreadKeeps DEF ThreadWakes
<1>3. TypeOK'
  BY <1>1 DEF TypeOK, ThreadPcs, ThreadWakes, Step, entries, users
<1>4. Threads' /\ SyncFunctionKnown'
  BY <1>1, SizesAssumption, SMTT(30)
  DEF EntryOf, Threads, SyncFunctionKnown, ThreadWakes, Step, entries
<1>. QED
  BY <1>2, <1>3, <1>4 DEF IInv

\* The thread takes the lock of its slot only while no other thread serves there,
\* and goes on only when the entry is still that of its time base.
LEMMA ThreadTickInv == ASSUME NEW b \in TimeBases, IInv, ThreadTick(b) PROVE IInv'
<1>1. TypeOK /\ Bases /\ Threads /\ SyncFunctionKnown
  BY DEF IInv
<1>2. Places' /\ Bases'
  BY ThreadKeeps DEF ThreadTick
<1>3. TypeOK'
  BY <1>1 DEF TypeOK, ThreadPcs, ThreadTick, Step, StillOurs, entries, users
<1>4. Threads' /\ SyncFunctionKnown'
  BY <1>1, IdsAssumption, SMTT(30)
  DEF TypeOK, Bases, EntryOf, Threads, SyncFunctionKnown, ThreadTick, Step,
      StillOurs, entries
<1>. QED
  BY <1>2, <1>3, <1>4 DEF IInv

\* A callback comes only from a ring with a timer in it, hence from a live time
\* base.
LEMMA ThreadCallbackInv == ASSUME NEW b \in TimeBases, IInv, ThreadCallback(b) PROVE IInv'
<1>1. TypeOK /\ Bases /\ Threads /\ SyncFunctionKnown
  BY DEF IInv
<1>2. Places' /\ Bases'
  BY ThreadKeeps DEF ThreadCallback
<1>3. TypeOK'
  BY <1>1 DEF TypeOK, ThreadPcs, ThreadCallback, Step, entries, users
<1>4. Threads' /\ SyncFunctionKnown'
  BY <1>1, SizesAssumption, SMTT(30)
  DEF TypeOK, Threads, SyncFunctionKnown, ThreadCallback, Step, entries
<1>. QED
  BY <1>2, <1>3, <1>4 DEF IInv

\* The thread that unlocks is the one that serves the slot.
LEMMA ThreadUnlockInv == ASSUME NEW b \in TimeBases, IInv, ThreadUnlock(b) PROVE IInv'
<1>1. TypeOK /\ Bases /\ Threads /\ SyncFunctionKnown
  BY DEF IInv
<1>2. Places' /\ Bases'
  BY ThreadKeeps DEF ThreadUnlock
<1>3. TypeOK'
  BY <1>1 DEF TypeOK, ThreadPcs, ThreadUnlock, Step, entries, users
<1>4. Threads' /\ SyncFunctionKnown'
  BY <1>1, SizesAssumption, SMTT(30)
  DEF TypeOK, Threads, SyncFunctionKnown, ThreadUnlock, Step, entries
<1>. QED
  BY <1>2, <1>3, <1>4 DEF IInv

\* A cancelled thread may keep the lock; it serves no more.
LEMMA ThreadCancelledInv == ASSUME NEW b \in TimeBases, IInv, ThreadCancelled(b) PROVE IInv'
<1>1. TypeOK /\ Bases /\ Threads /\ SyncFunctionKnown
  BY DEF IInv
<1>2. Places' /\ Bases'
  BY ThreadKeeps DEF ThreadCancelled
<1>3. TypeOK'
  BY <1>1 DEF TypeOK, ThreadPcs, ThreadCancelled, Step, entries, users
<1>4. Threads' /\ SyncFunctionKnown'
  BY <1>1, SMTT(30)
  DEF TypeOK, Bases, Threads, SyncFunctionKnown, ThreadCancelled, Step, entries
<1>. QED
  BY <1>2, <1>3, <1>4 DEF IInv

-----------------------------------------------------------------------------
\* Every step keeps the invariant.
LEMMA NextInv == IInv /\ [Next]_vars => IInv'
<1> SUFFICES ASSUME IInv, [Next]_vars PROVE IInv'
  OBVIOUS
<1>1. ASSUME NEW u \in Users, Call(u) PROVE IInv'
  BY <1>1, TimeBaseCreateInv, TimerAddInv, TimerDeleteInv, TimeBaseDeleteInv
  DEF Call
<1>2. ASSUME NEW u \in Users, Work(u) PROVE IInv'
  BY <1>2, CreateThreadInv, CreateSignalInv, CreateTimerInv, CreateFinalizeInv,
     CreateThreadFailsInv, CreateTimerFailsInv, CreateFailInv,
     TimerCreateAddsInv, AddLinkInv, AddFailsInv, TimerReleaseInv,
     DeleteDedicatedInv, DeleteGrantedInv, DeleteGivesUpInv, DeleteCancelInv,
     DeleteTimerInv, DeleteFinalizeInv
  DEF Work
<1>3. ASSUME NEW b \in TimeBases, Run(b) \/ ThreadGivesUp(b) \/ ThreadWakes(b) PROVE IInv'
  BY <1>3, ThreadLookupInv, ThreadSyncInv, ThreadTickInv, ThreadCallbackInv,
     ThreadUnlockInv, ThreadCancelledInv, ThreadGivesUpInv, ThreadWakesInv
  DEF Run
<1>4. CASE UNCHANGED vars
  <2>1. Places' /\ Bases'
    BY <1>4, ThreadKeeps DEF vars
  <2>. QED
    BY <1>4, <2>1
    DEF IInv, TypeOK, Threads, SyncFunctionKnown, vars, entries, threads, users
<1>. QED
  BY <1>1, <1>2, <1>3, <1>4 DEF Next

\* The inductive invariant holds in every reachable state.
THEOREM Invariant == Spec => []IInv
  BY InitInv, NextInv, PTL DEF Spec

\* Every entry, thread and task stays within its type; in particular no reference
\* count goes below zero and no signal outside the real-time range is assigned.
THEOREM TypeCorrect == Spec => []TypeOK
<1>1. IInv => TypeOK
  BY DEF IInv
<1>. QED
  BY <1>1, Invariant, PTL

\* OS_TimeBaseDelete is granted only with an empty ring, which stays empty; the
\* time base of OS_TimerCreate has its timer whenever no task works on it.
THEOREM LivesWithTimersHolds == Spec => []LivesWithTimers
<1>1. IInv => LivesWithTimers
  BY SMTT(30)
  DEF IInv, TypeOK, Places, Bases, CountOf, DedicatedOf, GrantedPcs,
      LivesWithTimers
<1>. QED
  BY <1>1, Invariant, PTL

\* The callback thread of a deleted time base never calls the timers of the time
\* base that was created in its slot.
THEOREM NoForeignCallbackHolds == Spec => []NoForeignCallback
<1>1. IInv => NoForeignCallback
  BY DEF IInv, Bases, EntryOf, Alive, Threads, NoForeignCallback
<1>. QED
  BY <1>1, Invariant, PTL

\* The callback thread, which is started before the sync function is chosen, never
\* calls a NULL one.
THEOREM SyncFunctionKnownHolds == Spec => []SyncFunctionKnown
<1>1. IInv => SyncFunctionKnown
  BY DEF IInv
<1>. QED
  BY <1>1, Invariant, PTL
=============================================================================
