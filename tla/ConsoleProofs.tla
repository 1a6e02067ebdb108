--------------------------- MODULE ConsoleProofs ---------------------------
(***************************************************************************)
(* The console ring is safe for every buffer size, every number of writers *)
(* and messages of every length: a writer never stores into a position     *)
(* that is not yet output.                                                 *)
(*                                                                         *)
(* The positions ReadPos, StartPos, EndPos, WritePos and WriteOffset stay  *)
(* in this cyclic order.  That only one task copies and only one task      *)
(* drains comes from the table lock and from there being a console task or *)
(* not.                                                                    *)
(***************************************************************************)
EXTENDS Console, TLAPS

\* p, q, r in cyclic order; q may be p, r may be q, and r is not p again
\* unless all three are equal.
Cyclic3(p, q, r) ==
  (p <= q /\ q <= r) \/ (r < p /\ p <= q) \/ (q <= r /\ r < p)

Cyclic4(p, s, e, q) ==
  \/ p <= s /\ s <= e /\ e <= q
  \/ q < p /\ p <= s /\ s <= e
  \/ e <= q /\ q < p /\ p <= s
  \/ s <= e /\ e <= q /\ q < p

\* Who may be where.
Roles ==
  /\ pc[ConsoleTask] \in {"start", "drain_begin", "drain", "wait", "end"}
  /\ pc[ConsoleTask] \in {"start", "drain_begin", "drain", "wait"} => IsAsync = "yes"
  /\ \A w \in Writers : pc[w] \in {"drain_begin", "drain"} => IsAsync = "no"
  /\ \A w \in Writers : pc[w] \notin {"start", "wait"}

\* Who copies or drains as a writer has the lock.
Holder ==
  \A w \in Writers :
    pc[w] \in {"copy", "notify", "drain_begin", "drain"} => table_mutex = w

CopyInOrder ==
  \A w \in Writers : pc[w] = "copy" => Cyclic3(ReadPos, WritePos, WriteOffset)

DrainInOrder ==
  \A a \in Actors :
    pc[a] = "drain" => Cyclic4(ReadPos, StartPos, EndPos, WritePos)

Inv == TypeOK /\ Roles /\ Holder /\ CopyInOrder /\ DrainInOrder

USE DEF Actors, Positions

(* The console starts in order.                                            *)
LEMMA InitInv == Init => Inv
<1> SUFFICES ASSUME Init PROVE Inv
  OBVIOUS
<1>1. TypeOK
  BY ConsoleActors, ConsoleSizes DEF Init, TypeOK, Pcs
<1>2. Roles /\ Holder
  BY ConsoleActors, ConsoleSizes DEF Init, Roles, Holder
<1>3. CopyInOrder /\ DrainInOrder
  BY ConsoleActors DEF Init, CopyInOrder, DrainInOrder
<1> QED
  BY <1>1, <1>2, <1>3 DEF Inv

(* A step of OS_printf or OS_ConsoleWrite keeps the order.                 *)
LEMMA PrintStep ==
  ASSUME Inv, NEW w \in Writers, printf(w)
  PROVE Inv'
<1>1. TypeOK'
  BY ConsoleActors, ConsoleSizes DEF Inv, TypeOK, printf, Goto, Pcs, control, drain
<1>2. Roles' /\ Holder'
  BY ConsoleActors DEF Inv, TypeOK, Roles, Holder, control, printf, Goto
<1>3. CopyInOrder'
  <2> SUFFICES ASSUME NEW v \in Writers, pc'[v] = "copy"
               PROVE Cyclic3(ReadPos', WritePos', WriteOffset')
    BY DEF CopyInOrder
  <2> QED
    BY DEF Inv, TypeOK, Cyclic3, printf
<1>4. DrainInOrder'
  BY ConsoleActors DEF Inv, TypeOK, DrainInOrder, Cyclic4, printf, Goto, drain
<1> QED
  BY <1>1, <1>2, <1>3, <1>4 DEF Inv

(* A character is copied only into a free place (OS_Console_CopyOut).      *)
LEMMA CopyCharStep ==
  ASSUME Inv, NEW w \in Writers, CopyChar(w)
  PROVE Inv'
<1>1. TypeOK'
  BY ConsoleActors, ConsoleSizes
  DEF Inv, TypeOK, CopyChar, Goto, Pcs, control, drain, After
<1>2. Roles' /\ Holder'
  BY ConsoleActors DEF Inv, TypeOK, Roles, Holder, control, CopyChar, Goto
<1>3. CopyInOrder'
  <2> SUFFICES ASSUME NEW v \in Writers, pc'[v] = "copy"
               PROVE Cyclic3(ReadPos', WritePos', WriteOffset')
    BY DEF CopyInOrder
  <2>1. v = w /\ After(WriteOffset) # ReadPos
    BY ConsoleActors DEF Inv, TypeOK, Holder, CopyChar, Goto
  <2>2. Cyclic3(ReadPos, WritePos, WriteOffset)
    BY <2>1 DEF Inv, CopyInOrder, CopyChar, Goto
  <2> QED
    BY <2>1, <2>2, ConsoleSizes DEF Inv, TypeOK, Cyclic3, CopyChar, After
<1>4. DrainInOrder'
  BY ConsoleActors DEF Inv, TypeOK, DrainInOrder, Cyclic4, CopyChar, Goto, drain
<1> QED
  BY <1>1, <1>2, <1>3, <1>4 DEF Inv

(* Publishing the message keeps the order (the end of OS_ConsoleWrite).    *)
LEMMA CopyEndStep ==
  ASSUME Inv, NEW w \in Writers, CopyEnd(w)
  PROVE Inv'
<1>1. TypeOK'
  BY ConsoleActors, ConsoleSizes
  DEF Inv, TypeOK, CopyEnd, Goto, Pcs, control, drain, copying
<1>2. Roles' /\ Holder'
  BY ConsoleActors DEF Inv, TypeOK, Roles, Holder, control, CopyEnd, Goto
<1>3. CopyInOrder'
  BY ConsoleActors DEF Inv, TypeOK, Holder, CopyInOrder, CopyEnd, Goto
<1>4. DrainInOrder'
  <2> SUFFICES ASSUME NEW a \in Actors, pc'[a] = "drain"
               PROVE Cyclic4(ReadPos', StartPos', EndPos', WritePos')
    BY DEF DrainInOrder
  <2>1. Cyclic4(ReadPos, StartPos, EndPos, WritePos)
    BY ConsoleActors DEF Inv, TypeOK, DrainInOrder, CopyEnd, Goto
  <2>2. Cyclic3(ReadPos, WritePos, WriteOffset)
    BY DEF Inv, CopyInOrder, CopyEnd, Goto
  <2> QED
    BY <2>1, <2>2 DEF Inv, TypeOK, Cyclic3, Cyclic4, CopyEnd, drain
<1> QED
  BY <1>1, <1>2, <1>3, <1>4 DEF Inv

(* Waking the console, or starting to drain it, keeps the order.           *)
LEMMA NotifyStep ==
  ASSUME Inv, NEW w \in Writers, Notify(w)
  PROVE Inv'
<1>1. TypeOK'
  BY ConsoleActors, ConsoleSizes
  DEF Inv, TypeOK, Notify, Goto, Pcs, control, drain
<1>2. Roles'
  BY ConsoleActors, ConsoleSizes DEF Inv, TypeOK, Roles, control, Notify, Goto
<1>3. Holder'
  BY ConsoleActors, ConsoleSizes DEF Inv, TypeOK, Holder, Notify, Goto
<1>4. CopyInOrder'
  BY ConsoleActors DEF Inv, TypeOK, Holder, CopyInOrder, Notify, Goto
<1>5. DrainInOrder'
  BY ConsoleActors DEF Inv, TypeOK, DrainInOrder, Cyclic4, Notify, Goto, drain
<1> QED
  BY <1>1, <1>2, <1>3, <1>4, <1>5 DEF Inv

(* Only one actor drains at a time.                                        *)
LEMMA OneDrainer ==
  ASSUME Inv, NEW a \in Actors, NEW b \in Actors,
         pc[a] \in {"drain_begin", "drain"}, pc[b] \in {"drain_begin", "drain"}
  PROVE a = b
BY DEF Inv, Roles, Holder

(* A step of OS_ConsoleOutput_Impl keeps the order.                        *)
LEMMA DrainStep ==
  ASSUME Inv, NEW a \in Actors, Drain(a)
  PROVE Inv'
<1> USE ConsoleActors, ConsoleSizes
<1>1. CASE DrainBegin(a)
  <2>1. TypeOK'
    BY <1>1 DEF Inv, TypeOK, DrainBegin, Goto, Pcs, control, copying
  <2>2. Roles' /\ Holder'
    BY <1>1 DEF Inv, TypeOK, Roles, Holder, control, DrainBegin, Goto
  <2>3. CopyInOrder'
    BY <1>1 DEF Inv, TypeOK, CopyInOrder, Cyclic3, DrainBegin, Goto, copying
  <2>4. DrainInOrder'
    BY <1>1 DEF Inv, TypeOK, DrainInOrder, Cyclic4, DrainBegin
  <2> QED
    BY <2>1, <2>2, <2>3, <2>4 DEF Inv
<1>2. CASE DrainChunk(a)
  <2>1. StartPos' \in Positions
    BY <1>2 DEF Inv, TypeOK, DrainChunk, Chunk
  <2>2. TypeOK'
    BY <1>2, <2>1 DEF Inv, TypeOK, DrainChunk, Goto, Pcs, control, copying
  <2>3. Roles' /\ Holder'
    BY <1>2 DEF Inv, TypeOK, Roles, Holder, control, DrainChunk, Goto
  <2>4. CopyInOrder'
    BY <1>2 DEF Inv, TypeOK, CopyInOrder, Cyclic3, DrainChunk, Goto, copying
  <2>5. Cyclic4(ReadPos, StartPos, EndPos, WritePos)
    BY <1>2 DEF Inv, DrainInOrder, DrainChunk, Goto
  <2>6. Cyclic4(ReadPos', StartPos', EndPos', WritePos')
    BY <1>2, <2>5 DEF Inv, TypeOK, Cyclic4, DrainChunk, Chunk
  <2> QED
    BY <2>2, <2>3, <2>4, <2>6 DEF Inv, DrainInOrder
<1>3. CASE DrainEnd(a)
  <2>1. TypeOK'
    BY <1>3 DEF Inv, TypeOK, DrainEnd, Goto, Pcs, control, copying
  <2>2. Roles'
    BY <1>3 DEF Inv, TypeOK, Roles, control, DrainEnd, Goto
  <2>3. Holder'
    BY <1>3 DEF Inv, TypeOK, Holder, DrainEnd, Goto
  <2>4. CopyInOrder'
    <3> SUFFICES ASSUME NEW w \in Writers, pc'[w] = "copy"
                 PROVE Cyclic3(ReadPos', WritePos', WriteOffset')
      BY DEF CopyInOrder
    <3>1. Cyclic3(ReadPos, WritePos, WriteOffset)
      BY <1>3 DEF Inv, TypeOK, CopyInOrder, DrainEnd, Goto
    <3>2. Cyclic4(ReadPos, StartPos, EndPos, WritePos)
      BY <1>3 DEF Inv, DrainInOrder, DrainEnd, Goto
    <3> QED
      BY <1>3, <3>1, <3>2 DEF Inv, TypeOK, Cyclic3, Cyclic4, DrainEnd, copying
  <2>5. DrainInOrder'
    BY <1>3, OneDrainer DEF Inv, TypeOK, DrainInOrder, DrainEnd, Goto
  <2> QED
    BY <2>1, <2>2, <2>3, <2>4, <2>5 DEF Inv
<1> QED
  BY <1>1, <1>2, <1>3 DEF Drain

(* The other steps change neither positions nor roles.                     *)
LEMMA OtherStep ==
  ASSUME Inv,
         \/ \E w \in Writers : CancelTask(w)
         \/ ConsoleLoop \/ ConsoleWait \/ Shutdown \/ SetEnabled
         \/ UNCHANGED vars
  PROVE Inv'
<1> USE ConsoleActors, ConsoleSizes
    DEF CancelTask, ConsoleLoop, ConsoleWait, Shutdown, SetEnabled, vars,
        Goto, control, copying, drain
<1>1. TypeOK'
  BY DEF Inv, TypeOK, Pcs
<1>2. Roles'
  BY DEF Inv, TypeOK, Roles
<1>3. Holder'
  BY DEF Inv, TypeOK, Holder
<1>4. CopyInOrder'
  BY DEF Inv, TypeOK, CopyInOrder, Cyclic3
<1>5. DrainInOrder'
  BY DEF Inv, TypeOK, DrainInOrder, Cyclic4
<1> QED
  BY <1>1, <1>2, <1>3, <1>4, <1>5 DEF Inv

(* Every step keeps the invariant.                                         *)
LEMMA NextInv == Inv /\ [Next]_vars => Inv'
<1> SUFFICES ASSUME Inv, [Next]_vars PROVE Inv'
  OBVIOUS
<1>1. ASSUME NEW w \in Writers, printf(w) \/ Copy(w) PROVE Inv'
  BY <1>1, PrintStep, CopyCharStep, CopyEndStep, NotifyStep DEF Copy
<1>2. ASSUME NEW a \in Actors, Drain(a) PROVE Inv'
  BY <1>2, DrainStep
<1> QED
  BY <1>1, <1>2, OtherStep DEF Next, Console

(* For every buffer size, number of writers and length of messages, all    *)
(* positions stay inside the buffer (OS_Console_CopyOut and                *)
(* OS_ConsoleOutput_Impl index it without a check).                        *)
THEOREM TypeCorrect == Spec => []TypeOK
<1>1. Inv => TypeOK
  BY DEF Inv
<1> QED
  BY <1>1, InitInv, NextInv, PTL DEF Spec

(* No writer ever stores into a position that the console has not output,  *)
(* with a console task that takes no lock or without one.                  *)
THEOREM RingIsSafe == Spec => []NoOverwrite
<1>1. Inv => NoOverwrite
  BY ConsoleSizes DEF Inv, TypeOK, CopyInOrder, Cyclic3, NoOverwrite, Span
<1> QED
  BY <1>1, InitInv, NextInv, PTL DEF Spec

\* With a console task, a writer holds the lock only while it copies.
HolderCopies ==
  IsAsync = "yes" => \A w \in Writers : table_mutex = w => pc[w] \in {"copy", "notify"}

(* With a console task, a task that is deleted never leaves the console    *)
(* table locked: nothing between the lock and the unlock of OS_ConsoleWrite*)
(* is a cancellation point.                                                *)
THEOREM AsyncLeavesNoLock == Spec => []NoLockLeftBehind
<1>1. Init => HolderCopies
  BY ConsoleActors DEF Init, HolderCopies
<1>2. Inv /\ HolderCopies /\ [Next]_vars => HolderCopies'
  <2> SUFFICES ASSUME Inv, HolderCopies, [Next]_vars,
                      IsAsync' = "yes", NEW w \in Writers, table_mutex' = w
               PROVE pc'[w] \in {"copy", "notify"}
    BY DEF HolderCopies
  <2> USE ConsoleActors DEF Inv, TypeOK, HolderCopies, Goto, control
  <2>1. ASSUME NEW v \in Writers, printf(v) \/ Copy(v) PROVE pc'[w] \in {"copy", "notify"}
    BY <2>1 DEF printf, Copy, CopyChar, CopyEnd, Notify
  <2>2. ASSUME NEW a \in Actors, Drain(a) PROVE pc'[w] \in {"copy", "notify"}
    BY <2>2 DEF Drain, DrainBegin, DrainChunk, DrainEnd, Roles
  <2>3. ASSUME NEW v \in Writers, CancelTask(v) PROVE pc'[w] \in {"copy", "notify"}
    BY <2>3 DEF CancelTask, Roles
  <2>4. ASSUME ConsoleLoop \/ ConsoleWait \/ Shutdown \/ SetEnabled \/ UNCHANGED vars
        PROVE pc'[w] \in {"copy", "notify"}
    BY <2>4 DEF ConsoleLoop, ConsoleWait, Shutdown, SetEnabled, vars
  <2> QED
    BY <2>1, <2>2, <2>3, <2>4 DEF Next, Console
<1>3. HolderCopies => NoLockLeftBehind
  BY DEF HolderCopies, NoLockLeftBehind
<1> QED
  BY <1>1, <1>2, <1>3, InitInv, NextInv, PTL DEF Spec
=============================================================================
