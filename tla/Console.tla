------------------------------ MODULE Console ------------------------------
(***************************************************************************)
(* The console behind OS_printf: the ring buffer that OS_ConsoleWrite      *)
(* fills under the table lock (src/os/shared/src/osapi-printf.c) and that  *)
(* OS_ConsoleOutput_Impl empties (src/os/portable/os-impl-console-bsp.c),  *)
(* from the console task, which takes no lock (src/os/posix/src/           *)
(* os-impl-console.c), or, without such a task, from the writer itself.    *)
(*                                                                         *)
(* A message is the device name and the formatted string; its characters   *)
(* are numbered.                                                           *)
(***************************************************************************)
EXTENDS Integers, Sequences

CONSTANTS
  Writers,      \* tasks that call OS_printf
  ConsoleTask,  \* the task that empties the buffer, if there is one
  NONE,         \* nobody
  Messages,     \* the messages; each is written at most once
  Length,       \* message -> number of characters
  BufSize       \* OS_console_internal_record_t.BufSize

ASSUME ConsoleActors ==
  ConsoleTask \notin Writers /\ NONE \notin Writers \cup {ConsoleTask}
ASSUME ConsoleSizes ==
  /\ BufSize \in Nat \ {0}
  /\ Length \in [Messages -> Nat]

VARIABLES
  GlobalState,   \* "init" or "shutdown"
  PrintfEnabled, \* "yes" or "no"
  IsAsync,       \* "yes" or "no": with a console task (OSAL_CONFIG_CONSOLE_ASYNC)
  BufBase,       \* position -> <<message, character>>
  ReadPos, WritePos,
  table_mutex,   \* the lock of the console table
  data_sem,      \* the semaphore the console task waits for
  pc,            \* actor -> where it is
  msg,           \* the message being copied
  WriteOffset,   \* of OS_Console_CopyOut
  pmsg,          \* characters copied
  StartPos,      \* of OS_ConsoleOutput_Impl
  EndPos,
  unused,        \* messages not yet written
  accepted,      \* the messages in the order of acceptance
  output         \* what the device was given

control == <<GlobalState, PrintfEnabled, IsAsync>>
copying == <<msg, WriteOffset, pmsg>>
drain   == <<StartPos, EndPos>>
vars == <<control, BufBase, ReadPos, WritePos, table_mutex, data_sem, pc,
          copying, drain, unused, accepted, output>>

Actors == Writers \cup {ConsoleTask}
Positions == 0..(BufSize - 1)
Pcs == {"idle", "copy", "notify", "drain_begin", "drain", "wait", "start", "end"}

TypeOK ==
  /\ GlobalState \in {"init", "shutdown"}
  /\ PrintfEnabled \in {"yes", "no"} /\ IsAsync \in {"yes", "no"}
  /\ ReadPos \in Positions /\ WritePos \in Positions
  /\ table_mutex \in Writers \cup {NONE}
  /\ data_sem \in Nat
  /\ pc \in [Actors -> Pcs]
  /\ msg \in Messages \cup {NONE} /\ pmsg \in Nat /\ WriteOffset \in Positions
  /\ StartPos \in Positions /\ EndPos \in Positions
  /\ unused \subseteq Messages

Init ==
  /\ GlobalState = "init" /\ PrintfEnabled = "yes" /\ IsAsync \in {"yes", "no"}
  /\ BufBase = [i \in Positions |-> <<NONE, 0>>]
  /\ ReadPos = 0 /\ WritePos = 0
  /\ table_mutex = NONE /\ data_sem = 0
  /\ pc = [a \in Actors |-> IF a # ConsoleTask THEN "idle"
                            ELSE IF IsAsync = "yes" THEN "start" ELSE "end"]
  /\ msg = NONE /\ WriteOffset = 0 /\ pmsg = 0
  /\ StartPos = 0 /\ EndPos = 0
  /\ unused = Messages /\ accepted = <<>> /\ output = <<>>

Goto(a, from, to) == pc[a] = from /\ pc' = [pc EXCEPT ![a] = to]

\* The position after p.
After(p) == IF p + 1 >= BufSize THEN 0 ELSE p + 1
-----------------------------------------------------------------------------
(* OS_printf and OS_ConsoleWrite.                                          *)

\* Up to the lock of the table.
printf(w) ==
  /\ Goto(w, "idle", "copy")
  /\ GlobalState = "init" /\ PrintfEnabled = "yes"
  /\ table_mutex = NONE /\ table_mutex' = w
  /\ \E m \in unused : msg' = m /\ unused' = unused \ {m}
  /\ WriteOffset' = WritePos /\ pmsg' = 0
  /\ UNCHANGED <<control, BufBase, ReadPos, WritePos, data_sem, drain,
                 accepted, output>>

(* Mutant: a full buffer is noticed one character too late.                *)
CopyChar_Late(w) ==
  LET full == WriteOffset = ReadPos /\ pmsg > 0 IN
  /\ Goto(w, "copy", IF full THEN "notify" ELSE "copy")
  /\ pmsg < Length[msg]
  /\ BufBase' = [BufBase EXCEPT ![WriteOffset] = <<msg, pmsg + 1>>]
  /\ WriteOffset' = After(WriteOffset)
  /\ pmsg' = pmsg + 1
  /\ UNCHANGED <<control, ReadPos, WritePos, table_mutex, data_sem, msg, drain,
                 unused, accepted, output>>

\* OS_Console_CopyOut: one character; out of space when the next position is
\* the read position.
CopyChar(w) ==
  LET full == After(WriteOffset) = ReadPos IN
  /\ Goto(w, "copy", IF full THEN "notify" ELSE "copy")
  /\ pmsg < Length[msg]
  /\ BufBase' = [BufBase EXCEPT ![WriteOffset] = <<msg, pmsg + 1>>]
  /\ WriteOffset' = After(WriteOffset)
  /\ pmsg' = pmsg + 1
  /\ UNCHANGED <<control, ReadPos, WritePos, table_mutex, data_sem, msg, drain,
                 unused, accepted, output>>

\* The string is complete.
CopyEnd(w) ==
  /\ Goto(w, "copy", "notify")
  /\ pmsg = Length[msg]
  /\ WritePos' = WriteOffset
  /\ accepted' = Append(accepted, msg)
  /\ UNCHANGED <<control, BufBase, ReadPos, table_mutex, data_sem, copying,
                 drain, unused, output>>

(* Mutant: the console task is not woken.                                  *)
Notify_NoPost(w) ==
  /\ Goto(w, "notify", IF IsAsync = "yes" THEN "idle" ELSE "drain_begin")
  /\ table_mutex' = IF IsAsync = "yes" THEN NONE ELSE table_mutex
  /\ msg' = NONE /\ pmsg' = 0 /\ WriteOffset' = 0
  /\ UNCHANGED <<control, BufBase, ReadPos, WritePos, data_sem, drain, unused,
                 accepted, output>>

(* Mutant: the writer always outputs directly.                             *)
Notify_Directly(w) ==
  /\ Goto(w, "notify", "drain_begin")
  /\ msg' = NONE /\ pmsg' = 0 /\ WriteOffset' = 0
  /\ UNCHANGED <<control, BufBase, ReadPos, WritePos, table_mutex, data_sem,
                 drain, unused, accepted, output>>

\* Wake the console task and unlock, or output directly.
Notify(w) ==
  /\ Goto(w, "notify", IF IsAsync = "yes" THEN "idle" ELSE "drain_begin")
  /\ data_sem' = IF IsAsync = "yes" THEN data_sem + 1 ELSE data_sem
  /\ table_mutex' = IF IsAsync = "yes" THEN NONE ELSE table_mutex
  /\ msg' = NONE /\ pmsg' = 0 /\ WriteOffset' = 0
  /\ UNCHANGED <<control, BufBase, ReadPos, WritePos, drain, unused, accepted,
                 output>>
-----------------------------------------------------------------------------
(* OS_ConsoleOutput_Impl, in the console task or in a writer.              *)

DrainBegin(a) ==
  /\ Goto(a, "drain_begin", "drain")
  /\ StartPos' = ReadPos /\ EndPos' = WritePos
  /\ UNCHANGED <<control, BufBase, ReadPos, WritePos, table_mutex, data_sem,
                 copying, unused, accepted, output>>

(* Mutant: after a wrap the part up to the end position is left out.       *)
Chunk_NoWrap == EndPos - StartPos

\* WriteSize
Chunk == IF StartPos > EndPos THEN BufSize - StartPos ELSE EndPos - StartPos

DrainChunk(a) ==
  /\ Goto(a, "drain", "drain")
  /\ StartPos # EndPos
  /\ output' = output \o [i \in 1..Chunk |-> BufBase[StartPos + i - 1]]
  /\ StartPos' = IF StartPos + Chunk >= BufSize THEN 0 ELSE StartPos + Chunk
  /\ UNCHANGED <<control, BufBase, ReadPos, WritePos, table_mutex, data_sem,
                 copying, EndPos, unused, accepted>>

\* The read position moves when all is written; a writer then unlocks.
DrainEnd(a) ==
  /\ Goto(a, "drain", IF a = ConsoleTask THEN "wait" ELSE "idle")
  /\ StartPos = EndPos
  /\ ReadPos' = StartPos
  /\ table_mutex' = IF a = ConsoleTask THEN table_mutex ELSE NONE
  /\ StartPos' = 0 /\ EndPos' = 0
  /\ UNCHANGED <<control, BufBase, WritePos, data_sem, copying, unused,
                 accepted, output>>
-----------------------------------------------------------------------------
(* OS_ConsoleTask_Entry.                                                   *)

ConsoleLoop ==
  /\ Goto(ConsoleTask, "start",
          IF GlobalState = "shutdown" THEN "end" ELSE "drain_begin")
  /\ UNCHANGED <<control, BufBase, ReadPos, WritePos, table_mutex, data_sem,
                 copying, drain, unused, accepted, output>>

\* sem_wait
ConsoleWait ==
  /\ Goto(ConsoleTask, "wait", "start")
  /\ data_sem > 0 /\ data_sem' = data_sem - 1
  /\ UNCHANGED <<control, BufBase, ReadPos, WritePos, table_mutex, copying,
                 drain, unused, accepted, output>>
-----------------------------------------------------------------------------
\* OS_ApplicationShutdown(true)
Shutdown ==
  /\ GlobalState = "init" /\ GlobalState' = "shutdown"
  /\ UNCHANGED <<PrintfEnabled, IsAsync, BufBase, ReadPos, WritePos, table_mutex,
                 data_sem, pc, copying, drain, unused, accepted, output>>

\* OS_printf_disable and OS_printf_enable
SetEnabled ==
  /\ PrintfEnabled' \in {"yes", "no"} \ {PrintfEnabled}
  /\ UNCHANGED <<GlobalState, IsAsync, BufBase, ReadPos, WritePos, table_mutex,
                 data_sem, pc, copying, drain, unused, accepted, output>>

\* The deletion of a writer takes effect where it may block: outside, or in
\* the write to the device.
CancelTask(w) ==
  /\ \/ Goto(w, "idle", "end")
     \/ Goto(w, "drain", "end") /\ StartPos # EndPos
  /\ UNCHANGED <<control, BufBase, ReadPos, WritePos, table_mutex, data_sem,
                 copying, drain, unused, accepted, output>>
-----------------------------------------------------------------------------
Copy(w) == CopyChar(w) \/ CopyEnd(w) \/ Notify(w)
Drain(a) == DrainBegin(a) \/ DrainChunk(a) \/ DrainEnd(a)
Console == ConsoleLoop \/ ConsoleWait \/ Drain(ConsoleTask)

Next ==
  \/ \E w \in Writers : printf(w) \/ Copy(w) \/ Drain(w) \/ CancelTask(w)
  \/ Console \/ Shutdown \/ SetEnabled

Spec == Init /\ [][Next]_vars

(* The kernel runs every task that can run; nobody must call OS_printf.    *)
FairSpec ==
  Spec /\ WF_vars(Console) /\ \A w \in Writers : WF_vars(Copy(w) \/ Drain(w))
-----------------------------------------------------------------------------
\* The positions from p up to, and without, q.
Span(p, q) == IF p <= q THEN p..(q - 1) ELSE p..(BufSize - 1) \cup 0..(q - 1)

(* A writer never stores into a position that is not yet output, although  *)
(* the console task moves the read position without the lock.              *)
NoOverwrite ==
  \A w \in Writers : pc[w] = "copy" /\ pmsg < Length[msg] =>
    WriteOffset \notin Span(ReadPos, WritePos)

\* All characters of the accepted messages, in order.
Accepted ==
  LET Text(m) == [k \in 1..Length[m] |-> <<m, k>>]
      All[n \in 0..Len(accepted)] ==
        IF n = 0 THEN <<>> ELSE All[n - 1] \o Text(accepted[n])
  IN All[Len(accepted)]

(* The device is given the accepted messages in the order of acceptance,   *)
(* each of them whole and once: the entire string should be put to the     *)
(* ring buffer, or none of it.                                             *)
OutputIsAccepted ==
  /\ Len(output) <= Len(Accepted)
  /\ output = SubSeq(Accepted, 1, Len(output))

(* A writer that was deleted does not leave the console table locked, when *)
(* there is a console task.                                                *)
NoLockLeftBehind ==
  IsAsync = "yes" => \A w \in Writers : table_mutex = w => pc[w] # "end"

(* Everything accepted is output, unless a shutdown ends the console task. *)
AcceptedIsOutput ==
  (pc[ConsoleTask] # "end" /\ Len(output) < Len(Accepted))
    ~> (Len(output) = Len(Accepted) \/ GlobalState = "shutdown")
=============================================================================
