----------------------------- MODULE BinSemSpec -----------------------------
(***************************************************************************)
(* What an OSAL binary semaphore promises, stated without a mutex or a     *)
(* condition variable: the two ways out of a take that the comment in      *)
(* OS_GenericBinSemTake_Impl (src/os/posix/src/os-impl-binsem.c) lists,    *)
(* and the timeout.                                                        *)
(*                                                                         *)
(* A pending task takes the semaphore, which is then no longer available;  *)
(* or a flush released it and it leaves without touching the semaphore; or *)
(* it stops waiting, which does not touch the semaphore either.  A take    *)
(* returns success in the first two cases only.                            *)
(***************************************************************************)
CONSTANTS Tasks

VARIABLES
  available,  \* can a task take the semaphore
  pending,    \* tasks that are in a take
  flushed,    \* those of them that a flush has released
  outcome     \* task -> how its last take ended

absvars == <<available, pending, flushed, outcome>>

Init ==
  /\ available \in BOOLEAN
  /\ pending = {} /\ flushed = {}
  /\ outcome = [t \in Tasks |-> "none"]

Arrive(t) ==
  /\ t \notin pending
  /\ pending' = pending \cup {t}
  /\ outcome' = [outcome EXCEPT ![t] = "none"]
  /\ UNCHANGED <<available, flushed>>

Give == available' = TRUE /\ UNCHANGED <<pending, flushed, outcome>>

Flush == flushed' = pending /\ UNCHANGED <<available, pending, outcome>>

Leave(t, result) ==
  /\ pending' = pending \ {t}
  /\ flushed' = flushed \ {t}
  /\ outcome' = [outcome EXCEPT ![t] = result]

Take(t) ==
  /\ available /\ t \in pending \ flushed
  /\ available' = FALSE
  /\ Leave(t, "success")

LeaveFlushed(t) == t \in flushed /\ Leave(t, "success") /\ UNCHANGED available

StopWaiting(t) ==
  /\ t \in pending
  /\ \E result \in {"timeout", "none"} : Leave(t, result)
  /\ UNCHANGED available

Next ==
  \/ Give \/ Flush
  \/ \E t \in Tasks : Arrive(t) \/ Take(t) \/ LeaveFlushed(t) \/ StopWaiting(t)

Spec == Init /\ [][Next]_absvars
=============================================================================
