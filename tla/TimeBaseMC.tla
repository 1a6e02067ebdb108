----------------------------- MODULE TimeBaseMC -----------------------------
(***************************************************************************)
(* Instances of TimeBase for model checking.                               *)
(***************************************************************************)
EXTENDS TimeBase

MCAllFaults == Fault
=============================================================================
