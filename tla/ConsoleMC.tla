----------------------------- MODULE ConsoleMC -----------------------------
(***************************************************************************)
(* Instances of Console for model checking.                                *)
(***************************************************************************)
EXTENDS Console

CONSTANTS m1, m2, m3, m4

MCLength == [m \in Messages |-> IF m = m1 THEN 1 ELSE IF m = m2 THEN 2
                                ELSE IF m = m3 THEN 3 ELSE 4]
=============================================================================
