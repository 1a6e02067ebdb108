------------------------------ MODULE BinSemMC ------------------------------
(* Instances of BinSem for TLC. *)
EXTENDS BinSem

=============================================================================
