---------------------------- MODULE TimerRingMC ----------------------------
(* Small instances of TimerRing for TLC.                                   *)
EXTENDS TimerRing, TLC

\* One length of a tick: the longer start time takes two of them, and several
\* intervals fit into one.
MCTicks == {5}

\* A one-shot timer and a periodic one.
MCSettings == {<<1, 0>>, <<6, 1>>}

MCSymmetry == Permutations(Timers) \cup Permutations(Users)
=============================================================================
