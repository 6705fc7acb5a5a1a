------------------------------ MODULE MC_DriverNl ------------------------------
(* Two application threads, three service slots, slot 0 a hostap VAP.     *)
EXTENDS DriverNl, TLC

CONSTANTS u1, u2

MC_Users == {u1, u2}
MC_HostapSlots == {0}
MC_LockModes == {TRUE, FALSE}
MC_LockAlways == {TRUE}

Symmetry == Permutations(MC_Users)
==============================================================================
