------------------------- MODULE MC_ListenerMonitor -------------------------
(* Bounds for ListenerMonitor.  The allocator has a context for the first  *)
(* attach of every entry, one for each crash and one per entry for each    *)
(* cancel cycle, whose ping may tear a live connection down.               *)
EXTENDS ListenerMonitor

MC_MaxPtr == NumSlots * (1 + MaxCycles) + MaxDeaths
=============================================================================
