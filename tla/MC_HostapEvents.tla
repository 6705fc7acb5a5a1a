--------------------------- MODULE MC_HostapEvents ---------------------------
(* Model values and small byte strings for checking HostapEvents.          *)
EXTENDS HostapEvents, TLC

CONSTANTS s1, s2

MC_Stations == {s1, s2}

(* The lifecycle names as one-byte strings, none a prefix of another.     *)
MC_CONNECTED_OK   == <<1>>
MC_RECONNECTED_OK == <<2>>
MC_DISCONNECTED   == <<3>>

(* Events hostapd emits: the lifecycle ones and one other.                 *)
MC_EventOps == {MC_CONNECTED_OK, MC_RECONNECTED_OK, MC_DISCONNECTED, <<4>>}

(* One event, for the runs about the table itself.                         *)
MC_OneOp == {<<4>>}

(* The events without INTERFACE_CONNECTED_OK.                              *)
MC_FannedOutOps == MC_EventOps \ {MC_CONNECTED_OK}

Symmetry == Permutations(MC_Stations)
==============================================================================
