---------------------------- MODULE MC_DwpalExt ----------------------------
(* Model-checking instance of DwpalExt: two VAPs, two table slots, model   *)
(* values for threads and VAP names.                                       *)
EXTENDS DwpalExt, TLC

CONSTANTS v1, v2, c1, c2

MC_Vaps == {v1, v2}
MC_TwoCallers == {c1, c2}
MC_OneCaller == {c1}
MC_AllOps == {"attach", "detach", "cmd"}
MC_LifecycleOps == {"attach", "detach"}

(* Each hostapd may be up or down when the first attach runs.            *)
MC_AnyUp == BOOLEAN

Symmetry == Permutations(MC_Vaps) \cup Permutations(MC_TwoCallers)

(* The locals of a thread that is outside any call (a caller at "idle",    *)
(* the monitor in select()) are dead: states that differ only in them are  *)
(* identified.                                                             *)
Live(t) == pc[t] \notin {"idle", "sel"}
CallerLocals(c) ==
    IF Live(c) THEN <<cop[c], opVap[c], aidx[c], aret[c]>> ELSE <<>>
CallLocals(t) ==
    IF Live(t) THEN <<cvap[t], cidx[t], cres[t], ccont[t]>> ELSE <<>>
View ==
    <<tableVars, envVars, threadVars, pc, budget, mirror, misrouted,
      [c \in Callers |-> CallerLocals(c)], [t \in Threads |-> CallLocals(t)],
      IF Live(Monitor) THEN <<mslot, doRec>> ELSE <<>>>>
=============================================================================
