-------------------------- MODULE MC_StatsNlClient --------------------------
(* The statistics tool's commands against a driver with up to two         *)
(* stations and two MU groups.                                             *)
EXTENDS StatsNlClient

CONSTANTS s1, s2

MC_Stations == {s1, s2}
MC_PeerLists == {<<>>, <<s1>>, <<s1, s2>>}

\* MuSuStatistics with categories 0, 1 and the invalid 2; MimoStatistics;
\* the MU group dump of every group; a one-get command.
MC_Cmds ==
    {[kind |-> "ofdma", id |-> "SUMU", param |-> p] : p \in 0..2}
    \cup {[kind |-> "ofdma", id |-> "MIMO", param |-> 0],
          [kind |-> "mu", id |-> "none", param |-> 0],
          [kind |-> "single", id |-> "none", param |-> 0]}
====
