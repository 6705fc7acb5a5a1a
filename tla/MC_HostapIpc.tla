------------------------------ MODULE MC_HostapIpc ------------------------------
(* Names, opcodes and messages of distinct bytes, so that a misplaced one  *)
(* shows; the message length field is 3 bits wide instead of 16, so that   *)
(* its edge is within reach.                                               *)
EXTENDS HostapIpc



MC_VapNames == {<<1>>, <<1, 1>>}
MC_OpCodes == {<<2>>, <<2, 2>>}
MC_Msgs == {[i \in 1..n |-> 3] : n \in 0..7}
MC_ShortMsgs == {[i \in 1..n |-> 3] : n \in 0..2}
MC_CmdFrames ==
    [len : 0..3, data : UNION {[1..n -> {1, 2}] : n \in 0..3}]
==============================================================================
