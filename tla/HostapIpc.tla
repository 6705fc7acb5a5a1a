------------------------------- MODULE HostapIpc -------------------------------
(***************************************************************************)
(* The daemon's two IPC conversions in src/daemon/hostap_iface.c:          *)
(*   - dwpal_ext_hostap_event_callback frames a hostapd event for the IPC  *)
(*     clients: a header (name length and opcode length in one byte each,  *)
(*     message length in a 16-bit field) and the payload                   *)
(*     name ++ opcode ++ message ++ NUL, plus the extra-info envelope      *)
(*     (opcode ++ NUL ++ message ++ NUL, msg_ofs, msg_len) the dispatcher  *)
(*     reads;                                                              *)
(*   - hostap_execute_command takes a client's command frame (header[2] =  *)
(*     VAP name length, payload name ++ command), forwards it with         *)
(*     dwpal_ext_hostap_cmd_send and answers with a response frame.        *)
(* Strings are byte sequences without their NUL; byte 0 is NUL.  Every     *)
(* allocation of the handlers may fail.                                    *)
(***************************************************************************)
EXTENDS Integers, Sequences

CONSTANTS
    LenBits,       \* width of the message length field (uint16_t: 16)
    IFNAMSIZ,      \* vap_name of hostap_execute_command holds IFNAMSIZ + 1 bytes
    VapNames,      \* interface names the listener passes
    OpCodes,       \* opcodes the listener passes
    Msgs,          \* messages the listener passes (NULL is NoMsg)
    NoMsg,         \* msg == NULL (INTERFACE_DISCONNECTED)
    CmdFrames,     \* [len |-> header[2], data |-> payload] a client may send
    MaxCalls,      \* handler calls, in all
    MaxAllocFail   \* allocation failures, in all

VARIABLES
    frames,      \* events handed to iface_manager_event_received, in order
    cmds,        \* commands executed, in order, with what became of them
    leaked,      \* IPC messages allocated by a handler and never released
    calls,       \* handler calls made
    allocFails   \* allocation failures so far

vars == <<frames, cmds, leaked, calls, allocFails>>

Take(s, n) == SubSeq(s, 1, n)
Drop(s, n) == SubSeq(s, n + 1, Len(s))

(* strncpy_s(dst, dmax, src, n): the bytes of src up to its NUL or n. *)
StrnCpy(s, n) == Take(s, IF Len(s) < n THEN Len(s) ELSE n)

Failures(steps) ==
    {"none"} \cup (IF allocFails < MaxAllocFail THEN steps ELSE {})

(* Mutant: msg_ofs set to the opcode length, without its NUL.            *)
EventFrame_OfsOffByOne(vap, op, msg, len) ==
    LET h2 == Len(vap) % 256
        h3 == Len(op) % 256
        body == IF msg # NoMsg /\ len > 0 THEN Take(msg, len - 1) \o <<0>> ELSE <<>>
    IN  [vap |-> vap, op |-> op, msg |-> msg,
         hdr |-> [class |-> "DWPALD_EVENT", nameLen |-> h2, opLen |-> h3, msgLen |-> len],
         data |-> Take(vap, h2) \o Take(op, h3) \o body,
         msgOfs |-> h3, msgLen |-> len,
         extra |-> StrnCpy(op, h3) \o <<0>>
                   \o (IF len > 0 /\ msg # NoMsg THEN StrnCpy(msg, len) \o <<0>> ELSE <<>>)]

(* The event frame and envelope of dwpal_ext_hostap_event_callback for a   *)
(* message whose length passed the 16-bit check; len is msg_len_16bit.     *)
EventFrame(vap, op, msg, len) ==
    LET h2 == Len(vap) % 256
        h3 == Len(op) % 256
        body == IF msg # NoMsg /\ len > 0 THEN Take(msg, len - 1) \o <<0>> ELSE <<>>
    IN  [vap |-> vap, op |-> op, msg |-> msg,
         hdr |-> [class |-> "DWPALD_EVENT", nameLen |-> h2, opLen |-> h3, msgLen |-> len],
         data |-> Take(vap, h2) \o Take(op, h3) \o body,
         msgOfs |-> h3 + 1, msgLen |-> len,
         extra |-> StrnCpy(op, h3) \o <<0>>
                   \o (IF len > 0 /\ msg # NoMsg THEN StrnCpy(msg, len) \o <<0>> ELSE <<>>)]

Init ==
    /\ frames = <<>>
    /\ cmds = <<>>
    /\ leaked = 0
    /\ calls = 0
    /\ allocFails = 0

(* dwpal_ext_hostap_event_callback(vap_name, op_code, msg, msg_len), with  *)
(* msg_len = strnlen(msg) as the listener passes it: wave_ipc_msg_alloc,   *)
(* msg_len + 1 for the NUL and the 16-bit check, reserve and get_data of   *)
(* the payload (released with wave_ipc_msg_put on failure), the calloc of  *)
(* the envelope, then the hand-over to the interface manager.              *)
EventCallback(vap, op, msg) ==
    /\ calls < MaxCalls
    /\ calls' = calls + 1
    /\ LET n   == IF msg = NoMsg THEN 0 ELSE Len(msg)
           n1  == IF msg # NoMsg /\ n > 0 THEN n + 1 ELSE n
           n16 == n1 % (2 ^ LenBits)
       IN  \E fail \in Failures({"alloc", "reserve", "data", "calloc"}) :
             /\ n16 # n1 => fail \in {"none", "alloc"}
             /\ allocFails' = IF fail = "none" THEN allocFails ELSE allocFails + 1
             /\ IF fail = "alloc"
                THEN UNCHANGED <<frames, leaked>>
                ELSE IF n16 # n1
                THEN /\ leaked' = leaked + 1
                     /\ UNCHANGED frames
                ELSE IF fail \in {"reserve", "data", "calloc"}
                THEN UNCHANGED <<frames, leaked>>
                ELSE /\ frames' = Append(frames, EventFrame(vap, op, msg, n16))
                     /\ UNCHANGED leaked
    /\ UNCHANGED cmds

(* A byte read past the end of a message's data: not one the client sent. *)
OutOfBuffer == -1

(* The first n bytes at cmd_data, running on past the payload's end.      *)
ReadBytes(s, n) == [i \in 1..n |-> IF i <= Len(s) THEN s[i] ELSE OutOfBuffer]

(* vap_name as the string dwpal_ext_hostap_cmd_send reads, after the       *)
(* libsafec memcpy_s(vap_name, IFNAMSIZ + 1, cmd_data, n) into the zeroed  *)
(* array: n > dmax fails and zeroes it; n = dmax leaves no NUL, so the     *)
(* string runs on past the array.                                          *)
VapName(s, n) ==
    CASE n > IFNAMSIZ + 1 -> <<>>
      [] n = IFNAMSIZ + 1 -> ReadBytes(s, n) \o <<OutOfBuffer>>
      [] OTHER            -> ReadBytes(s, n)

(* Mutant: the cmd_data_size < header[2] test is dropped.                *)
CmdFrameOk_NoSizeCheck(f) ==
    /\ ~(f.len >= IFNAMSIZ + 1)
    /\ f.data # <<>> /\ f.len # 0

(* Mutant: header[2] > sizeof(vap_name) instead of >=.                   *)
CmdFrameOk_GtNameSize(f) ==
    /\ ~(Len(f.data) < f.len)
    /\ ~(f.len > IFNAMSIZ + 1)
    /\ f.data # <<>> /\ f.len # 0

(* The header check of hostap_execute_command: the payload holds the name, *)
(* the name fits vap_name with its NUL, and both are present.              *)
CmdFrameOk(f) ==
    /\ ~(Len(f.data) < f.len)
    /\ ~(f.len >= IFNAMSIZ + 1)
    /\ f.data # <<>> /\ f.len # 0

(* hostap_execute_command: dwpald_header_pop and the header check (return *)
(* 1 with no answer), vap_name = the first header[2] bytes and cmd_data    *)
(* the rest, wave_ipc_msg_alloc / reserve_data / get_data of the response  *)
(* (return 1 with no answer, the message released), the blocking           *)
(* dwpal_ext_hostap_cmd_send, and the response frame with the DWPAL_Ret in *)
(* header[2] and the reply only on success.  A record of the call is kept: *)
(* what went to hostapd (sent) and what went back to the client (resp).    *)
ExecuteCommand(f) ==
    /\ calls < MaxCalls
    /\ calls' = calls + 1
    /\ IF ~CmdFrameOk(f)
       THEN /\ cmds' = Append(cmds, [frame |-> f, fail |-> "none", sent |-> <<>>, resp |-> <<>>])
            /\ UNCHANGED allocFails
       ELSE \E fail \in Failures({"alloc", "reserve", "data"}),
               ret \in {"DWPAL_SUCCESS", "DWPAL_FAILURE"} :
              /\ allocFails' = IF fail = "none" THEN allocFails ELSE allocFails + 1
              /\ fail # "none" => ret = "DWPAL_FAILURE"
              /\ LET sent == IF fail = "none"
                             THEN <<[vap |-> VapName(f.data, f.len), cmd |-> Drop(f.data, f.len)]>>
                             ELSE <<>>
                     resp == IF fail = "none"
                             THEN <<[hdr |-> <<"DWPALD_CMD_RESP", "DWPALD_IF_TYPE_HOSTAP", ret>>,
                                     hasReply |-> ret = "DWPAL_SUCCESS"]>>
                             ELSE <<>>
                 IN  cmds' = Append(cmds, [frame |-> f, fail |-> fail, sent |-> sent, resp |-> resp])
    /\ UNCHANGED <<frames, leaked>>

(* The handler calls are spent: the daemon waits for more.                *)
Done ==
    /\ calls = MaxCalls
    /\ UNCHANGED vars

Next ==
    \/ \E vap \in VapNames, op \in OpCodes, msg \in Msgs \cup {NoMsg} :
         EventCallback(vap, op, msg)
    \/ \E f \in CmdFrames : ExecuteCommand(f)
    \/ Done

Spec == Init /\ [][Next]_vars

-----------------------------------------------------------------------------
(***************************************************************************)
(* Properties                                                              *)
(***************************************************************************)

TypeOK ==
    /\ frames \in Seq([vap : VapNames, op : OpCodes, msg : Msgs \cup {NoMsg},
                       hdr : [class : {"DWPALD_EVENT"}, nameLen : 0..255, opLen : 0..255,
                             msgLen : 0..(2 ^ LenBits - 1)],
                       data : Seq(Nat),
                       msgOfs : 1..256, msgLen : 0..(2 ^ LenBits - 1), extra : Seq(Nat)])
    /\ cmds \in Seq([frame : CmdFrames, fail : {"none", "alloc", "reserve", "data"},
                     sent : Seq([vap : Seq(0..255), cmd : Seq(0..255)]),
                     resp : Seq([hdr : {"DWPALD_CMD_RESP"} \X {"DWPALD_IF_TYPE_HOSTAP"}
                                       \X {"DWPAL_SUCCESS", "DWPAL_FAILURE"},
                                 hasReply : BOOLEAN])])
    /\ leaked \in Nat /\ calls \in 0..MaxCalls /\ allocFails \in 0..MaxAllocFail

(* The message part of an event frame as a client decodes it: msgLen      *)
(* bytes after name and opcode, the last of them the NUL.                  *)
DecodedMsg(f) ==
    LET start == f.hdr.nameLen + f.hdr.opLen
    IN  IF f.hdr.msgLen = 0 THEN <<>> ELSE SubSeq(f.data, start + 1, start + f.hdr.msgLen - 1)

(* Every event frame decodes to what the listener passed: the name and     *)
(* opcode at the offsets the header gives, the message after them ended by *)
(* its NUL at exactly header length bytes, and the envelope holds the      *)
(* opcode before msg_ofs and the message from it.                          *)
EventFrameDecodes ==
    \A k \in 1..Len(frames) :
      LET f == frames[k]
          m == IF f.msg = NoMsg THEN <<>> ELSE f.msg
      IN  /\ Len(f.data) = f.hdr.nameLen + f.hdr.opLen + f.hdr.msgLen
          /\ SubSeq(f.data, 1, f.hdr.nameLen) = f.vap
          /\ SubSeq(f.data, f.hdr.nameLen + 1, f.hdr.nameLen + f.hdr.opLen) = f.op
          /\ DecodedMsg(f) = m
          /\ f.hdr.msgLen > 0 => f.data[Len(f.data)] = 0
          /\ SubSeq(f.extra, 1, f.msgOfs - 1) = f.op
          /\ f.msgLen > 0 => SubSeq(f.extra, f.msgOfs + 1, f.msgOfs + Len(m)) = m

(* A frame the protocol allows: a VAP name of 1 to IFNAMSIZ bytes, all of *)
(* them inside the payload.                                                *)
ValidCmdFrame(f) == f.len \in 1..IFNAMSIZ /\ f.len <= Len(f.data)

(* hostap_execute_command forwards a client's frame to hostapd exactly     *)
(* when the frame is valid and the response could be allocated, and then  *)
(* with the name the client framed and the bytes after it as the command:  *)
(* the header check at line 264 neither lets a bad name length through to *)
(* the memcpy_s nor refuses a name of the full IFNAMSIZ bytes.             *)
ForwardsValidFrames ==
    \A k \in 1..Len(cmds) :
      LET c == cmds[k]
          f == c.frame
      IN  c.sent = IF ValidCmdFrame(f) /\ c.fail = "none"
                   THEN <<[vap |-> Take(f.data, f.len), cmd |-> Drop(f.data, f.len)]>>
                   ELSE <<>>

(* A failing event callback releases every IPC message it allocated.      *)
NoLeakOnFailure == leaked = 0

(* Every command frame a client sends is answered with a response frame;   *)
(* a malformed one with an error status (spec 4.4).                        *)
EveryCommandAnswered == \A k \in 1..Len(cmds) : cmds[k].resp # <<>>
==============================================================================
