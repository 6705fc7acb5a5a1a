----------------------------- MODULE DriverNlCmd -----------------------------
(***************************************************************************)
(* The solicited netlink exchange of the driver adapter, nl_cmd_handle     *)
(* with output buffer (src/dwpal_ext.c 1050-1296): under nl_cmd_mutex a    *)
(* caller drains the command socket (nl_cmd_socket_clean_if_needed), sends *)
(* its command (dwpal_driver_nl_cmd_send) and waits up to 2 seconds for    *)
(* one message (nl_cmd_socket_receive_response), which nlCmdGetCallback    *)
(* copies into the caller's outData.                                       *)
(*                                                                         *)
(* Commands carry ids; the driver answers them in order, each answer a     *)
(* message on the command socket (fdCmdGet).  An answer may come after its *)
(* caller stopped waiting.  The driver entry "ALL" is taken as attached.   *)
(***************************************************************************)
EXTENDS Naturals, Sequences, FiniteSets

CONSTANTS
    Callers,       \* threads calling dwpal_ext_driver_nl_get
    MaxOps,        \* calls per thread
    MaxTimeouts,   \* 2-second waits that expire, in all
    MaxErrors,     \* failed socket operations, in all
    NoThread       \* nl_cmd_mutex not held

VARIABLES
    nlMutex,    \* owner of nl_cmd_mutex
    pc,         \* "idle" | "lock" | "drain" | "send" | "wait"
    ops,        \* calls made by each thread
    cmdOf,      \* id of the command the thread's current call sent (0: none)
    resp,       \* id of the answer copied into the thread's outData (0: none)
    ret,        \* what the thread's last call returned
    nextId,     \* id of the next command
    driverQ,    \* commands the driver has not answered yet, oldest first
    sock,       \* answers readable on fdCmdGet, oldest first
    timeouts,   \* waits that expired so far
    errors      \* socket operations that failed so far

vars == <<nlMutex, pc, ops, cmdOf, resp, ret, nextId, driverQ, sock, timeouts, errors>>

Ids == 1..(Cardinality(Callers) * MaxOps)

(* Mutant: the cmd_err exit returns without MUTEX_UNLOCK.                 *)
CmdErr_NoUnlock(c) ==
    /\ errors < MaxErrors
    /\ errors' = errors + 1
    /\ resp' = [resp EXCEPT ![c] = 0]
    /\ ret' = [ret EXCEPT ![c] = "FAILURE"]
    /\ UNCHANGED nlMutex
    /\ pc' = [pc EXCEPT ![c] = "idle"]

(* The cmd_err exit of nl_cmd_handle: *outLen = 0, unlock, DWPAL_FAILURE. *)
CmdErr(c) ==
    /\ errors < MaxErrors
    /\ errors' = errors + 1
    /\ resp' = [resp EXCEPT ![c] = 0]
    /\ ret' = [ret EXCEPT ![c] = "FAILURE"]
    /\ nlMutex' = NoThread
    /\ pc' = [pc EXCEPT ![c] = "idle"]

Init ==
    /\ nlMutex = NoThread
    /\ pc = [c \in Callers |-> "idle"]
    /\ ops = [c \in Callers |-> 0]
    /\ cmdOf = [c \in Callers |-> 0]
    /\ resp = [c \in Callers |-> 0]
    /\ ret = [c \in Callers |-> "none"]
    /\ nextId = 1
    /\ driverQ = <<>>
    /\ sock = <<>>
    /\ timeouts = 0
    /\ errors = 0

(* dwpal_ext_driver_nl_get -> nl_cmd_handle: the index of "ALL" is found  *)
(* and outData is a fresh buffer of the caller.                            *)
Start(c) ==
    /\ pc[c] = "idle" /\ ops[c] < MaxOps
    /\ ops' = [ops EXCEPT ![c] = @ + 1]
    /\ cmdOf' = [cmdOf EXCEPT ![c] = 0]
    /\ resp' = [resp EXCEPT ![c] = 0]
    /\ ret' = [ret EXCEPT ![c] = "none"]
    /\ pc' = [pc EXCEPT ![c] = "lock"]
    /\ UNCHANGED <<nlMutex, nextId, driverQ, sock, timeouts, errors>>

(* MUTEX_LOCK(&nl_cmd_mutex) *)
Lock(c) ==
    /\ pc[c] = "lock" /\ nlMutex = NoThread
    /\ nlMutex' = c
    /\ pc' = [pc EXCEPT ![c] = "drain"]
    /\ UNCHANGED <<ops, cmdOf, resp, ret, nextId, driverQ, sock, timeouts, errors>>

(* nl_cmd_socket_clean_if_needed: read and drop messages (save_data off)   *)
(* until a zero-timeout select finds the socket empty; or fail (fd_get,    *)
(* three select errors in a row, or msg_get) and take cmd_err.             *)
Drain(c) ==
    /\ pc[c] = "drain"
    /\ \/ /\ sock' = <<>>
          /\ pc' = [pc EXCEPT ![c] = "send"]
          /\ UNCHANGED <<nlMutex, resp, ret, errors>>
       \/ CmdErr(c) /\ UNCHANGED sock
    /\ UNCHANGED <<ops, cmdOf, nextId, driverQ, timeouts>>

(* dwpal_driver_nl_cmd_send(context[idx], DWPAL_NL_SOLICITED_EVENT, ...),  *)
(* or its failure and cmd_err.                                             *)
Send(c) ==
    /\ pc[c] = "send"
    /\ \/ /\ driverQ' = Append(driverQ, nextId)
          /\ cmdOf' = [cmdOf EXCEPT ![c] = nextId]
          /\ nextId' = nextId + 1
          /\ pc' = [pc EXCEPT ![c] = "wait"]
          /\ UNCHANGED <<nlMutex, resp, ret, errors>>
       \/ CmdErr(c) /\ UNCHANGED <<driverQ, cmdOf, nextId>>
    /\ UNCHANGED <<ops, sock, timeouts>>

(* nl_cmd_socket_receive_response, select ready: one message is read and   *)
(* nlCmdGetCallback copies it into outData (nl_response_received), then    *)
(* nl_cmd_handle unlocks and returns DWPAL_SUCCESS; or msg_get fails, or   *)
(* the callback rejects the message, and cmd_err is taken.                 *)
Receive(c) ==
    /\ pc[c] = "wait" /\ sock # <<>>
    /\ sock' = Tail(sock)
    /\ \/ /\ resp' = [resp EXCEPT ![c] = Head(sock)]
          /\ ret' = [ret EXCEPT ![c] = "SUCCESS"]
          /\ nlMutex' = NoThread
          /\ pc' = [pc EXCEPT ![c] = "idle"]
          /\ UNCHANGED errors
       \/ CmdErr(c)
    /\ UNCHANGED <<ops, cmdOf, nextId, driverQ, timeouts>>

(* nl_cmd_socket_receive_response, select times out after 2 seconds with   *)
(* nothing readable: FD_ISSET is false and the function returns            *)
(* DWPAL_SUCCESS; nl_cmd_handle unlocks and returns DWPAL_SUCCESS with     *)
(* outData untouched.                                                      *)
Timeout(c) ==
    /\ pc[c] = "wait" /\ sock = <<>>
    /\ timeouts < MaxTimeouts
    /\ timeouts' = timeouts + 1
    /\ ret' = [ret EXCEPT ![c] = "SUCCESS"]
    /\ nlMutex' = NoThread
    /\ pc' = [pc EXCEPT ![c] = "idle"]
    /\ UNCHANGED <<ops, cmdOf, resp, nextId, driverQ, sock, errors>>

(* The driver answers its oldest command on the command socket.           *)
Answer ==
    /\ driverQ # <<>>
    /\ sock' = Append(sock, Head(driverQ))
    /\ driverQ' = Tail(driverQ)
    /\ UNCHANGED <<nlMutex, pc, ops, cmdOf, resp, ret, nextId, timeouts, errors>>

(* Every thread has made all its calls: the program stops here.           *)
Done ==
    /\ \A c \in Callers : pc[c] = "idle" /\ ops[c] = MaxOps
    /\ UNCHANGED vars

Next ==
    \/ \E c \in Callers :
         Start(c) \/ Lock(c) \/ Drain(c) \/ Send(c) \/ Receive(c) \/ Timeout(c)
    \/ Answer
    \/ Done

Spec == Init /\ [][Next]_vars

(* Threads are scheduled, and the driver answers every command.           *)
Fairness ==
    /\ \A c \in Callers :
         WF_vars(Lock(c) \/ Drain(c) \/ Send(c) \/ Receive(c) \/ Timeout(c))
    /\ WF_vars(Answer)

FairSpec == Spec /\ Fairness

-----------------------------------------------------------------------------
(***************************************************************************)
(* Properties                                                              *)
(***************************************************************************)

TypeOK ==
    /\ nlMutex \in Callers \cup {NoThread}
    /\ pc \in [Callers -> {"idle", "lock", "drain", "send", "wait"}]
    /\ ops \in [Callers -> 0..MaxOps]
    /\ cmdOf \in [Callers -> {0} \cup Ids] /\ resp \in [Callers -> {0} \cup Ids]
    /\ ret \in [Callers -> {"none", "SUCCESS", "FAILURE"}]
    /\ nextId \in 1..(Cardinality(Ids) + 1)
    /\ driverQ \in Seq(Ids) /\ sock \in Seq(Ids)
    /\ timeouts \in 0..MaxTimeouts /\ errors \in 0..MaxErrors

(* A get that returns DWPAL_SUCCESS has filled outData with an answer.     *)
SuccessHasResponse ==
    \A c \in Callers : ret[c] = "SUCCESS" => resp[c] # 0

(* outData never holds the answer to another command, even when an        *)
(* earlier caller gave up waiting (spec 4.5: stale answers of an abandoned *)
(* exchange are drained before a new request).                             *)
NoForeignResponse ==
    \A c \in Callers : resp[c] # 0 => resp[c] = cmdOf[c]

(* Every call of nl_cmd_handle returns, whatever its error path: none of   *)
(* them leaves nl_cmd_mutex locked.                                        *)
AllGetsReturn ==
    \A c \in Callers : pc[c] # "idle" ~> pc[c] = "idle"
=============================================================================
