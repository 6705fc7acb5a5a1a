--------------------------- MODULE ListenerMonitor ---------------------------
(***************************************************************************)
(* The two background loops of src/dwpal_ext.c for hostap entries:        *)
(* listenerThreadStart (fd refresh, select over the event sockets and its  *)
(* pipe, dwpal_hostap_event_get, the 'R' byte to the monitor),            *)
(* monitorThreadStart (select on its pipe, the uptime timers, the sticky   *)
(* isInterfacesPingCheck, interfacesPingCheck, interfacesRecoverIfNeeded)  *)
(* and the threadSet protocol by which a caller stops and restarts them    *)
(* around an attach or detach.                                             *)
(*                                                                         *)
(* Every entry of dwpalService[] here is an attached hostap VAP; the table *)
(* changes themselves are DwpalExt's.  A wpa_ctrl context is a pointer     *)
(* 1..MaxPtr whose connection is live, dead (hostapd went away and the    *)
(* event socket reports it), gone (dead, the error already read), closed   *)
(* (dwpal_hostap_socket_close) or freed (dwpal_hostap_interface_detach).   *)
(* The wpa_ctrl sockets are unix datagram sockets: a peer's death makes    *)
(* the socket readable once, with ECONNRESET, and not again.               *)
(* The listener reads context[i] without context_mutex; the monitor's and  *)
(* the callers' context_mutex sections are atomic steps.                   *)
(***************************************************************************)
EXTENDS Naturals, Sequences, FiniteSets, FiniteSetsExt

CONSTANTS
    NumSlots,    \* hostap entries in dwpalService[]
    MaxPtr,      \* wpa_ctrl contexts the allocator can hand out
    MaxEvents,   \* events hostapd sends in a behaviour
    MaxDeaths,   \* hostapd crashes in a behaviour
    MaxCycles,   \* THREAD_CANCEL / THREAD_CREATE cycles run by callers
    MaxCmds      \* dwpal_ext_hostap_cmd_send calls by callers

ASSUME /\ NumSlots \in Nat \ {0} /\ MaxPtr >= NumSlots
       /\ {MaxEvents, MaxDeaths, MaxCycles, MaxCmds} \subseteq Nat

PING_CHECK_TIME     == 3              \* dwpal_ext.c line 51
RECOVERY_RETRY_TIME == 1              \* dwpal_ext.c line 52

Slots == 1..NumSlots
Ptrs  == 1..MaxPtr
NULL  == 0
ConnState == {"unused", "live", "dead", "gone", "closed", "freed"}

VARIABLES
    ctx,        \* context[i]
    conn,       \* state of the connection behind each pointer
    pend,       \* events queued on the event socket of each connection
    nextPtr,    \* next pointer the allocator hands out
    connNeeded, \* dwpalService[i]->isConnectionEstablishNeeded
    fd,         \* dwpalService[i]->fd > 0
    up,         \* hostapd of entry i is running
    deaths,     \* hostapd crashes so far
    emitted,    \* events hostapd sent so far
    lst,        \* g_listenerThreadInfo.threadID != 0
    lpc,        \* listener: "top", "select", "scan", "recv", "exited"
    lstop,      \* g_listenerThreadInfo.threadShouldStop
    lpipe,      \* 'C' bytes in the listener's pipe
    lsel,       \* rfds: the context whose event fd entry i put in the set
    lready,     \* entries whose fd select() reported, not yet handled
    lptr,       \* the context[i] passed to dwpal_hostap_event_get
    mon,        \* g_monitorThreadInfo.threadID != 0
    mpc,        \* monitor: "top", "sel", "ping", "rec", "exited"
    mstop,      \* g_monitorThreadInfo.threadShouldStop
    mpipe,      \* bytes in the monitor's pipe
    mopen,      \* g_monitorThreadInfo.pipeFDs are open
    isPing,     \* isInterfacesPingCheck
    sincePing,  \* current uptime - last_ping_check, capped at PING_CHECK_TIME
    sinceRec,   \* current uptime - last_recovery_time, capped
    mSecond,    \* a second has passed since the monitor entered select()
    mi,         \* loop index of interfacesPingCheck / interfacesRecoverIfNeeded
    mrec,       \* the recovery pass is due in this iteration
    cpc,        \* the caller running threadSet: "idle", "joinL", "stopM", ...
    cycles,     \* cancel/create cycles run so far
    cmds        \* commands sent by callers so far

slotVars == <<ctx, conn, pend, nextPtr, connNeeded, fd>>
envVars  == <<up, deaths, emitted>>
lisVars  == <<lst, lpc, lstop, lpipe, lsel, lready, lptr>>
monVars  == <<mon, mpc, mstop, mpipe, mopen, isPing, sincePing, sinceRec,
              mSecond, mi, mrec>>
vars == <<slotVars, envVars, lisVars, monVars, cpc, cycles, cmds>>

\* dwpal_hostap_interface_detach(&context[i]): close and free, NULL the slot.
FreeConn(c, p) == IF p = NULL THEN c ELSE [c EXCEPT ![p] = "freed"]

\* An event socket select() reports: events queued, or the peer's death.
Readable(p) == conn[p] = "dead" \/ (conn[p] = "live" /\ pend[p] > 0)

\* write() of one byte to a pipe.  A run of equal bytes is kept as one: the
\* monitor takes them in one read() and looks only at the first, and the
\* pipe (64 KiB) never fills with the few bytes the threads write.
PipeWrite(s, b) == IF s # <<>> /\ s[Len(s)] = b THEN s ELSE Append(s, b)

-----------------------------------------------------------------------------
(* listenerThreadStart                                                     *)

\* Loop head: leave on threadShouldStop; otherwise refresh every entry's fd
\* with dwpal_hostap_event_fd_get(context[i]) and build rfds.  The call
\* fails on a closed context, which is then left out of the set.
ListenerRefresh ==
    /\ lpc = "top"
    /\ \/ /\ lstop
          /\ lpc' = "exited"
          /\ UNCHANGED <<fd, lsel>>
       \/ /\ ~lstop
          /\ LET got(i) == ctx[i] # NULL /\ conn[ctx[i]] \in {"live", "dead", "gone"}
             IN  /\ fd' = [i \in Slots |-> fd[i] \/ got(i)]
                 /\ lsel' = [i \in Slots |-> IF got(i) THEN ctx[i] ELSE NULL]
          /\ lpc' = "select"
    /\ UNCHANGED <<lst, lstop, lpipe, lready, lptr>>

\* select(): an fd closed since the refresh fails it (continue); a byte in
\* the pipe ends the loop (read, break); else the ready event fds, or the
\* 1-second timeout.
ListenerSelect ==
    LET ready == {i \in Slots : lsel[i] # NULL /\ Readable(lsel[i])}
        bad   == \E i \in Slots : lsel[i] # NULL /\ conn[lsel[i]] \in {"closed", "freed"}
    IN
    /\ lpc = "select"
    /\ \/ /\ bad
          /\ lpc' = "top"
          /\ UNCHANGED <<lpipe, lready>>
       \/ /\ ~bad /\ lpipe > 0
          /\ lpipe' = 0
          /\ lpc' = "exited"
          /\ UNCHANGED lready
       \/ /\ ~bad /\ lpipe = 0
          /\ lready' = ready
          /\ lpc' = IF ready = {} THEN "top" ELSE "scan"
          /\ UNCHANGED lpipe
    /\ lsel' = [i \in Slots |-> NULL]
    /\ UNCHANGED <<fd, lst, lstop, lptr>>

\* Mutant: the dispatch loop without its context[i] == NULL check.
ListenerScan_NoNullCheck ==
    /\ lpc = "scan"
    /\ IF lready = {}
       THEN /\ lpc' = "top"
            /\ UNCHANGED <<lready, lptr>>
       ELSE LET i == Min(lready) IN
            /\ lready' = lready \ {i}
            /\ \/ /\ ~fd[i]
                  /\ UNCHANGED <<lpc, lptr>>
               \/ /\ fd[i]
                  /\ UNCHANGED <<lpc, lptr>>
               \/ /\ fd[i]
                  /\ lptr' = ctx[i]
                  /\ lpc' = "recv"
    /\ UNCHANGED <<fd, lst, lstop, lpipe, lsel>>

\* One entry of the dispatch loop: context[i] and dwpalService[i]->fd are
\* read again (the monitor may have changed them since select); the msg
\* buffer is malloc'ed, and a failed malloc skips the entry.
ListenerScan ==
    /\ lpc = "scan"
    /\ IF lready = {}
       THEN /\ lpc' = "top"
            /\ UNCHANGED <<lready, lptr>>
       ELSE LET i == Min(lready) IN
            /\ lready' = lready \ {i}
            /\ \/ /\ ctx[i] = NULL \/ ~fd[i]
                  /\ UNCHANGED <<lpc, lptr>>
               \/ /\ ctx[i] # NULL /\ fd[i]
                  /\ UNCHANGED <<lpc, lptr>>          \* malloc failed
               \/ /\ ctx[i] # NULL /\ fd[i]
                  /\ lptr' = ctx[i]
                  /\ lpc' = "recv"
    /\ UNCHANGED <<fd, lst, lstop, lpipe, lsel>>

\* dwpal_hostap_event_get(context[i]) on the pointer read in the scan step.
\* On success the event is taken off the socket (and handed to
\* interfaceEventSend unless threadShouldStop is set, or freed); on failure
\* an 'R' is written to the monitor's pipe, which fails once threadSet has
\* closed it.  A failure on a dead connection reads its ECONNRESET.
ListenerRecv ==
    /\ lpc = "recv"
    /\ \/ /\ conn[lptr] = "live" /\ pend[lptr] > 0
          /\ pend' = [pend EXCEPT ![lptr] = @ - 1]
          /\ UNCHANGED <<conn, mpipe>>
       \/ /\ ~(conn[lptr] = "live" /\ pend[lptr] > 0)
          /\ conn' = IF conn[lptr] = "dead" THEN [conn EXCEPT ![lptr] = "gone"] ELSE conn
          /\ mpipe' = IF mopen THEN PipeWrite(mpipe, "R") ELSE mpipe
          /\ UNCHANGED pend
    /\ lpc' = "scan"
    /\ lptr' = NULL
    /\ UNCHANGED <<ctx, nextPtr, connNeeded, fd, envVars, lst, lstop,
                   lpipe, lsel, lready, mon, mpc, mstop, mopen,
                   isPing, sincePing, sinceRec, mSecond, mi, mrec, cpc, cycles, cmds>>

ListenerStep ==
    \/ /\ ListenerRefresh \/ ListenerSelect \/ ListenerScan
       /\ UNCHANGED <<ctx, conn, pend, nextPtr, connNeeded, envVars, monVars,
                      cpc, cycles, cmds>>
    \/ ListenerRecv

-----------------------------------------------------------------------------
(* monitorThreadStart                                                      *)

\* Loop head: while (!threadShouldStop).
MonitorLoop ==
    /\ mpc = "top"
    /\ mpc' = IF mstop THEN "exited" ELSE "sel"
    /\ UNCHANGED <<slotVars, mpipe, mon, mstop, mopen, isPing, sincePing,
                   sinceRec, mSecond, mi, mrec>>

\* select() on the pipe returns on a byte or after a second.  read() takes
\* every byte and only pipedMsg[0] is looked at: 'R' sets the sticky
\* isInterfacesPingCheck, anything else ends the loop.  Then the uptime is
\* read once and decides the ping pass and the recovery pass.
MonitorSelect ==
    /\ mpc = "sel"
    /\ \/ /\ mpipe # <<>> /\ Head(mpipe) # "R"
          /\ mpipe' = <<>>
          /\ mpc' = "exited"
          /\ UNCHANGED <<isPing, sincePing, sinceRec, mSecond, mi, mrec>>
       \/ /\ \/ mpipe # <<>> /\ Head(mpipe) = "R"
             \/ mpipe = <<>> /\ mSecond
          /\ LET ping   == isPing \/ mpipe # <<>>
                 doPing == ping \/ sincePing >= PING_CHECK_TIME
                 doRec  == sinceRec >= RECOVERY_RETRY_TIME
             IN  /\ isPing' = ping
                 /\ sincePing' = IF doPing THEN 0 ELSE sincePing
                 /\ sinceRec' = IF doRec THEN 0 ELSE sinceRec
                 /\ mrec' = doRec
                 /\ mpc' = IF doPing THEN "ping" ELSE IF doRec THEN "rec" ELSE "top"
          /\ mpipe' = <<>>
          /\ mSecond' = FALSE
          /\ mi' = 1
    /\ UNCHANGED <<slotVars, mon, mstop, mopen>>

\* The error path of dwpal_ext_hostap_cmd_send on entry i: the entry is
\* marked, and the socket closed (DWPAL_SOCKET_FAILURE) or the context
\* detached (DWPAL_FAILURE), under context_mutex.
CmdSendFailure(i) ==
    /\ connNeeded' = [connNeeded EXCEPT ![i] = TRUE]
    /\ \/ /\ conn' = [conn EXCEPT ![ctx[i]] = "closed"]
          /\ UNCHANGED ctx
       \/ /\ conn' = FreeConn(conn, ctx[i])
          /\ ctx' = [ctx EXCEPT ![i] = NULL]

\* The monitor's own PING through dwpal_ext_hostap_cmd_send.  It fails at
\* once while the monitor is being cancelled (line 1731), returns
\* DWPAL_INTERFACE_IS_DOWN while the entry awaits recovery, and succeeds on
\* a live connection.  On a dead one cmd_send's error path marks the entry,
\* and closes the socket (DWPAL_SOCKET_FAILURE) or detaches the context.
\* On DWPAL_FAILURE the ping check sets fd = -1 and, if the entry was not
\* marked yet, marks it and detaches the context itself.
PingSend(i) ==
    \/ /\ mstop
       /\ fd' = [fd EXCEPT ![i] = FALSE]
       /\ IF connNeeded[i]
          THEN UNCHANGED <<ctx, conn, connNeeded>>
          ELSE /\ connNeeded' = [connNeeded EXCEPT ![i] = TRUE]
               /\ conn' = FreeConn(conn, ctx[i])
               /\ ctx' = [ctx EXCEPT ![i] = NULL]
    \/ /\ ~mstop
       /\ connNeeded[i] \/ conn[ctx[i]] = "live"
       /\ UNCHANGED <<ctx, conn, connNeeded, fd>>
    \/ /\ ~mstop /\ ~connNeeded[i] /\ conn[ctx[i]] # "live"
       /\ CmdSendFailure(i)
       /\ fd' = [fd EXCEPT ![i] = FALSE]

\* One entry of interfacesPingCheck: entries with no context or fd <= 0 are
\* skipped.  After the last entry the recovery pass runs if it is due.
PingCheckSlot ==
    /\ mpc = "ping"
    /\ IF mi > NumSlots
       THEN /\ mpc' = IF mrec THEN "rec" ELSE "top"
            /\ mi' = 1
            /\ UNCHANGED <<ctx, conn, connNeeded, fd>>
       ELSE /\ mi' = mi + 1
            /\ IF ctx[mi] # NULL /\ fd[mi]
               THEN PingSend(mi)
               ELSE UNCHANGED <<ctx, conn, connNeeded, fd>>
            /\ UNCHANGED mpc
    /\ UNCHANGED <<pend, nextPtr, mon, mstop, mpipe, mopen, isPing, sincePing,
                   sinceRec, mSecond, mrec>>

\* Mutant: the entry is unmarked whether or not the re-attach succeeded.
RecoverSlot_ClearFirst ==
    /\ mpc = "rec"
    /\ IF mi > NumSlots
       THEN /\ mpc' = "top"
            /\ mi' = 1
            /\ UNCHANGED <<ctx, conn, nextPtr, connNeeded>>
       ELSE LET i == mi  freed == FreeConn(conn, ctx[i]) IN
            /\ mi' = mi + 1
            /\ \/ /\ ~connNeeded[i]
                  /\ UNCHANGED <<ctx, conn, nextPtr, connNeeded>>
               \/ /\ connNeeded[i] /\ up[i] /\ nextPtr <= MaxPtr
                  /\ ctx' = [ctx EXCEPT ![i] = nextPtr]
                  /\ conn' = [freed EXCEPT ![nextPtr] = "live"]
                  /\ nextPtr' = nextPtr + 1
                  /\ connNeeded' = [connNeeded EXCEPT ![i] = FALSE]
               \/ /\ connNeeded[i] /\ ~(up[i] /\ nextPtr <= MaxPtr)
                  /\ ctx' = [ctx EXCEPT ![i] = NULL]
                  /\ conn' = freed
                  /\ connNeeded' = [connNeeded EXCEPT ![i] = FALSE]
                  /\ UNCHANGED nextPtr
            /\ UNCHANGED mpc
    /\ UNCHANGED <<pend, fd, mon, mstop, mpipe, mopen, isPing, sincePing,
                   sinceRec, mSecond, mrec>>

\* One entry of interfacesRecoverIfNeeded, its context_mutex section and
\* the INTERFACE_RECONNECTED_OK that follows: a marked entry's old context
\* is detached and a new one attached, which succeeds while hostapd runs
\* and the allocator has a context left.
RecoverSlot ==
    /\ mpc = "rec"
    /\ IF mi > NumSlots
       THEN /\ mpc' = "top"
            /\ mi' = 1
            /\ UNCHANGED <<ctx, conn, nextPtr, connNeeded>>
       ELSE LET i == mi  freed == FreeConn(conn, ctx[i]) IN
            /\ mi' = mi + 1
            /\ \/ /\ ~connNeeded[i]
                  /\ UNCHANGED <<ctx, conn, nextPtr, connNeeded>>
               \/ /\ connNeeded[i] /\ up[i] /\ nextPtr <= MaxPtr
                  /\ ctx' = [ctx EXCEPT ![i] = nextPtr]
                  /\ conn' = [freed EXCEPT ![nextPtr] = "live"]
                  /\ nextPtr' = nextPtr + 1
                  /\ connNeeded' = [connNeeded EXCEPT ![i] = FALSE]
               \/ /\ connNeeded[i] /\ ~(up[i] /\ nextPtr <= MaxPtr)
                  /\ ctx' = [ctx EXCEPT ![i] = NULL]
                  /\ conn' = freed
                  /\ UNCHANGED <<nextPtr, connNeeded>>
            /\ UNCHANGED mpc
    /\ UNCHANGED <<pend, fd, mon, mstop, mpipe, mopen, isPing, sincePing,
                   sinceRec, mSecond, mrec>>

MonitorStep ==
    /\ MonitorLoop \/ MonitorSelect \/ PingCheckSlot \/ RecoverSlot
    /\ UNCHANGED <<envVars, lisVars, cpc, cycles, cmds>>

\* The uptime advances; only how far it is from the two timestamps matters.
Tick ==
    /\ sincePing < PING_CHECK_TIME \/ sinceRec < RECOVERY_RETRY_TIME \/ ~mSecond
    /\ sincePing' = Min({sincePing + 1, PING_CHECK_TIME})
    /\ sinceRec' = Min({sinceRec + 1, RECOVERY_RETRY_TIME})
    /\ mSecond' = TRUE
    /\ UNCHANGED <<slotVars, envVars, lisVars, mon, mpc, mstop, mpipe, mopen,
                   isPing, mi, mrec, cpc, cycles, cmds>>

-----------------------------------------------------------------------------
(* threadSet(THREAD_CANCEL) and threadSet(THREAD_CREATE) of the listener   *)
(* and then the monitor, as dwpal_ext_hostap_interface_attach and _detach  *)
(* run them (lines 1867-1868, 1895-1896, 1982-1983, 2032-2033).            *)

\* THREAD_CANCEL of the listener: threadShouldStop = 1, then "C" on its pipe.
\* Both threads run while an entry is attached, as every entry is here, so
\* the threadID == 0 no-op of threadSet is not taken.
CancelListener ==
    /\ cpc = "idle" /\ cycles < MaxCycles
    /\ lstop' = TRUE
    /\ lpipe' = lpipe + 1
    /\ cpc' = "joinL"
    /\ UNCHANGED <<lst, mon, mstop, mpipe, mopen, cycles>>

\* pthread_join returns once the listener left its loop; the flag is reset,
\* threadID zeroed and the pipe closed.
JoinListener ==
    /\ cpc = "joinL" /\ lpc = "exited"
    /\ lstop' = FALSE
    /\ lst' = FALSE
    /\ lpipe' = 0
    /\ cpc' = "stopM"
    /\ UNCHANGED <<mon, mstop, mpipe, mopen, cycles>>

\* Mutant: the stop is only signalled by the "C" byte, without the flag.
StopMonitor_NoFlag ==
    /\ cpc = "stopM"
    /\ cpc' = "writeM"
    /\ UNCHANGED mstop
    /\ UNCHANGED <<lst, lstop, lpipe, mon, mpipe, mopen, cycles>>

\* THREAD_CANCEL of the monitor sets threadShouldStop = 1 ...
StopMonitor ==
    /\ cpc = "stopM"
    /\ mstop' = TRUE
    /\ cpc' = "writeM"
    /\ UNCHANGED <<lst, lstop, lpipe, mon, mpipe, mopen, cycles>>

\* ... then writes "C" to the monitor's pipe and waits in pthread_join.
WriteMonitorPipe ==
    /\ cpc = "writeM"
    /\ mpipe' = PipeWrite(mpipe, "C")
    /\ cpc' = "joinM"
    /\ UNCHANGED <<lst, lstop, lpipe, mon, mstop, mopen, cycles>>

JoinMonitor ==
    /\ cpc = "joinM" /\ mpc = "exited"
    /\ mstop' = FALSE
    /\ mon' = FALSE
    /\ mopen' = FALSE
    /\ mpipe' = <<>>
    /\ cpc' = "createL"
    /\ UNCHANGED <<lst, lstop, lpipe, cycles>>

\* THREAD_CREATE of the listener: a new pipe and a new thread.
CreateListener ==
    /\ cpc = "createL"
    /\ lst' = TRUE
    /\ lpipe' = 0
    /\ cpc' = "createM"
    /\ UNCHANGED <<lstop, mon, mstop, mpipe, mopen, cycles>>

\* THREAD_CREATE of the monitor, 100 ms later: a new pipe; the new thread
\* starts with isInterfacesPingCheck = false and both timestamps at now.
CreateMonitor ==
    /\ cpc = "createM"
    /\ mon' = TRUE
    /\ mopen' = TRUE
    /\ mpipe' = <<>>
    /\ cpc' = "idle"
    /\ cycles' = cycles + 1
    /\ UNCHANGED <<lst, lstop, lpipe, mstop>>

CallerStep ==
    /\ \/ CancelListener \/ JoinListener \/ StopMonitor \/ WriteMonitorPipe
       \/ JoinMonitor \/ CreateListener \/ CreateMonitor
    /\ lpc' = IF cpc = "createL" THEN "top" ELSE lpc
    /\ mpc' = IF cpc = "createM" THEN "top" ELSE mpc
    /\ isPing' = IF cpc = "createM" THEN FALSE ELSE isPing
    /\ sincePing' = IF cpc = "createM" THEN 0 ELSE sincePing
    /\ sinceRec' = IF cpc = "createM" THEN 0 ELSE sinceRec
    /\ mSecond' = IF cpc = "createM" THEN FALSE ELSE mSecond
    /\ mi' = IF cpc = "createM" THEN 1 ELSE mi
    /\ lready' = IF cpc = "createL" THEN {} ELSE lready
    /\ UNCHANGED <<slotVars, envVars, lsel, lptr, mrec, cmds>>

\* A caller's dwpal_ext_hostap_cmd_send on entry i, between its cancel
\* cycles: refused while the entry is marked or its context is NULL, and
\* answered on a live connection; on any other the error path runs.  It
\* leaves dwpalService[i]->fd as it was.
CallerCmdSend(i) ==
    /\ cpc = "idle" /\ cmds < MaxCmds
    /\ cmds' = cmds + 1
    /\ IF connNeeded[i] \/ ctx[i] = NULL THEN UNCHANGED <<ctx, conn, connNeeded>>
       ELSE IF conn[ctx[i]] = "live" THEN UNCHANGED <<ctx, conn, connNeeded>>
       ELSE CmdSendFailure(i)
    /\ UNCHANGED <<pend, nextPtr, fd, envVars, lisVars, monVars, cpc, cycles>>

-----------------------------------------------------------------------------
(* hostapd                                                                 *)

\* hostapd crashes: the connection to it is dead, its event socket at EOF.
HostapdDies(i) ==
    /\ up[i] /\ deaths < MaxDeaths
    /\ up' = [up EXCEPT ![i] = FALSE]
    /\ deaths' = deaths + 1
    /\ conn' = IF ctx[i] # NULL /\ conn[ctx[i]] = "live"
               THEN [conn EXCEPT ![ctx[i]] = "dead"] ELSE conn
    /\ UNCHANGED <<ctx, pend, nextPtr, connNeeded, fd, emitted>>

HostapdStarts(i) ==
    /\ ~up[i]
    /\ up' = [up EXCEPT ![i] = TRUE]
    /\ UNCHANGED <<slotVars, deaths, emitted>>

\* hostapd sends an event on the attached event socket.
HostapdEvent(i) ==
    /\ up[i] /\ emitted < MaxEvents
    /\ ctx[i] # NULL /\ conn[ctx[i]] = "live"
    /\ pend' = [pend EXCEPT ![ctx[i]] = @ + 1]
    /\ emitted' = emitted + 1
    /\ UNCHANGED <<ctx, conn, nextPtr, connNeeded, fd, up, deaths>>

Environment ==
    /\ \E i \in Slots : HostapdDies(i) \/ HostapdStarts(i) \/ HostapdEvent(i)
    /\ UNCHANGED <<lisVars, monVars, cpc, cycles, cmds>>

-----------------------------------------------------------------------------

\* Every entry attached and both loops running, as after a successful
\* dwpal_ext_hostap_interface_attach of each VAP.
Init ==
    /\ ctx = [i \in Slots |-> i]
    /\ conn = [p \in Ptrs |-> IF p <= NumSlots THEN "live" ELSE "unused"]
    /\ pend = [p \in Ptrs |-> 0]
    /\ nextPtr = NumSlots + 1
    /\ connNeeded = [i \in Slots |-> FALSE]
    /\ fd = [i \in Slots |-> FALSE]
    /\ up = [i \in Slots |-> TRUE]
    /\ deaths = 0 /\ emitted = 0
    /\ lst = TRUE /\ lpc = "top" /\ lstop = FALSE /\ lpipe = 0
    /\ lsel = [i \in Slots |-> NULL] /\ lready = {} /\ lptr = NULL
    /\ mon = TRUE /\ mpc = "top" /\ mstop = FALSE /\ mpipe = <<>>
    /\ mopen = TRUE /\ isPing = FALSE /\ sincePing = 0 /\ sinceRec = 0
    /\ mSecond = FALSE /\ mi = 1 /\ mrec = FALSE
    /\ cpc = "idle" /\ cycles = 0 /\ cmds = 0

Next ==
    \/ ListenerStep
    \/ MonitorStep
    \/ CallerStep
    \/ \E i \in Slots : CallerCmdSend(i)
    \/ Tick
    \/ Environment

Spec == Init /\ [][Next]_vars

\* Both loops are threads the scheduler runs, the caller blocked in
\* pthread_join runs once the thread is gone, and the uptime advances.
\* hostapd is not assumed to restart.
FairSpec == Spec /\ WF_vars(ListenerStep) /\ WF_vars(MonitorStep)
                 /\ WF_vars(CallerStep) /\ WF_vars(Tick)

-----------------------------------------------------------------------------
(* Properties                                                              *)

\* Types; the listener only fetches an event through a non-NULL context.
TypeOK ==
    /\ ctx \in [Slots -> 0..MaxPtr]
    /\ conn \in [Ptrs -> ConnState]
    /\ pend \in [Ptrs -> 0..MaxEvents]
    /\ nextPtr \in 1..MaxPtr + 1
    /\ connNeeded \in [Slots -> BOOLEAN] /\ fd \in [Slots -> BOOLEAN]
    /\ up \in [Slots -> BOOLEAN] /\ deaths \in 0..MaxDeaths
    /\ emitted \in 0..MaxEvents
    /\ lst \in BOOLEAN /\ lstop \in BOOLEAN /\ lpipe \in 0..1
    /\ lpc \in {"top", "select", "scan", "recv", "exited"}
    /\ lsel \in [Slots -> 0..MaxPtr] /\ lready \subseteq Slots
    /\ lptr \in 0..MaxPtr
    /\ lpc = "recv" => lptr \in Ptrs
    /\ mon \in BOOLEAN /\ mstop \in BOOLEAN /\ mopen \in BOOLEAN
    /\ mpc \in {"top", "sel", "ping", "rec", "exited"}
    /\ mpipe \in Seq({"R", "C"}) /\ Len(mpipe) <= 2
    /\ isPing \in BOOLEAN /\ mSecond \in BOOLEAN /\ mrec \in BOOLEAN
    /\ sincePing \in 0..PING_CHECK_TIME /\ sinceRec \in 0..RECOVERY_RETRY_TIME
    /\ mi \in 1..NumSlots + 1
    /\ cpc \in {"idle", "joinL", "stopM", "writeM", "joinM", "createL", "createM"}
    /\ cycles \in 0..MaxCycles /\ cmds \in 0..MaxCmds

\* threadSet(THREAD_CANCEL) returns: each pthread_join the caller enters
\* ends, because the thread sees threadShouldStop or the "C" byte, even
\* when the "C" is read in one read() behind an 'R' from the listener.
CancelReturns ==
    /\ [](cpc = "joinL" => <>(cpc # "joinL"))
    /\ [](cpc = "joinM" => <>(cpc # "joinM"))

Connected(i) == ctx[i] # NULL /\ conn[ctx[i]] = "live" /\ ~connNeeded[i]

\* Recovery by the monitor: once hostapd stops crashing and callers stop
\* restarting the threads, every entry whose hostapd runs ends up attached
\* to it through a live connection and no longer marked, whether the old
\* connection died with hostapd or was torn down by a ping that failed
\* during a cancel.
EventuallyRecovered == <>[](\A i \in Slots : up[i] => Connected(i))

\* The listener never calls dwpal_hostap_event_get on a context that the
\* monitor, or a caller's failed dwpal_ext_hostap_cmd_send, has detached
\* and freed.
NoFreedContextUse == lpc = "recv" => conn[lptr] # "freed"

\* The ping check runs every PING_CHECK_TIME seconds, or at once after an
\* 'R' from the listener (spec: "or immediately if signaled via the control
\* pipe with byte 'R'").
PingWhenDue ==
    [][mpc = "sel" /\ mpc' = "ping" =>
         \/ sincePing >= PING_CHECK_TIME
         \/ mpipe # <<>> /\ Head(mpipe) = "R"]_vars
=============================================================================
