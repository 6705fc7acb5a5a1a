------------------------------ MODULE DwpalExt ------------------------------
(***************************************************************************)
(* The hostap half of the connection supervisor of src/dwpal_ext.c: the    *)
(* service table dwpalService[] / context[], the attach, detach and        *)
(* command paths run by caller threads, the monitor thread's ping check    *)
(* and recovery, the listener's fd refresh, and the stop/join protocol of  *)
(* threadSet().  Lifecycle events go through the daemon's callback into    *)
(* the per-interface state kept by src/daemon/hostap_iface.c               *)
(* (hostap_send_event, hostap_iface_attach), modelled as `mirror`.         *)
(*                                                                         *)
(* Every context_mutex critical section is one atomic step; the steps that *)
(* the code runs outside that mutex (interfaceIndexGet, the event          *)
(* callbacks, freeing dwpalService[idx]) are steps of their own.           *)
(***************************************************************************)
EXTENDS Naturals, FiniteSets, FiniteSetsExt

CONSTANTS
    Vaps,         \* VAP names that may be attached
    Callers,      \* application threads calling the dwpal_ext API
    Monitor,      \* the monitor thread (g_monitorThreadInfo)
    NumSlots,     \* size of dwpalService[] (NUM_OF_SUPPORTED_VAPS + 1)
    MaxFailures,  \* bound on transport failures injected by the environment
    MaxOps,       \* bound on API calls per caller thread
    CallerOps,    \* which API calls callers make: SUBSET {"attach","detach","cmd"}
    InitUp,       \* possible states of each hostapd at start: {TRUE} or BOOLEAN
    NoVap,        \* dwpalService[i] == NULL
    NoThread      \* attach_mutex not held

ASSUME /\ NumSlots \in Nat \ {0}
       /\ MaxFailures \in Nat /\ MaxOps \in Nat
       /\ CallerOps \subseteq {"attach", "detach", "cmd"}
       /\ InitUp \subseteq BOOLEAN /\ InitUp # {}
       /\ Monitor \notin Callers

Slots   == 1..NumSlots
Threads == Callers \cup {Monitor}

(* context[i]: NULL, a working wpa_ctrl connection, one whose peer died or  *)
(* timed out (the next request on it fails), or one whose socket was       *)
(* closed by dwpal_hostap_socket_close() but not freed.                    *)
CtxState == {"none", "live", "broken", "closed"}
RetCode  == {"SUCCESS", "FAILURE", "DOWN"}      \* DOWN = DWPAL_INTERFACE_IS_DOWN
IfState  == {"unknown", "connected", "disconnected"}
PCs == {"idle", "a_lock", "a_create", "a_alloc", "a_ctx", "a_cb", "a_cok",
        "a_end", "d_lock", "d_free", "d_ctx", "stopL", "stopM", "joinM",
        "cs_get", "cs_send", "cs_disc",
        "sel", "p_chk", "p_res", "p_disc", "r_att", "r_evt", "r_sent",
        "exited", "segv"}

VARIABLES
    svc,         \* dwpalService[i]->VAPName, or NoVap when the slot is NULL
    connNeeded,  \* dwpalService[i]->isConnectionEstablishNeeded
    reconnEvt,   \* dwpalService[i]->isReconnectEventNeeded
    cbSet,       \* dwpalService[i]->hostapEventCallback != NULL
    fdOk,        \* dwpalService[i]->fd > 0
    ctx,         \* context[i]
    up,          \* hostapd of each VAP is reachable
    failures,    \* transport failures injected so far
    attachOwner, \* holder of attach_mutex
    lst,         \* listener thread: "running" or "stopped"
    mon,         \* monitor thread: "running" or "stopped"
    monStop,     \* g_monitorThreadInfo.threadShouldStop
    pc,          \* control point of every thread
    cop,         \* API call in progress in each caller
    opVap,       \* its VAPName argument
    aidx,        \* idx local of attach/detach
    aret,        \* ret local of attach
    cvap,        \* VAPName argument of dwpal_ext_hostap_cmd_send
    cidx,        \* its idx local
    cres,        \* its return value
    ccont,       \* where the thread resumes when it returns
    budget,      \* API calls each caller may still make
    mslot,       \* loop index i of interfacesPingCheck / interfacesRecoverIfNeeded
    doRec,       \* interfacesRecoverIfNeeded is due in this monitor iteration
    mirror,      \* daemon's per-interface state (hostap_iface.c *state)
    misrouted    \* a command was sent on another VAP's context

tableVars  == <<svc, connNeeded, reconnEvt, cbSet, fdOk, ctx>>
envVars    == <<up, failures>>
threadVars == <<attachOwner, lst, mon, monStop>>
localVars  == <<pc, cop, opVap, aidx, aret, cvap, cidx, cres, ccont, budget, mslot, doRec>>
vars == <<tableVars, envVars, threadVars, localVars, mirror, misrouted>>

-----------------------------------------------------------------------------
(* Service registry                                                        *)

\* interfaceIndexGet: first slot holding VAPName, 0 when none (IS_DOWN).
interfaceIndexGet(v) ==
    IF \E s \in Slots : svc[s] = v THEN Min({s \in Slots : svc[s] = v}) ELSE 0

\* isAnyInterfaceActive: some dwpalService[i] is non-NULL.
isAnyInterfaceActive == \E s \in Slots : svc[s] # NoVap

Goto(t, l) == pc' = [pc EXCEPT ![t] = l]

\* The daemon's hostap_send_event: the three lifecycle opcodes set the
\* state it keeps for the interface.
hostap_send_event(v, opCode) ==
    mirror' = [mirror EXCEPT ![v] =
                  IF opCode = "INTERFACE_DISCONNECTED" THEN "disconnected"
                  ELSE "connected"]

\* The daemon's hostap_iface_attach: the state follows the return code of
\* dwpal_ext_hostap_interface_attach; DWPAL_FAILURE leaves it alone.
hostap_iface_attach(v, ret) ==
    mirror' = CASE ret = "SUCCESS" -> [mirror EXCEPT ![v] = "connected"]
                [] ret = "DOWN"    -> [mirror EXCEPT ![v] = "disconnected"]
                [] OTHER           -> mirror

\* interfaceEventSend: hostapEventCallback, when registered, is called in
\* the sending thread; it ends in the daemon's hostap_send_event.
interfaceEventSend(s, opCode) ==
    IF cbSet[s] THEN hostap_send_event(svc[s], opCode) ELSE UNCHANGED mirror

\* A thread dereferences dwpalService[idx] after it was freed: the process
\* crashes; the thread stops in "segv".
Segv(t, s) == svc[s] = NoVap /\ Goto(t, "segv")

\* Call dwpal_ext_hostap_cmd_send(v, ...) from thread t, resuming at `cont`.
CallCmdSend(t, v, cont) ==
    /\ Goto(t, "cs_get")
    /\ cvap'  = [cvap EXCEPT ![t] = v]
    /\ ccont' = [ccont EXCEPT ![t] = cont]

Return(t, r) ==
    /\ cres' = [cres EXCEPT ![t] = r]
    /\ Goto(t, ccont[t])

-----------------------------------------------------------------------------
(* dwpal_ext_hostap_cmd_send                                               *)

\* Entry checks and interfaceIndexGet, done without any lock.
CmdSendIndexGet(t) ==
    /\ pc[t] = "cs_get"
    /\ \/ /\ t = Monitor /\ monStop          \* thread is being cancelled
          /\ Return(t, "FAILURE")
          /\ UNCHANGED cidx
       \/ /\ ~(t = Monitor /\ monStop)
          /\ interfaceIndexGet(cvap[t]) = 0
          /\ Return(t, "DOWN")
          /\ UNCHANGED cidx
       \/ /\ ~(t = Monitor /\ monStop)
          /\ interfaceIndexGet(cvap[t]) # 0
          /\ cidx' = [cidx EXCEPT ![t] = interfaceIndexGet(cvap[t])]
          /\ Goto(t, "cs_send")
          /\ UNCHANGED cres
    /\ UNCHANGED <<tableVars, misrouted, mirror>>

\* Mutant: the send-error path forgets isConnectionEstablishNeeded = true.
CmdSendLocked_NoFlag(t) ==
    LET s == cidx[t] IN
    /\ pc[t] = "cs_send"
    /\ svc[s] # NoVap /\ ~connNeeded[s]
    /\ ctx[s] \in {"broken", "closed"}
    /\ \E after \in {"closed", "none"} : ctx' = [ctx EXCEPT ![s] = after]
    /\ cres' = [cres EXCEPT ![t] = "FAILURE"]
    /\ Goto(t, "cs_disc")
    /\ UNCHANGED <<svc, connNeeded, reconnEvt, cbSet, fdOk, cidx, mirror, misrouted>>

\* The context_mutex section: flag check, the request on context[idx], and
\* on a send error the teardown (socket close or detach) and flag update.
CmdSendLocked(t) ==
    LET s == cidx[t] IN
    /\ pc[t] = "cs_send"
    /\ \/ /\ Segv(t, s)
          /\ UNCHANGED <<tableVars, cres, misrouted>>
       \/ /\ svc[s] # NoVap
          /\ connNeeded[s]
          /\ Return(t, "DOWN")
          /\ UNCHANGED <<tableVars, misrouted>>
       \/ /\ svc[s] # NoVap /\ ~connNeeded[s]
          /\ ctx[s] = "none"
          /\ Return(t, "FAILURE")
          /\ UNCHANGED <<tableVars, misrouted>>
       \/ /\ svc[s] # NoVap /\ ~connNeeded[s]
          /\ ctx[s] = "live"
          /\ misrouted' = (misrouted \/ svc[s] # cvap[t])
          /\ Return(t, "SUCCESS")
          /\ UNCHANGED tableVars
       \/ /\ svc[s] # NoVap /\ ~connNeeded[s]
          /\ ctx[s] \in {"broken", "closed"}
          /\ misrouted' = (misrouted \/ svc[s] # cvap[t])
          /\ connNeeded' = [connNeeded EXCEPT ![s] = TRUE]
          \* DWPAL_SOCKET_FAILURE: socket closed; DWPAL_FAILURE: detached
          /\ \E after \in {"closed", "none"} : ctx' = [ctx EXCEPT ![s] = after]
          /\ cres' = [cres EXCEPT ![t] = "FAILURE"]
          /\ Goto(t, "cs_disc")
          /\ UNCHANGED <<svc, reconnEvt, cbSet, fdOk>>
    /\ UNCHANGED <<cidx, mirror>>

\* interfaceDisconnectedSend(idx), after the mutex is released.
CmdSendDisconnected(t) ==
    LET s == cidx[t] IN
    /\ pc[t] = "cs_disc"
    /\ \/ /\ Segv(t, s) /\ UNCHANGED mirror
       \/ /\ svc[s] # NoVap
          /\ interfaceEventSend(s, "INTERFACE_DISCONNECTED")
          /\ Goto(t, ccont[t])
    /\ UNCHANGED <<tableVars, cidx, cres, misrouted>>

CmdSend(t) ==
    /\ CmdSendIndexGet(t) \/ CmdSendLocked(t) \/ CmdSendDisconnected(t)
    /\ UNCHANGED <<envVars, threadVars, cop, opVap, aidx, aret, cvap, ccont,
                   budget, mslot, doRec>>

-----------------------------------------------------------------------------
(* Thread control: threadSet(THREAD_CANCEL / THREAD_CREATE)                *)

\* Where a caller continues once both background threads are stopped.
AfterCancel(c) == IF cop[c] = "attach" THEN "a_create" ELSE "d_free"

\* Cancelling the listener: it has no long step in this model, so setting
\* threadShouldStop, writing "C" and pthread_join complete together.
CancelListener(c) ==
    /\ pc[c] = "stopL"
    /\ lst' = "stopped"
    /\ Goto(c, "stopM")
    /\ UNCHANGED <<mon, monStop>>

\* Cancelling the monitor: threadShouldStop = 1 and "C" on its pipe; the
\* caller then blocks in pthread_join until the monitor leaves its loop.
CancelMonitor(c) ==
    /\ pc[c] = "stopM"
    /\ \/ /\ mon = "running"
          /\ monStop' = TRUE
          /\ Goto(c, "joinM")
       \/ /\ mon = "stopped"
          /\ Goto(c, AfterCancel(c))
          /\ UNCHANGED monStop
    /\ UNCHANGED <<lst, mon>>

JoinMonitor(c) ==
    /\ pc[c] = "joinM"
    /\ pc[Monitor] = "exited"
    /\ mon' = "stopped"
    /\ monStop' = FALSE
    /\ pc' = [pc EXCEPT ![c] = AfterCancel(c), ![Monitor] = "sel"]
    /\ UNCHANGED lst

\* threadSet(THREAD_CREATE) of listener and monitor when an interface is
\* still active (a no-op for a thread that is already running).
RestartThreads ==
    IF isAnyInterfaceActive
    THEN /\ lst' = "running"
         /\ mon' = "running"
    ELSE UNCHANGED <<lst, mon>>

ThreadControl(c) ==
    /\ CancelListener(c) \/ CancelMonitor(c) \/ JoinMonitor(c)
    /\ UNCHANGED <<tableVars, envVars, attachOwner, cop, opVap, aidx, aret,
                   cvap, cidx, cres, ccont, budget, mslot, doRec, mirror, misrouted>>

-----------------------------------------------------------------------------
(* dwpal_ext_hostap_interface_attach                                       *)

\* Mutant: attach without taking attach_mutex.
AttachLock_NoMutex(c) ==
    LET v == opVap[c]  i == interfaceIndexGet(v) IN
    /\ pc[c] = "a_lock"
    /\ \/ /\ i # 0 /\ ctx[i] # "none"
          /\ hostap_iface_attach(v, "SUCCESS")
          /\ Goto(c, "idle")
          /\ UNCHANGED attachOwner
       \/ /\ ~(i # 0 /\ ctx[i] # "none")
          /\ attachOwner' = c
          /\ Goto(c, "stopL")
          /\ UNCHANGED mirror
    /\ UNCHANGED <<tableVars, aidx, aret>>

\* Take attach_mutex; return at once when the interface has a context.
AttachLock(c) ==
    LET v == opVap[c]  i == interfaceIndexGet(v) IN
    /\ pc[c] = "a_lock"
    /\ attachOwner = NoThread
    /\ \/ /\ i # 0 /\ ctx[i] # "none"
          /\ hostap_iface_attach(v, "SUCCESS")
          /\ Goto(c, "idle")
          /\ UNCHANGED attachOwner
       \/ /\ ~(i # 0 /\ ctx[i] # "none")
          /\ attachOwner' = c
          /\ Goto(c, "stopL")
          /\ UNCHANGED mirror
    /\ UNCHANGED <<tableVars, aidx, aret>>

\* interfaceIndexCreate, first half: the lookup of an existing entry.
AttachCreate(c) ==
    LET v == opVap[c]  i == interfaceIndexGet(v) IN
    /\ pc[c] = "a_create"
    /\ \/ /\ i = 0
          /\ Goto(c, "a_alloc")
          /\ UNCHANGED <<aidx, aret>>
       \/ /\ i # 0 /\ ctx[i] = "none"          \* salvage a failed attach
          /\ aidx' = [aidx EXCEPT ![c] = i]
          /\ Goto(c, "a_ctx")
          /\ UNCHANGED aret
       \/ /\ i # 0 /\ ctx[i] # "none"          \* DWPAL_INTERFACE_ALREADY_UP
          /\ aret' = [aret EXCEPT ![c] = "SUCCESS"]
          /\ Goto(c, "a_end")
          /\ UNCHANGED aidx
    /\ UNCHANGED <<tableVars, mirror>>

\* interfaceIndexCreate, second half: calloc into the first NULL slot.
AttachAlloc(c) ==
    LET free == {s \in Slots : svc[s] = NoVap} IN
    /\ pc[c] = "a_alloc"
    /\ \/ /\ free # {}
          /\ LET s == Min(free) IN
             /\ svc' = [svc EXCEPT ![s] = opVap[c]]
             /\ connNeeded' = [connNeeded EXCEPT ![s] = FALSE]
             /\ reconnEvt'  = [reconnEvt EXCEPT ![s] = FALSE]
             /\ cbSet'      = [cbSet EXCEPT ![s] = FALSE]
             /\ fdOk'       = [fdOk EXCEPT ![s] = FALSE]
             /\ aidx' = [aidx EXCEPT ![c] = s]
          /\ Goto(c, "a_ctx")
          /\ UNCHANGED <<ctx, aret>>
       \/ /\ free = {}                         \* table full
          /\ aret' = [aret EXCEPT ![c] = "FAILURE"]
          /\ Goto(c, "a_end")
          /\ UNCHANGED <<svc, connNeeded, reconnEvt, cbSet, fdOk, ctx, aidx>>
    /\ UNCHANGED mirror

\* context_mutex section: clear the flag and dwpal_hostap_interface_attach;
\* on failure mark the entry for recovery and return IS_DOWN.
AttachContext(c) ==
    LET s == aidx[c] IN
    /\ pc[c] = "a_ctx"
    /\ \/ /\ up[svc[s]]
          /\ ctx' = [ctx EXCEPT ![s] = "live"]
          /\ connNeeded' = [connNeeded EXCEPT ![s] = FALSE]
          /\ aret' = [aret EXCEPT ![c] = "SUCCESS"]
       \/ /\ ~up[svc[s]]
          /\ connNeeded' = [connNeeded EXCEPT ![s] = TRUE]
          /\ aret' = [aret EXCEPT ![c] = "DOWN"]
          /\ UNCHANGED ctx
    /\ Goto(c, "a_cb")
    /\ UNCHANGED <<svc, reconnEvt, cbSet, fdOk, aidx, mirror>>

\* Register the callback; on success interfaceConnectedOkSend, which first
\* asks hostapd for STATUS (activeVapsGet).
AttachCallback(c) ==
    /\ pc[c] = "a_cb"
    /\ cbSet' = [cbSet EXCEPT ![aidx[c]] = TRUE]
    /\ IF aret[c] = "SUCCESS"
       THEN CallCmdSend(c, opVap[c], "a_cok")
       ELSE Goto(c, "a_end") /\ UNCHANGED <<cvap, ccont>>
    /\ UNCHANGED <<svc, connNeeded, reconnEvt, fdOk, ctx, aidx, aret, mirror>>

\* interfaceConnectedOkSend: the event is sent only when STATUS succeeded.
AttachConnectedOk(c) ==
    /\ pc[c] = "a_cok"
    /\ \/ /\ cres[c] = "SUCCESS"
          /\ interfaceEventSend(aidx[c], "INTERFACE_CONNECTED_OK")
          /\ Goto(c, "a_end")
       \/ /\ cres[c] # "SUCCESS"
          /\ Goto(c, "a_end")
          /\ UNCHANGED mirror
    /\ UNCHANGED <<tableVars, aidx, aret>>

\* end: restart the threads, release attach_mutex; the daemon's
\* hostap_iface_attach records the state the return code reports.
AttachEnd(c) ==
    LET v == opVap[c] IN
    /\ pc[c] = "a_end"
    /\ RestartThreads
    /\ attachOwner' = NoThread
    /\ hostap_iface_attach(v, aret[c])
    /\ Goto(c, "idle")
    /\ UNCHANGED <<tableVars, monStop, aidx, aret>>

Attach(c) ==
    /\ \/ AttachLock(c) /\ UNCHANGED <<lst, mon, monStop, cvap, ccont>>
       \/ /\ (AttachCreate(c) \/ AttachAlloc(c) \/ AttachContext(c)
              \/ AttachConnectedOk(c))
          /\ UNCHANGED <<threadVars, cvap, ccont>>
       \/ AttachCallback(c) /\ UNCHANGED threadVars
       \/ AttachEnd(c) /\ UNCHANGED <<cvap, ccont>>
    /\ UNCHANGED <<envVars, cop, opVap, cidx, cres, budget, mslot, doRec, misrouted>>

-----------------------------------------------------------------------------
(* dwpal_ext_hostap_interface_detach                                       *)

DetachLock(c) ==
    LET i == interfaceIndexGet(opVap[c]) IN
    /\ pc[c] = "d_lock"
    /\ attachOwner = NoThread
    /\ \/ /\ i = 0                             \* IS_DOWN, mutex released
          /\ Goto(c, "idle")
          /\ UNCHANGED <<attachOwner, aidx>>
       \/ /\ i # 0
          /\ attachOwner' = c
          /\ aidx' = [aidx EXCEPT ![c] = i]
          /\ Goto(c, "stopL")
    /\ UNCHANGED <<tableVars, lst, mon, monStop>>

\* free(dwpalService[idx]); dwpalService[idx] = NULL -- outside context_mutex.
DetachFree(c) ==
    /\ pc[c] = "d_free"
    /\ svc' = [svc EXCEPT ![aidx[c]] = NoVap]
    /\ Goto(c, "d_ctx")
    /\ UNCHANGED <<connNeeded, reconnEvt, cbSet, fdOk, ctx, threadVars, aidx>>

\* context_mutex: dwpal_hostap_interface_detach; then restart the threads if
\* other interfaces remain, and release attach_mutex.
DetachContext(c) ==
    /\ pc[c] = "d_ctx"
    /\ ctx' = [ctx EXCEPT ![aidx[c]] = "none"]
    /\ RestartThreads
    /\ attachOwner' = NoThread
    /\ Goto(c, "idle")
    /\ UNCHANGED <<svc, connNeeded, reconnEvt, cbSet, fdOk, monStop, aidx>>

Detach(c) ==
    /\ DetachLock(c) \/ DetachFree(c) \/ DetachContext(c)
    /\ UNCHANGED <<envVars, cop, opVap, aret, cvap, cidx, cres, ccont, budget,
                   mslot, doRec, mirror, misrouted>>

\* A caller thread starts one API call.
StartCall(c) ==
    /\ pc[c] = "idle"
    /\ budget[c] > 0
    /\ budget' = [budget EXCEPT ![c] = @ - 1]
    /\ \E op \in CallerOps, v \in Vaps :
          /\ cop'   = [cop EXCEPT ![c] = op]
          /\ opVap' = [opVap EXCEPT ![c] = v]
          /\ CASE op = "attach" -> Goto(c, "a_lock") /\ UNCHANGED <<cvap, ccont>>
               [] op = "detach" -> Goto(c, "d_lock") /\ UNCHANGED <<cvap, ccont>>
               [] op = "cmd"    -> CallCmdSend(c, v, "idle")
    /\ UNCHANGED <<tableVars, envVars, threadVars, aidx, aret, cidx, cres,
                   mslot, doRec, mirror, misrouted>>

-----------------------------------------------------------------------------
(* Monitor thread: monitorThreadStart                                      *)
(* The uptime clock is abstracted: each pass of the loop runs the ping     *)
(* check, the recovery, or both (PING_CHECK_TIME, RECOVERY_RETRY_TIME).    *)
(* While the monitor runs no slot is freed: detach stops it first.         *)

\* select() returns and the thread is not being stopped.
MonitorTick(ping, rec) ==
    /\ mon = "running" /\ pc[Monitor] = "sel" /\ ~monStop
    /\ ping \/ rec
    /\ doRec' = rec
    /\ mslot' = 1
    /\ Goto(Monitor, IF ping THEN "p_chk" ELSE "r_att")
    /\ UNCHANGED <<tableVars, cvap, ccont, mirror>>

\* while (!threadShouldStop) fails, or "C" is read from the pipe.
MonitorExit ==
    /\ mon = "running" /\ pc[Monitor] = "sel" /\ monStop
    /\ Goto(Monitor, "exited")
    /\ UNCHANGED <<tableVars, mslot, doRec, cvap, ccont, mirror>>

\* Advance interfacesPingCheck's loop; after the last slot, run
\* interfacesRecoverIfNeeded if it is due, else back to select().
PingNext ==
    IF mslot < NumSlots
    THEN mslot' = mslot + 1 /\ Goto(Monitor, "p_chk")
    ELSE mslot' = 1 /\ Goto(Monitor, IF doRec THEN "r_att" ELSE "sel")

\* Mutant: the loop runs one slot past the end of dwpalService[].
RecoverNext_OffByOne ==
    IF mslot <= NumSlots
    THEN mslot' = mslot + 1 /\ Goto(Monitor, "r_att")
    ELSE UNCHANGED mslot /\ Goto(Monitor, "sel")

RecoverNext ==
    IF mslot < NumSlots
    THEN mslot' = mslot + 1 /\ Goto(Monitor, "r_att")
    ELSE UNCHANGED mslot /\ Goto(Monitor, "sel")

\* interfacesPingCheck, slot i: skip a NULL context or an invalid fd, else
\* send "PING".
PingCheckSlot ==
    LET s == mslot IN
    /\ pc[Monitor] = "p_chk"
    /\ \/ /\ ctx[s] = "none" \/ ~fdOk[s]
          /\ PingNext
          /\ UNCHANGED <<cvap, ccont>>
       \/ /\ ctx[s] # "none" /\ fdOk[s]
          /\ CallCmdSend(Monitor, svc[s], "p_res")
          /\ UNCHANGED mslot
    /\ UNCHANGED <<tableVars, mirror>>

\* PING returned DWPAL_FAILURE: fd = -1; under context_mutex, unless the
\* entry is already marked, mark it and detach the context.
PingFailed ==
    LET s == mslot IN
    /\ pc[Monitor] = "p_res"
    /\ \/ /\ cres[Monitor] # "FAILURE"
          /\ PingNext
          /\ UNCHANGED tableVars
       \/ /\ cres[Monitor] = "FAILURE"
          /\ fdOk' = [fdOk EXCEPT ![s] = FALSE]
          /\ \/ /\ ~connNeeded[s]
                /\ connNeeded' = [connNeeded EXCEPT ![s] = TRUE]
                /\ ctx' = [ctx EXCEPT ![s] = "none"]
                /\ Goto(Monitor, "p_disc")
                /\ UNCHANGED mslot
             \/ /\ connNeeded[s]
                /\ PingNext
                /\ UNCHANGED <<connNeeded, ctx>>
          /\ UNCHANGED <<svc, reconnEvt, cbSet>>
    /\ UNCHANGED <<cvap, ccont, mirror>>

\* interfaceDisconnectedSend(i) after the mutex is released.
PingDisconnected ==
    /\ pc[Monitor] = "p_disc"
    /\ interfaceEventSend(mslot, "INTERFACE_DISCONNECTED")
    /\ PingNext
    /\ UNCHANGED <<tableVars, cvap, ccont>>

\* interfacesRecoverIfNeeded, slot i, context_mutex section: if the entry
\* needs a connection, detach a stale context and attach again.
RecoverAttach ==
    LET s == mslot IN
    /\ pc[Monitor] = "r_att"
    /\ \/ /\ svc[s] = NoVap
          /\ RecoverNext
          /\ UNCHANGED tableVars
       \/ /\ svc[s] # NoVap /\ ~connNeeded[s]
          /\ Goto(Monitor, "r_evt")
          /\ UNCHANGED <<tableVars, mslot>>
       \/ /\ svc[s] # NoVap /\ connNeeded[s] /\ up[svc[s]]
          /\ ctx' = [ctx EXCEPT ![s] = "live"]
          /\ connNeeded' = [connNeeded EXCEPT ![s] = FALSE]
          /\ reconnEvt'  = [reconnEvt EXCEPT ![s] = TRUE]
          /\ Goto(Monitor, "r_evt")
          /\ UNCHANGED <<svc, cbSet, fdOk, mslot>>
       \/ /\ svc[s] # NoVap /\ connNeeded[s] /\ ~up[svc[s]]
          /\ ctx' = [ctx EXCEPT ![s] = "none"]
          /\ Goto(Monitor, "r_evt")
          /\ UNCHANGED <<svc, connNeeded, reconnEvt, cbSet, fdOk, mslot>>
    /\ UNCHANGED <<cvap, ccont, mirror>>

\* Outside the mutex: if a reconnect event is owed, interfaceReconnectedOkSent
\* first asks hostapd for STATUS (activeVapsGet).
RecoverEvent ==
    LET s == mslot IN
    /\ pc[Monitor] = "r_evt"
    /\ \/ /\ reconnEvt[s]
          /\ CallCmdSend(Monitor, svc[s], "r_sent")
          /\ UNCHANGED mslot
       \/ /\ ~reconnEvt[s]
          /\ RecoverNext
          /\ UNCHANGED <<cvap, ccont>>
    /\ UNCHANGED <<tableVars, mirror>>

\* The event is sent, and the flag cleared, only when STATUS succeeded.
RecoverSent ==
    LET s == mslot IN
    /\ pc[Monitor] = "r_sent"
    /\ \/ /\ cres[Monitor] = "SUCCESS"
          /\ interfaceEventSend(s, "INTERFACE_RECONNECTED_OK")
          /\ reconnEvt' = [reconnEvt EXCEPT ![s] = FALSE]
       \/ /\ cres[Monitor] # "SUCCESS"
          /\ UNCHANGED <<reconnEvt, mirror>>
    /\ RecoverNext
    /\ UNCHANGED <<svc, connNeeded, cbSet, fdOk, ctx, cvap, ccont>>

MonitorBody ==
    /\ \/ MonitorExit \/ PingCheckSlot \/ PingFailed \/ PingDisconnected
       \/ RecoverAttach \/ RecoverEvent \/ RecoverSent
    /\ UNCHANGED <<envVars, threadVars, cop, opVap, aidx, aret, cidx, cres,
                   budget, doRec, misrouted>>

MonitorStep ==
    \/ MonitorBody
    \/ /\ \E ping, rec \in BOOLEAN : MonitorTick(ping, rec)
       /\ UNCHANGED <<envVars, threadVars, cop, opVap, aidx, aret, cidx, cres,
                      budget, misrouted>>
    \/ CmdSend(Monitor)

-----------------------------------------------------------------------------
(* Listener thread: each pass of listenerThreadStart refreshes the fd of   *)
(* every hostap entry with a context (dwpal_hostap_event_fd_get).          *)

ListenerFdGet(s) ==
    /\ lst = "running"
    /\ ctx[s] \in {"live", "broken"}
    /\ ~fdOk[s]
    /\ fdOk' = [fdOk EXCEPT ![s] = TRUE]
    /\ UNCHANGED <<svc, connNeeded, reconnEvt, cbSet, ctx, envVars, threadVars,
                   localVars, mirror, misrouted>>

-----------------------------------------------------------------------------
(* Environment: hostapd dies or restarts; a request times out or the       *)
(* socket errors with hostapd still alive.                                 *)

HostapdDies(v) ==
    /\ up[v] /\ failures < MaxFailures
    /\ up' = [up EXCEPT ![v] = FALSE]
    /\ failures' = failures + 1
    /\ ctx' = [s \in Slots |-> IF svc[s] = v /\ ctx[s] = "live" THEN "broken" ELSE ctx[s]]
    /\ UNCHANGED <<svc, connNeeded, reconnEvt, cbSet, fdOk, threadVars, localVars,
                   mirror, misrouted>>

HostapdStarts(v) ==
    /\ ~up[v]
    /\ up' = [up EXCEPT ![v] = TRUE]
    /\ UNCHANGED <<tableVars, failures, threadVars, localVars, mirror, misrouted>>

SocketError(s) ==
    /\ ctx[s] = "live" /\ failures < MaxFailures
    /\ ctx' = [ctx EXCEPT ![s] = "broken"]
    /\ failures' = failures + 1
    /\ UNCHANGED <<svc, connNeeded, reconnEvt, cbSet, fdOk, up, threadVars,
                   localVars, mirror, misrouted>>

-----------------------------------------------------------------------------
(* Specification                                                           *)

\* A NULL dereference kills the whole process.
ProcessCrashed == \E t \in Threads : pc[t] = "segv"

Init ==
    /\ svc = [s \in Slots |-> NoVap]
    /\ connNeeded = [s \in Slots |-> FALSE]
    /\ reconnEvt  = [s \in Slots |-> FALSE]
    /\ cbSet      = [s \in Slots |-> FALSE]
    /\ fdOk       = [s \in Slots |-> FALSE]
    /\ ctx        = [s \in Slots |-> "none"]
    /\ up \in [Vaps -> InitUp]
    /\ failures = 0
    /\ attachOwner = NoThread
    /\ lst = "stopped" /\ mon = "stopped" /\ monStop = FALSE
    /\ pc = [t \in Threads |-> IF t = Monitor THEN "sel" ELSE "idle"]
    /\ cop   = [c \in Callers |-> "cmd"]
    /\ opVap = [c \in Callers |-> CHOOSE v \in Vaps : TRUE]
    /\ aidx  = [c \in Callers |-> 1]
    /\ aret  = [c \in Callers |-> "SUCCESS"]
    /\ cvap  = [t \in Threads |-> CHOOSE v \in Vaps : TRUE]
    /\ cidx  = [t \in Threads |-> 1]
    /\ cres  = [t \in Threads |-> "SUCCESS"]
    /\ ccont = [t \in Threads |-> "idle"]
    /\ budget = [c \in Callers |-> MaxOps]
    /\ mslot = 1 /\ doRec = FALSE
    /\ mirror = [v \in Vaps |-> "unknown"]
    /\ misrouted = FALSE

CallerStep(c) ==
    /\ ~ProcessCrashed
    /\ Attach(c) \/ Detach(c) \/ ThreadControl(c) \/ CmdSend(c)

MonitorThread == ~ProcessCrashed /\ MonitorStep
ListenerThread == ~ProcessCrashed /\ \E s \in Slots : ListenerFdGet(s)
Environment ==
    /\ ~ProcessCrashed
    /\ \/ \E v \in Vaps : HostapdDies(v) \/ HostapdStarts(v)
       \/ \E s \in Slots : SocketError(s)

\* Every caller has made its calls, or the process crashed.
Terminated ==
    /\ ProcessCrashed \/ \A c \in Callers : pc[c] = "idle" /\ budget[c] = 0
    /\ UNCHANGED vars

Next ==
    \/ \E c \in Callers : (~ProcessCrashed /\ StartCall(c)) \/ CallerStep(c)
    \/ MonitorThread
    \/ ListenerThread
    \/ Environment
    \/ Terminated

(* A caller in the middle of an API call keeps running; the monitor's      *)
(* select() times out every second, so a ping check and a recovery pass    *)
(* come round again whenever they stay possible; the listener loops every  *)
(* second; a dead hostapd is eventually restarted by its supervisor.       *)
Fairness ==
    /\ \A c \in Callers : WF_vars(CallerStep(c))
    /\ WF_vars(~ProcessCrashed /\ (MonitorBody \/ CmdSend(Monitor)))
    /\ SF_vars(~ProcessCrashed /\ \E rec \in BOOLEAN : MonitorTick(TRUE, rec)
               /\ UNCHANGED <<envVars, threadVars, cop, opVap, aidx, aret, cidx,
                              cres, budget, misrouted>>)
    /\ SF_vars(~ProcessCrashed /\ \E ping \in BOOLEAN : MonitorTick(ping, TRUE)
               /\ UNCHANGED <<envVars, threadVars, cop, opVap, aidx, aret, cidx,
                              cres, budget, misrouted>>)
    /\ WF_vars(ListenerThread)
    /\ \A v \in Vaps : WF_vars(~ProcessCrashed /\ HostapdStarts(v))

Spec == Init /\ [][Next]_vars
FairSpec == Spec /\ Fairness

-----------------------------------------------------------------------------
(* Properties                                                              *)

TypeOK ==
    /\ svc \in [Slots -> Vaps \cup {NoVap}]
    /\ connNeeded \in [Slots -> BOOLEAN] /\ reconnEvt \in [Slots -> BOOLEAN]
    /\ cbSet \in [Slots -> BOOLEAN] /\ fdOk \in [Slots -> BOOLEAN]
    /\ ctx \in [Slots -> CtxState]
    /\ up \in [Vaps -> BOOLEAN] /\ failures \in 0..MaxFailures
    /\ attachOwner \in Callers \cup {NoThread}
    /\ lst \in {"running", "stopped"} /\ mon \in {"running", "stopped"}
    /\ monStop \in BOOLEAN
    /\ pc \in [Threads -> PCs]
    /\ cop \in [Callers -> {"attach", "detach", "cmd"}]
    /\ opVap \in [Callers -> Vaps] /\ aidx \in [Callers -> Slots]
    /\ aret \in [Callers -> RetCode]
    /\ cvap \in [Threads -> Vaps] /\ cidx \in [Threads -> Slots]
    /\ cres \in [Threads -> RetCode] /\ ccont \in [Threads -> PCs]
    /\ budget \in [Callers -> 0..MaxOps]
    /\ mslot \in Slots /\ doRec \in BOOLEAN
    /\ mirror \in [Vaps -> IfState] /\ misrouted \in BOOLEAN

(* Registry uniqueness (spec section 8): two attach calls for one name,    *)
(* from any threads in any order, never leave two entries for it.  Relies  *)
(* on attach_mutex serialising interfaceIndexCreate's lookup and calloc.   *)
UniqueRegistration ==
    \A s1, s2 \in Slots :
        (s1 # s2 /\ svc[s1] # NoVap) => svc[s1] # svc[s2]

(* No entry is orphaned: an entry that is not marked                       *)
(* isConnectionEstablishNeeded has a context, except inside the attach    *)
(* step that is about to create it.  An orphan (no context, no flag) is    *)
(* skipped by interfacesPingCheck and never picked up by                   *)
(* interfacesRecoverIfNeeded, so the VAP would stay dead for good.         *)
RecoverableSlot ==
    \A s \in Slots :
        (/\ svc[s] # NoVap /\ ~connNeeded[s]
         /\ ~\E c \in Callers : pc[c] = "a_ctx" /\ aidx[c] = s)
        => ctx[s] # "none"

(* A command is only ever issued on the entry of the VAP it names, and no  *)
(* thread touches an entry detach has freed: dwpal_ext_hostap_cmd_send     *)
(* reads idx with interfaceIndexGet outside attach_mutex and uses it after.*)
NoStaleIndexUse ==
    /\ ~misrouted
    /\ \A t \in Threads : pc[t] # "segv"

(* A healthy connection is never torn down: whenever an entry becomes      *)
(* marked for reconnection, its context had really failed.  Covers the     *)
(* teardown in interfacesPingCheck and in dwpal_ext_hostap_cmd_send.        *)
NoHealthyTeardown ==
    [][\A s \in Slots :
          (svc[s] # NoVap /\ svc'[s] = svc[s] /\ ~connNeeded[s] /\ connNeeded'[s])
          => ctx[s] # "live"]_vars

(* Recovery converges: once failures stop and hostapd is back, every      *)
(* attached VAP ends up with a working context, no pending reconnect event *)
(* and the daemon's state "connected" -- the lifecycle events the          *)
(* supervisor emits leave the daemon's view right.                        *)
Converged ==
    \A s \in Slots : svc[s] # NoVap =>
        /\ ctx[s] = "live" /\ ~connNeeded[s] /\ ~reconnEvt[s]
        /\ mirror[svc[s]] = "connected"

EventuallyConverged == <>[]Converged

=============================================================================
