------------------------------- MODULE DriverNl -------------------------------
(***************************************************************************)
(* The lifecycle of the driver netlink context "ALL" (src/dwpal_ext.c):    *)
(* dwpal_ext_driver_nl_attach / _detach under attach_mutex, the listener   *)
(* thread reading driver events from context[i], and application threads  *)
(* calling the nl wrappers: the one-shot ones (scan_dump, scan_trigger,    *)
(* the unsolicited cmd_send, nl80211_id_get) and the retried ones          *)
(* (nl80211_cmd_send, scan_dump_sync, scan_trigger_sync), whose            *)
(* nlRecoveryNeeded detaches and re-attaches context[idx] on -ENOENT.      *)
(*                                                                         *)
(* A context is a generation number: 0 is NULL, every dwpal_driver_nl_     *)
(* attach that succeeds makes a new one, a detach frees it.  A thread that *)
(* passed context[idx] to a library call holds that generation until the   *)
(* call returns.  Slots of hostap VAPs are occupied from the start; their  *)
(* own attach and detach are modelled in DwpalExt.                         *)
(***************************************************************************)
EXTENDS Naturals, FiniteSets, FiniteSetsExt

CONSTANTS
    NumServices,   \* numOfServices, the size of dwpalService[] and context[]
    HostapSlots,   \* indexes held by hostap VAP entries
    Users,         \* application threads calling the nl wrappers
    LockModes,     \* values the callers pass as lock_cmd
    MaxCalls,      \* calls per application thread
    MaxAdminOps,   \* driver attach / detach calls, in all
    MaxGen,        \* successful dwpal_driver_nl_attach calls, in all
    MaxAllocFail,  \* calloc failures in interfaceIndexCreate, in all
    NoThread       \* nl_cmd_mutex not held

Slots == 0..(NumServices - 1)
Replies == {"FAILURE", "OK", "ENOENT"}   \* DWPAL_Ret and *cmd_res of a call

VARIABLES
    svc,        \* dwpalService[i]: "free" (NULL), "hostap" or "driver"
    ctx,        \* context[i] of driver entries: a generation, 0 = NULL
    nextGen,    \* generation of the next successful attach
    freed,      \* generations already freed by a detach
    nlMutex,    \* owner of nl_cmd_mutex
    upc,        \* "idle" | "lock" | "call" | "inCall" | "detach" | "attach"
    ukind,      \* "plain" (one-shot wrapper) or "retry" (..._sync, nl80211)
    ulock,      \* the lock_cmd of the current call
    uidx,       \* idx from dwpal_ext_interfaceIndexGet
    ugen,       \* context the thread passed to the library call in flight
    tries,      \* the wrapper's local tries
    sends,      \* library calls made by the current wrapper call
    calls,      \* wrapper calls made by each thread
    lpc,        \* listener: "idle" or "get" (inside dwpal_driver_nl_msg_get)
    lgen,       \* context the listener passed to msg_get
    adminOps,   \* driver attach / detach calls made
    allocFails  \* calloc failures so far

vars == <<svc, ctx, nextGen, freed, nlMutex, upc, ukind, ulock, uidx, ugen,
          tries, sends, calls, lpc, lgen, adminOps, allocFails>>
userVars == <<upc, ukind, ulock, uidx, ugen, tries, sends, calls>>

(* interfaceIndexGet(DWPAL_CONN_TYPE_DRIVER, "ALL", &idx) *)
DriverSlots == {i \in Slots : svc[i] = "driver"}
DriverIdx == Min(DriverSlots)

(* isAnyInterfaceActive *)
AnyActive(s) == \E i \in Slots : s[i] # "free"

(* dwpal_driver_nl_attach: a new context, or failure leaving NULL. *)
NlAttachResults == IF nextGen <= MaxGen THEN {TRUE, FALSE} ELSE {FALSE}

(* Mutant: interfaceIndexCreate without its interfaceIndexGet lookup.      *)
CreateResults_NoLookup ==
    LET free == {i \in Slots : svc[i] = "free"}
    IN  IF free = {} THEN {[ok |-> FALSE, idx |-> 0, svc |-> svc, af |-> 0]}
        ELSE {[ok |-> TRUE, idx |-> Min(free), af |-> 0,
               svc |-> [svc EXCEPT ![Min(free)] = "driver"]]}
             \cup (IF allocFails < MaxAllocFail
                   THEN {[ok |-> FALSE, idx |-> 0, svc |-> svc, af |-> 1]}
                   ELSE {})

(* interfaceIndexCreate(DWPAL_CONN_TYPE_DRIVER, "ALL", &idx): the existing *)
(* entry, or the first free one, calloc'ed; *idx stays 0 on calloc failure *)
(* and on a full table.  af counts the calloc failure.                     *)
CreateResults ==
    LET free == {i \in Slots : svc[i] = "free"}
    IN  IF DriverSlots # {}
        THEN {[ok |-> TRUE, idx |-> DriverIdx, svc |-> svc, af |-> 0]}
        ELSE IF free = {} THEN {[ok |-> FALSE, idx |-> 0, svc |-> svc, af |-> 0]}
        ELSE {[ok |-> TRUE, idx |-> Min(free), af |-> 0,
               svc |-> [svc EXCEPT ![Min(free)] = "driver"]]}
             \cup (IF allocFails < MaxAllocFail
                   THEN {[ok |-> FALSE, idx |-> 0, svc |-> svc, af |-> 1]}
                   ELSE {})

Init ==
    /\ svc = [i \in Slots |-> IF i \in HostapSlots THEN "hostap" ELSE "free"]
    /\ ctx = [i \in Slots |-> 0]
    /\ nextGen = 1
    /\ freed = {}
    /\ nlMutex = NoThread
    /\ upc = [u \in Users |-> "idle"]
    /\ ukind = [u \in Users |-> "plain"]
    /\ ulock = [u \in Users |-> FALSE]
    /\ uidx = [u \in Users |-> 0]
    /\ ugen = [u \in Users |-> 0]
    /\ tries = [u \in Users |-> 0]
    /\ sends = [u \in Users |-> 0]
    /\ calls = [u \in Users |-> 0]
    /\ lpc = "idle"
    /\ lgen = 0
    /\ adminOps = 0
    /\ allocFails = 0

(* dwpal_ext_driver_nl_attach: under attach_mutex; an attached "ALL"       *)
(* returns at once; otherwise the listener is cancelled (threadSet joins   *)
(* it, so it is out of msg_get), the entry is created and attached, the    *)
(* end: block frees dwpalService[idx] when ret is DWPAL_FAILURE, and the   *)
(* listener is re-created if any entry is left.  context[idx] of a failed  *)
(* attach stays NULL.                                                      *)
DriverAttach ==
    /\ adminOps < MaxAdminOps
    /\ adminOps' = adminOps + 1
    /\ IF DriverSlots # {} /\ ctx[DriverIdx] # 0
       THEN UNCHANGED <<svc, ctx, nextGen, allocFails>>
       ELSE /\ lpc = "idle"
            /\ \E r \in CreateResults :
               \E attached \in (IF r.ok THEN NlAttachResults ELSE {FALSE}) :
                 /\ allocFails' = allocFails + r.af
                 /\ ctx' = IF attached THEN [ctx EXCEPT ![r.idx] = nextGen] ELSE ctx
                 /\ nextGen' = IF attached THEN nextGen + 1 ELSE nextGen
                 /\ svc' = IF ~attached /\ r.svc[r.idx] # "free"
                           THEN [r.svc EXCEPT ![r.idx] = "free"]
                           ELSE r.svc
    /\ UNCHANGED <<freed, nlMutex, lpc, lgen>> /\ UNCHANGED userVars

(* dwpal_ext_driver_nl_detach: under attach_mutex; without "ALL" it        *)
(* returns DWPAL_INTERFACE_IS_DOWN; otherwise the listener is cancelled,   *)
(* dwpalService[idx] freed, and dwpal_driver_nl_detach frees context[idx]  *)
(* and sets it to NULL.  Neither nl_cmd_mutex nor any in-flight call is    *)
(* waited for.                                                             *)
DriverDetach ==
    /\ adminOps < MaxAdminOps
    /\ adminOps' = adminOps + 1
    /\ IF DriverSlots = {}
       THEN UNCHANGED <<svc, ctx, freed>>
       ELSE /\ lpc = "idle"
            /\ svc' = [svc EXCEPT ![DriverIdx] = "free"]
            /\ ctx' = [ctx EXCEPT ![DriverIdx] = 0]
            /\ freed' = IF ctx[DriverIdx] # 0 THEN freed \cup {ctx[DriverIdx]} ELSE freed
    /\ UNCHANGED <<nextGen, nlMutex, lpc, lgen, allocFails>> /\ UNCHANGED userVars

(* listenerThreadStart, driver branch: for an entry with a context and a   *)
(* service it calls dwpal_driver_nl_msg_get(context[i], ...) without any   *)
(* lock.  The thread runs while any entry exists.                          *)
ListenerGet(i) ==
    /\ lpc = "idle" /\ AnyActive(svc)
    /\ svc[i] = "driver" /\ ctx[i] # 0
    /\ lpc' = "get" /\ lgen' = ctx[i]
    /\ UNCHANGED <<svc, ctx, nextGen, freed, nlMutex, adminOps, allocFails>>
    /\ UNCHANGED userVars

ListenerReturn ==
    /\ lpc = "get"
    /\ lpc' = "idle" /\ lgen' = 0
    /\ UNCHANGED <<svc, ctx, nextGen, freed, nlMutex, adminOps, allocFails>>
    /\ UNCHANGED userVars
(* A one-shot wrapper (scan_dump, scan_trigger, driver_nl_cmd_send,       *)
(* nl80211_id_get): dwpal_ext_interfaceIndexGet without a lock; without    *)
(* "ALL" it returns DWPAL_INTERFACE_IS_DOWN, else it calls the library on  *)
(* context[idx] once.                                                      *)
StartPlain(u) ==
    /\ upc[u] = "idle" /\ calls[u] < MaxCalls
    /\ calls' = [calls EXCEPT ![u] = @ + 1]
    /\ IF DriverSlots = {}
       THEN UNCHANGED <<upc, ukind, ulock, uidx, sends>>
       ELSE /\ ukind' = [ukind EXCEPT ![u] = "plain"]
            /\ sends' = [sends EXCEPT ![u] = 0]
            /\ ulock' = [ulock EXCEPT ![u] = FALSE]
            /\ uidx' = [uidx EXCEPT ![u] = DriverIdx]
            /\ upc' = [upc EXCEPT ![u] = "call"]
    /\ UNCHANGED <<svc, ctx, nextGen, freed, nlMutex, ugen, tries>>
    /\ UNCHANGED <<lpc, lgen, adminOps, allocFails>>

(* Mutant: the wrapper takes nl_cmd_mutex before the index lookup, so the  *)
(* DWPAL_INTERFACE_IS_DOWN return leaves it locked.                       *)
StartRetry_LockFirst(u) ==
    /\ upc[u] = "idle" /\ calls[u] < MaxCalls
    /\ calls' = [calls EXCEPT ![u] = @ + 1]
    /\ \E l \in LockModes :
         IF DriverSlots = {}
         THEN /\ l => nlMutex = NoThread
              /\ nlMutex' = IF l THEN u ELSE nlMutex
              /\ UNCHANGED <<upc, ukind, ulock, uidx, tries, sends>>
         ELSE /\ ukind' = [ukind EXCEPT ![u] = "retry"]
              /\ ulock' = [ulock EXCEPT ![u] = l]
              /\ uidx' = [uidx EXCEPT ![u] = DriverIdx]
              /\ tries' = [tries EXCEPT ![u] = 2]
              /\ sends' = [sends EXCEPT ![u] = 0]
              /\ upc' = [upc EXCEPT ![u] = IF l THEN "lock" ELSE "call"]
              /\ UNCHANGED nlMutex
    /\ UNCHANGED <<svc, ctx, nextGen, freed, ugen, lpc, lgen, adminOps, allocFails>>

(* A retried wrapper (nl80211_cmd_send, scan_dump_sync, scan_trigger_sync) *)
(* with the caller's lock_cmd: tries = 2, dwpal_ext_interfaceIndexGet      *)
(* without a lock, DWPAL_INTERFACE_IS_DOWN without "ALL", then             *)
(* MUTEX_LOCK(&nl_cmd_mutex) if lock_cmd.                                  *)
StartRetry(u) ==
    /\ upc[u] = "idle" /\ calls[u] < MaxCalls
    /\ calls' = [calls EXCEPT ![u] = @ + 1]
    /\ \E l \in LockModes :
         IF DriverSlots = {}
         THEN UNCHANGED <<upc, ukind, ulock, uidx, tries, sends>>
         ELSE /\ ukind' = [ukind EXCEPT ![u] = "retry"]
              /\ ulock' = [ulock EXCEPT ![u] = l]
              /\ uidx' = [uidx EXCEPT ![u] = DriverIdx]
              /\ tries' = [tries EXCEPT ![u] = 2]
              /\ sends' = [sends EXCEPT ![u] = 0]
              /\ upc' = [upc EXCEPT ![u] = IF l THEN "lock" ELSE "call"]
    /\ UNCHANGED <<svc, ctx, nextGen, freed, nlMutex, ugen, lpc, lgen, adminOps, allocFails>>

(* MUTEX_LOCK(&nl_cmd_mutex) of a retried wrapper with lock_cmd. *)
Lock(u) ==
    /\ upc[u] = "lock" /\ nlMutex = NoThread
    /\ nlMutex' = u
    /\ upc' = [upc EXCEPT ![u] = "call"]
    /\ UNCHANGED <<svc, ctx, nextGen, freed, ukind, ulock, uidx, ugen, tries, sends, calls>>
    /\ UNCHANGED <<lpc, lgen, adminOps, allocFails>>

(* The library call on context[idx], read when the call is made.          *)
Call(u) ==
    /\ upc[u] = "call"
    /\ ugen' = [ugen EXCEPT ![u] = ctx[uidx[u]]]
    /\ sends' = [sends EXCEPT ![u] = @ + 1]
    /\ upc' = [upc EXCEPT ![u] = "inCall"]
    /\ UNCHANGED <<svc, ctx, nextGen, freed, nlMutex, ukind, ulock, uidx, tries, calls>>
    /\ UNCHANGED <<lpc, lgen, adminOps, allocFails>>

(* Mutant: the retry budget is tested before the decrement.               *)
NlRecoveryNeeded_PostDec(u, r) == r = "ENOENT" /\ tries[u] # 0

(* nlRecoveryNeeded: only a successful call with *cmd_res == -ENOENT and  *)
(* a try left (tries after the decrement is not 0) re-attaches.                              *)
NlRecoveryNeeded(u, r) == r = "ENOENT" /\ tries[u] - 1 # 0

(* The call returns.  A NULL context fails.  A one-shot wrapper returns    *)
(* the result; a retried one asks nlRecoveryNeeded (which decrements       *)
(* tries on -ENOENT) and otherwise unlocks if lock_cmd and returns.        *)
Reply(u, r) ==
    /\ upc[u] = "inCall"
    /\ ugen[u] = 0 => r = "FAILURE"
    /\ ugen' = [ugen EXCEPT ![u] = 0]
    /\ tries' = [tries EXCEPT ![u] = IF ukind[u] = "retry" /\ r = "ENOENT" THEN @ - 1 ELSE @]
    /\ IF ukind[u] = "retry" /\ NlRecoveryNeeded(u, r)
       THEN /\ upc' = [upc EXCEPT ![u] = "detach"]
            /\ UNCHANGED nlMutex
       ELSE /\ upc' = [upc EXCEPT ![u] = "idle"]
            /\ nlMutex' = IF ulock[u] THEN NoThread ELSE nlMutex
    /\ UNCHANGED <<svc, ctx, nextGen, freed, ukind, ulock, uidx, sends, calls>>
    /\ UNCHANGED <<lpc, lgen, adminOps, allocFails>>

(* Mutant: the re-attach detaches context[idx] without the NULL test.     *)
RecoverDetach_NoNullCheck(u) ==
    /\ upc[u] = "detach"
    /\ freed' = freed \cup {ctx[uidx[u]]}
    /\ ctx' = [ctx EXCEPT ![uidx[u]] = 0]
    /\ upc' = [upc EXCEPT ![u] = "attach"]
    /\ UNCHANGED <<svc, nextGen, nlMutex, ukind, ulock, uidx, ugen, tries, sends, calls>>
    /\ UNCHANGED <<lpc, lgen, adminOps, allocFails>>

(* nlRecoveryNeeded, re-attach: if context[idx] != NULL,                   *)
(* dwpal_driver_nl_detach frees it and sets it to NULL; no attach_mutex.  *)
RecoverDetach(u) ==
    /\ upc[u] = "detach"
    /\ freed' = IF ctx[uidx[u]] # 0 THEN freed \cup {ctx[uidx[u]]} ELSE freed
    /\ ctx' = [ctx EXCEPT ![uidx[u]] = 0]
    /\ upc' = [upc EXCEPT ![u] = "attach"]
    /\ UNCHANGED <<svc, nextGen, nlMutex, ukind, ulock, uidx, ugen, tries, sends, calls>>
    /\ UNCHANGED <<lpc, lgen, adminOps, allocFails>>

(* nlRecoveryNeeded, then dwpal_driver_nl_attach(&context[idx]): on        *)
(* success the wrapper loops to a new call, on failure it unlocks if       *)
(* lock_cmd and returns.                                                   *)
RecoverAttach(u) ==
    /\ upc[u] = "attach"
    /\ \E attached \in NlAttachResults :
         IF attached
         THEN /\ ctx' = [ctx EXCEPT ![uidx[u]] = nextGen]
              /\ nextGen' = nextGen + 1
              /\ upc' = [upc EXCEPT ![u] = "call"]
              /\ UNCHANGED nlMutex
         ELSE /\ upc' = [upc EXCEPT ![u] = "idle"]
              /\ nlMutex' = IF ulock[u] THEN NoThread ELSE nlMutex
              /\ UNCHANGED <<ctx, nextGen>>
    /\ UNCHANGED <<svc, freed, ukind, ulock, uidx, ugen, tries, sends, calls>>
    /\ UNCHANGED <<lpc, lgen, adminOps, allocFails>>

(* Every thread has made its calls and the admin budget is spent.         *)
Done ==
    /\ \A u \in Users : upc[u] = "idle" /\ calls[u] = MaxCalls
    /\ lpc = "idle" /\ adminOps = MaxAdminOps
    /\ UNCHANGED vars

Next ==
    \/ DriverAttach \/ DriverDetach
    \/ \E i \in Slots : ListenerGet(i)
    \/ ListenerReturn
    \/ \E u \in Users :
         \/ StartPlain(u) \/ StartRetry(u) \/ Lock(u) \/ Call(u) \/ RecoverDetach(u) \/ RecoverAttach(u)
         \/ \E r \in Replies : Reply(u, r)
    \/ Done

Spec == Init /\ [][Next]_vars

(* Application threads are scheduled and library calls return; the         *)
(* listener's msg_get returns.                                             *)
Fairness ==
    /\ \A u \in Users :
         WF_vars(Lock(u) \/ Call(u) \/ RecoverDetach(u) \/ RecoverAttach(u)
                 \/ \E r \in Replies : Reply(u, r))
    /\ WF_vars(ListenerReturn)

FairSpec == Spec /\ Fairness
-----------------------------------------------------------------------------
(***************************************************************************)
(* Properties                                                              *)
(***************************************************************************)

TypeOK ==
    /\ svc \in [Slots -> {"free", "hostap", "driver"}]
    /\ ctx \in [Slots -> 0..MaxGen]
    /\ nextGen \in 1..(MaxGen + 1) /\ freed \subseteq 1..MaxGen
    /\ nlMutex \in Users \cup {NoThread}
    /\ upc \in [Users -> {"idle", "lock", "call", "inCall", "detach", "attach"}]
    /\ uidx \in [Users -> Slots] /\ ugen \in [Users -> 0..MaxGen]
    /\ tries \in [Users -> 0..2] /\ calls \in [Users -> 0..MaxCalls]
    /\ lpc \in {"idle", "get"} /\ lgen \in 0..MaxGen

(* There is never more than one "ALL" driver entry: attach_mutex and the   *)
(* lookup in interfaceIndexCreate reuse an entry whose context a recovery  *)
(* or a failed attach left NULL.                                           *)
SingleDriverEntry == Cardinality(DriverSlots) <= 1

(* A retried wrapper makes at most two library calls, however often the    *)
(* driver answers -ENOENT (spec 4.5: the ENOENT retry is bounded to two    *)
(* attempts).                                                              *)
RetryBound == \A u \in Users : sends[u] <= 2

(* Every wrapper call returns, and nl_cmd_mutex is released on every path, *)
(* so no later caller with lock_cmd waits forever.                         *)
AllCallsReturn == \A u \in Users : upc[u] # "idle" ~> upc[u] = "idle"

(* No library call runs on a freed context: neither an application         *)
(* thread's call nor the listener's dwpal_driver_nl_msg_get is in flight   *)
(* on a context that a detach or a recovery has freed.                     *)
NoFreedContextUse ==
    /\ \A u \in Users : upc[u] = "inCall" => ugen[u] \notin freed
    /\ lpc = "get" => lgen \notin freed

(* Attaching and detaching the driver never frees a hostap VAP's entry.   *)
HostapEntriesKept == \A i \in HostapSlots : svc[i] = "hostap"
==============================================================================
