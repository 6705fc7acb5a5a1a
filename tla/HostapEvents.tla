---------------------------- MODULE HostapEvents ----------------------------
(***************************************************************************)
(* The daemon's table of hostap events and their subscribers               *)
(* (src/daemon/hostap_iface.c 37-40, 432-611): a list of hostap_event,     *)
(* each an op_code and a list of stations, both pushed at the front.       *)
(*                                                                         *)
(* Strings and the request parser come from RegisterParser; OpCodeSize is  *)
(* scaled down with the byte alphabet so that the length check is          *)
(* reachable.  The three lifecycle opcodes are constants, given as byte    *)
(* strings none of which is a prefix of another, as in the code.           *)
(***************************************************************************)
EXTENDS RegisterParser, FiniteSets

CONSTANTS
    Stations,        \* client stations (wv_ipstation)
    MaxReqLen,       \* longest register request (len)
    CONNECTED_OK,    \* "INTERFACE_CONNECTED_OK"
    RECONNECTED_OK,  \* "INTERFACE_RECONNECTED_OK"
    DISCONNECTED,    \* "INTERFACE_DISCONNECTED"
    EventOps,        \* opcodes of the events hostapd emits
    MaxRegs,         \* register requests, all stations together
    MaxAllocFail     \* calloc / list_init failures injected

VARIABLES
    events,      \* the list `events`: <<[op, stas], ...>>, head first
    state,       \* *state of the interface kept by hostap_send_event
    lastOp,      \* op_code of the last event hostap_send_event handled
    lastTo,      \* stations wave_ipcs_send_to was called for
    regs,        \* register requests made so far
    regOk,       \* the station's last register request returned 0
    allocFails,  \* allocation failures injected so far
    overread     \* history: a parse read reg_str at or past len

vars == <<events, state, lastOp, lastTo, regs, regOk, allocFails, overread>>


(* g_intf_events, in table order *)
IntfEvents == <<CONNECTED_OK, RECONNECTED_OK, DISCONNECTED>>

(* !strncmp(op_code, name, sizeof(name) - 1): op_code starts with name.    *)
IsIntf(op, name) == StrnEq(op, name, Len(name))

(* list_foreach ... if (!strncmp(op_code, tmp->op_code, sizeof(...)))      *)
(* break: index of the first event with this op_code, 0 if none.           *)
FindEvent(evs, op) == SelectInSeq(evs, LAMBDA e : StrnEq(op, e.op, OpCodeSize))

-----------------------------------------------------------------------------
(* Mutant: the existing event gets the station pushed without list_remove. *)
RegisterOne_NoRemove(evs, sta, op, fail) ==
    LET k == FindEvent(evs, op) IN
    IF k # 0
    THEN [evs |-> [evs EXCEPT ![k].stas = Cons(sta, @)], ok |-> TRUE]
    ELSE IF fail
    THEN [evs |-> evs, ok |-> FALSE]
    ELSE [evs |-> Cons([op |-> op, stas |-> <<sta>>], evs), ok |-> TRUE]

(* hostap_register_sta_to_event: move the station to the front of an       *)
(* existing event, or allocate a new event in front of the list.  `fail`   *)
(* is calloc or list_init returning NULL; it only matters when allocating. *)
RegisterOne(evs, sta, op, fail) ==
    LET k == FindEvent(evs, op) IN
    IF k # 0
    THEN [evs |-> [evs EXCEPT ![k].stas = Cons(sta, RemoveFirst(@, sta))],
          ok  |-> TRUE]
    ELSE IF fail
    THEN [evs |-> evs, ok |-> FALSE]
    ELSE [evs |-> Cons([op |-> op, stas |-> <<sta>>], evs), ok |-> TRUE]

(* Register sta to ops in order, stopping at the first failure.  The       *)
(* failAt-th registration is the one whose allocation fails (0: none).     *)
(* n is the number of registrations attempted.                             *)
RECURSIVE RegisterSeq(_, _, _, _)
RegisterSeq(evs, sta, ops, failAt) ==
    IF ops = <<>> THEN [evs |-> evs, ok |-> TRUE, n |-> 0]
    ELSE LET r == RegisterOne(evs, sta, Head(ops), failAt = 1) IN
         IF ~r.ok THEN [evs |-> evs, ok |-> FALSE, n |-> 1]
         ELSE LET rest == RegisterSeq(r.evs, sta, Tail(ops), failAt - 1)
              IN  [rest EXCEPT !.n = 1 + @]


(* Requests a station can send: every byte string of length <= MaxReqLen. *)
Requests == UNION {[1..n -> Byte] : n \in 0..MaxReqLen}

(* intf_flags[idx]: some op_code of the request starts with the idx-th     *)
(* lifecycle name, and with no earlier one (the loop breaks at the first). *)
IntfFlag(ops, idx) ==
    \E k \in 1..Len(ops) :
        /\ IsIntf(ops[k], IntfEvents[idx])
        /\ \A j \in 1..(idx - 1) : ~IsIntf(ops[k], IntfEvents[j])

(* Mutant: the forcing loop stops one entry short of ARRAY_SIZE.          *)
Forced_OffByOne(ops) ==
    LET idxs == SelectSeq(<<1, 2>>, LAMBDA idx : ~IntfFlag(ops, idx))
    IN  [k \in 1..Len(idxs) |-> IntfEvents[idxs[k]]]

(* The lifecycle events the request did not name, in table order.          *)
Forced(ops) ==
    LET idxs == SelectSeq(<<1, 2, 3>>, LAMBDA idx : ~IntfFlag(ops, idx))
    IN  [k \in 1..Len(idxs) |-> IntfEvents[idxs[k]]]

Init ==
    /\ events = <<>>
    /\ state = "unknown"
    /\ lastOp = <<>>
    /\ lastTo = {}
    /\ regs = 0
    /\ regOk = [s \in Stations |-> FALSE]
    /\ allocFails = 0
    /\ overread = FALSE

(* Every request parsed, with every value of the byte read past len.      *)
Parsed == [req \in Requests |-> [pad \in Byte |-> Parse(req, pad)]]

(* The undefined byte read past len: any byte, when the parse reads one.   *)
Pads(req) ==
    IF \E k \in 1..Len(Parsed[req][0].items) : Parsed[req][0].items[k].over
    THEN Byte ELSE {0}

(* hostap_register_sta_to_events(events, sta, reg_str, len): parse and     *)
(* register each op_code in turn; return 1 at a too-long op_code or a      *)
(* failed registration, keeping what was registered so far; otherwise      *)
(* force the lifecycle events the request did not name.  failAt picks the  *)
(* registration whose allocation fails (0: none) while the budget lasts.   *)
RegisterMany(sta) ==
    /\ regs < MaxRegs
    /\ \E req \in Requests : \E pad \in Pads(req) :
        LET p   == Parsed[req][pad]
            ops == [k \in 1..Len(p.items) |-> p.items[k].op]
            fails == IF allocFails < MaxAllocFail
                     THEN 0..(Len(ops) + Len(Forced(ops))) ELSE {0}
        IN  \E failAt \in fails :
            LET r1 == RegisterSeq(events, sta, ops, failAt)
                r2 == RegisterSeq(r1.evs, sta, Forced(ops), failAt - Len(ops))
                forcing == r1.ok /\ ~p.err
            IN  /\ events' = IF forcing THEN r2.evs ELSE r1.evs
                /\ regOk' = [regOk EXCEPT ![sta] = forcing /\ r2.ok]
                /\ allocFails' = allocFails +
                       (IF ~r1.ok \/ (forcing /\ ~r2.ok) THEN 1 ELSE 0)
                /\ overread' = (overread \/ \E k \in 1..r1.n : p.items[k].over)
    /\ regs' = regs + 1
    /\ UNCHANGED <<state, lastOp, lastTo>>

(* Mutant: the loop stops at the first event that held the station.       *)
Unregister_FirstOnly(sta) ==
    /\ events' =
         LET k == SelectInSeq(events, LAMBDA e : sta \in ToSet(e.stas)) IN
         IF k = 0 THEN events
         ELSE LET e == [events[k] EXCEPT !.stas = RemoveFirst(@, sta)]
              IN  IF e.stas = <<>> THEN RemoveAt(events, k)
                  ELSE [events EXCEPT ![k] = e]
    /\ regOk' = [regOk EXCEPT ![sta] = FALSE]
    /\ UNCHANGED <<state, lastOp, lastTo, regs, allocFails, overread>>

(* hostap_unregister_sta_from_events: remove the station from every event  *)
(* and delete the events left without stations.                            *)
Unregister(sta) ==
    /\ events' = SelectSeq([k \in DOMAIN events |->
                               [events[k] EXCEPT !.stas = RemoveFirst(@, sta)]],
                           LAMBDA e : e.stas # <<>>)
    /\ regOk' = [regOk EXCEPT ![sta] = FALSE]
    /\ UNCHANGED <<state, lastOp, lastTo, regs, allocFails, overread>>

(* The branch of hostap_send_event an op_code takes, in the code's order.  *)
Branch(op) ==
    IF IsIntf(op, RECONNECTED_OK) THEN "reconnected"
    ELSE IF IsIntf(op, DISCONNECTED) THEN "disconnected"
    ELSE IF IsIntf(op, CONNECTED_OK) THEN "connected"
    ELSE "other"

(* Stations registered to the first event whose op_code equals op.         *)
Registered(op) ==
    LET k == FindEvent(events, op) IN IF k = 0 THEN {} ELSE ToSet(events[k].stas)

(* hostap_send_event: update the interface state for lifecycle events;     *)
(* INTERFACE_CONNECTED_OK returns before the fan-out; otherwise send to    *)
(* every station of the matching event (a failed send is only logged).     *)
SendEvent(op) ==
    /\ state' = CASE Branch(op) = "reconnected"  -> "connected"
                  [] Branch(op) = "disconnected" -> "disconnected"
                  [] Branch(op) = "connected"    -> "connected"
                  [] OTHER                       -> state
    /\ lastOp' = op
    /\ lastTo' = IF Branch(op) = "connected" THEN {} ELSE Registered(op)
    /\ UNCHANGED <<events, regs, regOk, allocFails, overread>>

Next ==
    \/ \E sta \in Stations : RegisterMany(sta) \/ Unregister(sta)
    \/ \E op \in EventOps : SendEvent(op)

Spec == Init /\ [][Next]_vars
-----------------------------------------------------------------------------
(***************************************************************************)
(* Properties                                                              *)
(***************************************************************************)

Str == Seq(Byte)

TypeOK ==
    /\ events \in Seq([op : Str, stas : Seq(Stations)])
    /\ \A i \in DOMAIN events : Len(events[i].op) < OpCodeSize  \* char op_code[64]
    /\ state \in {"unknown", "connected", "disconnected"}
    /\ lastOp \in Str /\ lastTo \subseteq Stations
    /\ regs \in 0..MaxRegs /\ regOk \in [Stations -> BOOLEAN]
    /\ allocFails \in 0..MaxAllocFail /\ overread \in BOOLEAN

(* Whatever sequence of register requests (duplicates, repeats, partial    *)
(* failures) and unregisters the stations make, the table holds one event  *)
(* per op_code and each station at most once in an event: the lookup in    *)
(* hostap_register_sta_to_event and its list_remove before list_push_front *)
(* keep both (spec: re-registration moves, never duplicates).              *)
UniqueSubscriptions ==
    /\ \A i, j \in DOMAIN events : i # j => events[i].op # events[j].op
    /\ \A i \in DOMAIN events : IsInjective(events[i].stas)

(* A station whose last register request returned 0 receives every         *)
(* lifecycle event: it is in the list of the event whose op_code equals    *)
(* each of the three names (the forced registration of                     *)
(* hostap_register_sta_to_events; spec: subscribed to all three            *)
(* afterward), until it unregisters.                                       *)
LifecycleAfterOk ==
    \A s \in Stations : regOk[s] =>
        \A idx \in 1..3 : s \in Registered(IntfEvents[idx])

(* The parse loop read no byte of reg_str at or past len (spec: parsing    *)
(* stops at the supplied total length).                                    *)
NoOverRead == ~overread

(* The subscription relation the list of events stands for.                *)
Subscriptions ==
    UNION {{<<s, e.op>> : s \in ToSet(e.stas)} : e \in ToSet(events)}

Abs == INSTANCE EventSubscriptions
         WITH subs <- Subscriptions, Ops <- EventOps, NoOp <- <<>>

(* The table implements the abstract subscription relation: a request     *)
(* only adds pairs of its own station, unregistering removes exactly its   *)
(* pairs, and every event reaches exactly the stations subscribed to its   *)
(* op_code (hostap_send_event's lookup and fan-out).                       *)
Refines == Abs!Spec
=============================================================================
