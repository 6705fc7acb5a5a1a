------------------------- MODULE EventSubscriptions -------------------------
(***************************************************************************)
(* What the daemon's event table promises its clients (spec.md, daemon     *)
(* section): a client station subscribes to opcodes, leaves, and every     *)
(* event hostapd emits is fanned out to exactly the stations subscribed to *)
(* its opcode.  Subscriptions are a relation Stations x Ops; the order of  *)
(* the daemon's lists and how a request is encoded are not part of the     *)
(* promise.                                                                *)
(***************************************************************************)
CONSTANTS
    Stations,   \* client stations of the daemon
    Ops,        \* opcodes hostapd emits
    NoOp        \* "no event dispatched yet"

VARIABLES
    subs,       \* set of <<station, opcode>> pairs
    lastOp,     \* opcode of the last dispatched event
    lastTo      \* set of stations it was delivered to

vars == <<subs, lastOp, lastTo>>

SubscribersOf(op) == {p[1] : p \in {q \in subs : q[2] = op}}

Init ==
    /\ subs = {}
    /\ lastOp = NoOp
    /\ lastTo = {}

(* A register request of station s: it may add pairs of s only and never   *)
(* removes one (a rejected request may have added some of them).           *)
Subscribe(s) ==
    /\ subs \subseteq subs'
    /\ \A p \in subs' \ subs : p[1] = s
    /\ UNCHANGED <<lastOp, lastTo>>

(* Station s leaves: all of its pairs go, nobody else's.                   *)
Unsubscribe(s) ==
    /\ subs' = {p \in subs : p[1] # s}
    /\ UNCHANGED <<lastOp, lastTo>>

(* An event with opcode op reaches exactly the subscribers of op.          *)
Dispatch(op) ==
    /\ lastOp' = op
    /\ lastTo' = SubscribersOf(op)
    /\ UNCHANGED subs

Next ==
    \/ \E s \in Stations : Subscribe(s) \/ Unsubscribe(s)
    \/ \E op \in Ops : Dispatch(op)

Spec == Init /\ [][Next]_vars
=============================================================================
