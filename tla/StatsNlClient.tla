---------------------------- MODULE StatsNlClient ----------------------------
(***************************************************************************)
(* The statistics tool (src/stats.c) as a client of the driver adapter's   *)
(* solicited exchange (DriverNlCmd): check_stats_cmd attaches to the       *)
(* driver and makes one or more dwpal_ext_driver_nl_get calls, all with    *)
(* the same outData buffer and outLen, then detaches.  Three of its paths  *)
(* are modelled:                                                           *)
(*   - "ofdma": get_link_adapt_su_mu_ru_ofdma_stats, the peer list, one    *)
(*     get per station copied from it, and the radio total;                *)
(*   - "mu": the LA_MU_HE_EHT_STATS loop over every MU group;              *)
(*   - "single": every other command with reply data, one get and a dump.  *)
(* The tool is one thread, the only caller of the exchange in this         *)
(* repository.  A reply is abstracted to the request it answers; outLen to *)
(* a length in units of the reply's records.                               *)
(***************************************************************************)
EXTENDS Naturals, Sequences, SequencesExt

CONSTANTS
    Client,        \* the tool's thread
    NoThread,
    MaxOps,        \* gets the tool can make (1 + stations + 1)
    MaxTimeouts,
    MaxErrors,
    Stations,      \* MAC addresses of stations
    Junk,          \* a MAC read out of bytes that are not a peer list
    NoSta,         \* the zeroed MAC of the total-stats request
    PeerLists,     \* the peer lists the driver may report
    NumGroups,     \* MAX_NUM_OF_HE_GROUPS (26)
    Cmds,          \* the command lines: [kind, id, param]
    OutLenGarbage  \* values the uninitialised size_t outLen may hold

VARIABLES
    nlMutex, pc, ops, cmdOf, resp, ret, nextId, driverQ, sock, timeouts, errors,
    cmd,       \* the command line
    step,      \* the tool's program counter
    category,  \* the OFDMA category (0 for the other commands)
    attached,  \* between a successful driver attach and the detach
    outData,   \* the request whose reply the buffer holds, or Zeros
    outLen,
    cur,       \* the request of the get in progress
    macs,      \* mac_buff_addr from tmp_buff on: stations still to ask
    grp,       \* the MU group loop's j
    peers,     \* the driver's station list
    active,    \* MU groups with data (type DL or UL)
    sentReqs,  \* requests that reached the driver; id n is sentReqs[n]
    issued,    \* requests passed to dwpal_ext_driver_nl_get, in order
    listed,    \* the stations copied into mac_buff_addr
    printed    \* the records dumped: [what, key, data]

nlVars == <<nlMutex, pc, ops, cmdOf, resp, ret, nextId, driverQ, sock, timeouts, errors>>
cliVars == <<cmd, step, category, attached, outData, outLen, cur, macs, grp,
             peers, active, sentReqs, issued, listed, printed>>
vars == <<nlVars, cliVars>>

Nl == INSTANCE DriverNlCmd WITH Callers <- {Client}

\* stats.h: PARAM_LIMIT and the categories of the vendor data.
PARAM_LIMIT == 1
PARAM_UL_OFDMA == 0
PARAM_DL_OFDMA == 1
GET_UL_OFDMA_CATEGORY == 2
GET_DL_OFDMA_CATEGORY == 3
GET_UL_RADIO_OFDMA_CATEGORY == 240
GET_DL_RADIO_OFDMA_CATEGORY == 241

\* Reply sizes, in the units of outLen: one peer_list_t per station, one
\* la_mu_he_eht_stats_t per group, one record for the other replies.
PEER_LIST_SIZE == 1
MU_STATS_SIZE == 3
STATS_SIZE == 2

\* The requests (subcommand and vendor data) and the zeroed buffer.
Req(k, s, c, g) == [kind |-> k, sta |-> s, cat |-> c, grp |-> g]
PeersReq == Req("peers", NoSta, 0, 0)
StaReq(s, c) == Req("sta", s, c, 0)
TotalReq(c) == Req("total", NoSta, c, 0)
GroupReq(g) == Req("group", NoSta, 0, g)
SingleReq == Req("single", NoSta, 0, 0)
Zeros == Req("none", NoSta, 0, 0)

ReplyLen(r) ==
    CASE r.kind = "peers" -> Len(peers) * PEER_LIST_SIZE
      [] r.kind = "group" -> MU_STATS_SIZE
      [] OTHER            -> STATS_SIZE

\* The n peer_list_t records at the start of the buffer.
MacsOf(d, n) == [i \in 1..n |-> IF d.kind = "peers" /\ i <= Len(peers) THEN peers[i] ELSE Junk]

\* The total request's category: Vendordata[0] mapped to the radio one.
RadioCategory(c) ==
    CASE c = GET_UL_OFDMA_CATEGORY -> GET_UL_RADIO_OFDMA_CATEGORY
      [] c = GET_DL_OFDMA_CATEGORY -> GET_DL_RADIO_OFDMA_CATEGORY
      [] OTHER -> c

\* The request whose answer has id n: an earlier command's, or this one's.
AnswerReq(n) == IF n <= Len(sentReqs) THEN sentReqs[n] ELSE cur

\* What dwpal_ext_driver_nl_get left in the caller's buffers: a received
\* answer is copied with its length; cmd_err sets *outLen = 0; an expired
\* wait writes neither.
NewOutData == IF ret[Client] = "SUCCESS" /\ resp[Client] # 0 THEN AnswerReq(resp[Client]) ELSE outData
NewOutLen ==
    CASE ret[Client] = "FAILURE" -> 0
      [] resp[Client] # 0        -> ReplyLen(AnswerReq(resp[Client]))
      [] OTHER                   -> outLen

\* A get was started and has returned (nl_cmd_handle back to "idle").
Returned(s) == step = s /\ pc[Client] = "idle"

\* The bookkeeping of a returned get.
Absorb ==
    /\ outData' = NewOutData
    /\ outLen' = NewOutLen
    /\ sentReqs' = IF cmdOf[Client] # 0 THEN Append(sentReqs, cur) ELSE sentReqs

Call(r, s) ==
    /\ Nl!Start(Client)
    /\ cur' = r
    /\ issued' = Append(issued, r)
    /\ step' = s

Init ==
    /\ Nl!Init
    /\ cmd \in Cmds
    /\ step = "begin"
    /\ category = 0
    /\ attached = FALSE
    /\ outData = Zeros
    /\ outLen \in OutLenGarbage
    /\ cur = Zeros
    /\ macs = <<>>
    /\ grp = 0
    /\ peers \in PeerLists
    /\ active \in SUBSET (0..NumGroups - 1)
    /\ sentReqs = <<>> /\ issued = <<>> /\ listed = <<>>
    /\ printed = <<>>

\* The category the switch of get_link_adapt_su_mu_ru_ofdma_stats sets:
\* MuSuStatistics maps param 0 and 1, any other param leaves the initial
\* category = 0; MimoStatistics is always DL.
CategoryOf(c) ==
    CASE c.kind # "ofdma"          -> 0
      [] c.id = "MIMO"             -> GET_DL_OFDMA_CATEGORY
      [] c.param = PARAM_UL_OFDMA  -> GET_UL_OFDMA_CATEGORY
      [] c.param = PARAM_DL_OFDMA  -> GET_DL_OFDMA_CATEGORY
      [] OTHER                     -> 0

(* Mutant: the param > PARAM_LIMIT check is dropped.                      *)
Begin_NoLimit ==
    /\ step = "begin"
    /\ category' = CategoryOf(cmd)
    /\ step' = "attach"
    /\ UNCHANGED <<nlVars, cmd, attached, outData, outLen, cur, macs, grp, peers,
                   active, sentReqs, issued, listed, printed>>

\* check_stats_cmd's dispatch and, for MuSuStatistics, the category check
\* of get_link_adapt_su_mu_ru_ofdma_stats (return -1 before attaching).
Begin ==
    /\ step = "begin"
    /\ IF cmd.kind = "ofdma" /\ cmd.id = "SUMU" /\ cmd.param > PARAM_LIMIT
       THEN step' = "done" /\ UNCHANGED category
       ELSE category' = CategoryOf(cmd) /\ step' = "attach"
    /\ UNCHANGED <<nlVars, cmd, attached, outData, outLen, cur, macs, grp, peers,
                   active, sentReqs, issued, listed, printed>>

\* dwpal_ext_driver_nl_attach(NlEventCallback, NULL); on failure every path
\* returns DWPAL_FAILURE at once.
Attach ==
    /\ step = "attach"
    /\ \/ /\ attached' = TRUE
          /\ step' = CASE cmd.kind = "ofdma" -> "peers"
                       [] cmd.kind = "mu"    -> "group"
                       [] OTHER              -> "single"
       \/ step' = "done" /\ UNCHANGED attached
    /\ UNCHANGED <<nlVars, cmd, category, outData, outLen, cur, macs, grp, peers,
                   active, sentReqs, issued, listed, printed>>

GetPeers ==
    /\ step = "peers"
    /\ Call(PeersReq, "peers_wait")
    /\ UNCHANGED <<cmd, category, attached, outData, outLen, macs, grp, peers,
                   active, sentReqs, listed, printed>>

(* Mutant: the loop takes each station from the reply buffer (sta) rather *)
(* than from the copy in mac_buff_addr.                                    *)
StaGet_FromOutData ==
    /\ step = "sta" /\ macs # <<>>
    /\ LET i == Len(listed) - Len(macs) + 1
       IN  Call(StaReq(MacsOf(outData, Len(listed))[i], category), "sta_wait")
    /\ macs' = Tail(macs)
    /\ UNCHANGED <<cmd, category, attached, outData, outLen, grp, peers,
                   active, sentReqs, listed, printed>>

\* The peer-list get returned: on failure, outLen 0 or no station, or a
\* failed malloc, goto total_stats; otherwise the sta_number = outLen /
\* sizeof(peer_list_t) MAC addresses are copied into mac_buff_addr.
PeersReturned ==
    /\ Returned("peers_wait")
    /\ Absorb
    /\ LET n == NewOutLen \div PEER_LIST_SIZE
       IN  IF ret[Client] = "SUCCESS" /\ NewOutLen # 0 /\ n # 0
           THEN \/ macs' = MacsOf(NewOutData, n) /\ listed' = macs' /\ step' = "sta"
                \/ step' = "total" /\ UNCHANGED <<macs, listed>>
           ELSE step' = "total" /\ UNCHANGED <<macs, listed>>
    /\ UNCHANGED <<nlVars, cmd, category, attached, cur, grp, peers, active, issued, printed>>

\* One turn of while (sta_number > 0): Vendordata = |category|MAC|, the
\* next copied MAC, and the get.
StaGet ==
    /\ step = "sta" /\ macs # <<>>
    /\ Call(StaReq(Head(macs), category), "sta_wait")
    /\ macs' = Tail(macs)
    /\ UNCHANGED <<cmd, category, attached, outData, outLen, grp, peers,
                   active, sentReqs, listed, printed>>

StaLoopEnd ==
    /\ step = "sta" /\ macs = <<>>
    /\ step' = "total"
    /\ UNCHANGED <<nlVars, cmd, category, attached, outData, outLen, cur, macs, grp,
                   peers, active, sentReqs, issued, listed, printed>>

\* A station's get returned: a failure ("STA Disconnected") or outLen 0
\* continues the loop; otherwise dump_sta_su_mu_ru_ofdma_stats (or
\* dump_sta_mimo_stats) prints outData as that station's statistics.
StaReturned ==
    /\ Returned("sta_wait")
    /\ Absorb
    /\ printed' = IF ret[Client] = "SUCCESS" /\ NewOutLen # 0
                  THEN Append(printed, [what |-> "sta", key |-> cur.sta, data |-> NewOutData])
                  ELSE printed
    /\ step' = "sta"
    /\ UNCHANGED <<nlVars, cmd, category, attached, cur, macs, grp, peers, active,
                   issued, listed>>

\* total_stats: the radio category and a zeroed MAC in Vendordata.
GetTotal ==
    /\ step = "total"
    /\ Call(TotalReq(RadioCategory(category)), "total_wait")
    /\ UNCHANGED <<cmd, category, attached, outData, outLen, macs, grp, peers,
                   active, sentReqs, listed, printed>>

\* The total's get returned: printed by dump_total_su_mu_ru_ofdma_stats (or
\* dump_radio_mimo_stats) unless it failed or outLen is 0; goto detach.
TotalReturned ==
    /\ Returned("total_wait")
    /\ Absorb
    /\ printed' = IF ret[Client] = "SUCCESS" /\ NewOutLen # 0
                  THEN Append(printed, [what |-> "total", key |-> NoSta, data |-> NewOutData])
                  ELSE printed
    /\ step' = "detach"
    /\ UNCHANGED <<nlVars, cmd, category, attached, cur, macs, grp, peers, active,
                   issued, listed>>

\* The MU loop: mu_data->group_id = j and the get.
GroupGet ==
    /\ step = "group" /\ grp < NumGroups
    /\ Call(GroupReq(grp), "group_wait")
    /\ UNCHANGED <<cmd, category, attached, outData, outLen, macs, grp, peers,
                   active, sentReqs, listed, printed>>

\* dump_la_mu_he_eht_stats: outLen must be sizeof(*stats), and a group
\* is printed only if stats->type is MU_GROUP_DL or MU_GROUP_UL (zeros
\* read as MU_GROUP_INVALID).
MuValid(d) == d.kind = "group" /\ d.grp \in active

\* A group's get returned: a failure detaches and returns DWPAL_FAILURE;
\* otherwise the dump and the next group.
GroupReturned ==
    /\ Returned("group_wait")
    /\ Absorb
    /\ IF ret[Client] # "SUCCESS"
       THEN attached' = FALSE /\ step' = "done" /\ UNCHANGED <<grp, printed>>
       ELSE /\ printed' = IF NewOutLen = MU_STATS_SIZE /\ MuValid(NewOutData)
                          THEN Append(printed, [what |-> "group", key |-> grp, data |-> NewOutData])
                          ELSE printed
            /\ grp' = grp + 1
            /\ step' = "group"
            /\ UNCHANGED attached
    /\ UNCHANGED <<nlVars, cmd, category, cur, macs, peers, active, issued, listed>>

GroupEnd ==
    /\ step = "group" /\ grp = NumGroups
    /\ step' = "detach"
    /\ UNCHANGED <<nlVars, cmd, category, attached, outData, outLen, cur, macs, grp,
                   peers, active, sentReqs, issued, listed, printed>>

SingleGet ==
    /\ step = "single"
    /\ Call(SingleReq, "single_wait")
    /\ UNCHANGED <<cmd, category, attached, outData, outLen, macs, grp, peers,
                   active, sentReqs, listed, printed>>

\* The single get returned: a failure, or outLen 0, detaches and returns
\* -1; otherwise the command's dump and goto end.
SingleReturned ==
    /\ Returned("single_wait")
    /\ Absorb
    /\ IF ret[Client] = "SUCCESS" /\ NewOutLen # 0
       THEN /\ printed' = Append(printed, [what |-> "single", key |-> NoSta, data |-> NewOutData])
            /\ step' = "detach"
            /\ UNCHANGED attached
       ELSE attached' = FALSE /\ step' = "done" /\ UNCHANGED printed
    /\ UNCHANGED <<nlVars, cmd, category, cur, macs, grp, peers, active, issued, listed>>

\* detach: (or end:) dwpal_ext_driver_nl_detach(), then return.
Detach ==
    /\ step = "detach"
    /\ attached' = FALSE
    /\ step' = "done"
    /\ UNCHANGED <<nlVars, cmd, category, outData, outLen, cur, macs, grp, peers,
                   active, sentReqs, issued, listed, printed>>

\* The command has returned: the process exits.
Done == step = "done" /\ UNCHANGED vars

ClientStep ==
    \/ Begin \/ Attach \/ GetPeers \/ PeersReturned \/ StaGet \/ StaLoopEnd
    \/ StaReturned \/ GetTotal \/ TotalReturned \/ GroupGet \/ GroupReturned
    \/ GroupEnd \/ SingleGet \/ SingleReturned \/ Detach

\* nl_cmd_handle's steps inside the tool's current get.
NlThread ==
    /\ \/ Nl!Lock(Client) \/ Nl!Drain(Client) \/ Nl!Send(Client)
       \/ Nl!Receive(Client) \/ Nl!Timeout(Client)
    /\ UNCHANGED cliVars

NlDriver == Nl!Answer /\ UNCHANGED cliVars

Next == ClientStep \/ NlThread \/ NlDriver \/ Done

Spec == Init /\ [][Next]_vars

\* The tool's thread runs, and the driver answers every command.
FairSpec == Spec /\ WF_vars(ClientStep) /\ WF_vars(NlThread) /\ WF_vars(NlDriver)

-----------------------------------------------------------------------------
(* Properties                                                              *)

\* The requests the driver accepts: a station's with an OFDMA category,
\* the total with a radio category.
Requests ==
    {PeersReq, SingleReq}
    \cup {StaReq(s, c) : s \in Stations \cup {Junk},
                         c \in {GET_UL_OFDMA_CATEGORY, GET_DL_OFDMA_CATEGORY}}
    \cup {TotalReq(c) : c \in {GET_UL_RADIO_OFDMA_CATEGORY, GET_DL_RADIO_OFDMA_CATEGORY}}
    \cup {GroupReq(g) : g \in 0..NumGroups - 1}

\* Besides the variables' types: every request the tool passes to
\* dwpal_ext_driver_nl_get is one the driver accepts, so a category check
\* that lets a bad param through shows as a request out of type.
TypeOK ==
    /\ Nl!TypeOK
    /\ issued \in Seq(Requests)
    /\ step \in {"begin", "attach", "peers", "peers_wait", "sta", "sta_wait", "total",
                 "total_wait", "group", "group_wait", "single", "single_wait",
                 "detach", "done"}
    /\ category \in {0, GET_UL_OFDMA_CATEGORY, GET_DL_OFDMA_CATEGORY}
    /\ attached \in BOOLEAN
    /\ outLen \in Nat /\ grp \in 0..NumGroups
    /\ Len(issued) <= MaxOps

\* The gets each command makes, in order.
Expected ==
    CASE cmd.kind = "ofdma" ->
            <<PeersReq>> \o [i \in 1..Len(listed) |-> StaReq(listed[i], category)]
                         \o <<TotalReq(RadioCategory(category))>>
      [] cmd.kind = "mu" -> [i \in 1..NumGroups |-> GroupReq(i - 1)]
      [] OTHER -> <<SingleReq>>

\* The tool asks the driver for exactly the statistics its command names,
\* in order: for MuSuStatistics and MimoStatistics, the peer list, then
\* each station of that list with the category (even though every reply
\* overwrites the buffer the list came in), then the radio total with a
\* zeroed MAC; for the MU command every group once.
RequestSequence == IsPrefix(issued, Expected)

\* Whatever the driver and the socket do, the command returns, and the
\* driver context it attached is detached on every path.
ClientReturns == <>(step = "done" /\ ~attached)

\* The record printed for the request for a station, group, the total or
\* a single command.
RequestOf(p) ==
    CASE p.what = "sta"   -> StaReq(p.key, category)
      [] p.what = "total" -> TotalReq(RadioCategory(category))
      [] p.what = "group" -> GroupReq(p.key)
      [] OTHER            -> SingleReq

\* Every statistics record the tool prints is the driver's reply to the
\* request made for it: a station's statistics are that station's, the
\* total is the radio total, group j's are group j's.
ReplyIsOwn == \A i \in 1..Len(printed) : printed[i].data = RequestOf(printed[i])
====
