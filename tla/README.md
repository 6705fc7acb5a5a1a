# TLA+ models of dwpal

Models of the connection-multiplexing and recovery engine of dwpal
(`src/dwpal_ext.c`) and of the daemon glue that consumes it
(`src/daemon/hostap_iface.c`), checked with TLC.

## 1. The system

| Part | Source | State | Operations |
|---|---|---|---|
| Service registry | `dwpal_ext.c` 62-219 | `dwpalService[]` (name, fd, `isConnectionEstablishNeeded`, `isReconnectEventNeeded`, callback), `context[]` | `interfaceIndexGet`, `interfaceIndexCreate`, `isAnyInterfaceActive` |
| Connection supervisor (hostap) | `dwpal_ext.c` 1720-2038 | registry, `attach_mutex`, `context_mutex` | `dwpal_ext_hostap_interface_attach`, `_detach`, `dwpal_ext_hostap_cmd_send` |
| Monitor thread | `dwpal_ext.c` 427-525, 753-813 | `threadShouldStop`, pipe, `last_ping_check`, `isInterfacesPingCheck` | ping check, recovery, exit on 'C' |
| Listener thread | `dwpal_ext.c` 592-749 | fds of the entries | fd refresh, event fetch, 'R' to the monitor, event delivery |
| Thread control | `dwpal_ext.c` 816-957 | `threadID`, `pipeFDs`, `threadShouldStop` | `threadSet` (cancel: flag, 'C', join; create) |
| Driver netlink adapter | `dwpal_ext.c` 1050-1719 | `nl_cmd_mutex`, `nl_response_*` | nl attach/detach, `nl_cmd_handle`, `nlRecoveryNeeded` |
| Daemon hostap glue | `hostap_iface.c` 247-611 | per-interface `state`, list of events with subscribers | `hostap_iface_attach/detach`, event callback framing, `register_sta_to_event(s)`, `unregister`, `hostap_send_event`, `hostap_execute_command` |
| Scan result PHY rate | `stats.c` 119-170, 1999-2053, 2198-2426 | none kept between calls | `parse_ies`, `calculate_phy_rate`, `_hw_rate_params_to_rate` |
| CSI statistics | `stats.c` 602-935 | none kept between calls | `parse_csi_matrix`, `_sign_extend_2x12_to_2x16`, `dump_csi_parse_data_to_file` |
| Statistics driver sessions | `stats.c` 1620-1995 | the tool's buffers `outData`/`outLen` across calls | `get_link_adapt_su_mu_ru_ofdma_stats`, `check_stats_cmd` through `dwpal_ext_driver_nl_get` |
| Statistics printing, logs, bridge/MTU | rest of `stats.c`, `wv_ipc/logs.c`, `hostap_iface.c` 52-245 | none shared | formatting, I/O |

How they interact: the daemon calls attach/detach on its main thread and
commands on client request; attach and detach stop both background threads
(listener, monitor), change the registry, and restart them. The monitor pings
every entry with a valid fd; a failed ping detaches the context, marks the
entry and emits `INTERFACE_DISCONNECTED`; the recovery pass re-attaches marked
entries and emits `INTERFACE_RECONNECTED_OK`. Those events go through the
registered callback into the daemon, whose `hostap_send_event` keeps the
interface state that clients mirror.

Hard behaviours: three kinds of threads (callers, listener, monitor) share the
registry; `dwpal_ext_hostap_cmd_send` takes the index without `attach_mutex`
and `detach` frees the entry outside `context_mutex`; events are emitted after
the mutex is released; cancellation goes through a stop flag that also makes
in-flight commands fail; hostapd can die and come back at any time.

## 2. Modules

### DwpalExt.tla — hostap connection supervisor

State (VARIABLES) and the code they stand for:

* `svc`, `connNeeded`, `reconnEvt`, `cbSet`, `fdOk`, `ctx` — the fields of
  `dwpalService[i]` and `context[i]`. `ctx` is `none` (NULL), `live`, `broken`
  (peer died: the next request fails) or `closed` (after
  `dwpal_hostap_socket_close`, not freed).
* `attachOwner`, `lst`, `mon`, `monStop` — `attach_mutex`, the two threads and
  `g_monitorThreadInfo.threadShouldStop`.
* `pc` and the locals of each thread (`cop`, `opVap`, `aidx`, `aret`, `cvap`,
  `cidx`, `cres`, `ccont`, `mslot`, `doRec`). `dwpal_ext_hostap_cmd_send` is a
  subroutine (`CallCmdSend` / `Return`) used by callers, by attach
  (STATUS in `activeVapsGet`) and by the monitor (PING, STATUS).
* `mirror` — the daemon's state of each interface, set by `hostap_iface_attach`
  from attach's return code and by `hostap_send_event` from lifecycle events.
* `up`, `failures` — the environment: hostapd reachable, failures injected.
* `misrouted` — history: a command was sent on another VAP's entry.

Granularity: every `context_mutex` critical section is one step; what the code
does outside it (the index lookup, freeing the entry, emitting an event) is a
step of its own. `Segv` is a read of a freed entry; it stops the process.

Actions: `AttachLock … AttachEnd` (one per block of
`dwpal_ext_hostap_interface_attach`), `DetachLock`, `DetachFree`,
`DetachContext`, `CmdSendIndexGet`, `CmdSendLocked`, `CmdSendDisconnected`,
`CancelListener`, `CancelMonitor`, `JoinMonitor`, the monitor's `MonitorTick`,
`PingCheckSlot`, `PingFailed`, `PingDisconnected`, `RecoverAttach`,
`RecoverEvent`, `RecoverSent`, `MonitorExit`, the listener's `ListenerFdGet`,
and the environment's `HostapdDies`, `HostapdStarts`, `SocketError`.

The monitor's clock is abstracted: each pass of its loop runs the ping check,
the recovery or both (`MonitorTick(ping, rec)`). The build modelled is the
default one (`EVENT_CALLBACK_THREAD` is commented out at line 49), so the
callback runs in the emitting thread. Event delivery into the daemon is taken
as synchronous with the callback.

`MC_DwpalExt.tla` gives the constants model values and defines `Symmetry`
(VAP names, caller threads) and `View`, which identifies states differing only
in the dead locals of a thread that is outside any call.

### HostapEvents.tla — the daemon's event subscription table

`src/daemon/hostap_iface.c` 432-611. State: `events`, the list of
`hostap_event` (op_code, list of stations), both lists pushed at the front as
in the code; `state`, the interface state `hostap_send_event` keeps;
`lastOp`/`lastTo`, the event last handled and the stations it was sent to.
History and budgets: `regs` (register requests so far), `regOk` (the
station's last request returned 0), `allocFails`, `overread` (a parse read
past `len`).

Actions, one per handler, each the whole function:

* `RegisterMany(sta)` — `hostap_register_sta_to_events`. The request is any
  byte string of at most `MaxReqLen` bytes; the parse loop is
  `RegisterParser!ParseFrom`; each op_code goes through `RegisterOne`
  (`hostap_register_sta_to_event`: move to front, or allocate a new event in
  front) in order; an allocation failure (`calloc` or `list_init`) or a too-long
  op_code returns 1 and keeps what was registered; otherwise the lifecycle
  events not flagged are force-registered in table order. A byte read past
  `len` is any byte (`Pads`).
* `Unregister(sta)` — `hostap_unregister_sta_from_events`.
* `SendEvent(op)` — `hostap_send_event`: the lifecycle branches in the code's
  order, the early return for `INTERFACE_CONNECTED_OK`, then the first event
  with an equal op_code and a send to each of its stations. The bridge/MTU
  hooks it calls are not modelled.

Strings are byte sequences; `strncmp` is `StrnEq` over the first n chars. The
lifecycle names are short byte strings (`<<1>>`, `<<2>>`, `<<3>>` in the MC
module), `sizeof(op_code)` is `OpCodeSize` (2 or 3 instead of 64), so that the
length check, the prefix compare and the read past `len` are all reachable
with requests of 3 bytes.

### EventSubscriptions.tla — what the table promises

The abstract specification: a relation `subs` ⊆ Stations × Ops; a register
request adds pairs of its own station only, unregistering removes exactly the
station's pairs, and `Dispatch(op)` delivers to exactly the subscribers of
`op`. `HostapEvents` maps `events` to the relation (`Subscriptions`) and checks
`Abs!Spec` as the property `Refines`.

### RegisterParser.tla — the request parser

The C string operators and the parse loop of `hostap_register_sta_to_events`
(490-523) as a RECURSIVE operator `ParseFrom(req, pad, i)`, returning the
op_codes with, for each, whether its `memcpy_s` read past `len`, and whether
the length check failed. `HostapEvents` calls it on every request of up to
`MaxReqLen` bytes, so the events run exercises it through `UniqueSubscriptions`
and `LifecycleAfterOk`.

### ListenerMonitor.tla — the two background loops, step by step

`src/dwpal_ext.c` 427-525, 592-730, 753-946, 1720-1793, 1866-1895. Where
DwpalExt takes each loop pass as one step, this module gives the listener,
the monitor and the cancelling caller a program counter each (`lpc`, `mpc`,
`cpc`) and one action per statement group, so that the unlocked reads and the
pipe bytes interleave as they do in the code.

State. Per entry: `ctx[i]` (a pointer, `NULL` = 0), `fd[i]` (the fd is valid),
`connNeeded[i]` (`isConnectionEstablishNeeded`). Per pointer: `conn[p]`, the
library connection behind it (`live`, `dead` after hostapd died, `gone` once
the dead socket has reported its error, `closed` by `dwpal_hostap_socket_close`,
`freed` by `dwpal_hostap_interface_detach`), and `pend[p]`, events waiting on
its event socket. Listener: the stop flag, the pipe (`lpipe`, count of 'C'),
the pointers read for select (`lsel`), the ready set and the pointer being
fetched (`lptr`). Monitor: the stop flag, the pipe contents `mpipe`, whether
it is open, `isInterfacesPingCheck`, and the time since `last_ping_check` and
`last_recovery_time` capped at the two constants (`Tick`; only the difference
is ever compared).

Actions. `ListenerRefresh`, `ListenerSelect`, `ListenerScan`, `ListenerRecv`
are the refresh of the fd set, `select`, the dispatch loop re-reading
`context[i]` (with the failed `malloc`) and `dwpal_hostap_event_get` with the
'R' on failure. `MonitorLoop`, `MonitorSelect`, `PingCheckSlot` (with
`PingSend`, including the stop-flag refusal inside `cmd_send`) and
`RecoverSlot` are `monitorThreadStart`, `interfacesPingCheck` and
`interfacesRecoverIfNeeded` entry by entry. The caller runs detach's cancel
and create sequence one statement at a time (flag, 'C', join, pipe closed,
create with the 100 ms gap) and `CallerCmdSend`, whose error path
(`CmdSendFailure`) closes or detaches the context and NULLs `context[i]`
without touching `fd`. hostapd dies, restarts and emits events.

Abstractions: a dead `wpa_ctrl` datagram socket is readable until one fetch
reports its error, then quiet; the 64 KiB pipe never fills, and a byte equal
to the last one pending is merged with it (the reader drains the pipe in one
`read` and only looks at the first byte, so this loses nothing it would see).

### DriverNlCmd.tla — the solicited netlink exchange

`nl_cmd_handle` with an output buffer (`dwpal_ext.c` 1050-1296), as called by
`dwpal_ext_driver_nl_get`. State: `nlMutex` (`nl_cmd_mutex`), each caller's
`pc` and its locals: the id of the command it sent (`cmdOf`), the answer
copied into its `outData` (`resp`) and the value returned (`ret`). The
environment is the driver's queue of unanswered commands (`driverQ`) and the
answers readable on the command socket (`sock`), both in order. Actions:

* `Start` — the call.
* `Lock` — `MUTEX_LOCK`.
* `Drain` — `nl_cmd_socket_clean_if_needed`: the socket is emptied, or the
  call fails.
* `Send` — `dwpal_driver_nl_cmd_send`.
* `Receive` — select ready, one message read and copied by `nlCmdGetCallback`.
* `Timeout` — select expires after 2 s. The function still returns
  `DWPAL_SUCCESS`.
* `Answer` — the driver answers its oldest command.
* `CmdErr` — every `cmd_err` exit. It is a disjunct of the steps that can fail.

Budgets: `MaxOps` calls per thread, `MaxTimeouts` expired waits and
`MaxErrors` failed socket operations.

The module is checked through `StatsNlClient`, which instantiates it with
`Callers = {Client}`: `stats.c` is the library's only caller of
`dwpal_ext_driver_nl_get` in this repository.

### StatsNlClient.tla — the statistics tool's driver sessions

The `dwpal_cli`-side commands of `stats.c` that talk to the driver:
`get_link_adapt_su_mu_ru_ofdma_stats` (peer list, one request per station,
then the total) and the MU-group and single-request branches of
`check_stats_cmd`. It composes with the nl exchange by
`Nl == INSTANCE DriverNlCmd WITH Callers <- {Client}` and shares its
variables; `Next` is a tool step, a step of `nl_cmd_handle` on the tool's
thread (`Lock`, `Drain`, `Send`, `Receive`, `Timeout`) or the driver
answering.

State: `cmd` (the command line), `step` (where the tool is), `category`,
`attached`, the caller's buffers `outData` and `outLen` (which survive from
one request to the next, as in the code), `cur` (the request in flight),
`macs`, `grp`, and the environment: `peers` (the driver's station list) and
`active` (valid MU groups). History: `sentReqs` (request of each command id),
`issued` (requests in order), `listed` and `printed` (what was printed, with
the request it claims to answer).

Abstractions:
* a reply is the request record it answers (`AnswerReq`); its length is
  `ReplyLen`, in record units (`STATS_SIZE`, `MU_STATS_SIZE`);
* a peer list parsed from a buffer that is not a peer reply gives `Junk`
  MACs (`MacsOf`);
* `size_t outLen;` is uninitialised in the code: `Init` takes it from
  `OutLenGarbage`;
* the library's effect on the buffers is `NewOutData` (the callback's copy)
  and `NewOutLen` (0 on `cmd_err`, untouched on a timeout).

Actions: `Begin` (argument checks), `Attach`, `GetPeers`/`PeersReturned`,
`StaGet`/`StaReturned`/`StaLoopEnd`, `GetTotal`/`TotalReturned`,
`GroupGet`/`GroupReturned`/`GroupEnd`, `SingleGet`/`SingleReturned`,
`Detach`, `Done`.

### DriverNl.tla — the driver context's lifecycle

The driver entry "ALL" is attached with `dwpal_ext_driver_nl_attach`
(1627-1719) and detached with `dwpal_ext_driver_nl_detach` (1537-1616). Three
kinds of thread use it: the listener thread, which reads `context[i]` in
`dwpal_driver_nl_msg_get` (686-744), and application threads calling the nl
wrappers (1326-1509).

* **Wrappers.** The one-shot wrappers are `scan_dump`, `scan_trigger` and
  `nl80211_id_get`. The retried ones are `nl80211_cmd_send`, `scan_dump_sync`
  and `scan_trigger_sync`. On `-ENOENT`, the retried wrappers call
  `nlRecoveryNeeded`, which detaches and re-attaches the context under at
  most `nl_cmd_mutex`.
* **Contexts.** A context is a generation number: 0 is NULL, every successful
  attach makes a new one, and a detach adds it to `freed`. A thread holds the
  generation it passed to a library call until the call returns (`ugen`,
  `lgen`).
* **Table.** Table slots are `svc`, and the slots of hostap VAPs are taken
  from the start.
* **Atomic steps.** `interfaceIndexCreate` (`CreateResults`: found, new,
  table full, or calloc failed) is one step with the attach around it,
  because `attach_mutex` covers it.
* **Actions.**
  * Attach and detach: `DriverAttach`, `DriverDetach`.
  * Listener: `ListenerGet`, `ListenerReturn`.
  * Application threads: `StartPlain`, `StartRetry`, `Lock`, `Call`, `Reply`,
    `RecoverDetach`, `RecoverAttach`.
  * `Done`.

### HostapIpc.tla — event framing and the command executor

`hostap_iface.c` 247-402. Strings are byte sequences.

* **`EventCallback`** — `dwpal_ext_hostap_event_callback`. It covers every
  allocation (any of which may fail), the check that `msg_len + 1` fits the
  16-bit field, and the frame it hands on. The frame has a header, the
  payload (name, opcode, message, NUL) and the extra-info envelope
  (`EventFrame`). The field is `LenBits` wide: 3 in the runs, so that the
  overflow is reachable with messages of up to 7 bytes.
* **`ExecuteCommand`** — `hostap_execute_command`. It covers the header check
  against `IFNAMSIZ`, the split of name and command, the allocations of the
  response, the transport call and the response frame. The copy into
  `vap_name` is `VapName`: libsafec's `memcpy_s` into the zeroed
  `IFNAMSIZ + 1` array, reading past the payload if asked to (`ReadBytes`),
  zeroing the array when `n > dmax`, and leaving no NUL when `n = dmax`.
* **State.** The frames and responses sent, in order (`frames`, `cmds`), and
  the IPC messages not released (`leaked`).

### ScanRate.tla — the PHY rate of a scanned BSS

The bitrate tables (`stats.c` 119-170) are TLA+ tuples. `_hw_rate_params_to_rate`
(2012-2053) and `is_valid_vht_rate_params` are operators with the code's
index formulas; the `|` of the index is Bitwise's.

The buffer of information elements is a sequence of element records (id, len
and the fields the code reads). It may end `cut` bytes into its last element.
`ParseIe` is one turn of the `parse_ies` loop:

* a rates element is copied into `rates[]`;
* an HT or VHT element of the struct's size is remembered;
* an extension element of at least 22 bytes with the HE id ends the walk.

`ParseEnd` is the loop's exit. `CalculatePhyRate` is the rest of
`calculate_phy_rate`: the non-HT maximum, the HT `rx_mask` scan with MCS 32,
the VHT map with the `mcs_1ss` fallback (`VhtRate1ss`, RECURSIVE) and the HE
map. `lastRead` keeps the highest buffer offset any of these reads.

### CsiMatrix.tla — the CSIStats dump

The CSIStats command asks the driver for the channel-state information of a
station and writes it to a `.csi` file. `parse_csi_matrix` (602-770) splits
the driver's 32-bit words; `dump_csi_parse_data_to_file` (841-935) prints the
matrix, each entry through `_sign_extend_2x12_to_2x16` (829-839).

* **State.** The reply (`csi`: the raw words and frame_info's `Nr`, `Nc`),
  `chip` (`chip_type`), `err`, the loop counter `k`, `idx`
  (`index_data_arr`), `ants` (`ants_mat`), the two timestamps, `matrix` and
  `msize` (the caller's `csi_matrix` and its size), and `printed`, the
  entries written, as a function from (subcarrier, row, column) to the two
  16-bit halves.
* **Actions.** `CheckHeader` is the header test and the callocs, either of
  which may fail. `SplitWord` is one turn of the split loop: a marker word
  (stream 10-14) updates a timestamp, any other word is stored at
  `index_data_arr[ant] + 192*ant - 1` (`StoreAt`). `Arrange` is the
  arrangement loops and the `memcpy_s`; `Dump` is the error return or the
  print loop.
* **Abstractions.** The 48 subcarriers are the constant `NumSc`; every
  buffer size and loop bound is written in terms of it (192 = 4*NumSc,
  197 = 4*NumSc + 5, ...). The wave700 and wave600D2 paths differ only in
  their sizes and share the actions. Words stay below 2^30 (the antenna
  field is at most 3). The file name, the frame_info lines and the
  timestamp print are not modelled.
* **Inputs.** A frame carries, besides the words, what the driver meant:
  the chip, the matrix size and the cells. `MC_CsiMatrix` builds the words
  from the cells the way the driver lays them out, so the properties can
  compare what is printed with what was sent.

## 3. Runs

| Run | Cfg | Expect | Checks |
|---|---|---|---|
| dwpal_safety | MC_DwpalExt_safety.cfg | pass | TypeOK, UniqueRegistration, RecoverableSlot |
| dwpal_stale_index | MC_DwpalExt_stale.cfg | violation | NoStaleIndexUse |
| dwpal_event_order | MC_DwpalExt_mirror.cfg | violation | EventuallyConverged with commands |
| events_safety | MC_HostapEvents_safety.cfg | pass | TypeOK, UniqueSubscriptions, LifecycleAfterOk, Refines |
| listener_safety | MC_ListenerMonitor.cfg | pass | TypeOK, CancelReturns, EventuallyRecovered |
| stats_nl_client | MC_StatsNlClient.cfg | pass | TypeOK, RequestSequence, ClientReturns |
| stats_stale_reply | MC_StatsNlClient_stale.cfg | violation | ReplyIsOwn |
| drivernl_safety | MC_DriverNl.cfg | pass | TypeOK, SingleDriverEntry, RetryBound, AllCallsReturn |
| drivernl_detach_in_flight | MC_DriverNl_freed.cfg | violation | NoFreedContextUse |
| ipc_frames | MC_HostapIpc.cfg | pass | TypeOK, EventFrameDecodes, ForwardsValidFrames |
| scan_max_rate | MC_ScanRate.cfg | pass | TypeOK, MaxRateIsBest |
| csi_dump | MC_CsiMatrix.cfg | pass | TypeOK, NoAntsOverrun, CsiDumpFaithful |

What they show:

* **UniqueRegistration** holds because `attach_mutex` makes
  `interfaceIndexCreate`'s lookup and calloc one step. The mutant that drops
  the mutex breaks it.
* **RecoverableSlot** holds for every interleaving of attach, detach,
  commands, pings, recovery and one failure. It says no entry is left without
  a context and without the reconnect flag.
* **NoStaleIndexUse** is violated. A caller that looked the index up can be
  overtaken by a detach that frees the entry, giving a NULL dereference at
  line 1752. It can also be overtaken by a detach and an attach that reuse
  the slot for another VAP.
* **EventuallyConverged** is violated once callers send commands. The
  caller's `INTERFACE_DISCONNECTED` is emitted after the mutex is released
  and can land after the monitor's `INTERFACE_RECONNECTED_OK`. The daemon
  then stays disconnected on a live connection.
* **UniqueSubscriptions** and **LifecycleAfterOk** hold for every request of
  up to 3 bytes by two stations. The cases include duplicates in a request,
  repeated requests, an allocation failure in the middle of a request, and
  unregisters in between.
  * UniqueSubscriptions: one event per op_code, and a station at most once in
    an event.
  * LifecycleAfterOk: a station whose last request returned 0 is in the lists
    of all three lifecycle events.
* **Refines** holds with the events that are fanned out. Requests only add
  the station's own pairs, unregister removes exactly them, and an event
  reaches exactly its subscribers.
* **CancelReturns** and **EventuallyRecovered** hold for two entries with a
  hostapd crash, an event, a failing caller command and a cancel/create cycle.
  * CancelReturns: each `pthread_join` in `THREAD_CANCEL` returns, also when
    the 'C' is read behind an 'R' and ignored; the stop flag set before the
    write is what ends the loop.
  * EventuallyRecovered: every entry whose hostapd runs ends up with a live
    connection, also when the 'R' falls into the closed pipe between the two
    creates.
* **TypeOK** of `StatsNlClient` requires every request the tool sends to be
  one the driver accepts: a station request with the UL or DL OFDMA
  category, the total with a radio category. It depends on the
  `param > PARAM_LIMIT` check: any other param leaves `category = 0`
  (`CategoryOf`).
* **RequestSequence** and **ClientReturns** hold for every peer list of up
  to two stations, with an expired wait, a socket error and a garbage initial
  `outLen`.
  * RequestSequence: the tool sends the peer-list request, one request per
    listed station in list order, then the total, whatever the replies
    contain; the MAC of each station request comes from the peer list kept
    in `macs`, not from `outData`, which later replies overwrite.
  * ClientReturns: the command finishes and the driver context is detached
    on every path; every `cmd_err` exit of `nl_cmd_handle` unlocks
    `nl_cmd_mutex`.
* **ReplyIsOwn** is violated. When the 2-second wait expires,
  `dwpal_ext_driver_nl_get` returns `DWPAL_SUCCESS` with `outData` and
  `outLen` untouched (`dwpal_ext.c` 1213). The tool tests only `outLen`
  (`stats.c` 1726), so it prints the previous station's reply, or the peer
  list, as this station's statistics; the late answer is then read by the
  next request's drain or taken as its reply. For the single request the
  uninitialised `outLen` (1780) plays the same part.
* **SingleDriverEntry**, **RetryBound** and **AllCallsReturn** hold with
  attach, detach, the listener and two callers with and without `lock_cmd`.
  * SingleDriverEntry: the driver never has two table entries.
  * RetryBound: a `-ENOENT` retry sends at most twice.
  * AllCallsReturn: every wrapper call returns, including through
    `nlRecoveryNeeded`.
* **NoFreedContextUse** is violated. `dwpal_ext_driver_nl_detach` frees the
  context while a wrapper on another thread is inside a library call on it:
  a use after free (line 1576).
* **EventFrameDecodes** and **ForwardsValidFrames** hold with a 3-bit
  length field, `IFNAMSIZ = 2` and command frames of up to 3 bytes.
  * EventFrameDecodes: every event frame and envelope decodes to the name,
    opcode and message passed.
  * ForwardsValidFrames: a command reaches hostapd exactly when its VAP name
    is 1 to `IFNAMSIZ` bytes inside the payload (and the response could be
    allocated), and then with the client's name and command. The header
    check at line 264 is tested at each of its bounds: a `>` for `>=` lets
    an `IFNAMSIZ + 1`-byte name fill `vap_name` with no NUL, a dropped size
    test lets `memcpy_s` read past the message.
  * TypeOK of `HostapIpc` also requires every byte sent to hostapd to be one
    of the client's (`OutOfBuffer` is a byte read past the payload).
* **MaxRateIsBest** holds for complete buffers whose MCS maps give every
  supported stream the same range, on both bands. It says the printed rate
  is the highest rate any advertised (mode, streams, MCS) gives. The inputs
  include MCS 32, the 40 MHz intolerant bit, VHT MCS 9 on 20 MHz (an `_NV_`
  entry) and a short HT element that must be ignored.
* **NoAntsOverrun** and **CsiDumpFaithful** hold for every reply of the
  three chips, with the marker words anywhere among the data words, the
  wave600B0 streams one after the other or taking turns, fewer active rows
  and columns than the matrix has, and bad headers.
  * NoAntsOverrun: every data word is stored inside its stream's part of
    `ants_mat`.
  * CsiDumpFaithful: a bad header prints nothing; otherwise every active
    cell is printed as the two signed 12-bit numbers the driver sent,
    widened to 16 bits (-2048 and 2047 included). This checks the
    arrangement index formulas, the dump's `z` index and the sign
    extension together.

Each property of a passing run has a mutant in `PROJECT.json`: a plausible bug
in the code it is about, under which TLC finds it violated.

Stated in the modules and found violated by TLC, but not among the runs kept
(they are listed as hazards in `PROJECT.json`):

* `NoHealthyTeardown` (DwpalExt). The monitor's PING fails at the stop-flag
  check while another thread cancels it, and a healthy connection is torn
  down.
* `NoFreedContextUse` (ListenerMonitor). The listener reads `context[i]`
  without `context_mutex`; a failed `cmd_send` or ping detaches and frees it
  before `dwpal_hostap_event_get` runs on it (line 708).
* `PingWhenDue` (ListenerMonitor). After one 'R', `isInterfacesPingCheck`
  stays true and every 1-second timeout runs a ping pass (line 794).
* `NoOverRead` (HostapEvents). `memcpy_s` at line 506 reads past `len` for a
  truncated last entry.
* `NoForeignResponse` (DriverNlCmd). An answer arriving after the next
  caller's drain is taken as that caller's answer (spec 4.5). With the one
  caller of this repository it shows up as `ReplyIsOwn`.
* `AllGetsReturn` (DriverNlCmd) for two concurrent callers; the one-caller
  case is `ClientReturns`.
* `SuccessHasResponse` (DriverNlCmd); `ReplyIsOwn` states what the timeout
  does to the tool.
* `NoLeakOnFailure` and `EveryCommandAnswered` (HostapIpc).
  * The 16-bit overflow path does not release `e_msg`.
  * A frame failing the header check gets no response (spec 4.4).
* `NoOverRead` (ScanRate). `ielen >= ie[1]` at `stats.c` 2205 admits an
  element running up to two bytes past the buffer.
* `MaxRateIsBest` (ScanRate). It is violated for a map whose top stream
  supports fewer MCS than the one below.
* `HostapEntriesKept` (DriverNl). When calloc fails in
  `interfaceIndexCreate`, idx stays 0 and the `end:` block of
  `dwpal_ext_driver_nl_attach` frees `dwpalService[0]`, which belongs to a
  hostap VAP (line 1689).
* `NoAntsOverrun` (CsiMatrix), for a reply the run does not enumerate: a
  wave700 reply with one marker word replaced by a data word makes
  `parse_csi_matrix` write one word past `ants_mat` (line 651). The code
  trusts the driver's marker count.
* The `INTERFACE_CONNECTED_OK` early return (line 579) breaks `Refines`.
* The prefix compare at line 516 breaks `LifecycleAfterOk`.

### Bounds

**DwpalExt.**
* 2 VAPs and 2 callers are the least that exercise a name clash, a race
  between two callers and slot reuse.
* 2 slots make uniqueness meaningful. 1 slot, in the stale-index run, makes
  reuse and the full table reachable.
* One injected failure (`MaxFailures = 1`) is enough for every recovery
  path, since recovery is per entry.
* The safety run starts with every hostapd up; a hostapd that is down is
  reached through the injected failure. The other runs also start from
  hostapd down.
* `MaxOps` (2 for safety, 1 for the liveness run) lets a caller attach and
  then detach or send a command.
* Deadlock is checked: a finished or crashed system stutters in
  `Terminated`.

**Event table.**
* 2 stations: a second station is what makes deleting only empty events, and
  moving rather than duplicating, observable.
* 2 register requests in all: a station can register twice, or two stations
  once.
* Requests of up to 3 bytes over the bytes 0..4. This leaves room for a
  duplicate, a terminating 0, a too-long length byte and a truncated last
  entry.
* One allocation failure.
* `OpCodeSize = 2` keeps every op_code one byte long and every lifecycle name
  a full op_code.
* Symmetry over stations is sound: no property names a station.

**StatsNlClient (with DriverNlCmd).**
* 2 stations and peer lists of 0, 1 and 2 of them: an empty list, a list
  whose reply is lost, and a second station whose request follows the
  first's reply.
* 2 MU groups, each active or not; the SU/MU command with parameters 0..2
  (2 is refused), MIMO, MU and single.
* `MaxOps = 4` calls, one expired wait, one socket error.
* `OutLenGarbage = {0, 2}`: the uninitialised `outLen` is 0 or a record's
  length.

**DriverNl.**
* `NumServices = 3` (the real table has `NUM_OF_SUPPORTED_VAPS + 1`) gives
  one hostap slot, one driver slot and one spare, so a full table and a
  second driver entry are both reachable.
* 2 users with 2 calls each.
* 3 attach/detach calls and `MaxGen = 3` contexts allow a re-attach after a
  recovery.
* One calloc failure.
* Symmetry over users is used in the safety-only configurations.

**HostapIpc.**
* `LenBits = 3` scales the 16-bit length field; messages of 0..7 bytes reach
  both sides of the overflow check.
* `IFNAMSIZ = 2`, with command frames of up to 3 bytes, reaches both sides
  of the name check.

**ScanRate.**
* The element sizes, rate tables and `PHY_STAT_RATE_NSS_MAX = 8` are the
  real ones.
* Each capability element takes one of 4 to 6 shapes, chosen to reach every
  branch of the bandwidth and guard-interval selection.

**ListenerMonitor.**
* 2 entries: one can fail while the other is fetched or pinged.
* One hostapd death, one event, one caller command, one cancel/create cycle.
* `MaxPtr = NumSlots * (1 + MaxCycles) + MaxDeaths` (`MC_MaxPtr`) pointers:
  enough for every re-attach the bounds allow, so a recovery never fails for
  want of a fresh pointer.

**CsiMatrix.**
* `NumSc = 2` subcarriers instead of 48: two subcarriers are enough for the
  arrangement's subcarrier stride to matter, and every size scales with it.
* wave700 and wave600D2: the 4 marker words at every set of 4 positions
  among the words, with all or 2 active rows.
* wave600B0: the 15 markers first, last or every third word; streams in
  sequence or in turns; 4x4 or 2x3 active.
* Three bad headers. The dump has no concurrency; deadlock is checked, the
  finished parse stutters in `Done`.

### Fairness

**DwpalExt** (`Fairness`).
* Weak fairness for each caller thread: a thread inside a call keeps
  running.
* Weak fairness for the monitor's loop body and the listener. Both loop on a
  1-second select.
* Weak fairness for hostapd's restart: its supervisor restarts it.
* Strong fairness for the monitor's ping and recovery passes. The code runs
  them whenever their time comes round, even if other threads keep disabling
  them in between; the monitor is stopped while an attach or detach runs.

**StatsNlClient** (`FairSpec`).
* Weak fairness for the tool's own steps, for `nl_cmd_handle`'s steps on
  its thread, and for the driver answering: the tool is one sequential
  process and the driver answers every command it is sent.

**DriverNl.**
* Weak fairness for each thread's steps inside a call.
* Weak fairness for the driver answering a queued command, and for the
  listener returning from its library call.
* Starting a call, attach and detach are not fair: an application may never
  call again.

**ListenerMonitor** (`FairSpec`).
* Weak fairness for the listener, the monitor, the cancelling caller and the
  clock: each thread runs, and the uptime advances.
* No fairness on hostapd: a restart after a crash is not assumed, hence
  `EventuallyRecovered` speaks only of entries whose hostapd is up.

## 4. Not modelled yet, and the plan

1. **nl event path** — `nlInternalEventCallback` and the unsolicited socket of
   the driver context. Only the listener's hold on the context is modelled.
2. The daemon's IPC loop that calls the handlers is not in the repository.

Left out for good:
* the printing of `stats.c` (a `printf` per field) and its commands that
  send without a reply (`pOutLen` NULL) or write the PER file: the
  requests of the driver sessions are modelled, the formatting is not;
* `logs.c`: `syslog`/`printf` with a level filter and the program's
  basename, no state shared with the library;
* the bridge/MTU shell side effects;
* the `EVENT_CALLBACK_THREAD` build.
