# SIAP node, gateway and backend: formal models

Models of the SIAP link (TTAK.KO-10.0943 as implemented under `src/project_code`), of
its two ends, the node firmware in C and the gateway in Python, and of the backend that
uses it. TLC checks them on small instances; TLAPS proves the safety properties of both
ends and of the backend for every value of the constants.

## 1. The system

A greenhouse node (Arduino or ESP32) speaks SIAP over UART or TCP to a gateway process, which
keeps a SQLite database and serves a web API.

```
 web client -> api.py -> services (fcs, ems, mms, fms, dms)
                            |  link.send()          ^ SQLite (one writer)
                            v                       |
                         SiapNodeLink  --on_frame-> ingest.py
                            |  I/O thread, pending table, registry
                            |  codec.py / transport.py
                     ====== serial line or socket ======
                            |  siap_frame.c (streaming decoder, transmit window)
                         node_state.c (one loop: siap_node_poll)
                            |  siap_dev_ops_t
                          sensors, actuators (the .ino sketches)
```

| Component | State it keeps | Operations | How it meets the others | What makes it correct |
|---|---|---|---|---|
| Node state machine, `firmware/core/node_state.c` | state, one pending slot, retransmission clock, due bits and cursor, backoff, blamed device | `siap_node_init`, `siap_node_poll`, four decoder callbacks | callbacks from the decoder in pieces of a frame; `tx` to the encoder; device operations of the sketch | slot and state agree; no awaited frame is lost; no waiting state is for ever; FAULT blames the right device |
| Frame decoder and encoder, `siap_frame.c` | position in the frame, resynchronisation, bytes to drop; transmit window, sequence of chunks | `siap_dec_feed`, `siap_dec_on_gap`, `siap_tx_*`, `_tx_seq_*` | calls back `on_header`, `on_fixed`, `on_element`, `on_end`; is fed by `siap_node_poll`, writes through `siap_io_t` | finds the next frame after damage; what is sent is one whole frame |
| Gateway link, `siap/link.py`, `control.py`, `registry.py`, `build.py` | pending table, send queue, sessions, profile | `send`, `_io_loop`, `register`, `match`, `expire` | API threads block in `send`; the I/O thread owns the transport and calls `on_frame` | the caller gets its own answer; every call returns; retransmissions are bounded |
| Gateway codec, `siap/codec.py`, `contracts/frame.py` | bytes not yet framed, resynchronisation | `encode_frame`, `decode_frame`, `Decoder.feed` | used by the I/O thread, asks the registry for known nodes | chunks do not matter; violations are classified and cost no valid frame |
| Ingest, `backend/ingest.py`, `repository.py`, `db.py` | the database | `handle` | called as `on_frame`, one transaction per frame on the I/O thread | every frame leaves a record; a frame is applied whole or not at all |
| Control and approval, `services/fcs.py`, `mms.py`, `api.py`, `schema.sql` | rules with their approved order, executions with their result | draft, approve, reject, execute, manual | `link.send` from an API thread, between two transactions | nothing is executed without approval; a decision is final; a recorded result is the node's |
| Device properties, `services/ems.py` | device property rows | `set_device_property` over several nodes | `link.send` inside a write transaction | database and nodes agree; nobody waits for whom it blocks |
| Monitoring, `services/fms.py`, `dms.py` | alerts | queries, NO_DATA check | API threads and ingest write the same rows | one alert per condition |
| Virtual node, replayer, fault injection, `sim/` | a simulated node | frames over a socket | stands in for a board | test double |
| Boards (`.ino`) | pins; the ESP32's TCP connection | I/O that may take or bring less than asked, `board_ensure_connected` | `siap_io_t`, `siap_dev_ops_t` | a lost connection leads to a new session |
| Event stream and verification screen, `api.py`, `web/static/stream.js`, `api.js`, `web/verify.html` | per connection: the last time stamp and the alerts sent; per page: list and index of frames, filter, pinned cursor, requests under way | `stream_events`; `connectStream`, `loadFrames`, `upsertFrame`, `recoverMissedFrames`, `selectFrame`, `applyFilterChange` | the stream reads what ingest commits; answers and events reach the page in any order | the list shows each frame once and what the filter admits; an outage leaves no hole |
| Other screens, public data | nothing; nothing | HTTP | HTTP; rule drafts | environment of the models |

What is hard in this code:

* **A frame in pieces.** The node acts on the elements of a frame as they arrive. A frame
  may straddle several polls, and the node may change state in between.
* **One slot.** Requests, notifications and their retransmissions share one pending slot
  and one timer. Several rules decide who may take it.
* **Two clocks in one poll.** `on_end` reads `millis()` anew while the poll keeps the value
  it began with.
* **Threads.** API threads wait for an I/O thread that may stall, or end with an exception
  between two effects of one frame. A caller may give up while its request is queued, on
  the line, or answered.
* **Late, lost and repeated frames**, with identifiers that both sides count independently.
* **A lock across a network wait** (`ems.py`), reads before a transaction (`fcs.py`, `mms.py`,
  `ems.py`) and check-then-insert (`fms.py`), with one write lock for all threads.
* **No delimiter and no checksum.** Both decoders have to find the next frame by its looks.
* **Three tables of the same devices**: the node's memory, the database and the registry, each
  changed by declarations and patches at its own time.
* **A page fed from four sides**: stream, snapshots, recovery and details change one list, each
  with an answer that was asked for under an older filter or before another answer.
* **Layers that hide a failure from each other**: the board repairs the connection below the
  node, and the gateway's sessions are gone with its process.

`PROJECT.json` lists these hazards line by line, with the properties that would catch them.

## 2. Modules

| Module | Role |
|---|---|
| `NodeState` | node state machine, detailed |
| `MCNodeState` | its instances for TLC |
| `RequestReply` | abstract: what `SiapLink.send` promises |
| `GatewayLink` | gateway link with threads, queues, pending table; implements `RequestReply` |
| `MCGatewayLink` | its instances for TLC |
| `GatewayLinkProofs` | its theorems, the refinement among them |
| `NodeTx` | transmit window and chunk sequence under every step of `NodeState` |
| `NodeProofs` | theorems of both: the node, and what it puts on the line |
| `FrameStream` | both decoders on one damaged byte stream |
| `FrameStreamProofs` | its theorems, on the loop of `feed`, on silences, on what both decoders deliver of a line |
| `Wire` | the bits of one frame: gateway codec, node codec, virtual node, the field panel of the API |
| `WireProofs` | its theorems, and the layouts and bodies they rest on |
| `Backend` | services on their threads, the database with its write lock, the I/O thread's share in it |
| `BackendProofs` | its theorems: commands, results and decisions; settings, patches and alerts; types |
| `DeviceTables` | what node, database and registry hold of the devices; what ingest does with a frame |
| `DeviceTablesProofs` | its theorems |
| `Session` | `NodeState` behind the ESP32 transport, with the gateway's session table |
| `EventStream` | the frame log on its way to the verification screen |
| `EventStreamProofs` | its theorems, and the folds they rest on |
| `SequenceLemmas` | induction over a set of numbers; slices, joins and flattening of sequences |
| `MCNodeTx`, `MCFrameStream`, `MCWire`, `MCBackend`, `MCDeviceTables`, `MCSession`, `MCEventStream` | their instances for TLC |

`NodeTx` and `Session` extend `NodeState`: the node's actions are used as they are, and each
adds what lies below. `Backend` uses the link only through what `RequestReply` promises, which
`GatewayLink` is proved to keep.

### NodeState

One poll is `PollBegin` (clock, BOOT and its first request), any number of receive steps,
`PollPending` (retransmission) and one of `PollDue`, `Reconnect`, `PollEnd`. The receive
steps are the decoder's callbacks: `RxHeader`, `RxFixed`, `RxElement`, with `OnEnd` inside
whichever comes last; `RxGap` drops a frame that stopped. Between them the environment may
act (`Tick`, `LinkError`, `PowerCycle`). That is how a frame straddles polls.

| Model | Code |
|---|---|
| `pending`, `age` | `siap_node_t.pending`, and `now - t_sent` |
| `lag` | how far `millis()` has moved past the local `now` of the running poll |
| `due`, `dev_due`, `cursor` | due bits, per-device deadlines, `_due_send_next`'s rotation |
| `fault_device`, `status` | blamed device, Status field of each device property |
| `rx` | the decoder's position in the current frame, with the elements that took effect |
| `session`, `out` | history: the fate of the declaration; frames handed to the encoder in this step |

Abstracted: values, periods and limits of devices; the payload formats (a frame is
its kind, identifier, status code and elements); the transmit window, which `NodeTx` adds.
Periodic deadlines and the backoff run out nondeterministically. INIT is part of the first
poll, because no poll ends in it.

### RequestReply and GatewayLink

`RequestReply` has three variables: the outcome of every call, how often its request was put
on the link, and which requests the node carried out. It allows a call that returned
nothing while its request is carried out later. That is what `send` really promises, and
callers (`fcs.py`) have to live with it.

`GatewayLink` adds the program. A caller is `queued` (`out.get`) or `waiting`
(`PendingTable.wait`), both under one deadline. The I/O thread goes round `read`, `drain`,
`expire`; each step handles one frame, one request, or one `expire()` pass. In each of them
an exception may end the thread (`io = "dead"`): `on_frame` re-raises database errors, and
`SocketTransport.write` raises when the peer is gone, and `_io_loop` catches neither.

| Model | Code |
|---|---|
| `txq`, `handed` | `_txq`; the `PendingRequest` put into the caller's one-place queue |
| `table` | `PendingTable._pending`: time left and retransmissions by (node, identifier) |
| `result` | `PendingRequest.result` with its event |
| `known`, `profile` | `NodeRegistry._nodes`; `_profile` (one variable: `_replace_profile` is the only writer and sets both copies on the I/O thread) |
| `air`, `rxq` | copies of requests on the line; frames that have arrived |
| `logged`, `out` | what `on_frame` and `_write` got in this step |
| `outcome`, `sent`, `done` | history, the state of `RequestReply` |

Abstracted: request and response kinds beyond "the expected response" and "something
else"; device lists of the registry; `REQ_SET_PROPERTY` stands for the three requests that
only update those lists. Identifiers are given out once (65536 apart in the code). Answers
may be lost; a request that is never delivered simply stays in `air`. The model has no
urgency: a deadline that has passed may be noticed late, as with any thread.

### NodeTx

| Model | Code |
|---|---|
| `win` | what `siap_enc_t.win` holds and has not written; not `Nothing`: `tx_busy` |
| `rest` | what `tx_seq` has not encoded yet |
| `wire` | the receiver's side: what came since the last whole frame |
| `cut` | history: something was encoded while something else was in progress |
| `SendWindow` | `siap_tx_reset`, encode, flush: `_send_ack_now`, `_reply_rsc_only`, `_pending_encode`, ... |
| `SendSequence`, `Feed`, `Pump` | `_tx_seq_start`, `_tx_seq_pump`, `siap_tx_flush` |

`Transmit` is conjoined to every step of the node and sends exactly the frames which that
step hands over (`out'`), and goes on with the window where the poll does. A write takes any
number of units down to none, on every board: `uart_write` what the buffer has room for,
`board_tcp_write` what the TCP stack takes, and nothing while there is no connection. A chunk has
two units, so that it can break off inside; contents are left out, and so a piece of a frame is a
stretch of its units.

### FrameStream

One sender, one line, two decoders. The gateway is fed chunks of any size at any time
(`Feed`), the node one byte as it comes (`ByteArrives`), with silence (`Gap`) as
`siap_dec_on_gap` hears of it. Bytes are lost or garbled. A header has three symbols instead
of twelve bytes: `Version`, one for the fields that select a layout, and Node ID. What decides
over the recovery is kept: the order of the checks, the candidate window with its two different
conditions (the gateway's asks for a known node, the node's does not look at the Node ID), what is dropped with
a violation and what is not (F-140, F-141), and how many bytes remain behind a bad part.
The node's `_on_header` refuses no header (`NdAccepts`): a frame of another node, or one whose Node ID
is garbled, is read to its end and ignored by the state machine (`_addressed_to_me`; `Addressed` of `NodeState`),
while the gateway takes it for a violation and looks for the next header. The samples of the run contain such a frame.
`Round` is what one pass through `_try_extract`'s loop does, and `Extract`, the loop, runs as many of them as there
are bytes, after which none changes anything (proved). `LAYOUT` gives fixed part, element size and count per type. The widths of bit fields and the
two wire code tables are in `Wire`.

A byte of `line` carries the frame it comes from and its place in it (`at`), which no decoder looks at: a frame
is delivered when its own bytes are, not bytes that look the same. `MaxTotal` is the longest
frame of the layouts; behind damage, `Recovers` asks for nothing that begins within `MaxTotal` and a header.
The last section names what `CleanLineDelivers` and `Recovers` need to know of the frames: a header that
is accepted announces the payload that is there (`WellFormed`); a frame, together with
the beginning of another behind it, shows three bytes that look like a header nowhere but at its own beginning
(`Quiet`), either every frame (`AllQuiet`) or all that are not valid for both (`ViolationsQuiet`). A sender
that uses the encoder keeps the first; the other two are about contents. The protocol has no delimiter and no checksum, so without
them the properties are false: a decoder that looks for a header takes one out of a payload. TLC finds `CleanLineDelivers`
violated when the samples are `<<v, odd, n, v, prop, n>>`, a rejected header with another behind it whose payload is
the next frame, and `Recovers` when every frame is `<<v, prop, n, v, prop, n>>`, among which a decoder that is half a frame late
stays so. `MCFrameStream` assumes
all three of its samples, and TLC evaluates that.

### Wire

One frame is written (`GatewayWrites`, `NodeWrites`, `VirtualNodeWrites`, or `AnybodyWrites`, a
sender that checks nothing), and `GatewayReads` and `NodeReads` decode the bits.

| Model | Code |
|---|---|
| `WIRE_CODE`, `NotiCode` | `WIRE_CODE`, `WIRE_CODE_EXT` of `frame.py`; `SIAP_WIRE_CODE`, `SIAP_WIRE_CODE_EXT` |
| `element_count`, `ResolveKind` | `element_count`, `_resolve_kind_with_clause`; `siap_element_count`, `siap_resolve_kind` |
| `GwHeader`, `GwNP`, `GwDMI`, ... | the calls of `BitWriter.write` and `BitReader.read` in `codec.py` |
| `NdHeader`, ... / `SimHeader`, ... | `bp_write` and `bp_read` in `siap_frame.c` / `_Writer.put` and `_Reader.get` in `sim/_wire.py` |
| `WebHeader`, `WebDMI`, `WebDP` | the field tables of `api.py`, with the offsets computed from them |
| `GwEncodes`, `NdEncodes` | the frames that `encode_frame`, or `siap_tx_put_*`, does not refuse |
| `GwDecode`, `NdDecode` | verdict, kind and contents from `_decode_frame`, or from `siap_dec_feed` |

The two codecs are written down separately, although most of their definitions come out alike: that
they do is what `DecodersAgree` and `SentIsAccepted` are about. A Value stays 32 bits (two halves); its
conversion to a number is left out, and with it that the gateway refuses to send a NaN and accepts one
(`codec.py:181`, `:198`; what the accepted one does is in `DeviceTables`). Whether a Node ID is known is looked at in `FrameStream`.

### Backend

| Model | Code |
|---|---|
| `db`, `draft`, `owner` | the committed database; what the open transaction sees; whose it is |
| `db.status`, `db.snap` | `control_rule.approval_status`; `action_json` and `target_install_id` |
| `db.execs` | rows of `control_execution`, with CONTROL_TIMEOUT alerts |
| `db.prop`, `db.nodata` | `device_install_info`; NO_DATA alerts |
| `job` | per thread: the request served, the statement it has reached, the rows it has read |
| `io`, `queue`, `wire`, `answers` | the I/O thread with a frame in `ingest.handle`; requests and answers |
| `nprop`, `acted`, `refused`, `held` | what nodes have and did (history) |

One action is one SQL statement with what follows up to the next one, or one step of the
link. A SELECT reads `db` and holds nothing; the first write needs the lock, waits for
`busy_timeout` and fails (`BusyError`). The triggers of `schema.sql` are conditions of the
writes (`DecisionAllowed`, `ExecutionAllowed`). `Restart` rolls back, empties memory, and leaves
nodes and the line alone.

Abstracted: texts, conditions and parameters of rules; users and their roles; measurements
(`late` says which devices lack them); what becomes of limits, and the tables that only ingest
writes, which are in `DeviceTables`. Sending is one step
from the thread to the line if the I/O thread is free. A late answer, which finds no entry in the
pending table and is only logged, is left out.

### DeviceTables

| Model | Code |
|---|---|
| `node.cfg`, `node.build` | `node->cfg.devices`; the settings compiled into the sketch |
| `db.info`, `db.row`, `hist` | `device_info`; `device_install_info`; what `config_change_log`, replayed, says of a row |
| `made` | the rows of states, environments, relations and alerts that one frame inserts |
| `reg` | `NodeRegistry`: the node and its device list |
| `io` | the I/O thread between commit (`on_frame`) and `_apply_registry_effects` |
| `job` | a PATCH between its four steps: row read, registry read and sent, answered, row written |
| `last`, `doubt` | history: the setting last declared or acknowledged; whether a fault came since the last full declaration |

`Ingest` is `ingest.handle` with all its checks (F-156, F-169, F-171, F-173, F-175, F-180,
F-198) and the constraints of `schema.sql` that could fail it (`Raises`); `Effects` is the rest of
the handling of the frame. A measured value is a level or NaN, which every comparison with a limit lets
pass (`InRange`) and sqlite binds as NULL: for a column that is NOT NULL (`Spoils`; all but the states of a
pump, a fan or a heater, `Nullable`) the transaction is rolled back and the exception ends the I/O thread
(`io.pc = "dead"`), until the process is started again. A PATCH that finds it dead gets no answer. The node is here what it shows on the line: it connects, declares what it
has in memory, takes a PATCH whole, measures. A build may put another device under a number, or
claim a Type that contradicts the Subtype. Frames stay in order and may be lost.

Abstracted: one node; one level for value, limit and range, and the upper bound only; names,
places, units and precision; manager and greenhouse, which are fixed rows. The firmware sends
neither a partial declaration nor NOTI_DISCONNECT, though the contract lets nodes do it; the
passing run contains both. Answers that refuse a PATCH end it as silence does.

### Session

`NodeState` is composed with `board_ensure_connected`, `board_tcp_read_byte` and
`board_tcp_write` (`esp32_node.ino`) and, on the other side, the session table of
`registry.py` behind the default replies of `link.py`. `LinkError` is not among the node's
steps, because no board ever returns -1. The TCP listener that a board connects to is not in
the repository; it is taken to pass bytes in order and to go down with the gateway.

### EventStream

| Model | Code |
|---|---|
| `stamped`, `log` | a frame between `time.time()` in the I/O thread and the commit of `ingest.handle`; `frame_log` |
| `net`, `srv`, `down` | the connection, its generator's `last_frame_t` and `last_alert_seen`, events on their way |
| `es`, `polling`, `recovering` | `EventSource`, `pollTimer`, and what the next `onopen` means |
| `frames`, `byId`, `filter` | the list, its index, the three controls above it |
| `since` | `recoverySince`: no outage, an outage that found the list empty, or a time |
| `loads`, `repairs`, `details` | `loadFrames`, `recoverMissedFrames` and `selectFrame` between two awaits |
| `got` | history: what this connection was sent |

Each handler of the page is one action, each answer another, so that answers overtake each other. The
generator's round is one action, although it yields between events and reads the alerts after it has sent the frames:
each event reaches the page in a step of its own (`Deliver`), and the alert of a frame committed between the two
queries only comes a round before its frame, when the page ignores it or has the frame listed already. A page of a recovery is two actions, because
`list_frames` counts (`CountPage`, the total) and selects (`NextPage`, the rows) in two statements with a transaction each: a
frame may be committed between them (`slipped`). Abstracted: contents of frames except
node and judgement, which is taken as final when the frame is committed; names of alerts; what is drawn. The browser and the
server read one clock, as they do when the page is opened on the machine that serves it.

## 3. Runs

| Run | Asks | Result |
|---|---|---|
| `node_safety` | every kind of gateway frame, link errors, power cycles, expiring timers, frames that straddle polls: `SlotMatchesState`, `FaultIsBlamed`, `NothingDisplaced`, `TelemetryAfterDeclaration` | holds |
| `node_live` | a gateway that may never answer, device values that are always due: `WaitingEnds`, `KeepAliveNotStarved` | holds |
| `tx_window` | window and sequence below the node, writes that take any part or nothing: `WholeFrames` | **violated** |
| `gateway_link` | two requests, retransmission, sessions that end, colliding identifiers, profiles replaced under way, a dying I/O thread: `OwnAnswer`, `TableMatchesWaiters`, refinement `Promise`, `CallsReturn`, `EntriesSettle` | holds |
| `backend_store` | two clients whose requests meet, silent and refusing nodes, a restart, a busy database: `Authorised`, `DecidedOnce`, `ResultIsTheNodes`, `SettingsBacked`, `AllNodesAgreed`, `LateIsReported`, `CallsEnd` | holds |
| `backend_busy` | one patch of two nodes while frames come in: `IoSurvives` | **violated** |
| `stream` | any three frames, valid or not, one byte lost or garbled, one silence, any chunks: `ChunksDoNotMatter`, `CleanLineDelivers`, `Recovers`, `GapRestores` | holds |
| `wire` | a frame of every kind and mode with 0, 1, 2 or 17 elements, fields filled with small numbers or with ones, no fault, one or two; written by each program, read by both decoders: `KindsApart`, `DecodersAgree`, `SentIsAccepted`, `SlicesShowFrame` | holds |
| `tables` | one node with changing builds, a patch, lost frames, reconnections, a restart of the gateway, values that are not numbers: `OnlyNaNEnds`, `IdentityHolds`, `HistoryReplays`, `ListedIsInstalled`, `AtRestTheyAgree` | holds |
| `patched_period` | a patch of the period, then a new session: `InRangeStored` | **violated** |
| `session_restart` | one restart of the gateway: `KnownAgain` | **violated** |
| `event_stream` | frames and alerts, an outage or a failed request, overlapping snapshots and recoveries, a changed filter or a selection, answers in any order: `ListHolds`, `StreamSkipsOnlyBursts`, `RecoveryRepairs` | holds |

Findings (quotations and lines in `PROJECT.json`):

1. *Frames cut short* (`node_state.c:515`). Whatever fits one window is encoded into it without
   a look at `tx_busy`. Where a write takes less than all (the UART boards when the buffer is full, the
   ESP32 when its connection is gone or slow), an answer to the gateway cuts a
   declaration that is on its way; the receiver sees one frame's beginning and another's.
2. *The I/O thread dies of a busy database* (`ems.py:122`). A patch of several nodes holds the
   write lock while it waits for the next node. A frame that is ingested meanwhile fails after
   `busy_timeout`, and the exception ends the I/O thread, against the architecture document.
3. *No new session after a restart of the gateway* (`esp32_node.ino:61`). The board reconnects
   without telling the node, which stays RUNNING; the gateway, its registry empty, answers none of
   its frames. Without a restart the same instance satisfies `KnownAgain`.
4. *A patch of the period ends the measurements* (`ems.py:203`). Every PATCH sends limits of zero;
   the node keeps them and declares them in its next session, and ingest then discards its values as
   out of range.

Ten more statements of documents and comments are false of the code. They have no run of their own; the
definitions stand in the modules, and a run with one in the place of its properties is violated:

* *The I/O thread dies of a NaN* (`IoContinues`, `ingest.py:378`). A measurement that is not a number is neither
  below one limit nor above the other, is bound as NULL into a NOT NULL column (`schema.sql:293`), and the exception
  ends the I/O thread, against "트랜잭션 롤백 + `alert` 기록. I/O 스레드는 계속" (the architecture document, line 607).
* *A recovery that ends one frame short* (`InsertionHarmless`, `repository.py:871`). The total of a page is counted
  before its rows are selected. A frame that had its time stamp when the recovery began and is committed between the
  two stands on top of the last page, the stale total ends the loop (`api.js:66`), and the oldest row has fallen out, against
  "페이지 이동 중 삽입에도 흔들리지 않는다" (`verify.html:313`). That the missing frame is newer than the cursor takes a third frame:
  the run is `event_stream` with `Kinds <- QuietKinds`, `Filters <- JudgeFilters`, `MaxFrames = 3`, `MaxTime = 3`, `MaxLoads = 1`.
* *Premature retransmission* (`RetransmitsWhenDue`, `node_state.c:751`). The declaration that follows
  an approved connection is stamped with a clock newer than the poll's `now` (:774). The unsigned
  difference at :311 wraps, the frame is sent again at once, and a retry is lost, against "Timeout
  만료 시 재전송" (:306).
* *The cursor is given up too early* (`ClearedWhenRepaired`, `verify.html:338`). A recovery that ends after the
  connection broke again clears the cursor that the second outage relies on, against the comment at `verify.html:314`;
  a frame that was stamped before the reconnection and shares the cursor's end is lost in the same way.
* *HALTED is left* (`HaltedIsFinal`, `node_state.c:1033`). A link error in the poll that received
  the final refusal moves HALTED to DISCONNECTED, and the node connects again, which the comment at
  `node_state.c:1002` excludes. None of the boards' reads reports such an error today.
* *Fields behind a fixed part are shown too early* (`SlicesShowEveryFrame`, `api.py:315`). The offsets
  of elements start at bit 96 whether or not RSC or NODE_PROPERTY stand there, and the fixed part itself
  is not shown; `openapi.json` has the offset counted from the head of the frame.
* *Control carried out in part* (`ControlCarriedOut`, `node_state.c:694`). The state gate is evaluated
  per element. A request that begins in FAULT and ends in RUNNING is answered with success
  although its first elements were ignored.
* *Responses are not logged* (`EveryFrameLogged`, `link.py:234`). A response that matches a pending
  request never reaches `on_frame`, against the architecture document.
* *A patch of the range changes the limits of installation* (`InRangeStored` with `Fields` of
  `value` alone, `repository.py:732`). The patched values go into the columns by which ingest discards
  measurements.
* *An older setting over a newer one* (`LastSettingHolds`, `ems.py:131`). A declaration ingested between
  a patch's acknowledgement and its UPDATE is overwritten by the older setting.

Seen while modelling, without a run: `encode_frame` does not look at the number of elements, so that it
encodes none, or seventeen, which no decoder accepts (`codec.py:475`); the virtual node's constant for an
invalid Node ID is 0x02 where the contract has 0x03 (`_wire.py:49`, `frame.py:100`); a violating request gets no error response, because the
codec drops its kind and `reply_kind` has nothing to go by (`codec.py:569`); two late GET /alerts
may each raise the alert that the comment at `fms.py:86` calls unique; two patches of
different fields of one device overwrite each other's field on the node (`ems.py:119`); a node that
accepted its part of a patch keeps it when another node refuses; a new declaration changes limits without a word in the log
(`repository.py:185`); a device refused for its Type is listed by the registry all the same and the
declaration answered with success; rows of devices that are gone stay, and make a patch of their
whole greenhouse fail (`ems.py:102`). On the way to the screen: a frame with the time stamp of the last one sent is not
sent, nor is what is beyond the newest 50 of a round (`api.py:686`); a new connection repeats the last 20 alerts
(`api.py:671`); an execution is sent when its row appears and not again with its result (`api.py:707`); a snapshot that
was read before a frame came removes it from the list until the next one (`verify.html:276`); a detail that comes late
leaves its frame in the index without a place in the list (`verify.html:255`), and later events do not bring it back; when
the chosen node is gone the filter falls back without a new snapshot (`verify.html:351`).

### Bounds

* Node: `IdSpace = 2` is the smallest space in which an answer can carry the identifier of
  the pending frame or another one, and in which identifiers wrap after two frames.
  `MaxTimeout = 1`, one retransmission (and a profile with none) reach first sending,
  retransmission and giving up. `MaxShift = 1` reaches growth and cap of the backoff. One
  device is enough for slot, timers and blame by itself; the proofs cover more. `MaxLag = 1`
  lets the clock move inside a poll; `node_safety` takes 0 to stay small, and the proofs cover
  every `MaxLag`.
* `NodeTx`: a chunk of two units can be cut at its beginning, inside, or not at all; one device
  gives a sequence of two chunks, so that a frame can be cut between chunks too.
* Gateway: one caller with two calls in a row, so that the second meets late answers, and a
  retransmission, of the first. `MaxWire = 1` lets a foreign frame stand before or after an
  answer. Timeouts of 0 and 1 and zero or one retry reach every branch of `expire`. `ShortLimit`
  gives the caller a limit of its own that ends before the retransmissions do. Callers that
  overlap are covered by the proofs.
* Backend: two threads are what a lock, a stale read or a check-then-insert takes. The histories
  name the requests that can disturb each other, at most four each; they are started in order and
  overlap freely. Two devices on two nodes give a patch of several nodes. `MaxFaults = 1` allows
  one retransmission or one restart. With `Retries = 1` a node's silence lasts two ticks;
  `BusyLimit = 2` lets a blocked statement outlast it or not, and `backend_busy` takes 1, since in
  the code 5 s stand against Timeout x (Retry Count + 1) of whatever the profile says.
* Stream: three frames put a valid frame behind a violation, or behind damage, and another
  behind that. A loss, a garbling and a silence are enough to reach each way into and out of
  resynchronisation. The payloads contain the version byte. The last frame is a valid one (`Closing`): nothing is
  behind it that a violation could cost. `MaxBehind = 2` makes chunks end
  inside of headers and payloads.
* Wire: every kind in both modes, with all pairs of faults a decoder looks for, so that the order of the
  checks shows. 17 elements are one more than `MAX_DEVICES_PER_NODE`; two show that the second begins where the
  first ends. The fields hold small different numbers, or as many ones as they may, so that a
  shifted or shortened field shows. Lengths go to 520, which exceeds every frame; the proof covers all.
* Device tables: three builds give one number two different devices, a device without range, an
  actuator, and one that contradicts itself. Three faults are a power-up, and two more power-ups,
  reconnections, repeated requests, lost frames or restarts in any order; one PATCH, of the period, can meet all of
  them, and brings the limits of zero with it (finding 4); a PATCH of the value is left to the proofs. Two levels are in and out of range, and NaN is neither. `AtRestTheyAgree` holds from a full declaration that no
  fault has followed; before that nothing can be promised. The violated run uses the
  settings of one plain sensor, two faults, and no frame that the firmware does not send.
* Session: `MaxLine = 2` frames in flight each way, one restart.
* Event stream: two frames with a page of one give a recovery of two pages, and a commit between the two
  statements of either; with a window of one any second frame is a burst, so that the run of `StreamSkipsOnlyBursts` is
  about the cursor (it must be the time of a frame that was sent), and wider windows are left to the proof; two times let frames share a time stamp or not; two requests under way can answer in either
  order; one fault breaks the connection or fails a request, one click changes the filter or selects.
* The proofs drop all of these bounds for the modules they are about.

All runs but the node's (`node_*`, `tx_window`) switch deadlock checking off: with the
requests made, the frames sent and the faults used up the model stops, because the environment
does (and, in the gateway, because a dead I/O thread is never replaced). The node never stops,
and its runs check deadlock.

### Fairness

* Node: `loop()` calls `siap_node_poll()` for ever and time passes, so the steps of a poll
  are weakly fair. Nothing is assumed of the gateway, of the line, or of the length of the
  backoff. `Reconnect` is not fair, so nothing is claimed about reconnecting in time.
* `NodeTx` has no liveness property, and no fairness.
* Gateway: `FairSpec` assumes that time passes and API threads are scheduled, nothing else.
  `CallsReturn` holds under that alone (F-138: `send` has a deadline over the whole call).
  `EntriesSettle` assumes in its statement that the I/O thread goes round (`IoFairness`):
  `read` has a timeout, `_write` gives up after 50 stalls, `busy_timeout` bounds the
  database. No fairness is assumed of nodes, or of the reading of frames: one read brings
  finitely many.
* Backend: threads are scheduled, time passes, and SQLite's busy handler tries a blocked
  statement again or fails it. Nothing is assumed of nodes, of the line, of clients, or of the I/O
  thread, which may be dead: `CallsEnd` has to hold all the same.
* The event stream has no liveness property, and no fairness.
* Session: the loop runs, the board keeps on connecting, what has arrived is read, and the
  backoff runs out (strong fairness, since polls interrupt it). This is more than is asked
  elsewhere: the property is violated even so.

## 4. Proofs

`NodeProofs` (1358 obligations), `GatewayLinkProofs` (937), `BackendProofs` (2162), `DeviceTablesProofs` (2418),
`WireProofs` (3038), `FrameStreamProofs` (7668) and `EventStreamProofs` (3709), the last three with `SequenceLemmas` (601),
hold for every number of devices, callers, threads, nodes, rules and calls, identifier space, profile set, set of
inbound frames, set of sample frames, layout of messages, number of lost and garbled bytes, set of histories, page size
and stream window that the named assumptions `NodeAssumption`, `LinkAssumption`, `BackendAssumption`,
`CallAssumption`, `TablesAssumption`, `WireAssumption` and the two called `StreamAssumption` allow.
Two theorems of `FrameStreamProofs` have hypotheses on the frames besides, which TLC evaluates for the samples of its run;
`OnlyResetsTear` has one on the chunks (`SomeUnits`: none is empty).

**Node.** `SlotMatchesState` is not inductive. `IInv` adds `TypeOK`, without which a pending
kind need not be one of the six; `SessionSettled`, which says that a running node that is
still declaring holds its declaration in the slot, and that FAULT is entered only after the
declaration's outcome; and `FaultIsBlamed`. Each action has a lemma of its own; `OnEnd` and
`SendNext`, used by several actions, have lemmas once. `NothingDisplaced` and
`TelemetryAfterDeclaration` are action properties, proved step by step from `IInv`.

**Transmitter.** That a frame goes out whole is false (finding 1), and `OnlyResetsTear` says what is
left (`TornByReset`), for any number of devices and any size of a chunk: `Sound` has the window go on where the line stopped and
the sequence where the window ends, whatever each write takes, until something is sent into the middle. So
`_tx_seq_pump` is right, and its callers are not.

**Gateway.** `TableMatchesWaiters` is not inductive: draining a queued request would displace
an entry, or find a result already set, unless the queue holds unsent requests only, each
once (`QueueFresh`, `Numbered`, `Untouched`). `OwnAnswer` rests on `AnswersTrue`: a response
on the line is true. The refinement needs `Counted` (a request was sent at most once more
than its entry was tried again; "at most", because a retransmission whose write raises has
been counted as a try) and `CallersOpen` (no two callers share a request, so that a call
returns once). `LinkKeepsPromise` then maps each step to a step of `RequestReply` or to a
stutter; no refinement mapping is computed, the history variables are the abstract state.
TLC checked both invariants before the proofs.

**Backend.** `Authorised` speaks of requests a node has carried out and is not inductive: the
request was on its way for any length of time, while other threads wrote. `IInv` says that each
request in the queue, on the wire and in a thread's hands is backed by the committed database
(`Requests`, `JobOK`), that an open transaction differs from it in settings and alerts only
(`DraftAgrees`, or its commit would undo an approval), and that answers say what their node did
(`AnswersOK`). Every step keeps what backs a request (`Grows`: rows are only appended, their
command and rule stay, decided rules stay); `BackedGrows` and `JobGrows` carry that over to all
other threads, so that each action has only its own thread to account for. `DecidedOnce` is
`Grows` read as an action property.

`SettingsBacked` compares the database with what each device ever had (`held`). A setting gets
there by way of an open transaction, of a thread whose node has accepted it, or of a
declaration that waits for the lock; `StoreOK`, `LineOK` and `JobSettled` say the same of each of
these places, and `Keeps` what no step takes back. A patch that returns success has asked every
node; `PatchSettled` says that a node not to be asked any more has agreed, or is the one waited
for, and `AllNodesAgreed` is read off from it. `CheckSettled` is the like for the check for late
devices. `TypeOK` holds a claim about the services beside the types: from one step to the next only a
patch that asks its nodes holds the write lock. `Owned` makes it inductive, by adding that the
holder's request is a patch; else it could be an execution that goes on to `finalize`. The types of the rows follow
from the other invariants.

**Device tables.** `ListedIsInstalled` says nothing while a frame is committed and the registry has
not followed. Its invariant (`ListsBacked`) speaks then of the list that is to come: the database
agrees with what `Registered` will make of the frame. `ModelsTrue` and `JobInstalled` (a patch is
about a row that exists, since rows are never deleted) make the rest inductive. `OnlyNaNEnds` is
in the invariant by itself (once dead, the thread keeps the frame it died of) and rests on a lemma (`ValuesRaiseNaN`): the
checks of the frame of values imply every constraint that its inserts could break, except that a number is there at
all. A frame that fails leaves tables, log and registry as they were (`RollBackKeeps`).

`TypeOK` does not see that the kind of a frame decides what its elements are; `TInv` does
(`Whole`, `Patching`), and says of a table which devices it may hold and not only of what. From it
come the checks of the frame, which are then all that ingest relies on.

`AtRestTheyAgree` says nothing while anything is under way, so everything that keeps it is in
`AInv`. While no fault came after the last full declaration (`Settled`), the list *that is to come*
agrees with the node, and so do the rows except for the setting a patch is about to change
(`RowsAgree`, `Asked`). What is on the line tells the same, with that setting only from behind the
answer on (`LineAgrees`, `AfterAnswer`: a declaration the node sent before it took the patch is still
to be read, and the answer is to be read after it). A request or its answer is on the line at most
once and only while it is waited for (`AskedOnce`), else a late answer would let a row be written
over; `AskAgrees`, `AnswerAgrees` and `KeptAgrees` follow the setting from the request to the node,
back and into the row. `Connecting` is outside of `Settled`: a connecting node is in doubt and has
CONNECT last on its line, so that no declaration of the session before can settle anything. A full
declaration taken from the line is where agreement begins anew. `Calm` is what a step adds to the
line without disturbing anything.

**Codes.** `KindsApart` is a matter of arithmetic, not of steps. Requests, responses, notices and the ACK
have codes in ranges of their own, and within a class the code is the place in its table
(`CodesApart`); only the two notices of code 0x0800 meet, and no length is both one byte and a multiple
of seven (`LengthsOfTwins`).

**Bits.** `DecodersAgree` and `SentIsAccepted` are about what the programs write and read bit by bit, and
need the round trip: `GetOfPut` says that a field read where it was put, with any bits before and
behind it, is the value put, for every width. The library's induction theorems take an operator and
cannot be used; `SequenceLemmas` has an induction over a *set* of numbers instead (`Induction`, from
`Smallest`, which is the well-foundedness of `<`), and with it counts concatenations
(`FlattenDefined`, `JoinedLength`, `Flattened`). From there: a record of fields reads back as it was
written (layout), elements one behind the other read back each (body), the header's code and length
give back its kind, or a rejection with the same clause in both decoders (kind), and so both decoders
do the same with the frame. `IInv` says where the bits are from: a header, behind it the body if the frame is
complete, passed by the encoder that wrote it; and what was read is what the decoders make of them.
Nothing is assumed of a sample but its shape (`IsFrame`), so
samples with values that no codec accepts are included. `ShownWhereItIs` takes the fields of a written record
where `FieldsOfPut` finds them, and moves them behind the header and the elements before. It is `SlicesShowFrame` for frames
whose header says what their elements are (`Built`): where it names another kind, bits that are
not zero come to lie where that kind has its reserved ones, and the screen shows those as zero. The samples of the
run have no such frame, others that `WireAssumption` allows do.

**Streaming decoders.** `ChunksDoNotMatter` is about a loop that runs as often as the bytes need, on a
buffer of any length. `RoundTakes` says of one round that does not wait for bytes that it takes some, and does the
same with more bytes behind (`SameVerdict`: a frame that is complete is judged without them). `RoundWaits` says
of one that waits that it may be left out: all it can do is end the resynchronisation, and the round that
is run when more bytes have come ends it too, because the candidate check looks at three bytes that are there.
From these, by induction over the rounds: the loop ends in a state where a round changes nothing (`ExtractRuns`),
its result does not depend on how many rounds are run (`ExtractReaches`), and `FeedingInChunks`: what was extracted
before more bytes came makes no difference. The invariant is then the property itself, with a line that only grows.

The node accepts every header, so that the frames of other nodes are among those that `GapRestores`, `CleanLineDelivers` and
`Recovers` have it read to the end. `GapRestores` speaks of a frame that has arrived. Its invariant says where the decoder is while the frame is
on its way (`Follows`): in the header with the bytes taken, in the fixed part, or in element `i`, which
begins where `i` elements of the layout's size end (`InElement`); `raw` is the frame so far. `FrameAdvances` is one byte of
a sound frame in each of these states. Before the frame, the decoder is in a header and holds nothing
(`Marked`): that is what the exception of the property is for. A lost or garbled byte and a silence
inside a frame need no account of the decoder at all, because they mark the frame as damaged.

`CleanLineDelivers` and `Recovers` compare what a decoder has done with a line on which it may stand anywhere, even inside of
what it takes for a frame, so their invariant cannot speak of the bytes so far alone: it speaks of the line
as it will be when the frame on its way has come (`Course`). `CourseInv` says how such a line is built:
behind the last damage frame follows frame, whole and with its own bytes (`Regular`), and what has come is the
beginning of it (`Placed`). The argument then has one half for both decoders. A `Map` of the line has the
places where frames begin, where each would end, and those that are to be delivered; a decoder has done with the first `q` bytes and,
behind the damage, either is at a beginning or looks for one without having passed one that is to be
delivered (`Reading`). Whatever a decoder does with bytes is one of four moves, a byte skipped in search
(`Skips`), the header of a violation dropped (`Drops`), all that an accepted header announces taken, as a frame or
as none (`Takes`), a header accepted whose frame has yet to come (`Begins`), and each keeps `Reading`. On a clean line that holds from its first byte; behind damage, from where the
false frame that may have been taken ends: at most `MaxTotal` behind it, and a header more until the search has dropped what it
held (`far`). The node's half is `NodeInv`, which is inductive: each byte that `siap_dec_feed` is given
is one of the moves or leaves the decoder where it was (`Moves`), and a silence inside of a frame counts as damage. The gateway's half needs
no invariant of its own: by `ChunksInv` its buffer and output are those of one run of the loop over the bytes fed,
and each `Round` of that run is one of the moves. That nothing else is delivered follows from the other end: each
thing a decoder yields as a frame is valid as it stands (`SoundFrames`, `GwSound`), and so the bytes of a frame that is not valid never
are such a thing.

**Event stream.** `ListHolds` needs to know that the pages under way show a frame once (`PagesOnce`), and
what a query returns: `KeptPicks` says of `Kept` that it picks members in their order and leaves out none
that belongs, `AscendingHolds`, `DescendingHolds` and `QueryHolds` say it of the queries, for every log.
`StreamSkipsOnlyBursts` rests on two facts about the code: one thread takes the time stamp and commits, so
that stamps grow along the log (`Chronological`; with two such threads the property would be false), and
the cursor is the time of a frame the connection was sent, not of the tick (`CursorSent`). What a
tick leaves out then shares that time or stands behind a full page (`LeftOut`). `RecoveryRepairs` needs
`StillToCome`: what a recovery owes has, among the rows its query would return now, a place beyond the offset (`AllToCome`).
A frame committed between two pages goes in front and moves it further back, so that a page may show a
row again but never omits one. A frame committed between count and rows makes the total one too small, and the recovery may
end a row short: `OneSlips` says that there is at most one such frame, the one that had its time stamp before the recovery
began (what is stamped later is behind `until`), so that only the oldest row can be overlooked, and only on the last page. As an action
property it also needs that a call fewer means an end of that call: two recoveries may be equal, and then it makes no
difference which of them ended (`RemovedSame`, `WhoEnds`). `Room` keeps offsets and log in their bounds.

Induction over data is in reach where it is over a set and the step is arithmetic; it is
the RECURSIVE declaration that is not.

Only model-checked: the liveness properties (the prover has no fairness reasoning);
`SlicesShowFrame` of frames whose header names another kind than that of the elements (above); and the violated
statements, that of `Session` among them, which need only a counterexample. `CleanLineDelivers` and `Recovers`
are proved of the frames that their hypotheses admit, and are false of others that `StreamAssumption` allows (section 2).

## 5. Not modelled, and the plan

Done: node state machine with its transmit window; gateway link and the promise it keeps; both
decoders; the services and their transactions; the device tables of node, database and registry,
with what ingest does to them; the session across a restart; the layout of frames, bit by bit; the event stream
and the screen that shows it. Left: a session over a line that loses frames, with the UART boards.

Known and not covered by a property: an answer of the last power cycle may carry an identifier
that the node has just given out again, since identifiers restart at 0 (the model contains it, the
code accepts it); a failing `write_value` is answered with success (`node_state.c:701`); `_recvq`
grows without bound (`link.py:233`); a limit that is declared as NaN is stored as NULL, and means no limit from then
on (`ingest.py:378`); identifiers wrap at 65536 (`build.py:55`).

Left out for good: pins and UART registers of the boards, the other screens, what the simulated nodes and
the replayer do (test doubles that repeat the node's protocol; the frames they build are in `Wire`), public data, reporting queries.
What `src/` holds besides `project_code` is documents, their verification scripts and a second
copy of the program (`최종_제출물_폴더`), which is not modelled again.

## 6. Running

```
tlc -workers 2 -config node_safety.cfg MCNodeState
tlc -workers 2 -config node_live.cfg MCNodeState
tlc -workers 2 -config gateway_link.cfg MCGatewayLink
tlc -workers 2 -config backend_store.cfg MCBackend
tlc -workers 2 -config stream.cfg MCFrameStream
tlc -workers 2 -config wire.cfg MCWire
tlc -workers 2 -config tables.cfg MCDeviceTables
tlc -workers 2 -config session_restart.cfg MCSession
tlc -workers 2 -config event_stream.cfg MCEventStream
tlapm NodeProofs.tla
tlapm GatewayLinkProofs.tla
tlapm BackendProofs.tla
tlapm DeviceTablesProofs.tla
tlapm SequenceLemmas.tla
tlapm WireProofs.tla
tlapm FrameStreamProofs.tla
tlapm EventStreamProofs.tla
```

Definitions whose names begin with `Mut` are faulty variants of the definition that follows
them. Put in its place, each makes one property fail; `PROJECT.json` says which.
