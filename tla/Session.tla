------------------------------- MODULE Session -------------------------------
(***************************************************************************)
(* One node and one gateway: NodeState behind the TCP transport of the     *)
(* ESP32 board (firmware/esp32_node), and the gateway's session table      *)
(* (siap/registry.py) behind its default replies (siap/link.py).           *)
(*                                                                         *)
(* The board hides the state of its connection: while there is none,       *)
(* read_byte and write return 0, which the node takes for a quiet line.    *)
(* The gateway keeps its sessions in memory only, and answers a frame of a *)
(* node it does not know with nothing at all.                              *)
(*                                                                         *)
(* What listens on the other side of the board's connection is not part of *)
(* the repository: it is taken to hand bytes on in order, and to be gone   *)
(* together with the gateway.                                              *)
(***************************************************************************)
EXTENDS NodeState

CONSTANTS
  MaxLine,      \* bound on the frames in flight in each direction
  MaxRestarts,  \* bound on the restarts of the gateway
  MaxBreaks     \* bound on the breaks of the connection and the resets of the board

VARIABLES
  tcp,      \* g_client.connected()
  up,       \* frames to the gateway; without a connection, the transmit window
  down,     \* frames to the node
  known,    \* the registry holds the node
  listed,   \* ... and the devices it declared
  restarts, breaks

gatewayVars == <<known, listed>>
lineVars    == <<tcp, up, down>>
counters    == <<restarts, breaks>>
sessionVars == <<vars, lineVars, gatewayVars, counters>>

-----------------------------------------------------------------------------
(* The node behind board_tcp_read_byte and board_tcp_write.                *)

\* Without a connection a frame stays in the window, until the next one
\* overwrites it (siap_tx_reset).
Written ==
  up' = IF tcp THEN up \o out' ELSE IF out' = << >> THEN up ELSE << out'[Len(out')] >>

\* read_byte never returns -1: LinkError is not among the steps.  Gateway and
\* line are prompt: no time passes while a frame waits to be read.
NodeRuns ==
  /\ Poll \/ (Tick /\ (tcp => up \o down = << >>))
  /\ Written /\ Len(up') <= MaxLine
  /\ UNCHANGED <<tcp, down, gatewayVars, counters>>

NodeReads ==
  /\ tcp /\ down # << >> /\ RxHeader(Head(down))
  /\ down' = Tail(down)
  /\ Written /\ Len(up') <= MaxLine
  /\ UNCHANGED <<tcp, gatewayVars, counters>>

\* board_ensure_connected
BoardConnects ==
  /\ ~tcp /\ tcp' = TRUE
  /\ UNCHANGED <<vars, up, down, gatewayVars, counters>>

Broken == tcp' = FALSE /\ up' = << >> /\ down' = << >>

\* The connection breaks, alone or because the board is reset.
ConnectionBreaks ==
  /\ breaks < MaxBreaks /\ breaks' = breaks + 1
  /\ PowerCycle \/ (tcp /\ UNCHANGED vars)
  /\ Broken
  /\ UNCHANGED <<gatewayVars, restarts>>

-----------------------------------------------------------------------------
(* The gateway.                                                            *)

\* The answer to a frame without violations; success is all there is.
AnswerKind(f) ==
  CASE f.kind = "REQ_SET_CONNECTION" -> "RES_SET_CONNECTION"
    [] f.kind = "REQ_SET_NODE_DEVICE_PROPERTY_ALL" -> "RES_SET_NODE_DEVICE_PROPERTY_ALL"
    [] OTHER -> "ACK"
AnswerTo(f) ==
  [kind |-> AnswerKind(f), msg_id |-> f.msg_id, rsc |-> "SUCCESS",
   profile |-> DefaultProfile, fixed_ok |-> TRUE, elems |-> << >>]

\* A connection request starts a session without devices (register), the
\* declaration names them; anything of an unknown node is a violation whose
\* kind is lost, so that it is not answered.
GatewayHandles ==
  /\ tcp /\ up # << >> /\ Len(down) < MaxLine
  /\ up' = Tail(up)
  /\ LET f == Head(up) accepted == known \/ f.kind = "REQ_SET_CONNECTION" IN
       /\ down' = IF accepted THEN Append(down, AnswerTo(f)) ELSE down
       /\ known' = accepted
       /\ listed' = IF f.kind = "REQ_SET_CONNECTION" THEN FALSE
                    ELSE listed \/ (known /\ f.kind = "REQ_SET_NODE_DEVICE_PROPERTY_ALL")
  /\ UNCHANGED <<vars, tcp, counters>>

\* The process ends and starts again, with an empty registry.
GatewayRestarts ==
  /\ restarts < MaxRestarts /\ restarts' = restarts + 1
  /\ known' = FALSE /\ listed' = FALSE
  /\ Broken
  /\ UNCHANGED <<vars, breaks>>

-----------------------------------------------------------------------------

SessionInit ==
  /\ Init
  /\ tcp = FALSE /\ up = << >> /\ down = << >>
  /\ known = FALSE /\ listed = FALSE
  /\ restarts = 0 /\ breaks = 0

SessionNext ==
  \/ NodeRuns \/ NodeReads \/ BoardConnects \/ ConnectionBreaks
  \/ GatewayHandles \/ GatewayRestarts

\* The loop of the node runs, time passes and the backoff runs out; what has
\* arrived is read in the end, by node and gateway, and the board keeps on
\* connecting.
SessionFairness ==
  /\ WF_sessionVars(NodeRuns /\ PollBegin)
  /\ WF_sessionVars(NodeRuns /\ (PollPending \/ PollDue \/ PollEnd))
  /\ SF_sessionVars(NodeRuns /\ Reconnect) /\ SF_sessionVars(NodeRuns /\ Tick)
  /\ SF_sessionVars(NodeReads) /\ SF_sessionVars(NodeRuns /\ RxFixed)
  /\ WF_sessionVars(BoardConnects) /\ WF_sessionVars(GatewayHandles)

SessionSpec == SessionInit /\ [][SessionNext]_sessionVars /\ SessionFairness

-----------------------------------------------------------------------------
(* Properties.                                                             *)

\* A node the gateway does not know comes to be known: when the connection is
\* lost the node goes through DISCONNECTED and the backoff to CONNECTING
\* ("TCP 끊김 → DISCONNECTED → 백오프 → CONNECTING"), and is registered again.
KnownAgain == ~known ~> known
=============================================================================
