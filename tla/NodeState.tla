------------------------------ MODULE NodeState ------------------------------
(***************************************************************************)
(* The SIAP node of firmware/core/node_state.c: the eight states of the    *)
(* node, the single pending slot with its retransmission timer, the due    *)
(* bits with the rotating cursor, and the four callbacks through which the *)
(* streaming decoder (siap_frame.c) hands over a frame piece by piece.     *)
(*                                                                         *)
(* The firmware is one loop that calls siap_node_poll().  A poll is split  *)
(* here at the points where its environment acts: it reads the clock       *)
(* (PollBegin), takes bytes from the link (RxHeader, RxFixed, RxElement,   *)
(* RxGap, LinkError), looks at the pending slot (PollPending) and at the   *)
(* due sources (PollDue).  A frame may straddle polls, since read_byte     *)
(* returns 0 as soon as the link has nothing more.                         *)
(*                                                                         *)
(* Time: `age' is the true time since the pending frame was last sent and  *)
(* `lag' how far millis() has moved past the value the running poll holds  *)
(* in its local variable `now'.  The periodic deadlines and the backoff    *)
(* deadline expire nondeterministically.                                   *)
(***************************************************************************)
EXTENDS Integers, Sequences, FiniteSets

CONSTANTS
  NumDevices,      \* cfg.device_count (1..16 in the code)
  IdSpace,         \* size of the message identifier space (65536 in the code)
  Profiles,        \* message flow control profiles: [timeout, num_retry]
  DefaultProfile,  \* the profile the node starts with
  MaxTimeout,      \* bound on the timeouts of Profiles (65535 s in the code)
  MaxShift,        \* bound on backoff_shift (255 in the code)
  MaxLag,          \* how far the clock may move while one poll reads bytes
  Frames           \* the frames the gateway may put on the link

Devices  == 1 .. NumDevices
MsgIds   == 0 .. IdSpace - 1

\* Beyond this age a pending frame looks expired from every poll.
AgeCap == MaxTimeout + MaxLag

States == {"BOOT", "CONNECTING", "RUNNING", "FAULT", "REBOOTING",
           "DISCONNECTED", "HALTED"}

Notifies == {"NOTI_DEVICE_VALUE", "NOTI_KEEP_ALIVE", "NOTI_ERROR", "NOTI_REBOOT"}
PendingKinds == Notifies \cup {"REQ_SET_CONNECTION", "REQ_SET_NODE_DEVICE_PROPERTY_ALL"}

\* Response status codes: success, the two the node may retry, the others.
Retryable == {"INVALID_GCG_ID", "INVALID_NODE_ID"}
Refusals  == {"INVALID_FORMAT", "INVALID_DEVICE_ID", "INVALID_DATA_TYPE"}
RSC       == {"SUCCESS"} \cup Retryable \cup Refusals

\* Layout of the inbound kinds: those with a fixed part, those with elements.
WithFixed == {"RES_SET_CONNECTION", "RES_SET_NODE_DEVICE_PROPERTY_ALL",
              "REQ_SET_NODE_PROPERTY", "REQ_SET_NODE_DEVICE_PROPERTY_ALL",
              "REQ_SET_MSG_FLOW_CONTROL_PROFILE"}
WithElements == {"RES_SET_CONNECTION", "REQ_SET_DEVICE_CONTROL",
                 "REQ_SET_DEVICE_PROPERTY", "REQ_SET_NODE_DEVICE_PROPERTY_ALL",
                 "REQ_SET_DEVICE_INIT", "REQ_GET_DEVICE_PROPERTY",
                 "REQ_GET_DEVICE_VALUE"}
\* Requests answered by a RES frame that carries only the status code.
SetRequests == {"REQ_SET_DEVICE_CONTROL", "REQ_SET_DEVICE_INIT",
                "REQ_SET_NODE_PROPERTY", "REQ_SET_DEVICE_PROPERTY",
                "REQ_SET_NODE_DEVICE_PROPERTY_ALL"}
GetRequests == {"REQ_GET_NODE_PROPERTY", "REQ_GET_DEVICE_PROPERTY",
                "REQ_GET_NODE_DEVICE_PROPERTY_ALL",
                "REQ_GET_MSG_FLOW_CONTROL_PROFILE"}
RxKinds == WithFixed \cup WithElements \cup SetRequests \cup GetRequests
           \cup {"ACK", "NOTI_DISCONNECT", "NOTI_REBOOT", "REQ_SET_REBOOT",
                 "REQ_SET_DEVICE_INIT_ALL"}

\* One element: the device it names (0: none of this node's), whether the
\* decoder can decode it, and whether its value type is the device's.
Element == [dev : 0 .. NumDevices, decodes : BOOLEAN, typed : BOOLEAN]

\* fixed_ok is FALSE when the decoder rejects the fixed part (F-126, F-127).
Frame == [kind : RxKinds, msg_id : MsgIds, rsc : RSC, profile : Profiles,
          fixed_ok : BOOLEAN, elems : Seq(Element)]

ASSUME NodeAssumption ==
  /\ NumDevices \in Nat \ {0}
  /\ IdSpace \in Nat \ {0}
  /\ MaxShift \in Nat
  /\ MaxLag \in Nat
  /\ MaxTimeout \in Nat
  /\ Profiles \subseteq [timeout : 0 .. MaxTimeout, num_retry : Nat]
  /\ DefaultProfile \in Profiles
  /\ Frames \subseteq Frame
  /\ \A f \in Frames : f.elems # << >> => f.kind \in WithElements

VARIABLES
  state,          \* siap_node_t.state
  pending,        \* the pending slot: kind, msg_id, retry
  age,            \* millis() - pending.t_sent
  next_msg_id,
  profile,        \* cfg.profile
  backoff_shift,
  due,            \* due bits
  dev_due,        \* devices waiting to be scanned
  cursor,         \* 0 DEVICE_VALUE, 1 KEEP_ALIVE, 2 ERROR
  fault_device,   \* device whose failure put the node in FAULT, 0: none yet
  status,         \* Status of every device
  phase,          \* where the running poll is
  lag,            \* millis() - now
  rx,             \* the frame being received
  session,        \* what became of this session's device declaration (history)
  out             \* the frames this step hands to the encoder

slotVars   == <<pending, age, next_msg_id>>
dueVars    == <<due, dev_due, cursor>>
deviceVars == <<fault_device, status>>
vars == <<state, slotVars, profile, backoff_shift, dueVars, deviceVars,
          phase, lag, rx, session, out>>

NoPending == [kind |-> "NONE", msg_id |-> 0, retry |-> 0]
NoFrame   == [kind |-> "NONE"]

TypeOK ==
  /\ state \in States
  /\ pending \in [kind : PendingKinds \cup {"NONE"}, msg_id : MsgIds, retry : Nat]
  /\ age \in 0 .. AgeCap
  /\ next_msg_id \in MsgIds
  /\ profile \in Profiles
  /\ backoff_shift \in 0 .. MaxShift
  /\ due \subseteq {"VALUE", "KEEP_ALIVE", "ERROR"}
  /\ dev_due \subseteq Devices
  /\ cursor \in 0 .. 2
  /\ fault_device \in 0 .. NumDevices
  /\ status \in [Devices -> {"NORMAL", "ABNORMAL"}]
  /\ phase \in {"idle", "start", "rx", "closed", "due"}
  /\ lag \in 0 .. MaxLag
  /\ \/ rx = NoFrame
     \/ rx \in [kind : {"FRAME"}, f : Frames, fixed : BOOLEAN,
                next : Nat \ {0}, took : SUBSET Nat]
  /\ session \in {"none", "declaring", "declared", "dropped"}

-----------------------------------------------------------------------------
(* siap_node_init(): the board powers up.  The self-test and INIT, which   *)
(* no poll ends in, are part of the first poll.                            *)

Init ==
  /\ state = "BOOT"
  /\ pending = NoPending /\ age = 0 /\ next_msg_id = 0
  /\ profile = DefaultProfile /\ backoff_shift = 0
  /\ due = {} /\ dev_due = {} /\ cursor = 0
  /\ fault_device = 0 /\ status = [d \in Devices |-> "NORMAL"]
  /\ phase = "idle" /\ lag = 0 /\ rx = NoFrame
  /\ session = "none" /\ out = << >>

\* Power is cut and returns, at any point of a poll: the only way out of HALTED.
PowerCycle ==
  /\ state' = "BOOT"
  /\ pending' = NoPending /\ age' = 0 /\ next_msg_id' = 0
  /\ profile' = DefaultProfile /\ backoff_shift' = 0
  /\ due' = {} /\ dev_due' = {} /\ cursor' = 0
  /\ fault_device' = 0 /\ status' = [d \in Devices |-> "NORMAL"]
  /\ phase' = "idle" /\ lag' = 0 /\ rx' = NoFrame
  /\ session' = "none" /\ out' = << >>

-----------------------------------------------------------------------------
(* The pending slot.                                                       *)

Own(kind, id)  == [kind |-> kind, of |-> "NONE", msg_id |-> id, rsc |-> "SUCCESS"]
Reply(f, rsc)  == [kind |-> "RES", of |-> f.kind, msg_id |-> f.msg_id, rsc |-> rsc]
Ack(f)         == [kind |-> "ACK", of |-> f.kind, msg_id |-> f.msg_id, rsc |-> "SUCCESS"]

\* _pending_begin(): the slot is overwritten and the identifier wraps.  `a' is
\* how old the time stamp already is: 0 when on_end reads the clock afresh,
\* `lag' when the poll passes its own `now'.
Begin(kind, a, replies) ==
  /\ pending' = [kind |-> kind, msg_id |-> next_msg_id, retry |-> 0]
  /\ next_msg_id' = (next_msg_id + 1) % IdSpace
  /\ age' = a
  /\ out' = Append(replies, Own(kind, next_msg_id))

\* _pending_clear(): only the kind is reset in the code; the rest of an empty
\* slot is never read again and is given one value here.
Clear == pending' = NoPending /\ age' = 0 /\ UNCHANGED next_msg_id

\* F-046: kind of the awaited frame and identifier must both agree.
Awaits(kind, f) == pending.kind = kind /\ pending.msg_id = f.msg_id

\* F-132: the kinds an ACK may release.
MutAnyKind(kind) == kind # "NONE"
ExpectsAck(kind) == kind \in Notifies

\* The exponent of the backoff saturates (at 255 in the code).
MutUnbounded == backoff_shift + 1
MoreBackoff == IF backoff_shift < MaxShift THEN backoff_shift + 1 ELSE MaxShift

\* What a NOTI_DISCONNECT and a link error have in common.
Disconnect ==
  /\ Clear
  /\ due' = {} /\ dev_due' = {} /\ UNCHANGED cursor
  /\ state' = "DISCONNECTED"
  /\ backoff_shift' = MoreBackoff
  /\ session' = "none"

-----------------------------------------------------------------------------
(* on_end: the frame f is complete, or was rejected with rsc.  st is the   *)
(* device status the elements left, took the elements that were acted on.  *)

\* The (state, frame) pairs that on_end acts on; all others are dropped.
Handled(f) ==
  /\ state # "HALTED"
  /\ CASE f.kind = "RES_SET_CONNECTION" ->
            state = "CONNECTING" /\ Awaits("REQ_SET_CONNECTION", f)
       [] f.kind = "RES_SET_NODE_DEVICE_PROPERTY_ALL" ->
            Awaits("REQ_SET_NODE_DEVICE_PROPERTY_ALL", f)
       [] f.kind = "ACK" -> ExpectsAck(pending.kind) /\ pending.msg_id = f.msg_id
       [] f.kind \in {"NOTI_DISCONNECT", "NOTI_REBOOT"} -> TRUE
       [] OTHER -> state = "RUNNING"

DropFrame(f, st) ==
  /\ ~ Handled(f)
  /\ status' = st /\ out' = << >>
  /\ UNCHANGED <<state, slotVars, profile, backoff_shift, dueVars, session>>

\* RES_SET_CONNECTION: approved, to be retried by the timer, or refused.
ConnectionApproved(f, rsc, st) ==
  /\ Handled(f) /\ f.kind = "RES_SET_CONNECTION" /\ rsc = "SUCCESS"
  /\ state' = "RUNNING" /\ backoff_shift' = 0
  /\ due' = {} /\ dev_due' = {} /\ UNCHANGED cursor
  /\ Begin("REQ_SET_NODE_DEVICE_PROPERTY_ALL", 0, << >>)
  /\ session' = "declaring"
  /\ status' = st /\ UNCHANGED profile

ConnectionPostponed(f, rsc, st) ==
  /\ Handled(f) /\ f.kind = "RES_SET_CONNECTION" /\ rsc \in Retryable
  /\ status' = st /\ out' = << >>
  /\ UNCHANGED <<state, slotVars, profile, backoff_shift, dueVars, session>>

ConnectionRefused(f, rsc, st) ==
  /\ Handled(f) /\ f.kind = "RES_SET_CONNECTION" /\ rsc \in Refusals
  /\ Clear /\ state' = "HALTED"
  /\ status' = st /\ out' = << >>
  /\ UNCHANGED <<profile, backoff_shift, dueVars, session>>

\* RES_SET_NODE_DEVICE_PROPERTY_ALL: the declaration of this session's devices.
\* Only success settles it, any other answer leaves it to the timer.
MutAnyAnswer(rsc) == TRUE
Settles(rsc) == rsc = "SUCCESS"

DeclarationAnswered(f, rsc, st) ==
  /\ Handled(f) /\ f.kind = "RES_SET_NODE_DEVICE_PROPERTY_ALL"
  /\ IF Settles(rsc) THEN Clear ELSE UNCHANGED slotVars
  /\ session' = IF rsc = "SUCCESS" THEN "declared" ELSE session
  /\ status' = st /\ out' = << >>
  /\ UNCHANGED <<state, profile, backoff_shift, dueVars>>

Acknowledged(f, st) ==
  /\ Handled(f) /\ f.kind = "ACK"
  /\ Clear
  /\ state' = IF pending.kind = "NOTI_REBOOT" /\ state = "REBOOTING" THEN "BOOT" ELSE state
  /\ status' = st /\ out' = << >>
  /\ UNCHANGED <<profile, backoff_shift, dueVars, session>>

\* Notifications from the gateway are acknowledged in every state.
DisconnectNotified(f, st) ==
  /\ Handled(f) /\ f.kind = "NOTI_DISCONNECT"
  /\ Disconnect
  /\ status' = st /\ out' = << Ack(f) >>
  /\ UNCHANGED profile

RebootNotified(f, st) ==
  /\ Handled(f) /\ f.kind = "NOTI_REBOOT"
  /\ status' = st /\ out' = << Ack(f) >>
  /\ UNCHANGED <<state, slotVars, profile, backoff_shift, dueVars, session>>

\* REQ_SET_REBOOT: the answer, then NOTI_REBOOT takes the slot, whatever is in it.
RebootRequested(f, st) ==
  /\ Handled(f) /\ f.kind = "REQ_SET_REBOOT"
  /\ state' = "REBOOTING"
  /\ Begin("NOTI_REBOOT", 0, << Reply(f, "SUCCESS") >>)
  /\ status' = st
  /\ UNCHANGED <<profile, backoff_shift, dueVars, session>>

\* The devices the elements in took name, and the status a read may leave them.
Named(f, took) == { f.elems[i].dev : i \in took } \ {0}
Reread(st, ds) == { s \in [Devices -> {"NORMAL", "ABNORMAL"}] :
                      \A d \in Devices \ ds : s[d] = st[d] }

\* All remaining requests, served in RUNNING by one answer.
RequestServed(f, rsc, st, took) ==
  /\ Handled(f)
  /\ LET known == IF took # {} /\ Named(f, took) = {} THEN "INVALID_DEVICE_ID" ELSE "SUCCESS"
     IN \/ /\ f.kind \in SetRequests
           /\ status' = st /\ out' = << Reply(f, rsc) >> /\ UNCHANGED profile
        \/ /\ f.kind \in {"REQ_GET_NODE_PROPERTY", "REQ_GET_NODE_DEVICE_PROPERTY_ALL",
                          "REQ_GET_MSG_FLOW_CONTROL_PROFILE"}
           /\ status' = st /\ out' = << Reply(f, "SUCCESS") >> /\ UNCHANGED profile
        \/ /\ f.kind = "REQ_GET_DEVICE_PROPERTY"
           /\ status' = st /\ out' = << Reply(f, known) >> /\ UNCHANGED profile
        \/ /\ f.kind = "REQ_GET_DEVICE_VALUE"
           /\ status' \in Reread(st, Named(f, took))
           /\ out' = << Reply(f, known) >> /\ UNCHANGED profile
        \/ /\ f.kind = "REQ_SET_DEVICE_INIT_ALL"
           /\ status' \in Reread(st, Devices)
           /\ out' = << Reply(f, "SUCCESS") >> /\ UNCHANGED profile
        \/ /\ f.kind = "REQ_SET_MSG_FLOW_CONTROL_PROFILE"
           /\ profile' = IF rsc = "SUCCESS" THEN f.profile ELSE profile
           /\ status' = st /\ out' = << Reply(f, rsc) >>
  /\ UNCHANGED <<state, slotVars, backoff_shift, dueVars, session>>

OnEnd(f, rsc, st, took) ==
  /\ rx' = NoFrame
  /\ UNCHANGED fault_device
  /\ \/ DropFrame(f, st)
     \/ ConnectionApproved(f, rsc, st)
     \/ ConnectionPostponed(f, rsc, st)
     \/ ConnectionRefused(f, rsc, st)
     \/ DeclarationAnswered(f, rsc, st)
     \/ Acknowledged(f, st)
     \/ DisconnectNotified(f, st)
     \/ RebootNotified(f, st)
     \/ RebootRequested(f, st)
     \/ RequestServed(f, rsc, st, took)

-----------------------------------------------------------------------------
(* Reception inside a poll: one action per callback of the decoder.        *)

Reading == phase \in {"start", "rx"}

\* A frame is taken up.  Without payload it is complete at once (on_header,
\* on_end); otherwise its first piece is awaited.
RxHeader(f) ==
  /\ Reading /\ rx = NoFrame
  /\ phase' = "rx"
  /\ IF f.kind \in WithFixed \/ f.elems # << >>
     THEN /\ rx' = [kind |-> "FRAME", f |-> f, fixed |-> f.kind \notin WithFixed,
                    next |-> 1, took |-> {}]
          /\ out' = << >>
          /\ UNCHANGED <<state, slotVars, profile, backoff_shift, dueVars, deviceVars, session>>
     ELSE OnEnd(f, "SUCCESS", status, {})
  /\ UNCHANGED lag

\* on_fixed: only an answer to the pending request passes its status code on.
FixedRsc(f) ==
  IF ~ f.fixed_ok THEN "INVALID_FORMAT"
  ELSE IF \/ /\ f.kind = "RES_SET_CONNECTION"
             /\ state = "CONNECTING" /\ Awaits("REQ_SET_CONNECTION", f)
          \/ /\ f.kind = "RES_SET_NODE_DEVICE_PROPERTY_ALL"
             /\ Awaits("REQ_SET_NODE_DEVICE_PROPERTY_ALL", f)
  THEN f.rsc ELSE "SUCCESS"

\* The fixed part is complete: after a refusal the elements are drained.
RxFixed ==
  /\ Reading /\ rx # NoFrame /\ ~ rx.fixed
  /\ phase' = "rx"
  /\ IF FixedRsc(rx.f) = "SUCCESS" /\ rx.f.elems # << >>
     THEN /\ rx' = [rx EXCEPT !.fixed = TRUE]
          /\ out' = << >>
          /\ UNCHANGED <<state, slotVars, profile, backoff_shift, dueVars, deviceVars, session>>
     ELSE OnEnd(rx.f, FixedRsc(rx.f), status, {})
  /\ UNCHANGED lag

\* The state in which on_element acts on the elements of a kind.
MutNoStateGate(kind) == TRUE
ElementGate(kind) ==
  IF kind = "RES_SET_CONNECTION" THEN state = "CONNECTING" ELSE state = "RUNNING"

\* on_element: a decoding error counts in every state, the node's own checks
\* only where the state gate is open.
ElementRsc(kind, e) ==
  CASE ~ e.decodes -> "INVALID_DATA_TYPE"
    [] /\ e.decodes /\ ElementGate(kind) /\ e.dev = 0
       /\ kind \in SetRequests -> "INVALID_DEVICE_ID"
    [] /\ e.decodes /\ ElementGate(kind) /\ e.dev # 0 /\ ~ e.typed
       /\ kind = "REQ_SET_DEVICE_CONTROL" -> "INVALID_DATA_TYPE"
    [] OTHER -> "SUCCESS"

\* The kinds whose elements overwrite a device's properties or re-read it.
TouchesStatus == {"RES_SET_CONNECTION", "REQ_SET_DEVICE_PROPERTY",
                  "REQ_SET_NODE_DEVICE_PROPERTY_ALL", "REQ_SET_DEVICE_INIT"}

\* One element, applied as soon as it is complete (REQ_SET_DEVICE_CONTROL
\* moves the actuator here); the last one, or a rejected one, ends the frame.
RxElement ==
  /\ Reading /\ rx # NoFrame /\ rx.fixed
  /\ phase' = "rx"
  /\ LET f    == rx.f
         e    == f.elems[rx.next]
         rsc  == ElementRsc(f.kind, e)
         acts == rsc = "SUCCESS" /\ ElementGate(f.kind)
         took == IF acts THEN rx.took \cup {rx.next} ELSE rx.took
     IN \E st \in IF acts /\ f.kind \in TouchesStatus THEN Reread(status, {e.dev} \ {0})
                                                     ELSE {status} :
          IF rsc = "SUCCESS" /\ rx.next < Len(f.elems)
          THEN /\ rx' = [rx EXCEPT !.next = @ + 1, !.took = took]
               /\ status' = st /\ out' = << >>
               /\ UNCHANGED <<state, slotVars, profile, backoff_shift, dueVars,
                              fault_device, session>>
          ELSE OnEnd(f, rsc, st, took)
  /\ UNCHANGED lag

\* 20 ms without a byte (SIAP_T_GAP_MS): the partial frame is given up, no
\* on_end follows.
RxGap ==
  /\ phase = "start" /\ rx # NoFrame
  /\ phase' = "closed" /\ rx' = NoFrame /\ out' = << >>
  /\ UNCHANGED <<state, slotVars, profile, backoff_shift, dueVars, deviceVars, lag, session>>

\* read_byte returns -1: reading stops, and the node leaves whatever state it
\* is in, except DISCONNECTED.
LinkError ==
  /\ Reading
  /\ phase' = "closed"
  /\ rx' \in IF phase = "start" THEN {rx, NoFrame} ELSE {rx}
  /\ out' = << >>
  /\ IF state # "DISCONNECTED"
     THEN Disconnect
     ELSE UNCHANGED <<state, slotVars, backoff_shift, dueVars, session>>
  /\ UNCHANGED <<profile, deviceVars, lag>>

-----------------------------------------------------------------------------
(* The rest of siap_node_poll().                                           *)

\* The clock is read.  A HALTED node only throws bytes away: no step of its own.
PollBegin ==
  /\ phase = "idle" /\ state # "HALTED"
  /\ phase' = "start" /\ lag' = 0
  /\ IF state = "BOOT"
     THEN /\ status' \in Reread(status, Devices)     \* _boot_self_check
          /\ state' = "CONNECTING"
          /\ Begin("REQ_SET_CONNECTION", 0, << >>)
     ELSE out' = << >> /\ UNCHANGED <<status, state, slotVars>>
  /\ UNCHANGED <<profile, backoff_shift, dueVars, fault_device, rx, session>>

\* (uint32_t)(now - t_sent) >= timeout, where a time stamp later than `now'
\* wraps around to a huge age.
Expired == age < lag \/ age - lag >= profile.timeout

Retransmit ==
  /\ pending' = [pending EXCEPT !.retry = @ + 1]
  /\ age' = lag
  /\ out' = << Own(pending.kind, pending.msg_id) >>
  /\ UNCHANGED <<next_msg_id, state, backoff_shift, session>>

\* The last retransmission went unanswered: what that means depends on the state.
MutDropSilently ==
  /\ Clear /\ out' = << >>
  /\ UNCHANGED <<state, backoff_shift, session>>
GiveUp ==
  /\ Clear /\ out' = << >>
  /\ \/ /\ state = "CONNECTING"
        /\ state' = "DISCONNECTED" /\ backoff_shift' = MoreBackoff
     \/ /\ state = "REBOOTING"
        /\ state' = "BOOT" /\ UNCHANGED backoff_shift
     \/ /\ state \notin {"CONNECTING", "REBOOTING"}
        /\ UNCHANGED <<state, backoff_shift>>
  /\ session' = IF pending.kind = "REQ_SET_NODE_DEVICE_PROPERTY_ALL" THEN "dropped" ELSE session

\* _pending_tick()
PollPending ==
  /\ phase \in {"start", "rx", "closed"}
  /\ phase' = "due"
  /\ IF pending.kind = "NONE" \/ ~ Expired
     THEN out' = << >> /\ UNCHANGED <<slotVars, state, backoff_shift, session>>
     ELSE IF pending.retry < profile.num_retry THEN Retransmit ELSE GiveUp
  /\ UNCHANGED <<profile, dueVars, deviceVars, lag, rx>>

-----------------------------------------------------------------------------
(* The due sources: _due_tick() and _due_send_next().                      *)

Source == [i \in 0 .. 2 |-> CASE i = 0 -> "VALUE" [] i = 1 -> "KEEP_ALIVE" [] i = 2 -> "ERROR"]

\* The source the cursor reaches k places on, and where it is left after k tries.
Rotate(k) == (cursor + k) % 3
MutFixedPriority(k) == 0
NextCursor(k) == Rotate(k)

\* Only an empty slot may be filled (one frame awaits its answer at a time).
MutSlotIgnored == TRUE
SlotFree == pending.kind = "NONE"

\* The k-th source looked at, counted from the cursor.
Turn(k) == Source[Rotate(k)]

\* Whether a due source sends (or settles) something when its turn comes.  A
\* quiet scan, every device readable and in range, does not.
Effective(s, d, quiet) ==
  /\ s \in d
  /\ CASE s = "VALUE"      -> state = "RUNNING" /\ ~ quiet
       [] s = "KEEP_ALIVE" -> state = "RUNNING"
       [] s = "ERROR"      -> state = "FAULT"

\* Up to three sources are looked at and the first effective one, the k-th, is
\* served.  k = 3 stands for none.
Serves(k, d, quiet) ==
  /\ \A j \in 0 .. 2 : j < k => ~ Effective(Turn(j), d, quiet)
  /\ k < 3 => Effective(Turn(k), d, quiet)

\* Whether the devices are scanned on the way to the k-th source.
Scans(k, d) ==
  "VALUE" \in d /\ state = "RUNNING" /\ \E j \in 0 .. 2 : j <= k /\ Turn(j) = "VALUE"

\* The scan of the due devices dd: `bad' is the first that cannot be read (0:
\* none); devices behind it stay due.
Scanned(dd, bad)  == { i \in dd : bad = 0 \/ i <= bad }
AfterScan(dd, bad) ==
  [i \in Devices |-> IF i \notin Scanned(dd, bad) THEN status[i]
                     ELSE IF i = bad THEN "ABNORMAL" ELSE "NORMAL"]
ScanLeaves(k, d, dd, bad) == IF Scans(k, d) THEN dd \ Scanned(dd, bad) ELSE dd
DueAfterScan(k, d, dd, bad) ==
  IF Scans(k, d) /\ ScanLeaves(k, d, dd, bad) = {} THEN d \ {"VALUE"} ELSE d
ScanStatus(k, d, dd, bad) == IF Scans(k, d) THEN AfterScan(dd, bad) ELSE status

\* A device that cannot be read puts the node in FAULT ...
SendFault(k, d, dd, bad) ==
  /\ Turn(k) = "VALUE" /\ bad # 0
  /\ state' = "FAULT" /\ fault_device' = bad
  /\ Begin("NOTI_ERROR", lag, << >>)
  /\ due' = DueAfterScan(k, d, dd, bad)
  /\ status' = ScanStatus(k, d, dd, bad)

\* ... otherwise what the scan found to be sent is sent.
SendValue(k, d, dd, bad) ==
  /\ Turn(k) = "VALUE" /\ bad = 0
  /\ Begin("NOTI_DEVICE_VALUE", lag, << >>)
  /\ due' = DueAfterScan(k, d, dd, bad)
  /\ status' = ScanStatus(k, d, dd, bad)
  /\ UNCHANGED <<state, fault_device>>

SendKeepAlive(k, d, dd, bad) ==
  /\ Turn(k) = "KEEP_ALIVE"
  /\ Begin("NOTI_KEEP_ALIVE", lag, << >>)
  /\ due' = DueAfterScan(k, d, dd, bad) \ {"KEEP_ALIVE"}
  /\ status' = ScanStatus(k, d, dd, bad)
  /\ UNCHANGED <<state, fault_device>>

\* In FAULT the blamed device is read again: recovered, or reported again.
Recover(k, d) ==
  /\ Turn(k) = "ERROR"
  /\ state' = "RUNNING" /\ out' = << >>
  /\ status' = [status EXCEPT ![fault_device] = "NORMAL"]
  /\ due' = d \ {"ERROR"}
  /\ UNCHANGED <<slotVars, fault_device>>

SendErrorAgain(k, d) ==
  /\ Turn(k) = "ERROR"
  /\ Begin("NOTI_ERROR", lag, << >>)
  /\ due' = d \ {"ERROR"}
  /\ UNCHANGED <<state, deviceVars>>

SendNothing(k, d, dd, bad) ==
  /\ due' = DueAfterScan(k, d, dd, bad)
  /\ status' = ScanStatus(k, d, dd, bad)
  /\ out' = << >>
  /\ UNCHANGED <<state, slotVars, fault_device>>

\* d and dd are the sources and the devices due; the scan may find any of the
\* devices unreadable, or any out of range.
SendNext(d, dd) ==
  \E bad \in {0} \cup (IF "VALUE" \in d /\ state = "RUNNING" THEN dd ELSE {}),
     inRange \in BOOLEAN, k \in 0 .. 3 :
    /\ Serves(k, d, bad = 0 /\ inRange)
    /\ dev_due' = ScanLeaves(k, d, dd, bad)
    /\ cursor' = NextCursor(IF k = 3 THEN 3 ELSE k + 1)
    /\ \/ /\ k < 3
          /\ \/ SendFault(k, d, dd, bad) \/ SendValue(k, d, dd, bad)
             \/ SendKeepAlive(k, d, dd, bad) \/ Recover(k, d) \/ SendErrorAgain(k, d)
       \/ k = 3 /\ SendNothing(k, d, dd, bad)

\* RUNNING and FAULT: deadlines that have passed set their due bits; one source
\* is served if the slot is empty.
PollDue ==
  /\ phase = "due" /\ state \in {"RUNNING", "FAULT"}
  /\ phase' = "idle" /\ lag' = 0
  /\ \E devs \in SUBSET Devices, timers \in SUBSET {"KEEP_ALIVE", "ERROR"} :
       LET dd == dev_due \cup devs
           d  == due \cup timers \cup (IF dd # {} THEN {"VALUE"} ELSE {})
       IN IF SlotFree
          THEN SendNext(d, dd)
          ELSE /\ due' = d /\ dev_due' = dd /\ out' = << >>
               /\ UNCHANGED <<state, slotVars, cursor, deviceVars>>
  /\ UNCHANGED <<profile, backoff_shift, rx, session>>

\* DISCONNECTED: the backoff has run out, a new connection is requested.
Reconnect ==
  /\ phase = "due" /\ state = "DISCONNECTED"
  /\ phase' = "idle" /\ lag' = 0
  /\ state' = "CONNECTING"
  /\ Begin("REQ_SET_CONNECTION", lag, << >>)
  /\ UNCHANGED <<profile, backoff_shift, dueVars, deviceVars, rx, session>>

\* Any other state, or a backoff that still runs: the poll returns.
PollEnd ==
  /\ phase = "due" /\ state \notin {"RUNNING", "FAULT"}
  /\ phase' = "idle" /\ lag' = 0 /\ out' = << >>
  /\ UNCHANGED <<state, slotVars, profile, backoff_shift, dueVars, deviceVars, rx, session>>

\* A unit of time passes, between polls or while one is reading.
Tick ==
  /\ phase # "idle" => lag < MaxLag
  /\ lag' = IF phase = "idle" THEN 0 ELSE lag + 1
  /\ age' = IF pending.kind = "NONE" \/ age = AgeCap THEN age ELSE age + 1
  /\ out' = << >>
  /\ UNCHANGED <<state, pending, next_msg_id, profile, backoff_shift, dueVars,
                 deviceVars, phase, rx, session>>

Poll ==
  \/ PollBegin \/ RxGap \/ RxFixed \/ RxElement \/ PollPending
  \/ PollDue \/ Reconnect \/ PollEnd

Environment ==
  \/ \E f \in Frames : RxHeader(f)
  \/ LinkError \/ Tick \/ PowerCycle

Next == Poll \/ Environment

Spec == Init /\ [][Next]_vars

\* loop() calls siap_node_poll() for ever and time passes.  Each step of a poll
\* happens in the end: the loop outruns the link (9600 baud), so the bytes one
\* poll finds are finitely many.  Nothing is assumed of the gateway, of what the
\* link delivers, or of the backoff's length.
Fairness ==
  /\ WF_vars(PollBegin) /\ WF_vars(PollPending)
  /\ WF_vars(PollDue) /\ WF_vars(PollEnd)
  /\ WF_vars(Tick)
FairSpec == Init /\ [][Next]_vars /\ Fairness

-----------------------------------------------------------------------------
(* Properties.                                                             *)

\* The slot and the state agree: CONNECTING and REBOOTING, which only an
\* answer or the retransmission timer ends, always have the request that the
\* answer belongs to in the slot, and no other state keeps one of these.  This
\* is what F-132 lost: an ACK with the identifier of a pending connection
\* request emptied the slot and left the node in CONNECTING for good.
SlotMatchesState ==
  /\ state = "CONNECTING" <=> pending.kind = "REQ_SET_CONNECTION"
  /\ state = "REBOOTING" <=> pending.kind = "NOTI_REBOOT"
  /\ pending.kind = "NOTI_ERROR" => state = "FAULT"
  /\ pending.kind \in {"NOTI_DEVICE_VALUE", "NOTI_KEEP_ALIVE",
                       "REQ_SET_NODE_DEVICE_PROPERTY_ALL"} => state = "RUNNING"

\* As long as the node is in FAULT, the device it blames is marked ABNORMAL:
\* no request or stale answer that overwrites device properties meanwhile, and
\* no piece of one that began in another state, makes the node report health.
FaultIsBlamed ==
  state = "FAULT" => fault_device # 0 /\ status[fault_device] = "ABNORMAL"

\* "동시 대기 1건": what awaits an answer leaves the slot by being answered, given
\* up or disconnected; only the start of a session (the declaration follows the
\* approved request) and a commanded reboot put another frame in its place.
Displaces ==
  /\ pending.kind # "NONE" /\ pending'.kind # "NONE"
  /\ <<pending'.kind, pending'.msg_id>> # <<pending.kind, pending.msg_id>>
RightToDisplace ==
  \/ pending'.kind = "NOTI_REBOOT" /\ state = "RUNNING"
  \/ /\ pending.kind = "REQ_SET_CONNECTION"
     /\ pending'.kind = "REQ_SET_NODE_DEVICE_PROPERTY_ALL"
NothingDisplaced == [][ Displaces => RightToDisplace ]_vars

\* Telemetry of a session never precedes the outcome of its device declaration
\* (F-198): when a NOTI_DEVICE_VALUE is sent, the gateway has confirmed the
\* declaration or the node has spent all its retransmissions on it.
SendsTelemetry == \E i \in DOMAIN out' : out'[i].kind = "NOTI_DEVICE_VALUE"
TelemetryAfterDeclaration ==
  [][ SendsTelemetry => session \in {"declared", "dropped"} ]_vars

\* A pending frame is sent again only when its timeout has really run out:
\* "Timeout 만료 시 재전송" (_pending_tick).
RetransmitsWhenDue ==
  [][ pending'.kind = pending.kind /\ pending'.retry > pending.retry
      => age >= profile.timeout ]_vars

\* HALTED is left by a power cycle only: "전원 재인가로만 벗어난다" (F-076).
HaltedIsFinal ==
  [][ state = "HALTED" /\ state' # "HALTED" => state' = "BOOT" ]_vars

\* An answer that reports success for REQ_SET_DEVICE_CONTROL vouches for every
\* element of the frame: a frame is carried out whole or dropped whole.
ControlCarriedOut ==
  [][ \A i \in DOMAIN out' :
        /\ out'[i].of = "REQ_SET_DEVICE_CONTROL" /\ out'[i].rsc = "SUCCESS"
        => rx.took \cup {rx.next} = DOMAIN rx.f.elems ]_vars

\* The node is never stuck waiting for an answer, whatever the gateway does.
WaitingEnds ==
  /\ state = "CONNECTING" ~> state # "CONNECTING"
  /\ state = "REBOOTING" ~> state # "REBOOTING"

\* F-077: a keep-alive that is due is sent, even though device values fall due
\* faster than they can be sent, unless the node leaves RUNNING first.
KeepAliveNotStarved ==
  state = "RUNNING" /\ "KEEP_ALIVE" \in due ~> "KEEP_ALIVE" \notin due \/ state # "RUNNING"

-----------------------------------------------------------------------------
(* The inductive invariant behind the safety properties.                   *)

\* A session's declaration sits in the slot until its outcome is known.
SessionSettled ==
  /\ state \in {"RUNNING", "FAULT"} => session # "none"
  /\ state = "RUNNING" /\ session = "declaring"
       => pending.kind = "REQ_SET_NODE_DEVICE_PROPERTY_ALL"
  /\ state = "FAULT" => session \in {"declared", "dropped"}

IInv == TypeOK /\ SlotMatchesState /\ SessionSettled /\ FaultIsBlamed

=============================================================================
