---------------------------- MODULE NodeProofs ------------------------------
(***************************************************************************)
(* The safety properties of NodeState, for any number of devices, any      *)
(* identifier space, any profiles and any frames the gateway may send.     *)
(*                                                                         *)
(* SlotMatchesState alone is not inductive: the declaration that follows   *)
(* an approved connection is typed by the kinds of TypeOK, FAULT is        *)
(* entered only from an empty slot, and TelemetryAfterDeclaration needs to *)
(* know that a session which is still declaring keeps its declaration in   *)
(* the slot.  IInv is their conjunction; both action properties follow     *)
(* from it one step at a time.                                             *)
(*                                                                         *)
(* Behind it, what NodeTx promises of the line, for any number of devices, *)
(* any size of a chunk and any write of a board.                           *)
(*                                                                         *)
(* The invariant (Sound) says that line, window and sequence hold one      *)
(* frame after the other without a gap: the window goes on where the line  *)
(* stopped, the sequence where the window ends.  It holds until something  *)
(* is sent in the middle of a frame (`cut').  While the window is being    *)
(* emptied it may be empty before the sequence is (Joined).                *)
(***************************************************************************)
EXTENDS NodeTx, TLAPS

USE NodeAssumption

SlotTyped ==
  /\ pending \in [kind : PendingKinds \cup {"NONE"}, msg_id : MsgIds, retry : Nat]
  /\ age \in 0 .. AgeCap
  /\ next_msg_id \in MsgIds

Statuses == [Devices -> {"NORMAL", "ABNORMAL"}]

RxTyped ==
  \/ rx = NoFrame
  \/ rx \in [kind : {"FRAME"}, f : Frames, fixed : BOOLEAN,
             next : Nat \ {0}, took : SUBSET Nat]

\* The bounds on time are natural numbers (AgeCap, the range of age and lag).
LEMMA Bounds ==
  /\ AgeCap \in Nat /\ MaxLag \in 0 .. AgeCap /\ 0 \in 0 .. AgeCap
  /\ 0 .. MaxLag \subseteq 0 .. AgeCap
  /\ 0 \in MsgIds
BY DEF AgeCap, MsgIds

\* The next identifier is an identifier again: it wraps at the end (_next_msg_id).
LEMMA NextIdTyped == \A i \in MsgIds : (i + 1) % IdSpace \in MsgIds
BY DEF MsgIds

\* Filling the slot keeps it well typed (_pending_begin).
LEMMA BeginTyped ==
  ASSUME TypeOK, NEW kind \in PendingKinds, NEW a \in 0 .. AgeCap, NEW replies,
         Begin(kind, a, replies)
  PROVE  SlotTyped'
BY NextIdTyped DEF Begin, TypeOK, SlotTyped

\* Emptying the slot keeps it well typed (_pending_clear).
LEMMA ClearTyped == ASSUME TypeOK, Clear PROVE SlotTyped'
BY Bounds DEF Clear, TypeOK, SlotTyped, NoPending

\* A device status that was read again is a device status.
LEMMA RereadTyped ==
  ASSUME NEW st \in Statuses, NEW ds, NEW s \in Reread(st, ds)
  PROVE  s \in Statuses
BY DEF Reread, Statuses

\* The backoff exponent stays within its bound (_backoff_ms).
LEMMA BackoffTyped == ASSUME TypeOK PROVE MoreBackoff \in 0 .. MaxShift
BY DEF TypeOK, MoreBackoff

\* What on_end leaves behind, apart from the bookkeeping of the poll.
EndTyped ==
  /\ state \in States
  /\ SlotTyped
  /\ profile \in Profiles
  /\ backoff_shift \in 0 .. MaxShift
  /\ due \subseteq {"VALUE", "KEEP_ALIVE", "ERROR"}
  /\ dev_due \subseteq Devices
  /\ cursor \in 0 .. 2
  /\ fault_device \in 0 .. NumDevices
  /\ status \in Statuses
  /\ RxTyped
  /\ session \in {"none", "declaring", "declared", "dropped"}

\* on_end leaves a well typed node, whatever the frame and its outcome.
LEMMA OnEndTyped ==
  ASSUME TypeOK, NEW f \in Frames, NEW rsc \in RSC, NEW st \in Statuses, NEW took,
         OnEnd(f, rsc, st, took)
  PROVE  EndTyped'
<1> f \in Frame  OBVIOUS
<1>1. rx' = NoFrame /\ fault_device' = fault_device
  BY DEF OnEnd
<1>2. CASE DropFrame(f, st)
  BY <1>1, <1>2 DEF DropFrame, TypeOK, EndTyped, SlotTyped, RxTyped, slotVars, dueVars
<1>3. CASE ConnectionApproved(f, rsc, st)
  <2>1. SlotTyped'
    BY <1>3, Bounds, BeginTyped DEF ConnectionApproved, PendingKinds
  <2> QED
    BY <1>1, <1>3, <2>1 DEF ConnectionApproved, TypeOK, EndTyped, RxTyped, States
<1>4. CASE ConnectionPostponed(f, rsc, st)
  BY <1>1, <1>4 DEF ConnectionPostponed, TypeOK, EndTyped, SlotTyped, RxTyped, slotVars, dueVars
<1>5. CASE ConnectionRefused(f, rsc, st)
  <2>1. SlotTyped'
    BY <1>5, ClearTyped DEF ConnectionRefused
  <2> QED
    BY <1>1, <1>5, <2>1 DEF ConnectionRefused, TypeOK, EndTyped, RxTyped, States, dueVars
<1>6. CASE DeclarationAnswered(f, rsc, st)
  <2>1. SlotTyped'
    BY <1>6, ClearTyped DEF DeclarationAnswered, TypeOK, SlotTyped, slotVars
  <2> QED
    BY <1>1, <1>6, <2>1 DEF DeclarationAnswered, TypeOK, EndTyped, RxTyped, dueVars
<1>7. CASE Acknowledged(f, st)
  <2>1. SlotTyped'
    BY <1>7, ClearTyped DEF Acknowledged
  <2> QED
    BY <1>1, <1>7, <2>1 DEF Acknowledged, TypeOK, EndTyped, RxTyped, States, dueVars
<1>8. CASE DisconnectNotified(f, st)
  <2>1. SlotTyped'
    BY <1>8, ClearTyped DEF DisconnectNotified, Disconnect
  <2>2. backoff_shift' \in 0 .. MaxShift
    BY <1>8, BackoffTyped DEF DisconnectNotified, Disconnect
  <2> QED
    BY <1>1, <1>8, <2>1, <2>2
    DEF DisconnectNotified, Disconnect, TypeOK, EndTyped, RxTyped, States
<1>9. CASE RebootNotified(f, st)
  BY <1>1, <1>9 DEF RebootNotified, TypeOK, EndTyped, SlotTyped, RxTyped, slotVars, dueVars
<1>10. CASE RebootRequested(f, st)
  <2>1. SlotTyped'
    BY <1>10, Bounds, BeginTyped DEF RebootRequested, PendingKinds, Notifies
  <2> QED
    BY <1>1, <1>10, <2>1 DEF RebootRequested, TypeOK, EndTyped, RxTyped, States, dueVars
<1>11. CASE RequestServed(f, rsc, st, took)
  <2>1. status' \in Statuses
    BY <1>11, RereadTyped DEF RequestServed
  <2>2. profile' \in Profiles
    BY <1>11 DEF RequestServed, TypeOK, Frame
  <2> QED
    BY <1>1, <1>11, <2>1, <2>2
    DEF RequestServed, TypeOK, EndTyped, SlotTyped, RxTyped, slotVars, dueVars
<1> QED
  BY <1>2, <1>3, <1>4, <1>5, <1>6, <1>7, <1>8, <1>9, <1>10, <1>11 DEF OnEnd

\* TypeOK, regrouped: what on_end touches and the bookkeeping of the poll.
LEMMA TypeParts ==
  /\ EndTyped'
  /\ phase' \in {"idle", "start", "rx", "closed", "due"}
  /\ lag' \in 0 .. MaxLag
  => TypeOK'
BY DEF TypeOK, EndTyped, SlotTyped, RxTyped, Statuses

\* The board powers up well typed (siap_node_init).
LEMMA TypeInit == Init => TypeOK
BY Bounds DEF Init, TypeOK, States, NoPending, Devices

\* Reception keeps the node well typed, callback by callback.
LEMMA TypeRx ==
  ASSUME TypeOK,
         \/ \E f \in Frames : RxHeader(f)
         \/ RxFixed \/ RxElement \/ RxGap \/ LinkError
  PROVE  TypeOK'
<1> USE TypeParts
<1>a. status \in Statuses
  BY DEF TypeOK, Statuses
<1>b. ASSUME rx # NoFrame PROVE rx.f \in Frames /\ rx.f \in Frame
  BY <1>b DEF TypeOK
<1>1. ASSUME NEW f \in Frames, RxHeader(f) PROVE TypeOK'
  <2>1. CASE OnEnd(f, "SUCCESS", status, {})
    <3>1. EndTyped'
      BY <1>a, <2>1, OnEndTyped DEF RSC
    <3> QED
      BY <1>1, <3>1 DEF RxHeader, TypeOK
  <2>2. CASE ~ OnEnd(f, "SUCCESS", status, {})
    <3>1. /\ rx' = [kind |-> "FRAME", f |-> f, fixed |-> f.kind \notin WithFixed,
                    next |-> 1, took |-> {}]
          /\ UNCHANGED <<state, slotVars, profile, backoff_shift, dueVars, deviceVars, session>>
          /\ phase' = "rx" /\ lag' = lag
      BY <1>1, <2>2 DEF RxHeader
    <3>2. RxTyped'
      BY <3>1 DEF RxTyped
    <3> QED
      BY <3>1, <3>2, <1>a DEF TypeOK, EndTyped, SlotTyped, slotVars, dueVars, deviceVars
  <2> QED
    BY <2>1, <2>2
<1>2. CASE RxFixed
  <2>1. FixedRsc(rx.f) \in RSC
    BY <1>2, <1>b DEF RxFixed, FixedRsc, RSC, Refusals, Frame
  <2>2. CASE OnEnd(rx.f, FixedRsc(rx.f), status, {})
    <3>1. EndTyped'
      BY <1>2, <1>a, <1>b, <2>1, <2>2, OnEndTyped DEF RxFixed
    <3> QED
      BY <1>2, <3>1 DEF RxFixed, TypeOK
  <2>3. CASE ~ OnEnd(rx.f, FixedRsc(rx.f), status, {})
    BY <1>2, <2>3, ZenonT(40)
    DEF RxFixed, TypeOK, EndTyped, SlotTyped, RxTyped, slotVars, dueVars, deviceVars
  <2> QED
    BY <2>2, <2>3
<1>3. CASE RxElement
  <2> DEFINE f    == rx.f
             e    == f.elems[rx.next]
             rsc  == ElementRsc(f.kind, e)
             acts == rsc = "SUCCESS" /\ ElementGate(f.kind)
             took == IF acts THEN rx.took \cup {rx.next} ELSE rx.took
  <2>1. PICK st \in IF acts /\ f.kind \in TouchesStatus THEN Reread(status, {e.dev} \ {0})
                                                         ELSE {status} :
          IF rsc = "SUCCESS" /\ rx.next < Len(f.elems)
          THEN /\ rx' = [rx EXCEPT !.next = @ + 1, !.took = took]
               /\ status' = st /\ out' = << >>
               /\ UNCHANGED <<state, slotVars, profile, backoff_shift, dueVars,
                              fault_device, session>>
          ELSE OnEnd(f, rsc, st, took)
    BY <1>3 DEF RxElement
  <2>2. st \in Statuses
    BY <1>a, <2>1, RereadTyped
  <2>3. rsc \in RSC
    BY DEF ElementRsc, RSC, Refusals
  <2>4. CASE OnEnd(f, rsc, st, took)
    <3>1. EndTyped'
      BY <1>3, <1>b, <2>2, <2>3, <2>4, OnEndTyped, SMTT(30) DEF RxElement
    <3> QED
      BY <1>3, <3>1 DEF RxElement, TypeOK
  <2>5. CASE ~ OnEnd(f, rsc, st, took)
    <3>1. /\ rx' = [rx EXCEPT !.next = @ + 1, !.took = took]
          /\ status' = st
          /\ UNCHANGED <<state, slotVars, profile, backoff_shift, dueVars,
                         fault_device, session>>
      BY <2>1, <2>5
    <3>2. rx \in [kind : {"FRAME"}, f : Frames, fixed : BOOLEAN,
                  next : Nat \ {0}, took : SUBSET Nat]
      BY <1>3 DEF RxElement, TypeOK
    <3>3. rx.next + 1 \in Nat \ {0} /\ took \in SUBSET Nat
      BY <3>2
    <3>4. RxTyped'
      BY <3>1, <3>2, <3>3 DEF RxTyped
    <3> QED
      BY <1>3, <2>2, <3>1, <3>4
      DEF RxElement, TypeOK, EndTyped, SlotTyped, slotVars, dueVars
  <2> QED
    BY <2>4, <2>5
<1>4. CASE RxGap
  BY <1>4 DEF RxGap, TypeOK, EndTyped, SlotTyped, RxTyped, slotVars, dueVars, deviceVars
<1>5. CASE LinkError
  <2>1. SlotTyped'
    BY <1>5, ClearTyped DEF LinkError, Disconnect, TypeOK, SlotTyped, slotVars
  <2>2. backoff_shift' \in 0 .. MaxShift
    BY <1>5, BackoffTyped DEF LinkError, Disconnect, TypeOK
  <2>3. RxTyped'
    BY <1>5 DEF LinkError, TypeOK, RxTyped
  <2> QED
    BY <1>5, <1>a, <2>1, <2>2, <2>3
    DEF LinkError, Disconnect, TypeOK, EndTyped, States, dueVars, deviceVars
<1> QED
  BY <1>1, <1>2, <1>3, <1>4, <1>5

\* The scan of the due devices leaves a status for every device, and the
\* devices still waiting are devices (_due_send_next, SIAP_DUE_DEVICE_VALUE).
LEMMA ScanTyped ==
  ASSUME TypeOK, NEW d, NEW dd \in SUBSET Devices, NEW bad, NEW k
  PROVE  /\ ScanStatus(k, d, dd, bad) \in Statuses
         /\ ScanLeaves(k, d, dd, bad) \subseteq Devices
         /\ DueAfterScan(k, d, dd, bad) \subseteq d
BY DEF TypeOK, AfterScan, ScanStatus, ScanLeaves, DueAfterScan, Statuses

\* Serving a due source keeps the node well typed, whichever source it is.
LEMMA SendNextTyped ==
  ASSUME TypeOK, NEW d \in SUBSET {"VALUE", "KEEP_ALIVE", "ERROR"},
         NEW dd \in SUBSET Devices, SendNext(d, dd)
  PROVE  /\ state' \in States /\ SlotTyped'
         /\ due' \subseteq {"VALUE", "KEEP_ALIVE", "ERROR"}
         /\ dev_due' \subseteq Devices /\ cursor' \in 0 .. 2
         /\ fault_device' \in 0 .. NumDevices /\ status' \in Statuses
<1> USE DEF PendingKinds, Notifies, States
<1>1. PICK bad \in {0} \cup (IF "VALUE" \in d /\ state = "RUNNING" THEN dd ELSE {}),
           inRange \in BOOLEAN, k \in 0 .. 3 :
        /\ dev_due' = ScanLeaves(k, d, dd, bad)
        /\ cursor' = NextCursor(IF k = 3 THEN 3 ELSE k + 1)
        /\ \/ SendFault(k, d, dd, bad) \/ SendValue(k, d, dd, bad)
           \/ SendKeepAlive(k, d, dd, bad) \/ Recover(k, d) \/ SendErrorAgain(k, d)
           \/ SendNothing(k, d, dd, bad)
  BY ZenonT(40) DEF SendNext
<1>2. bad \in 0 .. NumDevices
  BY DEF Devices
<1>3. dev_due' \subseteq Devices
  BY <1>1, ScanTyped
<1>4. cursor' \in 0 .. 2
  BY <1>1 DEF NextCursor, Rotate, TypeOK
<1>5. lag \in 0 .. AgeCap
  BY Bounds DEF TypeOK
<1>6. CASE SendFault(k, d, dd, bad)
  BY <1>2, <1>3, <1>4, <1>5, <1>6, BeginTyped, ScanTyped DEF SendFault
<1>7. CASE SendValue(k, d, dd, bad)
  BY <1>3, <1>4, <1>5, <1>7, BeginTyped, ScanTyped DEF SendValue, TypeOK
<1>8. CASE SendKeepAlive(k, d, dd, bad)
  BY <1>3, <1>4, <1>5, <1>8, BeginTyped, ScanTyped DEF SendKeepAlive, TypeOK
<1>9. CASE Recover(k, d)
  BY <1>3, <1>4, <1>9 DEF Recover, TypeOK, SlotTyped, Statuses, slotVars
<1>10. CASE SendErrorAgain(k, d)
  BY <1>3, <1>4, <1>5, <1>10, BeginTyped DEF SendErrorAgain, TypeOK, Statuses, deviceVars
<1>11. CASE SendNothing(k, d, dd, bad)
  BY <1>3, <1>4, <1>11, ScanTyped DEF SendNothing, TypeOK, SlotTyped, slotVars
<1> QED
  BY <1>1, <1>6, <1>7, <1>8, <1>9, <1>10, <1>11

\* The steps of a poll other than reception, the clock and the power switch.
LEMMA TypeStep ==
  ASSUME TypeOK,
         \/ PollBegin \/ PollPending \/ PollDue \/ Reconnect \/ PollEnd
         \/ Tick \/ PowerCycle
  PROVE  TypeOK'
<1> USE TypeParts
<1>a. status \in Statuses
  BY DEF TypeOK, Statuses
<1>1. CASE PollBegin
  <2>1. SlotTyped'
    BY <1>1, Bounds, BeginTyped DEF PollBegin, PendingKinds, TypeOK, SlotTyped, slotVars
  <2>2. status' \in Statuses
    BY <1>1, <1>a, RereadTyped DEF PollBegin
  <2> QED
    BY <1>1, <2>1, <2>2 DEF PollBegin, TypeOK, EndTyped, RxTyped, States, dueVars
<1>2. CASE PollPending
  <2>1. CASE Retransmit
    <3>a. lag \in 0 .. AgeCap
      BY Bounds DEF TypeOK
    <3>b. pending' \in [kind : PendingKinds \cup {"NONE"}, msg_id : MsgIds, retry : Nat]
      BY <2>1, SMTT(30) DEF Retransmit, TypeOK
    <3>1. SlotTyped'
      BY <2>1, <3>a, <3>b DEF Retransmit, TypeOK, SlotTyped
    <3> QED
      BY <1>2, <1>a, <2>1, <3>1
      DEF PollPending, Retransmit, TypeOK, EndTyped, RxTyped, dueVars, deviceVars
  <2>2. CASE GiveUp
    <3>1. SlotTyped'
      BY <2>2, ClearTyped DEF GiveUp
    <3>2. backoff_shift' \in 0 .. MaxShift
      BY <2>2, BackoffTyped DEF GiveUp, TypeOK
    <3>3. state' \in States /\ session' \in {"none", "declaring", "declared", "dropped"}
      BY <2>2 DEF GiveUp, TypeOK, States
    <3> QED
      BY <1>2, <1>a, <3>1, <3>2, <3>3
      DEF PollPending, TypeOK, EndTyped, RxTyped, dueVars, deviceVars
  <2>3. CASE UNCHANGED <<slotVars, state, backoff_shift, session>>
    BY <1>2, <1>a, <2>3
    DEF PollPending, TypeOK, EndTyped, SlotTyped, RxTyped, slotVars, dueVars, deviceVars
  <2> QED
    BY <1>2, <2>1, <2>2, <2>3 DEF PollPending
<1>3. CASE PollDue
  <2>1. PICK devs \in SUBSET Devices, timers \in SUBSET {"KEEP_ALIVE", "ERROR"} :
          LET dd == dev_due \cup devs
              d  == due \cup timers \cup (IF dd # {} THEN {"VALUE"} ELSE {})
          IN IF SlotFree
             THEN SendNext(d, dd)
             ELSE /\ due' = d /\ dev_due' = dd /\ out' = << >>
                  /\ UNCHANGED <<state, slotVars, cursor, deviceVars>>
    BY <1>3 DEF PollDue
  <2> DEFINE dd == dev_due \cup devs
             d  == due \cup timers \cup (IF dd # {} THEN {"VALUE"} ELSE {})
  <2>2. dd \in SUBSET Devices /\ d \in SUBSET {"VALUE", "KEEP_ALIVE", "ERROR"}
    BY DEF TypeOK
  <2>3. CASE SendNext(d, dd)
    <3> HIDE DEF d, dd
    <3>1. /\ state' \in States /\ SlotTyped'
          /\ due' \subseteq {"VALUE", "KEEP_ALIVE", "ERROR"}
          /\ dev_due' \subseteq Devices /\ cursor' \in 0 .. 2
          /\ fault_device' \in 0 .. NumDevices /\ status' \in Statuses
      BY <2>2, <2>3, SendNextTyped
    <3> QED
      BY <1>3, <3>1 DEF PollDue, TypeOK, EndTyped, RxTyped
  <2>4. CASE ~ SendNext(d, dd)
    <3>1. due' = d /\ dev_due' = dd /\ UNCHANGED <<state, slotVars, cursor, deviceVars>>
      BY <2>1, <2>4
    <3> HIDE DEF d, dd
    <3> QED
      BY <1>3, <1>a, <2>2, <3>1
      DEF PollDue, TypeOK, EndTyped, SlotTyped, RxTyped, slotVars, deviceVars
  <2> QED
    BY <2>3, <2>4
<1>4. CASE Reconnect
  <2>1. SlotTyped'
    BY <1>4, Bounds, BeginTyped DEF Reconnect, PendingKinds, TypeOK
  <2> QED
    BY <1>4, <1>a, <2>1, SMTT(30)
    DEF Reconnect, TypeOK, EndTyped, RxTyped, States, dueVars, deviceVars
<1>5. CASE PollEnd
  BY <1>5, <1>a DEF PollEnd, TypeOK, EndTyped, SlotTyped, RxTyped, slotVars, dueVars, deviceVars
<1>6. CASE Tick
  <2>1. age' \in 0 .. AgeCap
    BY <1>6, Bounds, SMTT(30) DEF Tick, TypeOK
  <2>2. lag' \in 0 .. MaxLag
    BY <1>6 DEF Tick, TypeOK
  <2> QED
    BY <1>6, <1>a, <2>1, <2>2
    DEF Tick, TypeOK, EndTyped, SlotTyped, RxTyped, dueVars, deviceVars
<1>7. CASE PowerCycle
  BY <1>7, Bounds
  DEF PowerCycle, TypeOK, EndTyped, SlotTyped, RxTyped, States, NoPending, Statuses
<1> QED
  BY <1>1, <1>2, <1>3, <1>4, <1>5, <1>6, <1>7

\* Every step keeps the node well typed.
LEMMA TypeNext == TypeOK /\ [Next]_vars => TypeOK'
<1> SUFFICES ASSUME TypeOK, [Next]_vars PROVE TypeOK'
  OBVIOUS
<1>1. CASE Next
  BY <1>1, TypeRx, TypeStep DEF Next, Poll, Environment
<1>2. CASE UNCHANGED vars
  BY <1>2 DEF vars, TypeOK, slotVars, dueVars, deviceVars
<1> QED
  BY <1>1, <1>2

\* The type invariant of the node, for every value of the constants.
THEOREM TypeCorrect == Spec => []TypeOK
BY TypeInit, TypeNext, PTL DEF Spec

-----------------------------------------------------------------------------
(* The slot, the state and the session.                                    *)

SlotInv == SlotMatchesState /\ SessionSettled

\* Only an answer to the pending frame itself, or a request that RUNNING serves,
\* makes on_end act (F-046, F-132).
LEMMA HandledMeans ==
  ASSUME NEW f, Handled(f)
  PROVE  /\ f.kind = "RES_SET_CONNECTION"
              => state = "CONNECTING" /\ pending.kind = "REQ_SET_CONNECTION"
         /\ f.kind = "RES_SET_NODE_DEVICE_PROPERTY_ALL"
              => pending.kind = "REQ_SET_NODE_DEVICE_PROPERTY_ALL"
         /\ f.kind = "ACK" => pending.kind \in Notifies
         /\ f.kind = "REQ_SET_REBOOT" => state = "RUNNING"
BY DEF Handled, Awaits, ExpectsAck

\* on_end keeps the slot, the state and the session in step.
LEMMA OnEndSlot ==
  ASSUME TypeOK, SlotInv, NEW f, NEW rsc, NEW st, NEW took, OnEnd(f, rsc, st, took)
  PROVE  SlotInv'
<1> USE DEF SlotInv, SlotMatchesState, SessionSettled
<1>1. CASE \/ DropFrame(f, st) \/ ConnectionPostponed(f, rsc, st)
           \/ RebootNotified(f, st) \/ RequestServed(f, rsc, st, took)
  BY <1>1 DEF DropFrame, ConnectionPostponed, RebootNotified, RequestServed, slotVars
<1>2. CASE ConnectionApproved(f, rsc, st)
  BY <1>2 DEF ConnectionApproved, Begin
<1>3. CASE ConnectionRefused(f, rsc, st)
  BY <1>3 DEF ConnectionRefused, Clear, NoPending
<1>4. CASE DeclarationAnswered(f, rsc, st)
  BY <1>4, HandledMeans DEF DeclarationAnswered, Settles, Clear, NoPending, slotVars
<1>5. CASE Acknowledged(f, st)
  BY <1>5, HandledMeans DEF Acknowledged, Notifies, Clear, NoPending
<1>6. CASE DisconnectNotified(f, st)
  BY <1>6 DEF DisconnectNotified, Disconnect, Clear, NoPending
<1>7. CASE RebootRequested(f, st)
  BY <1>7 DEF RebootRequested, Begin
<1> QED
  BY <1>1, <1>2, <1>3, <1>4, <1>5, <1>6, <1>7 DEF OnEnd

\* A due source fills an empty slot with what its state may wait for.
LEMMA SendNextSlot ==
  ASSUME TypeOK, SlotInv, SlotFree, state \in {"RUNNING", "FAULT"},
         NEW d, NEW dd, SendNext(d, dd), UNCHANGED session
  PROVE  SlotInv'
<1> USE DEF SlotInv, SlotMatchesState, SessionSettled, SlotFree
<1>a. session \in {"none", "declaring", "declared", "dropped"}
  BY DEF TypeOK
<1>1. PICK bad \in {0} \cup (IF "VALUE" \in d /\ state = "RUNNING" THEN dd ELSE {}),
           inRange \in BOOLEAN, k \in 0 .. 3 :
        /\ Serves(k, d, bad = 0 /\ inRange)
        /\ \/ /\ k < 3
              /\ \/ SendFault(k, d, dd, bad) \/ SendValue(k, d, dd, bad)
                 \/ SendKeepAlive(k, d, dd, bad) \/ Recover(k, d) \/ SendErrorAgain(k, d)
           \/ k = 3 /\ SendNothing(k, d, dd, bad)
  BY DEF SendNext
<1>2. CASE k = 3 /\ SendNothing(k, d, dd, bad)
  BY <1>a, <1>2 DEF SendNothing, slotVars
<1>3. CASE k < 3
  <2>1. Effective(Turn(k), d, bad = 0 /\ inRange)
    BY <1>1, <1>3 DEF Serves
  <2>2. CASE SendFault(k, d, dd, bad) \/ SendValue(k, d, dd, bad)
    <3>1. state = "RUNNING"
      BY <2>1, <2>2 DEF SendFault, SendValue, Effective
    <3> QED
      BY <1>a, <2>2, <3>1 DEF SendFault, SendValue, Begin
  <2>3. CASE SendKeepAlive(k, d, dd, bad)
    <3>1. state = "RUNNING"
      BY <2>1, <2>3 DEF SendKeepAlive, Effective
    <3> QED
      BY <1>a, <2>3, <3>1 DEF SendKeepAlive, Begin
  <2>4. CASE Recover(k, d) \/ SendErrorAgain(k, d)
    <3>1. state = "FAULT"
      BY <2>1, <2>4 DEF Recover, SendErrorAgain, Effective
    <3> QED
      BY <1>a, <2>4, <3>1 DEF Recover, SendErrorAgain, Begin, slotVars
  <2> QED
    BY <1>1, <1>3, <2>2, <2>3, <2>4
<1> QED
  BY <1>1, <1>2, <1>3

\* Every step keeps the slot, the state and the session in step.
LEMMA SlotNext == TypeOK /\ SlotInv /\ [Next]_vars => SlotInv'
<1> SUFFICES ASSUME TypeOK, SlotInv, [Next]_vars PROVE SlotInv'
  OBVIOUS
<1> USE DEF SlotInv, SlotMatchesState, SessionSettled
<1>1. CASE UNCHANGED <<state, pending, session>>
  BY <1>1
<1>2. ASSUME NEW f, RxHeader(f) PROVE SlotInv'
  BY <1>1, <1>2, OnEndSlot DEF RxHeader, slotVars
<1>3. CASE RxFixed
  BY <1>1, <1>3, OnEndSlot DEF RxFixed, slotVars
<1>4. CASE RxElement
  <2>1. \/ UNCHANGED <<state, pending, session>>
        \/ \E f, rsc, st, took : OnEnd(f, rsc, st, took)
    BY <1>4 DEF RxElement, slotVars
  <2> QED
    BY <1>1, <2>1, OnEndSlot
<1>5. CASE LinkError
  BY <1>1, <1>5 DEF LinkError, Disconnect, Clear, NoPending, slotVars
<1>6. CASE PollBegin
  BY <1>6 DEF PollBegin, Begin, slotVars
<1>7. CASE PollPending
  <2>1. CASE Retransmit
    BY <2>1 DEF Retransmit, TypeOK
  <2>2. CASE GiveUp /\ pending.kind # "NONE"
    BY <2>2 DEF GiveUp, Clear, NoPending
  <2> QED
    BY <1>1, <1>7, <2>1, <2>2 DEF PollPending, slotVars
<1>8. CASE PollDue
  BY <1>1, <1>8, SendNextSlot DEF PollDue, slotVars
<1>9. CASE Reconnect
  BY <1>9 DEF Reconnect, Begin
<1>10. CASE PowerCycle
  BY <1>10 DEF PowerCycle, NoPending
<1>11. CASE RxGap \/ PollEnd \/ Tick \/ UNCHANGED vars
  BY <1>1, <1>11 DEF RxGap, PollEnd, Tick, vars, slotVars
<1> QED
  BY <1>2, <1>3, <1>4, <1>5, <1>6, <1>7, <1>8, <1>9, <1>10, <1>11
  DEF Next, Poll, Environment

-----------------------------------------------------------------------------
(* The blamed device.                                                      *)

\* on_end never enters FAULT, and touches device statuses only where it acts.
LEMMA OnEndBlame ==
  ASSUME NEW f, NEW rsc, NEW st, NEW took, OnEnd(f, rsc, st, took), state' = "FAULT"
  PROVE  state = "FAULT" /\ fault_device' = fault_device /\ status' = st
<1>1. fault_device' = fault_device
  BY DEF OnEnd
<1>2. ~ RequestServed(f, rsc, st, took) \/ state = "RUNNING"
  BY DEF RequestServed, Handled, SetRequests
<1>3. RequestServed(f, rsc, st, took) => state' = state
  BY DEF RequestServed
<1>4. CASE DropFrame(f, st) \/ ConnectionPostponed(f, rsc, st) \/ RebootNotified(f, st)
  BY <1>1, <1>4 DEF DropFrame, ConnectionPostponed, RebootNotified
<1>5. CASE DeclarationAnswered(f, rsc, st) \/ Acknowledged(f, st)
  BY <1>1, <1>5 DEF DeclarationAnswered, Acknowledged
<1>6. CASE \/ ConnectionApproved(f, rsc, st) \/ ConnectionRefused(f, rsc, st)
           \/ DisconnectNotified(f, st) \/ RebootRequested(f, st)
  BY <1>6 DEF ConnectionApproved, ConnectionRefused, DisconnectNotified, Disconnect,
              RebootRequested
<1> QED
  BY <1>2, <1>3, <1>4, <1>5, <1>6 DEF OnEnd

\* FAULT is entered by the scan that marks its device; it is kept with that mark.
LEMMA SendNextBlame ==
  ASSUME TypeOK, FaultIsBlamed, NEW d, NEW dd \in SUBSET Devices, SendNext(d, dd)
  PROVE  FaultIsBlamed'
<1> USE DEF FaultIsBlamed
<1>1. PICK bad \in {0} \cup (IF "VALUE" \in d /\ state = "RUNNING" THEN dd ELSE {}),
           inRange \in BOOLEAN, k \in 0 .. 3 :
        /\ Serves(k, d, bad = 0 /\ inRange)
        /\ \/ /\ k < 3
              /\ \/ SendFault(k, d, dd, bad) \/ SendValue(k, d, dd, bad)
                 \/ SendKeepAlive(k, d, dd, bad) \/ Recover(k, d) \/ SendErrorAgain(k, d)
           \/ k = 3 /\ SendNothing(k, d, dd, bad)
  BY DEF SendNext
<1>2. CASE k < 3 /\ SendFault(k, d, dd, bad)
  <2>1. bad \in dd /\ bad \in Devices /\ bad # 0
    BY <1>2 DEF SendFault
  <2>2. Effective("VALUE", d, bad = 0 /\ inRange)
    BY <1>1, <1>2 DEF Serves, SendFault
  <2>3. "VALUE" \in d /\ state = "RUNNING"
    BY <2>2 DEF Effective
  <2>4. Scans(k, d)
    BY <1>2, <2>3 DEF Scans, SendFault
  <2>5. bad \in Scanned(dd, bad)
    BY <2>1 DEF Scanned, Devices
  <2> QED
    BY <1>2, <2>1, <2>4, <2>5 DEF SendFault, ScanStatus, AfterScan
<1>3. CASE \/ k < 3 /\ (SendValue(k, d, dd, bad) \/ SendKeepAlive(k, d, dd, bad))
           \/ k = 3 /\ SendNothing(k, d, dd, bad)
  <2>1. state' = state /\ fault_device' = fault_device
        /\ status' = ScanStatus(k, d, dd, bad)
    BY <1>3 DEF SendValue, SendKeepAlive, SendNothing
  <2> QED
    BY <2>1 DEF ScanStatus, Scans
<1>4. CASE Recover(k, d) \/ SendErrorAgain(k, d)
  BY <1>4 DEF Recover, SendErrorAgain, deviceVars
<1> QED
  BY <1>1, <1>2, <1>3, <1>4

\* Every step keeps the blamed device marked.
LEMMA BlameNext == TypeOK /\ FaultIsBlamed /\ [Next]_vars => FaultIsBlamed'
<1> SUFFICES ASSUME TypeOK, FaultIsBlamed, [Next]_vars PROVE FaultIsBlamed'
  OBVIOUS
<1> USE DEF FaultIsBlamed
<1>1. CASE UNCHANGED <<state, deviceVars>>
  BY <1>1 DEF deviceVars
<1>2. CASE state' # "FAULT"
  BY <1>2
<1>3. ASSUME NEW f, RxHeader(f) PROVE FaultIsBlamed'
  BY <1>1, <1>3, OnEndBlame DEF RxHeader
<1>4. CASE RxFixed
  BY <1>1, <1>4, OnEndBlame DEF RxFixed
<1>5. CASE RxElement
  <2> DEFINE f    == rx.f
             e    == f.elems[rx.next]
             rsc  == ElementRsc(f.kind, e)
             acts == rsc = "SUCCESS" /\ ElementGate(f.kind)
             took == IF acts THEN rx.took \cup {rx.next} ELSE rx.took
  <2>1. PICK st \in IF acts /\ f.kind \in TouchesStatus THEN Reread(status, {e.dev} \ {0})
                                                         ELSE {status} :
          \/ status' = st /\ UNCHANGED <<state, fault_device>>
          \/ OnEnd(f, rsc, st, took)
    BY <1>5 DEF RxElement
  <2>2. state = "FAULT" => st = status
    BY <2>1 DEF ElementGate
  <2> HIDE DEF f, rsc, took
  <2> QED
    BY <2>1, <2>2, OnEndBlame
<1>6. CASE LinkError
  BY <1>1, <1>2, <1>6 DEF LinkError, Disconnect
<1>7. CASE PollBegin
  BY <1>1, <1>2, <1>7 DEF PollBegin, deviceVars
<1>8. CASE PollPending
  BY <1>1, <1>2, <1>8 DEF PollPending, Retransmit, GiveUp
<1>9. CASE PollDue
  <2>1. \/ UNCHANGED <<state, deviceVars>>
        \/ \E d : \E dd \in SUBSET Devices : SendNext(d, dd)
    BY <1>9 DEF PollDue, TypeOK
  <2> QED
    BY <1>1, <2>1, SendNextBlame
<1>10. CASE Reconnect \/ PowerCycle
  BY <1>2, <1>10 DEF Reconnect, PowerCycle
<1>11. CASE RxGap \/ PollEnd \/ Tick \/ UNCHANGED vars
  BY <1>1, <1>11 DEF RxGap, PollEnd, Tick, vars, deviceVars
<1> QED
  BY <1>3, <1>4, <1>5, <1>6, <1>7, <1>8, <1>9, <1>10, <1>11 DEF Next, Poll, Environment

-----------------------------------------------------------------------------
(* The theorems.                                                           *)

\* The inductive invariant holds in every reachable state.
LEMMA Invariant == Spec => []IInv
<1>1. Init => IInv
  BY TypeInit DEF Init, IInv, SlotMatchesState, SessionSettled, FaultIsBlamed, NoPending
<1>2. IInv /\ [Next]_vars => IInv'
  BY TypeNext, SlotNext, BlameNext DEF IInv, SlotInv
<1> QED
  BY <1>1, <1>2, PTL DEF Spec

\* CONNECTING and REBOOTING always have in the slot what ends them (F-132).
THEOREM SlotCorrect == Spec => []SlotMatchesState
BY Invariant, PTL DEF IInv

\* A node in FAULT never reports the device it blames as healthy.
THEOREM BlameCorrect == Spec => []FaultIsBlamed
BY Invariant, PTL DEF IInv

\* An empty slot comes with every state but those that wait for an answer.
LEMMA EmptySlot ==
  ASSUME IInv, state \in {"BOOT", "DISCONNECTED", "HALTED"}
  PROVE  pending.kind = "NONE"
BY DEF IInv, TypeOK, SlotMatchesState, PendingKinds, Notifies

\* What a due source may do: nothing is sent unless the slot is empty.
LEMMA PollDueSlot ==
  ASSUME PollDue, pending.kind # "NONE"
  PROVE  pending' = pending /\ out' = << >>
BY DEF PollDue, SlotFree, slotVars

\* A frame that awaits its answer is displaced by the declaration that follows
\* an approved connection or by a commanded reboot, and by nothing else.
THEOREM SlotKept == Spec => NothingDisplaced
<1>1. IInv /\ [Next]_vars => [Displaces => RightToDisplace]_vars
  <2> SUFFICES ASSUME IInv, Next, Displaces PROVE RightToDisplace
    BY DEF vars
  <2> USE DEF Displaces
  <2>1. CASE pending' = pending \/ pending' = NoPending
    BY <2>1 DEF NoPending
  <2>2. ASSUME NEW f, NEW rsc, NEW st, NEW took, OnEnd(f, rsc, st, took)
        PROVE  RightToDisplace
    <3>1. CASE ConnectionApproved(f, rsc, st)
      BY <3>1, HandledMeans DEF ConnectionApproved, Begin, RightToDisplace
    <3>2. CASE RebootRequested(f, st)
      BY <3>2, HandledMeans DEF RebootRequested, Begin, RightToDisplace
    <3>3. \/ ConnectionApproved(f, rsc, st) \/ RebootRequested(f, st)
          \/ pending' = pending \/ pending' = NoPending
      BY <2>2
      DEF OnEnd, DropFrame, ConnectionPostponed, ConnectionRefused, DeclarationAnswered,
          Acknowledged, DisconnectNotified, Disconnect, RebootNotified, RequestServed,
          Clear, slotVars
    <3> QED
      BY <2>1, <3>1, <3>2, <3>3
  <2>3. ASSUME NEW f, RxHeader(f) PROVE RightToDisplace
    BY <2>1, <2>2, <2>3 DEF RxHeader, slotVars
  <2>4. CASE RxFixed
    BY <2>1, <2>2, <2>4 DEF RxFixed, slotVars
  <2>5. CASE RxElement
    <3>1. pending' = pending \/ \E f, rsc, st, took : OnEnd(f, rsc, st, took)
      BY <2>5 DEF RxElement, slotVars
    <3> QED
      BY <2>1, <2>2, <3>1
  <2>6. CASE PollBegin
    BY <2>1, <2>6, EmptySlot DEF PollBegin, slotVars
  <2>7. CASE PollPending
    <3>1. Retransmit => /\ pending'.kind = pending.kind
                        /\ pending'.msg_id = pending.msg_id
      BY DEF Retransmit, IInv, TypeOK
    <3> QED
      BY <2>1, <2>7, <3>1 DEF PollPending, GiveUp, Clear, slotVars
  <2>8. CASE PollDue
    BY <2>1, <2>8, PollDueSlot
  <2>9. CASE Reconnect
    BY <2>9, EmptySlot DEF Reconnect
  <2>10. CASE RxGap \/ LinkError \/ PollEnd \/ Tick \/ PowerCycle
    BY <2>1, <2>10
    DEF RxGap, LinkError, Disconnect, Clear, PollEnd, Tick, PowerCycle, slotVars
  <2> QED
    BY <2>3, <2>4, <2>5, <2>6, <2>7, <2>8, <2>9, <2>10 DEF Next, Poll, Environment
<1> QED
  BY <1>1, Invariant, PTL DEF Spec, NothingDisplaced

\* What _pending_begin hands to the encoder ends with the new frame.
LEMMA BeginOut ==
  ASSUME NEW kind, NEW a, Begin(kind, a, << >>), NEW i \in DOMAIN out'
  PROVE  out'[i].kind = kind
<1>1. out' = << Own(kind, next_msg_id) >>
  BY DEF Begin
<1> QED
  BY <1>1 DEF Own

\* An answer followed by one more frame holds nothing but the two.
LEMMA AppendedTo ==
  ASSUME NEW x, NEW y, NEW i \in DOMAIN Append(<< x >>, y)
  PROVE  Append(<< x >>, y)[i] \in {x, y}
<1>1. << x >> \in Seq({x, y})
  OBVIOUS
<1> QED
  BY <1>1

\* Telemetry waits for the outcome of the session's declaration.
THEOREM DeclarationFirst == Spec => TelemetryAfterDeclaration
<1>1. IInv /\ [Next]_vars => [SendsTelemetry => session \in {"declared", "dropped"}]_vars
  <2> SUFFICES ASSUME IInv, Next, SendsTelemetry PROVE session \in {"declared", "dropped"}
    BY DEF vars
  <2>1. PICK i \in DOMAIN out' : out'[i].kind = "NOTI_DEVICE_VALUE"
    BY DEF SendsTelemetry
  <2>2. CASE out' = << >>
    BY <2>1, <2>2
  <2>3. ASSUME NEW f, NEW rsc, NEW st, NEW took, OnEnd(f, rsc, st, took)
        PROVE  FALSE
    <3>1. CASE ConnectionApproved(f, rsc, st)
      BY <2>1, <3>1, BeginOut DEF ConnectionApproved
    <3>2. CASE RebootRequested(f, st)
      BY <2>1, <3>2, AppendedTo DEF RebootRequested, Begin, Reply, Own
    <3>3. CASE RequestServed(f, rsc, st, took)
      <4>1. PICK r : out' = << Reply(f, r) >>
        BY <3>3 DEF RequestServed
      <4> QED
        BY <2>1, <4>1 DEF Reply
    <3>4. CASE DisconnectNotified(f, st) \/ RebootNotified(f, st)
      BY <2>1, <3>4 DEF DisconnectNotified, RebootNotified, Ack
    <3>5. CASE out' = << >>
      BY <2>1, <3>5
    <3> QED
      BY <2>3, <3>1, <3>2, <3>3, <3>4, <3>5
      DEF OnEnd, DropFrame, ConnectionPostponed, ConnectionRefused, DeclarationAnswered,
          Acknowledged
  <2>4. ASSUME NEW f, RxHeader(f) PROVE FALSE
    BY <2>2, <2>3, <2>4, <2>1 DEF RxHeader
  <2>5. CASE RxFixed
    BY <2>1, <2>2, <2>3, <2>5 DEF RxFixed
  <2>6. CASE RxElement
    <3>1. out' = << >> \/ \E f, rsc, st, took : OnEnd(f, rsc, st, took)
      BY <2>6 DEF RxElement
    <3> QED
      BY <2>1, <2>3, <3>1
  <2>7. CASE PollBegin
    BY <2>1, <2>7, BeginOut DEF PollBegin
  <2>8. CASE PollPending
    <3>1. CASE Retransmit
      <4>1. pending.kind = "NOTI_DEVICE_VALUE"
        BY <2>1, <3>1 DEF Retransmit, Own
      <4> QED
        BY <4>1 DEF IInv, TypeOK, SlotMatchesState, SessionSettled
    <3> QED
      BY <2>1, <2>8, <3>1 DEF PollPending, GiveUp
  <2>9. CASE PollDue
    <3>1. pending.kind = "NONE"
      BY <2>1, <2>9, PollDueSlot
    <3>2. state \in {"RUNNING", "FAULT"}
      BY <2>9 DEF PollDue
    <3> QED
      BY <3>1, <3>2 DEF IInv, TypeOK, SessionSettled
  <2>10. CASE Reconnect
    BY <2>1, <2>10, BeginOut DEF Reconnect
  <2>11. CASE RxGap \/ LinkError \/ PollEnd \/ Tick \/ PowerCycle
    BY <2>1, <2>11 DEF RxGap, LinkError, PollEnd, Tick, PowerCycle
  <2> QED
    BY <2>4, <2>5, <2>6, <2>7, <2>8, <2>9, <2>10, <2>11 DEF Next, Poll, Environment
<1> QED
  BY <1>1, Invariant, PTL DEF Spec, TelemetryAfterDeclaration

-----------------------------------------------------------------------------
(* The transmitter.                                                        *)

USE NodeAssumption

Stretch == [frame : 0 .. 3, from : Nat \ {0}, to : Nat, of : Nat]
Units(r) == r = Nothing \/ (r.from <= r.to /\ r.to <= r.of)

TxState ==
  [win  : {r \in Stretch : Units(r)}, rest : {r \in Stretch : Units(r)},
   wire : [frame : 0 .. 3, got : Nat, torn : BOOLEAN], cut : BOOLEAN]

\* The sequence goes on where the window ends.
Joins(w, r) ==
  IF r = Nothing THEN w.to = w.of
  ELSE r.from = IF w.to = w.of THEN 1 ELSE w.to + 1

SameFrame(w, r) == w.to # w.of => r = Nothing \/ r.frame = w.frame

Joined(t) ==
  ~ t.cut =>
    /\ ~ t.wire.torn
    /\ t.rest # Nothing => t.rest.to = t.rest.of
    /\ t.win # Nothing => /\ Follows(t.wire, t.win)
                          /\ Joins(t.win, t.rest) /\ SameFrame(t.win, t.rest)
    /\ t.win = Nothing => IF t.rest = Nothing THEN t.wire.got = 0 ELSE Follows(t.wire, t.rest)

Sound(t) == Joined(t) /\ (~ t.cut /\ t.win = Nothing => t.rest = Nothing)

TxInv == Tx \in TxState /\ Sound(Tx)

-----------------------------------------------------------------------------
(* Stretches.                                                              *)

LEMMA NothingTyped == Nothing \in {r \in Stretch : Units(r)} /\ Size(Nothing) = 0
BY DEF Nothing, Stretch, Units, Size

\* Only an empty stretch has no units.
LEMMA SizeOf ==
  ASSUME NEW r \in Stretch, Units(r)
  PROVE  /\ Size(r) \in Nat /\ (Size(r) = 0 <=> r = Nothing)
         /\ r # Nothing => Size(r) = 1 + r.to - r.from
BY DEF Stretch, Units, Size, Nothing

\* A write takes some of what it is offered.
LEMMA TakenOf == ASSUME NEW n \in Nat, NEW k \in Taken(n) PROVE k \in 0 .. n
BY DEF Taken

\* What is left of a stretch is its end.
LEMMA AfterOf ==
  ASSUME NEW r \in Stretch, Units(r), NEW k \in 0 .. Size(r)
  PROVE  /\ After(r, k) \in Stretch /\ Units(After(r, k))
         /\ k = Size(r) => After(r, k) = Nothing
         /\ k # Size(r) => /\ After(r, k) = [r EXCEPT !.from = r.from + k]
                           /\ After(r, k) # Nothing /\ r # Nothing
<1>1. CASE k = Size(r)
  BY <1>1, NothingTyped DEF After
<1>2. CASE k # Size(r)
  <2>1. r # Nothing /\ Size(r) = 1 + r.to - r.from
    BY <1>2, SizeOf DEF Size
  <2>2. k \in Nat /\ r.from + k <= r.to /\ r.from + k \in Nat \ {0}
    BY <1>2, <2>1 DEF Stretch
  <2> DEFINE q == [r EXCEPT !.from = r.from + k]
  <2>3. After(r, k) = q
    BY <1>2 DEF After
  <2>4. q \in Stretch /\ q.from = r.from + k /\ q.to = r.to /\ q.of = r.of
    BY <2>2 DEF Stretch
  <2> HIDE DEF q
  <2>5. Units(q) /\ q # Nothing
    BY <2>1, <2>2, <2>4 DEF Stretch, Units, Nothing
  <2> USE DEF q
  <2> QED BY <1>2, <2>1, <2>3, <2>4, <2>5
<1> QED BY <1>1, <1>2

\* What is carried leaves a line; nothing leaves the line as it was.
LEMMA CarryOf ==
  ASSUME NEW w \in [frame : 0 .. 3, got : Nat, torn : BOOLEAN],
         NEW r \in Stretch, Units(r), NEW k \in 0 .. Size(r)
  PROVE  /\ Carry(w, First(r, k)) \in [frame : 0 .. 3, got : Nat, torn : BOOLEAN]
         /\ k = 0 => Carry(w, First(r, k)) = w
<1> DEFINE p == First(r, k)
<1>1. p = [r EXCEPT !.to = r.from + k - 1]
  BY DEF First
<1>2. k \in Nat /\ r.from \in Nat \ {0} /\ r.from + k - 1 \in Nat
  BY SizeOf, SMTT(30) DEF Stretch
<1>3. p.from = r.from /\ p.to = r.from + k - 1 /\ p.of = r.of /\ p.frame = r.frame
  BY <1>1, <1>2 DEF Stretch
<1>4. Idle \in [frame : 0 .. 3, got : Nat, torn : BOOLEAN]
  BY DEF Idle
<1>5. Carry(w, p) \in [frame : 0 .. 3, got : Nat, torn : BOOLEAN]
  BY <1>2, <1>3, <1>4 DEF Carry, Stretch
<1>6. k = 0 => Carry(w, p) = w
  BY <1>2, <1>3, SMTT(30) DEF Carry
<1> QED BY <1>5, <1>6

\* What follows leaves the line with its last unit, or with nothing when that is
\* the last of the frame.
LEMMA CarryOn ==
  ASSUME NEW w \in [frame : 0 .. 3, got : Nat, torn : BOOLEAN],
         NEW r \in Stretch, Units(r), NEW k \in 0 .. Size(r),
         k # 0, ~ w.torn, Follows(w, r)
  PROVE  Carry(w, First(r, k)) =
           IF r.from + k - 1 = r.of THEN Idle
           ELSE [frame |-> r.frame, got |-> r.from + k - 1, torn |-> FALSE]
<1> DEFINE p == First(r, k)
<1>1. p = [r EXCEPT !.to = r.from + k - 1]
  BY DEF First
<1>2. k \in Nat \ {0} /\ r.from \in Nat \ {0} /\ r.from + k - 1 \in Nat
  BY SizeOf, SMTT(30) DEF Stretch
<1>3. p.from = r.from /\ p.to = r.from + k - 1 /\ p.of = r.of /\ p.frame = r.frame
  BY <1>1, <1>2 DEF Stretch
<1>4. ~ (p.from > p.to \/ w.torn) /\ Follows(w, p)
  BY <1>2, <1>3 DEF Follows
<1> HIDE DEF p
<1> QED BY <1>3, <1>4 DEF Carry, p

\* A new frame is a stretch that begins with its first unit.
LEMMA NewFrameOf ==
  ASSUME SomeUnits, NEW t \in TxState, NEW n \in Nat
  PROVE  LET r == NewFrame(t, n) IN
         r \in Stretch /\ Units(r) /\ r # Nothing /\ r.from = 1 /\ r.to = r.of
<1> DEFINE s == CHOOSE s \in 0 .. 3 : s \notin {t.win.frame, t.rest.frame, t.wire.frame}
           u == (n + 1) * ChunkUnits
<1>1. \E x \in 0 .. 3 : x \notin {t.win.frame, t.rest.frame, t.wire.frame}
  OBVIOUS
<1>2. s \in 0 .. 3
  BY <1>1
<1>3. u \in Nat \ {0}
  <2>1. n + 1 \in Nat \ {0}
    OBVIOUS
  <2>2. \A a, b \in Nat \ {0} : a * b \in Nat \ {0}
    OBVIOUS
  <2> QED BY <2>1, <2>2 DEF SomeUnits
<1>4. NewFrame(t, n) = [frame |-> s, from |-> 1, to |-> u, of |-> u]
  BY DEF NewFrame
<1> HIDE DEF s, u
<1> QED BY <1>2, <1>3, <1>4 DEF Stretch, Units, Nothing

-----------------------------------------------------------------------------
(* The operations, one after the other.                                    *)

\* A state of the transmitter is its four fields.
LEMMA Fields ==
  ASSUME NEW t \in TxState
  PROVE  /\ t.win \in Stretch /\ Units(t.win) /\ t.rest \in Stretch /\ Units(t.rest)
         /\ t.wire \in [frame : 0 .. 3, got : Nat, torn : BOOLEAN] /\ t.cut \in BOOLEAN
BY DEF TxState

\* Writing the window leaves what is left of it, and a line that it goes on from.
LEMMA FlushOK ==
  ASSUME NEW t \in TxState, Joined(t), NEW u \in Flush(t)
  PROVE  u \in TxState /\ Joined(u) /\ u.rest = t.rest /\ u.cut = t.cut
<1>1. PICK k \in Taken(Size(t.win)) :
        u = [t EXCEPT !.win = After(t.win, k), !.wire = Carry(t.wire, First(t.win, k))]
  BY DEF Flush
<1>2. k \in 0 .. Size(t.win) /\ Size(t.win) \in Nat
  BY TakenOf, SizeOf, Fields
<1> DEFINE a == After(t.win, k)
           b == Carry(t.wire, First(t.win, k))
<1>3. a \in Stretch /\ Units(a) /\ b \in [frame : 0 .. 3, got : Nat, torn : BOOLEAN]
  BY <1>2, AfterOf, CarryOf, Fields
<1>4. u.win = a /\ u.wire = b /\ u.rest = t.rest /\ u.cut = t.cut
  BY <1>1 DEF TxState
<1>5. u \in TxState
  BY <1>1, <1>3 DEF TxState
<1>6. Joined(u)
  <2> SUFFICES ASSUME ~ t.cut PROVE Joined(u)
    BY <1>4 DEF Joined
  <2>1. CASE t.win = Nothing
    <3>1. k = 0 /\ a = Nothing /\ b = t.wire
      BY <2>1, <1>2, NothingTyped, AfterOf, CarryOf, Fields
    <3> HIDE DEF a, b
    <3> QED BY <2>1, <3>1, <1>4 DEF Joined
  <2>2. CASE t.win # Nothing /\ k = 0
    <3>1. Size(t.win) # 0
      BY <2>2, SizeOf, Fields
    <3>2. a = [t.win EXCEPT !.from = t.win.from + 0] /\ b = t.wire
      BY <2>2, <3>1, <1>2, AfterOf, CarryOf, Fields, ZenonT(40)
    <3>3. a = t.win
      BY <3>2, Fields, SMTT(30) DEF Stretch
    <3> HIDE DEF a, b
    <3> QED BY <2>2, <3>2, <3>3, <1>4 DEF Joined
  <2>3. CASE t.win # Nothing /\ k # 0
    <3>1. /\ Size(t.win) = 1 + t.win.to - t.win.from
          /\ t.win.from <= t.win.to /\ t.win.to <= t.win.of
          /\ t.win.from \in Nat \ {0} /\ t.win.to \in Nat /\ t.win.of \in Nat
      BY <2>3, Fields DEF Stretch, Units, Size
    <3>2. ~ t.wire.torn /\ Follows(t.wire, t.win)
      BY <2>3 DEF Joined
    <3>3. b = IF t.win.from + k - 1 = t.win.of THEN Idle
              ELSE [frame |-> t.win.frame, got |-> t.win.from + k - 1, torn |-> FALSE]
      BY <2>3, <3>2, <1>2, CarryOn, Fields, ZenonT(40)
    <3>4. CASE k = Size(t.win)
      <4>1. a = Nothing
        BY <3>4, <1>2, AfterOf, Fields
      <4>6. t.win.from + k - 1 = t.win.to
        BY <3>4, <3>1, <1>2, SMTT(30)
      <4>2. b = IF t.win.to = t.win.of THEN Idle
                ELSE [frame |-> t.win.frame, got |-> t.win.to, torn |-> FALSE]
        BY <4>6, <3>3
      <4>3. Joins(t.win, t.rest) /\ SameFrame(t.win, t.rest)
            /\ (t.rest # Nothing => t.rest.to = t.rest.of)
        BY <2>3 DEF Joined
      <4> HIDE DEF a, b
      <4>4. ~ b.torn
        BY <4>2 DEF Idle
      <4>5. IF t.rest = Nothing THEN b.got = 0 ELSE Follows(b, t.rest)
        BY <4>2, <4>3, <3>1 DEF Joins, SameFrame, Follows, Idle
      <4> QED BY <4>1, <4>3, <4>4, <4>5, <1>4 DEF Joined
    <3>5. CASE k # Size(t.win)
      <4>1. a = [t.win EXCEPT !.from = t.win.from + k] /\ a # Nothing
        BY <3>5, <1>2, AfterOf, Fields
      <4>2. t.win.from + k - 1 # t.win.of /\ k \in Nat
        BY <3>5, <3>1, <1>2, SMTT(30)
      <4>3. b = [frame |-> t.win.frame, got |-> t.win.from + k - 1, torn |-> FALSE]
        BY <3>3, <4>2
      <4>4. a.from = t.win.from + k /\ a.to = t.win.to /\ a.of = t.win.of /\ a.frame = t.win.frame
        BY <4>1, Fields DEF Stretch
      <4> HIDE DEF a, b
      <4>5. Follows(b, a)
        BY <4>2, <4>3, <4>4, <3>1, SMTT(30) DEF Follows
      <4>6. Joins(a, t.rest) /\ SameFrame(a, t.rest)
            /\ (t.rest # Nothing => t.rest.to = t.rest.of)
        BY <2>3, <4>4 DEF Joined, Joins, SameFrame
      <4> QED BY <4>1, <4>3, <4>5, <4>6, <1>4 DEF Joined
    <3> QED BY <3>4, <3>5
  <2> QED BY <2>1, <2>2, <2>3
<1> QED BY <1>4, <1>5, <1>6

\* Feeding the sequence through the empty window.
LEMMA FeedOK ==
  ASSUME NEW t \in TxState, Joined(t), t.win = Nothing, t.rest # Nothing, NEW u \in Feed(t)
  PROVE  u \in TxState /\ Sound(u)
<1> DEFINE left(k) == After(t.rest, k)
           line(k) == Carry(t.wire, First(t.rest, k))
           sent(k) == [t EXCEPT !.wire = line(k)]
           done(k) == { [sent(k) EXCEPT !.rest = Nothing] }
           part(k) == { [sent(k) EXCEPT !.win  = [left(k) EXCEPT !.to = e],
                                        !.rest = After(left(k), 1 + e - left(k).from)] :
                          e \in ChunkEnds(left(k)) }
<1>1. PICK k \in Taken(Size(t.rest)) :
        u \in IF left(k) = Nothing THEN done(k) ELSE part(k)
  BY DEF Feed
<1>2. k \in 0 .. Size(t.rest) /\ Size(t.rest) \in Nat
  BY TakenOf, SizeOf, Fields
<1>3. /\ t.rest \in Stretch /\ t.rest.from <= t.rest.to /\ t.rest.to <= t.rest.of
      /\ Size(t.rest) = 1 + t.rest.to - t.rest.from
  BY Fields DEF Units, Size
<1>4. /\ left(k) \in Stretch /\ Units(left(k))
      /\ line(k) \in [frame : 0 .. 3, got : Nat, torn : BOOLEAN]
  BY <1>2, AfterOf, CarryOf, Fields
<1>5. ~ t.cut => ~ t.wire.torn /\ Follows(t.wire, t.rest) /\ t.rest.to = t.rest.of
  BY DEF Joined
<1>6. ~ t.cut /\ k # 0 =>
        line(k) = IF t.rest.from + k - 1 = t.rest.of THEN Idle
                  ELSE [frame |-> t.rest.frame, got |-> t.rest.from + k - 1, torn |-> FALSE]
  BY <1>2, <1>5, CarryOn, Fields
<1>7. k = 0 => line(k) = t.wire
  BY <1>2, CarryOf, Fields
<1>8. CASE left(k) = Nothing
  <2>1. k = Size(t.rest)
    BY <1>2, <1>8, AfterOf, Fields
  <2>2. u = [t EXCEPT !.wire = line(k), !.rest = Nothing]
    BY <1>1, <1>8 DEF TxState
  <2>3. u.win = Nothing /\ u.rest = Nothing /\ u.wire = line(k) /\ u.cut = t.cut
    BY <2>2 DEF TxState
  <2>4. u \in TxState
    BY <2>2, <1>4, NothingTyped DEF TxState
  <2>5. ~ t.cut => line(k) = Idle
    BY <2>1, <1>3, <1>5, <1>6 DEF Stretch
  <2> HIDE DEF line
  <2> QED BY <2>3, <2>4, <2>5 DEF Sound, Joined, Idle
<1>9. CASE left(k) # Nothing
  <2>1. PICK e \in ChunkEnds(left(k)) :
          u = [t EXCEPT !.wire = line(k), !.win = [left(k) EXCEPT !.to = e],
                        !.rest = After(left(k), 1 + e - left(k).from)]
    BY <1>1, <1>9 DEF TxState
  <2>2. k # Size(t.rest) /\ k \in Nat
    BY <1>2, <1>9, AfterOf, Fields
  <2>3. left(k) = [t.rest EXCEPT !.from = t.rest.from + k]
    BY <2>2, <1>2, AfterOf, Fields
  <2> DEFINE l == left(k)
             w == [l EXCEPT !.to = e]
             r == After(l, 1 + e - l.from)
  <2>4. l.from = t.rest.from + k /\ l.to = t.rest.to /\ l.of = t.rest.of /\ l.frame = t.rest.frame
    BY <2>3, <1>3 DEF Stretch
  <2>5. l \in Stretch /\ Units(l) /\ l # Nothing
    BY <1>4, <1>9
  <2> HIDE DEF l, left
  <2>6. l.from <= l.to /\ l.to <= l.of /\ l.from \in Nat \ {0} /\ l.to \in Nat /\ l.of \in Nat
        /\ l.frame \in 0 .. 3
    BY <2>5 DEF Units, Stretch
  <2>7. e \in Nat /\ l.from <= e /\ e <= l.to
    BY <2>6 DEF ChunkEnds, l
  <2>8. w \in Stretch /\ w.from = l.from /\ w.to = e /\ w.of = l.of /\ w.frame = l.frame
    BY <2>5, <2>7 DEF Stretch
  <2>9. Units(w) /\ w # Nothing
    BY <2>6, <2>7, <2>8, SMTT(30) DEF Units, Nothing
  <2>10. Size(l) = 1 + l.to - l.from
    BY DEF Size
  <2>11. 1 + e - l.from \in 0 .. Size(l)
    BY <2>6, <2>7, <2>10, SMTT(30)
  <2>12. /\ r \in Stretch /\ Units(r)
         /\ e = l.to => r = Nothing
         /\ e # l.to => r = [l EXCEPT !.from = l.from + (1 + e - l.from)] /\ r # Nothing
    <3>1. e = l.to <=> 1 + e - l.from = Size(l)
      BY <2>6, <2>7, <2>10, SMTT(30)
    <3> QED BY <3>1, <2>5, <2>11, AfterOf
  <2>13. e # l.to => r.from = e + 1 /\ r.to = l.to /\ r.of = l.of /\ r.frame = l.frame
    BY <2>5, <2>6, <2>7, <2>12, SMTT(30) DEF Stretch
  <2> HIDE DEF w, r
  <2>14. u = [t EXCEPT !.wire = line(k), !.win = w, !.rest = r]
    BY <2>1 DEF w, r, l
  <2>15. u.win = w /\ u.rest = r /\ u.wire = line(k) /\ u.cut = t.cut
    BY <2>14 DEF TxState
  <2>16. u \in TxState
    BY <2>14, <2>8, <2>9, <2>12, <1>4 DEF TxState
  <2>17. ASSUME ~ t.cut PROVE Sound(u)
    <3>1. ~ line(k).torn /\ Follows(line(k), w)
      <4>1. CASE k = 0
        BY <4>1, <1>3, <1>5, <1>7, <2>4, <2>8, <2>17, SMTT(30) DEF Follows, Stretch
      <4>2. CASE k # 0
        <5>1. t.rest.from + k - 1 # t.rest.of
          BY <2>2, <1>2, <1>3, <1>5, <2>17, SMTT(30) DEF Stretch
        <5>2. line(k) = [frame |-> t.rest.frame, got |-> t.rest.from + k - 1, torn |-> FALSE]
          BY <5>1, <4>2, <1>6, <2>17
        <5>3. /\ line(k).frame = t.rest.frame /\ ~ line(k).torn
              /\ line(k).got = t.rest.from + k - 1
          BY <5>2
        <5>4. w.from = t.rest.from + k - 1 + 1 /\ w.frame = t.rest.frame
          <6>1. t.rest.from \in Nat /\ k \in Nat
            BY <1>3, <2>2 DEF Stretch
          <6>2. PICK m : m = t.rest.from
            OBVIOUS
          <6>3. w.from = m + k /\ m \in Nat
            BY <2>4, <2>8, <6>1, <6>2
          <6>4. w.from = m + k - 1 + 1
            BY <6>1, <6>3
          <6> QED BY <2>4, <2>8, <6>2, <6>4
        <5> HIDE DEF line
        <5> QED BY <5>3, <5>4 DEF Follows
      <4> QED BY <4>1, <4>2
    <3>2. Joins(w, r) /\ SameFrame(w, r) /\ (r # Nothing => r.to = r.of)
      BY <1>5, <2>17, <2>4, <2>6, <2>7, <2>8, <2>12, <2>13 DEF Joins, SameFrame
    <3> HIDE DEF line
    <3> QED BY <2>15, <2>9, <3>1, <3>2, <2>17 DEF Sound, Joined
  <2>18. t.cut => Sound(u)
    BY <2>15 DEF Sound, Joined
  <2> QED BY <2>16, <2>17, <2>18
<1> QED BY <1>8, <1>9

\* siap_tx_flush() and _tx_seq_pump(), one after the other.
LEMMA PumpOK ==
  ASSUME NEW t \in TxState, Sound(t), NEW u \in Pump(t)
  PROVE  u \in TxState /\ Sound(u)
<1>1. PICK v \in Flush(t) :
        u \in IF Size(v.win) = 0 /\ Size(v.rest) > 0 THEN Feed(v) ELSE {v}
  BY DEF Pump
<1>2. v \in TxState /\ Joined(v)
  BY FlushOK DEF Sound
<1>3. /\ Size(v.win) \in Nat /\ (Size(v.win) = 0 <=> v.win = Nothing)
      /\ Size(v.rest) \in Nat /\ (Size(v.rest) = 0 <=> v.rest = Nothing)
  BY <1>2, Fields, SizeOf
<1>4. CASE v.win = Nothing /\ v.rest # Nothing
  <2>1. u \in Feed(v)
    BY <1>1, <1>3, <1>4
  <2> QED BY <2>1, <1>2, <1>4, FeedOK
<1>5. CASE ~ (v.win = Nothing /\ v.rest # Nothing)
  <2>1. u = v
    BY <1>1, <1>3, <1>5
  <2> QED BY <2>1, <1>2, <1>5 DEF Sound
<1> QED BY <1>4, <1>5

\* A frame of one window tears nothing if nothing is in progress; otherwise it
\* is the cut.
LEMMA SendWindowOK ==
  ASSUME SomeUnits, NEW t \in TxState, Sound(t), NEW u \in SendWindow(t)
  PROVE  u \in TxState /\ Sound(u)
<1> DEFINE f == NewFrame(t, 0)
           c == t.cut \/ Size(t.win) > 0 \/ Size(t.rest) > 0
           v == [t EXCEPT !.win = f, !.cut = c]
<1>1. u \in Flush(v)
  BY DEF SendWindow
<1>2. f \in Stretch /\ Units(f) /\ f # Nothing /\ f.from = 1 /\ f.to = f.of
  BY NewFrameOf
<1>3. c \in BOOLEAN
  BY Fields
<1> HIDE DEF f
<1>4. v.win = f /\ v.cut = c /\ v.rest = t.rest /\ v.wire = t.wire
  BY DEF TxState
<1>5. v \in TxState
  BY <1>2, <1>3 DEF TxState
<1>6. ~ c => ~ t.cut /\ t.win = Nothing /\ t.rest = Nothing
  BY SizeOf, Fields
<1> HIDE DEF c, v
<1>7. Joined(v)
  <2> SUFFICES ASSUME ~ c PROVE Joined(v)
    BY <1>4 DEF Joined
  <2>1. ~ t.wire.torn /\ t.wire.got = 0 /\ v.rest = Nothing
    BY <1>4, <1>6 DEF Sound, Joined
  <2>2. Follows(v.wire, f) /\ Joins(f, Nothing) /\ SameFrame(f, Nothing)
    BY <1>2, <1>4, <2>1 DEF Follows, Joins, SameFrame
  <2> QED BY <1>2, <1>4, <2>1, <2>2 DEF Joined
<1>8. u \in TxState /\ Joined(u) /\ u.rest = t.rest /\ u.cut = c
  BY <1>1, <1>4, <1>5, <1>7, FlushOK
<1> QED BY <1>6, <1>8 DEF Sound

\* A sequence waits for the window, and tears nothing unless it takes the place
\* of another.
LEMMA SendSequenceOK ==
  ASSUME SomeUnits, NEW t \in TxState, Sound(t), NEW n \in Nat, NEW u \in SendSequence(t, n)
  PROVE  u \in TxState /\ Sound(u)
<1> DEFINE f == NewFrame(t, n)
           c == t.cut \/ Size(t.rest) > 0
           v == [t EXCEPT !.rest = f, !.cut = c]
<1>1. u \in IF Size(t.win) = 0 THEN Feed(v) ELSE {v}
  BY DEF SendSequence
<1>2. f \in Stretch /\ Units(f) /\ f # Nothing /\ f.from = 1 /\ f.to = f.of
  BY NewFrameOf
<1>3. c \in BOOLEAN
  BY Fields
<1> HIDE DEF f
<1>4. v.rest = f /\ v.cut = c /\ v.win = t.win /\ v.wire = t.wire
  BY DEF TxState
<1>5. v \in TxState
  BY <1>2, <1>3 DEF TxState
<1>6. ~ c => ~ t.cut /\ t.rest = Nothing
  BY SizeOf, Fields
<1> HIDE DEF c, v
<1>7. Joined(v)
  <2> SUFFICES ASSUME ~ c PROVE Joined(v)
    BY <1>4 DEF Joined
  <2>1. ~ t.wire.torn /\ t.rest = Nothing
    BY <1>6 DEF Sound, Joined
  <2>2. CASE t.win = Nothing
    <3>1. t.wire.got = 0
      BY <1>6, <2>1, <2>2 DEF Sound, Joined
    <3>2. Follows(v.wire, f)
      BY <1>2, <1>4, <3>1 DEF Follows
    <3> QED BY <1>2, <1>4, <2>1, <2>2, <3>2 DEF Joined
  <2>3. CASE t.win # Nothing
    <3>1. Follows(t.wire, t.win) /\ t.win.to = t.win.of
      BY <1>6, <2>1, <2>3 DEF Sound, Joined, Joins
    <3>2. Joins(t.win, f) /\ SameFrame(t.win, f)
      BY <1>2, <3>1 DEF Joins, SameFrame
    <3> QED BY <1>2, <1>4, <2>1, <2>3, <3>1, <3>2 DEF Joined
  <2> QED BY <2>2, <2>3
<1>8. CASE t.win = Nothing
  <2>1. u \in Feed(v)
    BY <1>1, <1>8, NothingTyped
  <2> QED BY <2>1, <1>2, <1>4, <1>5, <1>7, <1>8, FeedOK
<1>9. CASE t.win # Nothing
  <2>1. u = v
    BY <1>1, <1>9, SizeOf, Fields
  <2> QED BY <2>1, <1>4, <1>5, <1>7, <1>9 DEF Sound
<1> QED BY <1>8, <1>9

\* Every frame has a number of elements.
LEMMA ElementsOf == \A o : Elements(o) \subseteq Nat
BY DEF Elements, Devices

LEMMA SendOK ==
  ASSUME SomeUnits, NEW t \in TxState, Sound(t), NEW o, NEW u \in Send(t, o)
  PROVE  u \in TxState /\ Sound(u)
<1>1. CASE Sequenced(o)
  <2>1. PICK n \in Elements(o) : u \in SendSequence(t, n)
    BY <1>1 DEF Send
  <2> QED BY <2>1, ElementsOf, SendSequenceOK
<1>2. CASE ~ Sequenced(o)
  <2>1. u \in SendWindow(t)
    BY <1>2 DEF Send
  <2> QED BY <2>1, SendWindowOK
<1> QED BY <1>1, <1>2

LEMMA SendAllOK ==
  ASSUME SomeUnits, NEW t \in TxState, Sound(t), NEW os, NEW u \in SendAll(t, os)
  PROVE  u \in TxState /\ Sound(u)
<1>1. CASE os = << >>
  BY <1>1 DEF SendAll
<1>2. CASE os # << >> /\ Len(os) = 1
  <2>1. u \in Send(t, os[1])
    BY <1>2 DEF SendAll
  <2> QED BY <2>1, SendOK
<1>3. CASE os # << >> /\ Len(os) # 1
  <2>1. PICK v \in Send(t, os[1]) : u \in Send(v, os[2])
    BY <1>3 DEF SendAll
  <2>2. v \in TxState /\ Sound(v)
    BY SendOK
  <2> QED BY <2>1, <2>2, SendOK
<1> QED BY <1>1, <1>2, <1>3

-----------------------------------------------------------------------------
(* Theorems.                                                               *)

\* TxInv holds at the start.
Start == [win |-> Nothing, rest |-> Nothing, wire |-> Idle, cut |-> FALSE]

LEMMA StartSound == Start \in TxState /\ Sound(Start)
<1>1. Start \in TxState
  BY NothingTyped DEF TxState, Idle, Start
<1>2. Sound(Start)
  BY DEF Sound, Joined, Idle, Start
<1> QED BY <1>1, <1>2

\* Every step keeps it.
LEMMA StepSound ==
  ASSUME SomeUnits, TxInv, [TxNext]_txVars
  PROVE  TxInv'
<1>1. CASE NodeSteps
  <2>1. PICK t \in IF GoesOn THEN Pump(Tx) ELSE {Tx} : \E u \in SendAll(t, out') : TxBecomes(u)
    BY <1>1 DEF NodeSteps, Transmit
  <2>5. PICK u \in SendAll(t, out') : TxBecomes(u)
    BY <2>1
  <2>2. t \in TxState /\ Sound(t)
    BY <2>1, PumpOK DEF TxInv
  <2>3. u \in TxState /\ Sound(u)
    BY <2>2, <2>5, SendAllOK
  <2>4. Tx' = u
    BY <2>5, <2>3 DEF Tx, TxBecomes, TxState
  <2> QED BY <2>3, <2>4 DEF TxInv
<1>2. CASE PoweredOn
  <2>1. Tx' = Start
    BY <1>2 DEF PoweredOn, TxBecomes, Tx, Start
  <2> QED BY <2>1, StartSound DEF TxInv
<1>3. CASE UNCHANGED txVars
  BY <1>3 DEF TxInv, Tx, txVars
<1> QED BY <1>1, <1>2, <1>3 DEF TxNext

\* Whatever board, and however its writes fall: window and sequence by themselves
\* tear no frame.  What does is a frame sent in the middle of another.
THEOREM OnlyResetsTear ==
  ASSUME SomeUnits
  PROVE  TxSpec => []TornByReset
<1>1. TxInit => TxInv
  BY StartSound DEF TxInit, Tx, Start, TxInv
<1>2. TxInv => TornByReset
  BY DEF TxInv, Sound, Joined, TornByReset, Tx, TxState
<1>3. TxInv /\ [TxNext]_txVars => TxInv'
  BY StepSound
<1> QED BY <1>1, <1>2, <1>3, PTL DEF TxSpec
=============================================================================
