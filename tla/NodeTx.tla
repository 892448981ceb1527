-------------------------------- MODULE NodeTx --------------------------------
(***************************************************************************)
(* What becomes of the frames that NodeState hands to the encoder (`out'): *)
(* the transmit window of 51 bytes (siap_enc_t), the sequence that feeds a *)
(* longer frame through it chunk by chunk (siap_tx_seq_t), and the write   *)
(* of the board, which takes as many bytes as it has room for.             *)
(*                                                                         *)
(* A chunk is what is encoded into the window at a time: the header with   *)
(* the fixed part, or one element.  It is made of `ChunkUnits' units, so   *)
(* that a write may stop inside of it.                                     *)
(***************************************************************************)
EXTENDS NodeState

CONSTANT ChunkUnits   \* units of a chunk

\* Hypothesis of the theorems: a chunk is not empty.
SomeUnits == ChunkUnits \in Nat \ {0}

VARIABLES
  win,   \* units of the window not written yet; tx_busy: there are some
  rest,  \* units of tx_seq that are not encoded yet
  wire,  \* what the line has carried since the last whole frame
  cut    \* history: something was sent in the middle of what was in progress

txVars == <<vars, win, rest, wire, cut>>

-----------------------------------------------------------------------------
(* Frames as units.  A stretch is the units from .. to of a frame that has *)
(* `of' of them.                                                           *)

Size(r)     == 1 + r.to - r.from
Nothing     == [frame |-> 0, from |-> 1, to |-> 0, of |-> 0]
First(r, k) == [r EXCEPT !.to = r.from + k - 1]
After(r, k) == IF k = Size(r) THEN Nothing ELSE [r EXCEPT !.from = r.from + k]

\* Kinds that tx_seq sends; all others fit the window.
Sequenced(o) ==
  \/ o.kind \in {"NOTI_DEVICE_VALUE", "REQ_SET_NODE_DEVICE_PROPERTY_ALL"}
  \/ /\ o.kind = "RES"
     /\ o.of \in {"REQ_GET_DEVICE_PROPERTY", "REQ_GET_DEVICE_VALUE",
                  "REQ_GET_NODE_DEVICE_PROPERTY_ALL"}

\* How many elements such a frame may have.
Elements(o) ==
  CASE ~ Sequenced(o)                     -> {0}
    [] o.kind = "NOTI_DEVICE_VALUE"       -> Devices
    [] o.kind = "RES" /\ o.of \in WithElements -> 0 .. NumDevices
    [] OTHER                              -> {NumDevices}

\* A frame that neither window nor sequence nor line has: header with fixed part
\* as one chunk, and one for each of n elements.
NewFrame(t, n) ==
  LET s == CHOOSE s \in 0 .. 3 : s \notin {t.win.frame, t.rest.frame, t.wire.frame}
      units == (n + 1) * ChunkUnits
  IN [frame |-> s, from |-> 1, to |-> units, of |-> units]

-----------------------------------------------------------------------------
(* siap_tx_flush() and _tx_seq_pump().                                     *)

\* What the line carries: a whole frame leaves it to the receiver.
Idle == [frame |-> 0, got |-> 0, torn |-> FALSE]
Follows(w, r) == r.from = w.got + 1 /\ (w.got > 0 => r.frame = w.frame)
Carry(w, r) ==
  IF r.from > r.to \/ w.torn THEN w
  ELSE IF ~ Follows(w, r) THEN [w EXCEPT !.torn = TRUE]
  ELSE IF r.to = r.of THEN Idle ELSE [frame |-> r.frame, got |-> r.to, torn |-> FALSE]

\* How many of n units a write takes: what the buffer of the UART has room for, or
\* the TCP stack; none while there is no connection.
Taken(n) == 0 .. n

Flush(t) ==
  { [t EXCEPT !.win = After(t.win, k), !.wire = Carry(t.wire, First(t.win, k))] :
      k \in Taken(Size(t.win)) }

\* Where the chunk that r begins with may end: only at a multiple of its units.
ChunkEnds(r) == { e \in r.from .. r.to : e % ChunkUnits = 0 /\ e - r.from < ChunkUnits }

\* With the window empty, the sequence goes through it chunk by chunk until a
\* write stops; what is left of that chunk stays in the window.
Feed(t) ==
  UNION { LET left == After(t.rest, k)
              sent == [t EXCEPT !.wire = Carry(t.wire, First(t.rest, k))]
          IN IF left = Nothing THEN { [sent EXCEPT !.rest = Nothing] }
             ELSE { [sent EXCEPT !.win  = [left EXCEPT !.to = e],
                                 !.rest = After(left, 1 + e - left.from)] : e \in ChunkEnds(left) } :
          k \in Taken(Size(t.rest)) }

\* The window is written, and once it is empty the sequence is fed through it.
Pump(t) ==
  UNION { IF Size(u.win) = 0 /\ Size(u.rest) > 0 THEN Feed(u) ELSE {u} : u \in Flush(t) }

\* siap_tx_reset(), then one window's worth is encoded and written; the sequence
\* in progress, if any, stays where it is.
SendWindow(t) ==
  Flush([t EXCEPT !.win = NewFrame(t, 0), !.cut = @ \/ Size(t.win) > 0 \/ Size(t.rest) > 0])

\* A new sequence takes the place of the one in progress; nothing is encoded
\* before the window is empty.
SendSequence(t, n) ==
  LET started == [t EXCEPT !.rest = NewFrame(t, n), !.cut = @ \/ Size(t.rest) > 0]
  IN IF Size(t.win) = 0 THEN Feed(started) ELSE {started}

Send(t, o) ==
  IF Sequenced(o) THEN UNION { SendSequence(t, n) : n \in Elements(o) } ELSE SendWindow(t)

\* Up to two frames are handed over in a step, the answer first.
SendAll(t, os) ==
  CASE os = << >>   -> {t}
    [] Len(os) = 1  -> Send(t, os[1])
    [] OTHER        -> UNION { Send(u, os[2]) : u \in Send(t, os[1]) }

-----------------------------------------------------------------------------

Tx == [win |-> win, rest |-> rest, wire |-> wire, cut |-> cut]
TxBecomes(t) == win' = t.win /\ rest' = t.rest /\ wire' = t.wire /\ cut' = t.cut

\* siap_node_poll() goes on with the window and the sequence before it looks at
\* the pending slot; every other step only sends what it hands over.
GoesOn == phase # "due" /\ phase' = "due"
Transmit ==
  \E t \in IF GoesOn THEN Pump(Tx) ELSE {Tx} : \E u \in SendAll(t, out') : TxBecomes(u)

\* Every step of the node but a loss of power sends what it hands over.
NodeSteps == (Poll \/ Tick \/ LinkError \/ \E f \in Frames : RxHeader(f)) /\ Transmit

\* siap_node_init(); the silence of a start makes the receiver drop what it has.
PoweredOn == PowerCycle /\ TxBecomes([win |-> Nothing, rest |-> Nothing, wire |-> Idle, cut |-> FALSE])

TxInit == Init /\ win = Nothing /\ rest = Nothing /\ wire = Idle /\ cut = FALSE
TxNext == NodeSteps \/ PoweredOn
TxSpec == TxInit /\ [][TxNext]_txVars

-----------------------------------------------------------------------------
(* Properties.                                                             *)

\* A frame goes out in one piece: what the line has carried since the last whole
\* frame is the beginning of one frame.  "이전 청크가 win 에서 완전히 빠져나가기 ...
\* 전에는 절대 siap_tx_reset() 을 부르지 않는다": the window is never reset before
\* what is in it has gone out.
WholeFrames == ~ wire.torn

\* Whatever the board takes, and however long a frame is: the window and the
\* sequence by themselves never tear one (the loop of _tx_seq_pump).  Only a
\* frame that is sent in the middle of another does.
TornByReset == wire.torn => cut
=============================================================================
