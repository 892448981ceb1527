----------------------------- MODULE FrameStream -----------------------------
(***************************************************************************)
(* The two streaming decoders on one byte stream: Decoder of siap/codec.py *)
(* (gateway), which collects bytes in a buffer and is fed in chunks of any *)
(* size, and siap_dec_t of firmware/core/siap_frame.c (node), which takes  *)
(* one byte at a time and hears of silence on the line.                    *)
(*                                                                         *)
(* The protocol has neither a delimiter nor a checksum.  What is checked   *)
(* here is what the decoders make of a line that loses and garbles bytes,  *)
(* of frames that are violations, and of payloads that hold the version    *)
(* byte.                                                                   *)
(*                                                                         *)
(* Data: a byte is a symbol.  A header is HeaderBytes = 3 of them: Version,*)
(* a symbol that stands for Message Type, Transmission Type and Payload    *)
(* Length together, and Node ID.  The symbol Bad in a payload makes its    *)
(* part one that is reserved, undecodable or refused by a callback.        *)
(***************************************************************************)
EXTENDS Naturals, SequencesExt

CONSTANTS
  Version, Bad,  \* symbols
  Types,         \* defined values of the type symbol
  LAYOUT,        \* per type: [fixed, elem, n, fits, trans, connect]
  Known,         \* nodes registered at the gateway
  Sendable,      \* the frames a sender may put on the line
  Closing,       \* those that may come last: nothing is behind the last one to be lost
  Noise,         \* the symbols a garbled byte may turn into
  MaxFrames,     \* bound on the frames sent
  MaxFaults,     \* bound on the bytes lost or garbled
  MaxGaps,       \* bound on the silences
  MaxBehind      \* bound on the bytes the gateway has yet to take

HeaderBytes == 3

Size(t) == LAYOUT[t].fixed + LAYOUT[t].elem * LAYOUT[t].n

ASSUME StreamAssumption ==
  /\ \A t \in Types : LAYOUT[t] \in [fixed : Nat, elem : Nat, n : Nat, fits : BOOLEAN,
                                     trans : BOOLEAN, connect : BOOLEAN]
  /\ \E t \in Types : \A u \in Types : Size(u) <= Size(t)  \* the tables are finite
  /\ \A f \in Sendable : f \in Seq(Range(f)) /\ Len(f) >= HeaderBytes
  /\ Closing \subseteq Sendable
  /\ Version \notin Types /\ Version \notin Known
  /\ MaxFrames \in Nat /\ MaxFaults \in Nat /\ MaxGaps \in Nat /\ MaxBehind \in Nat \ {0}

VARIABLES
  sent,    \* the frames sent so far; the last one may be on its way
  pos,     \* how much of the last one has left
  line,    \* the bytes that have arrived, each with the frame and the place it comes from
  hurt,    \* where on the line the last damage is
  damaged, \* frames that lost a byte, had one garbled or were cut by a silence
  after,   \* frames that follow a silence in which the node held no header bytes
  faults, gaps,
  fed,     \* how much of the line the gateway has taken
  gw,      \* Decoder: _buf and _resync
  gwOut,   \* the frames it has yielded
  nd,      \* siap_dec_t
  ndOut    \* the frames it has ended with on_end

senderVars == <<sent, pos, damaged, faults, gaps>>
vars == <<senderVars, line, hurt, after, fed, gw, gwOut, nd, ndOut>>

-----------------------------------------------------------------------------
(* What both decoders see in a header.                                     *)

Sym(bytes, i) == bytes[i].sym
Defined(h)    == Sym(h, 2) \in Types
LayoutOf(h)   == LAYOUT[Sym(h, 2)]
PayloadLen(h) == Size(Sym(h, 2))
Total(h)      == HeaderBytes + PayloadLen(h)

\* resolve_kind finds a kind and element_count a number of elements.
Resolves(h) == Defined(h) /\ LayoutOf(h).fits

\* Violations 1, 3 and 4, 5, and 2, in the order in which they are looked for.
HeaderVerdict(h, accepts(_)) ==
  IF Sym(h, 1) # Version THEN "INVALID_VERSION"
  ELSE IF ~Resolves(h) THEN "INVALID_FORMAT"
  ELSE IF ~LayoutOf(h).trans THEN "INVALID_TRANSMISSION_TYPE"
  ELSE IF ~accepts(h) THEN "INVALID_NODE_ID"
  ELSE "SUCCESS"

Clean(bytes) == \A i \in DOMAIN bytes : Sym(bytes, i) # Bad

-----------------------------------------------------------------------------
(* Gateway: Decoder.feed, _try_extract, _resync_check and _decode_frame.   *)

GwAccepts(h) == LayoutOf(h).connect \/ Sym(h, 3) \in Known

\* Incomplete frames stay in the buffer; the fixed part and the elements are
\* looked at only when all of the frame is there.
GwVerdict(buf) ==
  LET header == HeaderVerdict(buf, GwAccepts) IN
  IF header # "SUCCESS" THEN header
  ELSE IF Len(buf) < Total(buf) THEN "INCOMPLETE"
  ELSE IF Clean(SubSeq(buf, HeaderBytes + 1, Total(buf))) THEN "SUCCESS" ELSE "INVALID_FORMAT"

\* A registered node is enough; so is a sound structure.
GwCandidate(buf) ==
  /\ Sym(buf, 1) = Version
  /\ Sym(buf, 3) \in Known \/ (Resolves(buf) /\ LayoutOf(buf).trans)

\* What is deleted with a frame: all of it, but of a violation, whose Payload
\* Length is not to be trusted, only the header (F-140).
MutTrustLength(buf, verdict) ==
  IF Defined(buf) THEN Total(buf) ELSE HeaderBytes
Taken(buf, verdict) == IF verdict = "SUCCESS" THEN Total(buf) ELSE HeaderBytes

\* Frame.raw, of a violation without its payload: how much of that it shows
\* depends on what had come, and the model leaves it out.
Raw(buf, verdict) == SubSeq(buf, 1, IF verdict = "SUCCESS" THEN Total(buf) ELSE HeaderBytes)

\* An incomplete frame waits in the buffer.
MutForget(d) == [d EXCEPT !.buf = << >>]
Kept(d) == d

Rest(buf, n) == SubSeq(buf, n + 1, Len(buf))

\* One round of the loop, on d = [buf, resync, out]: a byte is passed over, a frame
\* leaves the buffer, or there is nothing left to be done.
Round(d) ==
  IF Len(d.buf) < HeaderBytes THEN d
  ELSE IF d.resync /\ ~GwCandidate(d.buf) THEN [d EXCEPT !.buf = Tail(@)]
  ELSE LET verdict == GwVerdict(d.buf) IN
       IF verdict = "INCOMPLETE" THEN Kept([d EXCEPT !.resync = FALSE])
       ELSE [buf    |-> Rest(d.buf, Taken(d.buf, verdict)),
             resync |-> verdict # "SUCCESS",
             out    |-> Append(d.out, [raw |-> Raw(d.buf, verdict), rsc |-> verdict])]

\* The loop of feed.  Each round but the last takes a byte at least, so that as many
\* rounds as there are bytes reach its end, where a round changes nothing.
Extract(d) ==
  LET rounds[n \in 0..Len(d.buf)] == IF n = 0 THEN d ELSE Round(rounds[n - 1])
  IN  rounds[Len(d.buf)]

Feed ==
  /\ fed < Len(line)
  /\ LET d == Extract([buf |-> gw.buf \o Rest(line, fed), resync |-> gw.resync, out |-> gwOut]) IN
       gw' = [buf |-> d.buf, resync |-> d.resync] /\ gwOut' = d.out
  /\ fed' = Len(line)
  /\ UNCHANGED <<senderVars, line, hurt, after, nd, ndOut>>

-----------------------------------------------------------------------------
(* Node: siap_dec_feed and siap_dec_on_gap.  raw is not kept by the code:  *)
(* it collects the bytes of the frame for the properties.                  *)

\* _on_header takes every header.  A frame for another node is read to its end like
\* one of its own, and only the callbacks behind let it pass (Addressed in NodeState).
NdAccepts(h) == TRUE

\* The four conditions; the node is not among them.
NdCandidate(buf) == Sym(buf, 1) = Version /\ Resolves(buf) /\ LayoutOf(buf).trans

\* begin_drain: a violation is dropped, with `remaining' bytes of its payload.
Drained(remaining) ==
  [st |-> IF remaining = 0 THEN "HDR" ELSE "DRAIN", buf |-> << >>, resync |-> TRUE,
   i |-> 0, drain |-> remaining, raw |-> << >>]

Header(d) == SubSeq(d.raw, 1, HeaderBytes)
NoNews == ndOut' = ndOut
Ended(rsc, raw) == ndOut' = Append(ndOut, [raw |-> raw, rsc |-> rsc])

\* Nothing of a payload is dropped that only a violating header announces (F-141).
MutDrainsHeader(h) == IF Defined(h) THEN PayloadLen(h) ELSE 0
AfterHeader(h) == 0

NextState(h, afterFixed) ==
  IF ~afterFixed /\ LayoutOf(h).fixed > 0 THEN "FIXED"
  ELSE IF LayoutOf(h).elem > 0 /\ LayoutOf(h).n > 0 THEN "ELEM" ELSE "HDR"

InFrame(h, st, raw) ==
  [st |-> st, buf |-> << >>, resync |-> FALSE, i |-> 0, drain |-> 0,
   raw |-> IF st = "HDR" THEN << >> ELSE raw]

\* handle_header_complete, with the twelfth byte of a header.
HeaderComplete(buf) ==
  IF nd.resync /\ ~NdCandidate(buf)
  THEN nd' = [nd EXCEPT !.buf = Tail(buf)] /\ NoNews
  ELSE LET rsc == HeaderVerdict(buf, NdAccepts) st == NextState(buf, FALSE) IN
       IF rsc # "SUCCESS"
       THEN nd' = Drained(AfterHeader(buf)) /\ Ended(rsc, buf)
       ELSE /\ nd' = InFrame(buf, st, buf)
            /\ IF st = "HDR" THEN Ended("SUCCESS", buf) ELSE NoNews

\* The fixed part is complete.
FixedComplete(part, raw) ==
  LET h == Header(nd) st == NextState(h, TRUE) IN
  IF ~Clean(part)
  THEN nd' = Drained(LayoutOf(h).elem * LayoutOf(h).n) /\ Ended("INVALID_FORMAT", raw)
  ELSE /\ nd' = InFrame(h, st, raw)
       /\ IF st = "HDR" THEN Ended("SUCCESS", raw) ELSE NoNews

\* What a bad element leaves to drop: the elements behind it.
MutDrainsOneMore(h, i) == LayoutOf(h).elem * (LayoutOf(h).n - i)
BehindElement(h, i) == LayoutOf(h).elem * (LayoutOf(h).n - i - 1)

ElementComplete(part, raw) ==
  LET h == Header(nd) last == nd.i + 1 = LayoutOf(h).n IN
  IF ~Clean(part)
  THEN nd' = Drained(BehindElement(h, nd.i)) /\ Ended("INVALID_FORMAT", raw)
  ELSE IF last THEN nd' = InFrame(h, "HDR", raw) /\ Ended("SUCCESS", raw)
  ELSE nd' = [nd EXCEPT !.buf = << >>, !.i = @ + 1, !.raw = raw] /\ NoNews

NdFeed(byte) ==
  LET part == Append(nd.buf, byte) raw == Append(nd.raw, byte) IN
  CASE nd.st = "DRAIN" ->
         /\ nd' = [nd EXCEPT !.drain = @ - 1, !.st = IF nd.drain = 1 THEN "HDR" ELSE @]
         /\ NoNews
    [] nd.st = "HDR" /\ Len(part) = HeaderBytes -> HeaderComplete(part)
    [] nd.st = "FIXED" /\ Len(part) = LayoutOf(Header(nd)).fixed -> FixedComplete(part, raw)
    [] nd.st = "ELEM" /\ Len(part) = LayoutOf(Header(nd)).elem -> ElementComplete(part, raw)
    [] OTHER -> /\ nd' = [nd EXCEPT !.buf = part, !.raw = IF nd.st = "HDR" THEN @ ELSE raw]
                /\ NoNews

\* siap_dec_on_gap: bytes of a header are kept as a candidate, a frame is given up.
MutKeepsFrame(d) == [d EXCEPT !.resync = TRUE]
OnGap(d) ==
  IF d.st = "HDR" THEN [d EXCEPT !.resync = TRUE]
  ELSE [d EXCEPT !.st = "HDR", !.buf = << >>, !.resync = TRUE, !.raw = << >>]

-----------------------------------------------------------------------------
(* The sender and the line.                                                *)

AllSent == IF sent = << >> THEN TRUE ELSE pos = Len(Last(sent))

SendFrame(f) ==
  /\ AllSent /\ Len(sent) < MaxFrames
  /\ Len(sent) + 1 = MaxFrames => f \in Closing
  /\ sent' = Append(sent, f) /\ pos' = 0
  /\ UNCHANGED <<line, hurt, damaged, after, faults, gaps, fed, gw, gwOut, nd, ndOut>>

Arrives(sym) ==
  LET byte == [sym |-> sym, frame |-> Len(sent), at |-> pos + 1] IN
  /\ Len(line) - fed < MaxBehind
  /\ line' = Append(line, byte) /\ NdFeed(byte)

Leaves == ~AllSent /\ pos' = pos + 1 /\ UNCHANGED <<sent, after, gaps, fed, gw, gwOut>>

ByteArrives ==
  /\ Leaves /\ Arrives(Last(sent)[pos + 1])
  /\ UNCHANGED <<damaged, faults, hurt>>

Damages ==
  /\ faults < MaxFaults /\ faults' = faults + 1
  /\ damaged' = damaged \cup {Len(sent)} /\ hurt' = Len(line')

ByteLost == Leaves /\ UNCHANGED <<line, nd, ndOut>> /\ Damages

ByteGarbled(sym) ==
  /\ Leaves /\ sym # Last(sent)[pos + 1]
  /\ Arrives(sym) /\ Damages

\* T_gap without a byte, after one that came.  For the node it cuts a frame that
\* is on its way.
Gap ==
  /\ line # << >>
  /\ gaps < MaxGaps /\ gaps' = gaps + 1
  /\ nd' = OnGap(nd)
  /\ IF AllSent
     THEN /\ after' = IF nd.st = "HDR" /\ nd.buf # << >> THEN after ELSE after \cup {Len(sent) + 1}
          /\ UNCHANGED <<damaged, hurt>>
     ELSE damaged' = damaged \cup {Len(sent)} /\ hurt' = Len(line) /\ UNCHANGED after
  /\ UNCHANGED <<sent, pos, faults, line, fed, gw, gwOut, ndOut>>

Init ==
  /\ sent = << >> /\ pos = 0 /\ line = << >> /\ hurt = 0 /\ damaged = {} /\ after = {}
  /\ faults = 0 /\ gaps = 0 /\ fed = 0
  /\ gw = [buf |-> << >>, resync |-> FALSE] /\ gwOut = << >>
  /\ nd = [st |-> "HDR", buf |-> << >>, resync |-> FALSE, i |-> 0, drain |-> 0, raw |-> << >>]
  /\ ndOut = << >>

Next ==
  \/ \E f \in Sendable : SendFrame(f)
  \/ ByteArrives \/ ByteLost \/ \E sym \in Noise : ByteGarbled(sym)
  \/ Gap \/ Feed

Spec == Init /\ [][Next]_vars

-----------------------------------------------------------------------------
(* Properties.                                                             *)

\* The bytes of frame i, when none of them was lost or garbled.
Whole(i) == [k \in 1..Len(sent[i]) |-> [sym |-> sent[i][k], frame |-> i, at |-> k]]

ValidFrame(f, accepts(_)) ==
  /\ HeaderVerdict(f, accepts) = "SUCCESS" /\ Len(f) = Total(f)
  /\ Clean(SubSeq(f, HeaderBytes + 1, Len(f)))

Valid(i, accepts(_)) == ValidFrame(Whole(i), accepts)

Delivered(out, i) == [raw |-> Whole(i), rsc |-> "SUCCESS"] \in Range(out)

Arrived == { i \in 1..Len(sent) : i < Len(sent) \/ AllSent }
Start(i) == CHOOSE k \in 1..Len(line) : line[k].frame = i /\ \A j \in 1..(k - 1) : line[j].frame # i

\* Which frames and violations the gateway makes of the bytes does not depend on
\* how the transport cut them into chunks (Decoder.feed keeps what is incomplete).
ChunksDoNotMatter ==
  LET d == Extract([buf |-> SubSeq(line, 1, fed), resync |-> FALSE, out |-> << >>]) IN
  gw = [buf |-> d.buf, resync |-> d.resync] /\ gwOut = d.out

\* On a line without damage both decoders deliver every valid frame and no
\* other, also behind frames that are violations and whatever these announce as
\* their length (F-140, F-141).  The gateway's are those of the nodes it knows; the
\* node's decoder ends the frames of other nodes too, and loses nothing over them.
CleanLineDelivers ==
  damaged = {} => \A i \in Arrived :
    /\ fed = Len(line) => (Delivered(gwOut, i) <=> Valid(i, GwAccepts))
    /\ Delivered(ndOut, i) <=> Valid(i, NdAccepts)

MaxTotal == HeaderBytes + CHOOSE m \in { Size(t) : t \in Types } : \A t \in Types : Size(t) <= m

\* Damage costs a bounded stretch: at most one false frame and one header are
\* taken from what follows, and every valid frame behind that is delivered, by
\* both decoders, without any help of the sender.
Recovers ==
  \A i \in Arrived \ damaged :
    Start(i) - hurt >= MaxTotal + HeaderBytes =>
      /\ fed = Len(line) /\ Valid(i, GwAccepts) => Delivered(gwOut, i)
      /\ Valid(i, NdAccepts) => Delivered(ndOut, i)

\* For the node a silence ends the damage: the frame that follows is delivered,
\* unless bytes of a header were held over the silence (siap_dec_on_gap).
GapRestores ==
  \A i \in (Arrived \cap after) \ damaged : Valid(i, NdAccepts) => Delivered(ndOut, i)

-----------------------------------------------------------------------------
(* What has to be known of the frames for the first and the third: without *)
(* delimiter and checksum a payload can spell a frame.                     *)

Spelled(f) == [k \in 1..Len(f) |-> [sym |-> f[k]]]

\* A header that a decoder accepts announces the payload that is there.
WellFormed ==
  \A f \in Sendable :
    \/ HeaderVerdict(Spelled(f), GwAccepts) = "SUCCESS"
    \/ HeaderVerdict(Spelled(f), NdAccepts) = "SUCCESS"
    => Len(f) = Total(Spelled(f))

\* Nowhere but at its beginning do three bytes look like a header, the last ones
\* together with the first ones of a frame behind it.
Quiet(f) ==
  \A g \in Sendable : \A k \in 2..Len(f) :
    ~GwCandidate(SubSeq(Spelled(f) \o Spelled(g), k, k + HeaderBytes - 1))

ViolationsQuiet ==
  \A f \in Sendable :
    \/ Quiet(f)
    \/ ValidFrame(Spelled(f), GwAccepts) /\ ValidFrame(Spelled(f), NdAccepts)
AllQuiet == \A f \in Sendable : Quiet(f)
=============================================================================
