-------------------------------- MODULE Wire --------------------------------
(***************************************************************************)
(* The bits of a frame, as four programs see them that share no code:      *)
(* siap/codec.py (gateway), siap_frame.c (node), sim/_wire.py (virtual     *)
(* node) and the field slices that api.py shows.  Fields are not aligned   *)
(* to bytes, so that one wrong width shifts all that follows.              *)
(*                                                                         *)
(* A frame is a sequence of bits; a structure is a record of numbers.  A    *)
(* Value, of 32 bits, is a pair of halves; its conversion to a number is   *)
(* left out.  One frame is followed: a program writes it, the gateway and  *)
(* the node read it, and the gateway's screen shows what it has read.      *)
(***************************************************************************)
EXTENDS Integers, SequencesExt

CONSTANTS
  MaxDevices,   \* MAX_DEVICES_PER_NODE
  Lengths,      \* Payload Lengths
  Samples       \* frames: [mode, frame, tail], with tail bytes behind the elements

-----------------------------------------------------------------------------
(* Kinds of messages, and their codes and lengths (both sides).            *)

Operations ==
  << "SET_CONNECTION", "SET_DEVICE_INIT", "SET_DEVICE_INIT_ALL", "SET_NODE_PROPERTY",
     "SET_DEVICE_PROPERTY", "SET_NODE_DEVICE_PROPERTY_ALL", "SET_MSG_FLOW_CONTROL_PROFILE",
     "GET_NODE_PROPERTY", "GET_DEVICE_PROPERTY", "GET_NODE_DEVICE_PROPERTY_ALL",
     "GET_DEVICE_VALUE", "GET_MSG_FLOW_CONTROL_PROFILE", "SET_DEVICE_CONTROL", "SET_REBOOT" >>
Notices == << "ERROR", "DEVICE_VALUE", "DISCONNECT", "REBOOT", "KEEP_ALIVE" >>

Ack     == <<"ACK", "">>
MsgKind == ({"REQ", "RES"} \X Range(Operations)) \cup ({"NOTI"} \X Range(Notices)) \cup {Ack}
Modes   == {"strict", "extended"}

Req(op) == <<"REQ", op>>
Res(op) == <<"RES", op>>

Place(seq, x) == CHOOSE i \in DOMAIN seq : seq[i] = x

\* "strict" gives two notices one code (Table 7-4), "extended" does not.
NotiCode(notice, mode) ==
  LET i == Place(Notices, notice) IN
  IF mode = "strict" /\ i > 1 THEN 2048 + i - 2 ELSE 2048 + i - 1

WIRE_CODE(kind, mode) ==
  CASE kind[1] = "REQ"  -> Place(Operations, kind[2]) - 1
    [] kind[1] = "RES"  -> 1024 + Place(Operations, kind[2]) - 1
    [] kind[1] = "NOTI" -> NotiCode(kind[2], mode)
    [] OTHER            -> 3072

NP == 8
DMI == 7
DP == 30
MCP == 7
RSC == 1
NEC == 1
DID == 1

\* Bytes of the fixed part, bytes of an element.
LayoutOfKind(kind) ==
  CASE kind \in { Req("SET_DEVICE_INIT"), Req("GET_DEVICE_PROPERTY"), Req("GET_DEVICE_VALUE") }
                                                      -> [fixed |-> 0, elem |-> DID]
    [] kind = Req("SET_NODE_PROPERTY")                -> [fixed |-> NP, elem |-> 0]
    [] kind = Req("SET_DEVICE_PROPERTY")              -> [fixed |-> 0, elem |-> DP]
    [] kind = Req("SET_NODE_DEVICE_PROPERTY_ALL")     -> [fixed |-> NP, elem |-> DP]
    [] kind = Req("SET_MSG_FLOW_CONTROL_PROFILE")     -> [fixed |-> MCP, elem |-> 0]
    [] kind \in { Req("SET_DEVICE_CONTROL"), <<"NOTI", "DEVICE_VALUE">> }
                                                      -> [fixed |-> 0, elem |-> DMI]
    [] kind \in { Res("SET_CONNECTION"), Res("GET_NODE_DEVICE_PROPERTY_ALL") }
                                                      -> [fixed |-> RSC + NP, elem |-> DP]
    [] kind = Res("GET_NODE_PROPERTY")                -> [fixed |-> RSC + NP, elem |-> 0]
    [] kind = Res("GET_DEVICE_PROPERTY")              -> [fixed |-> RSC, elem |-> DP]
    [] kind = Res("GET_DEVICE_VALUE")                 -> [fixed |-> RSC, elem |-> DMI]
    [] kind = Res("GET_MSG_FLOW_CONTROL_PROFILE")     -> [fixed |-> RSC + MCP, elem |-> 0]
    [] kind = <<"NOTI", "ERROR">>                     -> [fixed |-> NEC, elem |-> 0]
    [] OTHER                -> [fixed |-> IF kind[1] = "RES" THEN RSC ELSE 0, elem |-> 0]

NoCount == -1

\* N is computed from Payload Length; a message of elements only has at least one.
element_count(kind, len) ==
  LET lay == LayoutOfKind(kind) rest == len - lay.fixed n == rest \div lay.elem IN
  IF rest < 0 THEN NoCount
  ELSE IF lay.elem = 0 THEN (IF rest = 0 THEN 0 ELSE NoCount)
  ELSE IF rest % lay.elem # 0 \/ (n = 0 /\ lay.fixed = 0) \/ n > MaxDevices THEN NoCount
  ELSE n

Candidates(code, mode) == { k \in MsgKind : WIRE_CODE(k, mode) = code }
Receivable(kind, len)  == element_count(kind, len) # NoCount

\* One candidate is taken as it is; of two the one that can have this length.
\* The second value is the clause that a failure is reported with (F-119).
NoKind == <<"", "">>
MutFirstCandidate(code, len, mode) ==
  LET cands == Candidates(code, mode) IN
  IF cands = {} THEN [kind |-> NoKind, clause |-> "Table 7-2"]
  ELSE [kind |-> CHOOSE k \in cands : TRUE, clause |-> ""]
ResolveKind(code, len, mode) ==
  LET cands == Candidates(code, mode) fit == { k \in cands : Receivable(k, len) } IN
  IF cands = {} THEN [kind |-> NoKind, clause |-> "Table 7-2"]
  ELSE IF \E k \in cands : cands = {k} THEN [kind |-> CHOOSE k \in cands : TRUE, clause |-> ""]
  ELSE IF fit # {} THEN [kind |-> CHOOSE k \in fit : TRUE, clause |-> ""]
  ELSE [kind |-> NoKind, clause |-> "7.3.1"]

-----------------------------------------------------------------------------
(* Reading and writing of bits: BitWriter and BitReader, bp_write and      *)
(* bp_read, _Writer and _Reader.  Most significant bit first.              *)

Numbers(w)  == 0..(2^w - 1)
Fits(v, w)  == IF w = 32 THEN v \in Numbers(16) \X Numbers(16) ELSE v \in Numbers(w)
Digits(v, w) == [i \in 1..w |-> (v \div 2^(w - i)) % 2]
Bits(v, w)  == IF w = 32 THEN Digits(v[1], 16) \o Digits(v[2], 16) ELSE Digits(v, w)
Number(bits) == LET v[i \in 0..Len(bits)] == IF i = 0 THEN 0 ELSE 2 * v[i - 1] + bits[i] IN v[Len(bits)]
Value(bits) ==
  IF Len(bits) = 32 THEN <<Number(SubSeq(bits, 1, 16)), Number(SubSeq(bits, 17, 32))>>
  ELSE Number(bits)

Byte(bits, i) == Number(SubSeq(bits, 8 * i - 7, 8 * i))
Bytes(bits, from, n) == SubSeq(bits, 8 * from + 1, 8 * (from + n))

\* A layout is a sequence of names and widths.  Reserved bits are written as
\* zero and not looked at.
Offset(layout, i) ==
  LET n[j \in 1..(Len(layout) + 1)] == IF j = 1 THEN 0 ELSE n[j - 1] + layout[j - 1][2] IN n[i]
Width(layout)     == Offset(layout, Len(layout) + 1)
Fields(layout)    == { f[1] : f \in Range(layout) } \ {"reserved"}

AllFit(layout, rec) == \A i \in DOMAIN layout : layout[i][1] # "reserved" => Fits(rec[layout[i][1]], layout[i][2])
Put(layout, rec) ==
  FlattenSeq([i \in DOMAIN layout |->
    Bits(IF layout[i][1] = "reserved" THEN 0 ELSE rec[layout[i][1]], layout[i][2])])
Get(layout, bits) ==
  [ name \in Fields(layout) |->
      LET i == CHOOSE j \in DOMAIN layout : layout[j][1] = name
      IN  Value(SubSeq(bits, Offset(layout, i) + 1, Offset(layout, i) + layout[i][2])) ]

-----------------------------------------------------------------------------
(* The structures, in each of the programs.                                *)

GwHeader == << <<"version", 8>>, <<"msg_type", 14>>, <<"trans_type", 2>>, <<"msg_id", 16>>,
               <<"payload_len", 16>>, <<"gcg_id", 20>>, <<"node_id", 20>> >>
GwNP     == << <<"sw_version", 8>>, <<"gcg_id", 20>>, <<"node_id", 20>>, <<"status", 8>>,
               <<"num_devices", 8>> >>
GwDMI    == << <<"device_id", 8>>, <<"dev_type", 1>>, <<"subtype", 8>>, <<"value_type", 2>>,
               <<"reserved", 5>>, <<"value", 32>> >>
GwDP     == GwDMI \o
            << <<"transfer_mode", 2>>, <<"period", 14>>, <<"lower_value", 32>>, <<"upper_value", 32>>,
               <<"lower_limit", 32>>, <<"upper_limit", 32>>, <<"precision", 32>>, <<"status", 8>> >>
GwMCP    == << <<"recv_timeout", 16>>, <<"num_retry", 8>>, <<"noti_error_interval", 16>>,
               <<"keep_alive_interval", 16>> >>

NdHeader == << <<"version", 8>>, <<"msg_type", 14>>, <<"trans_type", 2>>, <<"msg_id", 16>>,
               <<"payload_len", 16>>, <<"gcg_id", 20>>, <<"node_id", 20>> >>
NdNP     == << <<"sw_version", 8>>, <<"gcg_id", 20>>, <<"node_id", 20>>, <<"status", 8>>,
               <<"num_devices", 8>> >>
NdDMI    == << <<"device_id", 8>>, <<"dev_type", 1>>, <<"subtype", 8>>, <<"value_type", 2>>,
               <<"reserved", 5>>, <<"value", 32>> >>
NdDP     == NdDMI \o
            << <<"transfer_mode", 2>>, <<"period", 14>>, <<"lower_value", 32>>, <<"upper_value", 32>>,
               <<"lower_limit", 32>>, <<"upper_limit", 32>>, <<"precision", 32>>, <<"status", 8>> >>
NdMCP    == << <<"recv_timeout", 16>>, <<"num_retry", 8>>, <<"noti_error_interval", 16>>,
               <<"keep_alive_interval", 16>> >>

\* The virtual node writes a DEVICE_PROPERTY out flat.
SimHeader == << <<"version", 8>>, <<"msg_type", 14>>, <<"trans_type", 2>>, <<"msg_id", 16>>,
                <<"payload_len", 16>>, <<"gcg_id", 20>>, <<"node_id", 20>> >>
SimNP     == << <<"sw_version", 8>>, <<"gcg_id", 20>>, <<"node_id", 20>>, <<"status", 8>>,
                <<"num_devices", 8>> >>
SimDMI    == << <<"device_id", 8>>, <<"dev_type", 1>>, <<"subtype", 8>>, <<"value_type", 2>>,
                <<"reserved", 5>>, <<"value", 32>> >>
SimDP     == << <<"device_id", 8>>, <<"dev_type", 1>>, <<"subtype", 8>>, <<"value_type", 2>>,
                <<"reserved", 5>>, <<"value", 32>>, <<"transfer_mode", 2>>, <<"period", 14>>,
                <<"lower_value", 32>>, <<"upper_value", 32>>, <<"lower_limit", 32>>,
                <<"upper_limit", 32>>, <<"precision", 32>>, <<"status", 8>> >>

Gateway     == [header |-> GwHeader, np |-> GwNP, dmi |-> GwDMI, dp |-> GwDP, mcp |-> GwMCP]
Node        == [header |-> NdHeader, np |-> NdNP, dmi |-> NdDMI, dp |-> NdDP, mcp |-> NdMCP]
VirtualNode == [header |-> SimHeader, np |-> SimNP, dmi |-> SimDMI, dp |-> SimDP]

-----------------------------------------------------------------------------
(* A frame: its header, and of the parts those that its kind has.          *)

LeadingRsc(kind) == kind[1] = "RES"
NotiError == <<"NOTI", "ERROR">>

\* Where NODE_PROPERTY begins in the fixed part.
NoOffset == -1
NPOffset(kind) ==
  CASE kind \in { Req("SET_NODE_PROPERTY"), Req("SET_NODE_DEVICE_PROPERTY_ALL") } -> 0
    [] kind \in { Res("SET_CONNECTION"), Res("GET_NODE_PROPERTY"),
                  Res("GET_NODE_DEVICE_PROPERTY_ALL") } -> RSC
    [] OTHER -> NoOffset
HasNP(kind)  == NPOffset(kind) # NoOffset
HasMCP(kind) == kind \in { Req("SET_MSG_FLOW_CONTROL_PROFILE"), Res("GET_MSG_FLOW_CONTROL_PROFILE") }

FixedPart(f, p) ==
     (IF LeadingRsc(f.kind) THEN Bits(f.rsc, 8) ELSE << >>)
  \o (IF f.kind = NotiError THEN Bits(f.nec, 8) ELSE << >>)
  \o (IF HasNP(f.kind) THEN Put(p.np, f.np) ELSE << >>)
  \o (IF HasMCP(f.kind) THEN Put(p.mcp, f.mcp) ELSE << >>)

PutElement(kind, e, p) ==
  CASE LayoutOfKind(kind).elem = DID -> Bits(e, 8)
    [] LayoutOfKind(kind).elem = DMI -> Put(p.dmi, e)
    [] LayoutOfKind(kind).elem = DP  -> Put(p.dp, e)
GetElement(kind, bits, p) ==
  CASE LayoutOfKind(kind).elem = DID -> Byte(bits, 1)
    [] LayoutOfKind(kind).elem = DMI -> Get(p.dmi, bits)
    [] LayoutOfKind(kind).elem = DP  -> Get(p.dp, bits)

Body(f, p) == FixedPart(f, p) \o FlattenSeq([i \in DOMAIN f.elems |-> PutElement(f.kind, f.elems[i], p)])

\* The bits of f, whether or not p would send them.
Frame(f, p) == Put(p.header, f.header) \o Body(f, p)

\* A number in a sample has the width of its field: what has not is sent by
\* nobody who looks, and by the others as the number that its last bits make.
IsRecord(layout, rec) == rec = [name \in Fields(layout) |-> rec[name]] /\ AllFit(layout, rec)
IsElement(kind, e) ==
  LET size == LayoutOfKind(kind).elem IN
  /\ size \in {DID, DMI, DP}
  /\ size = DID => Fits(e, 8)
  /\ size = DMI => IsRecord(GwDMI, e)
  /\ size = DP  => IsRecord(GwDP, e)
IsFrame(f) ==
  /\ f.kind \in MsgKind /\ IsRecord(GwHeader, f.header)
  /\ Fits(f.rsc, 8) /\ Fits(f.nec, 8) /\ IsRecord(GwNP, f.np) /\ IsRecord(GwMCP, f.mcp)
  /\ f.elems \in Seq(Range(f.elems)) /\ \A e \in Range(f.elems) : IsElement(f.kind, e)

ASSUME WireAssumption ==
  /\ MaxDevices \in 0..255 /\ Lengths \subseteq Nat  \* Number of Devices is one byte
  /\ \A s \in Samples : s.mode \in Modes /\ s.tail \in Nat /\ IsFrame(s.frame)

-----------------------------------------------------------------------------
(* What the codecs refuse, with the code and the clause they give.         *)

Ok == <<"SUCCESS", "">>
BadFormat == <<"INVALID_FORMAT", "7.3.1">>

SIAP_VERSION == 18
HEADER_BYTES == 12
FLOAT == 2
MaxRSC == 9
MaxNEC == 9
MaxStatus == 2
MaxMode == 2
MaxTrans == 2
SUBTYPE_CODES == (1..10) \cup (129..134)

\* encode_dmi, encode_dp
GwEncodesDMI(d) ==
  IF d.value_type > FLOAT THEN <<"INVALID_DATA_TYPE", "Table 7-14">>
  ELSE IF d.subtype \notin SUBTYPE_CODES THEN <<"INVALID_DATA_SUBTYPE", "Table 7-14">>
  ELSE IF AllFit(GwDMI, d) THEN Ok ELSE BadFormat
GwEncodesDP(d) ==
  IF d.transfer_mode > MaxMode \/ d.status > MaxStatus THEN BadFormat
  ELSE IF GwEncodesDMI(d) # Ok THEN GwEncodesDMI(d)
  ELSE IF AllFit(GwDP, d) THEN Ok ELSE BadFormat

MutAnyStatus(np) == AllFit(GwNP, np)
GwEncodesNP(np) == np.status <= MaxStatus /\ AllFit(GwNP, np)

\* encode_frame raises ValueRangeError unless
GwEncodes(f) ==
  /\ LeadingRsc(f.kind) => f.rsc <= MaxRSC
  /\ f.kind = NotiError => f.nec <= MaxNEC
  /\ HasNP(f.kind)      => GwEncodesNP(f.np)
  /\ HasMCP(f.kind)     => AllFit(GwMCP, f.mcp)
  /\ Len(FixedPart(f, Gateway)) = 8 * LayoutOfKind(f.kind).fixed
  /\ \A e \in Range(f.elems) :
       CASE LayoutOfKind(f.kind).elem = DID -> Fits(e, 8)
         [] LayoutOfKind(f.kind).elem = DMI -> GwEncodesDMI(e) = Ok
         [] LayoutOfKind(f.kind).elem = DP  -> GwEncodesDP(e) = Ok
  /\ 8 * f.header.payload_len = Len(Body(f, Gateway))
  /\ AllFit(GwHeader, f.header)

\* siap_tx_put_rsc, _nec, _np, _mcp, _device_id, _dmi and _dp
NdEncodesDMI(d) ==
  /\ d.value_type <= FLOAT /\ d.subtype \in SUBTYPE_CODES
  /\ AllFit(NdDMI, d)
NdEncodesDP(d) ==
  d.transfer_mode <= MaxMode /\ d.status <= MaxStatus /\ NdEncodesDMI(d) /\ AllFit(NdDP, d)
NdEncodesNP(np) == np.status <= MaxStatus /\ AllFit(NdNP, np)
NdEncodes(f) ==
  /\ AllFit(NdHeader, f.header)
  /\ LeadingRsc(f.kind) => f.rsc <= MaxRSC
  /\ f.kind = NotiError => f.nec <= MaxNEC
  /\ HasNP(f.kind)      => NdEncodesNP(f.np)
  /\ HasMCP(f.kind)     => AllFit(NdMCP, f.mcp)
  /\ \A e \in Range(f.elems) :
       CASE LayoutOfKind(f.kind).elem = DID -> Fits(e, 8)
         [] LayoutOfKind(f.kind).elem = DMI -> NdEncodesDMI(e)
         [] LayoutOfKind(f.kind).elem = DP  -> NdEncodesDP(e)

\* decode_dmi, decode_dp
GwDecodesDMI(d) ==
  IF d.value_type = 3 THEN <<"INVALID_DATA_TYPE", "Table 7-14">>
  ELSE IF d.subtype \notin SUBTYPE_CODES THEN <<"INVALID_DATA_SUBTYPE", "Table 7-14">>
  ELSE Ok
GwDecodesDP(d) ==
  IF GwDecodesDMI(d) # Ok THEN GwDecodesDMI(d)
  ELSE IF d.transfer_mode > MaxMode \/ d.status > MaxStatus THEN BadFormat
  ELSE Ok

\* siap_decode_dmi, siap_decode_dp
MutSubtypeFirst(d) ==
  IF d.subtype \notin SUBTYPE_CODES THEN <<"INVALID_DATA_SUBTYPE", "Table 7-14">>
  ELSE IF d.value_type = 3 THEN <<"INVALID_DATA_TYPE", "Table 7-14">>
  ELSE Ok
NdDecodesDMI(d) ==
  IF d.value_type = 3 THEN <<"INVALID_DATA_TYPE", "Table 7-14">>
  ELSE IF d.subtype \notin SUBTYPE_CODES THEN <<"INVALID_DATA_SUBTYPE", "Table 7-14">>
  ELSE Ok
NdDecodesDP(d) ==
  IF NdDecodesDMI(d) # Ok THEN NdDecodesDMI(d)
  ELSE IF d.transfer_mode > MaxMode \/ d.status > MaxStatus THEN BadFormat
  ELSE Ok

\* _decode_frame, of a fixed part that is n elements long by its Payload Length.
GwFixedOk(kind, fixed, n) ==
  LET lay == LayoutOfKind(kind) at == NPOffset(kind) IN
  /\ LeadingRsc(kind) => Byte(fixed, 1) <= MaxRSC
  /\ kind = NotiError => Byte(fixed, 1) <= MaxNEC
  /\ HasNP(kind) /\ lay.elem = DP /\ at + NP = lay.fixed => Byte(fixed, lay.fixed) = n
  /\ HasNP(kind) => Get(GwNP, Bytes(fixed, at, NP)).status <= MaxStatus

\* siap_dec_feed; the byte of Status is looked at where it lies.
NdFixedOk(kind, fixed, n) ==
  LET lay == LayoutOfKind(kind) IN
  /\ lay.elem = DP /\ lay.fixed >= NP => Byte(fixed, lay.fixed) = n % 256
  /\ LeadingRsc(kind) => Byte(fixed, 1) <= MaxRSC
  /\ kind = NotiError => Byte(fixed, 1) <= MaxNEC
  /\ HasNP(kind) => Byte(fixed, NPOffset(kind) + 7) <= MaxStatus

-----------------------------------------------------------------------------
(* What a decoder makes of a frame.  Whether it knows the Node ID is not   *)
(* looked at here.                                                         *)

\* _decode_frame and handle_header_complete: the header.
GwDecodesHeader(h, mode) ==
  LET found == ResolveKind(h.msg_type, h.payload_len, mode) IN
  IF h.version # SIAP_VERSION THEN <<"INVALID_VERSION", "7.3.1">>
  ELSE IF found.kind = NoKind THEN <<"INVALID_FORMAT", found.clause>>
  ELSE IF ~Receivable(found.kind, h.payload_len) THEN BadFormat
  ELSE IF h.trans_type > MaxTrans THEN <<"INVALID_TRANSMISSION_TYPE", "Table 7-6">>
  ELSE Ok
NdDecodesHeader(h, mode) ==
  LET found == ResolveKind(h.msg_type, h.payload_len, mode) IN
  IF h.version # SIAP_VERSION THEN <<"INVALID_VERSION", "7.3.1">>
  ELSE IF found.kind = NoKind THEN <<"INVALID_FORMAT", found.clause>>
  ELSE IF ~Receivable(found.kind, h.payload_len) THEN BadFormat
  ELSE IF h.trans_type > MaxTrans THEN <<"INVALID_TRANSMISSION_TYPE", "Table 7-6">>
  ELSE Ok

GwDecodesElement(kind, e) ==
  CASE LayoutOfKind(kind).elem = DMI -> GwDecodesDMI(e)
    [] LayoutOfKind(kind).elem = DP  -> GwDecodesDP(e)
    [] OTHER                         -> Ok
NdDecodesElement(kind, e) ==
  CASE LayoutOfKind(kind).elem = DMI -> NdDecodesDMI(e)
    [] LayoutOfKind(kind).elem = DP  -> NdDecodesDP(e)
    [] OTHER                         -> Ok

\* Of several bad elements the first one counts.
FirstBad(verdicts) ==
  LET bad == { i \in DOMAIN verdicts : verdicts[i] # Ok } IN
  IF bad = {} THEN Ok ELSE verdicts[Min(bad)]

HeaderOf(bits, p) == Get(p.header, SubSeq(bits, 1, 8 * HEADER_BYTES))
BodyOf(bits)      == SubSeq(bits, 8 * HEADER_BYTES + 1, Len(bits))

\* What is read from the body of a frame with n elements.
None == << >>
Content(kind, n, body, p) ==
  LET lay == LayoutOfKind(kind) IN
  [ code  |-> IF LeadingRsc(kind) \/ kind = NotiError THEN <<Byte(body, 1)>> ELSE None,
    np    |-> IF HasNP(kind) THEN Get(p.np, Bytes(body, NPOffset(kind), NP)) ELSE None,
    mcp   |-> IF HasMCP(kind) THEN Get(p.mcp, Bytes(body, lay.fixed - MCP, MCP)) ELSE None,
    elems |-> [ i \in 1..n |->
                  GetElement(kind, Bytes(body, lay.fixed + (i - 1) * lay.elem, lay.elem), p) ] ]

GwDecode(bits, mode) ==
  LET h    == HeaderOf(bits, Gateway)
      kind == ResolveKind(h.msg_type, h.payload_len, mode).kind
      n    == element_count(kind, h.payload_len)
      c    == Content(kind, n, BodyOf(bits), Gateway)
      bad  == FirstBad([i \in 1..n |-> GwDecodesElement(kind, c.elems[i])])
      Refused(verdict) == [verdict |-> verdict, kind |-> NoKind, content |-> None]
  IN  IF GwDecodesHeader(h, mode) # Ok THEN Refused(GwDecodesHeader(h, mode))
      ELSE IF ~GwFixedOk(kind, BodyOf(bits), n) THEN Refused(BadFormat)
      ELSE IF bad # Ok THEN Refused(bad)
      ELSE [verdict |-> Ok, kind |-> kind, content |-> c]

NdDecode(bits, mode) ==
  LET h    == HeaderOf(bits, Node)
      kind == ResolveKind(h.msg_type, h.payload_len, mode).kind
      n    == element_count(kind, h.payload_len)
      c    == Content(kind, n, BodyOf(bits), Node)
      bad  == FirstBad([i \in 1..n |-> NdDecodesElement(kind, c.elems[i])])
      Refused(verdict) == [verdict |-> verdict, kind |-> NoKind, content |-> None]
  IN  IF NdDecodesHeader(h, mode) # Ok THEN Refused(NdDecodesHeader(h, mode))
      ELSE IF ~NdFixedOk(kind, BodyOf(bits), n) THEN Refused(BadFormat)
      ELSE IF bad # Ok THEN Refused(bad)
      ELSE [verdict |-> Ok, kind |-> kind, content |-> c]

-----------------------------------------------------------------------------
(* The virtual node: the frames it builds and the elements it reads.       *)

SimCode(kind) ==
  CASE kind = Req("SET_CONNECTION")               -> 0
    [] kind = Req("SET_NODE_DEVICE_PROPERTY_ALL") -> 5
    [] kind = <<"NOTI", "DEVICE_VALUE">>          -> 2048
    [] kind = <<"NOTI", "KEEP_ALIVE">>            -> 2051
    [] kind = Res("SET_DEVICE_PROPERTY")          -> 1028
    [] kind = Res("SET_DEVICE_CONTROL")           -> 1036
SimBuilds == { Req("SET_CONNECTION"), Req("SET_NODE_DEVICE_PROPERTY_ALL"), <<"NOTI", "DEVICE_VALUE">>,
               <<"NOTI", "KEEP_ALIVE">>, Res("SET_DEVICE_PROPERTY"), Res("SET_DEVICE_CONTROL") }
SimReads  == { Req("SET_DEVICE_CONTROL"), Req("SET_DEVICE_PROPERTY") }

\* build_...: the header is the builder's, the length that of the body.
SimFrame(f) ==
  LET body == Body(f, VirtualNode) IN
  Put(VirtualNode.header,
      [f.header EXCEPT !.version = SIAP_VERSION, !.msg_type = SimCode(f.kind), !.trans_type = 0,
                       !.payload_len = Len(body) \div 8]) \o body

\* decode_req_set_device_control, decode_req_set_device_property
SimElements(kind, body) ==
  LET size == LayoutOfKind(kind).elem IN
  [ i \in 1..(Len(body) \div (8 * size)) |->
      GetElement(kind, Bytes(body, (i - 1) * size, size), VirtualNode) ]

-----------------------------------------------------------------------------
(* The fields of a frame as the screen shows them.                         *)

WebHeader == << <<"version", 8>>, <<"msg_type", 14>>, <<"trans_type", 2>>, <<"msg_id", 16>>,
                <<"payload_len", 16>>, <<"gcg_id", 20>>, <<"node_id", 20>> >>
MutWebDMI == << <<"device_id", 8>>, <<"dev_type", 1>>, <<"subtype", 8>>, <<"reserved", 5>>,
                <<"value_type", 2>>, <<"value", 32>> >>
WebDMI    == << <<"device_id", 8>>, <<"dev_type", 1>>, <<"subtype", 8>>, <<"value_type", 2>>,
                <<"reserved", 5>>, <<"value", 32>> >>
WebDP     == WebDMI \o
             << <<"transfer_mode", 2>>, <<"period", 14>>, <<"lower_value", 32>>, <<"upper_value", 32>>,
                <<"lower_limit", 32>>, <<"upper_limit", 32>>, <<"precision", 32>>, <<"status", 8>> >>

Slices(layout, rec, offset) ==
  [ i \in DOMAIN layout |->
      [bit_offset |-> offset + Offset(layout, i), bit_width |-> layout[i][2],
       raw |-> IF layout[i][1] = "reserved" THEN 0 ELSE rec[layout[i][1]]] ]

header_field_slices(h) == Slices(WebHeader, h, 0)

\* Elements are laid out behind the header, whether or not a fixed part is there.
payload_field_slices(kind, elems) ==
  LET layout == IF LayoutOfKind(kind).elem = DP THEN WebDP ELSE WebDMI IN
  FlattenSeq([i \in DOMAIN elems |-> Slices(layout, elems[i], Width(WebHeader) + (i - 1) * Width(layout))])

\* Device identifiers alone are not stored.
FieldSlices(header, decoded) ==
  header_field_slices(header) \o
  (IF LayoutOfKind(decoded.kind).elem \in {DMI, DP}
   THEN payload_field_slices(decoded.kind, decoded.content.elems) ELSE << >>)

-----------------------------------------------------------------------------
(* One frame is written and read.                                          *)

VARIABLES
  sample,  \* the frame, and the mode of everybody
  by,      \* who has written it
  bits,    \* what was written
  gw, nd   \* what the gateway's and the node's decoders made of it

vars == <<sample, by, bits, gw, nd>>

f == sample.frame

\* The frame is as the builders and the handlers of the node make frames: a
\* header of their own, the number of devices that of the elements.
Built ==
  /\ sample.tail = 0 /\ GwDecodesHeader(f.header, sample.mode) = Ok
  /\ f.header.msg_type = WIRE_CODE(f.kind, sample.mode)
  /\ f.header.payload_len = LayoutOfKind(f.kind).fixed + Len(f.elems) * LayoutOfKind(f.kind).elem
  /\ HasNP(f.kind) /\ LayoutOfKind(f.kind).elem = DP => f.np.num_devices = Len(f.elems)

NotRead == [verdict |-> << >>, kind |-> NoKind, content |-> None]

Init ==
  /\ sample \in Samples
  /\ by = "nobody" /\ bits = << >> /\ gw = NotRead /\ nd = NotRead

Write(who, written) ==
  /\ by = "nobody"
  /\ by' = who /\ bits' = written
  /\ UNCHANGED <<sample, gw, nd>>

GatewayWrites     == Built /\ GwEncodes(f) /\ Write("gateway", Frame(f, Gateway))
NodeWrites        == Built /\ NdEncodes(f) /\ Write("node", Frame(f, Node))
\* The virtual node sends nothing that is reserved.
VirtualNodeWrites ==
  Built /\ sample.mode = "strict" /\ f.kind \in SimBuilds /\ NdEncodes(f) /\ Write("virtual node", SimFrame(f))
\* A sender that checks nothing.
AnybodyWrites     == Write("anybody", Frame(f, Gateway) \o [i \in 1..(8 * sample.tail) |-> 0])

GatewayReads ==
  /\ by # "nobody" /\ gw = NotRead
  /\ gw' = GwDecode(bits, sample.mode)
  /\ UNCHANGED <<sample, by, bits, nd>>
NodeReads ==
  /\ by # "nobody" /\ nd = NotRead
  /\ nd' = NdDecode(bits, sample.mode)
  /\ UNCHANGED <<sample, by, bits, gw>>

Next == \/ GatewayWrites \/ NodeWrites \/ VirtualNodeWrites \/ AnybodyWrites
        \/ GatewayReads \/ NodeReads
Spec == Init /\ [][Next]_vars

-----------------------------------------------------------------------------
(* Properties.                                                             *)

\* Whatever length a message can have, the decoders take its code for the kind
\* that was sent, the two notices with one code included (resolve_kind: the
\* sets of their lengths are disjoint).
KindsApart ==
  by = "nobody" => \A len \in Lengths :
    Receivable(f.kind, len) =>
      ResolveKind(WIRE_CODE(f.kind, sample.mode), len, sample.mode).kind = f.kind

\* Of a frame with one fault or two, the gateway and the node give the same
\* verdict, with the same clause, and of a sound one they read the same (a
\* violation shown to a user is the one the node would see).
DecodersAgree == gw # NotRead /\ nd # NotRead => gw = nd

\* What the frame carries, as a decoder gives it back.
Carried ==
  [ code  |-> IF LeadingRsc(f.kind) THEN <<f.rsc>> ELSE IF f.kind = NotiError THEN <<f.nec>> ELSE None,
    np    |-> IF HasNP(f.kind) THEN f.np ELSE None,
    mcp   |-> IF HasMCP(f.kind) THEN f.mcp ELSE None,
    elems |-> f.elems ]
Understood(decoded) == decoded = [verdict |-> Ok, kind |-> f.kind, content |-> Carried]

\* What a program sends is read as it was meant, in every field; and a decoder
\* accepts nothing that the encoder on the other side would refuse to send (F-047:
\* with a check on one side only, a frame goes out that is then a violation).
SentIsAccepted ==
  /\ gw # NotRead /\ by # "anybody" => Understood(gw)
  /\ nd # NotRead /\ by # "anybody" => Understood(nd)
  /\ gw # NotRead /\ Built => (gw.verdict = Ok <=> NdEncodes(f))
  /\ nd # NotRead /\ Built => (nd.verdict = Ok <=> GwEncodes(f))
  /\ by # "nobody" /\ Built /\ f.kind \in SimReads => SimElements(f.kind, BodyOf(bits)) = f.elems

\* Every field that the screen shows of a valid frame is found in its bytes at
\* the offset and with the width that are shown with it.
SlicesShowEveryFrame ==
  gw.verdict = Ok =>
    LET slices == FieldSlices(HeaderOf(bits, Gateway), gw) IN
    \A i \in DOMAIN slices :
      LET at == slices[i].bit_offset IN
      Value(SubSeq(bits, at + 1, at + slices[i].bit_width)) = slices[i].raw

\* That is so of the messages that are elements only.  Elements behind a fixed
\* part, as in a node's declaration, are shown too early by its length.
SlicesShowFrame == LayoutOfKind(gw.kind).fixed = 0 => SlicesShowEveryFrame
=============================================================================
