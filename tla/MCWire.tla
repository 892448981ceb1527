-------------------------------- MODULE MCWire --------------------------------
(* Instance of Wire for TLC. *)
EXTENDS Wire

(* Frames: of every kind, with no, one, two and too many elements, sound   *)
(* or with one fault or two of those that some decoder looks for.          *)

\* Fields are filled with small numbers that differ, or with as many ones as
\* they may have.
MCElement(kind, i, full) ==
  LET ones == <<65535, 65535>>
      main == IF full
              THEN [device_id |-> 255, dev_type |-> 1, subtype |-> 134, value_type |-> 2, value |-> ones]
              ELSE [device_id |-> i, dev_type |-> 1, subtype |-> 129, value_type |-> 1, value |-> <<258, i>>]
      more == IF full
              THEN [transfer_mode |-> 2, period |-> 16383, lower_value |-> ones, upper_value |-> ones,
                    lower_limit |-> ones, upper_limit |-> ones, precision |-> ones, status |-> 2]
              ELSE [transfer_mode |-> 1, period |-> 300, lower_value |-> <<0, 5>>, upper_value |-> <<9, 6>>,
                    lower_limit |-> <<0, 7>>, upper_limit |-> <<65535, 8>>, precision |-> <<16, 9>>,
                    status |-> 1]
  IN  CASE LayoutOfKind(kind).elem = DID -> main.device_id
        [] LayoutOfKind(kind).elem = DMI -> main
        [] LayoutOfKind(kind).elem = DP  -> main @@ more

MCFrame(kind, n, mode, full) ==
  LET id(small) == IF full THEN 1048575 ELSE small IN
  [ kind   |-> kind,
    header |-> [version |-> SIAP_VERSION, msg_type |-> WIRE_CODE(kind, mode),
                trans_type |-> 0, msg_id |-> IF full THEN 65535 ELSE 259,
                payload_len |-> LayoutOfKind(kind).fixed + n * LayoutOfKind(kind).elem,
                gcg_id |-> id(4097), node_id |-> id(7)],
    rsc    |-> IF full THEN 9 ELSE 4,
    nec    |-> IF full THEN 9 ELSE 5,
    np     |-> [sw_version |-> IF full THEN 255 ELSE 3, gcg_id |-> id(4097), node_id |-> id(7),
                status |-> IF full THEN 2 ELSE 1, num_devices |-> n],
    mcp    |-> IF full
               THEN [recv_timeout |-> 65535, num_retry |-> 255, noti_error_interval |-> 65535,
                     keep_alive_interval |-> 65535]
               ELSE [recv_timeout |-> 1000, num_retry |-> 3, noti_error_interval |-> 60,
                     keep_alive_interval |-> 30],
    elems  |-> [i \in 1..n |-> MCElement(kind, i, full)] ]

\* The faults that a frame of this kind with n elements can have.
MCFaults(kind, n) ==
  LET lay == LayoutOfKind(kind) IN
     {"version", "code", "trans", "tail"}
  \cup (IF LeadingRsc(kind) THEN {"rsc"} ELSE {})
  \cup (IF kind = NotiError THEN {"nec"} ELSE {})
  \cup (IF HasNP(kind) THEN {"status"} ELSE {})
  \cup (IF HasNP(kind) /\ lay.elem = DP THEN {"count"} ELSE {})
  \cup (IF n > 0 /\ lay.elem \in {DMI, DP} THEN {"first", "last"} ELSE {})
  \cup (IF n > 0 /\ lay.elem = DP THEN {"mode", "state"} ELSE {})

\* In the first element a subtype, in the last one a type of values.
MCHurt(s, fault) ==
  LET n == Len(s.frame.elems) IN
  CASE fault = "version" -> [s EXCEPT !.frame.header.version = 17]
    [] fault = "code"    -> [s EXCEPT !.frame.header.msg_type = 14]
    [] fault = "trans"   -> [s EXCEPT !.frame.header.trans_type = 3]
    [] fault = "tail"    -> [s EXCEPT !.frame.header.payload_len = @ + 1, !.tail = @ + 1]
    [] fault = "rsc"     -> [s EXCEPT !.frame.rsc = 10]
    [] fault = "nec"     -> [s EXCEPT !.frame.nec = 10]
    [] fault = "status"  -> [s EXCEPT !.frame.np.status = 3]
    [] fault = "count"   -> [s EXCEPT !.frame.np.num_devices = @ + 1]
    [] fault = "first"   -> [s EXCEPT !.frame.elems[1].subtype = 11]
    [] fault = "last"    -> [s EXCEPT !.frame.elems[n].value_type = 3]
    [] fault = "mode"    -> [s EXCEPT !.frame.elems[n].transfer_mode = 3]
    [] fault = "state"   -> [s EXCEPT !.frame.elems[1].status = 3]

MCSamples ==
  UNION { LET n           == k[2]
              Sound(full) == [mode |-> k[3], frame |-> MCFrame(k[1], n, k[3], full), tail |-> 0]
          IN  {Sound(TRUE), Sound(FALSE)}
              \cup { MCHurt(MCHurt(Sound(FALSE), a), b) : a, b \in MCFaults(k[1], n) } :
          k \in { t \in MsgKind \X {0, 1, 2, 17} \X Modes :
                    /\ t[2] = 0 \/ LayoutOfKind(t[1]).elem # 0
                    /\ t[3] = "strict" \/ t[1][1] = "NOTI" } }

MCLengths == 0..520
=============================================================================
