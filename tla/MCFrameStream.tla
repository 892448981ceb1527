---------------------------- MODULE MCFrameStream ----------------------------
(* Instance of FrameStream for TLC. *)
EXTENDS FrameStream

\* A message without a payload, one with a fixed part and two elements, one
\* whose Payload Length fits no number of elements, one with a reserved
\* Transmission Type, and a connection request.
Plain == [fixed |-> 0, elem |-> 0, n |-> 0, fits |-> TRUE, trans |-> TRUE, connect |-> FALSE]
MCLayout ==
  [ack  |-> Plain,
   prop |-> [Plain EXCEPT !.fixed = 1, !.elem = 1, !.n = 2],
   odd  |-> [Plain EXCEPT !.elem = 2, !.n = 1, !.fits = FALSE],
   res  |-> [Plain EXCEPT !.elem = 1, !.n = 3, !.trans = FALSE],
   conn |-> [Plain EXCEPT !.connect = TRUE]]

\* "x" is an ordinary byte of a payload, "u" a node nobody knows.
MCSendable ==
  { <<"v", "ack", "n">>,
    <<"v", "prop", "n", "x", "v", "x">>,      \* the version byte in the payload
    <<"v", "prop", "n", "x", "bad", "v">>,    \* a bad element before another
    <<"v", "prop", "n", "bad", "x", "v">>,    \* a reserved value in the fixed part
    <<"v", "prop", "u", "x", "x", "x">>,      \* of another node, with its payload
    <<"v", "res", "n">>,                      \* announces a payload it does not have
    <<"v", "odd", "n", "v", "x">>,
    <<"v", "conn", "u">> }
MCClosing == { <<"v", "ack", "n">>, <<"v", "prop", "n", "x", "v", "x">>, <<"v", "conn", "u">> }
MCNoise == {"prop"}

\* The theorems about the line take as much for granted of the frames.
ASSUME MCFrames == WellFormed /\ ViolationsQuiet /\ AllQuiet
=============================================================================
