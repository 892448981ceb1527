------------------------------- MODULE MCNodeTx -------------------------------
(* Instances of NodeTx for TLC.                                             *)
EXTENDS NodeTx

Short == [timeout |-> 1, num_retry |-> 1]
OneProfile == {Short}

Plain(kind, id) ==
  [kind |-> kind, msg_id |-> id, rsc |-> "SUCCESS", profile |-> Short,
   fixed_ok |-> TRUE, elems |-> << >>]

\* For a line that is slower than the node: a session and a control request.
SlowFrames ==
  { Plain("RES_SET_CONNECTION", 0), Plain("RES_SET_NODE_DEVICE_PROPERTY_ALL", 1),
    Plain("ACK", 0), Plain("ACK", 1),
    [Plain("REQ_SET_DEVICE_CONTROL", 0) EXCEPT !.elems =
       << [dev |-> 1, decodes |-> TRUE, typed |-> TRUE] >>] }
=============================================================================
