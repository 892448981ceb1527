------------------------------ MODULE MCSession ------------------------------
(* Instance of Session for TLC. *)
EXTENDS Session

Once == [timeout |-> 1, num_retry |-> 0]
Plain(kind, id) ==
  [kind |-> kind, msg_id |-> id, rsc |-> "SUCCESS", profile |-> Once,
   fixed_ok |-> TRUE, elems |-> << >>]

\* What the gateway answers.
MCFrames ==
  { Plain(k, id) : id \in MsgIds,
      k \in {"RES_SET_CONNECTION", "RES_SET_NODE_DEVICE_PROPERTY_ALL", "ACK"} }
MCProfiles == {Once}
=============================================================================
