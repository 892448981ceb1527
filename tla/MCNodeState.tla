----------------------------- MODULE MCNodeState -----------------------------
(* Instances of NodeState for TLC.                                         *)
EXTENDS NodeState

Short == [timeout |-> 1, num_retry |-> 1]
Quick == [timeout |-> 1, num_retry |-> 0]

BothProfiles == {Short, Quick}

Plain(kind, id) ==
  [kind |-> kind, msg_id |-> id, rsc |-> "SUCCESS", profile |-> Short,
   fixed_ok |-> TRUE, elems |-> << >>]

Good(d)   == [dev |-> d, decodes |-> TRUE, typed |-> TRUE]
Foreign   == Good(0)
Mistyped  == [dev |-> 1, decodes |-> TRUE, typed |-> FALSE]
Garbled   == [dev |-> 1, decodes |-> FALSE, typed |-> TRUE]

\* Answers to the node's own frames, for every identifier.
Answers ==
  { Plain(k, id) : id \in MsgIds,
      k \in {"RES_SET_CONNECTION", "RES_SET_NODE_DEVICE_PROPERTY_ALL", "ACK"} }
  \cup { [Plain("RES_SET_CONNECTION", 0) EXCEPT !.rsc = r] :
           r \in {"INVALID_NODE_ID", "INVALID_FORMAT"} }
  \cup { [Plain("RES_SET_NODE_DEVICE_PROPERTY_ALL", 0) EXCEPT !.rsc = "INVALID_NODE_ID"] }

Notifications == { Plain("NOTI_DISCONNECT", 0), Plain("NOTI_REBOOT", 0) }

\* Requests of the gateway, well formed and not.
Requests ==
  { Plain(k, 0) : k \in {"REQ_SET_REBOOT", "REQ_SET_DEVICE_INIT_ALL", "REQ_SET_NODE_PROPERTY",
                         "REQ_GET_NODE_PROPERTY", "REQ_GET_MSG_FLOW_CONTROL_PROFILE"} }
  \cup { [Plain("REQ_SET_MSG_FLOW_CONTROL_PROFILE", 0) EXCEPT !.profile = p] : p \in Profiles }
  \cup { [Plain(k, 0) EXCEPT !.elems = << Good(1) >>] :
           k \in {"REQ_SET_DEVICE_PROPERTY", "REQ_SET_DEVICE_INIT", "REQ_GET_DEVICE_VALUE"} }
  \cup { [Plain("REQ_GET_DEVICE_PROPERTY", 0) EXCEPT !.elems = << Foreign >>] }
  \cup { [Plain("REQ_SET_DEVICE_CONTROL", 0) EXCEPT !.elems = e] :
           e \in { << Good(1), Foreign >>, << Mistyped >>, << Garbled >> } }

SafetyFrames ==
  Answers \cup Notifications \cup Requests
  \cup { [Plain("RES_SET_CONNECTION", 0) EXCEPT !.elems = << Good(1) >>],
         [Plain("RES_SET_CONNECTION", 0) EXCEPT !.fixed_ok = FALSE] }

\* For the stale clock: an approved connection is enough.
ApprovalFrames == { Plain("RES_SET_CONNECTION", 0) }

\* For the final state: a refused connection.
RefusalFrames == { [Plain("RES_SET_CONNECTION", 0) EXCEPT !.rsc = "INVALID_FORMAT"] }

\* For frames that straddle polls: a control request of two elements.
ControlFrames ==
  { Plain("RES_SET_CONNECTION", 0), Plain("ACK", 0), Plain("ACK", 1),
    [Plain("REQ_SET_DEVICE_CONTROL", 0) EXCEPT !.elems = << Good(1), Good(1) >>] }

\* What keeps a session busy, and a gateway that may never answer.
BusyFrames ==
  { Plain("RES_SET_CONNECTION", 0), Plain("RES_SET_NODE_DEVICE_PROPERTY_ALL", 1),
    Plain("ACK", 0), Plain("ACK", 1), Plain("NOTI_DISCONNECT", 0), Plain("REQ_SET_REBOOT", 0) }

OneProfile == {Short}
=============================================================================
