---------------------------- MODULE MCGatewayLink ----------------------------
(* Instances of GatewayLink for TLC.                                        *)
EXTENDS GatewayLink

CONSTANTS c1, n1

OneCaller == {c1}
OneNode == {n1}

Once  == [timeout |-> 1, num_retry |-> 0]
Twice == [timeout |-> 1, num_retry |-> 1]
AtOnce == [timeout |-> 0, num_retry |-> 1]
MCProfiles == {Once, Twice, AtOnce}

NoLimits == {}
ShortLimit == {1}

From(n, k, i, b, p) == [kind |-> k, node |-> n, id |-> i, bad |-> b, profile |-> p]

\* A session, its end, a frame with the identifier of a pending request, and a
\* request in violation.
SafetyInbound ==
  {From(n1, "REQ_SET_CONNECTION", 0, FALSE, Twice), From(n1, "NOTI", 0, FALSE, Twice),
   From(n1, "NOTI_DISCONNECT", 1, FALSE, Twice)}

\* The node replaces the profile back and forth, by a timeout of 0 as well.
LiveInbound ==
  {From(n1, "REQ_SET_CONNECTION", 0, FALSE, Twice)}
    \cup {From(n1, "REQ_SET_PROFILE", 0, FALSE, p) : p \in MCProfiles}

\* Both together: sessions that begin and end, frames with the identifier of a
\* pending request, and profiles that are replaced while it is pending.
MixedInbound == LiveInbound \cup {From(n1, "NOTI_DISCONNECT", 1, FALSE, Twice)}

=============================================================================
