---------------------------- MODULE RequestReply ----------------------------
(***************************************************************************)
(* What SiapLink.send promises its callers (contracts/siap_iface.py), with *)
(* the threads, queues and timers left out.  A request is handed over, put *)
(* on the link a bounded number of times, perhaps carried out by the node, *)
(* and its call returns once: with an answer only if the node has carried  *)
(* the request out, with nothing whenever it likes.  A call that returned  *)
(* nothing says nothing of the node: the request may still go out and be   *)
(* carried out afterwards.                                                 *)
(***************************************************************************)
EXTENDS Naturals

CONSTANTS
  Requests,   \* the requests ever made
  Attempts    \* how often one request may be put on the link

VARIABLES
  outcome,    \* of every request's call: "new", "open", "answered" or "none"
  sent,       \* how often the request was put on the link
  done        \* the requests the node has carried out

vars == <<outcome, sent, done>>

Init ==
  /\ outcome = [r \in Requests |-> "new"]
  /\ sent = [r \in Requests |-> 0]
  /\ done = {}

Submit(r) ==
  /\ outcome[r] = "new"
  /\ outcome' = [outcome EXCEPT ![r] = "open"]
  /\ UNCHANGED <<sent, done>>

\* Several requests may be sent again at once.
Transmit(R) ==
  /\ \A r \in R : outcome[r] # "new" /\ sent[r] < Attempts
  /\ sent' = [r \in Requests |-> IF r \in R THEN sent[r] + 1 ELSE sent[r]]
  /\ UNCHANGED <<outcome, done>>

CarryOut(r) ==
  /\ sent[r] > 0
  /\ done' = done \cup {r}
  /\ UNCHANGED <<outcome, sent>>

Return(r) ==
  /\ outcome[r] = "open"
  /\ \/ r \in done /\ outcome' = [outcome EXCEPT ![r] = "answered"]
     \/ outcome' = [outcome EXCEPT ![r] = "none"]
  /\ UNCHANGED <<sent, done>>

Next ==
  \/ \E r \in Requests : Submit(r) \/ CarryOut(r) \/ Return(r)
  \/ \E R \in SUBSET Requests : Transmit(R)

Spec == Init /\ [][Next]_vars

=============================================================================
