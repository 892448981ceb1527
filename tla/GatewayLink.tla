----------------------------- MODULE GatewayLink -----------------------------
(***************************************************************************)
(* The gateway's end of the link: SiapNodeLink (siap/link.py) with its     *)
(* PendingTable (siap/control.py) and NodeRegistry (siap/registry.py).     *)
(*                                                                         *)
(* One I/O thread owns the transport.  It goes round three duties: frames  *)
(* that arrived ("read"), requests that callers queued ("drain"), requests *)
(* without an answer ("expire").  Callers are API threads inside send():   *)
(* they wait first for the I/O thread to take the request ("queued"), then *)
(* for the answer ("waiting"), both within one deadline (F-138).  The I/O  *)
(* thread may stall anywhere (a write that blocks, a database that is      *)
(* locked), and an exception of the injected on_frame or of a write ends   *)
(* it, since nothing in _io_loop catches it.                               *)
(*                                                                         *)
(* Only the I/O thread touches the pending table while callers merely wait *)
(* for events, so each of its duties is one step per frame or per request; *)
(* the time such a step takes is time that passes before it.               *)
(*                                                                         *)
(* A request is named by its message identifier: identifiers are given out *)
(* once here, 65536 apart in the code.  A copy of a request in `air' need  *)
(* never reach the node, so that its loss needs no action of its own.      *)
(***************************************************************************)
EXTENDS Integers, Sequences, FiniteSets

CONSTANTS
  Callers,         \* API threads
  Nodes,           \* node identifiers
  MaxCalls,        \* bound on the requests ever made
  Profiles,        \* message flow control profiles: [timeout, num_retry]
  DefaultProfile,
  MaxTimeout,      \* bound on the timeouts of Profiles (65535 s in the code)
  MaxRetry,        \* bound on the retries of Profiles (255 in the code)
  Limits,          \* explicit time limits a caller may pass to send()
  Inbound,         \* the frames nodes send of their own accord
  MaxWire          \* bound on the frames that have arrived and are not read

Calls == 0 .. MaxCalls - 1

NodeRequests == {"REQ_SET_CONNECTION", "REQ_SET_PROPERTY", "REQ_SET_PROFILE"}
NodeNotifies == {"NOTI", "NOTI_DISCONNECT"}
Kinds == NodeRequests \cup NodeNotifies \cup {"RES"}

\* A frame from a node; bad: the codec finds a violation in it.
Frame == [kind : Kinds, node : Nodes, id : Calls, bad : BOOLEAN, profile : Profiles]

ASSUME LinkAssumption ==
  /\ MaxCalls \in Nat \ {0}
  /\ MaxTimeout \in Nat
  /\ MaxRetry \in Nat
  /\ MaxWire \in Nat
  /\ Profiles \subseteq [timeout : 0 .. MaxTimeout, num_retry : 0 .. MaxRetry]
  /\ DefaultProfile \in Profiles
  /\ Limits \subseteq Nat
  /\ Inbound \subseteq Frame
  /\ \A f \in Inbound : f.kind # "RES"

VARIABLES
  io,        \* duty of the I/O thread, or "dead"
  profile,   \* _profile, the same in SiapNodeLink and PendingTable
  known,     \* nodes in the registry
  table,     \* PendingTable._pending: (node, id) -> time left, retransmissions
  txq,       \* _txq: requests queued by callers
  handed,    \* requests whose PendingRequest was put into the caller's queue
  result,    \* PendingRequest.result and event, per request
  pc,        \* where each caller is
  call,      \* the request a caller is waiting for
  left,      \* time until the caller's deadline
  target,    \* node each request is addressed to
  next,      \* MsgIdAllocator._next
  air,       \* copies of each request on their way to the node
  rxq,       \* frames that have arrived and are not read yet
  out,       \* replies written in this step
  logged,    \* frames handed to on_frame in this step
  outcome, sent, done   \* history: see RequestReply

callerVars == <<pc, call, left>>
wireVars   == <<air, rxq>>
ghostVars  == <<outcome, sent, done>>
vars == <<io, profile, known, table, txq, handed, result, callerVars, target, next,
          wireVars, out, logged, ghostVars>>

Unset  == [kind |-> "UNSET"]
NoneR  == [kind |-> "NONE"]
Key(i) == <<target[i], i>>

TypeOK ==
  /\ io \in {"read", "drain", "expire", "dead"}
  /\ profile \in Profiles
  /\ known \subseteq Nodes
  /\ DOMAIN table \subseteq Nodes \X Calls
  /\ \A k \in DOMAIN table : table[k] \in [left : 0 .. MaxTimeout, tries : 0 .. MaxRetry]
  /\ txq \in Seq(Calls)
  /\ handed \subseteq Calls
  /\ result \in [Calls -> Frame \cup {Unset, NoneR}]
  /\ pc \in [Callers -> {"idle", "queued", "waiting"}]
  /\ call \in [Callers -> Calls]
  /\ left \in [Callers -> Nat]
  /\ target \in [Calls -> Nodes]
  /\ next \in 0 .. MaxCalls
  /\ air \in [Calls -> Nat]
  /\ rxq \in Seq(Frame) /\ Len(rxq) <= MaxWire
  /\ outcome \in [Calls -> {"new", "open", "answered", "none"}]
  /\ sent \in [Calls -> Nat]
  /\ done \subseteq Calls

Init ==
  /\ io = "read" /\ profile = DefaultProfile /\ known = {}
  /\ table = << >>
  /\ txq = << >> /\ handed = {} /\ result = [i \in Calls |-> Unset]
  /\ pc = [c \in Callers |-> "idle"] /\ call = [c \in Callers |-> 0]
  /\ left = [c \in Callers |-> 0]
  /\ target \in [Calls -> Nodes] /\ next = 0
  /\ air = [i \in Calls |-> 0] /\ rxq = << >> /\ out = {} /\ logged = {}
  /\ outcome = [i \in Calls |-> "new"] /\ sent = [i \in Calls |-> 0] /\ done = {}

Quiet == out' = {} /\ logged' = {}

-----------------------------------------------------------------------------
(* Callers: send().                                                        *)

\* Timeout x (retry count + 1), from table 7-18.
Upper(p) == p.timeout * (p.num_retry + 1)

Submit(c) ==
  /\ pc[c] = "idle" /\ next < MaxCalls
  /\ \E limit \in Limits \cup {Upper(profile)} : left' = [left EXCEPT ![c] = limit]
  /\ pc' = [pc EXCEPT ![c] = "queued"]
  /\ call' = [call EXCEPT ![c] = next]
  /\ next' = next + 1
  /\ txq' = Append(txq, next)
  /\ outcome' = [outcome EXCEPT ![next] = "open"]
  /\ Quiet
  /\ UNCHANGED <<io, profile, known, table, handed, result, target, wireVars, sent, done>>

Return(c, r) ==
  /\ pc' = [pc EXCEPT ![c] = "idle"]
  /\ left' = [left EXCEPT ![c] = 0]
  /\ outcome' = [outcome EXCEPT ![call[c]] = IF r \in {Unset, NoneR} THEN "none" ELSE "answered"]
  /\ Quiet
  /\ UNCHANGED <<io, profile, known, table, txq, handed, result, call, target, next,
                 wireVars, sent, done>>

\* out.get() delivers: the request was sent and is in the table.
Taken(c) ==
  /\ pc[c] = "queued" /\ call[c] \in handed
  /\ pc' = [pc EXCEPT ![c] = "waiting"]
  /\ Quiet
  /\ UNCHANGED <<io, profile, known, table, txq, handed, result, call, left, target, next,
                 wireVars, ghostVars>>

\* Whether the caller gives up waiting to be taken: only its deadline ends that.
MutWaitsForever(c) == FALSE
OutOfTime(c) == left[c] = 0

\* The I/O thread did not even take the request in time.  It stays in the queue.
NotTaken(c) ==
  /\ pc[c] = "queued" /\ call[c] \notin handed /\ OutOfTime(c)
  /\ Return(c, NoneR)

\* wait(): the event was set, or the time is over; the result is read either way.
Woken(c) ==
  /\ pc[c] = "waiting" /\ (result[call[c]] # Unset \/ left[c] = 0)
  /\ Return(c, result[call[c]])

-----------------------------------------------------------------------------
(* The I/O thread: _io_loop().                                             *)

\* What the registry makes of a frame: only REQ_SET_CONNECTION needs no session.
Violates(f) == f.bad \/ (f.kind # "REQ_SET_CONNECTION" /\ f.node \notin known)

\* The kind the codec reports; a violating frame has none.
Decoded(f) == IF Violates(f) THEN "NONE" ELSE f.kind

\* match(): the identifier and the node alone do not make an answer (F-046).
MutMatches(f) == <<f.node, f.id>> \in DOMAIN table
Matches(f) == <<f.node, f.id>> \in DOMAIN table /\ Decoded(f) = "RES"

\* _default_reply(), by the kind the codec reports.
DefaultReply(f) ==
  CASE Decoded(f) \in NodeRequests -> {[kind |-> "RES", to |-> f]}
    [] Decoded(f) \in NodeNotifies -> {[kind |-> "ACK", to |-> f]}
    [] OTHER -> {}

\* _apply_registry_effects(): sessions, and the profile a node sets (F-213).
RegistryEffects(f) ==
  /\ known' = CASE Decoded(f) = "REQ_SET_CONNECTION" -> known \cup {f.node}
                [] Decoded(f) = "NOTI_DISCONNECT" -> known \ {f.node}
                [] OTHER -> known
  /\ profile' = IF Decoded(f) = "REQ_SET_PROFILE" THEN f.profile ELSE profile

\* match() wakes the caller; the frame goes nowhere else.
Consume(f) ==
  /\ Matches(f)
  /\ table' = [k \in DOMAIN table \ {<<f.node, f.id>>} |-> table[k]]
  /\ result' = [result EXCEPT ![f.id] = f]
  /\ Quiet
  /\ UNCHANGED <<known, profile>>

\* _dispatch(), the registry and the reply, in this order.
Dispatch(f) ==
  /\ ~ Matches(f)
  /\ logged' = {f} /\ out' = DefaultReply(f)
  /\ RegistryEffects(f)
  /\ UNCHANGED <<table, result>>

\* on_frame raises (nothing is kept of the frame), or the reply's write does.
DispatchDies(f) ==
  /\ ~ Matches(f)
  /\ out' = {}
  /\ \/ logged' = {} /\ UNCHANGED <<known, profile>>
     \/ logged' = {f} /\ DefaultReply(f) # {} /\ RegistryEffects(f)
  /\ UNCHANGED <<table, result>>

IoFrame ==
  /\ io = "read" /\ rxq # << >>
  /\ rxq' = Tail(rxq)
  /\ \/ io' = io /\ (Consume(Head(rxq)) \/ Dispatch(Head(rxq)))
     \/ io' = "dead" /\ DispatchDies(Head(rxq))
  /\ UNCHANGED <<txq, handed, callerVars, target, next, air, ghostVars>>

\* A read that brought nothing, or the end of the bytes that one read brought.
IoReadDone ==
  /\ io = "read" /\ io' = "drain"
  /\ Quiet
  /\ UNCHANGED <<profile, known, table, txq, handed, result, callerVars, target, next,
                 wireVars, ghostVars>>

Written(R) ==
  /\ air' = [i \in Calls |-> IF i \in R THEN air[i] + 1 ELSE air[i]]
  /\ sent' = [i \in Calls |-> IF i \in R THEN sent[i] + 1 ELSE sent[i]]

\* register() by the key; an entry under that key would be displaced.
Registered(i) ==
  [k \in DOMAIN table \cup {Key(i)} |->
     IF k = Key(i) THEN [left |-> profile.timeout, tries |-> 0] ELSE table[k]]

\* _drain_txq(): written, then registered, then handed to the caller, who may
\* have gone.  A write that stalls (_write returns FALSE) is registered as well.
IoDrain ==
  /\ io = "drain" /\ txq # << >>
  /\ txq' = Tail(txq)
  /\ \/ /\ io' = io
        /\ Written({Head(txq)})
        /\ table' = Registered(Head(txq))
        /\ handed' = handed \cup {Head(txq)}
     \/ io' = "dead" /\ UNCHANGED <<air, sent, table, handed>>
  /\ Quiet
  /\ UNCHANGED <<profile, known, result, callerVars, target, next, rxq, outcome, done>>

IoDrainDone ==
  /\ io = "drain" /\ txq = << >> /\ io' = "expire"
  /\ Quiet
  /\ UNCHANGED <<profile, known, table, txq, handed, result, callerVars, target, next,
                 wireVars, ghostVars>>

\* Whether an entry whose time is over is sent again; the profile is today's, not the
\* one the request was registered under.
MutHasRetry(k) == table[k].tries <= profile.num_retry
HasRetry(k) == table[k].tries < profile.num_retry

MutDue == {k \in DOMAIN table : table[k].left = 0 /\ HasRetry(k)}
Due == {k \in DOMAIN table : table[k].left = 0}

MutNextTry(e) == [left |-> profile.timeout, tries |-> e.tries]
NextTry(e) == [left |-> profile.timeout, tries |-> e.tries + 1]

\* Requests given up, by key: the callers waiting for them are woken.
MutGiveUp(K) == UNCHANGED result
GiveUp(K) == result' = [i \in Calls |-> IF Key(i) \in K THEN NoneR ELSE result[i]]

\* The entries K of expire()'s list, decided one by one.
Decide(K) ==
  LET over == {k \in K : ~ HasRetry(k)}
  IN /\ table' = [k \in DOMAIN table \ over |->
                    IF k \in K THEN NextTry(table[k]) ELSE table[k]]
     /\ GiveUp(over)

Requested(K) == {i \in Calls : Key(i) \in K}

IoExpire ==
  /\ io = "expire"
  /\ \/ /\ io' = "read"
        /\ Decide(Due)
        /\ Written(Requested({k \in Due : HasRetry(k)}))
     \* The write of one retransmission raises: the entries after it stay as they are.
     \/ /\ io' = "dead"
        /\ \E K \in SUBSET Due : \E k \in K :
             /\ HasRetry(k)
             /\ Decide(K)
             /\ Written(Requested({j \in K \ {k} : HasRetry(j)}))
  /\ Quiet
  /\ UNCHANGED <<profile, known, txq, handed, callerVars, target, next, rxq, outcome, done>>

-----------------------------------------------------------------------------
(* The nodes, the line and the clock.                                      *)

Answer(i) ==
  [kind |-> "RES", node |-> target[i], id |-> i, bad |-> FALSE, profile |-> DefaultProfile]

\* A node carries out a request; its answer may be lost on the line.
NodeAnswers(i) ==
  /\ air[i] > 0
  /\ air' = [air EXCEPT ![i] = @ - 1]
  /\ done' = done \cup {i}
  /\ \/ UNCHANGED rxq
     \/ Len(rxq) < MaxWire /\ rxq' = Append(rxq, Answer(i))
  /\ Quiet
  /\ UNCHANGED <<io, profile, known, table, txq, handed, result, callerVars, target, next,
                 outcome, sent>>

NodeSends(f) ==
  /\ Len(rxq) < MaxWire
  /\ rxq' = Append(rxq, f)
  /\ Quiet
  /\ UNCHANGED <<io, profile, known, table, txq, handed, result, callerVars, target, next,
                 air, ghostVars>>

Less(n) == IF n = 0 THEN 0 ELSE n - 1
Aged(e) == [e EXCEPT !.left = Less(@)]

\* One second; nobody need act the moment its time is over.
Tick ==
  /\ \/ \E c \in Callers : left[c] > 0
     \/ \E k \in DOMAIN table : table[k].left > 0
  /\ left' = [c \in Callers |-> Less(left[c])]
  /\ table' = [k \in DOMAIN table |-> Aged(table[k])]
  /\ Quiet
  /\ UNCHANGED <<io, profile, known, txq, handed, result, pc, call, target, next,
                 wireVars, ghostVars>>

Next ==
  \/ \E c \in Callers : Submit(c) \/ Taken(c) \/ NotTaken(c) \/ Woken(c)
  \/ IoFrame \/ IoReadDone \/ IoDrain \/ IoDrainDone \/ IoExpire
  \/ \E i \in Calls : NodeAnswers(i)
  \/ \E f \in Inbound : NodeSends(f)
  \/ Tick

\* Time passes and API threads are scheduled.
CallerFairness ==
  /\ WF_vars(Tick)
  /\ \A c \in Callers : WF_vars(Taken(c)) /\ WF_vars(NotTaken(c)) /\ WF_vars(Woken(c))

\* The I/O thread is scheduled, and no read, write or on_frame blocks for ever.
IoFairness ==
  WF_vars(IoReadDone) /\ WF_vars(IoDrain) /\ WF_vars(IoDrainDone) /\ WF_vars(IoExpire)

Spec == Init /\ [][Next]_vars
FairSpec == Spec /\ CallerFairness

-----------------------------------------------------------------------------
(* Properties.                                                             *)

RR == INSTANCE RequestReply WITH Requests <- Calls, Attempts <- MaxRetry + 1

\* The link keeps what send() promises: an answer only for a request that the
\* node has carried out, at most MaxRetry retransmissions, one return per call.
Promise == RR!Spec

\* F-046: what a caller is given is the response of the node it asked, to the
\* request it made, whatever identifiers the nodes use in frames of their own.
OwnAnswer ==
  \A i \in Calls : result[i] \notin {Unset, NoneR} =>
    /\ result[i].kind = "RES" /\ result[i].node = target[i] /\ result[i].id = i
    /\ i \in done

\* The pending table holds exactly the requests that were handed over and not
\* decided: no caller waits for an event that nobody will set any more, and no
\* answered request is sent again.
TableMatchesWaiters ==
  /\ DOMAIN table \subseteq {Key(i) : i \in Calls}
  /\ \A i \in Calls : Key(i) \in DOMAIN table <=> i \in handed /\ result[i] = Unset

\* F-138: a call of send() returns even if the I/O thread stalls or has died.
CallsReturn == \A c \in Callers : pc[c] # "idle" ~> pc[c] = "idle"

\* Every entry of the pending table is answered or given up, caller or no caller,
\* while the I/O thread runs, however often the profile is replaced.
EntriesSettle ==
  IoFairness =>
    \A i \in Calls : Key(i) \in DOMAIN table ~> Key(i) \notin DOMAIN table \/ io = "dead"

\* Every frame that is read reaches on_frame and with it frame_log (architecture
\* document: matching must not skip the record).
EveryFrameLogged ==
  [][Len(rxq') < Len(rxq) /\ io' # "dead" => logged' = {Head(rxq)}]_vars

=============================================================================
