------------------------- MODULE GatewayLinkProofs -------------------------
(***************************************************************************)
(* The safety of GatewayLink for any callers, nodes, profiles and frames,  *)
(* and its refinement of RequestReply.                                     *)
(*                                                                         *)
(* TableMatchesWaiters is not inductive: a request in the queue must not   *)
(* be in the table yet (Numbered, QueueFresh), or draining it would        *)
(* displace an entry.  OwnAnswer rests on what frames on the line may say  *)
(* (AnswersTrue); the bound on retransmissions on the entry having been    *)
(* sent once more than it was tried again, at most (Counted); and          *)
(* that a call returns once, on no two callers sharing a request           *)
(* (CallersOpen).                                                          *)
(***************************************************************************)
EXTENDS GatewayLink, TLAPS

USE LinkAssumption

\* Identifiers that were not given out are unused, the others were submitted.
Numbered ==
  \A i \in Calls :
    IF i < next THEN outcome[i] # "new"
    ELSE outcome[i] = "new" /\ i \notin handed /\ sent[i] = 0

\* A queued request was submitted, was never sent, and is queued once.
QueueFresh ==
  \A j \in 1 .. Len(txq) :
    /\ txq[j] < next /\ txq[j] \notin handed /\ sent[txq[j]] = 0
    /\ \A k \in 1 .. Len(txq) : txq[j] = txq[k] => j = k

\* A request that was not handed over has no result.
Untouched == \A i \in Calls : i \notin handed => result[i] = Unset

\* Copies on the line were sent, and an entry has at most been sent once per try.
Counted ==
  \A i \in Calls :
    /\ sent[i] <= MaxRetry + 1
    /\ air[i] > 0 => sent[i] > 0
    /\ i \in handed => sent[i] > 0
    /\ Key(i) \in DOMAIN table => sent[i] <= table[Key(i)].tries + 1

\* Every caller inside send() has a request of its own, which is not decided yet.
CallersOpen ==
  /\ \A c \in Callers : pc[c] # "idle" => outcome[call[c]] = "open"
  /\ \A c, d \in Callers : pc[c] # "idle" /\ pc[d] # "idle" /\ call[c] = call[d] => c = d

\* An answer on the line is the addressed node's, to a request it carried out.
AnswersTrue ==
  \A j \in 1 .. Len(rxq) : rxq[j].kind = "RES" =>
    rxq[j].id \in done /\ rxq[j].node = target[rxq[j].id]

IInv ==
  /\ TypeOK /\ TableMatchesWaiters /\ Untouched /\ Numbered /\ QueueFresh /\ Counted
  /\ CallersOpen /\ AnswersTrue /\ OwnAnswer

-----------------------------------------------------------------------------
(* Types.                                                                  *)

\* The upper limit of a call is a natural number (timeout x (retries + 1)).
LEMMA UpperTyped == \A p \in Profiles : Upper(p) \in Nat
<1> TAKE p \in Profiles
<1>1. p.timeout \in Nat /\ p.num_retry \in Nat
  OBVIOUS
<1>2. \A a, b \in Nat : a * (b + 1) \in Nat
  OBVIOUS
<1> QED
  BY <1>1, <1>2 DEF Upper

\* Different requests have different keys in the pending table.
LEMMA KeyInjective == \A i, j \in Calls : Key(i) = Key(j) => i = j
BY DEF Key

\* A decoded kind is the frame's own, or none (codec._violation).
LEMMA DecodedKind ==
  \A f \in Frame : Decoded(f) # "NONE" => Decoded(f) = f.kind
BY DEF Decoded

\* The pending table holds entries within their bounds.
TableTyped ==
  /\ DOMAIN table \subseteq Nodes \X Calls
  /\ \A k \in DOMAIN table : table[k] \in [left : 0 .. MaxTimeout, tries : 0 .. MaxRetry]

\* What expire() leaves in the table is well typed, whichever entries it decided.
LEMMA DecideTyped ==
  ASSUME TypeOK, NEW K \in SUBSET Due, Decide(K)
  PROVE  TableTyped' /\ result' \in [Calls -> Frame \cup {Unset, NoneR}]
<1>1. K \subseteq DOMAIN table
  BY DEF Due
<1>2. ASSUME NEW k \in K, HasRetry(k)
      PROVE  NextTry(table[k]) \in [left : 0 .. MaxTimeout, tries : 0 .. MaxRetry]
  <2>1. table[k] \in [left : 0 .. MaxTimeout, tries : 0 .. MaxRetry]
    BY <1>1 DEF TypeOK
  <2>2. profile \in [timeout : 0 .. MaxTimeout, num_retry : 0 .. MaxRetry]
    BY DEF TypeOK
  <2>3. table[k].tries + 1 \in 0 .. MaxRetry
    BY <1>2, <2>1, <2>2 DEF HasRetry
  <2> QED
    BY <2>2, <2>3 DEF NextTry
<1>3. TableTyped'
  BY <1>1, <1>2 DEF Decide, TypeOK, TableTyped
<1>4. result' \in [Calls -> Frame \cup {Unset, NoneR}]
  BY DEF Decide, GiveUp, TypeOK
<1> QED
  BY <1>3, <1>4

\* Copies put on the line are counted.
LEMMA WrittenTyped ==
  ASSUME TypeOK, NEW R, Written(R)
  PROVE  air' \in [Calls -> Nat] /\ sent' \in [Calls -> Nat]
BY DEF Written, TypeOK

\* Time passing keeps an entry within its bounds and does not count as a try.
LEMMA AgedTyped ==
  ASSUME NEW e \in [left : 0 .. MaxTimeout, tries : 0 .. MaxRetry]
  PROVE  Aged(e) \in [left : 0 .. MaxTimeout, tries : 0 .. MaxRetry] /\ Aged(e).tries = e.tries
<1>1. Less(e.left) \in 0 .. MaxTimeout
  BY DEF Less
<1>2. Aged(e) = [left |-> Less(e.left), tries |-> e.tries]
  BY DEF Aged
<1> QED
  BY <1>1, <1>2

\* The initial state is well typed.
LEMMA TypeInit == Init => TypeOK
BY DEF Init, TypeOK, Calls

\* Every step of a caller keeps the types.
LEMMA TypeCaller ==
  ASSUME TypeOK, NEW c \in Callers, Submit(c) \/ Taken(c) \/ NotTaken(c) \/ Woken(c)
  PROVE  TypeOK'
<1>1. CASE Submit(c)
  <2>1. next \in Calls /\ next' \in 0 .. MaxCalls
    <3>1. next < MaxCalls /\ next' = next + 1
      BY <1>1 DEF Submit
    <3>2. next \in 0 .. MaxCalls
      BY DEF TypeOK
    <3> QED
      BY <3>1, <3>2 DEF Calls
  <2>2. PICK limit \in Limits \cup {Upper(profile)} : left' = [left EXCEPT ![c] = limit]
    BY <1>1 DEF Submit
  <2>3. limit \in Nat
    BY UpperTyped DEF TypeOK
  <2>4. txq' \in Seq(Calls)
    <3>1. txq' = Append(txq, next) /\ txq \in Seq(Calls)
      BY <1>1 DEF Submit, TypeOK
    <3> QED
      BY <2>1, <3>1
  <2>5. left' \in [Callers -> Nat] /\ call' \in [Callers -> Calls]
    BY <1>1, <2>1, <2>2, <2>3 DEF Submit, TypeOK
  <2>6. /\ pc' \in [Callers -> {"idle", "queued", "waiting"}]
        /\ outcome' \in [Calls -> {"new", "open", "answered", "none"}]
    BY <1>1, <2>1 DEF Submit, TypeOK
  <2> QED
    BY <1>1, <2>1, <2>4, <2>5, <2>6 DEF Submit, TypeOK, wireVars
<1>2. CASE Taken(c)
  BY <1>2 DEF Taken, TypeOK, wireVars, ghostVars
<1>3. ASSUME NEW r, Return(c, r) PROVE TypeOK'
  BY <1>3 DEF Return, TypeOK, wireVars
<1> QED
  BY <1>1, <1>2, <1>3 DEF NotTaken, Woken

\* Every step of the I/O thread keeps the types.
LEMMA TypeIo ==
  ASSUME TypeOK, IoFrame \/ IoReadDone \/ IoDrain \/ IoDrainDone \/ IoExpire
  PROVE  TypeOK'
<1>1. CASE IoFrame
  <2> DEFINE f == Head(rxq)
  <2>1. f \in Frame /\ rxq' \in Seq(Frame) /\ Len(rxq') <= MaxWire
    BY <1>1 DEF IoFrame, TypeOK
  <2>2. io' \in {"read", "dead"}
    BY <1>1 DEF IoFrame
  <2> HIDE DEF f
  <2>3. ASSUME RegistryEffects(f) PROVE known' \subseteq Nodes /\ profile' \in Profiles
    <3>1. f.node \in Nodes /\ f.profile \in Profiles
      BY <2>1 DEF Frame
    <3> QED
      BY <2>3, <3>1 DEF RegistryEffects, TypeOK
  <2>4. /\ known' \subseteq Nodes /\ profile' \in Profiles
        /\ TableTyped' /\ result' \in [Calls -> Frame \cup {Unset, NoneR}]
    <3>1. CASE Consume(f)
      BY <2>1, <3>1 DEF Consume, TypeOK, TableTyped
    <3>2. CASE Dispatch(f)
      BY <2>3, <3>2 DEF Dispatch, TypeOK, TableTyped
    <3>3. CASE DispatchDies(f)
      BY <2>3, <3>3 DEF DispatchDies, TypeOK, TableTyped
    <3> QED
      BY <1>1, <3>1, <3>2, <3>3 DEF IoFrame, f
  <2> QED
    BY <1>1, <2>1, <2>2, <2>4
    DEF IoFrame, TypeOK, TableTyped, callerVars, ghostVars
<1>2. CASE IoReadDone \/ IoDrainDone
  BY <1>2 DEF IoReadDone, IoDrainDone, TypeOK, callerVars, wireVars, ghostVars
<1>3. CASE IoDrain
  <2> DEFINE i == Head(txq)
  <2>1. i \in Calls /\ txq' \in Seq(Calls) /\ Key(i) \in Nodes \X Calls
    BY <1>3 DEF IoDrain, TypeOK, Key
  <2>2. [left |-> profile.timeout, tries |-> 0]
          \in [left : 0 .. MaxTimeout, tries : 0 .. MaxRetry]
    BY DEF TypeOK
  <2> HIDE DEF i
  <2>3. /\ air' \in [Calls -> Nat] /\ sent' \in [Calls -> Nat]
        /\ TableTyped' /\ handed' \subseteq Calls /\ io' \in {"drain", "dead"}
    <3>1. CASE io' = "dead" /\ UNCHANGED <<air, sent, table, handed>>
      BY <3>1 DEF TypeOK, TableTyped
    <3>2. CASE io' = io /\ Written({i}) /\ table' = Registered(i) /\ handed' = handed \cup {i}
      <4>1. TableTyped'
        BY <2>1, <2>2, <3>2 DEF Registered, TypeOK, TableTyped
      <4> QED
        BY <1>3, <2>1, <3>2, <4>1, WrittenTyped DEF IoDrain, TypeOK
    <3> QED
      BY <1>3, <3>1, <3>2 DEF IoDrain, i
  <2> QED
    BY <1>3, <2>1, <2>3 DEF IoDrain, TypeOK, TableTyped, callerVars
<1>4. CASE IoExpire
  <2>1. io' \in {"read", "dead"}
    BY <1>4 DEF IoExpire
  <2>2. PICK K \in SUBSET Due, R \in SUBSET Calls : Decide(K) /\ Written(R)
    BY <1>4 DEF IoExpire, Requested
  <2> QED
    BY <1>4, <2>1, <2>2, DecideTyped, WrittenTyped DEF IoExpire, TypeOK, TableTyped, callerVars
<1> QED
  BY <1>1, <1>2, <1>3, <1>4

\* Every step of the nodes, the line and the clock keeps the types.
LEMMA TypeOutside ==
  ASSUME TypeOK,
         (\E i \in Calls : NodeAnswers(i)) \/ (\E f \in Inbound : NodeSends(f)) \/ Tick
  PROVE  TypeOK'
<1>1. ASSUME NEW i \in Calls, NodeAnswers(i) PROVE TypeOK'
  <2>1. Answer(i) \in Frame
    BY DEF Answer, Frame, Kinds, TypeOK
  <2>2. rxq' \in Seq(Frame) /\ Len(rxq') <= MaxWire
    <3>1. rxq \in Seq(Frame) /\ Len(rxq) <= MaxWire
      BY DEF TypeOK
    <3>2. \/ rxq' = rxq
          \/ Len(rxq) < MaxWire /\ rxq' = Append(rxq, Answer(i))
      BY <1>1 DEF NodeAnswers
    <3> QED
      BY <2>1, <3>1, <3>2
  <2>3. air' \in [Calls -> Nat]
    BY <1>1 DEF NodeAnswers, TypeOK
  <2> QED
    BY <1>1, <2>2, <2>3 DEF NodeAnswers, TypeOK, callerVars
<1>2. ASSUME NEW f \in Inbound, NodeSends(f) PROVE TypeOK'
  <2>1. rxq' \in Seq(Frame) /\ Len(rxq') <= MaxWire
    BY <1>2 DEF NodeSends, TypeOK
  <2> QED
    BY <1>2, <2>1 DEF NodeSends, TypeOK, callerVars, ghostVars
<1>3. CASE Tick
  <2>1. left' \in [Callers -> Nat]
    <3>1. left' = [c \in Callers |-> Less(left[c])]
      BY <1>3 DEF Tick
    <3>2. \A c \in Callers : left[c] \in Nat
      BY DEF TypeOK
    <3>3. \A n \in Nat : Less(n) \in Nat
      BY DEF Less
    <3> QED
      BY <3>1, <3>2, <3>3
  <2>2. TableTyped'
    <3>1. table' = [k \in DOMAIN table |-> Aged(table[k])]
      BY <1>3 DEF Tick
    <3>2. TableTyped
      BY DEF TypeOK, TableTyped
    <3> QED
      BY <3>1, <3>2, AgedTyped DEF TableTyped
  <2> QED
    BY <1>3, <2>1, <2>2 DEF Tick, TypeOK, TableTyped, wireVars, ghostVars
<1> QED
  BY <1>1, <1>2, <1>3

\* Every step keeps the types.
LEMMA TypeNext == TypeOK /\ [Next]_vars => TypeOK'
<1> SUFFICES ASSUME TypeOK, [Next]_vars PROVE TypeOK'
  OBVIOUS
<1>1. CASE UNCHANGED vars
  BY <1>1 DEF vars, callerVars, wireVars, ghostVars, TypeOK
<1>2. CASE Next
  BY <1>2, TypeCaller, TypeIo, TypeOutside DEF Next
<1> QED
  BY <1>1, <1>2

\* Every variable of the gateway's link keeps its type.
THEOREM TypeCorrect == Spec => []TypeOK
BY TypeInit, TypeNext, PTL DEF Spec

-----------------------------------------------------------------------------
(* The pending table.                                                      *)

\* No step changes whom a request is addressed to, nor with it its key.
LEMMA KeyFixed == [Next]_vars => target' = target /\ \A i \in Calls : Key(i)' = Key(i)
<1> SUFFICES ASSUME [Next]_vars PROVE target' = target
  BY DEF Key
<1>1. CASE UNCHANGED vars
  BY <1>1 DEF vars
<1>2. CASE \E c \in Callers : Submit(c) \/ Taken(c) \/ NotTaken(c) \/ Woken(c)
  BY <1>2 DEF Submit, Taken, NotTaken, Woken, Return
<1>3. CASE IoFrame \/ IoReadDone \/ IoDrain \/ IoDrainDone \/ IoExpire
  BY <1>3 DEF IoFrame, IoReadDone, IoDrain, IoDrainDone, IoExpire
<1>4. CASE (\E i \in Calls : NodeAnswers(i)) \/ (\E f \in Inbound : NodeSends(f)) \/ Tick
  BY <1>4 DEF NodeAnswers, NodeSends, Tick
<1> QED
  BY <1>1, <1>2, <1>3, <1>4 DEF Next

\* What expire() does, whether or not a write raises: it decides some entries that
\* are due and sends some of those again that have a retry left.
ExpireDecides(K, R) ==
  /\ K \in SUBSET Due
  /\ R \subseteq Requested({k \in K : HasRetry(k)})
  /\ Decide(K) /\ Written(R)
  /\ UNCHANGED <<txq, handed, callerVars, target, next, rxq, outcome, done, profile>>

LEMMA ExpireParts == IoExpire => \E K, R : ExpireDecides(K, R)
<1> SUFFICES ASSUME IoExpire PROVE \E K, R : ExpireDecides(K, R)
  OBVIOUS
<1>1. UNCHANGED <<txq, handed, callerVars, target, next, rxq, outcome, done, profile>>
  BY DEF IoExpire
<1>2. CASE io' = "read"
  <2>1. ExpireDecides(Due, Requested({k \in Due : HasRetry(k)}))
    BY <1>1, <1>2 DEF IoExpire, ExpireDecides
  <2> QED
    BY <2>1
<1>3. CASE io' = "dead"
  <2>1. PICK K \in SUBSET Due : \E k \in K :
          Decide(K) /\ Written(Requested({j \in K \ {k} : HasRetry(j)}))
    BY <1>3 DEF IoExpire
  <2> PICK k \in K : Decide(K) /\ Written(Requested({j \in K \ {k} : HasRetry(j)}))
    BY <2>1
  <2>2. ExpireDecides(K, Requested({j \in K \ {k} : HasRetry(j)}))
    BY <1>1 DEF ExpireDecides, Requested
  <2> QED
    BY <2>2
<1> QED
  BY <1>2, <1>3 DEF IoExpire

\* Entries are decided one way or the other, and belong to handed requests.
LEMMA DecideTable ==
  ASSUME TypeOK, TableMatchesWaiters, Untouched, NEW K, NEW R, ExpireDecides(K, R)
  PROVE  TableMatchesWaiters' /\ Untouched'
<1> DEFINE over == {k \in K : ~ HasRetry(k)}
<1>1. over \subseteq DOMAIN table
  BY DEF ExpireDecides, Due
<1>2. /\ DOMAIN table' = DOMAIN table \ over
      /\ result' = [i \in Calls |-> IF Key(i) \in over THEN NoneR ELSE result[i]]
  BY DEF ExpireDecides, Decide, GiveUp
<1>3. handed' = handed /\ \A i \in Calls : Key(i)' = Key(i)
  BY DEF ExpireDecides, Key
<1> HIDE DEF over
<1>4. NoneR # Unset
  BY DEF NoneR, Unset
<1>5. TableMatchesWaiters'
  BY <1>1, <1>2, <1>3, <1>4 DEF TableMatchesWaiters
<1>6. Untouched'
  BY <1>1, <1>2, <1>3, <1>4 DEF TableMatchesWaiters, Untouched
<1> QED
  BY <1>5, <1>6

\* A response is recorded for the request whose entry it removes.
LEMMA ConsumeTable ==
  ASSUME TypeOK, TableMatchesWaiters, Untouched, NEW f \in Frame, Consume(f),
         handed' = handed, target' = target
  PROVE  TableMatchesWaiters' /\ Untouched'
<1>1. PICK i \in Calls : Key(i) = <<f.node, f.id>>
  BY DEF Consume, Matches, TableMatchesWaiters
<1>2. i = f.id
  BY <1>1 DEF Key
<1>3. i \in handed /\ result[i] = Unset
  BY <1>1 DEF Consume, Matches, TableMatchesWaiters
<1>4. DOMAIN table' = DOMAIN table \ {Key(i)} /\ result' = [result EXCEPT ![i] = f]
  BY <1>1, <1>2 DEF Consume
<1>5. \A j \in Calls : Key(j)' = Key(j)
  BY DEF Key
<1>6. f # Unset
  BY DEF Frame, Kinds, NodeRequests, NodeNotifies, Unset
<1>7. TableMatchesWaiters'
  <2>1. \A j \in Calls : j # i => result'[j] = result[j] /\ Key(j) # Key(i)
    BY <1>4, KeyInjective DEF TypeOK
  <2>2. result'[i] = f
    BY <1>4 DEF TypeOK
  <2> QED
    BY <1>3, <1>4, <1>5, <1>6, <2>1, <2>2 DEF TableMatchesWaiters
<1>8. Untouched'
  BY <1>3, <1>4 DEF Untouched, TypeOK
<1> QED
  BY <1>7, <1>8

\* The head of the queue is a request.
LEMMA HeadQueued ==
  ASSUME TypeOK, QueueFresh, txq # << >>
  PROVE  /\ Head(txq) \in Calls /\ Head(txq) < next
         /\ Head(txq) \notin handed /\ sent[Head(txq)] = 0
<1>1. txq \in Seq(Calls)
  BY DEF TypeOK
<1>2. 1 \in 1 .. Len(txq) /\ Head(txq) = txq[1] /\ txq[1] \in Calls
  BY <1>1
<1> QED
  BY <1>2 DEF QueueFresh

\* The table holds the undecided requests, and only handed ones have a result.
LEMMA TableNext ==
  TypeOK /\ TableMatchesWaiters /\ Untouched /\ QueueFresh /\ [Next]_vars
    => TableMatchesWaiters' /\ Untouched'
<1> SUFFICES ASSUME TypeOK, TableMatchesWaiters, Untouched, QueueFresh, [Next]_vars
             PROVE  TableMatchesWaiters' /\ Untouched'
  OBVIOUS
<1>1. target' = target /\ \A i \in Calls : Key(i)' = Key(i)
  BY KeyFixed
<1>2. ASSUME DOMAIN table' = DOMAIN table, handed' = handed, result' = result
      PROVE  TableMatchesWaiters' /\ Untouched'
  BY <1>1, <1>2 DEF TableMatchesWaiters, Untouched
<1>3. CASE IoFrame
  <2>1. Head(rxq) \in Frame /\ handed' = handed
    BY <1>3 DEF IoFrame, TypeOK
  <2>2. CASE Consume(Head(rxq))
    BY <1>1, <2>1, <2>2, ConsumeTable
  <2>3. CASE Dispatch(Head(rxq)) \/ DispatchDies(Head(rxq))
    BY <1>2, <2>1, <2>3 DEF Dispatch, DispatchDies
  <2> QED
    BY <1>3, <2>2, <2>3 DEF IoFrame
<1>4. CASE IoDrain
  <2> DEFINE i == Head(txq)
  <2>1. i \in Calls /\ i \notin handed /\ result' = result
    BY <1>4, HeadQueued DEF IoDrain
  <2>2. CASE UNCHANGED <<table, handed>>
    BY <1>2, <2>1, <2>2
  <2>3. CASE table' = Registered(i) /\ handed' = handed \cup {i}
    <3>1. DOMAIN table' = DOMAIN table \cup {Key(i)}
      BY <2>3 DEF Registered
    <3>2. result[i] = Unset
      BY <2>1 DEF Untouched
    <3> HIDE DEF i
    <3> QED
      BY <1>1, <2>1, <2>3, <3>1, <3>2, KeyInjective DEF TableMatchesWaiters, Untouched
  <2> QED
    BY <1>4, <2>2, <2>3 DEF IoDrain
<1>5. CASE IoExpire
  BY <1>5, ExpireParts, DecideTable
<1>6. CASE Tick
  BY <1>2, <1>6 DEF Tick
<1>7. CASE UNCHANGED <<table, handed, result>>
  BY <1>2, <1>7
<1> QED
  BY <1>3, <1>4, <1>5, <1>6, <1>7
  DEF Next, vars, Submit, Taken, NotTaken, Woken, Return, IoReadDone, IoDrainDone,
      NodeAnswers, NodeSends

-----------------------------------------------------------------------------
(* Requests: numbering, queue, copies sent.                                *)

\* Entries that are decided belong to handed requests, which were given out.
LEMMA RequestedHanded ==
  ASSUME TypeOK, TableMatchesWaiters, Numbered, NEW K, NEW R, ExpireDecides(K, R), NEW i \in R
  PROVE  /\ i \in Calls /\ Key(i) \in K /\ HasRetry(Key(i))
         /\ Key(i) \in DOMAIN table /\ i \in handed /\ i < next
<1>1. i \in Calls /\ Key(i) \in K /\ HasRetry(Key(i))
  BY DEF ExpireDecides, Requested
<1>2. Key(i) \in DOMAIN table
  BY <1>1 DEF ExpireDecides, Due
<1>3. i \in handed
  BY <1>1, <1>2 DEF TableMatchesWaiters
<1> QED
  BY <1>1, <1>2, <1>3 DEF Numbered, TypeOK, Calls

\* Numbers are given out in order, each request is submitted once.
LEMMA NumberedNext ==
  TypeOK /\ TableMatchesWaiters /\ Numbered /\ QueueFresh /\ CallersOpen /\ [Next]_vars
    => Numbered'
<1> SUFFICES ASSUME TypeOK, TableMatchesWaiters, Numbered, QueueFresh, CallersOpen, [Next]_vars
             PROVE  Numbered'
  OBVIOUS
<1>1. CASE UNCHANGED <<next, outcome, handed, sent>>
  BY <1>1 DEF Numbered
<1>2. ASSUME NEW c \in Callers, Submit(c) PROVE Numbered'
  <2>1. next \in Nat /\ next < MaxCalls /\ next' = next + 1 /\ next \in Calls
    BY <1>2 DEF Submit, TypeOK, Calls
  <2>2. outcome' = [outcome EXCEPT ![next] = "open"] /\ handed' = handed /\ sent' = sent
    BY <1>2 DEF Submit
  <2>3. ASSUME NEW i \in Calls, i # next
        PROVE  outcome'[i] = outcome[i] /\ (i < next' <=> i < next)
    <3>1. outcome'[i] = outcome[i]
      BY <2>2, <2>3 DEF TypeOK
    <3>2. i \in Nat
      BY DEF Calls
    <3> QED
      BY <2>1, <2>3, <3>1, <3>2
  <2>4. outcome'[next] = "open" /\ next < next'
    BY <2>1, <2>2 DEF TypeOK
  <2> QED
    BY <2>2, <2>3, <2>4 DEF Numbered
<1>3. ASSUME NEW c \in Callers, NEW r, pc[c] # "idle", Return(c, r) PROVE Numbered'
  <2>1. outcome[call[c]] = "open" /\ call[c] \in Calls
    BY <1>3 DEF CallersOpen, TypeOK
  <2>2. PICK o \in {"none", "answered"} : outcome' = [outcome EXCEPT ![call[c]] = o]
    BY <1>3 DEF Return
  <2>3. UNCHANGED <<next, handed, sent>>
    BY <1>3 DEF Return
  <2> QED
    BY <2>1, <2>2, <2>3 DEF Numbered, TypeOK
<1>4. CASE IoDrain
  <2> DEFINE i == Head(txq)
  <2>1. i \in Calls /\ i < next /\ UNCHANGED <<next, outcome>>
    BY <1>4, HeadQueued DEF IoDrain
  <2>2. handed' \subseteq handed \cup {i}
    BY <1>4 DEF IoDrain
  <2>3. \A j \in Calls : j # i => sent'[j] = sent[j]
    BY <1>4 DEF IoDrain, Written
  <2> HIDE DEF i
  <2> QED
    BY <2>1, <2>2, <2>3 DEF Numbered
<1>5. CASE IoExpire
  <2>1. PICK K, R : ExpireDecides(K, R)
    BY <1>5, ExpireParts
  <2>2. \A i \in Calls : ~ (i < next) => sent'[i] = sent[i]
    BY <2>1, RequestedHanded DEF ExpireDecides, Written
  <2>3. UNCHANGED <<next, outcome, handed>>
    BY <2>1 DEF ExpireDecides
  <2> QED
    BY <2>2, <2>3 DEF Numbered
<1> QED
  BY <1>1, <1>2, <1>3, <1>4, <1>5
  DEF Next, vars, ghostVars, Taken, NotTaken, Woken, IoFrame, IoReadDone, IoDrainDone,
      NodeAnswers, NodeSends, Tick

\* The queue holds requests that were not sent, each once.
LEMMA QueueNext ==
  TypeOK /\ TableMatchesWaiters /\ Numbered /\ QueueFresh /\ [Next]_vars => QueueFresh'
<1> SUFFICES ASSUME TypeOK, TableMatchesWaiters, Numbered, QueueFresh, [Next]_vars
             PROVE  QueueFresh'
  OBVIOUS
<1> txq \in Seq(Calls) /\ next \in Nat /\ \A j \in 1 .. Len(txq) : txq[j] \in Calls
  BY DEF TypeOK
<1> \A i \in Calls : i \in Nat
  BY DEF Calls
<1>1. CASE UNCHANGED <<txq, next, handed, sent>>
  BY <1>1 DEF QueueFresh
<1>2. ASSUME NEW c \in Callers, Submit(c) PROVE QueueFresh'
  <2>1. /\ next \in Calls /\ next' = next + 1 /\ txq' = Append(txq, next)
        /\ handed' = handed /\ sent' = sent
    BY <1>2 DEF Submit, TypeOK, Calls
  <2>2. next \notin handed /\ sent[next] = 0
    BY <2>1 DEF Numbered
  <2>3. Len(txq') = Len(txq) + 1
    BY <2>1
  <2>4. \A j \in 1 .. Len(txq') :
          txq'[j] = IF j = Len(txq) + 1 THEN next ELSE txq[j]
    BY <2>1, <2>3
  <2>5. \A j \in 1 .. Len(txq) : txq[j] \in Calls /\ txq[j] < next
    BY DEF QueueFresh
  <2>6. ASSUME NEW j \in 1 .. Len(txq'), j # Len(txq) + 1
        PROVE  /\ j \in 1 .. Len(txq) /\ txq'[j] = txq[j]
               /\ txq'[j] < next /\ txq'[j] \in Calls
    <3>1. j \in 1 .. Len(txq)
      BY <2>3, <2>6
    <3> QED
      BY <2>4, <2>5, <3>1
  <2>7. ASSUME NEW j \in 1 .. Len(txq')
        PROVE  txq'[j] < next' /\ txq'[j] \notin handed' /\ sent'[txq'[j]] = 0
    <3>1. CASE j = Len(txq) + 1
      BY <2>1, <2>2, <2>4, <3>1
    <3>2. CASE j # Len(txq) + 1
      <4>1. txq'[j] < next'
        <5>1. txq'[j] < next /\ txq'[j] \in Nat
          BY <2>6, <3>2
        <5> QED
          BY <2>1, <5>1
      <4>2. txq'[j] \notin handed' /\ sent'[txq'[j]] = 0
        BY <2>1, <2>6, <3>2 DEF QueueFresh
      <4> QED
        BY <4>1, <4>2
    <3> QED
      BY <3>1, <3>2
  <2>8. ASSUME NEW j \in 1 .. Len(txq'), NEW k \in 1 .. Len(txq'), txq'[j] = txq'[k]
        PROVE  j = k
    <3>1. CASE j = Len(txq) + 1 /\ k # Len(txq) + 1
      BY <2>4, <2>5, <2>6, <2>8, <3>1
    <3>2. CASE j # Len(txq) + 1 /\ k = Len(txq) + 1
      BY <2>4, <2>5, <2>6, <2>8, <3>2
    <3>3. CASE j # Len(txq) + 1 /\ k # Len(txq) + 1
      BY <2>6, <2>8, <3>3 DEF QueueFresh
    <3> QED
      BY <3>1, <3>2, <3>3
  <2> QED
    BY <2>7, <2>8 DEF QueueFresh
<1>3. CASE IoDrain
  <2> DEFINE i == Head(txq)
  <2>1. txq # << >> /\ txq' = Tail(txq) /\ next' = next
    BY <1>3 DEF IoDrain
  <2>2. Len(txq') = Len(txq) - 1 /\ i = txq[1] /\ 1 \in 1 .. Len(txq)
    BY <2>1
  <2>3. \A j \in 1 .. Len(txq') : txq'[j] = txq[j + 1] /\ j + 1 \in 1 .. Len(txq) /\ j + 1 # 1
    BY <2>1, <2>2
  <2>4. \A j \in 1 .. Len(txq') : txq'[j] # i
    BY <2>2, <2>3 DEF QueueFresh
  <2>5. handed' \subseteq handed \cup {i} /\ \A j \in Calls : j # i => sent'[j] = sent[j]
    BY <1>3 DEF IoDrain, Written
  <2> HIDE DEF i
  <2>6. ASSUME NEW j \in 1 .. Len(txq')
        PROVE  txq'[j] < next' /\ txq'[j] \notin handed' /\ sent'[txq'[j]] = 0
    <3>1. PICK k \in 1 .. Len(txq) : txq'[j] = txq[k]
      BY <2>3
    <3>2. txq[k] < next /\ txq[k] \notin handed /\ sent[txq[k]] = 0 /\ txq[k] \in Calls
      BY DEF QueueFresh
    <3> QED
      BY <2>1, <2>4, <2>5, <3>1, <3>2
  <2>7. \A j, k \in 1 .. Len(txq') : txq'[j] = txq'[k] => j = k
    <3> SUFFICES ASSUME NEW j \in 1 .. Len(txq'), NEW k \in 1 .. Len(txq'), txq'[j] = txq'[k]
                 PROVE  j = k
      OBVIOUS
    <3>1. j + 1 = k + 1
      BY <2>3 DEF QueueFresh
    <3> QED
      BY <3>1
  <2> QED
    BY <2>6, <2>7 DEF QueueFresh
<1>4. CASE IoExpire
  <2>1. PICK K, R : ExpireDecides(K, R)
    BY <1>4, ExpireParts
  <2>2. \A i \in Calls : i \notin handed => sent'[i] = sent[i]
    BY <2>1, RequestedHanded DEF ExpireDecides, Written
  <2>3. UNCHANGED <<txq, next, handed>>
    BY <2>1 DEF ExpireDecides
  <2> QED
    BY <2>2, <2>3 DEF QueueFresh
<1> QED
  BY <1>1, <1>2, <1>3, <1>4
  DEF Next, vars, ghostVars, Taken, NotTaken, Woken, Return, IoFrame, IoReadDone, IoDrainDone,
      NodeAnswers, NodeSends, Tick

\* An entry that stays in the table has been tried as often as before, or once more.
LEMMA DecideTries ==
  ASSUME TypeOK, NEW K, NEW R, ExpireDecides(K, R), NEW k \in DOMAIN table'
  PROVE  /\ k \in DOMAIN table
         /\ IF k \in K THEN table'[k].tries = table[k].tries + 1 /\ HasRetry(k)
            ELSE table'[k] = table[k]
<1> DEFINE over == {j \in K : ~ HasRetry(j)}
<1>1. table' = [j \in DOMAIN table \ over |-> IF j \in K THEN NextTry(table[j]) ELSE table[j]]
  BY DEF ExpireDecides, Decide
<1>2. k \in DOMAIN table \ over
  BY <1>1
<1>3. table'[k] = IF k \in K THEN NextTry(table[k]) ELSE table[k]
  BY <1>1, <1>2
<1>4. NextTry(table[k]).tries = table[k].tries + 1
  BY DEF NextTry
<1> QED
  BY <1>2, <1>3, <1>4

\* No request is on the line more often than its entry was tried, plus one.
LEMMA CountedNext ==
  TypeOK /\ TableMatchesWaiters /\ Numbered /\ QueueFresh /\ Counted /\ [Next]_vars
    => Counted'
<1> SUFFICES ASSUME TypeOK, TableMatchesWaiters, Numbered, QueueFresh, Counted, [Next]_vars
             PROVE  Counted'
  OBVIOUS
<1> \A i \in Calls : Key(i)' = Key(i)
  BY KeyFixed
<1> \A i \in Calls : sent[i] \in Nat /\ air[i] \in Nat
  BY DEF TypeOK
<1>1. ASSUME UNCHANGED <<sent, handed>>,
             \A i \in Calls : air'[i] \in Nat /\ air'[i] <= air[i],
             \A i \in Calls : Key(i) \in DOMAIN table' =>
               Key(i) \in DOMAIN table /\ table'[Key(i)].tries = table[Key(i)].tries
      PROVE  Counted'
  <2> SUFFICES ASSUME NEW i \in Calls
               PROVE  /\ sent[i] <= MaxRetry + 1
                      /\ air'[i] > 0 => sent[i] > 0
                      /\ i \in handed => sent[i] > 0
                      /\ Key(i) \in DOMAIN table' => sent[i] <= table'[Key(i)].tries + 1
    BY <1>1 DEF Counted
  <2>1. air'[i] > 0 => air[i] > 0
    BY <1>1
  <2> QED
    BY <1>1, <2>1 DEF Counted
<1>2. CASE IoFrame
  <2>1. UNCHANGED <<sent, handed, air>>
    BY <1>2 DEF IoFrame, ghostVars
  <2>2. \A k \in DOMAIN table' : k \in DOMAIN table /\ table'[k] = table[k]
    BY <1>2 DEF IoFrame, Consume, Dispatch, DispatchDies
  <2> QED
    BY <1>1, <2>1, <2>2
<1>3. CASE IoDrain
  <2> DEFINE i == Head(txq)
  <2>1. i \in Calls /\ i \notin handed /\ sent[i] = 0
    BY <1>3, HeadQueued DEF IoDrain
  <2> HIDE DEF i
  <2>2. CASE UNCHANGED <<air, sent, table, handed>>
    BY <1>1, <2>2
  <2>3. CASE Written({i}) /\ table' = Registered(i) /\ handed' = handed \cup {i}
    <3> SUFFICES ASSUME NEW j \in Calls
                 PROVE  /\ sent'[j] <= MaxRetry + 1
                        /\ air'[j] > 0 => sent'[j] > 0
                        /\ j \in handed' => sent'[j] > 0
                        /\ Key(j) \in DOMAIN table' => sent'[j] <= table'[Key(j)].tries + 1
      BY DEF Counted
    <3>1. CASE j = i
      <4>1. sent'[j] = 1
        BY <2>1, <2>3, <3>1 DEF Written
      <4>2. table'[Key(j)].tries = 0
        BY <2>3, <3>1 DEF Registered
      <4> QED
        BY <4>1, <4>2
    <3>2. CASE j # i
      <4>1. sent'[j] = sent[j] /\ air'[j] = air[j] /\ (j \in handed' <=> j \in handed)
        BY <2>3, <3>2 DEF Written
      <4>2. Key(j) # Key(i)
        BY <2>1, <3>2, KeyInjective
      <4>3. Key(j) \in DOMAIN table' => Key(j) \in DOMAIN table /\ table'[Key(j)] = table[Key(j)]
        BY <2>3, <4>2 DEF Registered
      <4> QED
        BY <4>1, <4>3 DEF Counted
    <3> QED
      BY <3>1, <3>2
  <2> QED
    BY <1>3, <2>2, <2>3 DEF IoDrain, i
<1>4. CASE IoExpire
  <2>1. PICK K, R : ExpireDecides(K, R)
    BY <1>4, ExpireParts
  <2> SUFFICES ASSUME NEW i \in Calls
               PROVE  /\ sent'[i] <= MaxRetry + 1
                      /\ air'[i] > 0 => sent'[i] > 0
                      /\ i \in handed' => sent'[i] > 0
                      /\ Key(i) \in DOMAIN table' => sent'[i] <= table'[Key(i)].tries + 1
    BY DEF Counted
  <2>2. handed' = handed
    BY <2>1 DEF ExpireDecides
  <2>3. Key(i) \in DOMAIN table => table[Key(i)].tries \in 0 .. MaxRetry
    BY DEF TypeOK
  <2>4. CASE i \in R
    <3>1. sent'[i] = sent[i] + 1
      BY <2>1, <2>4 DEF ExpireDecides, Written
    <3>2. /\ Key(i) \in K /\ HasRetry(Key(i)) /\ Key(i) \in DOMAIN table
      BY <2>1, <2>4, RequestedHanded
    <3>3. sent[i] <= table[Key(i)].tries + 1
      BY <3>2 DEF Counted
    <3>4. profile.num_retry \in 0 .. MaxRetry
      BY DEF TypeOK
    <3>5. table[Key(i)].tries < profile.num_retry
      BY <3>2 DEF HasRetry
    <3>6. sent'[i] <= MaxRetry + 1
      BY <2>3, <3>1, <3>2, <3>3, <3>4, <3>5
    <3>7. Key(i) \in DOMAIN table' => table'[Key(i)].tries = table[Key(i)].tries + 1
      BY <2>1, <3>2, DecideTries
    <3> QED
      BY <2>3, <3>1, <3>2, <3>3, <3>6, <3>7
  <2>5. CASE i \notin R
    <3>1. sent'[i] = sent[i] /\ air'[i] = air[i]
      BY <2>1, <2>5 DEF ExpireDecides, Written
    <3>2. Key(i) \in DOMAIN table' =>
            /\ Key(i) \in DOMAIN table
            /\ \/ table'[Key(i)].tries = table[Key(i)].tries
               \/ table'[Key(i)].tries = table[Key(i)].tries + 1
      BY <2>1, DecideTries
    <3> QED
      BY <2>2, <2>3, <3>1, <3>2 DEF Counted
  <2> QED
    BY <2>4, <2>5
<1>5. CASE Tick
  <2>1. UNCHANGED <<sent, handed, air>> /\ table' = [k \in DOMAIN table |-> Aged(table[k])]
    BY <1>5 DEF Tick, wireVars, ghostVars
  <2>2. \A k \in DOMAIN table : table'[k].tries = table[k].tries
    BY <2>1, AgedTyped DEF TypeOK
  <2> QED
    BY <1>1, <2>1, <2>2
<1>6. ASSUME NEW i \in Calls, NodeAnswers(i) PROVE Counted'
  <2>1. UNCHANGED <<sent, handed, table>>
    BY <1>6 DEF NodeAnswers
  <2>2. air[i] > 0 /\ air' = [air EXCEPT ![i] = @ - 1]
    BY <1>6 DEF NodeAnswers
  <2>3. \A j \in Calls : air'[j] \in Nat /\ air'[j] <= air[j]
    BY <2>2 DEF TypeOK
  <2> QED
    BY <1>1, <2>1, <2>3
<1>7. CASE UNCHANGED <<sent, handed, air, table>>
  BY <1>1, <1>7
<1> QED
  BY <1>2, <1>3, <1>4, <1>5, <1>6, <1>7
  DEF Next, vars, wireVars, ghostVars, Submit, Taken, NotTaken, Woken, Return, IoReadDone,
      IoDrainDone, NodeSends

-----------------------------------------------------------------------------
(* Callers and answers.                                                    *)

\* Every caller inside send() has an undecided request of its own.
LEMMA CallersNext ==
  TypeOK /\ Numbered /\ CallersOpen /\ [Next]_vars => CallersOpen'
<1> SUFFICES ASSUME TypeOK, Numbered, CallersOpen, [Next]_vars PROVE CallersOpen'
  OBVIOUS
<1>1. CASE UNCHANGED <<pc, call, outcome>>
  BY <1>1 DEF CallersOpen
<1>2. ASSUME NEW c \in Callers, Submit(c) PROVE CallersOpen'
  <2>1. /\ pc' = [pc EXCEPT ![c] = "queued"] /\ call' = [call EXCEPT ![c] = next]
        /\ outcome' = [outcome EXCEPT ![next] = "open"] /\ next \in Calls
    BY <1>2 DEF Submit, TypeOK, Calls
  <2>2. outcome[next] = "new"
    BY <2>1 DEF Numbered, Calls
  <2>3. \A d \in Callers : pc[d] # "idle" => call[d] # next
    BY <2>2 DEF CallersOpen
  <2>4. call'[c] = next /\ outcome'[next] = "open"
    BY <2>1 DEF TypeOK
  <2>5. \A d \in Callers \ {c} : pc'[d] = pc[d] /\ call'[d] = call[d] /\ call[d] \in Calls
    BY <2>1 DEF TypeOK
  <2>6. \A i \in Calls : i # next => outcome'[i] = outcome[i]
    BY <2>1 DEF TypeOK
  <2> QED
    BY <2>3, <2>4, <2>5, <2>6 DEF CallersOpen
<1>3. ASSUME NEW c \in Callers, NEW r, pc[c] # "idle", Return(c, r) PROVE CallersOpen'
  <2>1. pc' = [pc EXCEPT ![c] = "idle"] /\ call' = call
    BY <1>3 DEF Return
  <2>2. \A i \in Calls : i # call[c] => outcome'[i] = outcome[i]
    BY <1>3 DEF Return, TypeOK
  <2>3. pc'[c] = "idle" /\ \A d \in Callers \ {c} : pc'[d] = pc[d]
    BY <2>1 DEF TypeOK
  <2>4. \A d \in Callers : call[d] \in Calls
    BY DEF TypeOK
  <2> QED
    BY <1>3, <2>1, <2>2, <2>3, <2>4 DEF CallersOpen
<1>4. ASSUME NEW c \in Callers, Taken(c) PROVE CallersOpen'
  <2>1. pc[c] # "idle" /\ pc' = [pc EXCEPT ![c] = "waiting"] /\ UNCHANGED <<call, outcome>>
    BY <1>4 DEF Taken, ghostVars
  <2>2. \A d \in Callers : pc'[d] # "idle" => pc[d] # "idle"
    BY <2>1 DEF TypeOK
  <2> QED
    BY <2>1, <2>2 DEF CallersOpen
<1> QED
  BY <1>1, <1>2, <1>3, <1>4
  DEF Next, vars, callerVars, ghostVars, NotTaken, Woken, IoFrame, IoReadDone, IoDrain,
      IoDrainDone, IoExpire, NodeAnswers, NodeSends, Tick

\* A frame appended to what has arrived comes last.
LEMMA Arrived ==
  ASSUME TypeOK, NEW f \in Frame, rxq' = Append(rxq, f), NEW j \in 1 .. Len(rxq')
  PROVE  rxq'[j] = f \/ (j \in 1 .. Len(rxq) /\ rxq'[j] = rxq[j])
<1>1. rxq \in Seq(Frame)
  BY DEF TypeOK
<1> QED
  BY <1>1

\* Answers on the line are true.
LEMMA AnswersNext ==
  TypeOK /\ AnswersTrue /\ [Next]_vars => AnswersTrue'
<1> SUFFICES ASSUME TypeOK, AnswersTrue, [Next]_vars PROVE AnswersTrue'
  OBVIOUS
<1>1. target' = target
  BY KeyFixed
<1>2. CASE UNCHANGED <<rxq, done>>
  BY <1>1, <1>2 DEF AnswersTrue
<1>3. CASE IoFrame
  <2>1. rxq # << >> /\ rxq' = Tail(rxq) /\ done' = done /\ rxq \in Seq(Frame)
    BY <1>3 DEF IoFrame, ghostVars, TypeOK
  <2>2. \A j \in 1 .. Len(rxq') : rxq'[j] = rxq[j + 1] /\ j + 1 \in 1 .. Len(rxq)
    BY <2>1
  <2> QED
    BY <1>1, <2>1, <2>2 DEF AnswersTrue
<1>4. ASSUME NEW i \in Calls, NodeAnswers(i) PROVE AnswersTrue'
  <2>1. done' = done \cup {i}
    BY <1>4 DEF NodeAnswers
  <2>2. Answer(i) \in Frame /\ Answer(i).id = i /\ Answer(i).node = target[i]
    BY DEF Answer, Frame, Kinds, TypeOK
  <2>3. CASE rxq' = rxq
    BY <1>1, <2>1, <2>3 DEF AnswersTrue
  <2>4. CASE rxq' = Append(rxq, Answer(i))
    BY <1>1, <2>1, <2>2, <2>4, Arrived DEF AnswersTrue
  <2> QED
    BY <1>4, <2>3, <2>4 DEF NodeAnswers
<1>5. ASSUME NEW f \in Inbound, NodeSends(f) PROVE AnswersTrue'
  <2>1. rxq' = Append(rxq, f) /\ done' = done /\ f \in Frame /\ f.kind # "RES"
    BY <1>5 DEF NodeSends, ghostVars
  <2> QED
    BY <1>1, <2>1, Arrived DEF AnswersTrue
<1> QED
  BY <1>2, <1>3, <1>4, <1>5
  DEF Next, vars, wireVars, ghostVars, Submit, Taken, NotTaken, Woken, Return, IoReadDone,
      IoDrain, IoDrainDone, IoExpire, Tick

\* Only a true answer to the request becomes its result.
LEMMA OwnAnswerNext ==
  TypeOK /\ AnswersTrue /\ OwnAnswer /\ [Next]_vars => OwnAnswer'
<1> SUFFICES ASSUME TypeOK, AnswersTrue, OwnAnswer, [Next]_vars PROVE OwnAnswer'
  OBVIOUS
<1>1. target' = target
  BY KeyFixed
<1>2. CASE result' = result /\ done \subseteq done'
  BY <1>1, <1>2 DEF OwnAnswer, Unset, NoneR
<1>3. CASE IoFrame
  <2> DEFINE f == Head(rxq)
  <2>1. done' = done /\ rxq # << >>
    BY <1>3 DEF IoFrame, ghostVars
  <2>2. f \in Frame /\ f = rxq[1] /\ 1 \in 1 .. Len(rxq)
    BY <2>1 DEF TypeOK
  <2> HIDE DEF f
  <2>3. CASE Consume(f)
    <3>1. f.kind = "RES"
      BY <2>2, <2>3, DecodedKind DEF Consume, Matches
    <3>2. f.id \in done /\ f.node = target[f.id]
      BY <2>2, <3>1 DEF AnswersTrue
    <3>3. result' = [result EXCEPT ![f.id] = f]
      BY <2>3 DEF Consume
    <3> QED
      BY <1>1, <2>1, <3>1, <3>2, <3>3 DEF OwnAnswer, TypeOK, Unset, NoneR
  <2>4. CASE Dispatch(f) \/ DispatchDies(f)
    BY <1>2, <2>1, <2>4 DEF Dispatch, DispatchDies
  <2> QED
    BY <1>3, <2>3, <2>4 DEF IoFrame, f
<1>4. CASE IoExpire
  <2>1. PICK K, R : ExpireDecides(K, R)
    BY <1>4, ExpireParts
  <2>2. done' = done /\ \A i \in Calls : result'[i] \in {NoneR, result[i]}
    BY <2>1 DEF ExpireDecides, Decide, GiveUp
  <2> QED
    BY <1>1, <2>2 DEF OwnAnswer, Unset, NoneR
<1> QED
  BY <1>2, <1>3, <1>4
  DEF Next, vars, ghostVars, Submit, Taken, NotTaken, Woken, Return, IoReadDone,
      IoDrain, IoDrainDone, NodeAnswers, NodeSends, Tick

\* The inductive invariant.
LEMMA IInvInit == Init => IInv
<1> SUFFICES ASSUME Init PROVE IInv
  OBVIOUS
<1>1. TypeOK
  BY TypeInit
<1>2. TableMatchesWaiters /\ Untouched
  BY DEF Init, TableMatchesWaiters, Untouched
<1>3. Numbered /\ QueueFresh /\ AnswersTrue
  BY DEF Init, Numbered, QueueFresh, AnswersTrue, Calls
<1>4. Counted /\ CallersOpen /\ OwnAnswer
  BY DEF Init, Counted, CallersOpen, OwnAnswer, Unset
<1> QED
  BY <1>1, <1>2, <1>3, <1>4 DEF IInv

LEMMA IInvNext == IInv /\ [Next]_vars => IInv'
BY TypeNext, TableNext, NumberedNext, QueueNext, CountedNext, CallersNext, AnswersNext,
   OwnAnswerNext
DEF IInv

LEMMA Invariant == Spec => []IInv
BY IInvInit, IInvNext, PTL DEF Spec

\* The pending table holds exactly the requests that were handed over and are not
\* decided, whatever the nodes send and wherever the I/O thread dies.
THEOREM TableCorrect == Spec => []TableMatchesWaiters
<1>1. IInv => TableMatchesWaiters
  BY DEF IInv
<1> QED
  BY <1>1, Invariant, PTL

\* What send() returns is the response of the node it asked to the request it made.
THEOREM AnswerCorrect == Spec => []OwnAnswer
<1>1. IInv => OwnAnswer
  BY DEF IInv
<1> QED
  BY <1>1, Invariant, PTL

-----------------------------------------------------------------------------
(* Refinement.                                                             *)

\* Steps that change none of the three history variables are stuttering steps.
LEMMA Stutters == UNCHANGED ghostVars => UNCHANGED RR!vars
BY DEF ghostVars, RR!vars

\* Every step of the link is a step that send()'s promise allows.
LEMMA RefinesNext == IInv /\ [Next]_vars => [RR!Next]_(RR!vars)
<1> SUFFICES ASSUME IInv, [Next]_vars PROVE RR!Next \/ UNCHANGED RR!vars
  OBVIOUS
<1> TypeOK
  BY DEF IInv
<1>1. CASE UNCHANGED ghostVars
  BY <1>1, Stutters
<1>2. ASSUME NEW c \in Callers, Submit(c) PROVE RR!Next
  <2>1. next \in Calls /\ outcome[next] = "new"
    BY <1>2 DEF Submit, TypeOK, Calls, IInv, Numbered
  <2>2. RR!Submit(next)
    BY <1>2, <2>1 DEF Submit, RR!Submit
  <2> QED
    BY <2>1, <2>2 DEF RR!Next
<1>3. ASSUME NEW c \in Callers, NEW r, pc[c] # "idle", Return(c, r),
             r \notin {Unset, NoneR} => call[c] \in done
      PROVE  RR!Next
  <2>1. call[c] \in Calls /\ outcome[call[c]] = "open"
    BY <1>3 DEF IInv, CallersOpen, TypeOK
  <2>2. RR!Return(call[c])
    BY <1>3, <2>1 DEF Return, RR!Return
  <2> QED
    BY <2>1, <2>2 DEF RR!Next
<1>4. ASSUME NEW c \in Callers, NotTaken(c) \/ Woken(c) PROVE RR!Next
  <2>1. CASE NotTaken(c)
    BY <1>3, <2>1 DEF NotTaken
  <2>2. CASE Woken(c)
    <3>1. result[call[c]] \notin {Unset, NoneR} => call[c] \in done
      BY DEF IInv, OwnAnswer, TypeOK
    <3> QED
      BY <1>3, <2>2, <3>1 DEF Woken
  <2> QED
    BY <1>4, <2>1, <2>2
<1>5. ASSUME NEW R \in SUBSET Calls, Written(R), UNCHANGED <<outcome, done>>,
             \A i \in R : outcome[i] # "new" /\ sent[i] < MaxRetry + 1
      PROVE  RR!Next
  <2>1. RR!Transmit(R)
    BY <1>5 DEF Written, RR!Transmit
  <2> QED
    BY <2>1 DEF RR!Next
<1>6. CASE IoDrain
  <2>1. /\ Head(txq) \in Calls /\ outcome[Head(txq)] # "new" /\ sent[Head(txq)] = 0
    BY <1>6, HeadQueued DEF IoDrain, IInv, Numbered
  <2>2. UNCHANGED <<outcome, done>>
    BY <1>6 DEF IoDrain
  <2>3. CASE UNCHANGED sent
    BY <1>1, <2>2, <2>3 DEF ghostVars
  <2>4. CASE Written({Head(txq)})
    BY <1>5, <2>1, <2>2, <2>4
  <2> QED
    BY <1>6, <2>3, <2>4 DEF IoDrain
<1>7. CASE IoExpire
  <2>1. PICK K, R : ExpireDecides(K, R)
    BY <1>7, ExpireParts
  <2>2. R \in SUBSET Calls /\ Written(R) /\ UNCHANGED <<outcome, done>>
    BY <2>1 DEF ExpireDecides, Requested
  <2>3. ASSUME NEW i \in R PROVE outcome[i] # "new" /\ sent[i] < MaxRetry + 1
    <3>1. /\ i \in Calls /\ HasRetry(Key(i)) /\ Key(i) \in DOMAIN table /\ i < next
      BY <2>1, <2>3, RequestedHanded DEF IInv
    <3>2. sent[i] <= table[Key(i)].tries + 1 /\ sent[i] \in Nat
      BY <3>1 DEF IInv, Counted, TypeOK
    <3>3. table[Key(i)].tries \in 0 .. MaxRetry /\ profile.num_retry \in 0 .. MaxRetry
      BY <3>1 DEF TypeOK
    <3>4. table[Key(i)].tries < profile.num_retry
      BY <3>1 DEF HasRetry
    <3> QED
      BY <3>1, <3>2, <3>3, <3>4 DEF IInv, Numbered
  <2> QED
    BY <1>5, <2>2, <2>3
<1>8. ASSUME NEW i \in Calls, NodeAnswers(i) PROVE RR!Next
  <2>1. air[i] > 0 /\ done' = done \cup {i} /\ UNCHANGED <<outcome, sent>>
    BY <1>8 DEF NodeAnswers
  <2>2. sent[i] > 0
    BY <2>1 DEF IInv, Counted
  <2>3. RR!CarryOut(i)
    BY <2>1, <2>2 DEF RR!CarryOut
  <2> QED
    BY <2>3 DEF RR!Next
<1> QED
  BY <1>1, <1>2, <1>4, <1>6, <1>7, <1>8
  DEF Next, vars, Taken, IoFrame, IoReadDone, IoDrainDone, NodeSends, Tick

\* The link keeps the promise of send(): an answer only for what the node carried
\* out, at most MaxRetry retransmissions, one return for each call.
THEOREM LinkKeepsPromise == Spec => Promise
<1>1. Init => RR!Init
  BY DEF Init, RR!Init
<1> QED
  BY <1>1, Invariant, RefinesNext, PTL DEF Spec, Promise, RR!Spec


=============================================================================
