----------------------------- MODULE EventStream -----------------------------
(***************************************************************************)
(* The frame log on its way to the verification screen: the event stream   *)
(* of backend/api.py (stream_events), the subscription of                  *)
(* web/static/stream.js with its polling and reconnection, and the frame   *)
(* list of web/verify.html, which is fed by the stream, by snapshots       *)
(* (loadFrames), by the recovery of missed frames and by the details of a  *)
(* selected frame.  The answers to these requests come in any order.       *)
(*                                                                         *)
(* Data: a frame is its number in the order of insertion, with the time    *)
(* stamp of its arrival, the server's judgement and its node.  Browser and *)
(* server read one clock, as they do on the machine that serves the page.  *)
(***************************************************************************)
EXTENDS Naturals, SequencesExt

CONSTANTS
  Kinds,         \* the frames that arrive: records [judgement, node]
  Filters,       \* settings of the screen: records [judge, node]
  AnyNode,       \* the node filter lets every node pass
  Undef, NoFrame,\* values of recoverySince: no outage; an outage of an empty list
  StreamWindow,  \* frames read per tick of the stream (50)
  AlertWindow,   \* alerts read per tick (20)
  PageSize,      \* frames per page (100)
  MaxFrames,     \* bound on the frames logged
  MaxTime,       \* bound on the clock
  MaxFaults,     \* bound on broken connections and failed requests
  MaxLoads,      \* bound on the snapshots under way
  MaxClicks      \* bound on the user's selections and changes of the filter

Everything == [judge |-> "all", node |-> AnyNode]

ASSUME StreamAssumption ==
  /\ \A k \in Kinds : k.judgement \in {"normal", "alert", "violation"} /\ k.node # AnyNode
  /\ \A f \in Filters : f.judge \in {"all", "alerts", "violations"}
  /\ Everything \in Filters
  /\ \A f \in Filters : [f EXCEPT !.node = AnyNode] \in Filters
  /\ Undef \notin Nat /\ NoFrame \notin Nat /\ Undef # NoFrame
  /\ StreamWindow \in Nat \ {0} /\ AlertWindow \in Nat \ {0} /\ PageSize \in Nat \ {0}
  /\ MaxFrames \in Nat /\ MaxTime \in Nat \ {0} /\ MaxFaults \in Nat /\ MaxLoads \in Nat \ {0}
  /\ MaxClicks \in Nat

VARIABLES
  log,      \* frame_log in the order of commits: records [kind, t]
  stamped,  \* what has its time stamp and is not committed yet: <<>> or one frame
  now,      \* the clock; never 0, which stands before every frame
  net,      \* the page's connection: "none", "up" or "broken"
  srv,      \* the generator behind it: last_frame_t and last_alert_seen
  got,      \* history: the frames it has put on this connection
  down,     \* events on their way to the page
  es,       \* EventSource: "connecting", "open", or "closed" until the back-off ends
  polling,  \* pollTimer is set
  recovering,
  filter,   \* the three controls above the list
  frames,   \* state.frames
  byId,     \* the keys of state.byId
  since,    \* state.recoverySince
  loads,    \* loadFrames calls under way
  repairs,  \* recoverMissedFrames calls under way, past their first request
  selected, details,  \* state.selectedId; getFrame calls under way
  faults, clicks

serverVars == <<log, stamped, now>>
connVars   == <<net, srv, got, down>>
subVars    == <<es, polling, recovering>>
listVars   == <<frames, byId>>
clickVars  == <<selected, details, clicks>>
vars == <<serverVars, connVars, subVars, filter, listVars, since, loads, repairs, clickVars, faults>>

Logged == 1..Len(log)
T(i)   == log[i].t
Judgement(i) == log[i].kind.judgement

-----------------------------------------------------------------------------
(* What the queries return: `ORDER BY t DESC` over the index on t.  Frames *)
(* are stamped and committed by one thread, so that their numbers ascend   *)
(* with their time stamps.                                                 *)

\* The members of s that belong to S, in their order.
Kept(s, S) == FlattenSeq([k \in DOMAIN s |-> IF s[k] \in S THEN << s[k] >> ELSE << >>])

Ascending(S)  == Kept([k \in Logged |-> k], S)
Descending(S) == Reverse(Ascending(S))
FirstOf(s, n) == SubSeq(s, 1, IF n < Len(s) THEN n ELSE Len(s))

\* list_frames, and list_violation_frames, from an offset.
Query(S, offset, limit) == FirstOf(SubSeq(Descending(S), offset + 1, Len(Descending(S))), limit)
Listable(violationsOnly) == {i \in Logged : violationsOnly => Judgement(i) = "violation"}
Between(S, from, until)  == {i \in S : from <= T(i) /\ T(i) < until}

-----------------------------------------------------------------------------
(* The screen.                                                             *)

\* frameMatchesCurrentFilter
Matches(f, i) ==
  /\ f.judge = "violations" => Judgement(i) = "violation"
  /\ f.judge = "alerts" => Judgement(i) \in {"violation", "alert"}
  /\ f.node = AnyNode \/ log[i].kind.node = f.node

Matching(f) == {i \in Logged : Matches(f, i)}

ViolationsOnly == filter.judge = "violations"

\* Without a look at the index.
MutAlwaysNew(S) ==
  LET fit == {i \in S : Matches(filter, i)}
  IN  /\ frames' = Descending(fit) \o
                   Kept(frames, Logged \ (byId \cap (S \ fit)))
      /\ byId' = (byId \ S) \cup fit
      /\ details' = details \cup (fit \cap selected)

\* upsertFrame for each member of S, older ones first; what does not match
\* leaves the list, what is new goes to its head.
Upsert(S) ==
  LET fit == {i \in S : Matches(filter, i)}
  IN  /\ frames' = Descending(fit \ byId) \o
                   Kept(frames, Logged \ (byId \cap (S \ fit)))
      /\ byId' = (byId \ S) \cup fit
      /\ details' = details \cup (fit \cap selected)

\* loadFrames up to its first await: newer calls make older ones void.
Load(clears) ==
  Append([k \in DOMAIN loads |-> [loads[k] EXCEPT !.current = FALSE]],
         [current |-> TRUE, only |-> filter'.judge = "violations", answered |-> FALSE,
          page |-> <<>>, clears |-> clears])
MayLoad == Len(loads) < MaxLoads

-----------------------------------------------------------------------------
(* The server.                                                             *)

ClockTick ==
  /\ now < MaxTime
  /\ now' = now + 1
  /\ UNCHANGED <<log, stamped, connVars, subVars, filter, listVars, since, loads, repairs,
                 clickVars, faults>>

\* The I/O thread stamps a frame and hands it to ingest ...
FrameArrives(k) ==
  /\ stamped = <<>> /\ Len(log) < MaxFrames
  /\ stamped' = << [kind |-> k, t |-> now] >>
  /\ UNCHANGED <<log, now, connVars, subVars, filter, listVars, since, loads, repairs,
                 clickVars, faults>>

\* ... which commits it, with the alert it may cause.
FrameCommitted ==
  /\ stamped # <<>>
  /\ log' = log \o stamped
  /\ stamped' = <<>>
  /\ UNCHANGED <<now, connVars, subVars, filter, listVars, since, loads, repairs, clickVars,
                 faults>>

\* A connection is accepted and its generator starts.
Accept ==
  /\ es = "connecting" /\ net = "none"
  /\ net' = "up"
  /\ srv' = [last |-> 0, seen |-> {}]
  /\ got' = {} /\ down' = <<>>
  /\ UNCHANGED <<serverVars, subVars, filter, listVars, since, loads, repairs, clickVars, faults>>

\* The frames of a tick that pass the generator's test of their time stamps.
Batch     == Query({i \in Logged : srv.last <= T(i)}, 0, StreamWindow)
Sent(b)   == {i \in ToSet(b) : /\ srv.last < T(i)
                               /\ \A j \in ToSet(b) : j < i => T(j) < T(i)}
MutTickTime(S) == now
NewestOf(S) ==
  LET times == {T(i) : i \in S} \cup {srv.last} IN CHOOSE t \in times : \A u \in times : u <= t
NewAlerts == {i \in ToSet(Query({j \in Logged : Judgement(j) = "alert"}, 0, AlertWindow)) :
                 i \notin srv.seen}

Event(type, s) == [k \in DOMAIN s |-> [type |-> type, id |-> s[k]]]

\* One round of the generator.
StreamTick ==
  LET sent == Sent(Batch)
  IN  /\ net = "up"
      /\ sent # {} \/ NewAlerts # {}
      /\ srv' = [last |-> NewestOf(sent), seen |-> srv.seen \cup NewAlerts]
      /\ got' = got \cup sent
      /\ down' = down \o Event("frame", Ascending(sent)) \o Event("alert", Descending(NewAlerts))
      /\ UNCHANGED <<serverVars, net, subVars, filter, listVars, since, loads, repairs,
                     clickVars, faults>>

\* The connection breaks, is refused, or the generator ends with an exception.
Break ==
  /\ faults < MaxFaults /\ faults' = faults + 1
  /\ es # "closed" /\ net # "broken"
  /\ net' = "broken" /\ down' = <<>>
  /\ UNCHANGED <<serverVars, srv, got, subVars, filter, listVars, since, loads, repairs,
                 clickVars>>

-----------------------------------------------------------------------------
(* stream.js                                                               *)

\* open()
Reopen ==
  /\ es = "closed"
  /\ es' = "connecting"
  /\ UNCHANGED <<serverVars, connVars, polling, recovering, filter, listVars, since, loads,
                 repairs, clickVars, faults>>

\* recoverMissedFrames up to its first await.
BeginRecovery ==
  IF since \in Nat
  THEN /\ repairs' = Append(repairs,
            [since |-> since, until |-> now, only |-> ViolationsOnly, offset |-> 0,
             items |-> {}, whole |-> FALSE, before |-> Logged,
             asked |-> FALSE, counted |-> {}, slipped |-> FALSE])
       /\ UNCHANGED loads
  ELSE /\ loads' = Load(TRUE)
       /\ UNCHANGED repairs

\* onopen
OnOpen ==
  /\ es = "connecting" /\ net = "up"
  /\ recovering => MayLoad /\ Len(repairs) < MaxLoads
  /\ es' = "open" /\ polling' = FALSE /\ recovering' = FALSE
  /\ UNCHANGED filter
  /\ IF recovering THEN BeginRecovery ELSE UNCHANGED <<loads, repairs>>
  /\ UNCHANGED <<serverVars, connVars, listVars, since, clickVars, faults>>

\* An empty list taken for the beginning of time.
MutFromTheBeginning ==
  IF since # Undef THEN since
  ELSE IF frames = <<>> THEN 0 ELSE T(Head(frames))

\* pinRecoveryCursor
Pinned ==
  IF since # Undef THEN since
  ELSE IF frames = <<>> THEN NoFrame ELSE T(Head(frames))

\* onerror
OnError ==
  /\ es \in {"connecting", "open"} /\ net = "broken"
  /\ since' = IF recovering THEN since ELSE Pinned
  /\ recovering' = TRUE /\ polling' = TRUE
  /\ es' = "closed" /\ net' = "none"
  /\ UNCHANGED <<serverVars, srv, got, down, filter, listVars, loads, repairs, clickVars, faults>>

\* setInterval of startPolling, with onPollTick = loadFrames.
PollTick ==
  /\ polling /\ MayLoad
  /\ UNCHANGED filter
  /\ loads' = Load(FALSE)
  /\ UNCHANGED <<serverVars, connVars, subVars, listVars, since, repairs, clickVars, faults>>

\* onEvent
Deliver ==
  /\ es = "open" /\ down # <<>>
  /\ LET e == Head(down)
     IN  IF e.type = "frame" \/ e.id \in byId
         THEN Upsert({e.id}) ELSE UNCHANGED <<listVars, details>>
  /\ down' = Tail(down)
  /\ UNCHANGED <<serverVars, net, srv, got, subVars, filter, since, loads, repairs, selected,
                 clicks, faults>>

-----------------------------------------------------------------------------
(* verify.html                                                             *)

\* GET /frames or /frames/violations is answered ...
Snapshot(k) ==
  /\ ~loads[k].answered
  /\ loads' = [loads EXCEPT ![k].answered = TRUE,
                            ![k].page = Query(Listable(loads[k].only), 0, PageSize)]
  /\ UNCHANGED <<serverVars, connVars, subVars, filter, listVars, since, repairs, clickVars,
                 faults>>

Fresh(k) == loads[k].current /\ loads[k].only = ViolationsOnly
Cleared(clears) == IF clears THEN Undef ELSE since

\* ... and the answer reaches loadFrames, which replaces the list.
LoadDone(k) ==
  /\ loads[k].answered
  /\ IF Fresh(k)
     THEN /\ frames' = Kept(loads[k].page, Matching(filter))
          /\ byId' = ToSet(frames')
     ELSE UNCHANGED listVars
  /\ since' = Cleared(loads[k].clears)
  /\ loads' = RemoveAt(loads, k)
  /\ UNCHANGED <<serverVars, connVars, subVars, filter, repairs, clickVars, faults>>

\* loadFrames reports an error and returns.
LoadFails(k) ==
  /\ faults < MaxFaults /\ faults' = faults + 1
  /\ since' = Cleared(loads[k].clears)
  /\ loads' = RemoveAt(loads, k)
  /\ UNCHANGED <<serverVars, connVars, subVars, filter, listVars, repairs, clickVars>>

\* The frames that the pages of a recovery are about.
Due(r) == Between(Listable(r.only), r.since, r.until)

\* One round of collectAllPages is two statements of the server, with a transaction
\* each: COUNT(*), of which the page tells the total (what it counted is a history) ...
CountPage(k) ==
  LET r == repairs[k]
  IN  /\ ~r.whole /\ ~r.asked
      /\ repairs' = [repairs EXCEPT ![k].asked = TRUE, ![k].counted = Due(r)]
      /\ UNCHANGED <<serverVars, connVars, subVars, filter, listVars, since, loads, clickVars,
                     faults>>

\* The first page taken for all of them (F-205).
MutFirstPage(k) ==
  LET r     == repairs[k]
      batch == Query(Due(r), r.offset, PageSize)
  IN  /\ ~r.whole /\ r.asked
      /\ repairs' = [repairs EXCEPT ![k].items = @ \cup ToSet(batch),
                                    ![k].offset = @ + Len(batch), ![k].whole = TRUE,
                                    ![k].asked = FALSE, ![k].counted = {},
                                    ![k].slipped = Due(r) # r.counted]
      /\ UNCHANGED <<serverVars, connVars, subVars, filter, listVars, since, loads, clickVars,
                     faults>>

\* ... and SELECT, whose rows are those of the log as it is by then; slipped: they are
\* of more frames than were counted.
NextPage(k) ==
  LET r     == repairs[k]
      batch == Query(Due(r), r.offset, PageSize)
  IN  /\ ~r.whole /\ r.asked
      /\ repairs' = [repairs EXCEPT ![k].items = @ \cup ToSet(batch),
                                    ![k].offset = @ + Len(batch),
                                    ![k].whole = \/ batch = <<>>
                                                 \/ r.offset + Len(batch) >= Cardinality(r.counted),
                                    ![k].asked = FALSE, ![k].counted = {},
                                    ![k].slipped = Due(r) # r.counted]
      /\ UNCHANGED <<serverVars, connVars, subVars, filter, listVars, since, loads, clickVars,
                     faults>>

\* The rest of recoverMissedFrames.
RecoveryDone(k) ==
  /\ repairs[k].whole
  /\ Upsert(repairs[k].items)
  /\ since' = Undef
  /\ repairs' = RemoveAt(repairs, k)
  /\ UNCHANGED <<serverVars, connVars, subVars, filter, loads, selected, clicks, faults>>

\* One of its requests fails: the cursor stays.
RecoveryFails(k) ==
  /\ faults < MaxFaults /\ faults' = faults + 1
  /\ ~repairs[k].whole
  /\ repairs' = RemoveAt(repairs, k)
  /\ UNCHANGED <<serverVars, connVars, subVars, filter, listVars, since, loads, clickVars>>

\* selectFrame up to its await, and from there.
SelectFrame(i) ==
  /\ clicks < MaxClicks /\ clicks' = clicks + 1
  /\ selected' = {i} /\ details' = details \cup {i}
  /\ UNCHANGED <<serverVars, connVars, subVars, filter, listVars, since, loads, repairs, faults>>

DetailDone(i) ==
  /\ byId' = byId \cup {i}
  /\ details' = details \ {i}
  /\ UNCHANGED <<serverVars, connVars, subVars, filter, frames, since, loads, repairs, selected,
                 clicks, faults>>

DetailFails(i) ==
  /\ faults < MaxFaults /\ faults' = faults + 1
  /\ details' = details \ {i}
  /\ UNCHANGED <<serverVars, connVars, subVars, filter, listVars, since, loads, repairs,
                 selected, clicks>>

\* applyFilterChange
ChangeFilter(f) ==
  /\ clicks < MaxClicks /\ clicks' = clicks + 1
  /\ f # filter /\ MayLoad
  /\ filter' = f
  /\ frames' = Kept(frames, Matching(f))
  /\ byId' = ToSet(frames')
  /\ loads' = Load(FALSE)
  /\ UNCHANGED <<serverVars, connVars, subVars, since, repairs, selected, details, faults>>

\* populateNodeFilter finds the chosen node gone: the control falls back, and
\* no change event follows.
NodeVanishes ==
  /\ filter.node # AnyNode
  /\ filter' = [filter EXCEPT !.node = AnyNode]
  /\ UNCHANGED <<serverVars, connVars, subVars, listVars, since, loads, repairs, clickVars, faults>>

-----------------------------------------------------------------------------
\* The page is opened: connectStream and a first loadFrames.
Init ==
  /\ log = <<>> /\ stamped = <<>> /\ now = 1
  /\ net = "none" /\ srv = [last |-> 0, seen |-> {}] /\ got = {} /\ down = <<>>
  /\ es = "connecting" /\ polling = FALSE /\ recovering = FALSE
  /\ filter = Everything /\ frames = <<>> /\ byId = {} /\ since = Undef
  /\ loads = << [current |-> TRUE, only |-> FALSE, answered |-> FALSE,
                 page |-> <<>>, clears |-> FALSE] >>
  /\ repairs = <<>> /\ selected = {} /\ details = {}
  /\ faults = 0 /\ clicks = 0

ServerStep == FrameCommitted \/ Accept \/ StreamTick
Environment == ClockTick \/ (\E k \in Kinds : FrameArrives(k)) \/ Break \/ NodeVanishes
Subscription == Reopen \/ OnOpen \/ OnError \/ PollTick \/ Deliver
Answers ==
  \/ \E k \in DOMAIN loads : Snapshot(k) \/ LoadDone(k) \/ LoadFails(k)
  \/ \E k \in DOMAIN repairs : CountPage(k) \/ NextPage(k) \/ RecoveryDone(k) \/ RecoveryFails(k)
  \/ \E i \in details : DetailDone(i) \/ DetailFails(i)
User ==
  \/ \E i \in ToSet(frames) : SelectFrame(i)
  \/ \E f \in Filters : ChangeFilter(f)

Next == ServerStep \/ Environment \/ Subscription \/ Answers \/ User
Spec == Init /\ [][Next]_vars

-----------------------------------------------------------------------------
\* The type invariant.
Frame == [kind : Kinds, t : 1..MaxTime]
Times == 1..MaxTime
TypeOK ==
  /\ log \in Seq(Frame) /\ Len(log) <= MaxFrames /\ now \in Times
  /\ Len(stamped) <= 1 /\ stamped \in Seq(Frame)
  /\ net \in {"none", "up", "broken"} /\ es \in {"connecting", "open", "closed"}
  /\ srv \in [last : Times \cup {0}, seen : SUBSET Logged]
  /\ got \subseteq Logged /\ down \in Seq([type : {"frame", "alert"}, id : Logged])
  /\ polling \in BOOLEAN /\ recovering \in BOOLEAN /\ filter \in Filters
  /\ frames \in Seq(Logged) /\ byId \subseteq Logged
  /\ since \in Times \cup {Undef, NoFrame}
  /\ loads \in Seq([current : BOOLEAN, only : BOOLEAN, answered : BOOLEAN,
                    page : Seq(Logged), clears : BOOLEAN])
  /\ repairs \in Seq([since : Times, until : Times, only : BOOLEAN, offset : 0..MaxFrames,
                      items : SUBSET Logged, whole : BOOLEAN, before : SUBSET Logged,
                      asked : BOOLEAN, counted : SUBSET Logged, slipped : BOOLEAN])
  /\ selected \subseteq Logged /\ details \subseteq Logged
  /\ faults \in 0..MaxFaults /\ clicks \in 0..MaxClicks

\* A frame stands in the list once, and what is listed is in the index by which
\* upsertFrame decides whether a frame is new, whatever snapshots, recoveries and
\* details replace or add meanwhile.
ShownOnce ==
  /\ \A k, n \in DOMAIN frames : frames[k] = frames[n] => k = n
  /\ ToSet(frames) \subseteq byId

\* Every frame in the list passes the filter as it is set now, also when the answer
\* was asked for under another one.
FilterHolds == \A i \in ToSet(frames) : Matches(filter, i)

\* What the list shows is right at any time (upsertFrame, loadFrames, applyFilterChange).
ListHolds == ShownOnce /\ FilterHolds

\* The stream passes a frame over only if it shares its time stamp with one that was
\* sent, or if more frames than a tick reads came with it and after it.
StreamSkipsOnlyBursts ==
  net = "up" => \A i \in Logged \ got :
    T(i) <= srv.last =>
      \/ \E j \in got : T(j) = T(i)
      \/ Cardinality({j \in Logged \ {i} : T(i) <= T(j) /\ T(j) <= srv.last}) >= StreamWindow

\* A recovery that ends has put every frame of its interval into the list, over any
\* number of pages, while frames are committed and the list is replaced; except what
\* the index holds without the list (a detail that came after its frame had left), and
\* except the one oldest frame, if a frame with a time stamp of the interval was
\* committed just between the count and the rows of the last page.
Missed(r) == {i \in r.before \cap Due(r) : Matches(filter, i)}
Overlooked(r) == {i \in Due(r) : r.slipped /\ \A j \in Due(r) : i <= j}
InListOrIndex == ToSet(frames') \cup (byId \ ToSet(frames))
Ends(k) == repairs[k].whole /\ repairs' = RemoveAt(repairs, k)
RecoveryRepairs ==
  [][\A k \in DOMAIN repairs : Ends(k) =>
       Missed(repairs[k]) \subseteq InListOrIndex \cup Overlooked(repairs[k])]_vars

\* "마지막으로 확인한 프레임 이후 전부를 복구한다 ... 페이지 이동 중 삽입에도 흔들리지
\* 않는다" (verify.html:311-313): a recovery that ends has put every frame after the last
\* one seen into the list, whatever is inserted between its pages.
InsertionHarmless ==
  [][\A k \in DOMAIN repairs : Ends(k) =>
       {i \in Missed(repairs[k]) : repairs[k].since < T(i)} \subseteq InListOrIndex]_vars

\* The claim behind the pinned cursor (verify.html:304): it is given up only when every
\* frame since then is in the list or still to come on the open stream.
Expected(i) ==
  \/ net = "up" /\ i \notin got /\ srv.last < T(i)
  \/ \E n \in DOMAIN down : down[n].id = i
ClearedWhenRepaired ==
  [][(since \in Nat /\ since' = Undef) =>
       \A i \in Logged : since <= T(i) /\ Matches(filter, i) =>
         i \in ToSet(frames') \/ Expected(i)]_vars
=============================================================================
