------------------------------- MODULE Backend -------------------------------
(***************************************************************************)
(* The services of the backend and the SQLite database they share with the *)
(* SIAP I/O thread.                                                         *)
(*                                                                          *)
(* An API request runs on a thread with a connection of its own, opened by  *)
(* get_conn and closed (which rolls back) when the request ends.  Python's  *)
(* sqlite3 opens a transaction at the first INSERT or UPDATE: a SELECT      *)
(* before it sees the committed database and holds nothing, so that what a  *)
(* service has read may be old when it writes.  There is one write lock; a  *)
(* statement that finds it taken waits for busy_timeout and then fails.     *)
(* A request sent to a node waits for Timeout x (Retry Count + 1).          *)
(*                                                                          *)
(* The link is reduced to what RequestReply promises: requests are handed   *)
(* over, the I/O thread writes them, again while the caller waits, and      *)
(* hands the first answer to the caller that still waits.                   *)
(***************************************************************************)
EXTENDS Naturals, FiniteSets, SequencesExt

CONSTANTS
  Threads,      \* threads that serve API requests
  Rules,        \* identifiers of control_rule
  Devices,      \* rows of device_install_info
  Sensors,      \* those with measurements in env_measure
  Nodes, NodeOf,
  Commands,     \* control commands
  Fields, Vals, \* settings of DEVICE_PROPERTY; Factory is what a node starts with
  Factory,
  Fixed,        \* limits: a declaration gives them as a PATCH sends them, zero; Factory is zero too
  Histories,    \* the sequences of requests clients make
  MaxFaults,    \* bound on retransmissions and restarts of the process
  BusyLimit,    \* busy_timeout, in ticks of Timeout
  Retries,      \* Retry Count of the profile
  Manual, NoOne

ASSUME BackendAssumption ==
  /\ Nodes \subseteq Nat /\ NodeOf \in [Devices -> Nodes] /\ Factory \in Vals /\ Fixed \subseteq Fields
  /\ Sensors \subseteq Devices
  /\ MaxFaults \in Nat /\ BusyLimit \in Nat /\ Retries \in Nat
  /\ Histories # {} /\ \A h \in Histories : h \in Seq(Range(h))
  /\ Manual \notin Rules /\ NoOne \notin Threads

VARIABLES
  db,        \* the committed database
  draft,     \* what the holder of the write lock sees: db with its changes
  owner,     \* the thread whose transaction holds the write lock
  job,       \* per thread: the request it serves and how far it is
  calls,     \* the requests made so far; numbers them
  io,        \* the I/O thread: idle, in ingest.handle with a frame, or dead
  queue,     \* requests handed to the link, not yet written
  wire,      \* requests on the way to a node; one that stays there is lost
  answers,   \* responses on the way back to a caller that waits
  nprop,     \* the settings each node has for its devices
  late,      \* devices without stored data for period x 3
  acted,     \* requests a node has carried out
  refused,   \* requests a node has refused
  held,      \* every value a device has had for a field
  faults     \* retransmissions and restarts so far

dbVars   == <<db, draft, owner>>
nodeVars == <<nprop, acted, refused, held>>
lineVars == <<queue, wire, answers>>
vars == <<dbVars, job, calls, io, lineVars, nodeVars, late, faults>>

-----------------------------------------------------------------------------
(* The database.                                                            *)

Statuses == {"absent", "draft", "approved", "rejected"}
Results  == {"NONE", "SUCCESS", "REFUSED"}
Order    == [cmd : Commands, dev : Devices]
Row      == [rule : Rules \cup {Manual}, order : Order, rsc : Results, timeout : BOOLEAN]
Settings == [Devices -> [Fields -> Vals]]
Database == [status : [Rules -> Statuses],       \* control_rule
             snap   : [Rules -> SUBSET Order],   \* action_json and target_install_id
             execs  : Seq(Row),                  \* control_execution, CONTROL_TIMEOUT alerts
             prop   : Settings,                  \* device_install_info
             nodata : [Devices -> Nat]]          \* NO_DATA alerts; nothing sets ack_at

\* What a connection sees.
View(t) == IF owner = t THEN draft ELSE db

CanWrite(t) == owner \in {NoOne, t}

\* A transaction that ends with this state of the database.
CommitAs(new) == db' = new /\ draft' = new /\ owner' = NoOne

MutNotClosed(t) == UNCHANGED dbVars
RollBack(t) ==
  /\ db' = db
  /\ draft' = IF owner = t THEN db ELSE draft
  /\ owner' = IF owner = t THEN NoOne ELSE owner

\* Rows of device_install_info overwritten: a set of [dev, props].
Overwrite(prop, rows) ==
  [d \in Devices |-> IF \E r \in rows : r.dev = d
                     THEN (CHOOSE r \in rows : r.dev = d).props ELSE prop[d]]

-----------------------------------------------------------------------------
(* Requests of clients, requests to nodes.                                  *)

Ops == {"draft", "approve", "reject", "execute", "manual", "patch", "check"}
NoCall == [op |-> "none"]

Idle == [call |-> NoCall, n |-> 0, pc |-> "idle",
         order |-> {},                                        \* the command to send
         exec  |-> 0,                                         \* its row of control_execution
         base  |-> [d \in Devices |-> [f \in Fields |-> Factory]], \* rows as ems read them
         todo  |-> {},                                        \* nodes to ask, rows to check
         rows  |-> {},                                        \* devices found late
         missing |-> {},                                      \* the one found without an alert
         req   |-> {},                                        \* the request it waits for
         rsc   |-> "NONE", wait |-> 0, sent |-> 0]

At(t, pc)   == job[t].pc = pc
Of(t)       == job[t].call
Goto(t, pc) == job' = [job EXCEPT ![t].pc = pc, ![t].wait = 0]
Return(t)   == job' = [job EXCEPT ![t] = Idle]

\* conn.close() without a commit.
Abort(t) == RollBack(t) /\ Return(t)

Part(t, nd) == { d \in Of(t).devs : NodeOf[d] = nd }

\* DEVICE_PROPERTY carries all the fields: those not in the patch as ems read them.
FullProperty(t, d) ==
  [dev |-> d, props |-> [job[t].base[d] EXCEPT ![Of(t).field] = Of(t).val]]

ControlRequest(t, order) ==
  [n |-> job[t].n, node |-> NodeOf[order.dev], exec |-> job[t].exec, order |-> {order}, set |-> {}]
PatchRequest(t, nd) ==
  [n |-> job[t].n, node |-> nd, exec |-> 0, order |-> {},
   set |-> { FullProperty(t, d) : d \in Part(t, nd) }]

Calls == UNION { Range(h) : h \in Histories }

\* Requests name what exists; the rest the API refuses (404, 422).
ASSUME CallAssumption ==
  \A c \in Calls :
    /\ c.op \in Ops
    /\ c.op \in {"approve", "reject", "execute"} => c.rule \in Rules
    /\ c.op \in {"approve", "manual"} => c.order \in Order
    /\ c.op = "patch" => c.devs \in SUBSET Devices \ {{}} /\ c.field \in Fields /\ c.val \in Vals

Begin(t, c) ==
  /\ At(t, "idle")
  /\ \E h \in Histories : IsPrefix(Append(calls, c), h)
  /\ calls' = Append(calls, c)
  /\ job' = [job EXCEPT ![t] = [Idle EXCEPT !.call = c, !.n = Len(calls'),
                                            !.pc = IF c.op = "draft" THEN "decide" ELSE "read"]]
  /\ UNCHANGED <<dbVars, io, lineVars, nodeVars, late, faults>>

Quiet == UNCHANGED <<calls, io, lineVars, nodeVars, late, faults>>

-----------------------------------------------------------------------------
(* mms: rules are drafted, approved or rejected.                            *)

\* approve_rule, reject_rule and execute look at the rule before they write.
Admits(op, status) ==
  \/ op = "approve" /\ status \in {"draft", "rejected"}
  \/ op = "reject" /\ status = "draft"
  \/ op = "execute" /\ status = "approved"

ReadRule(t) ==
  /\ At(t, "read") /\ Of(t).op \in {"approve", "reject", "execute"}
  /\ LET r == Of(t).rule IN
       IF ~Admits(Of(t).op, db.status[r]) THEN Return(t)
       ELSE IF Of(t).op = "execute"
            THEN job' = [job EXCEPT ![t].pc = "insert", ![t].order = db.snap[r]]
            ELSE Goto(t, "decide")
  /\ UNCHANGED dbVars /\ Quiet

\* The triggers of control_rule that let an UPDATE through.
MutNoTrigger(status) == TRUE
DecisionAllowed(status) == status = "draft"

Decided(c) ==
  IF c.op = "approve"
  THEN [db EXCEPT !.status[c.rule] = "approved", !.snap[c.rule] = {c.order}]
  ELSE [db EXCEPT !.status[c.rule] = "rejected"]

Decide(t) ==
  /\ At(t, "decide") /\ Of(t).op \in {"approve", "reject"} /\ CanWrite(t)
  /\ IF DecisionAllowed(db.status[Of(t).rule]) THEN CommitAs(Decided(Of(t))) ELSE RollBack(t)
  /\ Return(t) /\ Quiet

\* Rules bounds the number of rules.
Draft(t) ==
  /\ At(t, "decide") /\ Of(t).op = "draft" /\ CanWrite(t)
  /\ \/ \E r \in Rules : db.status[r] = "absent" /\ CommitAs([db EXCEPT !.status[r] = "draft"])
     \/ (\A r \in Rules : db.status[r] # "absent") /\ UNCHANGED dbVars
  /\ Return(t) /\ Quiet

-----------------------------------------------------------------------------
(* fcs: the execution is recorded before its command is sent.               *)

ReadUser(t) ==
  /\ At(t, "read") /\ Of(t).op = "manual"
  /\ job' = [job EXCEPT ![t].pc = "insert", ![t].order = {Of(t).order}]
  /\ UNCHANGED dbVars /\ Quiet

\* trg_exec_requires_approval, trg_exec_command_matches_approved and
\* trg_exec_target_matches_approved.
ExecutionAllowed(rule, order) ==
  rule = Manual \/ (db.status[rule] = "approved" /\ db.snap[rule] = {order})

NewRow(rule, order) == [rule |-> rule, order |-> order, rsc |-> "NONE", timeout |-> FALSE]

MutUncommitted(t, row) ==
  draft' = [db EXCEPT !.execs = Append(@, row)] /\ owner' = t /\ UNCHANGED db
Recorded(t, row) == CommitAs([db EXCEPT !.execs = Append(@, row)])

Insert(t) ==
  /\ At(t, "insert") /\ CanWrite(t)
  /\ LET rule == IF Of(t).op = "manual" THEN Manual ELSE Of(t).rule IN
     \E order \in job[t].order :
       IF ExecutionAllowed(rule, order)
       THEN /\ Recorded(t, NewRow(rule, order))
            /\ job' = [job EXCEPT ![t].exec = Len(db.execs) + 1, ![t].pc = "send", ![t].wait = 0]
       ELSE RollBack(t) /\ Return(t)
  /\ Quiet

\* link.send puts the request into the queue of the I/O thread and waits.  That
\* the thread, when it is free, takes a while to write it is a delay of the wire.
HandOver(t, m) ==
  /\ IF io.pc = "idle" THEN wire' = wire \cup {m} /\ UNCHANGED queue
                       ELSE queue' = queue \cup {m} /\ UNCHANGED wire
  /\ job' = [job EXCEPT ![t].pc = "sending", ![t].wait = 0, ![t].rsc = "NONE", ![t].req = {m},
                        ![t].sent = 1, ![t].todo = @ \ {m.node}]
  /\ UNCHANGED <<dbVars, calls, io, answers, nodeVars, late, faults>>

SendControl(t) ==
  /\ At(t, "send")
  /\ \E order \in job[t].order : HandOver(t, ControlRequest(t, order))

\* _send_and_finalize; without an answer it also raises a CONTROL_TIMEOUT alert.
MutAlwaysDone(row, rsc) == [row EXCEPT !.rsc = IF rsc = "NONE" THEN "SUCCESS" ELSE rsc]
Result(row, rsc) == [row EXCEPT !.rsc = rsc, !.timeout = (rsc = "NONE")]

Finalize(t) ==
  /\ At(t, "finalize") /\ CanWrite(t)
  /\ CommitAs([db EXCEPT !.execs[job[t].exec] = Result(@, job[t].rsc)])
  /\ Return(t) /\ Quiet

-----------------------------------------------------------------------------
(* ems.set_device_property: all devices are looked up and validated first,  *)
(* then each node in turn is asked and, when it agrees, its rows are        *)
(* updated; the commit comes after the last node.                           *)

ReadInstalls(t) ==
  /\ At(t, "read") /\ Of(t).op = "patch"
  /\ \/ job' = [job EXCEPT ![t].base = db.prop, ![t].pc = "ask",
                           ![t].todo = { NodeOf[d] : d \in Of(t).devs }]
     \/ Return(t)       \* a node is not in the registry, or a value does not fit
  /\ UNCHANGED dbVars /\ Quiet

AskNode(t) ==
  /\ At(t, "ask")
  /\ HandOver(t, PatchRequest(t, Min(job[t].todo)))

\* Timeout x (Retry Count + 1).
Upper == Retries + 1

MutAnyAnswer(rsc) == rsc # "NONE"
Accepted(rsc) == rsc = "SUCCESS"

Asked(t)   == { d \in Of(t).devs : \E m \in job[t].req : m.node = NodeOf[d] }
Changed(t) == { d \in Asked(t) : View(t).prop[d][Of(t).field] # Of(t).val }

Patched(t) ==
  [View(t) EXCEPT !.prop = [d \in Devices |-> IF d \in Changed(t)
                                              THEN [@[d] EXCEPT ![Of(t).field] = Of(t).val]
                                              ELSE @[d]]]

LastNode(t) == job[t].todo = {}

\* The last node's rows are written and all of it is committed.
MutCommitsEach(t) == TRUE
CommitsNow(t) == LastNode(t)

\* update_device_property for the rows of one node.  A row that has the value
\* already is not written, and without a write there is no transaction.
Update(t) ==
  /\ At(t, "update") /\ (Changed(t) = {} \/ CanWrite(t))
  /\ IF Changed(t) = {} /\ owner # t THEN UNCHANGED dbVars
     ELSE IF CommitsNow(t) THEN CommitAs(Patched(t))
     ELSE draft' = Patched(t) /\ owner' = t /\ UNCHANGED db
  /\ IF LastNode(t) THEN Return(t) ELSE Goto(t, "ask")
  /\ Quiet

-----------------------------------------------------------------------------
(* The answer, or the end of the wait.  An answer that comes later finds no *)
(* entry in the pending table and is only logged: it is left out.           *)

NoMoreAnswers(t) ==
  /\ answers' = { a \in answers : a.req \notin job[t].req }
  /\ UNCHANGED <<calls, io, queue, wire, nodeVars, late, faults>>

\* fcs records what came; ems gives up unless the node accepted.
Answered(t) ==
  /\ At(t, "sending") /\ job[t].rsc # "NONE"
  /\ IF Of(t).op # "patch" THEN Goto(t, "finalize") /\ UNCHANGED dbVars
     ELSE IF Accepted(job[t].rsc) THEN Goto(t, "update") /\ UNCHANGED dbVars
     ELSE Abort(t)
  /\ NoMoreAnswers(t)

MutWaitsForever(t) == FALSE
OutOfTime(t) == job[t].wait = Upper

Expired(t) ==
  /\ At(t, "sending") /\ job[t].rsc = "NONE" /\ OutOfTime(t)
  /\ IF Of(t).op # "patch" THEN Goto(t, "finalize") /\ UNCHANGED dbVars ELSE Abort(t)
  /\ NoMoreAnswers(t)

-----------------------------------------------------------------------------
(* fms.check_stale_devices, on every GET /alerts: the stale devices are     *)
(* read once, then each is looked up among the alerts and, without one,     *)
(* gets one; they are committed together.                                   *)

CheckRead(t) ==
  /\ At(t, "read") /\ Of(t).op = "check"
  /\ job' = [job EXCEPT ![t].pc = "look", ![t].todo = late, ![t].rows = late]
  /\ UNCHANGED dbVars /\ Quiet

Unalerted(t) == { d \in job[t].todo : View(t).nodata[d] = 0 }

\* A row with an alert is passed over; for one without, an INSERT comes next.
Look(t) ==
  /\ At(t, "look")
  /\ IF Unalerted(t) = {} THEN Goto(t, "report")
     ELSE \E d \in Unalerted(t) :
            job' = [job EXCEPT ![t].pc = "alert", ![t].missing = {d}]
  /\ UNCHANGED dbVars /\ Quiet

\* The rows that remain are looked up within the transaction.
Alerted(t) ==
  LET open == Unalerted(t) \cup job[t].missing IN
  [View(t) EXCEPT !.nodata = [d \in Devices |-> IF d \in open THEN @[d] + 1 ELSE @[d]]]

MutNoCommit(t) == RollBack(t)
RaisesAlerts(t) == CommitAs(Alerted(t))

Alert(t) ==
  /\ At(t, "alert") /\ CanWrite(t)
  /\ RaisesAlerts(t)
  /\ Goto(t, "report") /\ Quiet

\* list_alerts answers with what the database holds.
Report(t) == At(t, "report") /\ Return(t) /\ UNCHANGED dbVars /\ Quiet

-----------------------------------------------------------------------------
(* The I/O thread: ingest.handle inside on_frame, writes, resends, answers. *)

IoIdle == io.pc = "idle"
NotIo  == UNCHANGED <<job, calls, nodeVars, faults>>

\* A frame with fresh measurements, a node's declaration of its settings, or
\* one that only enters frame_log.
Declared(nd) ==
  { [dev |-> d, props |-> [f \in Fields |-> IF f \in Fixed THEN Factory ELSE nprop[d][f]]] :
    d \in { e \in Devices : NodeOf[e] = nd } }
Frames ==
  { [fresh |-> {d}, set |-> {}] : d \in Sensors } \cup
  { [fresh |-> {}, set |-> Declared(nd)] : nd \in Nodes } \cup { [fresh |-> {}, set |-> {}] }
NoFrame == [fresh |-> {}, set |-> {}]

\* One frame is one transaction; an upsert overwrites the row.
Ingested(frame) ==
  /\ CommitAs([db EXCEPT !.prop = Overwrite(@, frame.set)])
  /\ late' = late \ frame.fresh
  /\ io' = [pc |-> "idle", frame |-> NoFrame, wait |-> 0]

IoFrame(frame) ==
  /\ IoIdle
  /\ IF owner = NoOne THEN Ingested(frame)
     ELSE io' = [pc |-> "blocked", frame |-> frame, wait |-> 0] /\ UNCHANGED <<dbVars, late>>
  /\ UNCHANGED lineVars /\ NotIo

IoUnblocked ==
  /\ io.pc = "blocked" /\ owner = NoOne
  /\ Ingested(io.frame)
  /\ UNCHANGED lineVars /\ NotIo

\* handle raises again what the INSERT raised, and nothing in _io_loop catches it.
IoBusy ==
  /\ io.pc = "blocked" /\ owner # NoOne /\ io.wait = BusyLimit
  /\ io' = [pc |-> "dead", frame |-> NoFrame, wait |-> 0]
  /\ UNCHANGED <<dbVars, late, lineVars>> /\ NotIo

IoWrites(m) ==
  /\ IoIdle /\ m \in queue
  /\ queue' = queue \ {m} /\ wire' = wire \cup {m}
  /\ UNCHANGED <<dbVars, io, late, answers>> /\ NotIo

Waits(t, m) == At(t, "sending") /\ job[t].req = {m} /\ job[t].rsc = "NONE"

\* Once for every Timeout that has passed, as often as Retry Count says.
IoResends(t) ==
  /\ IoIdle /\ job[t].sent <= job[t].wait /\ job[t].sent <= Retries
  /\ faults < MaxFaults /\ faults' = faults + 1
  /\ \E m \in job[t].req : Waits(t, m) /\ m \notin queue /\ wire' = wire \cup {m}
  /\ job' = [job EXCEPT ![t].sent = @ + 1]
  /\ UNCHANGED <<dbVars, calls, io, queue, answers, nodeVars, late>>

IoReceives(a) ==
  /\ IoIdle /\ a \in answers
  /\ answers' = answers \ {a}
  /\ job' = [t \in Threads |-> IF Waits(t, a.req) THEN [job[t] EXCEPT !.rsc = a.rsc] ELSE job[t]]
  /\ UNCHANGED <<dbVars, calls, io, queue, wire, nodeVars, late, faults>>

-----------------------------------------------------------------------------
(* Nodes, time, restarts.                                                  *)

\* A request names existing devices and is carried out or refused as a whole.
NodeServes(m, rsc) ==
  /\ m \in wire
  /\ wire' = wire \ {m}
  /\ answers' = IF \E t \in Threads : Waits(t, m) THEN answers \cup {[req |-> m, rsc |-> rsc]}
                                                  ELSE answers
  /\ IF rsc = "SUCCESS"
     THEN /\ acted' = acted \cup {m} /\ UNCHANGED refused
          /\ nprop' = Overwrite(nprop, m.set)
          /\ held' = [d \in Devices |-> [f \in Fields |-> held[d][f] \cup {nprop'[d][f]}]]
     ELSE refused' = refused \cup {m} /\ UNCHANGED <<acted, nprop, held>>
  /\ UNCHANGED <<dbVars, job, calls, io, queue, late, faults>>

\* period_sec x 3 without stored data.
Ages(d) ==
  /\ d \notin late /\ late' = late \cup {d}
  /\ UNCHANGED <<dbVars, job, calls, io, lineVars, nodeVars, faults>>

WritesNext(t) ==
  \/ job[t].pc \in {"decide", "insert", "alert", "finalize"}
  \/ At(t, "update") /\ Changed(t) # {}

Blocked(t) == WritesNext(t) /\ ~CanWrite(t)
Waiting(t) == Blocked(t) \/ (At(t, "sending") /\ job[t].rsc = "NONE")
Limit(t)   == IF At(t, "sending") THEN Upper ELSE BusyLimit

\* Whoever waits has waited a tick longer; nobody waits past its limit.
Tick ==
  /\ (\E t \in Threads : Waiting(t)) \/ io.pc = "blocked"
  /\ \A t \in Threads : Waiting(t) => job[t].wait < Limit(t)
  /\ io.pc = "blocked" => io.wait < BusyLimit
  /\ job' = [t \in Threads |-> IF Waiting(t) THEN [job[t] EXCEPT !.wait = @ + 1] ELSE job[t]]
  /\ io' = IF io.pc = "blocked" THEN [io EXCEPT !.wait = @ + 1] ELSE io
  /\ UNCHANGED <<dbVars, calls, lineVars, nodeVars, late, faults>>

\* "database is locked": the request fails and its connection is closed.
BusyError(t) ==
  /\ Blocked(t) /\ job[t].wait = BusyLimit
  /\ Abort(t) /\ Quiet

\* The process ends and starts again on the database file; nodes go on.
Restart ==
  /\ faults < MaxFaults /\ faults' = faults + 1
  /\ job' = [t \in Threads |-> Idle]
  /\ CommitAs(db)
  /\ queue' = {} /\ answers' = {} /\ io' = [pc |-> "idle", frame |-> NoFrame, wait |-> 0]
  /\ UNCHANGED <<calls, wire, nodeVars, late>>

-----------------------------------------------------------------------------

Init ==
  /\ db = [status |-> [r \in Rules |-> "absent"], snap |-> [r \in Rules |-> {}],
           execs  |-> << >>,
           prop   |-> [d \in Devices |-> [f \in Fields |-> Factory]],
           nodata |-> [d \in Devices |-> 0]]
  /\ draft = db /\ owner = NoOne
  /\ job = [t \in Threads |-> Idle] /\ calls = << >>
  /\ io = [pc |-> "idle", frame |-> NoFrame, wait |-> 0]
  /\ queue = {} /\ wire = {} /\ answers = {}
  /\ nprop = db.prop /\ late = {} /\ acted = {} /\ refused = {}
  /\ held = [d \in Devices |-> [f \in Fields |-> {Factory}]]
  /\ faults = 0

\* The steps of a thread that serves a request.
Serve(t) ==
  \/ ReadRule(t) \/ Decide(t) \/ Draft(t)
  \/ ReadUser(t) \/ Insert(t) \/ SendControl(t) \/ Finalize(t)
  \/ ReadInstalls(t) \/ AskNode(t) \/ Update(t)
  \/ Answered(t) \/ Expired(t) \/ BusyError(t)
  \/ CheckRead(t) \/ Look(t) \/ Alert(t) \/ Report(t)

Io ==
  \/ \E frame \in Frames : IoFrame(frame)
  \/ IoUnblocked \/ IoBusy
  \/ \E m \in queue : IoWrites(m)
  \/ \E t \in Threads : IoResends(t)
  \/ \E a \in answers : IoReceives(a)

Next ==
  \/ \E t \in Threads : Serve(t) \/ \E c \in Calls : Begin(t, c)
  \/ Io
  \/ \E m \in wire, rsc \in {"SUCCESS", "REFUSED"} : NodeServes(m, rsc)
  \/ \E d \in Sensors : Ages(d)
  \/ Tick \/ Restart

Spec == Init /\ [][Next]_vars

\* Threads are scheduled, time passes, and a blocked frame is tried again.
\* Nothing is assumed of clients, nodes and the line.
FairSpec ==
  /\ Spec
  /\ \A t \in Threads : WF_vars(Serve(t))
  /\ WF_vars(Tick) /\ WF_vars(IoUnblocked \/ IoBusy)

-----------------------------------------------------------------------------
(* Properties.                                                              *)

TypeOK ==
  /\ db \in Database /\ draft \in Database /\ owner \in Threads \cup {NoOne}
  /\ \E h \in Histories : IsPrefix(calls, h)
  /\ faults \in 0..MaxFaults
  /\ io.pc \in {"idle", "blocked", "dead"} /\ io.wait \in 0..BusyLimit
  /\ nprop \in Settings /\ held \in [Devices -> [Fields -> SUBSET Vals]]
  /\ late \subseteq Sensors
  /\ owner = NoOne => draft = db
  /\ \A t \in Threads : owner = t => job[t].pc \in {"ask", "sending", "update"}

\* Every command a node carries out has a committed row of control_execution
\* with that command and that target, also after a restart; unless a user gave
\* it, its rule is approved with exactly that order (fcs.execute and the
\* triggers of control_execution).
Authorised ==
  \A m \in acted : \A order \in m.order :
    /\ m.exec \in 1..Len(db.execs)
    /\ LET row == db.execs[m.exec] IN
       /\ row.order = order
       /\ row.rule # Manual => db.status[row.rule] = "approved" /\ db.snap[row.rule] = {order}

\* An approval or rejection is final, and so is the order that was approved,
\* whatever two requests read before they wrote (mms, triggers of control_rule).
DecidedOnce ==
  [][\A r \in Rules : db.status[r] \in {"approved", "rejected"} =>
       db'.status[r] = db.status[r] /\ db'.snap[r] = db.snap[r]]_vars

\* A recorded result is one a node gave for that execution (fcs._send_and_finalize),
\* not that of another request or of a wait that ended.
ResultIsTheNodes ==
  \A i \in 1..Len(db.execs) :
    /\ db.execs[i].rsc = "SUCCESS" => \E m \in acted : m.exec = i
    /\ db.execs[i].rsc = "REFUSED" => \E m \in refused : m.exec = i

\* device_install_info never holds a setting its device did not have at some
\* time (ems writes after the node accepted, ingest what the node declares).
SettingsBacked ==
  \A d \in Devices, f \in Fields : db.prop[d][f] \in held[d][f]

\* A patch that names devices of several nodes changes the database only when
\* every one of those nodes has accepted it (the commit after the loop of ems).
AllNodesAgreed ==
  [][\A t \in Threads :
       Of(t).op = "patch" /\ job'[t] # job[t] /\ db'.prop # db.prop =>
         \A d \in Of(t).devs : \E m \in acted : m.n = job[t].n /\ m.node = NodeOf[d]]_vars

\* The list that answers GET /alerts has a NO_DATA alert for every device that
\* was late when the request was made (fms.check_stale_devices).
LateIsReported ==
  \A t \in Threads : At(t, "report") => \A d \in job[t].rows : db.nodata[d] > 0

\* Every request ends, with busy database, silent node and dead I/O thread too.
CallsEnd == \A t \in Threads : ~At(t, "idle") ~> At(t, "idle")

\* The I/O thread outlives a database error (asked by the architecture document).
IoSurvives == io.pc # "dead"
=============================================================================
