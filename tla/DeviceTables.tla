---------------------------- MODULE DeviceTables ----------------------------
(***************************************************************************)
(* What three places hold of the devices of one node: the node itself, the  *)
(* table device_install_info of the backend, and the device list of the     *)
(* gateway's registry.                                                      *)
(*                                                                          *)
(* A frame of the node is first ingested, in one transaction, and only then *)
(* takes effect on the registry.  A PATCH of a user reads a row, then the    *)
(* registry, asks the node, and writes the row when the answer has come; in *)
(* between the I/O thread goes on ingesting.  What a node declares is what   *)
(* it has in memory: the settings of its build, and over them whatever the  *)
(* last PATCH has sent.                                                     *)
(*                                                                          *)
(* Of the lower and the upper bound of a device only the upper one is here,  *)
(* and period stands for the transfer mode too.  The write lock and the     *)
(* threads that compete for it are in Backend, identifiers in NodeState.     *)
(***************************************************************************)
EXTENDS Naturals, SequencesExt

CONSTANTS
  Devs,        \* device numbers of the node
  Subtypes, KindOf,
  Unranged,    \* subtypes whose measurements carry no range (RAIN_DETECTION)
  Nullable,    \* actuators whose state need not be a number (pump, fan, heater)
  NaN,         \* the FLOAT that is not a number, which sqlite stores as NULL
  Periods,
  MaxLevel,    \* values and limits are 0..MaxLevel
  Builds,      \* the settings a node may start with
  Singly,      \* devices a node also declares one by one; the firmware none
  Fields,      \* what users patch: "period", "value"
  MaxPatches, MaxFaults,   \* bounds on PATCH requests, and on faults
  MaxLine      \* bound on the frames on the line, each way

Kinds == {"SENSOR", "ACTUATOR"}
Level == 0..MaxLevel

\* DEVICE_PROPERTY.  Type and Subtype are independent fields of a frame.
Property == [type : Kinds, sub : Subtypes, period : Periods, value : Level, limit : Level]

\* f maps some of S into T.
Partial(f, S, T) == DOMAIN f \subseteq S /\ \A k \in DOMAIN f : f[k] \in T

ASSUME TablesAssumption ==
  /\ KindOf \in [Subtypes -> Kinds] /\ Unranged \subseteq Subtypes
  /\ \A s \in Nullable : s \in Subtypes /\ KindOf[s] = "ACTUATOR"
  /\ NaN \notin Nat
  /\ MaxLevel \in Nat /\ MaxPatches \in Nat /\ MaxFaults \in Nat /\ MaxLine \in Nat
  /\ \A b \in Builds : Partial(b, Devs, Property)
  /\ Singly \subseteq Devs /\ Fields \subseteq {"period", "value"}
  /\ Periods \subseteq Nat /\ 0 \in Periods

VARIABLES
  node,     \* its state, its build, the settings in its memory
  up, down, \* frames on the line
  db,       \* device_info and device_install_info
  hist,     \* what config_change_log says of each row of device_install_info
  made,     \* what the transaction of the frame in hand has inserted
  reg,      \* NodeRegistry: is the node known, and its device list
  io,       \* the I/O thread: idle, before the effects of a frame, or dead
  job,      \* the PATCH under way
  last,     \* the last setting that was declared or acknowledged (history)
  doubt,    \* may the node have settings that nobody has told the gateway? (history)
  patches, faults

ends  == <<db, hist, made, reg, io>>
vars  == <<node, up, down, ends, job, last, doubt, patches, faults>>

-----------------------------------------------------------------------------
(* Frames.                                                                  *)

\* n is the identifier of a PATCH and of its answer.
Frame(kind, elems) == [kind |-> kind, elems |-> elems, n |-> 0]
Bare(kind)         == Frame(kind, << >>)

\* F-175, F-180: the Type an element claims is that of its Subtype.
TypeFits(e) == e.type = KindOf[e.sub]

\* F-175 once more, for a value.
MutAnyType(e) == TRUE
ValueTypeFits(e) == e.type = KindOf[e.sub]

Put(f, d, x) == [k \in DOMAIN f \cup {d} |-> IF k = d THEN x ELSE f[k]]

Puts(f, new) == [k \in DOMAIN f \cup DOMAIN new |-> IF k \in DOMAIN new THEN new[k] ELSE f[k]]

Only(f, S) == [k \in DOMAIN f \cap S |-> f[k]]

-----------------------------------------------------------------------------
(* ingest.handle: one frame, one transaction.                               *)

NothingMade == [states |-> << >>, pairs |-> {}, alerts |-> {}]

Accepted(f) == { d \in DOMAIN f.elems : TypeFits(f.elems[d]) }

\* get_or_create_device_info: a model is a Subtype, its row stays as it is.
Models(f) ==
  [ s \in { f.elems[d].sub : d \in Accepted(f) } |->
      f.elems[CHOOSE d \in Accepted(f) : f.elems[d].sub = s].type ]

\* upsert_device_install_info: INSERT, or UPDATE of all of this (F-169).
MutKeepsModel(d, e) ==
  [model |-> IF d \in DOMAIN db.row THEN db.row[d].model ELSE e.sub,
   sub |-> e.sub, period |-> e.period, limit |-> e.limit]
MutSwapped(d, e) == [model |-> e.sub, sub |-> e.sub, period |-> e.limit, limit |-> e.period]
Row(d, e) == [model |-> e.sub, sub |-> e.sub, period |-> e.period, limit |-> e.limit]

\* Its entry in config_change_log, CREATE or UPDATE, says nothing of the limits.
Logged(e) == [model |-> e.sub, sub |-> e.sub, period |-> e.period]

Declared(f) ==
  LET new == Only(f.elems, Accepted(f)) IN
  /\ db'   = [info |-> Puts(Models(f), db.info),
              row  |-> Puts(db.row, [d \in DOMAIN new |-> Row(d, new[d])])]
  /\ hist' = Puts(hist, [d \in DOMAIN new |-> Logged(new[d])])
  /\ last' = Puts(last, [d \in DOMAIN new |-> new[d].period])
  /\ made' = NothingMade

\* A value is recorded when its device is installed with that Subtype (F-173),
\* its Type fits (F-175) and, of a sensor, it is within the limits (F-171).
Trusted(d, e) == d \in DOMAIN db.row /\ db.row[d].sub = e.sub /\ ValueTypeFits(e)

\* NaN is neither below the one bound nor above the other.
InRange(d, e) == e.type = "SENSOR" /\ e.val # NaN => e.val <= db.row[d].limit

Recorded(f) == { d \in DOMAIN f.elems : Trusted(d, f.elems[d]) /\ InRange(d, f.elems[d]) }

\* record_env_measurement leaves the range of an Unranged subtype NULL.
RangeOf(sub, limit) == IF sub \in Unranged THEN {} ELSE {limit}

\* The row of env_measurement or device_state_data.
State(d, e) ==
  [kind |-> e.type, sub |-> e.sub, val |-> e.val,
   range |-> IF e.type = "SENSOR" THEN RangeOf(e.sub, db.row[d].limit) ELSE {}]

\* F-156: environments are paired with the one device state of their frame.
Pairs(envs, acts) == IF \E a \in acts : acts = {a} THEN acts \X envs ELSE {}

Inserts(f) ==
  LET S    == Recorded(f)
      envs == { d \in S : f.elems[d].type = "SENSOR" }
  IN [states |-> [d \in S |-> State(d, f.elems[d])],
      pairs  |-> Pairs(envs, S \ envs), alerts |-> {}]

\* Its column takes no NULL: env_measurement.value, and of the actuators
\* open_level and angle.
Spoils(x) == x.val = NaN /\ x.sub \notin Nullable

\* A Subtype on the wrong side is a ValueError; an IntegrityError is NULL for a
\* value (NOT NULL), a range where the CHECK of env_measurement wants none, or
\* an environment with two device states (UNIQUE).
Raises(new) ==
  \/ \E d \in DOMAIN new.states : Spoils(new.states[d])
  \/ \E d \in DOMAIN new.states : new.states[d].kind # KindOf[new.states[d].sub]
  \/ \E d \in DOMAIN new.states : new.states[d].sub \in Unranged /\ new.states[d].range # {}
  \/ \E p, q \in new.pairs : p # q /\ p[2] = q[2]

-----------------------------------------------------------------------------
(* The I/O thread.                                                          *)

\* F-198: not REQ_SET_CONNECTION, which carries no devices.
MutDeadCode == {"CONNECT"}
Declarations == {"DECLARE_ALL", "DECLARE"}
AlertOf == [ERROR |-> {"NODE_ERROR"}, DISCONNECT |-> {"DISCONNECT"}]

Commits(f) ==
  /\ io' = [pc |-> "effects", frame |-> f]
  /\ IF f.kind \in Declarations THEN Declared(f)
     ELSE /\ made' = IF f.kind = "VALUES" THEN Inserts(f)
                     ELSE IF f.kind \in DOMAIN AlertOf
                          THEN [NothingMade EXCEPT !.alerts = AlertOf[f.kind]]
                          ELSE NothingMade
          /\ UNCHANGED <<db, hist, last>>

\* The exception is raised again after the roll back and ends the thread.
RollsBack(f) ==
  /\ io' = [pc |-> "dead", frame |-> f]
  /\ UNCHANGED <<db, hist, made, last>>

\* A full declaration of what the node has, with no PATCH under way, settles
\* what faults may have left open.
Settles(f) ==
  /\ f.kind = "DECLARE_ALL" /\ f.elems = node.cfg /\ job.pc = "idle"
  /\ Len(up) = 1 /\ \A i \in 1..Len(down) : down[i].kind # "PATCH"

Ingest ==
  /\ io.pc = "idle" /\ up # << >> /\ Head(up).kind # "ACK"
  /\ up' = Tail(up)
  /\ LET f == Head(up) IN
       IF reg.known \/ f.kind = "CONNECT"
       THEN /\ IF f.kind = "VALUES" /\ Raises(Inserts(f)) THEN RollsBack(f) ELSE Commits(f)
            /\ doubt' = (doubt /\ ~Settles(f))
       ELSE \* INVALID_NODE_ID: frame_log and frame_violation only, and no reply
            UNCHANGED <<db, hist, made, io, last, doubt>>
  /\ UNCHANGED <<node, down, reg, job, patches, faults>>

Identity(e) == [type |-> e.type, sub |-> e.sub]
Identities(elems) == [d \in DOMAIN elems |-> Identity(elems[d])]

\* _apply_registry_effects.
Gone(f)     == [known |-> FALSE, list |-> << >>]
\* A partial declaration taken for all of the list.
MutReplaced(f) == [reg EXCEPT !.list = Identities(f.elems)]
Merged(f)   == [reg EXCEPT !.list = Puts(@, Identities(f.elems))]
Replaced(f) == [reg EXCEPT !.list = Identities(f.elems)]

Registered(f) ==
  CASE f.kind = "CONNECT"     -> [known |-> TRUE, list |-> << >>]
    [] f.kind = "DISCONNECT"  -> Gone(f)
    [] f.kind = "DECLARE_ALL" -> Replaced(f)
    [] f.kind = "DECLARE"     -> Merged(f)
    [] OTHER                  -> reg

\* _default_reply: the responses a node waits for.
Replies(f) ==
  CASE f.kind = "CONNECT"     -> << Bare("CONNECTED") >>
    [] f.kind = "DECLARE_ALL" -> << Bare("DECLARED") >>
    [] OTHER                  -> << >>

Effects ==
  /\ io.pc = "effects" /\ Len(down) < MaxLine
  /\ reg' = Registered(io.frame)
  /\ down' = down \o Replies(io.frame)
  /\ io' = [pc |-> "idle", frame |-> Bare("NONE")] /\ made' = NothingMade
  /\ UNCHANGED <<node, up, db, hist, job, last, doubt, patches, faults>>

-----------------------------------------------------------------------------
(* PATCH of one device (ems.set_device_property).                           *)

NoJob == [pc |-> "idle"]

\* get_device_install; without a row there is no such install_id (404).
ReadRow(d, field, val) ==
  /\ job = NoJob /\ patches < MaxPatches /\ patches' = patches + 1
  /\ d \in DOMAIN db.row
  /\ job' = [pc |-> "look", n |-> patches', dev |-> d, field |-> field, val |-> val, row |-> db.row[d]]
  /\ UNCHANGED <<node, up, down, ends, last, doubt, faults>>

\* _build_device_property: identity from the registry, what is not patched from
\* the row; the patched or stored bound goes out as a value, limits as zero.
FullProperty(id, row, field, val) ==
  [type |-> id.type, sub |-> id.sub, period |-> IF field = "period" THEN val ELSE row.period,
   value |-> IF field = "value" THEN val ELSE row.limit, limit |-> 0]

\* _lookup_current and link.send, which the I/O thread writes when it is free.
Send ==
  /\ job.pc = "look"
  /\ IF job.dev \notin DOMAIN reg.list THEN job' = NoJob /\ UNCHANGED down
     ELSE /\ Len(down) < MaxLine /\ io.pc = "idle"
          /\ down' = Append(down, [Frame("PATCH",
               [d \in {job.dev} |-> FullProperty(reg.list[job.dev], job.row, job.field, job.val)])
                 EXCEPT !.n = job.n])
          /\ job' = [job EXCEPT !.pc = "wait"]
  /\ UNCHANGED <<node, up, ends, last, doubt, patches, faults>>

\* The answer goes to the thread that waits, or is only logged.
ReceiveAck ==
  /\ io.pc = "idle" /\ up # << >> /\ Head(up).kind = "ACK"
  /\ up' = Tail(up)
  /\ IF reg.known /\ job.pc = "wait" /\ Head(up).n = job.n
     THEN /\ job'  = [job EXCEPT !.pc = "update"]
          /\ last' = IF job.field = "period" THEN Put(last, job.dev, job.val) ELSE last
     ELSE UNCHANGED <<job, last>>
  /\ UNCHANGED <<node, down, ends, doubt, patches, faults>>

\* No answer (504), or a refusal (422): nothing is stored.  Nobody writes the
\* request once the I/O thread is dead.
GiveUp ==
  /\ job.pc = "wait" \/ (job.pc = "look" /\ io.pc = "dead")
  /\ job' = NoJob /\ doubt' = TRUE
  /\ UNCHANGED <<node, up, down, ends, last, patches, faults>>

\* update_device_property reads the row again.  upper_value goes into upper_limit.
Column(row, field, val) ==
  IF field = "period" THEN [row EXCEPT !.period = val] ELSE [row EXCEPT !.limit = val]

\* F-221: what has really changed enters the log, in the same transaction.
MutNotLogged(d, row) == hist
LogChange(d, row) == Put(hist, d, [hist[d] EXCEPT !.period = row.period])

Update ==
  /\ job.pc = "update"
  /\ LET row == Column(db.row[job.dev], job.field, job.val) IN
       /\ db'   = [db EXCEPT !.row = Put(@, job.dev, row)]
       /\ hist' = IF row = db.row[job.dev] THEN hist ELSE LogChange(job.dev, row)
  /\ job' = NoJob
  /\ UNCHANGED <<node, up, down, made, reg, io, last, doubt, patches, faults>>

-----------------------------------------------------------------------------
(* The node, by what NodeState shows on the line.                           *)

Running  == node.state \in {"declaring", "running"}
Room     == Len(up) < MaxLine
NodeSide == UNCHANGED <<ends, job, last, patches>>

\* A board starts with its build; one that lost the link keeps its settings.
Connect(cfg, build, state) ==
  /\ Room /\ up' = Append(up, Bare("CONNECT"))
  /\ node' = [state |-> state, build |-> build, cfg |-> cfg]
  /\ faults < MaxFaults /\ faults' = faults + 1
  /\ doubt' = TRUE
  /\ NodeSide

PowerUp(b) == Connect(b, b, "connecting") /\ down' = << >>
Reconnect  == Running /\ Connect(node.cfg, node.build, "connecting") /\ UNCHANGED down

\* Table 7-18: a request is repeated until its response comes.
Resend ==
  /\ Room /\ faults < MaxFaults /\ faults' = faults + 1
  /\ \/ node.state = "connecting" /\ up' = Append(up, Bare("CONNECT"))
     \/ node.state = "declaring" /\ up' = Append(up, Frame("DECLARE_ALL", node.cfg))
  /\ UNCHANGED <<node, down, doubt>> /\ NodeSide

\* A declaration without an answer is given up in the end; the node goes on.
Unanswered ==
  /\ node.state = "declaring" /\ node' = [node EXCEPT !.state = "running"]
  /\ UNCHANGED <<up, down, doubt, faults>> /\ NodeSide

\* A PATCH is taken when the node runs and has the device: cfg.devices[idx] = dp.
\* A refusal ends the request as silence does, and is left out.
Obeys(f) ==
  LET d == CHOOSE k \in DOMAIN f.elems : TRUE IN
  IF Running /\ d \in DOMAIN node.cfg
  THEN up' = Append(up, [Bare("ACK") EXCEPT !.n = f.n]) /\ node' = [node EXCEPT !.cfg[d] = f.elems[d]]
  ELSE UNCHANGED <<up, node>>

NodeReceives ==
  /\ down # << >> /\ Room /\ down' = Tail(down)
  /\ LET f == Head(down) IN
       \/ f.kind = "PATCH" /\ Obeys(f)
       \/ /\ f.kind = "CONNECTED" /\ node.state = "connecting"
          /\ up' = Append(up, Frame("DECLARE_ALL", node.cfg))
          /\ node' = [node EXCEPT !.state = "declaring"]
       \/ /\ f.kind = "DECLARED" /\ node.state = "declaring"
          /\ node' = [node EXCEPT !.state = "running"] /\ UNCHANGED up
       \/ /\ f.kind = "CONNECTED" => node.state # "connecting"
          /\ f.kind = "DECLARED" => node.state # "declaring"
          /\ f.kind # "PATCH"
          /\ UNCHANGED <<node, up>>
  /\ UNCHANGED <<doubt, faults>> /\ NodeSide

Says(f) ==
  /\ node.state = "running" /\ Room /\ up' = Append(up, f)
  /\ UNCHANGED <<node, down, doubt, faults>> /\ NodeSide

\* NOTI_DEVICE_VALUE for the devices that are due, with one value for all: the
\* rows they are checked against differ.  The decoder refuses no FLOAT.
Measure(S, val) ==
  /\ S \subseteq DOMAIN node.cfg /\ S # {}
  /\ Says(Frame("VALUES", [d \in S |-> [type |-> node.cfg[d].type, sub |-> node.cfg[d].sub,
                                        val |-> val]]))

\* REQ_SET_DEVICE_PROPERTY of some devices, a frame the table of messages allows.
DeclareSome(d) ==
  d \in DOMAIN node.cfg \cap Singly /\ Says(Frame("DECLARE", [k \in {d} |-> node.cfg[d]]))

\* NOTI_ERROR.
Complain == Says(Bare("ERROR"))

\* NOTI_DISCONNECT, which a node may send; the firmware only receives it.
Leave ==
  /\ node.state = "running" /\ Room /\ up' = Append(up, Bare("DISCONNECT"))
  /\ node' = [node EXCEPT !.state = "off"]
  /\ UNCHANGED <<down, doubt, faults>> /\ NodeSide

\* A frame is lost on the line.
Lose ==
  /\ faults < MaxFaults /\ faults' = faults + 1
  /\ \/ up # << >> /\ up' = Tail(up) /\ UNCHANGED down
     \/ down # << >> /\ down' = Tail(down) /\ UNCHANGED up
  /\ UNCHANGED <<node, doubt>> /\ NodeSide

\* The gateway's process starts again: its database stays, its memory does not,
\* and a PATCH that had its answer but not its row has not happened.
Restart ==
  /\ faults < MaxFaults /\ faults' = faults + 1
  /\ reg' = [known |-> FALSE, list |-> << >>] /\ io' = [pc |-> "idle", frame |-> Bare("NONE")]
  /\ job' = NoJob /\ down' = << >> /\ doubt' = TRUE /\ made' = NothingMade
  /\ last' = IF job.pc = "update" THEN Put(last, job.dev, db.row[job.dev].period) ELSE last
  /\ UNCHANGED <<node, up, db, hist, patches>>

-----------------------------------------------------------------------------

Init ==
  /\ node = [state |-> "off", build |-> << >>, cfg |-> << >>]
  /\ up = << >> /\ down = << >>
  /\ db = [info |-> << >>, row |-> << >>] /\ hist = << >> /\ last = << >>
  /\ made = NothingMade
  /\ reg = [known |-> FALSE, list |-> << >>]
  /\ io = [pc |-> "idle", frame |-> Bare("NONE")]
  /\ job = NoJob /\ doubt = TRUE /\ patches = 0 /\ faults = 0

Vals(field) == IF field = "period" THEN Periods ELSE Level

Next ==
  \/ Ingest \/ Effects \/ ReceiveAck
  \/ \E d \in Devs, field \in Fields : \E val \in Vals(field) : ReadRow(d, field, val)
  \/ Send \/ GiveUp \/ Update
  \/ \E b \in Builds : PowerUp(b)
  \/ Reconnect \/ Resend \/ Unanswered \/ NodeReceives
  \/ \E S \in SUBSET Devs : \E val \in Level \cup {NaN} : Measure(S, val)
  \/ \E d \in Devs : DeclareSome(d)
  \/ Complain \/ Leave \/ Lose \/ Restart

Spec == Init /\ [][Next]_vars

-----------------------------------------------------------------------------
(* Properties.                                                              *)

Rows == [model : Subtypes, sub : Subtypes, period : Periods, limit : Level]
Ids  == [type : Kinds, sub : Subtypes]

TypeOK ==
  /\ node.state \in {"off", "connecting", "declaring", "running"}
  /\ Partial(node.build, Devs, Property) /\ Partial(node.cfg, Devs, Property)
  /\ Partial(db.info, Subtypes, Kinds) /\ Partial(db.row, Devs, Rows)
  /\ Partial(hist, Devs, [model : Subtypes, sub : Subtypes, period : Periods])
  /\ Partial(last, Devs, Periods)
  /\ reg.known \in BOOLEAN /\ Partial(reg.list, Devs, Ids)
  /\ io.pc \in {"idle", "effects", "dead"}
  /\ job.pc \in {"idle", "look", "wait", "update"}
  /\ Len(up) <= MaxLine /\ Len(down) <= MaxLine
  /\ doubt \in BOOLEAN /\ patches \in 0..MaxPatches /\ faults \in 0..MaxFaults

\* The one thing in a frame of values that ends the I/O thread is NaN, for an
\* installed device whose column needs a number: neither a Type that contradicts
\* its Subtype does, nor a subtype without range, nor several devices in one
\* frame (ingest._handle_device_value, F-156, F-175; the constraints of
\* env_measurement, the dsd_ tables and operating_env).
OnlyNaNEnds ==
  io.pc = "dead" =>
    /\ io.frame.kind = "VALUES"
    /\ \E d \in DOMAIN io.frame.elems :
         LET e == io.frame.elems[d] IN Trusted(d, e) /\ Spoils(e)

\* The model an installed device refers to is that of its Subtype, and of the
\* kind of that Subtype, whatever the node declared before and whatever users
\* have patched (upsert_device_install_info, F-169, F-180).
IdentityHolds ==
  \A d \in DOMAIN db.row :
    LET row == db.row[d] IN
    /\ row.model = row.sub /\ row.model \in DOMAIN db.info
    /\ db.info[row.model] = KindOf[row.sub]

\* Replayed from its first entry, config_change_log yields what a row holds,
\* for each column that a declaration logs (F-182, F-221).
HistoryReplays ==
  /\ DOMAIN hist = DOMAIN db.row
  /\ \A d \in DOMAIN hist :
       hist[d] = [model |-> db.row[d].model, sub |-> db.row[d].sub, period |-> db.row[d].period]

\* A device the registry lists is installed as what it is listed, unless its
\* declaration was refused for its Type (F-198): the effects on the registry
\* come after the commit, and whatever takes a device out of the database or
\* off the list keeps the two together.
ListedIsInstalled ==
  io.pc # "effects" =>
    \A d \in DOMAIN reg.list :
      TypeFits(reg.list[d]) => d \in DOMAIN db.row /\ db.row[d].sub = reg.list[d].sub

AtRest ==
  /\ node.state = "running" /\ up = << >> /\ down = << >>
  /\ reg.known /\ io.pc = "idle" /\ job = NoJob /\ ~doubt

\* When nothing is under way, and no fault came after the last full
\* declaration, then node, registry and database agree on what each device is
\* and how often it reports, whatever PATCHes and declarations came between
\* (ems, ingest, registry).
AtRestTheyAgree ==
  AtRest => \A d \in DOMAIN node.cfg :
    /\ d \in DOMAIN reg.list /\ reg.list[d] = Identity(node.cfg[d])
    /\ TypeFits(node.cfg[d]) =>
         /\ d \in DOMAIN db.row
         /\ db.row[d].sub = node.cfg[d].sub /\ db.row[d].period = node.cfg[d].period

\* A measurement within the limits the device was installed with is recorded:
\* users change when a device reports, not what it can measure (the table of
\* fields in the screen design; F-171).
InRangeStored ==
  [][\A d \in DOMAIN io'.frame.elems :
       LET e == io'.frame.elems[d] IN
       /\ io.pc = "idle" /\ io'.pc = "effects" /\ io'.frame.kind = "VALUES"
       /\ Trusted(d, e) /\ e.val # NaN
       /\ d \in DOMAIN node.build /\ e.val <= node.build[d].limit
       => d \in DOMAIN made'.states]_vars

\* When a frame cannot be stored its transaction is rolled back and the I/O
\* thread goes on (the architecture document on where errors stop).
IoContinues == io.pc # "dead"

\* The setting in the database is that of the last declaration or the last
\* acknowledged PATCH (the architecture document on device_install_info).
LastSettingHolds ==
  job.pc # "update" => \A d \in DOMAIN db.row : db.row[d].period = last[d]

=============================================================================
