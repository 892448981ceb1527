------------------------- MODULE DeviceTablesProofs -------------------------
(***************************************************************************)
(* Theorems about DeviceTables, for any builds of a node, any devices,      *)
(* subtypes and requests, and lines of any length.                          *)
(***************************************************************************)
EXTENDS DeviceTables, TLAPS

\* The records have the fields they began with.
Columns ==
  /\ \A d \in DOMAIN db.row : DOMAIN db.row[d] = {"model", "sub", "period", "limit"}
  /\ DOMAIN db = {"info", "row"}
  /\ DOMAIN reg = {"known", "list"}

\* Every model of device_info has the kind of its Subtype.
ModelsTrue == \A s \in DOMAIN db.info : db.info[s] = KindOf[s]

\* What a list says of a device, its row says too.
Backed(list) ==
  \A d \in DOMAIN list : TypeFits(list[d]) => d \in DOMAIN db.row /\ db.row[d].sub = list[d].sub

\* Between the commit of a frame and its effects it is the list to come that
\* the database agrees with.
ListsBacked ==
  /\ io.pc # "effects" => Backed(reg.list)
  /\ io.pc = "effects" => Backed(Registered(io.frame).list)

\* What a PATCH is about stays installed: rows are never deleted.
JobInstalled == job.pc # "idle" => "dev" \in DOMAIN job /\ job.dev \in DOMAIN db.row

IInv ==
  /\ Columns /\ ModelsTrue /\ OnlyNaNEnds /\ IdentityHolds /\ HistoryReplays
  /\ ListsBacked /\ JobInstalled

Tables == <<db, hist, reg, io>>

-----------------------------------------------------------------------------

\* A model that a frame brings has the kind of its Subtype (F-180).
LEMMA ModelsOfFrame ==
  ASSUME NEW f
  PROVE  /\ DOMAIN Models(f) = { f.elems[d].sub : d \in Accepted(f) }
         /\ \A s \in DOMAIN Models(f) : Models(f)[s] = KindOf[s]
<1>1. DOMAIN Models(f) = { f.elems[d].sub : d \in Accepted(f) }
  BY DEF Models
<1>2. ASSUME NEW s \in DOMAIN Models(f) PROVE Models(f)[s] = KindOf[s]
  <2> DEFINE d == CHOOSE k \in Accepted(f) : f.elems[k].sub = s
  <2>1. \E k \in Accepted(f) : f.elems[k].sub = s
    BY <1>1, <1>2
  <2>2. d \in Accepted(f) /\ f.elems[d].sub = s
    BY <2>1
  <2>3. Models(f)[s] = f.elems[d].type
    BY <1>1, <1>2, SMTT(30) DEF Models
  <2>4. f.elems[d].type = KindOf[s]
    BY <2>2, ZenonT(40) DEF Accepted, TypeFits
  <2> QED
    BY <2>3, <2>4
<1> QED
  BY <1>1, <1>2

\* What the database says after a declaration.
LEMMA DeclaredTables ==
  ASSUME NEW f, Declared(f)
  PROVE  /\ DOMAIN db' = {"info", "row"}
         /\ DOMAIN db'.info = DOMAIN Models(f) \cup DOMAIN db.info
         /\ \A s \in DOMAIN db.info : db'.info[s] = db.info[s]
         /\ \A s \in DOMAIN Models(f) \ DOMAIN db.info : db'.info[s] = Models(f)[s]
         /\ DOMAIN db'.row = DOMAIN db.row \cup Accepted(f)
         /\ \A d \in Accepted(f) : db'.row[d] = Row(d, f.elems[d])
         /\ \A d \in DOMAIN db.row \ Accepted(f) : db'.row[d] = db.row[d]
         /\ DOMAIN hist' = DOMAIN hist \cup Accepted(f)
         /\ \A d \in Accepted(f) : hist'[d] = Logged(f.elems[d])
         /\ \A d \in DOMAIN hist \ Accepted(f) : hist'[d] = hist[d]
<1> DEFINE new == Only(f.elems, Accepted(f))
           rows == [d \in DOMAIN new |-> Row(d, new[d])]
           logs == [d \in DOMAIN new |-> Logged(new[d])]
<1>1. DOMAIN new = Accepted(f) /\ \A d \in Accepted(f) : new[d] = f.elems[d]
  BY DEF Only, Accepted
<1>2. DOMAIN rows = Accepted(f) /\ \A d \in Accepted(f) : rows[d] = Row(d, f.elems[d])
  BY <1>1
<1>3. DOMAIN logs = Accepted(f) /\ \A d \in Accepted(f) : logs[d] = Logged(f.elems[d])
  BY <1>1
<1>4. db' = [info |-> Puts(Models(f), db.info), row |-> Puts(db.row, rows)] /\ hist' = Puts(hist, logs)
  BY DEF Declared
<1> HIDE DEF new, rows, logs
<1>5. db'.info = Puts(Models(f), db.info) /\ db'.row = Puts(db.row, rows)
  BY <1>4
<1>6. /\ DOMAIN db'.info = DOMAIN Models(f) \cup DOMAIN db.info
      /\ \A s \in DOMAIN db.info : db'.info[s] = db.info[s]
      /\ \A s \in DOMAIN Models(f) \ DOMAIN db.info : db'.info[s] = Models(f)[s]
  BY <1>5 DEF Puts
<1>7. /\ DOMAIN db'.row = DOMAIN db.row \cup Accepted(f)
      /\ \A d \in Accepted(f) : db'.row[d] = Row(d, f.elems[d])
      /\ \A d \in DOMAIN db.row \ Accepted(f) : db'.row[d] = db.row[d]
  BY <1>5, <1>2 DEF Puts
<1>8. /\ DOMAIN hist' = DOMAIN hist \cup Accepted(f)
      /\ \A d \in Accepted(f) : hist'[d] = Logged(f.elems[d])
      /\ \A d \in DOMAIN hist \ Accepted(f) : hist'[d] = hist[d]
  BY <1>4, <1>3 DEF Puts
<1>9. DOMAIN db' = {"info", "row"}
  BY <1>4
<1> QED
  BY <1>9, <1>6, <1>7, <1>8

\* A frame of values fails its transaction for NaN where a number has to be, and
\* for nothing else.
LEMMA ValuesRaiseNaN ==
  ASSUME NEW f, Raises(Inserts(f))
  PROVE  \E d \in DOMAIN f.elems : Trusted(d, f.elems[d]) /\ Spoils(f.elems[d])
<1> DEFINE S    == Recorded(f)
           envs == { d \in S : f.elems[d].type = "SENSOR" }
           new  == Inserts(f)
<1>1. /\ DOMAIN new.states = S /\ \A d \in S : new.states[d] = State(d, f.elems[d])
      /\ new.pairs = Pairs(envs, S \ envs)
  BY DEF Inserts
<1>2. \A d \in S : f.elems[d].type = KindOf[f.elems[d].sub]
  BY DEF Recorded, Trusted, ValueTypeFits
<1>3. ASSUME NEW d \in DOMAIN new.states
      PROVE  /\ new.states[d].kind = KindOf[new.states[d].sub]
             /\ new.states[d].sub \in Unranged => new.states[d].range = {}
  <2>1. new.states[d] = State(d, f.elems[d]) /\ d \in S
    BY <1>1, <1>3
  <2> QED
    BY <2>1, <1>2 DEF State, RangeOf
<1>4. ASSUME NEW p \in new.pairs, NEW q \in new.pairs, p[2] = q[2]
      PROVE  p = q
  <2> DEFINE acts == S \ envs
  <2>1. new.pairs = acts \X envs /\ \E a \in acts : acts = {a}
    BY <1>1, <1>4 DEF Pairs
  <2>2. PICK a : acts = {a}
    BY <2>1
  <2>3. p = <<p[1], p[2]>> /\ q = <<q[1], q[2]>> /\ p[1] = a /\ q[1] = a
    BY <2>1, <2>2, <1>4
  <2> QED
    BY <2>3, <1>4
<1>5. PICK d \in DOMAIN new.states : Spoils(new.states[d])
  BY <1>3, <1>4 DEF Raises
<1>6. new.states[d] = State(d, f.elems[d]) /\ d \in S
  BY <1>1, <1>5
<1>7. Spoils(f.elems[d])
  BY <1>5, <1>6 DEF Spoils, State
<1>8. d \in DOMAIN f.elems /\ Trusted(d, f.elems[d])
  BY <1>6 DEF Recorded
<1> QED
  BY <1>7, <1>8

-----------------------------------------------------------------------------
(* Steps.                                                                   *)

\* Steps that touch neither database, log, registry nor I/O thread.
LEMMA ElsewhereKeeps ==
  ASSUME IInv, UNCHANGED Tables, JobInstalled'
  PROVE  IInv'
  BY DEF IInv, Tables, Columns, ModelsTrue, OnlyNaNEnds, IdentityHolds, HistoryReplays,
         Trusted, ListsBacked, Backed, Registered, Gone, Merged, Replaced

\* Every change to a row or its log entry goes through one of these two.
LEMMA DeclaredKeeps ==
  ASSUME IInv, NEW f, io.pc = "idle", f.kind \in Declarations, Declared(f),
         io' = [pc |-> "effects", frame |-> f], reg' = reg, job' = job
  PROVE  IInv'
<1> USE DeclaredTables
<1>1. Columns'
  <2>1. ASSUME NEW d \in DOMAIN db'.row
        PROVE  DOMAIN db'.row[d] = {"model", "sub", "period", "limit"}
    <3>1. CASE d \in Accepted(f)
      <4>1. db'.row[d] = Row(d, f.elems[d])
        BY <3>1
      <4> QED
        BY <4>1 DEF Row
    <3>2. CASE d \notin Accepted(f)
      <4>1. d \in DOMAIN db.row /\ db'.row[d] = db.row[d]
        BY <3>2, <2>1
      <4> QED
        BY <4>1 DEF IInv, Columns
    <3> QED
      BY <3>1, <3>2
  <2> QED
    BY <2>1 DEF IInv, Columns
<1>2. ModelsTrue'
  <2>1. ASSUME NEW s \in DOMAIN db'.info
        PROVE  db'.info[s] = KindOf[s]
    <3>1. CASE s \in DOMAIN db.info
      BY <3>1 DEF IInv, ModelsTrue
    <3>2. CASE s \notin DOMAIN db.info
      <4>1. s \in DOMAIN Models(f) /\ db'.info[s] = Models(f)[s]
        BY <3>2, <2>1, ZenonT(40)
      <4> QED
        BY <4>1, ModelsOfFrame, ZenonT(40)
    <3> QED
      BY <3>1, <3>2
  <2> QED
    BY <2>1 DEF ModelsTrue
<1>3. OnlyNaNEnds'
  BY DEF OnlyNaNEnds
<1>4. IdentityHolds'
  <2>1. ASSUME NEW d \in DOMAIN db'.row
        PROVE  db'.row[d].model = db'.row[d].sub /\ db'.row[d].model \in DOMAIN db'.info
    <3>1. CASE d \in Accepted(f)
      <4>1. db'.row[d] = Row(d, f.elems[d])
        BY <3>1
      <4>2. db'.row[d].model = f.elems[d].sub /\ db'.row[d].sub = f.elems[d].sub
        BY <4>1 DEF Row
      <4>3. f.elems[d].sub \in DOMAIN Models(f)
        <5>1. DOMAIN Models(f) = { f.elems[k].sub : k \in Accepted(f) }
          BY DEF Models
        <5> QED
          BY <5>1, <3>1
      <4> QED
        BY <4>2, <4>3
    <3>2. CASE d \notin Accepted(f)
      <4>1. d \in DOMAIN db.row /\ db'.row[d] = db.row[d]
        BY <3>2, <2>1
      <4> QED
        BY <4>1 DEF IInv, IdentityHolds
    <3> QED
      BY <3>1, <3>2
  <2> QED
    BY <2>1, <1>2 DEF IdentityHolds, ModelsTrue
<1>5. HistoryReplays'
  <2>1. DOMAIN hist' = DOMAIN db'.row
    BY DEF IInv, HistoryReplays
  <2>2. ASSUME NEW d \in DOMAIN hist'
        PROVE  hist'[d] = [model |-> db'.row[d].model, sub |-> db'.row[d].sub,
                           period |-> db'.row[d].period]
    <3>1. CASE d \in Accepted(f)
      <4>1. db'.row[d] = Row(d, f.elems[d]) /\ hist'[d] = Logged(f.elems[d])
        BY <3>1
      <4> QED
        BY <4>1 DEF Row, Logged
    <3>2. CASE d \notin Accepted(f)
      <4>1. d \in DOMAIN hist /\ hist'[d] = hist[d] /\ d \in DOMAIN db.row /\ db'.row[d] = db.row[d]
        BY <3>2, <2>1, <2>2
      <4> QED
        BY <4>1 DEF IInv, HistoryReplays
    <3> QED
      BY <3>1, <3>2
  <2> QED
    BY <2>1, <2>2 DEF HistoryReplays
<1>6. ListsBacked'
  <2> DEFINE list == Registered(f).list
  <2>1. ASSUME NEW d \in DOMAIN list, TypeFits(list[d])
        PROVE  d \in DOMAIN db'.row /\ db'.row[d].sub = list[d].sub
    <3>1. CASE d \in DOMAIN f.elems
      <4>1. list[d] = Identity(f.elems[d])
        <5>1. DOMAIN Identities(f.elems) = DOMAIN f.elems /\ Identities(f.elems)[d] = Identity(f.elems[d])
          BY <3>1 DEF Identities
        <5>2. CASE f.kind = "DECLARE_ALL"
          BY <5>1, <5>2 DEF Registered, Replaced, IInv, Columns
        <5>3. CASE f.kind = "DECLARE"
          <6>1. list = Puts(reg.list, Identities(f.elems))
            BY <5>3 DEF Registered, Merged, IInv, Columns
          <6> QED
            BY <6>1, <5>1, <3>1 DEF Puts
        <5> QED
          BY <5>2, <5>3 DEF Declarations
      <4>2. d \in Accepted(f) /\ list[d].sub = f.elems[d].sub
        BY <4>1, <3>1, <2>1 DEF Accepted, TypeFits, Identity
      <4>3. db'.row[d] = Row(d, f.elems[d]) /\ d \in DOMAIN db'.row
        BY <4>2
      <4> QED
        BY <4>2, <4>3 DEF Row
    <3>2. CASE d \notin DOMAIN f.elems
      <4>1. d \in DOMAIN reg.list /\ list[d] = reg.list[d]
        <5>1. DOMAIN Identities(f.elems) = DOMAIN f.elems
          BY DEF Identities
        <5>2. CASE f.kind = "DECLARE_ALL"
          <6>1. list = Identities(f.elems)
            BY <5>2 DEF Registered, Replaced, IInv, Columns
          <6> QED
            BY <6>1, <5>1, <3>2, <2>1
        <5>3. CASE f.kind = "DECLARE"
          <6>1. list = Puts(reg.list, Identities(f.elems))
            BY <5>3 DEF Registered, Merged, IInv, Columns
          <6>2. d \in DOMAIN reg.list
            BY <6>1, <5>1, <3>2, <2>1 DEF Puts
          <6> QED
            BY <6>1, <6>2, <5>1, <3>2 DEF Puts
        <5> QED
          BY <5>2, <5>3 DEF Declarations
      <4>2. d \in DOMAIN db.row /\ db.row[d].sub = reg.list[d].sub
        BY <4>1, <2>1 DEF IInv, ListsBacked, Backed
      <4>3. d \notin Accepted(f)
        BY <3>2 DEF Accepted
      <4> QED
        BY <4>1, <4>2, <4>3
    <3> QED
      BY <3>1, <3>2
  <2>2. Registered(f)' = Registered(f)
    BY DEF Registered, Gone, Merged, Replaced
  <2>3. io'.pc = "effects" /\ io'.frame = f
    OBVIOUS
  <2> QED
    BY <2>1, <2>2, <2>3 DEF ListsBacked, Backed
<1>7. JobInstalled'
  BY DEF IInv, JobInstalled
<1> QED
  BY <1>1, <1>2, <1>3, <1>4, <1>5, <1>6, <1>7 DEF IInv

\* The roll back that ends the I/O thread leaves tables and list.
LEMMA RollBackKeeps ==
  ASSUME IInv, NEW f, io.pc = "idle", f.kind = "VALUES", Raises(Inserts(f)),
         RollsBack(f), UNCHANGED <<reg, job>>
  PROVE  IInv'
<1>1. io' = [pc |-> "dead", frame |-> f] /\ db' = db /\ hist' = hist
  BY DEF RollsBack
<1>2. Columns' /\ ModelsTrue' /\ IdentityHolds' /\ HistoryReplays' /\ JobInstalled'
  BY <1>1 DEF IInv, Columns, ModelsTrue, IdentityHolds, HistoryReplays, JobInstalled
<1>3. ListsBacked'
  BY <1>1 DEF IInv, ListsBacked, Backed
<1>4. OnlyNaNEnds'
  <2>1. PICK d \in DOMAIN f.elems : Trusted(d, f.elems[d]) /\ Spoils(f.elems[d])
    BY ValuesRaiseNaN
  <2>2. io'.frame = f /\ Trusted(d, f.elems[d])'
    BY <1>1, <2>1 DEF Trusted
  <2> QED
    BY <2>1, <2>2 DEF OnlyNaNEnds
<1> QED
  BY <1>2, <1>3, <1>4 DEF IInv

\* A frame that declares nothing leaves the tables, and its effects empty the
\* list or keep it.
LEMMA OtherFrameKeeps ==
  ASSUME IInv, NEW f, io.pc = "idle", f.kind \notin Declarations,
         io' = [pc |-> "effects", frame |-> f], UNCHANGED <<db, hist, reg, job>>
  PROVE  IInv'
<1>1. Registered(f).list = << >> \/ Registered(f).list = reg.list
  BY DEF Registered, Declarations, Gone
<1>2. Backed(Registered(f).list)'
  <2>1. Backed(<< >>) /\ Backed(reg.list)
    BY DEF Backed, IInv, ListsBacked
  <2>2. Registered(f)' = Registered(f)
    BY DEF Registered, Gone, Merged, Replaced
  <2> QED
    BY <1>1, <2>1, <2>2 DEF Backed
<1>3. Columns' /\ ModelsTrue' /\ IdentityHolds' /\ HistoryReplays' /\ JobInstalled'
  BY DEF IInv, Columns, ModelsTrue, IdentityHolds, HistoryReplays, JobInstalled
<1>4. OnlyNaNEnds' /\ ListsBacked'
  <2>1. io'.pc = "effects" /\ io'.frame = f
    OBVIOUS
  <2> QED
    BY <1>2, <2>1 DEF OnlyNaNEnds, ListsBacked, Backed
<1> QED
  BY <1>3, <1>4 DEF IInv

LEMMA IngestKeeps ==
  ASSUME IInv, Ingest
  PROVE  IInv'
<1> DEFINE f == Head(up)
<1>1. io.pc = "idle" /\ reg' = reg /\ job' = job
  BY DEF Ingest
<1>2. CASE reg.known \/ f.kind = "CONNECT"
  <2>1. CASE f.kind = "VALUES" /\ Raises(Inserts(f))
    <3>1. RollsBack(f)
      BY <1>2, <2>1 DEF Ingest
    <3> QED
      BY <1>1, <2>1, <3>1, RollBackKeeps
  <2>2. CASE Commits(f)
    <3>1. io' = [pc |-> "effects", frame |-> f]
      BY <2>2 DEF Commits
    <3>2. CASE f.kind \in Declarations
      <4>1. Declared(f)
        BY <2>2, <3>2 DEF Commits
      <4> QED
        BY <1>1, <3>1, <3>2, <4>1, DeclaredKeeps
    <3>3. CASE f.kind \notin Declarations
      <4>1. UNCHANGED <<db, hist>>
        BY <2>2, <3>3 DEF Commits
      <4> QED
        BY <1>1, <3>1, <3>3, <4>1, OtherFrameKeeps
    <3> QED
      BY <3>2, <3>3
  <2> QED
    BY <1>2, <2>1, <2>2 DEF Ingest
<1>3. CASE ~(reg.known \/ f.kind = "CONNECT")
  <2>1. UNCHANGED Tables
    BY <1>1, <1>3 DEF Ingest, Tables
  <2>2. JobInstalled'
    BY <1>1, <2>1 DEF IInv, JobInstalled, Tables
  <2> QED
    BY <2>1, <2>2, ElsewhereKeeps
<1> QED
  BY <1>2, <1>3

LEMMA EffectsKeep ==
  ASSUME IInv, Effects
  PROVE  IInv'
<1>1. /\ io.pc = "effects" /\ io'.pc = "idle" /\ reg' = Registered(io.frame)
      /\ db' = db /\ hist' = hist /\ job' = job
  BY DEF Effects
<1>2. DOMAIN reg' = {"known", "list"}
  BY <1>1 DEF IInv, Columns, Registered, Gone, Merged, Replaced
<1>3. Backed(reg'.list)
  BY <1>1 DEF IInv, ListsBacked
<1>4. Columns' /\ ModelsTrue' /\ IdentityHolds' /\ HistoryReplays' /\ JobInstalled'
  BY <1>1, <1>2 DEF IInv, Columns, ModelsTrue, IdentityHolds, HistoryReplays, JobInstalled
<1>5. OnlyNaNEnds' /\ ListsBacked'
  BY <1>1, <1>3 DEF OnlyNaNEnds, ListsBacked, Backed
<1> QED
  BY <1>4, <1>5 DEF IInv

\* The answer to a PATCH changes a setting of its row, or its limit, and never
\* what the row is; the log follows.
LEMMA UpdateKeeps ==
  ASSUME IInv, Update
  PROVE  IInv'
<1> DEFINE d   == job.dev
           old == db.row[d]
           row == Column(old, job.field, job.val)
<1>1. d \in DOMAIN db.row
  BY DEF Update, IInv, JobInstalled
<1>2. /\ db'.row = Put(db.row, d, row) /\ db'.info = db.info /\ DOMAIN db' = DOMAIN db
      /\ hist' = IF row = old THEN hist ELSE LogChange(d, row)
      /\ job' = NoJob /\ UNCHANGED <<reg, io>>
  BY DEF Update, IInv, Columns
<1>3. /\ DOMAIN row = DOMAIN old /\ row.model = old.model /\ row.sub = old.sub
  BY <1>1 DEF Column, IInv, Columns
<1>4. DOMAIN db'.row = DOMAIN db.row /\ db'.row[d] = row
  BY <1>1, <1>2 DEF Put
<1>5. \A k \in DOMAIN db.row \ {d} : db'.row[k] = db.row[k]
  BY <1>2 DEF Put
<1> HIDE DEF row
<1>6. \A k \in DOMAIN db.row :
         /\ DOMAIN db'.row[k] = DOMAIN db.row[k]
         /\ db'.row[k].model = db.row[k].model /\ db'.row[k].sub = db.row[k].sub
  BY <1>3, <1>4, <1>5
<1>7. Columns' /\ ModelsTrue'
  BY <1>2, <1>4, <1>6 DEF IInv, Columns, ModelsTrue
<1>8. IdentityHolds'
  BY <1>2, <1>4, <1>6 DEF IInv, IdentityHolds
<1>9. HistoryReplays'
  <2>1. /\ DOMAIN hist = DOMAIN db.row
        /\ \A k \in DOMAIN hist : hist[k] = [model |-> db.row[k].model, sub |-> db.row[k].sub,
                                             period |-> db.row[k].period]
    BY DEF IInv, HistoryReplays
  <2>2. CASE row = old
    <3>1. hist' = hist /\ \A k \in DOMAIN db.row : db'.row[k] = db.row[k]
      BY <1>2, <1>4, <1>5, <2>2
    <3> QED
      BY <1>4, <2>1, <3>1 DEF HistoryReplays
  <2>3. CASE row # old
    <3>1. hist' = Put(hist, d, [hist[d] EXCEPT !.period = row.period])
      BY <1>2, <2>3 DEF LogChange
    <3>2. DOMAIN hist' = DOMAIN db'.row
      BY <1>1, <1>4, <2>1, <3>1 DEF Put
    <3>3. hist'[d] = [model |-> row.model, sub |-> row.sub, period |-> row.period]
      <4>1. hist'[d] = [hist[d] EXCEPT !.period = row.period]
        BY <3>1, <3>2, <1>1, <1>4 DEF Put
      <4>2. hist[d] = [model |-> old.model, sub |-> old.sub, period |-> old.period]
        BY <1>1, <2>1
      <4> QED
        BY <4>1, <4>2, <1>3
    <3>4. \A k \in DOMAIN hist \ {d} : hist'[k] = hist[k]
      BY <3>1 DEF Put
    <3>5. ASSUME NEW k \in DOMAIN hist'
          PROVE  hist'[k] = [model |-> db'.row[k].model, sub |-> db'.row[k].sub,
                             period |-> db'.row[k].period]
      <4>1. CASE k = d
        BY <4>1, <3>3, <1>4
      <4>2. CASE k # d
        <5>1. k \in DOMAIN hist \ {d} /\ k \in DOMAIN db.row \ {d}
          BY <4>2, <3>5, <3>2, <1>4, <2>1
        <5> QED
          BY <5>1, <3>4, <1>5, <2>1
      <4> QED
        BY <4>1, <4>2
    <3> QED
      BY <3>2, <3>5 DEF HistoryReplays
  <2> QED
    BY <2>2, <2>3
<1>10. ListsBacked'
  <2>1. \A list : Backed(list) => Backed(list)'
    BY <1>4, <1>6 DEF Backed
  <2>2. Registered(io.frame)' = Registered(io.frame) /\ io' = io /\ reg' = reg
    BY <1>2 DEF Registered, Gone, Merged, Replaced
  <2> QED
    BY <2>1, <2>2 DEF IInv, ListsBacked
<1>11. JobInstalled'
  BY <1>2 DEF JobInstalled, NoJob
<1>12. OnlyNaNEnds'
  <2>1. \A k, e : Trusted(k, e)' = Trusted(k, e)
    BY <1>4, <1>6 DEF Trusted
  <2> QED
    BY <1>2, <2>1 DEF IInv, OnlyNaNEnds
<1> QED
  BY <1>7, <1>8, <1>9, <1>10, <1>11, <1>12 DEF IInv

LEMMA RestartKeeps ==
  ASSUME IInv, Restart
  PROVE  IInv'
<1>1. /\ reg' = [known |-> FALSE, list |-> << >>] /\ io'.pc = "idle" /\ job' = NoJob
      /\ db' = db /\ hist' = hist
  BY DEF Restart
<1>2. Columns' /\ ModelsTrue' /\ IdentityHolds' /\ HistoryReplays' /\ JobInstalled'
  BY <1>1 DEF IInv, Columns, ModelsTrue, IdentityHolds, HistoryReplays, JobInstalled, NoJob
<1>3. OnlyNaNEnds' /\ ListsBacked'
  BY <1>1 DEF OnlyNaNEnds, ListsBacked, Backed
<1> QED
  BY <1>2, <1>3 DEF IInv

-----------------------------------------------------------------------------
(* The steps of the PATCH before its answer, and of node and line.          *)

LEMMA JobKeeps ==
  ASSUME IInv, UNCHANGED Tables,
         \/ job' = job \/ job' = NoJob
         \/ job.pc # "idle" /\ DOMAIN job' = DOMAIN job /\ job'.dev = job.dev
         \/ "dev" \in DOMAIN job' /\ job'.dev \in DOMAIN db.row
  PROVE  IInv'
<1>1. db' = db
  BY DEF Tables
<1>2. JobInstalled'
  BY <1>1 DEF IInv, JobInstalled, NoJob
<1> QED
  BY <1>2, ElsewhereKeeps

LEMMA PatchKeeps ==
  ASSUME IInv,
         \/ Send \/ ReceiveAck \/ GiveUp
         \/ \E d \in Devs, field \in Fields : \E val : ReadRow(d, field, val)
  PROVE  IInv'
<1>1. CASE Send
  <2>1. UNCHANGED Tables /\ job.pc # "idle"
    BY <1>1 DEF Send, Tables, ends
  <2>2. job' = NoJob \/ (DOMAIN job' = DOMAIN job /\ job'.dev = job.dev)
    BY <1>1, <2>1 DEF Send, IInv, JobInstalled
  <2> QED
    BY <2>1, <2>2, JobKeeps
<1>2. CASE ReceiveAck
  <2>1. UNCHANGED Tables
    BY <1>2 DEF ReceiveAck, Tables, ends
  <2>2. job' = job \/ (job.pc # "idle" /\ DOMAIN job' = DOMAIN job /\ job'.dev = job.dev)
    BY <1>2 DEF ReceiveAck, IInv, JobInstalled
  <2> QED
    BY <2>1, <2>2, JobKeeps
<1>3. CASE GiveUp
  <2>1. UNCHANGED Tables /\ job' = NoJob
    BY <1>3 DEF GiveUp, Tables, ends
  <2> QED
    BY <2>1, JobKeeps
<1>4. ASSUME NEW d \in Devs, NEW field \in Fields, NEW val, ReadRow(d, field, val)
      PROVE  IInv'
  <2>1. UNCHANGED Tables
    BY <1>4 DEF ReadRow, Tables, ends
  <2>2. "dev" \in DOMAIN job' /\ job'.dev \in DOMAIN db.row
    BY <1>4 DEF ReadRow
  <2> QED
    BY <2>1, <2>2, JobKeeps
<1> QED
  BY <1>1, <1>2, <1>3, <1>4

LEMMA NodeKeeps ==
  ASSUME IInv,
         \/ \E b \in Builds : PowerUp(b)
         \/ Reconnect \/ Resend \/ Unanswered \/ NodeReceives
         \/ \E S, val : Measure(S, val)
         \/ \E d : DeclareSome(d)
         \/ Complain \/ Leave \/ Lose
  PROVE  IInv'
<1>1. NodeSide
  BY DEF PowerUp, Reconnect, Connect, Resend, Unanswered, NodeReceives, Measure, DeclareSome, Complain,
         Says, Leave, Lose
<1>2. UNCHANGED Tables /\ job' = job
  BY <1>1 DEF NodeSide, ends, Tables
<1> QED
  BY <1>2, JobKeeps

LEMMA InitEstablishes == Init => IInv
  BY DEF Init, IInv, Columns, ModelsTrue, OnlyNaNEnds, IdentityHolds, HistoryReplays,
         ListsBacked, Backed, JobInstalled, NoJob

LEMMA NextKeeps == IInv /\ [Next]_vars => IInv'
<1> SUFFICES ASSUME IInv, [Next]_vars
             PROVE  IInv'
  OBVIOUS
<1>1. CASE UNCHANGED vars
  <2>1. UNCHANGED Tables /\ job' = job
    BY <1>1 DEF vars, ends, Tables
  <2> QED
    BY <2>1, JobKeeps
<1>2. CASE Next
  BY <1>2, IngestKeeps, EffectsKeep, PatchKeeps, UpdateKeeps, NodeKeeps, RestartKeeps DEF Next
<1> QED
  BY <1>1, <1>2

LEMMA TablesInvariant == Spec => []IInv
  BY InitEstablishes, NextKeeps, PTL DEF Spec

\* If the I/O thread has ended, then of a measurement that is not a number, of an
\* installed device whose column needs one; no other frame of any node fails its
\* transaction (ingest._handle_device_value, F-156, F-175; schema.sql).
THEOREM OnlyNaNEverEnds == Spec => []OnlyNaNEnds
<1>1. IInv => OnlyNaNEnds
  BY DEF IInv
<1> QED
  BY <1>1, TablesInvariant, PTL

\* An installed device refers to the model of its Subtype, of the kind of that
\* Subtype, whatever is declared, patched or reordered
\* (upsert_device_install_info, F-169, F-180).
THEOREM IdentityAlwaysHolds == Spec => []IdentityHolds
<1>1. IInv => IdentityHolds
  BY DEF IInv
<1> QED
  BY <1>1, TablesInvariant, PTL

\* config_change_log replayed yields the row, for each column that a
\* declaration logs (F-182, F-221).
THEOREM HistoryAlwaysReplays == Spec => []HistoryReplays
<1>1. IInv => HistoryReplays
  BY DEF IInv
<1> QED
  BY <1>1, TablesInvariant, PTL

\* A device that the registry lists, other than one refused for its Type, is
\* installed as what it is listed (F-198, _apply_registry_effects).
THEOREM ListedIsAlwaysInstalled == Spec => []ListedIsInstalled
<1>1. IInv => ListedIsInstalled
  BY DEF IInv, ListedIsInstalled, ListsBacked, Backed
<1> QED
  BY <1>1, TablesInvariant, PTL

-----------------------------------------------------------------------------
(* Sequences.                                                               *)

\* A sequence, of whatever.
IsSeq(s) == s \in Seq({ s[i] : i \in DOMAIN s })

LEMMA SeqShape ==
  ASSUME NEW s, IsSeq(s)
  PROVE  Len(s) \in Nat /\ DOMAIN s = 1..Len(s) /\ (s # << >> <=> Len(s) > 0)
  BY DEF IsSeq

LEMMA EmptyIsSeq ==
  ASSUME NEW s, s = << >>
  PROVE  IsSeq(s)
  BY DEF IsSeq

LEMMA AppendShape ==
  ASSUME NEW s, NEW e, IsSeq(s)
  PROVE  /\ IsSeq(Append(s, e)) /\ Append(s, e) # << >>
         /\ Len(Append(s, e)) = Len(s) + 1 /\ DOMAIN Append(s, e) = 1..(Len(s) + 1)
         /\ \A i \in DOMAIN s : Append(s, e)[i] = s[i]
         /\ Append(s, e)[Len(s) + 1] = e
<1> DEFINE S == { s[i] : i \in DOMAIN s }
           T == S \cup {e}
           a == Append(s, e)
<1>1. s \in Seq(T) /\ e \in T
  BY DEF IsSeq
<1> HIDE DEF T
<1>2. /\ Len(s) \in Nat /\ DOMAIN s = 1..Len(s)
      /\ Len(a) = Len(s) + 1 /\ DOMAIN a = 1..(Len(s) + 1)
      /\ \A i \in 1..Len(s) : a[i] = s[i]
      /\ a[Len(s) + 1] = e /\ a \in Seq(T)
  BY <1>1
<1>3. a \in Seq({ a[i] : i \in DOMAIN a })
  BY <1>2
<1> QED
  BY <1>2, <1>3, SMTT(30) DEF IsSeq

LEMMA TailShape ==
  ASSUME NEW s, IsSeq(s), s # << >>
  PROVE  /\ IsSeq(Tail(s)) /\ Head(s) = s[1] /\ 1 \in DOMAIN s /\ Len(s) \in Nat
         /\ Len(s) > 0 /\ Len(Tail(s)) = Len(s) - 1 /\ DOMAIN Tail(s) = 1..(Len(s) - 1)
         /\ \A i \in DOMAIN Tail(s) : i + 1 \in DOMAIN s /\ Tail(s)[i] = s[i + 1]
<1> DEFINE T == { s[i] : i \in DOMAIN s }
<1>0. PICK t : t = Tail(s)
  OBVIOUS
<1>1. s \in Seq(T)
  BY DEF IsSeq
<1> HIDE DEF T
<1>2. /\ Len(s) \in Nat /\ Len(s) > 0 /\ DOMAIN s = 1..Len(s) /\ Head(s) = s[1]
      /\ Len(t) = Len(s) - 1 /\ DOMAIN t = 1..(Len(s) - 1) /\ t \in Seq(T)
      /\ \A i \in 1..(Len(s) - 1) : t[i] = s[i + 1]
  BY <1>0, <1>1
<1>3. t \in Seq({ t[i] : i \in DOMAIN t })
  BY <1>2
<1>4. IsSeq(t)
  BY <1>3 DEF IsSeq
<1>5. \A i \in DOMAIN t : i + 1 \in DOMAIN s /\ t[i] = s[i + 1]
  BY <1>2
<1>6. 1 \in DOMAIN s
  BY <1>2
<1> QED
  BY <1>0, <1>2, <1>4, <1>5, <1>6

\* A line is not grown by more than the reply of the gateway.
LEMMA RepliesShape ==
  ASSUME NEW s, IsSeq(s), NEW f
  PROVE  \/ s \o Replies(f) = s
         \/ \E r : r.kind \in {"CONNECTED", "DECLARED"} /\ s \o Replies(f) = Append(s, r)
<1>1. s \o << >> = s
  BY DEF IsSeq
<1>2. ASSUME NEW e PROVE s \o << e >> = Append(s, e)
  BY DEF IsSeq
<1>3. CASE f.kind = "CONNECT"
  <2>1. Replies(f) = << Bare("CONNECTED") >>
    BY <1>3 DEF Replies
  <2>2. Bare("CONNECTED").kind = "CONNECTED"
    BY DEF Bare, Frame
  <2>3. s \o Replies(f) = Append(s, Bare("CONNECTED"))
    BY <2>1, <1>2
  <2> QED
    BY <2>2, <2>3
<1>4. CASE f.kind = "DECLARE_ALL"
  <2>1. Replies(f) = << Bare("DECLARED") >>
    BY <1>4 DEF Replies
  <2>2. Bare("DECLARED").kind = "DECLARED"
    BY DEF Bare, Frame
  <2>3. s \o Replies(f) = Append(s, Bare("DECLARED"))
    BY <2>1, <1>2
  <2> QED
    BY <2>2, <2>3
<1>5. CASE f.kind \notin {"CONNECT", "DECLARE_ALL"}
  <2>1. Replies(f) = << >>
    BY <1>5 DEF Replies
  <2> QED
    BY <2>1, <1>1
<1> QED
  BY <1>3, <1>4, <1>5

-----------------------------------------------------------------------------
(* The types of what is stored, listed and under way.                       *)

\* A declaration is of devices of the node.
Whole(f) == f.kind \in Declarations => Partial(f.elems, Devs, Property)

\* A PATCH sets one device.
Patching(f) ==
  f.kind = "PATCH" => \E d \in Devs : DOMAIN f.elems = {d} /\ f.elems[d] \in Property

NodeTyped ==
  /\ DOMAIN node = {"state", "build", "cfg"}
  /\ node.state \in {"off", "connecting", "declaring", "running"}
  /\ Partial(node.build, Devs, Property) /\ Partial(node.cfg, Devs, Property)

TablesTyped ==
  /\ Partial(db.info, Subtypes, Kinds) /\ Partial(db.row, Devs, Rows)
  /\ Partial(hist, Devs, [model : Subtypes, sub : Subtypes, period : Periods])
  /\ Partial(last, Devs, Periods)

ListTyped == reg.known \in BOOLEAN /\ Partial(reg.list, Devs, Ids)

InHandTyped == io.pc \in {"idle", "effects", "dead"} /\ (io.pc = "effects" => Whole(io.frame))

JobTyped ==
  /\ job.pc \in {"idle", "look", "wait", "update"}
  /\ job.pc # "idle" =>
       /\ DOMAIN job = {"pc", "n", "dev", "field", "val", "row"}
       /\ job.dev \in Devs /\ job.field \in Fields /\ job.val \in Vals(job.field) /\ job.row \in Rows

UpTyped   == IsSeq(up) /\ Len(up) <= MaxLine /\ \A i \in DOMAIN up : Whole(up[i])
DownTyped == IsSeq(down) /\ Len(down) <= MaxLine /\ \A i \in DOMAIN down : Patching(down[i])

CountsTyped == doubt \in BOOLEAN /\ patches \in 0..MaxPatches /\ faults \in 0..MaxFaults

TInv ==
  /\ NodeTyped /\ TablesTyped /\ ListTyped /\ InHandTyped /\ JobTyped /\ UpTyped /\ DownTyped
  /\ CountsTyped

LEMMA PutsTyped ==
  ASSUME NEW f, NEW new, NEW S, NEW T, Partial(f, S, T), Partial(new, S, T)
  PROVE  Partial(Puts(f, new), S, T)
  BY DEF Partial, Puts

LEMMA PutTyped ==
  ASSUME NEW f, NEW d, NEW x, NEW S, NEW T, Partial(f, S, T), d \in S, x \in T
  PROVE  Partial(Put(f, d, x), S, T)
  BY DEF Partial, Put

LEMMA NothingTyped == \A S, T : Partial(<< >>, S, T)
  BY DEF Partial

\* What a declaration leaves in the tables.
LEMMA DeclaredTyped ==
  ASSUME TablesTyped, NEW f, Declared(f), Partial(f.elems, Devs, Property)
  PROVE  TablesTyped'
<1> DEFINE new == Only(f.elems, Accepted(f))
           rows == [d \in DOMAIN new |-> Row(d, new[d])]
           logs == [d \in DOMAIN new |-> Logged(new[d])]
           pers == [d \in DOMAIN new |-> new[d].period]
<1>1. Partial(new, Devs, Property)
  BY DEF Only, Partial
<1>2. ASSUME NEW d \in DOMAIN new
      PROVE  /\ d \in Devs /\ Row(d, new[d]) \in Rows /\ new[d].period \in Periods
             /\ Logged(new[d]) \in [model : Subtypes, sub : Subtypes, period : Periods]
  <2> DEFINE e == new[d]
  <2>1. e \in Property /\ d \in Devs
    BY <1>1, <1>2 DEF Partial
  <2> HIDE DEF e
  <2>2. e.sub \in Subtypes /\ e.period \in Periods /\ e.limit \in Level
    BY <2>1 DEF Property
  <2>3. Row(d, e) \in Rows /\ Logged(e) \in [model : Subtypes, sub : Subtypes, period : Periods]
    BY <2>2 DEF Row, Rows, Logged
  <2> QED
    BY <2>1, <2>2, <2>3 DEF e
<1>3. Partial(rows, Devs, Rows) /\ Partial(pers, Devs, Periods)
  BY <1>2 DEF Partial
<1>4. Partial(logs, Devs, [model : Subtypes, sub : Subtypes, period : Periods])
  BY <1>2 DEF Partial
<1>5. Partial(Models(f), Subtypes, Kinds)
  <2>1. ASSUME NEW d \in Accepted(f) PROVE f.elems[d].sub \in Subtypes
    BY <2>1 DEF Accepted, Partial, Property
  <2>2. \A s \in DOMAIN Models(f) : s \in Subtypes
    <3>1. DOMAIN Models(f) = { f.elems[d].sub : d \in Accepted(f) }
      BY ModelsOfFrame
    <3> QED
      BY <2>1, <3>1
  <2>3. \A s \in DOMAIN Models(f) : Models(f)[s] = KindOf[s]
    BY ModelsOfFrame
  <2> QED
    BY <2>2, <2>3, TablesAssumption DEF Partial
<1>6. /\ db'.info = Puts(Models(f), db.info) /\ db'.row = Puts(db.row, rows)
      /\ hist' = Puts(hist, logs) /\ last' = Puts(last, pers)
  BY DEF Declared
<1> HIDE DEF new, rows, logs, pers
<1> QED
  BY <1>3, <1>4, <1>5, <1>6, PutsTyped DEF TablesTyped

\* Lines: nothing, its head taken, or a frame added where there is room.
LEMMA UpTypedKept ==
  ASSUME UpTyped, MaxLine \in Nat,
         \/ up' = up
         \/ up # << >> /\ up' = Tail(up)
         \/ Len(up) < MaxLine /\ \E f : Whole(f) /\ up' = Append(up, f)
  PROVE  UpTyped'
<1>1. CASE up' = up
  BY <1>1 DEF UpTyped, IsSeq
<1>2. CASE up # << >> /\ up' = Tail(up)
  <2>1. /\ IsSeq(up') /\ Len(up) \in Nat /\ Len(up') = Len(up) - 1 /\ DOMAIN up' = 1..(Len(up) - 1)
        /\ \A i \in DOMAIN up' : i + 1 \in DOMAIN up /\ up'[i] = up[i + 1]
    BY <1>2, TailShape DEF UpTyped
  <2>2. \A i \in DOMAIN up' : Whole(up'[i])
    BY <2>1 DEF UpTyped
  <2>3. Len(up') <= MaxLine
    BY <2>1 DEF UpTyped
  <2> QED
    BY <2>1, <2>2, <2>3 DEF UpTyped, IsSeq
<1>3. ASSUME NEW f, Whole(f), up' = Append(up, f), Len(up) < MaxLine
      PROVE  UpTyped'
  <2>1. /\ IsSeq(up') /\ Len(up') = Len(up) + 1 /\ DOMAIN up' = 1..(Len(up) + 1)
        /\ \A i \in DOMAIN up : up'[i] = up[i]
        /\ up'[Len(up) + 1] = f
    BY <1>3, AppendShape DEF UpTyped
  <2>2. Len(up) \in Nat /\ DOMAIN up = 1..Len(up)
    BY SeqShape DEF UpTyped
  <2>3. \A i \in DOMAIN up' : Whole(up'[i])
    <3>1. ASSUME NEW i \in DOMAIN up' PROVE i \in DOMAIN up \/ i = Len(up) + 1
      <4>1. i \in 1..(Len(up) + 1)
        BY <2>1
      <4> QED
        BY <4>1, <2>2
    <3> QED
      BY <3>1, <2>1, <1>3 DEF UpTyped
  <2>4. Len(up') <= MaxLine
    <3>1. Len(up') = Len(up) + 1 /\ Len(up) \in Nat /\ Len(up) < MaxLine
      BY <2>1, <2>2, <1>3, ZenonT(40)
    <3> QED
      BY <3>1, SMTT(30)
  <2> QED
    BY <2>1, <2>3, <2>4 DEF UpTyped, IsSeq
<1> QED
  BY <1>1, <1>2, <1>3

LEMMA DownTypedKept ==
  ASSUME DownTyped, MaxLine \in Nat,
         \/ down' = down
         \/ down' = << >>
         \/ down # << >> /\ down' = Tail(down)
         \/ Len(down) < MaxLine /\ \E f : Patching(f) /\ down' = Append(down, f)
  PROVE  DownTyped'
<1>1. CASE down' = down
  BY <1>1 DEF DownTyped, IsSeq
<1>2. CASE down' = << >>
  <2>1. IsSeq(down')
    BY <1>2, EmptyIsSeq
  <2>2. Len(down') = 0 /\ DOMAIN down' = {}
    BY <1>2
  <2> QED
    BY <2>1, <2>2 DEF DownTyped, IsSeq
<1>3. CASE down # << >> /\ down' = Tail(down)
  <2>1. /\ IsSeq(down') /\ Len(down) \in Nat /\ Len(down') = Len(down) - 1
        /\ DOMAIN down' = 1..(Len(down) - 1)
        /\ \A i \in DOMAIN down' : i + 1 \in DOMAIN down /\ down'[i] = down[i + 1]
    BY <1>3, TailShape DEF DownTyped
  <2>2. \A i \in DOMAIN down' : Patching(down'[i])
    BY <2>1 DEF DownTyped
  <2>3. Len(down') <= MaxLine
    BY <2>1 DEF DownTyped
  <2> QED
    BY <2>1, <2>2, <2>3 DEF DownTyped, IsSeq
<1>4. ASSUME NEW f, Patching(f), down' = Append(down, f), Len(down) < MaxLine
      PROVE  DownTyped'
  <2>1. /\ IsSeq(down') /\ Len(down') = Len(down) + 1 /\ DOMAIN down' = 1..(Len(down) + 1)
        /\ \A i \in DOMAIN down : down'[i] = down[i]
        /\ down'[Len(down) + 1] = f
    BY <1>4, AppendShape DEF DownTyped
  <2>2. Len(down) \in Nat /\ DOMAIN down = 1..Len(down)
    BY SeqShape DEF DownTyped
  <2>3. \A i \in DOMAIN down' : Patching(down'[i])
    <3>1. ASSUME NEW i \in DOMAIN down' PROVE i \in DOMAIN down \/ i = Len(down) + 1
      <4>1. i \in 1..(Len(down) + 1)
        BY <2>1
      <4> QED
        BY <4>1, <2>2
    <3> QED
      BY <3>1, <2>1, <1>4 DEF DownTyped
  <2>4. Len(down') <= MaxLine
    <3>1. Len(down') = Len(down) + 1 /\ Len(down) \in Nat /\ Len(down) < MaxLine
      BY <2>1, <2>2, <1>4, ZenonT(40)
    <3> QED
      BY <3>1, SMTT(30)
  <2> QED
    BY <2>1, <2>3, <2>4 DEF DownTyped, IsSeq
<1> QED
  BY <1>1, <1>2, <1>3, <1>4

-----------------------------------------------------------------------------
(* Every step keeps the types.                                              *)

LEMMA IngestTyped ==
  ASSUME TInv, IInv, Ingest
  PROVE  TInv'
<1> DEFINE f == Head(up)
<1>1. /\ up # << >> /\ up' = Tail(up)
      /\ UNCHANGED <<node, down, reg, job, patches, faults>> /\ doubt' \in BOOLEAN
  BY DEF Ingest, TInv, CountsTyped
<1>2. Whole(f)
  <2>1. f = up[1] /\ 1 \in DOMAIN up
    BY <1>1, TailShape DEF TInv, UpTyped
  <2> QED
    BY <2>1 DEF TInv, UpTyped
<1> HIDE DEF f
<1>3. UpTyped'
  BY <1>1, UpTypedKept, TablesAssumption DEF TInv
<1>4. NodeTyped' /\ ListTyped' /\ JobTyped' /\ DownTyped' /\ CountsTyped'
  BY <1>1 DEF TInv, NodeTyped, ListTyped, JobTyped, DownTyped, IsSeq, CountsTyped
<1>5. TablesTyped' /\ InHandTyped'
  <2>1. CASE Commits(f)
    <3>1. io' = [pc |-> "effects", frame |-> f]
      BY <2>1 DEF Commits
    <3>2. InHandTyped'
      BY <3>1, <1>2 DEF InHandTyped, Whole
    <3>3. CASE f.kind \in Declarations
      <4>1. Declared(f) /\ Partial(f.elems, Devs, Property)
        BY <2>1, <3>3, <1>2 DEF Commits, Whole
      <4> QED
        BY <4>1, <3>2, DeclaredTyped DEF TInv
    <3>4. CASE f.kind \notin Declarations
      <4>1. UNCHANGED <<db, hist, last>>
        BY <2>1, <3>4 DEF Commits
      <4> QED
        BY <4>1, <3>2 DEF TInv, TablesTyped
    <3> QED
      BY <3>3, <3>4
  <2>2. CASE UNCHANGED <<db, hist, made, io, last>>
    BY <2>2 DEF TInv, TablesTyped, InHandTyped
  <2>3. CASE RollsBack(f)
    BY <2>3 DEF RollsBack, TInv, TablesTyped, InHandTyped
  <2> QED
    BY <2>1, <2>2, <2>3 DEF Ingest, f
<1> QED
  BY <1>3, <1>4, <1>5 DEF TInv

\* The list that the effects of a frame leave.
LEMMA RegisteredTyped ==
  ASSUME NEW f, Whole(f), ListTyped, Columns
  PROVE  Registered(f).known \in BOOLEAN /\ Partial(Registered(f).list, Devs, Ids)
<1>1. ASSUME Partial(f.elems, Devs, Property)
      PROVE  Partial(Identities(f.elems), Devs, Ids)
  BY <1>1 DEF Partial, Identities, Identity, Property, Ids
<1>2. CASE f.kind = "CONNECT"
  <2>1. Registered(f) = [known |-> TRUE, list |-> << >>]
    BY <1>2 DEF Registered
  <2> QED
    BY <2>1, NothingTyped
<1>3. CASE f.kind = "DISCONNECT"
  <2>1. Registered(f) = [known |-> FALSE, list |-> << >>]
    BY <1>3 DEF Registered, Gone
  <2> QED
    BY <2>1, NothingTyped
<1>4. CASE f.kind = "DECLARE_ALL"
  <2>1. Registered(f).known = reg.known /\ Registered(f).list = Identities(f.elems)
    BY <1>4 DEF Registered, Replaced, Columns
  <2> QED
    BY <2>1, <1>1, <1>4 DEF Whole, Declarations, ListTyped
<1>5. CASE f.kind = "DECLARE"
  <2>1. Registered(f).known = reg.known /\ Registered(f).list = Puts(reg.list, Identities(f.elems))
    BY <1>5 DEF Registered, Merged, Columns
  <2>2. Partial(Puts(reg.list, Identities(f.elems)), Devs, Ids)
    BY <1>1, <1>5, PutsTyped DEF Whole, Declarations, ListTyped
  <2> QED
    BY <2>1, <2>2 DEF ListTyped
<1>6. CASE f.kind \notin {"CONNECT", "DISCONNECT", "DECLARE_ALL", "DECLARE"}
  <2>1. Registered(f) = reg
    BY <1>6 DEF Registered
  <2> QED
    BY <2>1 DEF ListTyped
<1> QED
  BY <1>2, <1>3, <1>4, <1>5, <1>6

LEMMA EffectsTyped ==
  ASSUME TInv, IInv, Effects
  PROVE  TInv'
<1>1. /\ io.pc = "effects" /\ io'.pc = "idle" /\ reg' = Registered(io.frame)
      /\ Len(down) < MaxLine /\ down' = down \o Replies(io.frame)
      /\ UNCHANGED <<node, up, db, hist, job, last, doubt, patches, faults>>
  BY DEF Effects
<1>2. ListTyped'
  BY <1>1, RegisteredTyped DEF TInv, IInv, InHandTyped, ListTyped
<1>3. DownTyped'
  <2>1. \/ down' = down
        \/ \E r : r.kind \in {"CONNECTED", "DECLARED"} /\ down' = Append(down, r)
    BY <1>1, RepliesShape DEF TInv, DownTyped
  <2>2. down' = down \/ (Len(down) < MaxLine /\ \E r : Patching(r) /\ down' = Append(down, r))
    BY <2>1, <1>1 DEF Patching
  <2> QED
    BY <2>2, DownTypedKept, TablesAssumption DEF TInv
<1>4. NodeTyped' /\ TablesTyped' /\ InHandTyped' /\ JobTyped' /\ CountsTyped'
  BY <1>1 DEF TInv, NodeTyped, TablesTyped, InHandTyped, JobTyped, CountsTyped
<1>5. UpTyped'
  BY <1>1, UpTypedKept, TablesAssumption DEF TInv
<1> QED
  BY <1>2, <1>3, <1>4, <1>5 DEF TInv

LEMMA ReadRowTyped ==
  ASSUME TInv, NEW d \in Devs, NEW field \in Fields, NEW val \in Vals(field), ReadRow(d, field, val)
  PROVE  TInv'
<1>1. /\ job' = [pc |-> "look", n |-> patches', dev |-> d, field |-> field, val |-> val,
                 row |-> db.row[d]]
      /\ d \in DOMAIN db.row /\ patches < MaxPatches /\ patches' = patches + 1
      /\ UNCHANGED <<node, up, down, db, hist, made, reg, io, last, doubt, faults>>
  BY DEF ReadRow, ends
<1>2. JobTyped'
  <2>1. db.row[d] \in Rows
    BY <1>1 DEF TInv, TablesTyped, Partial
  <2>2. /\ job'.pc = "look" /\ DOMAIN job' = {"pc", "n", "dev", "field", "val", "row"}
        /\ job'.dev = d /\ job'.field = field /\ job'.val = val /\ job'.row = db.row[d]
    BY <1>1
  <2> QED
    BY <2>1, <2>2 DEF JobTyped
<1>3. CountsTyped'
  BY <1>1, TablesAssumption DEF TInv, CountsTyped
<1>4. NodeTyped' /\ TablesTyped' /\ ListTyped' /\ InHandTyped' /\ DownTyped' /\ UpTyped'
  BY <1>1 DEF TInv, NodeTyped, TablesTyped, ListTyped, InHandTyped, DownTyped, UpTyped, IsSeq
<1> QED
  BY <1>2, <1>3, <1>4 DEF TInv

\* What a PATCH sends is a property, of the device it is for.
LEMMA PatchTyped ==
  ASSUME TInv, job.pc # "idle", job.dev \in DOMAIN reg.list
  PROVE  FullProperty(reg.list[job.dev], job.row, job.field, job.val) \in Property
<1> DEFINE id == reg.list[job.dev]
           p  == FullProperty(id, job.row, job.field, job.val)
<1>1. id.type \in Kinds /\ id.sub \in Subtypes
  BY DEF TInv, ListTyped, Partial, Ids
<1>2. job.row.period \in Periods /\ job.row.limit \in Level
  BY DEF TInv, JobTyped, Rows
<1>3. job.field = "period" => job.val \in Periods
  BY DEF TInv, JobTyped, Vals
<1>4. job.field = "value" => job.val \in Level
  BY DEF TInv, JobTyped, Vals
<1>5. 0 \in Level
  BY TablesAssumption DEF Level
<1> HIDE DEF id
<1>6. p = [type |-> id.type, sub |-> id.sub,
           period |-> IF job.field = "period" THEN job.val ELSE job.row.period,
           value |-> IF job.field = "value" THEN job.val ELSE job.row.limit, limit |-> 0]
  BY DEF FullProperty
<1>7. p \in Property
  BY <1>1, <1>2, <1>3, <1>4, <1>5, <1>6 DEF Property
<1> QED
  BY <1>7 DEF id

\* The frame of a PATCH.
Patch(id) == [Frame("PATCH", [d \in {job.dev} |-> FullProperty(id, job.row, job.field, job.val)]) EXCEPT !.n = job.n]

LEMMA PatchShape ==
  ASSUME NEW id
  PROVE  /\ Patch(id).kind = "PATCH" /\ DOMAIN Patch(id).elems = {job.dev}
         /\ Patch(id).elems[job.dev] = FullProperty(id, job.row, job.field, job.val)
<1> DEFINE p == FullProperty(id, job.row, job.field, job.val)
<1> HIDE DEF p
<1>1. DOMAIN [d \in {job.dev} |-> p] = {job.dev} /\ [d \in {job.dev} |-> p][job.dev] = p
  OBVIOUS
<1>2. Patch(id).kind = "PATCH" /\ Patch(id).elems = [d \in {job.dev} |-> p]
  BY DEF Patch, Frame, p
<1> QED
  BY <1>1, <1>2 DEF p

LEMMA SendTyped ==
  ASSUME TInv, Send
  PROVE  TInv'
<1>1. /\ job.pc = "look"
      /\ UNCHANGED <<node, up, db, hist, made, reg, io, last, doubt, patches, faults>>
  BY DEF Send, ends
<1>2. JobTyped' /\ DownTyped'
  <2>1. CASE job.dev \notin DOMAIN reg.list
    <3>1. job' = NoJob /\ down' = down
      BY <2>1 DEF Send
    <3> QED
      BY <3>1 DEF TInv, JobTyped, NoJob, DownTyped, IsSeq
  <2>2. CASE job.dev \in DOMAIN reg.list
    <3>1. /\ Len(down) < MaxLine /\ down' = Append(down, Patch(reg.list[job.dev]))
          /\ job' = [job EXCEPT !.pc = "wait"]
      BY <2>2 DEF Send, Patch
    <3>2. Patching(Patch(reg.list[job.dev]))
      <4>1. job.dev \in Devs
        BY <1>1 DEF TInv, JobTyped
      <4>2. FullProperty(reg.list[job.dev], job.row, job.field, job.val) \in Property
        BY <1>1, <2>2, PatchTyped
      <4> QED
        BY <4>1, <4>2, PatchShape DEF Patching
    <3>3. DownTyped'
      BY <3>1, <3>2, DownTypedKept, TablesAssumption DEF TInv
    <3>4. JobTyped'
      BY <3>1, <1>1 DEF TInv, JobTyped
    <3> QED
      BY <3>3, <3>4
  <2> QED
    BY <2>1, <2>2
<1>3. NodeTyped' /\ TablesTyped' /\ ListTyped' /\ InHandTyped' /\ UpTyped' /\ CountsTyped'
  BY <1>1 DEF TInv, NodeTyped, TablesTyped, ListTyped, InHandTyped, UpTyped, IsSeq, CountsTyped
<1> QED
  BY <1>2, <1>3 DEF TInv

LEMMA ReceiveAckTyped ==
  ASSUME TInv, ReceiveAck
  PROVE  TInv'
<1>1. /\ up # << >> /\ up' = Tail(up)
      /\ UNCHANGED <<node, down, db, hist, made, reg, io, doubt, patches, faults>>
  BY DEF ReceiveAck, ends
<1>2. UpTyped'
  BY <1>1, UpTypedKept, TablesAssumption DEF TInv
<1>3. JobTyped' /\ Partial(last', Devs, Periods)
  <2>1. CASE UNCHANGED <<job, last>>
    BY <2>1 DEF TInv, JobTyped, TablesTyped
  <2>2. CASE /\ job.pc = "wait" /\ job' = [job EXCEPT !.pc = "update"]
             /\ last' = IF job.field = "period" THEN Put(last, job.dev, job.val) ELSE last
    <3>1. JobTyped'
      BY <2>2 DEF TInv, JobTyped
    <3>2. CASE job.field = "period"
      <4>1. job.val \in Periods /\ job.dev \in Devs
        BY <2>2, <3>2 DEF TInv, JobTyped, Vals
      <4> QED
        BY <4>1, <3>1, <3>2, <2>2, PutTyped DEF TInv, TablesTyped
    <3> QED
      BY <3>1, <3>2, <2>2 DEF TInv, TablesTyped
  <2> QED
    BY <2>1, <2>2 DEF ReceiveAck
<1>4. NodeTyped' /\ TablesTyped' /\ ListTyped' /\ InHandTyped' /\ DownTyped' /\ CountsTyped'
  BY <1>1, <1>3 DEF TInv, NodeTyped, TablesTyped, ListTyped, InHandTyped, DownTyped, IsSeq, CountsTyped
<1> QED
  BY <1>2, <1>3, <1>4 DEF TInv

LEMMA GiveUpTyped ==
  ASSUME TInv, GiveUp
  PROVE  TInv'
<1>1. /\ job' = NoJob /\ doubt' = TRUE
      /\ UNCHANGED <<node, up, down, db, hist, made, reg, io, last, patches, faults>>
  BY DEF GiveUp, ends
<1>2. JobTyped' /\ CountsTyped'
  BY <1>1 DEF TInv, JobTyped, NoJob, CountsTyped
<1>3. NodeTyped' /\ TablesTyped' /\ ListTyped' /\ InHandTyped' /\ UpTyped' /\ DownTyped'
  BY <1>1 DEF TInv, NodeTyped, TablesTyped, ListTyped, InHandTyped, UpTyped, DownTyped, IsSeq
<1> QED
  BY <1>2, <1>3 DEF TInv

LEMMA UpdateTyped ==
  ASSUME TInv, IInv, Update
  PROVE  TInv'
<1> DEFINE row == Column(db.row[job.dev], job.field, job.val)
<1>1. /\ job.pc = "update" /\ job' = NoJob
      /\ db'.row = Put(db.row, job.dev, row) /\ db'.info = db.info
      /\ hist' = hist \/ hist' = Put(hist, job.dev, [hist[job.dev] EXCEPT !.period = row.period])
      /\ UNCHANGED <<node, up, down, made, reg, io, last, doubt, patches, faults>>
  BY DEF Update, IInv, Columns, LogChange
<1>2. job.dev \in Devs /\ job.dev \in DOMAIN db.row /\ job.dev \in DOMAIN hist
  BY <1>1 DEF TInv, JobTyped, IInv, JobInstalled, HistoryReplays
<1>3. row \in Rows
  <2>1. db.row[job.dev] \in Rows
    BY <1>2 DEF TInv, TablesTyped, Partial
  <2>2. job.field = "period" => job.val \in Periods
    BY <1>1 DEF TInv, JobTyped, Vals
  <2>3. job.field # "period" => job.val \in Level
    BY <1>1 DEF TInv, JobTyped, Vals
  <2> QED
    BY <2>1, <2>2, <2>3 DEF Column, Rows
<1> HIDE DEF row
<1>4. Partial(db'.row, Devs, Rows)
  BY <1>1, <1>2, <1>3, PutTyped DEF TInv, TablesTyped
<1>5. Partial(hist', Devs, [model : Subtypes, sub : Subtypes, period : Periods])
  <2>1. hist[job.dev] \in [model : Subtypes, sub : Subtypes, period : Periods]
    BY <1>2 DEF TInv, TablesTyped, Partial
  <2>2. row.period \in Periods
    BY <1>3 DEF Rows
  <2>3. [hist[job.dev] EXCEPT !.period = row.period]
          \in [model : Subtypes, sub : Subtypes, period : Periods]
    BY <2>1, <2>2
  <2>4. Partial(hist, Devs, [model : Subtypes, sub : Subtypes, period : Periods])
    BY DEF TInv, TablesTyped
  <2>5. Partial(Put(hist, job.dev, [hist[job.dev] EXCEPT !.period = row.period]), Devs,
                [model : Subtypes, sub : Subtypes, period : Periods])
    BY <2>3, <2>4, <1>2, PutTyped
  <2> QED
    BY <2>4, <2>5, <1>1
<1>6. TablesTyped' /\ JobTyped'
  BY <1>1, <1>4, <1>5 DEF TInv, TablesTyped, JobTyped, NoJob
<1>7. NodeTyped' /\ ListTyped' /\ InHandTyped' /\ UpTyped' /\ DownTyped' /\ CountsTyped'
  BY <1>1 DEF TInv, NodeTyped, ListTyped, InHandTyped, UpTyped, DownTyped, IsSeq, CountsTyped
<1> QED
  BY <1>6, <1>7 DEF TInv

LEMMA RestartTyped ==
  ASSUME TInv, IInv, Restart
  PROVE  TInv'
<1>1. /\ reg' = [known |-> FALSE, list |-> << >>] /\ io'.pc = "idle" /\ job' = NoJob
      /\ down' = << >> /\ doubt' = TRUE /\ faults < MaxFaults /\ faults' = faults + 1
      /\ last' = (IF job.pc = "update" THEN Put(last, job.dev, db.row[job.dev].period) ELSE last)
      /\ UNCHANGED <<node, up, db, hist, patches>>
  BY DEF Restart
<1>2. ListTyped' /\ InHandTyped' /\ JobTyped' /\ CountsTyped'
  BY <1>1, NothingTyped, TablesAssumption
  DEF TInv, ListTyped, InHandTyped, JobTyped, NoJob, CountsTyped
<1>3. Partial(last', Devs, Periods)
  <2>1. CASE job.pc = "update"
    <3>1. job.dev \in Devs /\ db.row[job.dev] \in Rows
      BY <2>1 DEF TInv, JobTyped, TablesTyped, Partial, IInv, JobInstalled
    <3>2. db.row[job.dev].period \in Periods
      BY <3>1 DEF Rows
    <3> QED
      BY <3>1, <3>2, <2>1, <1>1, PutTyped DEF TInv, TablesTyped
  <2>2. CASE job.pc # "update"
    BY <2>2, <1>1 DEF TInv, TablesTyped
  <2> QED
    BY <2>1, <2>2
<1>4. TablesTyped' /\ NodeTyped'
  BY <1>1, <1>3 DEF TInv, TablesTyped, NodeTyped
<1>5. UpTyped' /\ DownTyped'
  BY <1>1, UpTypedKept, DownTypedKept, TablesAssumption DEF TInv
<1> QED
  BY <1>2, <1>4, <1>5 DEF TInv

-----------------------------------------------------------------------------
(* The steps of the node and of the line.                                   *)

LEMMA FrameFields ==
  ASSUME NEW kind, NEW elems
  PROVE  /\ Frame(kind, elems).kind = kind /\ Frame(kind, elems).elems = elems
         /\ Bare(kind).kind = kind
  BY DEF Frame, Bare

\* What else a node or the line changes, it changes within its type.
LEMMA SideTyped ==
  ASSUME TInv, NodeSide, NodeTyped', CountsTyped', UpTyped', DownTyped'
  PROVE  TInv'
<1>1. UNCHANGED <<db, hist, made, reg, io, job, last>>
  BY DEF NodeSide, ends
<1>2. TablesTyped' /\ ListTyped' /\ InHandTyped' /\ JobTyped'
  BY <1>1 DEF TInv, TablesTyped, ListTyped, InHandTyped, JobTyped
<1> QED
  BY <1>2 DEF TInv

LEMMA ConnectTyped ==
  ASSUME TInv, NEW cfg, NEW build, Connect(cfg, build, "connecting"),
         Partial(cfg, Devs, Property), Partial(build, Devs, Property),
         down' = << >> \/ down' = down
  PROVE  TInv'
<1>1. /\ Len(up) < MaxLine /\ up' = Append(up, Bare("CONNECT")) /\ NodeSide
      /\ node' = [state |-> "connecting", build |-> build, cfg |-> cfg]
      /\ faults < MaxFaults /\ faults' = faults + 1 /\ doubt' = TRUE
  BY DEF Connect, Room
<1>2. Whole(Bare("CONNECT"))
  BY FrameFields DEF Whole, Declarations
<1>3. UpTyped' /\ DownTyped'
  BY <1>1, <1>2, UpTypedKept, DownTypedKept, TablesAssumption DEF TInv
<1>4. patches' = patches
  BY <1>1 DEF NodeSide
<1>5. NodeTyped' /\ CountsTyped'
  BY <1>1, <1>4, TablesAssumption DEF TInv, NodeTyped, CountsTyped
<1> QED
  BY <1>1, <1>3, <1>5, SideTyped

LEMMA ResendTyped ==
  ASSUME TInv, Resend
  PROVE  TInv'
<1>1. /\ Len(up) < MaxLine /\ faults < MaxFaults /\ faults' = faults + 1
      /\ UNCHANGED <<node, down, doubt, patches>> /\ NodeSide
      /\ up' = Append(up, Bare("CONNECT")) \/ up' = Append(up, Frame("DECLARE_ALL", node.cfg))
  BY DEF Resend, Room, NodeSide
<1>2. Whole(Bare("CONNECT"))
  BY FrameFields DEF Whole, Declarations
<1>3. Whole(Frame("DECLARE_ALL", node.cfg))
  BY FrameFields DEF Whole, TInv, NodeTyped
<1>4. \E f : Whole(f) /\ up' = Append(up, f)
  BY <1>1, <1>2, <1>3
<1>5. UpTyped' /\ DownTyped'
  BY <1>1, <1>4, UpTypedKept, DownTypedKept, TablesAssumption DEF TInv
<1>6. NodeTyped' /\ CountsTyped'
  BY <1>1, TablesAssumption DEF TInv, NodeTyped, CountsTyped
<1> QED
  BY <1>1, <1>5, <1>6, SideTyped

\* A step of the node that leaves its settings.
LEMMA NodeStepTyped ==
  ASSUME TInv, NodeSide, UNCHANGED <<doubt, faults>>,
         node' = node \/ \E s \in {"off", "declaring", "running"} : node' = [node EXCEPT !.state = s],
         \/ up' = up
         \/ Len(up) < MaxLine /\ \E f : Whole(f) /\ up' = Append(up, f),
         down' = down \/ (down # << >> /\ down' = Tail(down))
  PROVE  TInv'
<1>1. patches' = patches
  BY DEF NodeSide
<1>2. NodeTyped' /\ CountsTyped'
  BY <1>1 DEF TInv, NodeTyped, CountsTyped
<1>3. UpTyped' /\ DownTyped'
  BY UpTypedKept, DownTypedKept, TablesAssumption DEF TInv
<1> QED
  BY <1>2, <1>3, SideTyped

LEMMA SaysTyped ==
  ASSUME TInv, NEW f, Whole(f), Says(f)
  PROVE  TInv'
  BY NodeStepTyped DEF Says, Room

\* What a node does with a PATCH of a device it has.
LEMMA ObeysShape ==
  ASSUME NEW f, NEW d, DOMAIN f.elems = {d}, Obeys(f)
  PROVE  \/ /\ Running /\ d \in DOMAIN node.cfg
            /\ up' = Append(up, [Bare("ACK") EXCEPT !.n = f.n])
            /\ node' = [node EXCEPT !.cfg[d] = f.elems[d]]
         \/ ~(Running /\ d \in DOMAIN node.cfg) /\ UNCHANGED <<up, node>>
<1>1. (CHOOSE k \in DOMAIN f.elems : TRUE) = d
  <2>1. (CHOOSE k \in {d} : TRUE) = d
    OBVIOUS
  <2> QED
    BY <2>1
<1>2. CASE Running /\ d \in DOMAIN node.cfg
  BY <1>1, <1>2 DEF Obeys
<1>3. CASE ~(Running /\ d \in DOMAIN node.cfg)
  BY <1>1, <1>3 DEF Obeys
<1> QED
  BY <1>2, <1>3

LEMMA NodeReceivesTyped ==
  ASSUME TInv, NodeReceives
  PROVE  TInv'
<1> DEFINE f == Head(down)
<1>1. /\ down # << >> /\ down' = Tail(down) /\ Len(up) < MaxLine
      /\ NodeSide /\ UNCHANGED <<doubt, faults, patches>>
  BY DEF NodeReceives, Room, NodeSide
<1>2. Patching(f)
  <2>1. f = down[1] /\ 1 \in DOMAIN down
    BY <1>1, TailShape DEF TInv, DownTyped
  <2> QED
    BY <2>1 DEF TInv, DownTyped
<1>3. CASE f.kind = "PATCH" /\ Obeys(f)
  <2> HIDE DEF f
  <2>1. PICK d \in Devs : DOMAIN f.elems = {d} /\ f.elems[d] \in Property
    BY <1>2, <1>3 DEF Patching
  <2>2. CASE UNCHANGED <<up, node>>
    BY <2>2, <1>1, NodeStepTyped
  <2>3. CASE /\ d \in DOMAIN node.cfg
             /\ up' = Append(up, [Bare("ACK") EXCEPT !.n = f.n])
             /\ node' = [node EXCEPT !.cfg[d] = f.elems[d]]
    <3>1. Whole([Bare("ACK") EXCEPT !.n = f.n])
      BY DEF Whole, Bare, Frame, Declarations
    <3>2. UpTyped' /\ DownTyped'
      BY <1>1, <2>3, <3>1, UpTypedKept, DownTypedKept, TablesAssumption DEF TInv
    <3>3. NodeTyped'
      <4>1. /\ DOMAIN node' = DOMAIN node /\ node'.state = node.state /\ node'.build = node.build
            /\ node'.cfg = [node.cfg EXCEPT ![d] = f.elems[d]]
        BY <2>3 DEF TInv, NodeTyped
      <4>2. Partial(node'.cfg, Devs, Property)
        BY <4>1, <2>1 DEF TInv, NodeTyped, Partial
      <4> QED
        BY <4>1, <4>2 DEF TInv, NodeTyped
    <3>4. CountsTyped'
      BY <1>1 DEF TInv, CountsTyped
    <3> QED
      BY <1>1, <3>2, <3>3, <3>4, SideTyped
  <2> QED
    BY <2>1, <2>2, <2>3, <1>3, ObeysShape
<1>4. CASE /\ up' = Append(up, Frame("DECLARE_ALL", node.cfg))
           /\ node' = [node EXCEPT !.state = "declaring"]
  <2>1. Whole(Frame("DECLARE_ALL", node.cfg))
    BY FrameFields DEF Whole, TInv, NodeTyped
  <2> QED
    BY <1>1, <1>4, <2>1, NodeStepTyped
<1>5. CASE node' = [node EXCEPT !.state = "running"] /\ UNCHANGED up
  BY <1>1, <1>5, NodeStepTyped
<1>6. CASE UNCHANGED <<node, up>>
  BY <1>1, <1>6, NodeStepTyped
<1> QED
  BY <1>3, <1>4, <1>5, <1>6 DEF NodeReceives

LEMMA LoseTyped ==
  ASSUME TInv, Lose
  PROVE  TInv'
<1>1. /\ faults < MaxFaults /\ faults' = faults + 1 /\ UNCHANGED <<node, doubt, patches>> /\ NodeSide
      /\ \/ up # << >> /\ up' = Tail(up) /\ down' = down
         \/ down # << >> /\ down' = Tail(down) /\ up' = up
  BY DEF Lose, NodeSide
<1>2. UpTyped' /\ DownTyped'
  BY <1>1, UpTypedKept, DownTypedKept, TablesAssumption DEF TInv
<1>3. NodeTyped' /\ CountsTyped'
  BY <1>1, TablesAssumption DEF TInv, NodeTyped, CountsTyped
<1> QED
  BY <1>1, <1>2, <1>3, SideTyped

LEMMA NodeSpeaksTyped ==
  ASSUME TInv,
         \/ \E S, val : Measure(S, val)
         \/ \E d \in Devs : DeclareSome(d)
         \/ Complain \/ Leave \/ Unanswered
  PROVE  TInv'
<1>1. ASSUME NEW S, NEW val, Measure(S, val) PROVE TInv'
  <2>1. PICK g : Says(Frame("VALUES", g))
    BY <1>1 DEF Measure
  <2>2. Whole(Frame("VALUES", g))
    BY FrameFields DEF Whole, Declarations
  <2> QED
    BY <2>1, <2>2, SaysTyped
<1>2. ASSUME NEW d \in Devs, DeclareSome(d) PROVE TInv'
  <2>1. d \in DOMAIN node.cfg /\ Says(Frame("DECLARE", [k \in {d} |-> node.cfg[d]]))
    BY <1>2 DEF DeclareSome
  <2>2. Partial([k \in {d} |-> node.cfg[d]], Devs, Property)
    <3>1. node.cfg[d] \in Property
      BY <2>1 DEF TInv, NodeTyped, Partial
    <3>2. PICK x : x = node.cfg[d]
      OBVIOUS
    <3>3. DOMAIN [k \in {d} |-> x] = {d} /\ [k \in {d} |-> x][d] = x
      OBVIOUS
    <3> QED
      BY <3>1, <3>2, <3>3 DEF Partial
  <2>3. Whole(Frame("DECLARE", [k \in {d} |-> node.cfg[d]]))
    BY <2>2, FrameFields DEF Whole
  <2> QED
    BY <2>1, <2>3, SaysTyped
<1>3. CASE Complain
  <2>1. Whole(Bare("ERROR"))
    BY FrameFields DEF Whole, Declarations
  <2> QED
    BY <1>3, <2>1, SaysTyped DEF Complain
<1>4. CASE Leave
  <2>1. Whole(Bare("DISCONNECT"))
    BY FrameFields DEF Whole, Declarations
  <2> QED
    BY <1>4, <2>1, NodeStepTyped DEF Leave, Room
<1>5. CASE Unanswered
  BY <1>5, NodeStepTyped DEF Unanswered
<1> QED
  BY <1>1, <1>2, <1>3, <1>4, <1>5

LEMMA NextTyped == TInv /\ IInv /\ [Next]_vars => TInv'
<1> SUFFICES ASSUME TInv, IInv, [Next]_vars
             PROVE  TInv'
  OBVIOUS
<1>1. CASE UNCHANGED vars
  <2>1. NodeSide /\ UNCHANGED <<node, up, down, doubt, patches, faults>>
    BY <1>1 DEF vars, NodeSide
  <2>2. UpTyped' /\ DownTyped'
    BY <2>1, UpTypedKept, DownTypedKept, TablesAssumption DEF TInv
  <2>3. NodeTyped' /\ CountsTyped'
    BY <2>1 DEF TInv, NodeTyped, CountsTyped
  <2> QED
    BY <2>1, <2>2, <2>3, SideTyped
<1>2. CASE Ingest \/ Effects \/ ReceiveAck \/ Send \/ GiveUp \/ Update \/ Restart
  BY <1>2, IngestTyped, EffectsTyped, ReceiveAckTyped, SendTyped, GiveUpTyped, UpdateTyped, RestartTyped
<1>3. CASE \E d \in Devs, field \in Fields : \E val \in Vals(field) : ReadRow(d, field, val)
  BY <1>3, ReadRowTyped
<1>4. ASSUME NEW b \in Builds, PowerUp(b) PROVE TInv'
  <2>1. Connect(b, b, "connecting") /\ down' = << >> /\ Partial(b, Devs, Property)
    BY <1>4, TablesAssumption DEF PowerUp
  <2> QED
    BY <2>1, ConnectTyped
<1>5. CASE Reconnect
  BY <1>5, ConnectTyped DEF Reconnect, TInv, NodeTyped
<1>6. CASE Resend \/ NodeReceives \/ Lose
  BY <1>6, ResendTyped, NodeReceivesTyped, LoseTyped
<1>7. CASE \/ \E S \in SUBSET Devs : \E val \in Level \cup {NaN} : Measure(S, val)
           \/ \E d \in Devs : DeclareSome(d)
           \/ Complain \/ Leave \/ Unanswered
  BY <1>7, NodeSpeaksTyped
<1> QED
  BY <1>1, <1>2, <1>3, <1>4, <1>5, <1>6, <1>7 DEF Next

LEMMA TypesInvariant == Spec => []TInv
<1>1. Init => TInv
  <2> SUFFICES ASSUME Init PROVE TInv
    OBVIOUS
  <2>1. UpTyped /\ DownTyped
    <3>1. up = << >> /\ down = << >>
      BY DEF Init
    <3>2. IsSeq(up) /\ IsSeq(down)
      BY <3>1, EmptyIsSeq
    <3>3. Len(up) = 0 /\ DOMAIN up = {} /\ Len(down) = 0 /\ DOMAIN down = {}
      BY <3>1
    <3> QED
      BY <3>2, <3>3, TablesAssumption DEF UpTyped, DownTyped
  <2>2. NodeTyped /\ TablesTyped /\ ListTyped
    BY NothingTyped DEF Init, NodeTyped, TablesTyped, ListTyped
  <2>3. InHandTyped /\ JobTyped /\ CountsTyped
    BY TablesAssumption DEF Init, InHandTyped, JobTyped, NoJob, CountsTyped
  <2> QED
    BY <2>1, <2>2, <2>3 DEF TInv
<1> QED
  BY <1>1, NextTyped, TablesInvariant, PTL DEF Spec

\* Rows, log, list, requests and settings hold values of their columns, and the
\* lines keep within their bound, whatever is declared and patched.
THEOREM TypesHold == Spec => []TypeOK
<1>1. TInv => TypeOK
  BY DEF TInv, TypeOK, NodeTyped, TablesTyped, ListTyped, InHandTyped, JobTyped, UpTyped, DownTyped,
         CountsTyped
<1> QED
  BY <1>1, TypesInvariant, PTL

-----------------------------------------------------------------------------
(* Agreement, while no fault came after the last full declaration.          *)

Settled == ~doubt /\ node.state \in {"declaring", "running"}

\* The list of the registry, or the one that a committed frame will make it.
NextList == IF io.pc = "effects" THEN Registered(io.frame).list ELSE reg.list

\* The setting that a request under way is about to change.
Asked(d) == job.pc \in {"wait", "update"} /\ job.field = "period" /\ d = job.dev

Acks == { i \in DOMAIN up : up[i].kind = "ACK" }
Asks == { i \in DOMAIN down : down[i].kind = "PATCH" }

\* Place i of the line comes after the answer of the node.
AfterAnswer(i) == job.pc = "update" \/ \E j \in Acks : j < i

Same(e, d) == Identity(e) = Identity(node.cfg[d])

\* Only CONNECT follows while a node connects, which is what keeps an older
\* declaration from settling anything.
Connecting ==
  node.state = "connecting" => doubt /\ (up # << >> => up[Len(up)].kind = "CONNECT")

Quiet == \A i \in DOMAIN up : up[i].kind \notin {"CONNECT", "DISCONNECT"}

ListAgrees == \A d \in DOMAIN node.cfg : d \in DOMAIN NextList /\ NextList[d] = Identity(node.cfg[d])

RowsAgree ==
  \A d \in DOMAIN node.cfg : TypeFits(node.cfg[d]) =>
    /\ d \in DOMAIN db.row /\ db.row[d].sub = node.cfg[d].sub
    /\ Asked(d) \/ db.row[d].period = node.cfg[d].period

\* What frame f declares of d is what the node has; its setting only unless an
\* answer is to come first.
TellsOf(f, d, late) ==
  /\ Same(f.elems[d], d)
  /\ TypeFits(node.cfg[d]) /\ (Asked(d) => late) => f.elems[d].period = node.cfg[d].period

Tells(f, late) ==
  /\ DOMAIN f.elems \subseteq DOMAIN node.cfg
  /\ f.kind = "DECLARE_ALL" => DOMAIN f.elems = DOMAIN node.cfg
  /\ \A d \in DOMAIN f.elems : TellsOf(f, d, late)

LineAgrees == \A i \in DOMAIN up : up[i].kind \in Declarations => Tells(up[i], AfterAnswer(i))

\* A request or its answer is on the line once, and only while it is waited for.
AskedOnce ==
  /\ Acks # {} \/ Asks # {} => job.pc = "wait"
  /\ Acks = {} \/ Asks = {}
  /\ \A i, j \in Acks : i = j
  /\ \A i, j \in Asks : i = j

\* What request f will make of the device.
Requests(f) ==
  /\ DOMAIN f.elems = {job.dev}
  /\ job.dev \in DOMAIN node.cfg => Same(f.elems[job.dev], job.dev)
  /\ f.elems[job.dev].period = IF job.field = "period" THEN job.val ELSE job.row.period

AskAgrees == \A i \in Asks : Requests(down[i])

\* What an answered request has made of it.
AnswerAgrees ==
  Acks # {} \/ job.pc = "update" =>
    job.dev \in DOMAIN node.cfg /\ (job.field = "period" => node.cfg[job.dev].period = job.val)

\* A setting that a request leaves is as it was read.
KeptAgrees ==
  job.pc # "idle" /\ job.field # "period" =>
    (job.dev \in DOMAIN node.cfg /\ TypeFits(node.cfg[job.dev]) =>
       job.row.period = node.cfg[job.dev].period)

Agreement ==
  /\ Quiet /\ ListAgrees /\ RowsAgree /\ LineAgrees
  /\ AskedOnce /\ AskAgrees /\ AnswerAgrees /\ KeptAgrees

AInv == Connecting /\ (Settled => Agreement)

-----------------------------------------------------------------------------
(* Lines on which only calm frames follow.                                  *)

\* A frame that neither connects nor answers, and declares what the node has.
Calm(f) ==
  /\ f.kind \notin {"CONNECT", "DISCONNECT", "ACK"}
  /\ f.kind \in Declarations =>
       /\ DOMAIN f.elems \subseteq DOMAIN node.cfg
       /\ f.kind = "DECLARE_ALL" => f.elems = node.cfg
       /\ \A d \in DOMAIN f.elems : f.elems[d] = node.cfg[d]

\* What is on the line was there before, k places further, or is calm.
UpCalm(k)   == \A i \in DOMAIN up' : (i + k \in DOMAIN up /\ up'[i] = up[i + k]) \/ Calm(up'[i])
DownCalm(k) ==
  \A i \in DOMAIN down' :
    (i + k \in DOMAIN down /\ down'[i] = down[i + k]) \/ down'[i].kind # "PATCH"

LEMMA UpIsCalm ==
  ASSUME UpTyped,
         \/ up' = up
         \/ up # << >> /\ up' = Tail(up)
         \/ \E f : Calm(f) /\ up' = Append(up, f)
  PROVE  DOMAIN up' \subseteq Nat /\ \E k \in {0, 1} : UpCalm(k)
<1>0. Len(up) \in Nat /\ DOMAIN up = 1..Len(up)
  BY SeqShape DEF UpTyped
<1>1. CASE up' = up
  <2>1. UpCalm(0)
    BY <1>0, <1>1 DEF UpCalm
  <2> QED
    BY <2>1, <1>0, <1>1
<1>2. CASE up # << >> /\ up' = Tail(up)
  <2>1. /\ Len(up) \in Nat /\ DOMAIN up' = 1..(Len(up) - 1)
        /\ \A i \in DOMAIN up' : i + 1 \in DOMAIN up /\ up'[i] = up[i + 1]
    BY <1>2, TailShape DEF UpTyped
  <2>2. UpCalm(1)
    BY <2>1 DEF UpCalm
  <2>3. DOMAIN up' \subseteq Nat
    BY <2>1
  <2> QED
    BY <2>2, <2>3
<1>3. ASSUME NEW f, Calm(f), up' = Append(up, f)
      PROVE  DOMAIN up' \subseteq Nat /\ \E k \in {0, 1} : UpCalm(k)
  <2>1. /\ DOMAIN up' = 1..(Len(up) + 1)
        /\ \A i \in DOMAIN up : up'[i] = up[i]
        /\ up'[Len(up) + 1] = f
    BY <1>3, AppendShape DEF UpTyped
  <2>2. ASSUME NEW i \in DOMAIN up'
        PROVE  (i + 0 \in DOMAIN up /\ up'[i] = up[i + 0]) \/ Calm(up'[i])
    <3>1. i \in 1..(Len(up) + 1)
      BY <2>1, <2>2
    <3>2. i \in DOMAIN up \/ i = Len(up) + 1
      BY <3>1, <1>0
    <3>3. i + 0 = i
      BY <3>1, <1>0
    <3> QED
      BY <3>2, <3>3, <2>1, <1>3
  <2>3. UpCalm(0)
    BY <2>2 DEF UpCalm
  <2>4. DOMAIN up' \subseteq Nat
    <3>1. DOMAIN up' = 1..(Len(up) + 1) /\ Len(up) \in Nat
      BY <1>0, <2>1, ZenonT(40)
    <3> QED
      BY <3>1, SMTT(30)
  <2> QED
    BY <2>3, <2>4
<1> QED
  BY <1>1, <1>2, <1>3

LEMMA DownIsCalm ==
  ASSUME DownTyped,
         \/ down' = down
         \/ down # << >> /\ down' = Tail(down)
         \/ \E f : f.kind # "PATCH" /\ down' = Append(down, f)
  PROVE  DOMAIN down' \subseteq Nat /\ \E k \in {0, 1} : DownCalm(k)
<1>0. Len(down) \in Nat /\ DOMAIN down = 1..Len(down)
  BY SeqShape DEF DownTyped
<1>1. CASE down' = down
  <2>1. DownCalm(0)
    BY <1>0, <1>1 DEF DownCalm
  <2> QED
    BY <2>1, <1>0, <1>1
<1>2. CASE down # << >> /\ down' = Tail(down)
  <2>1. /\ Len(down) \in Nat /\ DOMAIN down' = 1..(Len(down) - 1)
        /\ \A i \in DOMAIN down' : i + 1 \in DOMAIN down /\ down'[i] = down[i + 1]
    BY <1>2, TailShape DEF DownTyped
  <2>2. DownCalm(1)
    BY <2>1 DEF DownCalm
  <2>3. DOMAIN down' \subseteq Nat
    BY <2>1
  <2> QED
    BY <2>2, <2>3
<1>3. ASSUME NEW f, f.kind # "PATCH", down' = Append(down, f)
      PROVE  DOMAIN down' \subseteq Nat /\ \E k \in {0, 1} : DownCalm(k)
  <2>1. /\ DOMAIN down' = 1..(Len(down) + 1)
        /\ \A i \in DOMAIN down : down'[i] = down[i]
        /\ down'[Len(down) + 1] = f
    BY <1>3, AppendShape DEF DownTyped
  <2>2. ASSUME NEW i \in DOMAIN down'
        PROVE  (i + 0 \in DOMAIN down /\ down'[i] = down[i + 0]) \/ down'[i].kind # "PATCH"
    <3>1. i \in 1..(Len(down) + 1)
      BY <2>1, <2>2
    <3>2. i \in DOMAIN down \/ i = Len(down) + 1
      BY <3>1, <1>0
    <3>3. i + 0 = i
      BY <3>1, <1>0
    <3> QED
      BY <3>2, <3>3, <2>1, <1>3
  <2>3. DownCalm(0)
    BY <2>2 DEF DownCalm
  <2>4. DOMAIN down' \subseteq Nat
    <3>1. DOMAIN down' = 1..(Len(down) + 1) /\ Len(down) \in Nat
      BY <1>0, <2>1, ZenonT(40)
    <3> QED
      BY <3>1, SMTT(30)
  <2> QED
    BY <2>3, <2>4
<1> QED
  BY <1>1, <1>2, <1>3

\* What the lines say agrees as long as only calm frames come after it.
LEMMA CalmLines ==
  ASSUME TInv, Agreement, node'.cfg = node.cfg, job' = job,
         \/ up' = up
         \/ up # << >> /\ up' = Tail(up)
         \/ \E f : Calm(f) /\ up' = Append(up, f),
         \/ down' = down
         \/ down # << >> /\ down' = Tail(down)
         \/ \E f : f.kind # "PATCH" /\ down' = Append(down, f)
  PROVE  Quiet' /\ LineAgrees' /\ AskedOnce' /\ AskAgrees' /\ AnswerAgrees' /\ KeptAgrees'
<1>0. Len(up) \in Nat /\ DOMAIN up = 1..Len(up) /\ Len(down) \in Nat /\ DOMAIN down = 1..Len(down)
  BY SeqShape DEF TInv, UpTyped, DownTyped
<1>1. PICK k \in {0, 1} : UpCalm(k)
  BY UpIsCalm DEF TInv
<1>2. PICK l \in {0, 1} : DownCalm(l)
  BY DownIsCalm DEF TInv
<1>3. DOMAIN up' \subseteq Nat /\ DOMAIN down' \subseteq Nat
  BY UpIsCalm, DownIsCalm DEF TInv
<1>4. \A i \in Acks' : i + k \in Acks
  <2>1. ASSUME NEW i \in DOMAIN up', up'[i].kind = "ACK"
        PROVE  i + k \in DOMAIN up /\ up[i + k].kind = "ACK"
    BY <1>1, <2>1 DEF UpCalm, Calm
  <2> QED
    BY <2>1 DEF Acks
<1>5. \A i \in Asks' : i + l \in Asks /\ down'[i] = down[i + l]
  <2>1. ASSUME NEW i \in DOMAIN down', down'[i].kind = "PATCH"
        PROVE  i + l \in DOMAIN down /\ down[i + l].kind = "PATCH" /\ down'[i] = down[i + l]
    BY <1>2, <2>1 DEF DownCalm
  <2> QED
    BY <2>1 DEF Asks
<1>6. Acks' \subseteq Nat /\ Asks' \subseteq Nat
  BY <1>3 DEF Acks, Asks
<1>7. Quiet'
  BY <1>1 DEF Agreement, Quiet, UpCalm, Calm
<1>8. LineAgrees'
  <2>1. ASSUME NEW i \in DOMAIN up', up'[i].kind \in Declarations
        PROVE  Tells(up[i], AfterAnswer(i))'
    <3> DEFINE f == up'[i]
    <3>1. CASE i + k \in DOMAIN up /\ f = up[i + k]
      <4>1. Tells(f, AfterAnswer(i + k))
        BY <3>1, <2>1 DEF Agreement, LineAgrees
      <4>2. AfterAnswer(i)' => AfterAnswer(i + k)
        <5>1. ASSUME NEW j \in Acks', j < i
              PROVE  j + k \in Acks /\ j + k < i + k
          BY <5>1, <1>3, <1>4, <1>6
        <5> QED
          BY <5>1 DEF AfterAnswer
      <4>3. \A d : Asked(d)' = Asked(d)
        BY DEF Asked
      <4> HIDE DEF f
      <4>4. \A d \in DOMAIN f.elems : TellsOf(f, d, AfterAnswer(i + k))
        BY <4>1 DEF Tells
      <4>5. ASSUME NEW d \in DOMAIN f.elems
            PROVE  /\ Identity(f.elems[d]) = Identity(node'.cfg[d])
                   /\ TypeFits(node'.cfg[d]) /\ (Asked(d)' => AfterAnswer(i)')
                        => f.elems[d].period = node'.cfg[d].period
        BY <4>2, <4>3, <4>4 DEF TellsOf, Same
      <4>6. DOMAIN f.elems \subseteq DOMAIN node'.cfg
            /\ (f.kind = "DECLARE_ALL" => DOMAIN f.elems = DOMAIN node'.cfg)
        BY <4>1 DEF Tells
      <4> QED
        BY <4>5, <4>6 DEF Tells, TellsOf, Same, f
    <3>2. CASE Calm(f)
      <4> HIDE DEF f
      <4>1. /\ DOMAIN f.elems \subseteq DOMAIN node'.cfg
            /\ f.kind = "DECLARE_ALL" => DOMAIN f.elems = DOMAIN node'.cfg
            /\ \A d \in DOMAIN f.elems : f.elems[d] = node'.cfg[d]
        BY <3>2, <2>1 DEF Calm, f
      <4> QED
        BY <4>1 DEF Tells, TellsOf, Same, f
    <3> QED
      BY <3>1, <3>2, <1>1 DEF UpCalm
  <2> QED
    BY <2>1 DEF LineAgrees
<1>9. AskedOnce'
  <2>1. \A i, j \in Acks' : i = j
    <3>1. ASSUME NEW i \in Acks', NEW j \in Acks' PROVE i = j
      <4>1. i + k \in Acks /\ j + k \in Acks /\ i \in Nat /\ j \in Nat
        BY <1>4, <1>6
      <4>2. i + k = j + k
        BY <4>1 DEF Agreement, AskedOnce
      <4> QED
        BY <4>1, <4>2
    <3> QED
      BY <3>1
  <2>2. \A i, j \in Asks' : i = j
    <3>1. ASSUME NEW i \in Asks', NEW j \in Asks' PROVE i = j
      <4>1. i + l \in Asks /\ j + l \in Asks /\ i \in Nat /\ j \in Nat
        BY <1>5, <1>6
      <4>2. i + l = j + l
        BY <4>1 DEF Agreement, AskedOnce
      <4> QED
        BY <4>1, <4>2
    <3> QED
      BY <3>1
  <2>3. (Acks' # {} => Acks # {}) /\ (Asks' # {} => Asks # {})
    BY <1>4, <1>5
  <2> QED
    BY <2>1, <2>2, <2>3 DEF Agreement, AskedOnce
<1>10. AskAgrees'
  <2>1. ASSUME NEW i \in Asks' PROVE Requests(down[i])'
    <3>1. down'[i] = down[i + l] /\ Requests(down[i + l])
      BY <1>5 DEF Agreement, AskAgrees
    <3> QED
      BY <3>1 DEF Requests, Same
  <2> QED
    BY <2>1 DEF AskAgrees
<1>11. AnswerAgrees' /\ KeptAgrees'
  BY <1>4 DEF Agreement, AnswerAgrees, KeptAgrees
<1> QED
  BY <1>7, <1>8, <1>9, <1>10, <1>11

-----------------------------------------------------------------------------
(* Every step keeps the agreement, or doubts it, or settles it.             *)

\* What a committed frame of a settled node leaves in the list.
LEMMA ListToldOf ==
  ASSUME Settled, Agreement, Columns, io.pc = "idle",
         NEW f, NEW late, f.kind \notin {"CONNECT", "DISCONNECT"},
         f.kind \in Declarations => Tells(f, late),
         NEW d \in DOMAIN node.cfg
  PROVE  d \in DOMAIN Registered(f).list /\ Registered(f).list[d] = Identity(node.cfg[d])
<1>1. d \in DOMAIN reg.list /\ reg.list[d] = Identity(node.cfg[d])
  BY DEF Agreement, ListAgrees, NextList
<1>2. DOMAIN Identities(f.elems) = DOMAIN f.elems
  BY DEF Identities
<1>3. ASSUME d \in DOMAIN f.elems, f.kind \in Declarations
      PROVE  Identities(f.elems)[d] = Identity(node.cfg[d])
  BY <1>3 DEF Identities, Tells, TellsOf, Same
<1>4. CASE f.kind = "DECLARE_ALL"
  <2>1. Registered(f).list = Identities(f.elems)
    BY <1>4 DEF Registered, Replaced, Columns
  <2>2. d \in DOMAIN f.elems
    BY <1>4 DEF Declarations, Tells
  <2> QED
    BY <2>1, <2>2, <1>2, <1>3, <1>4 DEF Declarations
<1>5. CASE f.kind = "DECLARE"
  <2>1. Registered(f).list = Puts(reg.list, Identities(f.elems))
    BY <1>5 DEF Registered, Merged, Columns
  <2> QED
    BY <2>1, <1>1, <1>2, <1>3, <1>5 DEF Puts, Declarations
<1>6. CASE f.kind \notin Declarations
  <2>1. Registered(f) = reg
    BY <1>6 DEF Registered, Declarations
  <2> QED
    BY <2>1, <1>1
<1> QED
  BY <1>4, <1>5, <1>6 DEF Declarations

LEMMA NextListKept ==
  ASSUME io' = io, reg' = reg
  PROVE  NextList' = NextList
  BY DEF NextList, Registered, Gone, Merged, Replaced

\* What a declaration leaves in the rows of the devices of a node.
LEMMA RowsToldOf ==
  ASSUME NEW f, NEW late, Declared(f), Tells(f, late), f.kind \in Declarations, RowsAgree,
         NEW d \in DOMAIN node.cfg, TypeFits(node.cfg[d])
  PROVE  /\ d \in DOMAIN db'.row /\ db'.row[d].sub = node.cfg[d].sub
         /\ Asked(d) \/ db'.row[d].period = node.cfg[d].period
<1>1. CASE d \in Accepted(f)
  <2>1. d \in DOMAIN db'.row /\ db'.row[d] = Row(d, f.elems[d])
    BY <1>1, DeclaredTables
  <2>2. d \in DOMAIN f.elems
    BY <1>1 DEF Accepted
  <2>3. TellsOf(f, d, late)
    BY <2>2 DEF Tells
  <2>4. f.elems[d].sub = node.cfg[d].sub
    BY <2>3 DEF TellsOf, Same, Identity
  <2>5. Asked(d) \/ f.elems[d].period = node.cfg[d].period
    BY <2>3 DEF TellsOf
  <2> QED
    BY <2>1, <2>4, <2>5 DEF Row
<1>2. CASE d \notin Accepted(f)
  <2>1. d \in DOMAIN db.row /\ db.row[d].sub = node.cfg[d].sub
        /\ (Asked(d) \/ db.row[d].period = node.cfg[d].period)
    BY DEF RowsAgree
  <2>2. d \in DOMAIN db'.row /\ db'.row[d] = db.row[d]
    BY <1>2, <2>1, DeclaredTables
  <2> QED
    BY <2>1, <2>2
<1> QED
  BY <1>1, <1>2

\* A frame is ingested while node and gateway agree.
LEMMA IngestAgrees ==
  ASSUME TInv, IInv, Settled, Agreement, Ingest
  PROVE  Agreement'
<1>0. PICK f : f = Head(up)
  OBVIOUS
<1>1. /\ io.pc = "idle" /\ up # << >> /\ up' = Tail(up)
      /\ UNCHANGED <<node, down, reg, job>>
  BY DEF Ingest
<1>2. Quiet' /\ LineAgrees' /\ AskedOnce' /\ AskAgrees' /\ AnswerAgrees' /\ KeptAgrees'
  BY <1>1, CalmLines
<1>3. f = up[1] /\ 1 \in DOMAIN up
  BY <1>0, <1>1, TailShape DEF TInv, UpTyped
<1>4. f.kind \notin {"CONNECT", "DISCONNECT"}
  BY <1>3 DEF Agreement, Quiet
<1>5. f.kind \in Declarations => Tells(f, AfterAnswer(1))
  BY <1>3 DEF Agreement, LineAgrees
<1>6. Commits(f) \/ UNCHANGED <<db, io>> \/ RollsBack(f)
  BY <1>0 DEF Ingest
<1>7. \A d : Asked(d)' = Asked(d)
  BY <1>1 DEF Asked
<1>8. CASE Commits(f)
  <2>1. io' = [pc |-> "effects", frame |-> f]
    BY <1>8 DEF Commits
  <2>2. NextList' = Registered(f).list
    <3>1. NextList' = Registered(f)'.list
      BY <2>1 DEF NextList
    <3>2. Registered(f)' = Registered(f)
      BY <1>1 DEF Registered, Gone, Merged, Replaced
    <3> QED
      BY <3>1, <3>2
  <2>3. ListAgrees'
    <3>1. \A d \in DOMAIN node.cfg :
            d \in DOMAIN Registered(f).list /\ Registered(f).list[d] = Identity(node.cfg[d])
      BY <1>1, <1>4, <1>5, ListToldOf DEF IInv
    <3> QED
      BY <3>1, <2>2, <1>1 DEF ListAgrees
  <2>4. RowsAgree'
    <3>1. CASE f.kind \in Declarations
      <4>1. Declared(f) /\ Tells(f, AfterAnswer(1)) /\ RowsAgree
        BY <1>8, <3>1, <1>5 DEF Commits, Agreement
      <4>2. \A d \in DOMAIN node.cfg : TypeFits(node.cfg[d]) =>
               /\ d \in DOMAIN db'.row /\ db'.row[d].sub = node.cfg[d].sub
               /\ Asked(d) \/ db'.row[d].period = node.cfg[d].period
        BY <4>1, <3>1, RowsToldOf
      <4> QED
        BY <4>2, <1>1, <1>7 DEF RowsAgree
    <3>2. CASE f.kind \notin Declarations
      <4>1. db' = db
        BY <1>8, <3>2 DEF Commits
      <4> QED
        BY <4>1, <1>1, <1>7 DEF Agreement, RowsAgree
    <3> QED
      BY <3>1, <3>2
  <2> QED
    BY <1>2, <2>3, <2>4 DEF Agreement
<1>9. CASE UNCHANGED <<db, io>>
  <2>1. NextList' = NextList
    BY <1>9, <1>1 DEF NextList
  <2>2. ListAgrees' /\ RowsAgree'
    BY <1>9, <1>1, <1>7, <2>1 DEF Agreement, ListAgrees, RowsAgree
  <2> QED
    BY <1>2, <2>2 DEF Agreement
<1>10. CASE RollsBack(f)
  <2>1. db' = db /\ io'.pc = "dead"
    BY <1>10 DEF RollsBack
  <2>2. NextList' = NextList
    BY <2>1, <1>1 DEF NextList
  <2>3. ListAgrees' /\ RowsAgree'
    BY <2>1, <2>2, <1>1, <1>7 DEF Agreement, ListAgrees, RowsAgree
  <2> QED
    BY <1>2, <2>3 DEF Agreement
<1> QED
  BY <1>6, <1>8, <1>9, <1>10

\* The full declaration that ends the doubt.
LEMMA IngestSettles ==
  ASSUME TInv, IInv, Connecting, Ingest, Settles(Head(up)), reg.known \/ Head(up).kind = "CONNECT"
  PROVE  Agreement'
<1>0. PICK f : f = Head(up)
  OBVIOUS
<1>1. /\ io.pc = "idle" /\ up # << >> /\ up' = Tail(up)
      /\ UNCHANGED <<node, down, reg, job>>
  BY DEF Ingest
<1>2. /\ f.kind = "DECLARE_ALL" /\ f.elems = node.cfg /\ job.pc = "idle" /\ Len(up) = 1
      /\ \A i \in 1..Len(down) : down[i].kind # "PATCH"
  BY <1>0 DEF Settles
<1>3. Commits(f) /\ Declared(f) /\ io' = [pc |-> "effects", frame |-> f]
  BY <1>0, <1>2 DEF Ingest, Commits, Declarations
<1>4. DOMAIN up' = {}
  <2>1. DOMAIN up' = 1..(Len(up) - 1)
    BY <1>1, TailShape DEF TInv, UpTyped
  <2> QED
    BY <2>1, <1>2
<1>5. Acks' = {} /\ Asks' = {}
  <2>1. DOMAIN down = 1..Len(down)
    BY SeqShape DEF TInv, DownTyped
  <2> QED
    BY <2>1, <1>1, <1>2, <1>4 DEF Acks, Asks
<1>6. Quiet' /\ LineAgrees'
  BY <1>4 DEF Quiet, LineAgrees
<1>7. AskedOnce' /\ AskAgrees' /\ AnswerAgrees' /\ KeptAgrees'
  BY <1>1, <1>2, <1>5 DEF AskedOnce, AskAgrees, AnswerAgrees, KeptAgrees
<1>8. ListAgrees'
  <2>1. Registered(f).list = Identities(f.elems)
    BY <1>2 DEF Registered, Replaced, IInv, Columns
  <2>2. NextList' = Identities(f.elems)
    <3>1. NextList' = Registered(f)'.list
      BY <1>3 DEF NextList
    <3>2. Registered(f)' = Registered(f)
      BY <1>1 DEF Registered, Gone, Merged, Replaced
    <3> QED
      BY <3>1, <3>2, <2>1
  <2> QED
    BY <2>2, <1>1, <1>2 DEF ListAgrees, Identities
<1>9. RowsAgree'
  <2>1. ASSUME NEW d \in DOMAIN node.cfg, TypeFits(node.cfg[d])
        PROVE  /\ d \in DOMAIN db'.row /\ db'.row[d].sub = node.cfg[d].sub
               /\ db'.row[d].period = node.cfg[d].period
    <3>1. d \in Accepted(f) /\ f.elems[d] = node.cfg[d]
      BY <2>1, <1>2 DEF Accepted
    <3>2. d \in DOMAIN db'.row /\ db'.row[d] = Row(d, f.elems[d])
      BY <3>1, <1>3, DeclaredTables
    <3> QED
      BY <3>1, <3>2 DEF Row
  <2> QED
    BY <2>1, <1>1 DEF RowsAgree
<1> QED
  BY <1>6, <1>7, <1>8, <1>9 DEF Agreement

\* Steps that leave database, list to come, request and settings.
LEMMA CalmStep ==
  ASSUME TInv, Agreement, node'.cfg = node.cfg, job' = job, db' = db, NextList' = NextList,
         \/ up' = up
         \/ up # << >> /\ up' = Tail(up)
         \/ \E f : Calm(f) /\ up' = Append(up, f),
         \/ down' = down
         \/ down # << >> /\ down' = Tail(down)
         \/ \E f : f.kind # "PATCH" /\ down' = Append(down, f)
  PROVE  Agreement'
<1>1. Quiet' /\ LineAgrees' /\ AskedOnce' /\ AskAgrees' /\ AnswerAgrees' /\ KeptAgrees'
  BY CalmLines
<1>2. \A d : Asked(d)' = Asked(d)
  BY DEF Asked
<1>3. ListAgrees' /\ RowsAgree'
  BY <1>2 DEF Agreement, ListAgrees, RowsAgree
<1> QED
  BY <1>1, <1>3 DEF Agreement

LEMMA EffectsAgree ==
  ASSUME TInv, Agreement, Effects
  PROVE  Agreement'
<1>1. /\ io.pc = "effects" /\ io'.pc = "idle" /\ reg' = Registered(io.frame)
      /\ down' = down \o Replies(io.frame) /\ UNCHANGED <<node, up, db, job>>
  BY DEF Effects
<1>2. NextList' = NextList
  BY <1>1 DEF NextList
<1>3. \/ down' = down
      \/ \E r : r.kind \in {"CONNECTED", "DECLARED"} /\ down' = Append(down, r)
  BY <1>1, RepliesShape DEF TInv, DownTyped
<1> QED
  BY <1>1, <1>2, <1>3, CalmStep

LEMMA ReadRowAgrees ==
  ASSUME TInv, Agreement, NEW d, NEW field, NEW val, ReadRow(d, field, val)
  PROVE  Agreement'
<1>1. /\ job.pc = "idle" /\ UNCHANGED <<node, up, down, db, reg, io>>
      /\ job' = [pc |-> "look", n |-> patches', dev |-> d, field |-> field, val |-> val,
                 row |-> db.row[d]]
  BY DEF ReadRow, NoJob, ends
<1>2. \A k : ~Asked(k) /\ ~Asked(k)'
  BY <1>1 DEF Asked
<1>3. Acks = {} /\ Asks = {} /\ Acks' = {} /\ Asks' = {}
  BY <1>1 DEF Agreement, AskedOnce, Acks, Asks
<1>4. Quiet' /\ ListAgrees' /\ RowsAgree'
  <2>1. NextList' = NextList
    BY <1>1, NextListKept
  <2>2. Quiet' /\ ListAgrees'
    BY <1>1, <2>1 DEF Agreement, Quiet, ListAgrees
  <2>3. RowsAgree'
    BY <1>1, <1>2 DEF Agreement, RowsAgree
  <2> QED
    BY <2>2, <2>3
<1>5. LineAgrees'
  BY <1>1, <1>2 DEF Agreement, LineAgrees, Tells, TellsOf, Same
<1>6. AskedOnce' /\ AskAgrees' /\ AnswerAgrees'
  BY <1>1, <1>3 DEF AskedOnce, AskAgrees, AnswerAgrees
<1>7. KeptAgrees'
  BY <1>1, <1>2 DEF Agreement, RowsAgree, KeptAgrees
<1> QED
  BY <1>4, <1>5, <1>6, <1>7 DEF Agreement

LEMMA SendAgrees ==
  ASSUME TInv, Agreement, Send
  PROVE  Agreement'
<1>1. job.pc = "look" /\ UNCHANGED <<node, up, db, reg, io>>
  BY DEF Send, ends
<1>2. \A k : ~Asked(k)
  BY <1>1 DEF Asked
<1>3. Acks = {} /\ Asks = {} /\ Acks' = {}
  BY <1>1 DEF Agreement, AskedOnce, Acks, Asks
<1>4. Quiet' /\ ListAgrees' /\ RowsAgree'
  <2>1. NextList' = NextList
    BY <1>1, NextListKept
  <2>2. Quiet' /\ ListAgrees'
    BY <1>1, <2>1 DEF Agreement, Quiet, ListAgrees
  <2>3. RowsAgree'
    BY <1>1, <1>2 DEF Agreement, RowsAgree
  <2> QED
    BY <2>2, <2>3
<1>5. LineAgrees'
  BY <1>1, <1>2 DEF Agreement, LineAgrees, Tells, TellsOf, Same
<1>6. CASE job.dev \notin DOMAIN reg.list
  <2>1. job'.pc = "idle" /\ down' = down
    BY <1>6 DEF Send, NoJob
  <2>2. Asks' = {}
    BY <2>1, <1>3 DEF Asks
  <2>3. AskedOnce' /\ AskAgrees' /\ AnswerAgrees' /\ KeptAgrees'
    BY <2>1, <2>2, <1>3 DEF AskedOnce, AskAgrees, AnswerAgrees, KeptAgrees
  <2> QED
    BY <1>4, <1>5, <2>3 DEF Agreement
<1>7. CASE job.dev \in DOMAIN reg.list
  <2> DEFINE id == reg.list[job.dev]
             p  == Patch(id)
  <2>1. io.pc = "idle" /\ down' = Append(down, p) /\ job' = [job EXCEPT !.pc = "wait"]
    BY <1>7 DEF Send, Patch
  <2>2. /\ job'.pc = "wait" /\ job'.dev = job.dev /\ job'.field = job.field /\ job'.val = job.val
        /\ job'.row = job.row
    BY <2>1, <1>1 DEF TInv, JobTyped
  <2>3. /\ p.kind = "PATCH" /\ DOMAIN p.elems = {job.dev}
        /\ p.elems[job.dev] = FullProperty(id, job.row, job.field, job.val)
    BY PatchShape
  <2>4. /\ Identity(p.elems[job.dev]) = Identity(id)
        /\ p.elems[job.dev].period = IF job.field = "period" THEN job.val ELSE job.row.period
    BY <2>3 DEF FullProperty, Identity
  <2>5. job.dev \in DOMAIN node.cfg => Identity(id) = Identity(node.cfg[job.dev])
    BY <2>1 DEF Agreement, ListAgrees, NextList, Identity
  <2> HIDE DEF p, id
  <2>6. /\ Len(down) \in Nat /\ DOMAIN down = 1..Len(down) /\ DOMAIN down' = 1..(Len(down) + 1)
        /\ \A i \in DOMAIN down : down'[i] = down[i]
        /\ down'[Len(down) + 1] = p
    BY <2>1, AppendShape, SeqShape DEF TInv, DownTyped
  <2>7. \A i \in Asks' : i = Len(down) + 1
    <3>1. ASSUME NEW i \in DOMAIN down', i # Len(down) + 1 PROVE down'[i].kind # "PATCH"
      <4>1. i \in DOMAIN down
        BY <3>1, <2>6
      <4> QED
        BY <4>1, <2>6, <1>3 DEF Asks
    <3> QED
      BY <3>1 DEF Asks
  <2>8. AskedOnce'
    BY <2>2, <2>7, <1>3 DEF AskedOnce
  <2>9. AskAgrees'
    BY <2>2, <2>3, <2>4, <2>5, <2>6, <2>7, <1>1 DEF AskAgrees, Requests, Same
  <2>10. AnswerAgrees' /\ KeptAgrees'
    BY <2>2, <1>1, <1>3 DEF Agreement, AnswerAgrees, KeptAgrees
  <2> QED
    BY <1>4, <1>5, <2>8, <2>9, <2>10 DEF Agreement
<1> QED
  BY <1>6, <1>7

\* The answer: what follows it on the line is what the node has.
LEMMA ReceiveAckAgrees ==
  ASSUME TInv, Agreement, ReceiveAck
  PROVE  Agreement'
<1>1. /\ up # << >> /\ Head(up).kind = "ACK" /\ up' = Tail(up)
      /\ UNCHANGED <<node, down, db, reg, io>>
  BY DEF ReceiveAck, ends
<1>2. NextList' = NextList
  BY <1>1, NextListKept
<1>3. CASE job' = job
  BY <1>1, <1>2, <1>3, CalmStep
<1>4. CASE job.pc = "wait" /\ job' = [job EXCEPT !.pc = "update"]
  <2>1. /\ job'.pc = "update" /\ job'.dev = job.dev /\ job'.field = job.field /\ job'.val = job.val
        /\ job'.row = job.row
    BY <1>4 DEF TInv, JobTyped
  <2>2. \A k : Asked(k)' = Asked(k)
    BY <2>1, <1>4 DEF Asked
  <2>3. /\ Head(up) = up[1] /\ 1 \in DOMAIN up /\ Len(up) \in Nat /\ DOMAIN up' = 1..(Len(up) - 1)
        /\ \A i \in DOMAIN up' : i + 1 \in DOMAIN up /\ up'[i] = up[i + 1]
    BY <1>1, TailShape DEF TInv, UpTyped
  <2>4. 1 \in Acks
    BY <2>3, <1>1 DEF Acks
  <2>5. Asks' = {}
    BY <2>4, <1>1 DEF Agreement, AskedOnce, Asks
  <2>6. Acks' = {}
    <3>1. ASSUME NEW i \in DOMAIN up', up'[i].kind = "ACK" PROVE FALSE
      <4>1. i + 1 \in Acks
        BY <3>1, <2>3 DEF Acks
      <4>2. i + 1 = 1
        BY <4>1, <2>4 DEF Agreement, AskedOnce
      <4>3. i \in 1..(Len(up) - 1)
        BY <3>1, <2>3
      <4> QED
        BY <4>2, <4>3, <2>3
    <3> QED
      BY <3>1 DEF Acks
  <2>7. Quiet'
    BY <2>3 DEF Agreement, Quiet
  <2>8. ListAgrees' /\ RowsAgree'
    BY <1>1, <1>2, <2>2 DEF Agreement, ListAgrees, RowsAgree
  <2>9. LineAgrees'
    <3>1. ASSUME NEW i \in DOMAIN up', up'[i].kind \in Declarations
          PROVE  Tells(up[i], AfterAnswer(i))'
      <4>0. PICK f : f = up'[i]
        OBVIOUS
      <4>1. Tells(f, AfterAnswer(i + 1))
        BY <4>0, <3>1, <2>3 DEF Agreement, LineAgrees
      <4>2. AfterAnswer(i + 1)
        <5>1. i \in 1..(Len(up) - 1)
          BY <3>1, <2>3
        <5>2. 1 < i + 1
          BY <5>1, <2>3
        <5> QED
          BY <5>2, <2>4 DEF AfterAnswer
      <4>3. AfterAnswer(i)'
        BY <2>1 DEF AfterAnswer
      <4>4. /\ DOMAIN f.elems \subseteq DOMAIN node.cfg
            /\ f.kind = "DECLARE_ALL" => DOMAIN f.elems = DOMAIN node.cfg
            /\ \A d \in DOMAIN f.elems :
                 /\ Identity(f.elems[d]) = Identity(node.cfg[d])
                 /\ TypeFits(node.cfg[d]) => f.elems[d].period = node.cfg[d].period
        BY <4>1, <4>2 DEF Tells, TellsOf, Same
      <4> QED
        BY <4>0, <4>4, <1>1 DEF Tells, TellsOf, Same
    <3> QED
      BY <3>1 DEF LineAgrees
  <2>10. AskedOnce' /\ AskAgrees'
    BY <2>5, <2>6 DEF AskedOnce, AskAgrees
  <2>11. AnswerAgrees' /\ KeptAgrees'
    BY <2>1, <2>4, <1>1, <1>4 DEF Agreement, AnswerAgrees, KeptAgrees
  <2> QED
    BY <2>7, <2>8, <2>9, <2>10, <2>11 DEF Agreement
<1> QED
  BY <1>1, <1>3, <1>4 DEF ReceiveAck

\* The row takes the setting that the node has had since its answer.
LEMMA UpdateAgrees ==
  ASSUME TInv, IInv, Agreement, Update
  PROVE  Agreement'
<1> DEFINE row == Column(db.row[job.dev], job.field, job.val)
<1>1. /\ job.pc = "update" /\ job'.pc = "idle" /\ db'.row = Put(db.row, job.dev, row)
      /\ UNCHANGED <<node, up, down, reg, io>>
  BY DEF Update, IInv, Columns, NoJob
<1>2. job.dev \in DOMAIN db.row /\ job.dev \in DOMAIN node.cfg
  BY <1>1 DEF IInv, JobInstalled, Agreement, AnswerAgrees
<1>3. /\ row.sub = db.row[job.dev].sub
      /\ row.period = IF job.field = "period" THEN job.val ELSE db.row[job.dev].period
  BY <1>2 DEF Column, IInv, Columns
<1> HIDE DEF row
<1>4. DOMAIN db'.row = DOMAIN db.row /\ db'.row[job.dev] = row
  BY <1>1, <1>2 DEF Put
<1>5. \A d \in DOMAIN db.row \ {job.dev} : db'.row[d] = db.row[d]
  BY <1>1 DEF Put
<1>6. Acks = {} /\ Asks = {} /\ Acks' = {} /\ Asks' = {}
  BY <1>1 DEF Agreement, AskedOnce, Acks, Asks
<1>7. NextList' = NextList
  BY <1>1, NextListKept
<1>8. Quiet' /\ ListAgrees'
  BY <1>1, <1>7 DEF Agreement, Quiet, ListAgrees
<1>9. RowsAgree'
  <2>1. ASSUME NEW d \in DOMAIN node.cfg, TypeFits(node.cfg[d])
        PROVE  /\ d \in DOMAIN db'.row /\ db'.row[d].sub = node.cfg[d].sub
               /\ db'.row[d].period = node.cfg[d].period
    <3>1. /\ d \in DOMAIN db.row /\ db.row[d].sub = node.cfg[d].sub
          /\ Asked(d) \/ db.row[d].period = node.cfg[d].period
      BY <2>1 DEF Agreement, RowsAgree
    <3>2. CASE d = job.dev
      <4>1. job.field = "period" => node.cfg[d].period = job.val
        BY <3>2, <1>1 DEF Agreement, AnswerAgrees
      <4>2. job.field # "period" => ~Asked(d)
        BY DEF Asked
      <4> QED
        BY <3>1, <3>2, <4>1, <4>2, <1>3, <1>4
    <3>3. CASE d # job.dev
      <4>1. ~Asked(d)
        BY <3>3 DEF Asked
      <4> QED
        BY <3>1, <3>3, <4>1, <1>4, <1>5
    <3> QED
      BY <3>2, <3>3
  <2> QED
    BY <2>1, <1>1 DEF RowsAgree
<1>10. LineAgrees'
  <2>1. ASSUME NEW i \in DOMAIN up, up[i].kind \in Declarations
        PROVE  /\ DOMAIN up[i].elems \subseteq DOMAIN node.cfg
               /\ up[i].kind = "DECLARE_ALL" => DOMAIN up[i].elems = DOMAIN node.cfg
               /\ \A d \in DOMAIN up[i].elems :
                    /\ Identity(up[i].elems[d]) = Identity(node.cfg[d])
                    /\ TypeFits(node.cfg[d]) => up[i].elems[d].period = node.cfg[d].period
    <3>1. Tells(up[i], AfterAnswer(i)) /\ AfterAnswer(i)
      BY <2>1, <1>1 DEF Agreement, LineAgrees, AfterAnswer
    <3> QED
      BY <3>1 DEF Tells, TellsOf, Same
  <2> QED
    BY <2>1, <1>1 DEF LineAgrees, Tells, TellsOf, Same
<1>11. AskedOnce' /\ AskAgrees' /\ AnswerAgrees' /\ KeptAgrees'
  BY <1>1, <1>6 DEF AskedOnce, AskAgrees, AnswerAgrees, KeptAgrees
<1> QED
  BY <1>8, <1>9, <1>10, <1>11 DEF Agreement

\* The node takes the setting and answers.
LEMMA ObeysAgrees ==
  ASSUME TInv, Settled, Agreement, NodeReceives, Head(down).kind = "PATCH", Obeys(Head(down))
  PROVE  Agreement'
<1>0. PICK f : f = Head(down)
  OBVIOUS
<1>1. /\ down # << >> /\ down' = Tail(down) /\ UNCHANGED <<db, reg, io, job>>
  BY DEF NodeReceives, NodeSide, ends
<1>2. f = down[1] /\ 1 \in DOMAIN down
  BY <1>0, <1>1, TailShape DEF TInv, DownTyped
<1>3. 1 \in Asks /\ job.pc = "wait" /\ Acks = {} /\ Requests(f)
  BY <1>0, <1>2 DEF Agreement, AskedOnce, AskAgrees, Asks
<1>4. NextList' = NextList
  BY <1>1, NextListKept
<1>5. \A d : Asked(d)' = Asked(d)
  BY <1>1 DEF Asked
<1>6. DOMAIN f.elems = {job.dev}
  BY <1>3 DEF Requests
<1>7. CASE UNCHANGED <<up, node>>
  BY <1>1, <1>4, <1>7, CalmStep
<1>8. CASE /\ job.dev \in DOMAIN node.cfg
           /\ up' = Append(up, [Bare("ACK") EXCEPT !.n = f.n])
           /\ node' = [node EXCEPT !.cfg[job.dev] = f.elems[job.dev]]
  <2> DEFINE p   == f.elems[job.dev]
             old == node.cfg[job.dev]
  <2>1. /\ DOMAIN node'.cfg = DOMAIN node.cfg /\ node'.cfg[job.dev] = p
        /\ \A d \in DOMAIN node.cfg \ {job.dev} : node'.cfg[d] = node.cfg[d]
    BY <1>8 DEF TInv, NodeTyped
  <2>2. /\ Identity(p) = Identity(old)
        /\ p.period = IF job.field = "period" THEN job.val ELSE job.row.period
    BY <1>3, <1>8 DEF Requests, Same
  <2> HIDE DEF p
  <2>3. \A d \in DOMAIN node.cfg : Identity(node'.cfg[d]) = Identity(node.cfg[d])
    BY <2>1, <2>2
  <2>4. \A d \in DOMAIN node.cfg :
          TypeFits(node'.cfg[d]) = TypeFits(node.cfg[d]) /\ node'.cfg[d].sub = node.cfg[d].sub
    BY <2>3 DEF Identity, TypeFits
  <2>5. ASSUME NEW d \in DOMAIN node.cfg, TypeFits(node.cfg[d]), ~Asked(d)
        PROVE  node'.cfg[d].period = node.cfg[d].period
    <3>1. CASE d = job.dev
      <4>1. job.field # "period"
        BY <2>5, <3>1, <1>3 DEF Asked
      <4>2. job.row.period = node.cfg[d].period
        BY <4>1, <3>1, <2>5, <1>3 DEF Agreement, KeptAgrees
      <4> QED
        BY <4>1, <4>2, <3>1, <2>1, <2>2
    <3>2. CASE d # job.dev
      BY <3>2, <2>1
    <3> QED
      BY <3>1, <3>2
  <2>6. /\ Len(up) \in Nat /\ DOMAIN up = 1..Len(up) /\ DOMAIN up' = 1..(Len(up) + 1)
        /\ \A i \in DOMAIN up : up'[i] = up[i]
        /\ up'[Len(up) + 1].kind = "ACK"
    <3>1. [Bare("ACK") EXCEPT !.n = f.n].kind = "ACK"
      BY DEF Bare, Frame
    <3> QED
      BY <3>1, <1>8, AppendShape, SeqShape DEF TInv, UpTyped
  <2>7. \A i \in DOMAIN up' : i \in DOMAIN up \/ i = Len(up) + 1
    <3>1. ASSUME NEW i \in DOMAIN up' PROVE i \in DOMAIN up \/ i = Len(up) + 1
      <4>1. i \in 1..(Len(up) + 1)
        BY <2>6
      <4> QED
        BY <4>1, <2>6
    <3> QED
      BY <3>1
  <2>8. Acks' = {Len(up) + 1}
    <3>1. Len(up) + 1 \in DOMAIN up'
      BY <2>6
    <3> QED
      BY <3>1, <2>6, <2>7, <1>3 DEF Acks
  <2>9. Asks' = {}
    <3>1. /\ Len(down) \in Nat /\ DOMAIN down' = 1..(Len(down) - 1)
          /\ \A i \in DOMAIN down' : i + 1 \in DOMAIN down /\ down'[i] = down[i + 1]
      BY <1>1, TailShape DEF TInv, DownTyped
    <3>2. ASSUME NEW i \in DOMAIN down', down'[i].kind = "PATCH" PROVE FALSE
      <4>1. i + 1 \in Asks
        BY <3>1, <3>2 DEF Asks
      <4>2. i + 1 = 1
        BY <4>1, <1>3 DEF Agreement, AskedOnce
      <4>3. i \in 1..(Len(down) - 1)
        BY <3>1, <3>2
      <4> QED
        BY <4>2, <4>3, <3>1
    <3> QED
      BY <3>2 DEF Asks
  <2>10. Quiet'
    BY <2>6, <2>7 DEF Agreement, Quiet
  <2>11. ListAgrees'
    BY <1>4, <2>1, <2>3 DEF Agreement, ListAgrees
  <2>12. RowsAgree'
    BY <1>1, <1>5, <2>1, <2>4, <2>5 DEF Agreement, RowsAgree
  <2>13. LineAgrees'
    <3>1. ASSUME NEW i \in DOMAIN up', up'[i].kind \in Declarations
          PROVE  Tells(up[i], AfterAnswer(i))'
      <4>0. PICK g : g = up'[i]
        OBVIOUS
      <4>1. i \in DOMAIN up /\ g = up[i]
        BY <4>0, <3>1, <2>6, <2>7 DEF Declarations
      <4>2. Tells(g, AfterAnswer(i))
        BY <4>0, <4>1, <3>1 DEF Agreement, LineAgrees
      <4>3. ~AfterAnswer(i)'
        <5>1. i <= Len(up)
          BY <4>1, <2>6
        <5>2. ~(Len(up) + 1 < i)
          BY <5>1, <4>1, <2>6
        <5> QED
          BY <5>2, <2>8, <1>1, <1>3 DEF AfterAnswer
      <4>4. /\ DOMAIN g.elems \subseteq DOMAIN node.cfg
            /\ g.kind = "DECLARE_ALL" => DOMAIN g.elems = DOMAIN node.cfg
            /\ \A d \in DOMAIN g.elems :
                 /\ Identity(g.elems[d]) = Identity(node.cfg[d])
                 /\ TypeFits(node.cfg[d]) /\ ~Asked(d) => g.elems[d].period = node.cfg[d].period
        BY <4>2 DEF Tells, TellsOf, Same
      <4>5. ASSUME NEW d \in DOMAIN g.elems
            PROVE  /\ Identity(g.elems[d]) = Identity(node'.cfg[d])
                   /\ TypeFits(node'.cfg[d]) /\ ~Asked(d)' => g.elems[d].period = node'.cfg[d].period
        <5>1. d \in DOMAIN node.cfg
          BY <4>4
        <5> QED
          BY <5>1, <4>4, <1>5, <2>3, <2>4, <2>5
      <4> QED
        BY <4>0, <4>3, <4>4, <4>5, <2>1 DEF Tells, TellsOf, Same
    <3> QED
      BY <3>1 DEF LineAgrees
  <2>14. AskedOnce' /\ AskAgrees'
    BY <2>8, <2>9, <1>1, <1>3 DEF AskedOnce, AskAgrees
  <2>15. AnswerAgrees'
    BY <1>1, <1>8, <2>1, <2>2 DEF AnswerAgrees
  <2>16. KeptAgrees'
    <3>1. ASSUME job.field # "period" PROVE job.row.period = node'.cfg[job.dev].period
      BY <3>1, <2>1, <2>2
    <3> QED
      BY <3>1, <1>1 DEF KeptAgrees
  <2> QED
    BY <2>10, <2>11, <2>12, <2>13, <2>14, <2>15, <2>16 DEF Agreement
<1>9. Obeys(f)
  BY <1>0
<1> QED
  BY <1>6, <1>7, <1>8, <1>9, ObeysShape

-----------------------------------------------------------------------------
(* The steps of a settled node and of the line.                             *)

LEMMA NodeStepAgrees ==
  ASSUME TInv, Agreement, NodeSide, node'.cfg = node.cfg,
         \/ up' = up
         \/ up # << >> /\ up' = Tail(up)
         \/ \E f : Calm(f) /\ up' = Append(up, f),
         down' = down \/ (down # << >> /\ down' = Tail(down))
  PROVE  Agreement'
<1>1. UNCHANGED <<db, reg, io, job>>
  BY DEF NodeSide, ends
<1>2. NextList' = NextList
  BY <1>1, NextListKept
<1> QED
  BY <1>1, <1>2, CalmStep

\* What a settled node says is calm.
LEMMA NodeSpeaksCalmly ==
  ASSUME Settled,
         \/ \E S, val : Measure(S, val)
         \/ \E d : DeclareSome(d)
         \/ Complain \/ Resend
  PROVE  \E f : Calm(f) /\ up' = Append(up, f)
<1>1. ASSUME NEW S, NEW val, Measure(S, val) PROVE \E f : Calm(f) /\ up' = Append(up, f)
  <2>1. PICK g : up' = Append(up, Frame("VALUES", g))
    BY <1>1 DEF Measure, Says
  <2>2. Calm(Frame("VALUES", g))
    BY FrameFields DEF Calm, Declarations
  <2> QED
    BY <2>1, <2>2
<1>2. ASSUME NEW d, DeclareSome(d) PROVE \E f : Calm(f) /\ up' = Append(up, f)
  <2>1. PICK g : g = [k \in {d} |-> node.cfg[d]]
    OBVIOUS
  <2>2. d \in DOMAIN node.cfg /\ up' = Append(up, Frame("DECLARE", g))
    BY <1>2, <2>1 DEF DeclareSome, Says
  <2>3. DOMAIN g = {d} /\ g[d] = node.cfg[d]
    BY <2>1
  <2>4. Calm(Frame("DECLARE", g))
    BY <2>2, <2>3, FrameFields DEF Calm
  <2> QED
    BY <2>2, <2>4
<1>3. CASE Complain
  <2>1. Calm(Bare("ERROR"))
    BY FrameFields DEF Calm, Declarations
  <2> QED
    BY <1>3, <2>1 DEF Complain, Says
<1>4. CASE Resend
  <2>1. up' = Append(up, Frame("DECLARE_ALL", node.cfg))
    BY <1>4 DEF Resend, Settled
  <2>2. Calm(Frame("DECLARE_ALL", node.cfg))
    BY FrameFields DEF Calm
  <2> QED
    BY <2>1, <2>2
<1> QED
  BY <1>1, <1>2, <1>3, <1>4

LEMMA NodeReceivesAgrees ==
  ASSUME TInv, Settled, Agreement, NodeReceives
  PROVE  Agreement'
<1>1. down # << >> /\ down' = Tail(down) /\ NodeSide
  BY DEF NodeReceives
<1>2. CASE Head(down).kind = "PATCH" /\ Obeys(Head(down))
  BY <1>2, ObeysAgrees
<1>3. CASE up' = up /\ node'.cfg = node.cfg
  BY <1>1, <1>3, NodeStepAgrees
<1>4. node.state # "connecting"
  BY DEF Settled
<1>5. [node EXCEPT !.state = "running"].cfg = node.cfg
  BY DEF TInv, NodeTyped
<1> QED
  BY <1>2, <1>3, <1>4, <1>5 DEF NodeReceives

-----------------------------------------------------------------------------
(* All steps.                                                               *)

Joins ==
  (\E b \in Builds : PowerUp(b)) \/ Reconnect

LEMMA JoiningDoubts ==
  ASSUME TInv, Joins
  PROVE  doubt' /\ node'.state = "connecting" /\ Connecting'
<1>1. /\ doubt' = TRUE /\ node'.state = "connecting" /\ up' = Append(up, Bare("CONNECT"))
  BY DEF Joins, PowerUp, Reconnect, Connect
<1>2. up'[Len(up')].kind = "CONNECT"
  BY <1>1, AppendShape, FrameFields DEF TInv, UpTyped
<1> QED
  BY <1>1, <1>2 DEF Connecting

\* A step other than joining: the node goes on with the session it had.
LEMMA ConnectingKept ==
  ASSUME TInv, IInv, Connecting, [Next]_vars, ~Joins
  PROVE  Connecting' /\ (node'.state = "connecting" => node.state = "connecting")
<1>1. node'.state = "connecting" => node.state = "connecting"
  <2>1. node' = node \/ node'.state # "connecting" \/ (NodeReceives /\ Head(down).kind = "PATCH")
    BY DEF Next, vars, ends, Joins, Ingest, Effects, ReceiveAck, ReadRow, Send, GiveUp, Update, Resend,
           Unanswered, NodeReceives, Measure, DeclareSome, Complain, Leave, Says, Lose, Restart, TInv,
           NodeTyped
  <2>2. CASE NodeReceives /\ Head(down).kind = "PATCH"
    <3>1. Obeys(Head(down))
      BY <2>2 DEF NodeReceives
    <3>2. node'.state = node.state
      BY <3>1 DEF Obeys, TInv, NodeTyped
    <3> QED
      BY <3>2
  <2> QED
    BY <2>1, <2>2, SMTT(30)
<1> SUFFICES ASSUME node.state = "connecting", node'.state = "connecting"
             PROVE  doubt' /\ (up' # << >> => up'[Len(up')].kind = "CONNECT")
  BY <1>1 DEF Connecting
<1>2. doubt /\ (up # << >> => up[Len(up)].kind = "CONNECT")
  BY DEF Connecting
<1>3. doubt'
  <2>1. CASE Ingest
    <3>1. Settles(Head(up)) => FALSE
      <4>1. up # << >> /\ up[1] = Head(up)
        BY <2>1, TailShape DEF Ingest, TInv, UpTyped
      <4> QED
        BY <4>1, <1>2 DEF Settles
    <3> QED
      BY <2>1, <3>1, <1>2 DEF Ingest
  <2>2. CASE ~Ingest
    <3>1. doubt' = doubt \/ doubt'
      BY <2>2 DEF Next, vars, ends, Joins, Effects, ReceiveAck, ReadRow, Send, GiveUp, Update, Resend,
             Unanswered, NodeReceives, Measure, DeclareSome, Complain, Leave, Says, Lose, Restart
    <3> QED
      BY <3>1, <1>2
  <2> QED
    BY <2>1, <2>2
<1>4. up' = up \/ (up # << >> /\ up' = Tail(up)) \/ up' = Append(up, Bare("CONNECT"))
  <2>1. CASE NodeReceives
    <3>1. CASE Head(down).kind = "PATCH" /\ Obeys(Head(down))
      <4>1. ~Running
        BY DEF Running
      <4> QED
        BY <3>1, <4>1 DEF Obeys
    <3>2. CASE node' = [node EXCEPT !.state = "declaring"]
      BY <3>2 DEF TInv, NodeTyped
    <3> QED
      BY <2>1, <3>1, <3>2 DEF NodeReceives
  <2>2. CASE ~NodeReceives
    BY <2>2 DEF Next, vars, ends, Joins, Ingest, Effects, ReceiveAck, ReadRow, Send, GiveUp, Update,
           Resend, Unanswered, Measure, DeclareSome, Complain, Leave, Says, Lose, Restart
  <2> QED
    BY <2>1, <2>2
<1>5. ASSUME up' # << >> PROVE up'[Len(up')].kind = "CONNECT"
  <2>1. CASE up' = up
    BY <2>1, <1>2, <1>5
  <2>2. CASE up # << >> /\ up' = Tail(up)
    <3>1. /\ IsSeq(up') /\ Len(up) \in Nat /\ Len(up') = Len(up) - 1 /\ DOMAIN up' = 1..(Len(up) - 1)
          /\ \A i \in DOMAIN up' : up'[i] = up[i + 1]
      BY <2>2, TailShape DEF TInv, UpTyped
    <3>2. Len(up') > 0
      BY <3>1, <1>5, SeqShape
    <3>3. Len(up') \in DOMAIN up' /\ Len(up') + 1 = Len(up)
      BY <3>1, <3>2
    <3>4. up'[Len(up')] = up[Len(up)]
      BY <3>1, <3>3
    <3> QED
      BY <3>4, <2>2, <1>2
  <2>3. CASE up' = Append(up, Bare("CONNECT"))
    BY <2>3, AppendShape, FrameFields DEF TInv, UpTyped
  <2> QED
    BY <2>1, <2>2, <2>3, <1>4
<1> QED
  BY <1>3, <1>5

LEMMA NextAgrees == AInv /\ TInv /\ IInv /\ [Next]_vars => AInv'
<1> SUFFICES ASSUME AInv, TInv, IInv, [Next]_vars
             PROVE  AInv'
  OBVIOUS
<1>1. CASE Joins
  BY <1>1, JoiningDoubts DEF AInv, Settled
<1>2. CASE ~Joins
  <2>1. Connecting' /\ (node'.state = "connecting" => node.state = "connecting")
    BY <1>2, ConnectingKept DEF AInv
  <2> SUFFICES ASSUME Settled'
               PROVE  Agreement'
    BY <2>1 DEF AInv
  <2>2. ~doubt' /\ node'.state \in {"declaring", "running"}
    BY DEF Settled
  <2>3. CASE Ingest
    <3>1. node' = node
      BY <2>3 DEF Ingest
    <3>2. CASE doubt
      <4>1. Settles(Head(up)) /\ (reg.known \/ Head(up).kind = "CONNECT")
        BY <2>2, <2>3, <3>2 DEF Ingest
      <4> QED
        BY <2>3, <4>1, IngestSettles DEF AInv
    <3>3. CASE ~doubt
      <4>1. Settled
        BY <2>2, <3>1, <3>3 DEF Settled
      <4> QED
        BY <2>3, <4>1, IngestAgrees DEF AInv
    <3> QED
      BY <3>2, <3>3
  <2>4. CASE ~Ingest
    <3>1. ~GiveUp /\ ~Restart
      BY <2>2 DEF GiveUp, Restart
    <3>2. ~doubt
      BY <1>2, <2>2, <2>4, <3>1 DEF Next, vars, ends, Joins, Effects, ReceiveAck, ReadRow, Send, Update,
             Resend, Unanswered, NodeReceives, Measure, DeclareSome, Complain, Leave, Says, Lose
    <3>3. node.state \in {"declaring", "running"}
      <4>1. node.state # "connecting"
        BY <3>2 DEF AInv, Connecting
      <4>2. node.state # "off"
        <5>1. CASE NodeReceives
          <6>1. CASE Head(down).kind = "PATCH" /\ Obeys(Head(down))
            BY <6>1, <2>2 DEF Obeys, TInv, NodeTyped
          <6> QED
            BY <5>1, <6>1, <2>2 DEF NodeReceives
        <5>2. CASE ~NodeReceives
          BY <5>2, <1>2, <2>2, <2>4, <3>1 DEF Next, vars, ends, Joins, Effects, ReceiveAck, ReadRow, Send,
             Update, Resend, Unanswered, Measure, DeclareSome, Complain, Leave, Says, Lose
        <5> QED
          BY <5>1, <5>2
      <4> QED
        BY <4>1, <4>2 DEF TInv, NodeTyped
    <3>4. Settled /\ Agreement
      BY <3>2, <3>3 DEF Settled, AInv
    <3>5. CASE Effects \/ ReceiveAck \/ Send \/ Update \/ NodeReceives
      BY <3>4, <3>5, EffectsAgree, ReceiveAckAgrees, SendAgrees, UpdateAgrees, NodeReceivesAgrees
    <3>6. CASE \E d \in Devs, field \in Fields : \E val \in Vals(field) : ReadRow(d, field, val)
      BY <3>4, <3>6, ReadRowAgrees
    <3>7. CASE Unanswered
      <4>1. [node EXCEPT !.state = "running"].cfg = node.cfg
        BY DEF TInv, NodeTyped
      <4> QED
        BY <3>4, <3>7, <4>1, NodeStepAgrees DEF Unanswered
    <3>8. CASE \/ \E S \in SUBSET Devs : \E val \in Level \cup {NaN} : Measure(S, val)
               \/ \E d \in Devs : DeclareSome(d)
               \/ Complain \/ Resend
      <4>1. \E f : Calm(f) /\ up' = Append(up, f)
        BY <3>4, <3>8, NodeSpeaksCalmly
      <4>2. NodeSide /\ node' = node /\ down' = down
        BY <3>8 DEF Measure, DeclareSome, Complain, Says, Resend
      <4> QED
        BY <3>4, <4>1, <4>2, NodeStepAgrees
    <3>9. CASE Leave
      BY <3>9, <2>2 DEF Leave, TInv, NodeTyped
    <3>10. CASE Lose
      BY <3>4, <3>10, NodeStepAgrees DEF Lose
    <3>11. CASE UNCHANGED vars
      BY <3>4, <3>11, NodeStepAgrees DEF vars, NodeSide
    <3> QED
      BY <1>2, <2>4, <3>1, <3>5, <3>6, <3>7, <3>8, <3>9, <3>10, <3>11 DEF Next, Joins
  <2> QED
    BY <2>3, <2>4
<1> QED
  BY <1>1, <1>2

LEMMA AgreementInvariant == Spec => []AInv
<1>1. Init => AInv
  BY DEF Init, AInv, Connecting, Settled
<1> QED
  BY <1>1, NextAgrees, TypesInvariant, TablesInvariant, PTL DEF Spec

\* When nothing is under way, and no fault came after the last full
\* declaration, node, registry and database agree on what each device is and
\* how often it reports, whatever PATCHes, declarations and losses came between
\* (ems, ingest, registry).
THEOREM AtRestTheyAlwaysAgree == Spec => []AtRestTheyAgree
<1>1. AInv => AtRestTheyAgree
  <2> SUFFICES ASSUME AInv, AtRest, NEW d \in DOMAIN node.cfg
               PROVE  /\ d \in DOMAIN reg.list /\ reg.list[d] = Identity(node.cfg[d])
                      /\ TypeFits(node.cfg[d]) =>
                           /\ d \in DOMAIN db.row
                           /\ db.row[d].sub = node.cfg[d].sub /\ db.row[d].period = node.cfg[d].period
    BY DEF AtRestTheyAgree
  <2>1. Agreement
    BY DEF AInv, AtRest, Settled
  <2>2. NextList = reg.list
    BY DEF AtRest, NextList
  <2>3. ~Asked(d)
    BY DEF AtRest, NoJob, Asked
  <2> QED
    BY <2>1, <2>2, <2>3 DEF Agreement, ListAgrees, RowsAgree
<1> QED
  BY <1>1, AgreementInvariant, PTL

=============================================================================
