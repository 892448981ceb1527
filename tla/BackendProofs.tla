--------------------------- MODULE BackendProofs ----------------------------
(***************************************************************************)
(* The safety properties of Backend, for any threads, requests, rules,     *)
(* devices and nodes: first what a user decides and what is carried out    *)
(* (Authorised, DecidedOnce, ResultIsTheNodes), then the settings of devices*)
(* and the alerts (SettingsBacked, AllNodesAgreed, LateIsReported), last the*)
(* types (TypeOK).                                                         *)
(*                                                                         *)
(* Authorised speaks of the requests a node has carried out.  It is not    *)
(* inductive: a request is on its way long before, so that every request   *)
(* in the queue, on the wire and in the hands of a thread has to be backed *)
(* by the committed database (Requests, JobOK), and every step has to keep *)
(* what backs it (Grows).  An open transaction must not hide a change of   *)
(* rules or executions that its commit would undo (DraftAgrees).           *)
(*                                                                         *)
(* SettingsBacked is not inductive either: a setting gets into the database*)
(* by way of an open transaction, of a thread whose node has accepted it, or*)
(* of a declaration that waits for the write lock.  In each of these places*)
(* it must be one that its device has had (StoreOK, LineOK, JobSettled);   *)
(* Keeps says what no step takes back.                                     *)
(*                                                                         *)
(* TypeOK takes, beside these, who holds the write lock from one step to the*)
(* next (Owned).                                                           *)
(***************************************************************************)
EXTENDS Backend, SequenceTheorems, TLAPS

DbFields == {"status", "snap", "execs", "prop", "nodata"}

\* The part of Database that these proofs are about; an approved rule has one order.
Shape(d) ==
  /\ DOMAIN d = DbFields
  /\ d.status \in [Rules -> Statuses]
  /\ d.snap \in [Rules -> SUBSET Order]
  /\ \A r \in Rules : \A a, b \in d.snap[r] : a = b
  /\ d.execs \in Seq(Row)

\* Only settings differ between an open transaction and the database.
DraftAgrees ==
  /\ DOMAIN draft = DbFields
  /\ draft.status = db.status /\ draft.snap = db.snap /\ draft.execs = db.execs

\* Execution i of database d is a command for which `order' may be sent.
OrderBacked(d, i, order) ==
  /\ i \in 1 .. Len(d.execs)
  /\ d.execs[i].order = order
  /\ d.execs[i].rule # Manual =>
       d.status[d.execs[i].rule] = "approved" /\ d.snap[d.execs[i].rule] = {order}

Backed(d, m) == \A order \in m.order : OrderBacked(d, m.exec, order)

\* Result rsc of execution i is what a node answered.
Given(i, rsc, done, denied) ==
  /\ rsc = "SUCCESS" => \E m \in done : m.exec = i
  /\ rsc = "REFUSED" => \E m \in denied : m.exec = i

\* What a thread holds, at each point of its request.
JobOK(d, done, denied, j) ==
  /\ DOMAIN j = DOMAIN Idle
  /\ j.pc # "idle" => j.call \in Calls
  /\ j.order \subseteq Order /\ \A a, b \in j.order : a = b
  /\ j.rsc \in Results
  /\ j.pc \in {"insert", "send"} => j.call.op \in {"execute", "manual"}
  /\ j.pc = "send" => \A order \in j.order : OrderBacked(d, j.exec, order)
  /\ j.pc = "sending" => \A m \in j.req : Backed(d, m)
  /\ j.pc = "sending" /\ j.call.op # "patch" => \A m \in j.req : m.exec = j.exec
  /\ j.pc = "finalize" => j.call.op # "patch"
  /\ j.pc \in {"ask", "update"} => j.call.op = "patch"
  /\ j.pc \in {"sending", "finalize"} /\ j.call.op # "patch" => Given(j.exec, j.rsc, done, denied)

JobsOK ==
  /\ DOMAIN job = Threads
  /\ \A t \in Threads : JobOK(db, acted, refused, job[t])

Requests == \A m \in queue \cup wire \cup acted : Backed(db, m)

AnswersOK ==
  \A a \in answers :
    /\ a.rsc \in Results
    /\ a.rsc = "SUCCESS" => a.req \in acted
    /\ a.rsc = "REFUSED" => a.req \in refused

RowsGiven(d, done, denied) ==
  \A i \in 1 .. Len(d.execs) : Given(i, d.execs[i].rsc, done, denied)

DbOK == Shape(db) /\ DraftAgrees

IInv ==
  /\ DbOK /\ JobsOK /\ Requests /\ AnswersOK
  /\ RowsGiven(db, acted, refused)

\* From database d to database e no decision and no execution is lost.
Grows(d, e) ==
  /\ Shape(e)
  /\ Len(d.execs) <= Len(e.execs)
  /\ \A i \in 1 .. Len(d.execs) :
       e.execs[i].order = d.execs[i].order /\ e.execs[i].rule = d.execs[i].rule
  /\ \A r \in Rules : d.status[r] \in {"approved", "rejected"} =>
       e.status[r] = d.status[r] /\ e.snap[r] = d.snap[r]

-----------------------------------------------------------------------------
(* What survives the growth of the database.                               *)

LEMMA GrowsSelf == \A d : Shape(d) => Grows(d, d)
BY DEF Grows, Shape

LEMMA BackedGrows ==
  ASSUME NEW d, NEW e, Shape(d), Grows(d, e), NEW i, NEW order, OrderBacked(d, i, order)
  PROVE  OrderBacked(e, i, order)
<1>1. i \in 1 .. Len(d.execs) /\ i \in 1 .. Len(e.execs)
  BY DEF OrderBacked, Grows, Shape
<1>2. d.execs[i] \in Row
  BY <1>1 DEF Shape
<1>3. d.execs[i].rule \in Rules \cup {Manual}
  BY <1>2 DEF Row
<1> QED BY <1>1, <1>3 DEF OrderBacked, Grows

LEMMA JobGrows ==
  ASSUME NEW d, NEW e, Shape(d), Grows(d, e),
         NEW done, NEW denied, NEW done2, NEW denied2, done \subseteq done2, denied \subseteq denied2,
         NEW j, JobOK(d, done, denied, j)
  PROVE  JobOK(e, done2, denied2, j)
<1>1. \A i, order : OrderBacked(d, i, order) => OrderBacked(e, i, order)
  BY BackedGrows
<1>2. \A m : Backed(d, m) => Backed(e, m)
  BY <1>1 DEF Backed
<1>3. \A i, rsc : Given(i, rsc, done, denied) => Given(i, rsc, done2, denied2)
  BY DEF Given
<1> QED BY <1>1, <1>2, <1>3 DEF JobOK

LEMMA IdleOK == \A d, done, denied : JobOK(d, done, denied, Idle)
BY DEF JobOK, Idle, Results

-----------------------------------------------------------------------------
(* Steps of the database.                                                  *)

LEMMA Commits ==
  ASSUME NEW new, Grows(db, new), CommitAs(new)
  PROVE  DbOK' /\ db' = new
BY DEF Grows, CommitAs, DbOK, DraftAgrees, Shape

LEMMA Stays ==
  ASSUME DbOK, UNCHANGED dbVars \/ \E t \in Threads : RollBack(t)
  PROVE  DbOK' /\ db' = db
BY DEF dbVars, RollBack, DbOK, DraftAgrees, Shape

\* A change of settings and alerts alone, seen from an open transaction or not.
LEMMA SettingsOnly ==
  ASSUME DbOK, NEW t, NEW v
  PROVE  /\ Grows(db, [View(t) EXCEPT !.prop = v]) /\ Grows(db, [View(t) EXCEPT !.nodata = v])
         /\ [View(t) EXCEPT !.prop = v].execs = db.execs
         /\ [View(t) EXCEPT !.nodata = v].execs = db.execs
<1>1. /\ DOMAIN View(t) = DbFields
      /\ View(t).status = db.status /\ View(t).snap = db.snap /\ View(t).execs = db.execs
  BY DEF DbOK, Shape, DraftAgrees, View
<1> QED BY <1>1 DEF DbOK, Shape, Grows, DbFields

-----------------------------------------------------------------------------
(* A step of one thread.                                                   *)

Moves(t) == DOMAIN job' = Threads /\ \A u \in Threads \ {t} : job'[u] = job[u]

LEMMA ThreadStep ==
  ASSUME IInv, NEW t \in Threads, Moves(t), DbOK', Grows(db, db'), RowsGiven(db', acted, refused),
         UNCHANGED <<acted, refused>>, answers' \subseteq answers,
         \A m \in queue' \cup wire' : m \in queue \cup wire \/ Backed(db', m),
         JobOK(db', acted, refused, job'[t])
  PROVE  IInv' /\ Grows(db, db')
<1>1. Shape(db)
  BY DEF IInv, DbOK
<1>2. \A u \in Threads : JobOK(db', acted', refused', job'[u])
  <2> SUFFICES ASSUME NEW u \in Threads, u # t
               PROVE  JobOK(db', acted, refused, job'[u])
    OBVIOUS
  <2>1. JobOK(db, acted, refused, job[u]) /\ job'[u] = job[u]
    BY DEF IInv, JobsOK, Moves
  <2> QED BY <1>1, <2>1, JobGrows
<1>3. Requests'
  <2>1. \A m : Backed(db, m) => Backed(db', m)
    BY <1>1, BackedGrows DEF Backed
  <2> QED BY <2>1 DEF IInv, Requests
<1>4. AnswersOK' /\ RowsGiven(db', acted', refused') /\ DbOK'
  BY DEF IInv, AnswersOK
<1> QED BY <1>2, <1>3, <1>4 DEF IInv, JobsOK, Moves

\* Most steps leave the line and the nodes alone.
LEMMA QuietStep ==
  ASSUME IInv, NEW t \in Threads, Moves(t), DbOK', Grows(db, db'), RowsGiven(db', acted, refused),
         Quiet, JobOK(db', acted, refused, job'[t])
  PROVE  IInv' /\ Grows(db, db')
<1>1. UNCHANGED <<acted, refused>> /\ answers' = answers /\ queue' = queue /\ wire' = wire
  BY DEF Quiet, lineVars, nodeVars
<1> QED BY <1>1, ThreadStep

\* ... and the database.
LEMMA QuietReadStep ==
  ASSUME IInv, NEW t \in Threads, Moves(t), UNCHANGED dbVars \/ RollBack(t), Quiet,
         JobOK(db, acted, refused, job'[t])
  PROVE  IInv' /\ Grows(db, db')
<1>1. DbOK' /\ db' = db
  BY Stays DEF IInv
<1> QED BY <1>1, QuietStep, GrowsSelf DEF IInv, DbOK

LEMMA Returns ==
  ASSUME JobsOK, NEW t \in Threads, Return(t)
  PROVE  /\ Moves(t) /\ job'[t] = Idle
         /\ \A d, done, denied : JobOK(d, done, denied, job'[t])
<1>1. Moves(t) /\ job'[t] = Idle
  BY DEF JobsOK, Return, Moves
<1> QED BY <1>1, IdleOK

LEMMA Goes ==
  ASSUME JobsOK, NEW t \in Threads, NEW pc, Goto(t, pc)
  PROVE  /\ Moves(t) /\ DOMAIN job'[t] = DOMAIN Idle /\ job'[t].pc = pc
         /\ job'[t].call = job[t].call /\ job'[t].order = job[t].order /\ job'[t].exec = job[t].exec
         /\ job'[t].req = job[t].req /\ job'[t].rsc = job[t].rsc
<1>1. DOMAIN job = Threads /\ DOMAIN job[t] = DOMAIN Idle
  BY DEF JobsOK, JobOK
<1>2. DOMAIN Idle = {"call", "n", "pc", "order", "exec", "base", "todo", "rows", "missing", "req",
                     "rsc", "wait", "sent"}
  BY DEF Idle
<1> QED BY <1>1, <1>2 DEF Goto, Moves

\* Going on to a point at which nothing is asked of what the thread holds.
LEMMA GoesFreely ==
  ASSUME IInv, NEW t \in Threads, job[t].pc # "idle", NEW pc, Goto(t, pc),
         pc \notin {"insert", "send", "ask", "update", "sending", "finalize"}
  PROVE  Moves(t) /\ JobOK(db, acted, refused, job'[t])
<1>1. JobsOK /\ JobOK(db, acted, refused, job[t])
  BY DEF IInv, JobsOK
<1> QED BY <1>1, Goes DEF JobOK

-----------------------------------------------------------------------------
(* Requests of clients.                                                    *)

\* What a thread that serves a request has been asked.
LEMMA Asks ==
  ASSUME IInv, NEW t \in Threads, job[t].pc # "idle"
  PROVE  /\ DbOK /\ Shape(db) /\ JobsOK /\ JobOK(db, acted, refused, job[t])
         /\ RowsGiven(db, acted, refused) /\ Grows(db, db)
         /\ Of(t) \in Calls
         /\ Of(t).op \in {"approve", "reject", "execute"} => Of(t).rule \in Rules
         /\ Of(t).op \in {"approve", "manual"} => Of(t).order \in Order
<1>1. DbOK /\ Shape(db) /\ JobsOK /\ JobOK(db, acted, refused, job[t]) /\ RowsGiven(db, acted, refused)
  BY DEF IInv, DbOK, JobsOK
<1>2. Of(t) \in Calls
  BY <1>1 DEF JobOK, Of
<1> QED BY <1>1, <1>2, CallAssumption, GrowsSelf

LEMMA BeginKeeps ==
  ASSUME IInv, NEW t \in Threads, NEW c \in Calls, Begin(t, c)
  PROVE  IInv' /\ Grows(db, db')
<1>1. /\ job'[t].pc \in {"decide", "read"} /\ job'[t].call = c /\ job'[t].order = {}
      /\ job'[t].rsc = "NONE" /\ DOMAIN job'[t] = DOMAIN Idle /\ Moves(t)
  BY DEF Begin, IInv, JobsOK, Moves, Idle
<1>2. JobOK(db, acted, refused, job'[t])
  BY <1>1 DEF JobOK, Results
<1>3. DbOK' /\ db' = db
  BY Stays DEF Begin, IInv
<1>4. UNCHANGED <<acted, refused>> /\ answers' = answers /\ queue' = queue /\ wire' = wire
  BY DEF Begin, lineVars, nodeVars
<1> QED BY <1>1, <1>2, <1>3, <1>4, ThreadStep, GrowsSelf DEF IInv, DbOK

LEMMA ReadRuleKeeps ==
  ASSUME IInv, NEW t \in Threads, ReadRule(t)
  PROVE  IInv' /\ Grows(db, db')
<1> DEFINE r == Of(t).rule
<1>1. /\ job[t].pc # "idle" /\ UNCHANGED dbVars /\ Quiet
      /\ Of(t).op \in {"approve", "reject", "execute"}
  BY DEF ReadRule, At
<1>2. r \in Rules /\ JobsOK /\ JobOK(db, acted, refused, job[t]) /\ Shape(db)
  BY <1>1, Asks
<1>3. CASE Return(t)
  BY <1>1, <1>2, <1>3, Returns, QuietReadStep
<1>4. CASE Goto(t, "decide")
  BY <1>1, <1>2, <1>4, GoesFreely, QuietReadStep
<1>5. CASE /\ Of(t).op = "execute"
           /\ job' = [job EXCEPT ![t].pc = "insert", ![t].order = db.snap[r]]
  <2>1. /\ Moves(t) /\ job'[t].pc = "insert" /\ job'[t].order = db.snap[r]
        /\ job'[t].call = job[t].call /\ job'[t].rsc = job[t].rsc
        /\ DOMAIN job'[t] = DOMAIN Idle
    BY <1>2, <1>5 DEF Moves, JobsOK, JobOK, Idle
  <2>2. db.snap[r] \subseteq Order /\ \A a, b \in db.snap[r] : a = b
    BY <1>2 DEF Shape
  <2>3. JobOK(db, acted, refused, job'[t])
    BY <1>1, <1>2, <1>5, <2>1, <2>2 DEF JobOK, Of
  <2> QED BY <1>1, <2>1, <2>3, QuietReadStep
<1> QED BY <1>3, <1>4, <1>5 DEF ReadRule

LEMMA ReadUserKeeps ==
  ASSUME IInv, NEW t \in Threads, ReadUser(t)
  PROVE  IInv' /\ Grows(db, db')
<1>1. job[t].pc # "idle" /\ UNCHANGED dbVars /\ Quiet /\ Of(t).op = "manual"
  BY DEF ReadUser, At
<1>2. JobsOK /\ JobOK(db, acted, refused, job[t]) /\ Of(t).order \in Order
  BY <1>1, Asks
<1>3. /\ Moves(t) /\ job'[t].pc = "insert" /\ job'[t].order = {Of(t).order}
      /\ job'[t].call = job[t].call /\ job'[t].rsc = job[t].rsc
      /\ DOMAIN job'[t] = DOMAIN Idle
  BY <1>2 DEF ReadUser, Moves, JobsOK, JobOK, Idle
<1>4. JobOK(db, acted, refused, job'[t])
  BY <1>1, <1>2, <1>3 DEF JobOK, Of
<1> QED BY <1>1, <1>3, <1>4, QuietReadStep

LEMMA DecideKeeps ==
  ASSUME IInv, NEW t \in Threads, Decide(t)
  PROVE  IInv' /\ Grows(db, db')
<1> DEFINE c == Of(t)
<1>1. job[t].pc # "idle" /\ Quiet /\ Return(t) /\ c.op \in {"approve", "reject"}
  BY DEF Decide, At
<1>2. /\ JobsOK /\ Shape(db) /\ RowsGiven(db, acted, refused) /\ c.rule \in Rules
      /\ c.op = "approve" => c.order \in Order
  BY <1>1, Asks
<1>3. Moves(t) /\ \A d : JobOK(d, acted, refused, job'[t])
  BY <1>1, <1>2, Returns
<1>4. CASE RollBack(t)
  BY <1>1, <1>3, <1>4, QuietReadStep
<1>5. CASE db.status[c.rule] = "draft" /\ CommitAs(Decided(c))
  <2>1. Grows(db, Decided(c)) /\ Decided(c).execs = db.execs
    <3>1. CASE c.op = "approve"
      <4> DEFINE e == [db EXCEPT !.status[c.rule] = "approved", !.snap[c.rule] = {c.order}]
      <4>1. /\ DOMAIN e = DbFields /\ e.execs = db.execs
            /\ e.status = [db.status EXCEPT ![c.rule] = "approved"]
            /\ e.snap = [db.snap EXCEPT ![c.rule] = {c.order}]
        BY <1>2 DEF Shape, DbFields
      <4>2. Shape(e)
        BY <1>2, <3>1, <4>1 DEF Shape, Statuses
      <4>3. Grows(db, e)
        BY <1>2, <1>5, <4>1, <4>2 DEF Grows, Shape
      <4> QED BY <3>1, <4>1, <4>3 DEF Decided
    <3>2. CASE c.op # "approve"
      <4> DEFINE e == [db EXCEPT !.status[c.rule] = "rejected"]
      <4>1. /\ DOMAIN e = DbFields /\ e.execs = db.execs /\ e.snap = db.snap
            /\ e.status = [db.status EXCEPT ![c.rule] = "rejected"]
        BY <1>2 DEF Shape, DbFields
      <4>2. Shape(e)
        BY <1>2, <4>1 DEF Shape, Statuses
      <4>3. Grows(db, e)
        BY <1>2, <1>5, <4>1, <4>2 DEF Grows, Shape
      <4> QED BY <3>2, <4>1, <4>3 DEF Decided
    <3> QED BY <3>1, <3>2
  <2>2. DbOK' /\ db' = Decided(c)
    BY <1>5, <2>1, Commits
  <2>3. RowsGiven(db', acted, refused)
    BY <1>2, <2>1, <2>2 DEF RowsGiven
  <2> QED BY <1>1, <1>3, <2>1, <2>2, <2>3, QuietStep
<1> QED BY <1>4, <1>5 DEF Decide, DecisionAllowed

LEMMA DraftKeeps ==
  ASSUME IInv, NEW t \in Threads, Draft(t)
  PROVE  IInv' /\ Grows(db, db')
<1>1. job[t].pc # "idle" /\ Quiet /\ Return(t)
  BY DEF Draft, At
<1>2. JobsOK /\ Shape(db) /\ RowsGiven(db, acted, refused)
  BY <1>1, Asks
<1>3. Moves(t) /\ \A d : JobOK(d, acted, refused, job'[t])
  BY <1>1, <1>2, Returns
<1>4. CASE UNCHANGED dbVars
  BY <1>1, <1>3, <1>4, QuietReadStep
<1>5. ASSUME NEW r \in Rules, db.status[r] = "absent", CommitAs([db EXCEPT !.status[r] = "draft"])
      PROVE  IInv' /\ Grows(db, db')
  <2> DEFINE e == [db EXCEPT !.status[r] = "draft"]
  <2>1. /\ DOMAIN e = DbFields /\ e.execs = db.execs /\ e.snap = db.snap
        /\ e.status = [db.status EXCEPT ![r] = "draft"]
    BY <1>2 DEF Shape, DbFields
  <2>2. Shape(e)
    BY <1>2, <2>1 DEF Shape, Statuses
  <2>3. Grows(db, e)
    BY <1>2, <1>5, <2>1, <2>2 DEF Grows, Shape
  <2>4. DbOK' /\ db' = e
    BY <1>5, <2>3, Commits
  <2>5. RowsGiven(db', acted, refused)
    BY <1>2, <2>1, <2>4 DEF RowsGiven
  <2> QED BY <1>1, <1>3, <2>3, <2>4, <2>5, QuietStep
<1> QED BY <1>4, <1>5 DEF Draft

-----------------------------------------------------------------------------
(* Executions.                                                             *)

LEMMA InsertKeeps ==
  ASSUME IInv, NEW t \in Threads, Insert(t)
  PROVE  IInv' /\ Grows(db, db')
<1> DEFINE rule == IF Of(t).op = "manual" THEN Manual ELSE Of(t).rule
<1>1. job[t].pc = "insert" /\ Quiet
  BY DEF Insert, At
<1>2. /\ JobsOK /\ JobOK(db, acted, refused, job[t]) /\ Shape(db) /\ RowsGiven(db, acted, refused)
      /\ rule \in Rules \cup {Manual}
  BY <1>1, Asks DEF JobOK, Of
<1>3. PICK order \in job[t].order :
        IF ExecutionAllowed(rule, order)
        THEN /\ Recorded(t, NewRow(rule, order))
             /\ job' = [job EXCEPT ![t].exec = Len(db.execs) + 1, ![t].pc = "send", ![t].wait = 0]
        ELSE RollBack(t) /\ Return(t)
  BY DEF Insert
<1>4. CASE ~ ExecutionAllowed(rule, order)
  BY <1>1, <1>2, <1>3, <1>4, Returns, QuietReadStep
<1>5. CASE ExecutionAllowed(rule, order)
  <2> DEFINE row == NewRow(rule, order)
             e == [db EXCEPT !.execs = Append(@, row)]
             n == Len(db.execs) + 1
  <2>1. row \in Row /\ row.rule = rule /\ row.order = order /\ row.rsc = "NONE"
    BY <1>2 DEF JobOK, NewRow, Row, Results
  <2>2. /\ DOMAIN e = DbFields /\ e.status = db.status /\ e.snap = db.snap
        /\ e.execs = Append(db.execs, row)
    BY <1>2 DEF Shape, DbFields
  <2>3. /\ e.execs \in Seq(Row) /\ Len(e.execs) = n /\ e.execs[n] = row
        /\ \A i \in 1 .. Len(db.execs) : e.execs[i] = db.execs[i]
        /\ Len(db.execs) \in Nat
    BY <1>2, <2>1, <2>2 DEF Shape
  <2>4. Grows(db, e)
    BY <1>2, <2>2, <2>3 DEF Grows, Shape
  <2>5. DbOK' /\ db' = e
    BY <1>3, <1>5, <2>4, Commits DEF Recorded
  <2>6. RowsGiven(e, acted, refused)
    <3> SUFFICES ASSUME NEW i \in 1 .. n
                 PROVE  Given(i, e.execs[i].rsc, acted, refused)
      BY <2>3 DEF RowsGiven
    <3>1. CASE i = n
      BY <2>1, <2>3, <3>1 DEF Given
    <3>2. CASE i # n
      <4>1. i \in 1 .. Len(db.execs)
        BY <2>3, <3>2
      <4> QED BY <1>2, <2>3, <4>1 DEF RowsGiven
    <3> QED BY <3>1, <3>2
  <2>7. /\ Moves(t) /\ job'[t].pc = "send" /\ job'[t].exec = n
        /\ job'[t].order = job[t].order /\ job'[t].call = job[t].call /\ job'[t].rsc = job[t].rsc
        /\ DOMAIN job'[t] = DOMAIN Idle
    BY <1>2, <1>3, <1>5 DEF Moves, JobsOK, JobOK, Idle
  <2>8. OrderBacked(e, n, order)
    BY <1>5, <2>1, <2>2, <2>3 DEF OrderBacked, ExecutionAllowed
  <2>9. JobOK(e, acted, refused, job'[t])
    BY <1>1, <1>2, <2>7, <2>8 DEF JobOK
  <2> QED BY <1>1, <2>4, <2>5, <2>6, <2>7, <2>9, QuietStep
<1> QED BY <1>4, <1>5

LEMMA HandOverKeeps ==
  ASSUME IInv, NEW t \in Threads, job[t].pc # "idle", NEW m, HandOver(t, m), Backed(db, m),
         Of(t).op # "patch" => m.exec = job[t].exec
  PROVE  IInv' /\ Grows(db, db')
<1>1. JobsOK /\ JobOK(db, acted, refused, job[t])
  BY Asks
<1>2. /\ Moves(t) /\ job'[t].pc = "sending" /\ job'[t].req = {m} /\ job'[t].rsc = "NONE"
      /\ job'[t].exec = job[t].exec /\ job'[t].order = job[t].order /\ job'[t].call = job[t].call
      /\ DOMAIN job'[t] = DOMAIN Idle
  BY <1>1 DEF HandOver, Moves, JobsOK, JobOK, Idle
<1>3. JobOK(db, acted, refused, job'[t])
  BY <1>1, <1>2 DEF JobOK, Of, Results, Given
<1>4. DbOK' /\ db' = db
  BY Stays DEF HandOver, IInv
<1>5. /\ UNCHANGED <<acted, refused>> /\ answers' = answers
      /\ \A k \in queue' \cup wire' : k \in queue \cup wire \/ k = m
  BY DEF HandOver, nodeVars
<1> QED BY <1>2, <1>3, <1>4, <1>5, ThreadStep, GrowsSelf DEF IInv, DbOK

LEMMA SendControlKeeps ==
  ASSUME IInv, NEW t \in Threads, SendControl(t)
  PROVE  IInv' /\ Grows(db, db')
<1>1. job[t].pc = "send"
  BY DEF SendControl, At
<1>2. PICK order \in job[t].order : HandOver(t, ControlRequest(t, order))
  BY DEF SendControl
<1>3. OrderBacked(db, job[t].exec, order)
  BY <1>1, Asks DEF JobOK
<1>4. Backed(db, ControlRequest(t, order)) /\ ControlRequest(t, order).exec = job[t].exec
  BY <1>3 DEF Backed, ControlRequest
<1> QED BY <1>1, <1>2, <1>4, HandOverKeeps

LEMMA FinalizeKeeps ==
  ASSUME IInv, NEW t \in Threads, Finalize(t)
  PROVE  IInv' /\ Grows(db, db')
<1> DEFINE i == job[t].exec
           e == [db EXCEPT !.execs[i] = Result(@, job[t].rsc)]
<1>1. job[t].pc = "finalize" /\ Quiet /\ Return(t) /\ CommitAs(e)
  BY DEF Finalize, At
<1>2. JobsOK /\ JobOK(db, acted, refused, job[t]) /\ Shape(db) /\ RowsGiven(db, acted, refused)
  BY <1>1, Asks
<1>3. Moves(t) /\ JobOK(e, acted, refused, job'[t])
  BY <1>1, <1>2, Returns
<1>4. /\ DOMAIN e = DbFields /\ e.status = db.status /\ e.snap = db.snap
      /\ e.execs = [db.execs EXCEPT ![i] = Result(@, job[t].rsc)]
  BY <1>2 DEF Shape, DbFields
<1>5. \A row \in Row : /\ Result(row, job[t].rsc) \in Row
                       /\ Result(row, job[t].rsc).order = row.order
                       /\ Result(row, job[t].rsc).rule = row.rule
                       /\ Result(row, job[t].rsc).rsc = job[t].rsc
  BY <1>2 DEF JobOK, Row, Result
<1>6. db.execs \in Seq(Row) /\ Len(db.execs) \in Nat
  BY <1>2 DEF Shape
<1>7. e.execs \in Seq(Row) /\ Len(e.execs) = Len(db.execs)
  <2>1. CASE i \in 1 .. Len(db.execs)
    <3>1. Result(db.execs[i], job[t].rsc) \in Row
      BY <1>5, <1>6, <2>1
    <3> QED BY <1>4, <1>6, <2>1, <3>1, ExceptSeq
  <2>2. CASE i \notin 1 .. Len(db.execs)
    <3>1. DOMAIN db.execs = 1 .. Len(db.execs) /\ db.execs = [k \in 1 .. Len(db.execs) |-> db.execs[k]]
      BY <1>6
    <3>2. e.execs = db.execs
      BY <1>4, <2>2, <3>1
    <3> QED BY <1>6, <3>2
  <2> QED BY <2>1, <2>2
<1>8. \A k \in 1 .. Len(db.execs) :
        e.execs[k] = IF k = i THEN Result(db.execs[k], job[t].rsc) ELSE db.execs[k]
  BY <1>4, <1>6
<1>9. Grows(db, e)
  BY <1>2, <1>4, <1>5, <1>6, <1>7, <1>8 DEF Grows, Shape
<1>10. RowsGiven(e, acted, refused)
  <2>1. Given(i, job[t].rsc, acted, refused)
    BY <1>1, <1>2 DEF JobOK
  <2> SUFFICES ASSUME NEW k \in 1 .. Len(db.execs)
               PROVE  Given(k, e.execs[k].rsc, acted, refused)
    BY <1>7 DEF RowsGiven
  <2>2. CASE k = i
    <3>1. e.execs[k].rsc = job[t].rsc
      BY <1>5, <1>6, <1>8, <2>2
    <3> QED BY <2>1, <2>2, <3>1
  <2>3. CASE k # i
    BY <1>2, <1>8, <2>3 DEF RowsGiven
  <2> QED BY <2>2, <2>3
<1>11. DbOK' /\ db' = e
  BY <1>1, <1>9, Commits
<1> QED BY <1>1, <1>3, <1>9, <1>10, <1>11, QuietStep

-----------------------------------------------------------------------------
(* Device properties, answers, alerts.                                     *)

LEMMA ReadInstallsKeeps ==
  ASSUME IInv, NEW t \in Threads, ReadInstalls(t)
  PROVE  IInv' /\ Grows(db, db')
<1>1. job[t].pc # "idle" /\ UNCHANGED dbVars /\ Quiet /\ Of(t).op = "patch"
  BY DEF ReadInstalls, At
<1>2. JobsOK /\ JobOK(db, acted, refused, job[t])
  BY <1>1, Asks
<1>3. CASE Return(t)
  BY <1>1, <1>2, <1>3, Returns, QuietReadStep
<1>4. CASE job' = [job EXCEPT ![t].base = db.prop, ![t].pc = "ask",
                              ![t].todo = { NodeOf[d] : d \in Of(t).devs }]
  <2>1. /\ Moves(t) /\ job'[t].pc = "ask" /\ job'[t].order = job[t].order
        /\ job'[t].call = job[t].call /\ job'[t].rsc = job[t].rsc
        /\ DOMAIN job'[t] = DOMAIN Idle
    BY <1>2, <1>4 DEF Moves, JobsOK, JobOK, Idle
  <2>2. JobOK(db, acted, refused, job'[t])
    BY <1>1, <1>2, <2>1 DEF JobOK, Of
  <2> QED BY <1>1, <2>1, <2>2, QuietReadStep
<1> QED BY <1>3, <1>4 DEF ReadInstalls

\* Only a patch asks node after node.
LEMMA AskNodeKeeps ==
  ASSUME IInv, NEW t \in Threads, AskNode(t)
  PROVE  IInv' /\ Grows(db, db')
<1> DEFINE m == PatchRequest(t, Min(job[t].todo))
<1>1. job[t].pc = "ask" /\ HandOver(t, m)
  BY DEF AskNode, At
<1>2. Backed(db, m)
  BY DEF Backed, PatchRequest
<1>3. Of(t).op = "patch"
  BY <1>1, Asks DEF JobOK, Of
<1> QED BY <1>1, <1>2, <1>3, HandOverKeeps

LEMMA UpdateKeeps ==
  ASSUME IInv, NEW t \in Threads, Update(t)
  PROVE  IInv' /\ Grows(db, db')
<1>1. job[t].pc = "update" /\ Quiet
  BY DEF Update, At
<1>2. /\ JobsOK /\ JobOK(db, acted, refused, job[t]) /\ DbOK /\ RowsGiven(db, acted, refused)
      /\ Grows(db, db)
  BY <1>1, Asks
<1>3. Moves(t) /\ \A d : Grows(db, d) => JobOK(d, acted, refused, job'[t])
  <2>1. CASE Return(t)
    BY <1>2, <2>1, Returns
  <2>2. CASE Goto(t, "ask")
    <3>1. Moves(t) /\ job'[t].pc = "ask" /\ JobOK(db, acted, refused, job'[t])
      <4>1. Of(t).op = "patch"
        BY <1>1, <1>2 DEF JobOK, Of
      <4> QED BY <1>1, <1>2, <2>2, <4>1, Goes DEF JobOK, Of
    <3> QED BY <1>2, <3>1, JobGrows DEF DbOK
  <2> QED BY <2>1, <2>2 DEF Update
<1>4. Grows(db, Patched(t)) /\ Patched(t).execs = db.execs
  BY <1>2, SettingsOnly DEF Patched
<1>5. CASE UNCHANGED dbVars
  BY <1>1, <1>2, <1>3, <1>5, QuietReadStep
<1>6. CASE CommitAs(Patched(t))
  <2>1. DbOK' /\ db' = Patched(t)
    BY <1>4, <1>6, Commits
  <2> QED BY <1>1, <1>2, <1>3, <1>4, <2>1, QuietStep DEF RowsGiven
<1>7. CASE draft' = Patched(t) /\ UNCHANGED db
  <2>1. DOMAIN Patched(t) = DbFields /\ Patched(t).status = db.status /\ Patched(t).snap = db.snap
    BY <1>2 DEF Patched, View, DbOK, Shape, DraftAgrees, DbFields
  <2>2. DbOK'
    BY <1>2, <1>4, <1>7, <2>1 DEF DbOK, DraftAgrees, Shape
  <2> QED BY <1>1, <1>2, <1>3, <1>7, <2>2, QuietStep
<1> QED BY <1>5, <1>6, <1>7 DEF Update

\* The wait of a thread ends; what it holds is unchanged.
LEMMA WaitEnds ==
  ASSUME IInv, NEW t \in Threads, job[t].pc = "sending", NoMoreAnswers(t),
         \/ Of(t).op # "patch" /\ Goto(t, "finalize") /\ UNCHANGED dbVars
         \/ Of(t).op = "patch" /\ Goto(t, "update") /\ UNCHANGED dbVars
         \/ Abort(t)
  PROVE  IInv' /\ Grows(db, db')
<1>1. JobsOK /\ JobOK(db, acted, refused, job[t])
  BY Asks
<1>2. Moves(t) /\ JobOK(db, acted, refused, job'[t])
  <2>1. CASE Of(t).op # "patch" /\ Goto(t, "finalize")
    BY <1>1, <2>1, Goes DEF JobOK, Of
  <2>2. CASE Of(t).op = "patch" /\ Goto(t, "update")
    BY <1>1, <2>2, Goes DEF JobOK, Of
  <2>3. CASE Abort(t)
    BY <1>1, <2>3, Returns DEF Abort
  <2> QED BY <2>1, <2>2, <2>3
<1>3. DbOK' /\ db' = db
  BY Stays DEF Abort, IInv
<1>4. /\ UNCHANGED <<acted, refused>> /\ answers' \subseteq answers
      /\ queue' = queue /\ wire' = wire
  BY DEF NoMoreAnswers, nodeVars
<1> QED BY <1>2, <1>3, <1>4, ThreadStep, GrowsSelf DEF IInv, DbOK

LEMMA AnsweredKeeps ==
  ASSUME IInv, NEW t \in Threads, Answered(t) \/ Expired(t)
  PROVE  IInv' /\ Grows(db, db')
BY WaitEnds DEF Answered, Expired, At

LEMMA BusyErrorKeeps ==
  ASSUME IInv, NEW t \in Threads, BusyError(t)
  PROVE  IInv' /\ Grows(db, db')
<1>1. RollBack(t) /\ Return(t) /\ Quiet /\ JobsOK
  BY DEF BusyError, Abort, IInv
<1> QED BY <1>1, Returns, QuietReadStep

LEMMA CheckKeeps ==
  ASSUME IInv, NEW t \in Threads, CheckRead(t) \/ Look(t) \/ Report(t)
  PROVE  IInv' /\ Grows(db, db')
<1>1. job[t].pc \in {"read", "look", "report"} /\ UNCHANGED dbVars /\ Quiet
  BY DEF CheckRead, Look, Report, At
<1>2. JobsOK /\ JobOK(db, acted, refused, job[t])
  BY <1>1, Asks
<1>3. CASE Return(t) \/ Goto(t, "report")
  BY <1>1, <1>2, <1>3, Returns, GoesFreely, QuietReadStep
<1>4. CASE \/ job' = [job EXCEPT ![t].pc = "look", ![t].todo = late, ![t].rows = late]
           \/ \E d \in Unalerted(t) : job' = [job EXCEPT ![t].pc = "alert", ![t].missing = {d}]
  <2>1. /\ Moves(t) /\ job'[t].pc \in {"look", "alert"} /\ job'[t].order = job[t].order
        /\ job'[t].call = job[t].call /\ job'[t].rsc = job[t].rsc
        /\ DOMAIN job'[t] = DOMAIN Idle
    BY <1>2, <1>4 DEF Moves, JobsOK, JobOK, Idle
  <2>2. JobOK(db, acted, refused, job'[t])
    BY <1>1, <1>2, <2>1 DEF JobOK
  <2> QED BY <1>1, <2>1, <2>2, QuietReadStep
<1> QED BY <1>3, <1>4 DEF CheckRead, Look, Report

LEMMA AlertKeeps ==
  ASSUME IInv, NEW t \in Threads, Alert(t)
  PROVE  IInv' /\ Grows(db, db')
<1>1. job[t].pc = "alert" /\ Goto(t, "report") /\ Quiet /\ CommitAs(Alerted(t))
  BY DEF Alert, At, RaisesAlerts
<1>2. DbOK /\ Shape(db) /\ RowsGiven(db, acted, refused)
  BY <1>1, Asks
<1>3. Grows(db, Alerted(t)) /\ Alerted(t).execs = db.execs
  BY <1>2, SettingsOnly DEF Alerted
<1>4. DbOK' /\ db' = Alerted(t)
  BY <1>1, <1>3, Commits
<1>5. Moves(t) /\ JobOK(db, acted, refused, job'[t])
  BY <1>1, GoesFreely
<1>6. JobOK(db', acted, refused, job'[t])
  BY <1>2, <1>3, <1>4, <1>5, JobGrows
<1> QED BY <1>1, <1>2, <1>3, <1>4, <1>5, <1>6, QuietStep DEF RowsGiven

-----------------------------------------------------------------------------
(* The I/O thread, nodes, time and restarts.                               *)

\* Steps that leave the threads alone and carry out nothing.
LEMMA LineStep ==
  ASSUME IInv, UNCHANGED <<job, acted, refused>>, answers' \subseteq answers,
         queue' \cup wire' \subseteq queue \cup wire,
         DbOK', Grows(db, db'), db'.execs = db.execs
  PROVE  IInv' /\ Grows(db, db')
<1>1. Shape(db)
  BY DEF IInv, DbOK
<1>2. \A t \in Threads : JobOK(db', acted', refused', job'[t])
  BY <1>1, JobGrows DEF IInv, JobsOK
<1>3. Requests'
  <2>1. \A m : Backed(db, m) => Backed(db', m)
    BY <1>1, BackedGrows DEF Backed
  <2> QED BY <2>1 DEF IInv, Requests
<1>4. AnswersOK' /\ RowsGiven(db', acted', refused')
  BY DEF IInv, AnswersOK, RowsGiven
<1> QED BY <1>2, <1>3, <1>4 DEF IInv, JobsOK

LEMMA IngestKeeps ==
  ASSUME IInv, NEW frame, Ingested(frame), UNCHANGED lineVars, NotIo
  PROVE  IInv' /\ Grows(db, db')
<1> DEFINE e == [db EXCEPT !.prop = Overwrite(@, frame.set)]
<1>1. Grows(db, e) /\ e.execs = db.execs
  BY DEF IInv, DbOK, Shape, Grows, DbFields
<1>2. DbOK' /\ db' = e
  BY <1>1, Commits DEF Ingested
<1>3. UNCHANGED <<job, acted, refused>> /\ answers' = answers /\ queue' = queue /\ wire' = wire
  BY DEF NotIo, lineVars, nodeVars
<1> QED BY <1>1, <1>2, <1>3, LineStep

\* The threads go on as they were.
LEMMA SameDb ==
  ASSUME IInv, UNCHANGED dbVars
  PROVE  DbOK' /\ db' = db /\ Grows(db, db') /\ Shape(db)
BY Stays, GrowsSelf DEF IInv, DbOK

LEMMA IoFrameKeeps ==
  ASSUME IInv, (\E frame \in Frames : IoFrame(frame)) \/ IoUnblocked \/ IoBusy
  PROVE  IInv' /\ Grows(db, db')
<1>1. CASE \E frame : Ingested(frame) /\ UNCHANGED lineVars /\ NotIo
  BY <1>1, IngestKeeps
<1>2. CASE UNCHANGED dbVars /\ UNCHANGED lineVars /\ NotIo
  <2>1. UNCHANGED <<job, acted, refused>> /\ answers' = answers /\ queue' = queue /\ wire' = wire
    BY <1>2 DEF NotIo, lineVars, nodeVars
  <2> QED BY <1>2, <2>1, SameDb, LineStep
<1> QED BY <1>1, <1>2 DEF IoFrame, IoUnblocked, IoBusy

LEMMA IoWritesKeeps ==
  ASSUME IInv, NEW m \in queue, IoWrites(m)
  PROVE  IInv' /\ Grows(db, db')
<1>1. /\ UNCHANGED <<job, acted, refused, answers, dbVars>>
      /\ queue' \cup wire' \subseteq queue \cup wire
  BY DEF IoWrites, NotIo, nodeVars
<1> QED BY <1>1, SameDb, LineStep

\* The fields of a waiting thread that JobOK speaks of, but for the result.
Alike(j, k) ==
  /\ DOMAIN k = DOMAIN j
  /\ k.pc = j.pc /\ k.call = j.call /\ k.order = j.order /\ k.exec = j.exec /\ k.req = j.req

LEMMA IoResendsKeeps ==
  ASSUME IInv, NEW t \in Threads, IoResends(t)
  PROVE  IInv' /\ Grows(db, db')
<1>1. JobsOK /\ JobOK(db, acted, refused, job[t]) /\ DOMAIN job = Threads /\ Requests
  BY DEF IInv, JobsOK
<1>2. /\ Moves(t) /\ Alike(job[t], job'[t]) /\ job'[t].rsc = job[t].rsc
  BY <1>1 DEF IoResends, Moves, JobOK, Idle, Alike
<1>3. JobOK(db, acted, refused, job'[t])
  BY <1>1, <1>2 DEF JobOK, Alike
<1>4. \A m \in queue' \cup wire' : m \in queue \cup wire \/ Backed(db, m)
  BY <1>1 DEF IoResends, Waits, At, JobOK
<1>5. UNCHANGED <<acted, refused>> /\ UNCHANGED dbVars /\ answers' = answers
  BY DEF IoResends, nodeVars
<1>6. DbOK' /\ db' = db /\ Grows(db, db') /\ RowsGiven(db', acted, refused)
  BY <1>5, SameDb DEF IInv
<1> QED BY <1>2, <1>3, <1>4, <1>5, <1>6, ThreadStep

LEMMA IoReceivesKeeps ==
  ASSUME IInv, NEW a \in answers, IoReceives(a)
  PROVE  IInv' /\ Grows(db, db')
<1>1. /\ UNCHANGED <<acted, refused, queue, wire, dbVars>> /\ answers' \subseteq answers
  BY DEF IoReceives, nodeVars
<1>2. /\ a.rsc \in Results /\ (a.rsc = "SUCCESS" => a.req \in acted)
      /\ (a.rsc = "REFUSED" => a.req \in refused)
  BY DEF IInv, AnswersOK
<1>3. DbOK' /\ db' = db
  BY <1>1, SameDb
<1>4. ASSUME NEW t \in Threads
      PROVE  JobOK(db, acted, refused, job'[t])
  <2>1. JobOK(db, acted, refused, job[t])
    BY DEF IInv, JobsOK
  <2>2. job'[t] = IF Waits(t, a.req) THEN [job[t] EXCEPT !.rsc = a.rsc] ELSE job[t]
    BY DEF IoReceives
  <2>3. CASE ~ Waits(t, a.req)
    BY <2>1, <2>2, <2>3
  <2>4. CASE Waits(t, a.req)
    <3>1. Alike(job[t], job'[t]) /\ job'[t].rsc = a.rsc
      BY <2>1, <2>2, <2>4 DEF JobOK, Idle, Alike
    <3>2. job[t].pc = "sending" /\ job[t].req = {a.req}
      BY <2>4 DEF Waits, At
    <3>3. job[t].call.op # "patch" => Given(job[t].exec, a.rsc, acted, refused)
      BY <1>2, <2>1, <3>2 DEF JobOK, Given
    <3> QED BY <1>2, <2>1, <3>1, <3>2, <3>3 DEF JobOK, Alike
  <2> QED BY <2>3, <2>4
<1>5. DOMAIN job' = Threads
  BY DEF IoReceives
<1>6. Requests' /\ AnswersOK' /\ RowsGiven(db', acted', refused')
  BY <1>1, <1>3 DEF IInv, Requests, AnswersOK
<1> QED BY <1>1, <1>3, <1>4, <1>5, <1>6, SameDb DEF IInv, JobsOK

LEMMA NodeServesKeeps ==
  ASSUME IInv, NEW m \in wire, NEW rsc \in {"SUCCESS", "REFUSED"}, NodeServes(m, rsc)
  PROVE  IInv' /\ Grows(db, db')
<1>1. UNCHANGED <<job, queue, dbVars>> /\ wire' \subseteq wire
  BY DEF NodeServes
<1>2. /\ acted \subseteq acted' /\ refused \subseteq refused' /\ acted' \subseteq acted \cup {m}
      /\ (rsc = "SUCCESS" => m \in acted') /\ (rsc = "REFUSED" => m \in refused')
  BY DEF NodeServes
<1>3. DbOK' /\ db' = db /\ Shape(db) /\ Grows(db, db)
  BY <1>1, SameDb
<1>4. JobsOK'
  <2>1. \A t \in Threads : JobOK(db, acted', refused', job[t])
    BY <1>2, <1>3, JobGrows DEF IInv, JobsOK
  <2> QED BY <1>1, <1>3, <2>1 DEF IInv, JobsOK
<1>5. Requests'
  BY <1>1, <1>2, <1>3 DEF IInv, Requests
<1>6. AnswersOK'
  BY <1>2 DEF IInv, AnswersOK, NodeServes, Results
<1>7. RowsGiven(db', acted', refused')
  BY <1>2, <1>3 DEF IInv, RowsGiven, Given
<1> QED BY <1>3, <1>4, <1>5, <1>6, <1>7 DEF IInv

LEMMA TickKeeps ==
  ASSUME IInv, Tick
  PROVE  IInv' /\ Grows(db, db')
<1>1. UNCHANGED <<acted, refused, answers, queue, wire, dbVars>>
  BY DEF Tick, lineVars, nodeVars
<1>2. DbOK' /\ db' = db
  BY <1>1, SameDb
<1>3. DOMAIN job' = Threads
  BY DEF Tick
<1>4. ASSUME NEW t \in Threads
      PROVE  JobOK(db, acted, refused, job'[t])
  <2>1. JobOK(db, acted, refused, job[t])
    BY DEF IInv, JobsOK
  <2>2. job'[t] = IF Waiting(t) THEN [job[t] EXCEPT !.wait = @ + 1] ELSE job[t]
    BY DEF Tick
  <2>3. Alike(job[t], job'[t]) /\ job'[t].rsc = job[t].rsc
    BY <2>1, <2>2 DEF JobOK, Idle, Alike
  <2> QED BY <2>1, <2>3 DEF JobOK, Alike
<1>5. Requests' /\ AnswersOK' /\ RowsGiven(db', acted', refused')
  BY <1>1, <1>2 DEF IInv, Requests, AnswersOK
<1> QED BY <1>1, <1>2, <1>3, <1>4, <1>5, SameDb DEF IInv, JobsOK

LEMMA RestartKeeps ==
  ASSUME IInv, Restart
  PROVE  IInv' /\ Grows(db, db')
<1>1. Grows(db, db)
  BY GrowsSelf DEF IInv, DbOK
<1>2. DbOK' /\ db' = db
  BY <1>1, Commits DEF Restart
<1>3. JobsOK'
  BY IdleOK DEF Restart, JobsOK
<1>4. UNCHANGED <<acted, refused, wire>> /\ queue' = {} /\ answers' = {}
  BY DEF Restart, nodeVars
<1> QED BY <1>1, <1>2, <1>3, <1>4 DEF IInv, Requests, AnswersOK

LEMMA AgesKeeps ==
  ASSUME IInv, NEW d \in Sensors, Ages(d)
  PROVE  IInv' /\ Grows(db, db')
<1>1. UNCHANGED <<job, acted, refused, answers, queue, wire, dbVars>>
  BY DEF Ages, lineVars, nodeVars
<1> QED BY <1>1, SameDb, LineStep

-----------------------------------------------------------------------------
(* The theorems.                                                           *)

LEMMA InitOK ==
  ASSUME Init
  PROVE  IInv
<1>1. /\ DOMAIN db = DbFields /\ db.status = [r \in Rules |-> "absent"]
      /\ db.snap = [r \in Rules |-> {}] /\ db.execs = << >>
  BY DEF Init, DbFields
<1>2. DbOK
  <2>1. << >> \in Seq(Row)
    OBVIOUS
  <2> QED BY <1>1, <2>1 DEF DbOK, Shape, DraftAgrees, Init, Statuses
<1>3. JobsOK
  BY IdleOK DEF JobsOK, Init
<1>4. Requests /\ AnswersOK
  BY DEF Init, Requests, AnswersOK
<1>5. RowsGiven(db, acted, refused)
  BY <1>1 DEF RowsGiven
<1> QED BY <1>2, <1>3, <1>4, <1>5 DEF IInv

LEMMA ServeKeeps ==
  ASSUME IInv, NEW t \in Threads, Serve(t)
  PROVE  IInv' /\ Grows(db, db')
BY ReadRuleKeeps, DecideKeeps, DraftKeeps, ReadUserKeeps, InsertKeeps, SendControlKeeps,
   FinalizeKeeps, ReadInstallsKeeps, AskNodeKeeps, UpdateKeeps, AnsweredKeeps, BusyErrorKeeps,
   CheckKeeps, AlertKeeps DEF Serve

LEMMA StutterKeeps ==
  ASSUME IInv, UNCHANGED vars
  PROVE  IInv' /\ Grows(db, db')
<1>1. UNCHANGED <<job, acted, refused, answers, queue, wire, dbVars>>
  BY DEF vars, lineVars, nodeVars
<1> QED BY <1>1, SameDb, LineStep

LEMMA NextKeeps ==
  ASSUME IInv, [Next]_vars
  PROVE  IInv' /\ Grows(db, db')
<1>1. CASE \E t \in Threads : Serve(t) \/ \E c \in Calls : Begin(t, c)
  BY <1>1, ServeKeeps, BeginKeeps
<1>2. CASE Io
  BY <1>2, IoFrameKeeps, IoWritesKeeps, IoResendsKeeps, IoReceivesKeeps DEF Io
<1>3. CASE \E m \in wire, rsc \in {"SUCCESS", "REFUSED"} : NodeServes(m, rsc)
  BY <1>3, NodeServesKeeps
<1>4. CASE \E d \in Sensors : Ages(d)
  BY <1>4, AgesKeeps
<1>5. CASE Tick \/ Restart
  BY <1>5, TickKeeps, RestartKeeps
<1>6. CASE UNCHANGED vars
  BY <1>6, StutterKeeps
<1> QED BY <1>1, <1>2, <1>3, <1>4, <1>5, <1>6 DEF Next

LEMMA Invariance == Spec => []IInv
<1>1. Init => IInv
  BY InitOK
<1>2. IInv /\ [Next]_vars => IInv'
  BY NextKeeps
<1> QED BY <1>1, <1>2, PTL DEF Spec

\* Whatever requests meet and whenever the process restarts, a node carries out a
\* command only as it was recorded and, for a rule, approved (fcs.execute, the
\* triggers of control_execution).
THEOREM ActsAuthorised == Spec => []Authorised
<1>1. IInv => Authorised
  BY DEF IInv, Requests, Backed, OrderBacked, Authorised
<1> QED BY <1>1, Invariance, PTL

\* What was decided about a rule stays decided, whatever two requests had read
\* before they wrote (mms, triggers of control_rule).
THEOREM DecisionsFinal == Spec => DecidedOnce
<1> DEFINE Final == \A r \in Rules : db.status[r] \in {"approved", "rejected"} =>
                      db'.status[r] = db.status[r] /\ db'.snap[r] = db.snap[r]
<1>1. IInv /\ [Next]_vars => Final
  BY NextKeeps DEF Grows
<1> QED BY <1>1, Invariance, PTL DEF Spec, DecidedOnce

\* A result in control_execution is one that a node gave for that execution
\* (fcs._send_and_finalize).
THEOREM ResultsTrue == Spec => []ResultIsTheNodes
<1>1. IInv => ResultIsTheNodes
  BY DEF IInv, RowsGiven, Given, ResultIsTheNodes
<1> QED BY <1>1, Invariance, PTL

-----------------------------------------------------------------------------
(* Settings.                                                               *)

Props == [Fields -> Vals]
RowOK(r) == r.dev \in Devices /\ r.props \in Props
RowHad(h, r) == RowOK(r) /\ \A f \in Fields : r.props[f] \in h[r.dev][f]

\* The rows of a request: at most one for a device.
SetOK(m) ==
  /\ \A r \in m.set : RowOK(r)
  /\ \A r, s \in m.set : r.dev = s.dev => r = s

AllHad(h, prop) == prop \in Settings /\ \A d \in Devices, f \in Fields : prop[d][f] \in h[d][f]

StoreOK ==
  /\ held \in [Devices -> [Fields -> SUBSET Vals]]
  /\ \A d \in Devices, f \in Fields : Factory \in held[d][f]
  /\ AllHad(held, db.prop) /\ AllHad(held, draft.prop) /\ AllHad(held, nprop)
  /\ db.nodata \in [Devices -> Nat] /\ draft.nodata = db.nodata /\ late \subseteq Devices

LineOK ==
  /\ \A m \in queue \cup wire : SetOK(m)
  /\ \A m \in acted : \A r \in m.set : RowHad(held, r)
  /\ DOMAIN io = {"pc", "frame", "wait"} /\ \A r \in io.frame.set : RowHad(held, r)

\* Node nd has carried out its part of request n.
Agreed(done, n, nd) == \E m \in done : m.n = n /\ m.node = nd

\* What a patch that base, field and val make of device d.
Wanted(j, d) == [dev |-> d, props |-> [j.base[d] EXCEPT ![j.call.field] = j.call.val]]

\* A patch: what it waits for is for its devices, and a node that is not to be
\* asked any more has agreed, or is the one it waits for.
PatchSettled(h, done, j) ==
  /\ j.base \in Settings
  /\ j.pc = "sending" =>
       \A m \in j.req : m.n = j.n
                        /\ m.set = { Wanted(j, d) : d \in { e \in j.call.devs : NodeOf[e] = m.node } }
  /\ j.pc = "sending" /\ j.rsc = "SUCCESS" => j.req \subseteq done
  /\ j.pc = "update" =>
       \A d \in j.call.devs :
         (\E m \in j.req : m.node = NodeOf[d]) => j.call.val \in h[d][j.call.field]
  /\ j.pc \in {"ask", "update"} =>
       \A d \in j.call.devs : NodeOf[d] \in j.todo \/ Agreed(done, j.n, NodeOf[d])
  /\ j.pc = "sending" =>
       \A d \in j.call.devs : \/ NodeOf[d] \in j.todo \/ Agreed(done, j.n, NodeOf[d])
                              \/ \E m \in j.req : m.node = NodeOf[d]

\* A check for late devices has them all before it, or alerts for them all.
CheckSettled(nodata, j) ==
  /\ j.pc \in {"look", "alert"} => j.rows = j.todo
  /\ j.pc \in {"look", "alert", "report"} => j.rows \subseteq Devices
  /\ j.pc = "report" => \A d \in j.rows : nodata[d] > 0
  /\ j.pc \in {"look", "alert"} => j.call.op # "patch"

JobSettled(h, done, nodata, j) ==
  /\ j.pc \in {"ask", "sending", "update"} /\ j.call.op = "patch" => PatchSettled(h, done, j)
  /\ j.pc = "sending" => \A m \in j.req : SetOK(m)
  /\ CheckSettled(nodata, j)

JobsSettled == \A t \in Threads : JobSettled(held, acted, db.nodata, job[t])

SInv == StoreOK /\ LineOK /\ JobsSettled

\* No step takes back what a device has had, a node has done, an alert says.
Keeps ==
  /\ \A d \in Devices, f \in Fields : held[d][f] \subseteq held'[d][f]
  /\ acted \subseteq acted'
  /\ db'.nodata \in [Devices -> Nat] /\ \A d \in Devices : db.nodata[d] <= db'.nodata[d]

-----------------------------------------------------------------------------
(* What survives a step.                                                   *)

LEMMA SettledKept ==
  ASSUME SInv, Keeps, NEW j, j.pc # "idle" => j.call \in Calls, JobSettled(held, acted, db.nodata, j)
  PROVE  JobSettled(held', acted', db'.nodata, j)
<1>1. \A n, nd : Agreed(acted, n, nd) => Agreed(acted', n, nd)
  BY DEF Keeps, Agreed
<1>2. ASSUME PatchSettled(held, acted, j), j.call.op = "patch", j.pc # "idle"
      PROVE  PatchSettled(held', acted', j)
  <2>1. j.call.devs \subseteq Devices /\ j.call.field \in Fields
    BY <1>2, CallAssumption
  <2> QED BY <1>1, <1>2, <2>1 DEF PatchSettled, Keeps
<1>3. CheckSettled(db'.nodata, j)
  <2>1. db.nodata \in [Devices -> Nat]
    BY DEF SInv, StoreOK
  <2> QED BY <2>1 DEF JobSettled, CheckSettled, Keeps
<1> QED BY <1>2, <1>3 DEF JobSettled

LEMMA HadKept ==
  ASSUME Keeps, NEW r, RowHad(held, r)
  PROVE  RowHad(held', r)
BY DEF RowHad, RowOK, Keeps

LEMMA AllHadKept ==
  ASSUME Keeps, NEW prop, AllHad(held, prop)
  PROVE  AllHad(held', prop)
BY DEF AllHad, Keeps

LEMMA IdleSettled == \A h, done, nodata : JobSettled(h, done, nodata, Idle)
BY DEF JobSettled, CheckSettled, Idle

\* Rows put over settings: rows of devices, at most one for each.
LEMMA Overwritten ==
  ASSUME NEW prop \in Settings, NEW rows, \A r \in rows : RowOK(r)
  PROVE  /\ Overwrite(prop, rows) \in Settings
         /\ \A d \in Devices : \/ Overwrite(prop, rows)[d] = prop[d]
                               \/ \E r \in rows : r.dev = d /\ Overwrite(prop, rows)[d] = r.props
<1>1. ASSUME NEW d \in Devices
      PROVE  \/ Overwrite(prop, rows)[d] = prop[d]
             \/ \E r \in rows : r.dev = d /\ Overwrite(prop, rows)[d] = r.props
  <2>1. CASE \E r \in rows : r.dev = d
    <3>1. (CHOOSE r \in rows : r.dev = d) \in rows /\ (CHOOSE r \in rows : r.dev = d).dev = d
      BY <2>1
    <3> QED BY <2>1, <3>1 DEF Overwrite
  <2>2. CASE ~ \E r \in rows : r.dev = d
    BY <2>2 DEF Overwrite
  <2> QED BY <2>1, <2>2
<1>2. Overwrite(prop, rows) \in Settings
  <2>1. \A d \in Devices : Overwrite(prop, rows)[d] \in [Fields -> Vals]
    BY <1>1 DEF Settings, RowOK, Props
  <2>2. DOMAIN Overwrite(prop, rows) = Devices
    BY DEF Overwrite
  <2>3. Overwrite(prop, rows) = [d \in Devices |-> Overwrite(prop, rows)[d]]
    BY DEF Overwrite
  <2> QED BY <2>1, <2>3 DEF Settings
<1> QED BY <1>1, <1>2

-----------------------------------------------------------------------------
(* A step of one thread.                                                   *)

\* AllNodesAgreed, of one step.
AgreedStep ==
  \A t \in Threads :
    Of(t).op = "patch" /\ job'[t] # job[t] /\ db'.prop # db.prop =>
      \A d \in Of(t).devs : \E m \in acted : m.n = job[t].n /\ m.node = NodeOf[d]

Settled == SInv' /\ Keeps /\ AgreedStep

LEMMA JobSettles ==
  ASSUME IInv, SInv, NEW t \in Threads, Moves(t), Keeps, StoreOK', LineOK',
         JobSettled(held', acted', db'.nodata, job'[t])
  PROVE  SInv'
<1>1. \A u \in Threads : JobSettled(held', acted', db'.nodata, job'[u])
  <2> SUFFICES ASSUME NEW u \in Threads, u # t
               PROVE  JobSettled(held', acted', db'.nodata, job'[u])
    OBVIOUS
  <2>1. job'[u] = job[u] /\ (job[u].pc # "idle" => job[u].call \in Calls)
    BY DEF Moves, IInv, JobsOK, JobOK
  <2>2. JobSettled(held, acted, db.nodata, job[u])
    BY DEF SInv, JobsSettled
  <2> QED BY <2>1, <2>2, SettledKept
<1> QED BY <1>1 DEF SInv, JobsSettled

\* Settings and alerts stay as they are, but for an open transaction that ends.
PlainDb ==
  /\ db'.prop = db.prop /\ db'.nodata = db.nodata
  /\ draft'.prop \in {db.prop, draft.prop} /\ draft'.nodata \in {db.nodata, draft.nodata}

LEMMA PlainUnchanged ==
  ASSUME UNCHANGED dbVars \/ \E t \in Threads : RollBack(t)
  PROVE  PlainDb
BY DEF dbVars, RollBack, PlainDb

LEMMA PlainCommit ==
  ASSUME NEW new, CommitAs(new), new.prop = db.prop, new.nodata = db.nodata
  PROVE  PlainDb
BY DEF CommitAs, PlainDb

LEMMA PlainStore ==
  ASSUME SInv, PlainDb, UNCHANGED <<held, acted, nprop, late>>
  PROVE  StoreOK' /\ Keeps /\ AgreedStep
<1>1. StoreOK'
  BY DEF SInv, StoreOK, PlainDb
<1>2. Keeps
  BY DEF SInv, StoreOK, PlainDb, Keeps
<1> QED BY <1>1, <1>2 DEF AgreedStep, PlainDb

LEMMA PlainStep ==
  ASSUME IInv, SInv, NEW t \in Threads, Moves(t), PlainDb,
         UNCHANGED <<held, acted, nprop, late, queue, wire, io>>,
         JobSettled(held, acted, db.nodata, job'[t])
  PROVE  Settled
<1>1. StoreOK' /\ Keeps /\ AgreedStep
  BY PlainStore
<1>2. LineOK'
  BY DEF SInv, LineOK
<1>3. JobSettled(held', acted', db'.nodata, job'[t])
  BY DEF PlainDb
<1> QED BY <1>1, <1>2, <1>3, JobSettles DEF Settled

\* Points of a request at which nothing is asked.
LEMMA Elsewhere ==
  ASSUME NEW j, j.pc \notin {"ask", "sending", "update", "look", "alert", "report"},
         NEW h, NEW done, NEW nodata
  PROVE  JobSettled(h, done, nodata, j)
BY DEF JobSettled, CheckSettled

LEMMA QuietIs ==
  ASSUME Quiet
  PROVE  UNCHANGED <<held, acted, nprop, late, queue, wire, io>>
BY DEF Quiet, lineVars, nodeVars

LEMMA ReturnSettles ==
  ASSUME IInv, SInv, NEW t \in Threads, Return(t), PlainDb, Quiet
  PROVE  Settled
<1>1. Moves(t) /\ job'[t] = Idle
  BY Returns DEF IInv
<1> QED BY <1>1, IdleSettled, QuietIs, PlainStep

-----------------------------------------------------------------------------
(* Decisions and executions.                                               *)

LEMMA BeginSettles ==
  ASSUME IInv, SInv, NEW t \in Threads, NEW c \in Calls, Begin(t, c)
  PROVE  Settled
<1>1. job'[t].pc \in {"decide", "read"} /\ Moves(t)
  BY DEF Begin, IInv, JobsOK, Moves, Idle
<1>2. PlainDb /\ UNCHANGED <<held, acted, nprop, late, queue, wire, io>>
  BY PlainUnchanged DEF Begin, lineVars, nodeVars
<1>3. JobSettled(held, acted, db.nodata, job'[t])
  BY <1>1, Elsewhere
<1> QED BY <1>1, <1>2, <1>3, PlainStep

LEMMA ReadsSettle ==
  ASSUME IInv, SInv, NEW t \in Threads, ReadRule(t) \/ ReadUser(t)
  PROVE  Settled
<1>1. UNCHANGED dbVars /\ Quiet /\ JobsOK /\ DOMAIN job[t] = DOMAIN Idle
  BY DEF ReadRule, ReadUser, IInv, JobsOK, JobOK
<1>2. CASE Return(t)
  BY <1>1, <1>2, PlainUnchanged, ReturnSettles
<1>3. CASE ~ Return(t)
  <2>1. Moves(t) /\ job'[t].pc \in {"decide", "insert"}
    BY <1>1, <1>3 DEF ReadRule, ReadUser, Goto, Moves, JobsOK, Idle
  <2> QED BY <1>1, <2>1, PlainUnchanged, Elsewhere, QuietIs, PlainStep
<1> QED BY <1>2, <1>3

LEMMA RuleWritesSettle ==
  ASSUME IInv, SInv, NEW t \in Threads, Decide(t) \/ Draft(t) \/ Finalize(t)
  PROVE  Settled
<1>1. Return(t) /\ Quiet /\ DOMAIN db = DbFields
  BY DEF Decide, Draft, Finalize, IInv, DbOK, Shape
<1>2. PlainDb
  <2>1. CASE Decide(t)
    <3>1. Decided(Of(t)).prop = db.prop /\ Decided(Of(t)).nodata = db.nodata
      BY <1>1 DEF Decided, DbFields
    <3> QED BY <2>1, <3>1, PlainCommit, PlainUnchanged DEF Decide
  <2>2. CASE Draft(t)
    <3>1. \A r : /\ [db EXCEPT !.status[r] = "draft"].prop = db.prop
                 /\ [db EXCEPT !.status[r] = "draft"].nodata = db.nodata
      BY <1>1 DEF DbFields
    <3> QED BY <2>2, <3>1, PlainCommit, PlainUnchanged DEF Draft
  <2>3. CASE Finalize(t)
    <3> DEFINE e == [db EXCEPT !.execs[job[t].exec] = Result(@, job[t].rsc)]
    <3>1. e.prop = db.prop /\ e.nodata = db.nodata /\ CommitAs(e)
      BY <1>1, <2>3 DEF DbFields, Finalize
    <3> QED BY <3>1, PlainCommit
  <2> QED BY <2>1, <2>2, <2>3
<1> QED BY <1>1, <1>2, ReturnSettles

LEMMA InsertSettles ==
  ASSUME IInv, SInv, NEW t \in Threads, Insert(t)
  PROVE  Settled
<1>1. Quiet /\ DOMAIN db = DbFields /\ JobsOK /\ DOMAIN job[t] = DOMAIN Idle
  BY DEF Insert, IInv, DbOK, Shape, JobsOK, JobOK
<1>2. CASE RollBack(t) /\ Return(t)
  BY <1>1, <1>2, PlainUnchanged, ReturnSettles
<1>3. ASSUME NEW row, Recorded(t, row),
             job' = [job EXCEPT ![t].exec = Len(db.execs) + 1, ![t].pc = "send", ![t].wait = 0]
      PROVE  Settled
  <2>1. Moves(t) /\ job'[t].pc = "send"
    BY <1>1, <1>3 DEF Moves, JobsOK, Idle
  <2>2. PlainDb
    <3>1. /\ [db EXCEPT !.execs = Append(@, row)].prop = db.prop
          /\ [db EXCEPT !.execs = Append(@, row)].nodata = db.nodata
      BY <1>1 DEF DbFields
    <3> QED BY <1>3, <3>1, PlainCommit DEF Recorded
  <2> QED BY <1>1, <2>1, <2>2, Elsewhere, QuietIs, PlainStep
<1> QED BY <1>2, <1>3 DEF Insert

-----------------------------------------------------------------------------
(* Requests to nodes.                                                      *)

LEMMA HandOverSettles ==
  ASSUME IInv, SInv, NEW t \in Threads, NEW m, HandOver(t, m), SetOK(m),
         \A j : /\ j.pc = "sending" /\ j.req = {m} /\ j.rsc = "NONE"
                /\ j.call = job[t].call /\ j.n = job[t].n /\ j.base = job[t].base
                /\ j.todo = job[t].todo \ {m.node}
                => (j.call.op = "patch" => PatchSettled(held, acted, j))
  PROVE  Settled
<1>1. JobsOK /\ DOMAIN job[t] = DOMAIN Idle
  BY DEF IInv, JobsOK, JobOK
<1>2. /\ Moves(t) /\ job'[t].pc = "sending" /\ job'[t].req = {m} /\ job'[t].rsc = "NONE"
      /\ job'[t].call = job[t].call /\ job'[t].n = job[t].n /\ job'[t].base = job[t].base
      /\ job'[t].todo = job[t].todo \ {m.node}
  BY <1>1 DEF HandOver, Moves, JobsOK, Idle
<1>3. PlainDb /\ UNCHANGED <<held, acted, nprop, late, io>>
  BY PlainUnchanged DEF HandOver, nodeVars
<1>4. StoreOK' /\ Keeps /\ AgreedStep
  BY <1>3, PlainStore
<1>5. LineOK'
  BY <1>3 DEF SInv, LineOK, HandOver
<1>6. JobSettled(held', acted', db'.nodata, job'[t])
  <2>1. job'[t].call.op = "patch" => PatchSettled(held, acted, job'[t])
    BY <1>2
  <2> QED BY <1>2, <1>3, <2>1 DEF JobSettled, CheckSettled
<1> QED BY <1>2, <1>4, <1>5, <1>6, JobSettles DEF Settled

LEMMA SendControlSettles ==
  ASSUME IInv, SInv, NEW t \in Threads, SendControl(t)
  PROVE  Settled
<1>1. job[t].pc = "send"
  BY DEF SendControl, At
<1>2. PICK order \in job[t].order : HandOver(t, ControlRequest(t, order))
  BY DEF SendControl
<1>3. job[t].call.op # "patch"
  BY <1>1 DEF IInv, JobsOK, JobOK
<1>4. SetOK(ControlRequest(t, order))
  BY DEF SetOK, ControlRequest
<1> QED BY <1>2, <1>3, <1>4, HandOverSettles

LEMMA AskNodeSettles ==
  ASSUME IInv, SInv, NEW t \in Threads, AskNode(t)
  PROVE  Settled
<1> DEFINE m == PatchRequest(t, Min(job[t].todo))
<1>1. job[t].pc = "ask" /\ HandOver(t, m)
  BY DEF AskNode, At
<1>2. job[t].call.op = "patch" /\ job[t].call \in Calls
  BY <1>1 DEF IInv, JobsOK, JobOK
<1>3. PatchSettled(held, acted, job[t])
  BY <1>1, <1>2 DEF SInv, JobsSettled, JobSettled
<1>4. /\ job[t].base \in Settings /\ job[t].call.devs \subseteq Devices
      /\ job[t].call.field \in Fields /\ job[t].call.val \in Vals
  BY <1>2, <1>3, CallAssumption DEF PatchSettled
<1>5. /\ m.n = job[t].n
      /\ m.set = { Wanted(job[t], d) : d \in { e \in job[t].call.devs : NodeOf[e] = m.node } }
  BY DEF PatchRequest, Part, FullProperty, Wanted, Of
<1>6. SetOK(m)
  BY <1>4, <1>5 DEF SetOK, RowOK, Wanted, Settings, Props
<1>7. ASSUME NEW j, j.pc = "sending", j.req = {m}, j.rsc = "NONE",
             j.call = job[t].call, j.n = job[t].n, j.base = job[t].base,
             j.todo = job[t].todo \ {m.node}
      PROVE  PatchSettled(held, acted, j)
  <2>1. \A d \in j.call.devs : NodeOf[d] \in job[t].todo \/ Agreed(acted, j.n, NodeOf[d])
    BY <1>1, <1>3, <1>7 DEF PatchSettled
  <2>2. \A d \in j.call.devs : \/ NodeOf[d] \in j.todo \/ Agreed(acted, j.n, NodeOf[d])
                               \/ \E k \in j.req : k.node = NodeOf[d]
    BY <2>1, <1>7
  <2>3. m.set = { Wanted(j, d) : d \in { e \in j.call.devs : NodeOf[e] = m.node } }
    BY <1>5, <1>7 DEF Wanted
  <2> QED BY <1>4, <1>5, <1>7, <2>2, <2>3 DEF PatchSettled
<1> QED BY <1>1, <1>6, <1>7, HandOverSettles

LEMMA ReadInstallsSettles ==
  ASSUME IInv, SInv, NEW t \in Threads, ReadInstalls(t)
  PROVE  Settled
<1>1. UNCHANGED dbVars /\ Quiet /\ JobsOK /\ DOMAIN job[t] = DOMAIN Idle
  BY DEF ReadInstalls, IInv, JobsOK, JobOK
<1>2. CASE Return(t)
  BY <1>1, <1>2, PlainUnchanged, ReturnSettles
<1>3. CASE job' = [job EXCEPT ![t].base = db.prop, ![t].pc = "ask",
                              ![t].todo = { NodeOf[d] : d \in Of(t).devs }]
  <2>1. /\ Moves(t) /\ job'[t].pc = "ask" /\ job'[t].call = job[t].call
        /\ job'[t].base = db.prop /\ job'[t].todo = { NodeOf[d] : d \in job[t].call.devs }
    BY <1>1, <1>3 DEF Moves, JobsOK, Idle, Of
  <2>2. PatchSettled(held, acted, job'[t])
    BY <2>1 DEF SInv, StoreOK, AllHad, PatchSettled
  <2>3. JobSettled(held, acted, db.nodata, job'[t])
    BY <2>1, <2>2 DEF JobSettled, CheckSettled
  <2> QED BY <1>1, <2>1, <2>3, PlainUnchanged, QuietIs, PlainStep
<1> QED BY <1>2, <1>3 DEF ReadInstalls

LEMMA AnsweredSettles ==
  ASSUME IInv, SInv, NEW t \in Threads, Answered(t) \/ Expired(t)
  PROVE  Settled
<1>1. job[t].pc = "sending" /\ NoMoreAnswers(t) /\ JobsOK
  BY DEF Answered, Expired, At, IInv
<1>2. UNCHANGED <<held, acted, nprop, late, queue, wire, io>>
  BY <1>1 DEF NoMoreAnswers, nodeVars
<1>3. CASE Abort(t)
  <2>1. Moves(t) /\ job'[t] = Idle /\ PlainDb
    BY <1>1, <1>3, Returns, PlainUnchanged DEF Abort
  <2> QED BY <1>2, <2>1, IdleSettled, PlainStep
<1>4. CASE Goto(t, "finalize") /\ UNCHANGED dbVars
  <2>1. Moves(t) /\ job'[t].pc = "finalize" /\ PlainDb
    BY <1>1, <1>4, Goes, PlainUnchanged
  <2> QED BY <1>2, <2>1, Elsewhere, PlainStep
<1>5. CASE Of(t).op = "patch" /\ Accepted(job[t].rsc) /\ Goto(t, "update") /\ UNCHANGED dbVars
  <2>1. /\ Moves(t) /\ job'[t].pc = "update" /\ job'[t].call = job[t].call
        /\ job'[t].req = job[t].req /\ job'[t].rsc = job[t].rsc /\ PlainDb
    BY <1>1, <1>5, Goes, PlainUnchanged
  <2>2. job'[t].n = job[t].n /\ job'[t].base = job[t].base /\ job'[t].todo = job[t].todo
    BY <1>1, <1>5 DEF Goto, JobsOK, JobOK, Idle
  <2>3. PatchSettled(held, acted, job[t])
    BY <1>1, <1>5 DEF SInv, JobsSettled, JobSettled, Of
  <2>4. job[t].req \subseteq acted
    BY <1>1, <1>5, <2>3 DEF PatchSettled, Accepted
  <2>5. ASSUME NEW d \in job[t].call.devs, NEW m \in job[t].req, m.node = NodeOf[d]
        PROVE  job[t].call.val \in held[d][job[t].call.field]
    <3>1. Wanted(job[t], d) \in m.set
      BY <1>1, <2>3, <2>5 DEF PatchSettled
    <3>2. RowHad(held, Wanted(job[t], d))
      BY <2>4, <3>1 DEF SInv, LineOK
    <3>3. job[t].call.field \in Fields /\ d \in Devices /\ job[t].base \in Settings
      BY <1>1, <1>5, <2>3, CallAssumption DEF JobsOK, JobOK, Of, PatchSettled
    <3>4. Wanted(job[t], d).props[job[t].call.field] = job[t].call.val
      BY <3>3 DEF Wanted, Settings
    <3> QED BY <3>2, <3>3, <3>4 DEF RowHad, Wanted
  <2>6. \A d \in job[t].call.devs : NodeOf[d] \in job[t].todo \/ Agreed(acted, job[t].n, NodeOf[d])
    BY <1>1, <2>3, <2>4 DEF PatchSettled, Agreed
  <2>7. PatchSettled(held, acted, job'[t])
    BY <2>1, <2>2, <2>3, <2>5, <2>6 DEF PatchSettled
  <2>8. JobSettled(held, acted, db.nodata, job'[t])
    BY <2>1, <2>7 DEF JobSettled, CheckSettled
  <2> QED BY <1>2, <2>1, <2>8, PlainStep
<1> QED BY <1>3, <1>4, <1>5 DEF Answered, Expired

LEMMA BusyErrorSettles ==
  ASSUME IInv, SInv, NEW t \in Threads, BusyError(t)
  PROVE  Settled
BY PlainUnchanged, ReturnSettles DEF BusyError, Abort

-----------------------------------------------------------------------------
(* Writes of settings and of alerts.                                       *)

LEMMA ViewSettled ==
  ASSUME IInv, SInv, NEW t
  PROVE  DOMAIN View(t) = DbFields /\ AllHad(held, View(t).prop) /\ View(t).nodata = db.nodata
BY DEF View, SInv, StoreOK, IInv, DbOK, Shape, DraftAgrees

LEMMA PatchedHad ==
  ASSUME IInv, SInv, NEW t \in Threads, job[t].pc = "update"
  PROVE  AllHad(held, Patched(t).prop) /\ Patched(t).nodata = db.nodata
<1> DEFINE f == Of(t).field
           v == Of(t).val
           old == View(t).prop
           new == Patched(t).prop
<1>1. DOMAIN View(t) = DbFields /\ AllHad(held, old) /\ View(t).nodata = db.nodata
  BY ViewSettled
<1>2. job[t].call.op = "patch" /\ job[t].call \in Calls
  BY DEF IInv, JobsOK, JobOK
<1>3. f \in Fields /\ v \in Vals /\ PatchSettled(held, acted, job[t])
  BY <1>2, CallAssumption DEF SInv, JobsSettled, JobSettled, Of
<1>4. /\ new = [d \in Devices |-> IF d \in Changed(t) THEN [old[d] EXCEPT ![f] = v] ELSE old[d]]
      /\ Patched(t).nodata = db.nodata
  BY <1>1 DEF Patched, DbFields
<1>5. \A d \in Changed(t) : v \in held[d][f]
  BY <1>3 DEF PatchSettled, Changed, Asked, Of
<1>6. ASSUME NEW d \in Devices
      PROVE  new[d] \in Props /\ \A g \in Fields : new[d][g] \in held[d][g]
  <2>1. old[d] \in Props /\ \A g \in Fields : old[d][g] \in held[d][g]
    BY <1>1 DEF AllHad, Settings, Props
  <2>2. CASE d \in Changed(t)
    <3>1. new[d] = [old[d] EXCEPT ![f] = v] /\ v \in held[d][f]
      BY <1>4, <1>5, <2>2
    <3> QED BY <1>3, <2>1, <3>1 DEF Props
  <2>3. CASE d \notin Changed(t)
    BY <1>4, <2>1, <2>3
  <2> QED BY <2>2, <2>3
<1>7. new \in Settings
  <2>1. new = [d \in Devices |-> new[d]]
    BY <1>4
  <2> QED BY <1>6, <2>1 DEF Settings, Props
<1> QED BY <1>4, <1>6, <1>7 DEF AllHad

LEMMA UpdateSettles ==
  ASSUME IInv, SInv, NEW t \in Threads, Update(t)
  PROVE  Settled
<1>1. job[t].pc = "update" /\ Quiet /\ JobsOK /\ DOMAIN job[t] = DOMAIN Idle
  BY DEF Update, At, IInv, JobsOK, JobOK
<1>2. UNCHANGED <<held, acted, nprop, late, queue, wire, io>>
  BY <1>1, QuietIs
<1>3. job[t].call.op = "patch" /\ PatchSettled(held, acted, job[t])
  BY <1>1 DEF IInv, JobsOK, JobOK, SInv, JobsSettled, JobSettled
<1>4. Moves(t) /\ JobSettled(held, acted, db.nodata, job'[t])
  <2>1. CASE Return(t)
    BY <1>1, <2>1, Returns, IdleSettled
  <2>2. CASE Goto(t, "ask")
    <3>1. Moves(t) /\ job'[t].pc = "ask" /\ job'[t].call = job[t].call
      BY <1>1, <2>2, Goes
    <3>2. job'[t].n = job[t].n /\ job'[t].base = job[t].base /\ job'[t].todo = job[t].todo
      BY <1>1, <2>2 DEF Goto, JobsOK, Idle
    <3>3. PatchSettled(held, acted, job'[t])
      BY <1>1, <1>3, <3>1, <3>2 DEF PatchSettled
    <3> QED BY <3>1, <3>3 DEF JobSettled, CheckSettled
  <2> QED BY <2>1, <2>2 DEF Update
<1>5. CASE UNCHANGED dbVars
  BY <1>2, <1>4, <1>5, PlainUnchanged, PlainStep
<1>6. LineOK'
  BY <1>2 DEF SInv, LineOK
<1>7. CASE CommitsNow(t) /\ CommitAs(Patched(t))
  <2>1. /\ AllHad(held, db'.prop) /\ AllHad(held, draft'.prop)
        /\ db'.nodata = db.nodata /\ draft'.nodata = db.nodata
    BY <1>1, <1>7, PatchedHad DEF CommitAs
  <2>2. StoreOK' /\ Keeps
    BY <1>2, <2>1 DEF SInv, StoreOK, Keeps
  <2>3. AgreedStep
    <3>1. \A d \in job[t].call.devs : Agreed(acted, job[t].n, NodeOf[d])
      BY <1>1, <1>3, <1>7 DEF PatchSettled, CommitsNow, LastNode
    <3> QED BY <1>4, <3>1 DEF AgreedStep, Agreed, Moves, Of
  <2>4. JobSettled(held', acted', db'.nodata, job'[t])
    BY <1>2, <1>4, <2>1
  <2> QED BY <1>4, <1>6, <2>2, <2>3, <2>4, JobSettles DEF Settled
<1>8. CASE draft' = Patched(t) /\ UNCHANGED db
  <2>1. AllHad(held, draft'.prop) /\ draft'.nodata = db.nodata
    BY <1>1, <1>8, PatchedHad
  <2>2. StoreOK' /\ Keeps
    BY <1>2, <1>8, <2>1 DEF SInv, StoreOK, Keeps
  <2>3. AgreedStep
    BY <1>8 DEF AgreedStep
  <2>4. JobSettled(held', acted', db'.nodata, job'[t])
    BY <1>2, <1>4, <1>8
  <2> QED BY <1>4, <1>6, <2>2, <2>3, <2>4, JobSettles DEF Settled
<1> QED BY <1>5, <1>7, <1>8 DEF Update

LEMMA CheckSettles ==
  ASSUME IInv, SInv, NEW t \in Threads, CheckRead(t) \/ Look(t) \/ Report(t)
  PROVE  Settled
<1>1. UNCHANGED dbVars /\ Quiet /\ JobsOK /\ DOMAIN job[t] = DOMAIN Idle
  BY DEF CheckRead, Look, Report, IInv, JobsOK, JobOK
<1>2. CASE Report(t)
  BY <1>1, <1>2, PlainUnchanged, ReturnSettles DEF Report
<1>3. CASE CheckRead(t)
  <2>1. /\ Moves(t) /\ job'[t].pc = "look" /\ job'[t].rows = late /\ job'[t].todo = late
        /\ job'[t].call.op = "check"
    BY <1>1, <1>3 DEF CheckRead, Moves, JobsOK, Idle, Of
  <2>2. JobSettled(held, acted, db.nodata, job'[t])
    BY <2>1 DEF JobSettled, CheckSettled, SInv, StoreOK
  <2> QED BY <1>1, <2>1, <2>2, PlainUnchanged, QuietIs, PlainStep
<1>4. CASE Look(t)
  <2>1. job[t].pc = "look"
    BY <1>4 DEF Look, At
  <2>2. job[t].rows = job[t].todo /\ job[t].rows \subseteq Devices
    BY <2>1 DEF SInv, JobsSettled, JobSettled, CheckSettled
  <2>3. CASE Unalerted(t) = {} /\ Goto(t, "report")
    <3>1. /\ Moves(t) /\ job'[t].pc = "report" /\ job'[t].rows = job[t].rows
      BY <1>1, <2>3 DEF Goto, Moves, JobsOK, Idle
    <3>2. \A d \in job[t].rows : db.nodata[d] # 0 /\ db.nodata[d] \in Nat
      BY <2>2, <2>3, ViewSettled DEF Unalerted, SInv, StoreOK
    <3>3. JobSettled(held, acted, db.nodata, job'[t])
      BY <2>2, <3>1, <3>2 DEF JobSettled, CheckSettled
    <3> QED BY <1>1, <3>1, <3>3, PlainUnchanged, QuietIs, PlainStep
  <2>4. ASSUME NEW d \in Unalerted(t), job' = [job EXCEPT ![t].pc = "alert", ![t].missing = {d}]
        PROVE  Settled
    <3>1. /\ Moves(t) /\ job'[t].pc = "alert" /\ job'[t].rows = job[t].rows
          /\ job'[t].todo = job[t].todo /\ job'[t].call = job[t].call
      BY <1>1, <2>4 DEF Moves, JobsOK, Idle
    <3>2. job[t].call.op # "patch"
      BY <2>1 DEF SInv, JobsSettled, JobSettled, CheckSettled
    <3>3. JobSettled(held, acted, db.nodata, job'[t])
      BY <2>2, <3>1, <3>2 DEF JobSettled, CheckSettled
    <3> QED BY <1>1, <3>1, <3>3, PlainUnchanged, QuietIs, PlainStep
  <2> QED BY <1>4, <2>3, <2>4 DEF Look
<1> QED BY <1>2, <1>3, <1>4

LEMMA AlertSettles ==
  ASSUME IInv, SInv, NEW t \in Threads, Alert(t)
  PROVE  Settled
<1> DEFINE old == View(t).nodata
           new == Alerted(t).nodata
<1>1. /\ job[t].pc = "alert" /\ CommitAs(Alerted(t)) /\ Goto(t, "report") /\ Quiet
      /\ JobsOK /\ DOMAIN job[t] = DOMAIN Idle
  BY DEF Alert, At, RaisesAlerts, IInv, JobsOK, JobOK
<1>2. UNCHANGED <<held, acted, nprop, late, queue, wire, io>>
  BY <1>1, QuietIs
<1>3. /\ DOMAIN View(t) = DbFields /\ AllHad(held, View(t).prop)
      /\ old = db.nodata /\ old \in [Devices -> Nat]
  BY ViewSettled DEF SInv, StoreOK
<1>4. /\ job[t].rows = job[t].todo /\ job[t].rows \subseteq Devices
      /\ job[t].call.op # "patch"
  BY <1>1 DEF SInv, JobsSettled, JobSettled, CheckSettled
<1>5. /\ Alerted(t).prop = View(t).prop
      /\ new = [d \in Devices |-> IF d \in Unalerted(t) \cup job[t].missing
                                  THEN old[d] + 1 ELSE old[d]]
  BY <1>3 DEF Alerted, DbFields
<1>6. new \in [Devices -> Nat] /\ \A d \in Devices : old[d] <= new[d]
  <2>1. \A d \in Devices : new[d] \in Nat /\ old[d] <= new[d]
    <3> SUFFICES ASSUME NEW d \in Devices
                 PROVE  new[d] \in Nat /\ old[d] <= new[d]
      OBVIOUS
    <3>1. old[d] \in Nat /\ new[d] \in {old[d], old[d] + 1}
      BY <1>3, <1>5
    <3> QED BY <3>1
  <2> QED BY <1>5, <2>1
<1>7. \A d \in job[t].rows : new[d] > 0
  <2> SUFFICES ASSUME NEW d \in job[t].rows
               PROVE  new[d] > 0
    OBVIOUS
  <2>1. d \in Devices /\ d \in job[t].todo /\ old[d] \in Nat
    BY <1>3, <1>4
  <2>2. CASE old[d] = 0
    <3>1. d \in Unalerted(t)
      BY <2>1, <2>2 DEF Unalerted
    <3> QED BY <1>5, <2>1, <2>2, <3>1
  <2>3. CASE old[d] # 0
    BY <1>6, <2>1, <2>3
  <2> QED BY <2>2, <2>3
<1>8. db' = Alerted(t) /\ draft' = Alerted(t)
  BY <1>1 DEF CommitAs
<1>9. StoreOK' /\ Keeps
  BY <1>2, <1>3, <1>5, <1>6, <1>8 DEF SInv, StoreOK, Keeps
<1>10. LineOK'
  BY <1>2 DEF SInv, LineOK
<1>11. /\ Moves(t) /\ job'[t].pc = "report" /\ job'[t].rows = job[t].rows
  BY <1>1 DEF Goto, Moves, JobsOK, Idle
<1>12. JobSettled(held', acted', db'.nodata, job'[t])
  BY <1>4, <1>7, <1>8, <1>11 DEF JobSettled, CheckSettled
<1>13. AgreedStep
  BY <1>4, <1>11 DEF AgreedStep, Moves, Of
<1> QED BY <1>9, <1>10, <1>11, <1>12, <1>13, JobSettles DEF Settled

-----------------------------------------------------------------------------
(* The I/O thread, nodes, time and restarts.                               *)

\* Steps that leave the threads alone.
LEMMA SameJobs ==
  ASSUME IInv, SInv, UNCHANGED job, Keeps, StoreOK', LineOK'
  PROVE  Settled
<1>1. ASSUME NEW t \in Threads
      PROVE  JobSettled(held', acted', db'.nodata, job'[t])
  <2>1. JobSettled(held, acted, db.nodata, job[t]) /\ (job[t].pc # "idle" => job[t].call \in Calls)
    BY DEF SInv, JobsSettled, IInv, JobsOK, JobOK
  <2> QED BY <2>1, SettledKept
<1> QED BY <1>1 DEF Settled, SInv, JobsSettled, AgreedStep

LEMMA IngestSettles ==
  ASSUME IInv, SInv, NEW frame, \A r \in frame.set : RowHad(held, r),
         Ingested(frame), UNCHANGED lineVars, NotIo
  PROVE  Settled
<1> DEFINE new == Overwrite(db.prop, frame.set)
<1>1. db.prop \in Settings /\ AllHad(held, db.prop) /\ DOMAIN db = DbFields
  BY DEF SInv, StoreOK, AllHad, IInv, DbOK, Shape
<1>2. AllHad(held, new)
  <2>1. \A r \in frame.set : RowOK(r)
    BY DEF RowHad
  <2>2. /\ new \in Settings
        /\ \A d \in Devices : \/ new[d] = db.prop[d]
                              \/ \E r \in frame.set : r.dev = d /\ new[d] = r.props
    BY <1>1, <2>1, Overwritten
  <2>3. ASSUME NEW d \in Devices, NEW f \in Fields
        PROVE  new[d][f] \in held[d][f]
    <3>1. CASE new[d] = db.prop[d]
      BY <1>1, <3>1 DEF AllHad
    <3>2. CASE \E r \in frame.set : r.dev = d /\ new[d] = r.props
      BY <3>2 DEF RowHad
    <3> QED BY <2>2, <3>1, <3>2
  <2> QED BY <2>2, <2>3 DEF AllHad
<1>3. /\ db'.prop = new /\ draft'.prop = new
      /\ db'.nodata = db.nodata /\ draft'.nodata = db.nodata
  BY <1>1 DEF Ingested, CommitAs, DbFields
<1>4. UNCHANGED <<job, held, acted, nprop, queue, wire>> /\ late' \subseteq late
  BY DEF NotIo, lineVars, nodeVars, Ingested
<1>5. StoreOK' /\ Keeps
  BY <1>2, <1>3, <1>4 DEF SInv, StoreOK, Keeps
<1>6. LineOK'
  BY <1>4 DEF SInv, LineOK, Ingested, NoFrame
<1> QED BY <1>4, <1>5, <1>6, SameJobs

\* A node declares what its devices have or, of a Fixed field, have had.
LEMMA FramesHad ==
  ASSUME SInv, NEW frame \in Frames
  PROVE  \A r \in frame.set : RowHad(held, r)
<1> SUFFICES ASSUME NEW nd \in Nodes, NEW r \in Declared(nd)
             PROVE  RowHad(held, r)
  BY DEF Frames
<1>1. PICK d \in Devices :
        r = [dev |-> d, props |-> [f \in Fields |-> IF f \in Fixed THEN Factory ELSE nprop[d][f]]]
  BY DEF Declared
<1>2. \A f \in Fields : r.props[f] \in Vals /\ r.props[f] \in held[d][f]
  BY <1>1, BackendAssumption DEF SInv, StoreOK, AllHad, Settings
<1>3. r.dev = d /\ r.props \in Props
  BY <1>1, <1>2 DEF Props
<1> QED BY <1>2, <1>3 DEF RowHad, RowOK

LEMMA SameStore ==
  ASSUME IInv, SInv, UNCHANGED <<db, draft, held, acted, nprop>>, late' \subseteq Devices
  PROVE  StoreOK' /\ Keeps /\ AgreedStep
BY DEF SInv, StoreOK, Keeps, AgreedStep

LEMMA IoFrameSettles ==
  ASSUME IInv, SInv, (\E frame \in Frames : IoFrame(frame)) \/ IoUnblocked \/ IoBusy
  PROVE  Settled
<1>1. \A r \in io.frame.set : RowHad(held, r)
  BY DEF SInv, LineOK
<1>2. CASE \E frame \in Frames : Ingested(frame) /\ UNCHANGED lineVars /\ NotIo
  BY <1>2, FramesHad, IngestSettles
<1>3. CASE Ingested(io.frame) /\ UNCHANGED lineVars /\ NotIo
  BY <1>1, <1>3, IngestSettles
<1>4. ASSUME NEW pc, NEW frame, \A r \in frame.set : RowHad(held, r),
             io' = [pc |-> pc, frame |-> frame, wait |-> 0],
             UNCHANGED <<dbVars, late, lineVars>>, NotIo
      PROVE  Settled
  <2>1. UNCHANGED <<db, draft, job, held, acted, nprop, queue, wire, late>>
    BY <1>4 DEF NotIo, dbVars, lineVars, nodeVars
  <2>2. StoreOK' /\ Keeps
    BY <2>1, SameStore DEF SInv, StoreOK
  <2>3. LineOK'
    BY <1>4, <2>1 DEF SInv, LineOK
  <2> QED BY <2>1, <2>2, <2>3, SameJobs
<1>5. \A r \in NoFrame.set : RowHad(held, r)
  BY DEF NoFrame
<1> QED BY <1>2, <1>3, <1>4, <1>5, FramesHad DEF IoFrame, IoUnblocked, IoBusy

LEMMA IoWritesSettles ==
  ASSUME IInv, SInv, NEW m \in queue, IoWrites(m)
  PROVE  Settled
<1>1. UNCHANGED <<db, draft, job, held, acted, nprop, io, late>>
  BY DEF IoWrites, NotIo, dbVars, nodeVars
<1>2. StoreOK' /\ Keeps
  BY <1>1, SameStore DEF SInv, StoreOK
<1>3. LineOK'
  BY <1>1 DEF SInv, LineOK, IoWrites
<1> QED BY <1>1, <1>2, <1>3, SameJobs

\* What JobSettled speaks of, but for the result.
SameAim(j, k) ==
  /\ k.pc = j.pc /\ k.call = j.call /\ k.n = j.n /\ k.base = j.base
  /\ k.todo = j.todo /\ k.rows = j.rows /\ k.req = j.req

LEMMA AimSettled ==
  ASSUME NEW h, NEW done, NEW nodata, NEW j, NEW k, SameAim(j, k), JobSettled(h, done, nodata, j),
         k.rsc = j.rsc \/ (k.rsc = "SUCCESS" => k.req \subseteq done)
  PROVE  JobSettled(h, done, nodata, k)
<1>1. \A d : Wanted(k, d) = Wanted(j, d)
  BY DEF SameAim, Wanted
<1>2. PatchSettled(h, done, j) => PatchSettled(h, done, k)
  BY <1>1 DEF SameAim, PatchSettled
<1> QED BY <1>2 DEF SameAim, JobSettled, CheckSettled

LEMMA IoResendsSettles ==
  ASSUME IInv, SInv, NEW t \in Threads, IoResends(t)
  PROVE  Settled
<1>1. UNCHANGED <<db, draft, held, acted, nprop, io, late, queue>>
  BY DEF IoResends, dbVars, nodeVars
<1>2. /\ Moves(t) /\ SameAim(job[t], job'[t]) /\ job'[t].rsc = job[t].rsc
  BY DEF IoResends, Moves, IInv, JobsOK, JobOK, Idle, SameAim
<1>3. JobSettled(held, acted, db.nodata, job[t])
  BY DEF SInv, JobsSettled
<1>4. StoreOK' /\ Keeps /\ AgreedStep
  BY <1>1, SameStore DEF SInv, StoreOK
<1>5. LineOK'
  BY <1>1, <1>3 DEF SInv, LineOK, IoResends, Waits, At, JobSettled
<1>6. JobSettled(held', acted', db'.nodata, job'[t])
  BY <1>1, <1>2, <1>3, AimSettled
<1> QED BY <1>2, <1>4, <1>5, <1>6, JobSettles DEF Settled

LEMMA IoReceivesSettles ==
  ASSUME IInv, SInv, NEW a \in answers, IoReceives(a)
  PROVE  Settled
<1>1. UNCHANGED <<db, draft, held, acted, nprop, io, late, queue, wire>>
  BY DEF IoReceives, dbVars, nodeVars
<1>2. StoreOK' /\ Keeps /\ AgreedStep
  BY <1>1, SameStore DEF SInv, StoreOK
<1>3. LineOK'
  BY <1>1 DEF SInv, LineOK
<1>4. ASSUME NEW t \in Threads
      PROVE  JobSettled(held, acted, db.nodata, job'[t])
  <2>1. JobSettled(held, acted, db.nodata, job[t]) /\ DOMAIN job[t] = DOMAIN Idle
    BY DEF SInv, JobsSettled, IInv, JobsOK, JobOK
  <2>2. job'[t] = IF Waits(t, a.req) THEN [job[t] EXCEPT !.rsc = a.rsc] ELSE job[t]
    BY DEF IoReceives
  <2>3. CASE ~ Waits(t, a.req)
    BY <2>1, <2>2, <2>3
  <2>4. CASE Waits(t, a.req)
    <3>1. SameAim(job[t], job'[t]) /\ job'[t].rsc = a.rsc
      BY <2>1, <2>2, <2>4 DEF Idle, SameAim
    <3>2. job'[t].rsc = "SUCCESS" => job'[t].req \subseteq acted
      BY <2>4, <3>1 DEF IInv, AnswersOK, SameAim, Waits
    <3> QED BY <2>1, <3>1, <3>2, AimSettled
  <2> QED BY <2>3, <2>4
<1> QED BY <1>1, <1>2, <1>3, <1>4 DEF Settled, SInv, JobsSettled

LEMMA NodeServesSettles ==
  ASSUME IInv, SInv, NEW m \in wire, NEW rsc \in {"SUCCESS", "REFUSED"}, NodeServes(m, rsc)
  PROVE  Settled
<1>1. UNCHANGED <<db, draft, job, io, late, queue>> /\ wire' \subseteq wire
  BY DEF NodeServes, dbVars
<1>2. SetOK(m) /\ StoreOK /\ nprop \in Settings
  BY DEF SInv, LineOK, StoreOK, AllHad
<1>3. CASE rsc # "SUCCESS"
  <2>1. UNCHANGED <<acted, nprop, held>>
    BY <1>3 DEF NodeServes
  <2>2. StoreOK' /\ Keeps
    BY <1>1, <1>2, <2>1, SameStore DEF StoreOK
  <2>3. LineOK'
    BY <1>1, <2>1 DEF SInv, LineOK
  <2> QED BY <1>1, <2>2, <2>3, SameJobs
<1>4. CASE rsc = "SUCCESS"
  <2>1. /\ acted' = acted \cup {m} /\ nprop' = Overwrite(nprop, m.set)
        /\ held' = [d \in Devices |-> [f \in Fields |-> held[d][f] \cup {nprop'[d][f]}]]
    BY <1>4 DEF NodeServes
  <2>2. /\ nprop' \in Settings
        /\ \A d \in Devices : \/ nprop'[d] = nprop[d]
                              \/ \E r \in m.set : r.dev = d /\ nprop'[d] = r.props
    BY <1>2, <2>1, Overwritten DEF SetOK
  <2>3. \A d \in Devices, f \in Fields :
          held[d][f] \subseteq held'[d][f] /\ nprop'[d][f] \in held'[d][f]
    BY <2>1
  <2>4. held' \in [Devices -> [Fields -> SUBSET Vals]]
    BY <1>2, <2>1, <2>2 DEF StoreOK, Settings
  <2>5. Keeps
    BY <1>1, <1>2, <2>1, <2>3 DEF Keeps, StoreOK
  <2>6. StoreOK'
    <3>1. AllHad(held', db.prop) /\ AllHad(held', draft.prop)
      BY <1>2, <2>5, AllHadKept DEF StoreOK
    <3>2. AllHad(held', nprop')
      BY <2>2, <2>3 DEF AllHad
    <3> QED BY <1>1, <1>2, <2>3, <2>4, <3>1, <3>2 DEF StoreOK
  <2>7. \A r \in m.set : RowHad(held', r)
    <3> SUFFICES ASSUME NEW r \in m.set
                 PROVE  RowHad(held', r)
      OBVIOUS
    <3>1. RowOK(r) /\ \A s \in m.set : s.dev = r.dev => s = r
      BY <1>2 DEF SetOK
    <3>2. nprop'[r.dev] = r.props
      <4>1. \E s \in m.set : s.dev = r.dev
        OBVIOUS
      <4>2. LET s == CHOOSE s \in m.set : s.dev = r.dev IN s \in m.set /\ s.dev = r.dev
        BY <4>1
      <4> QED BY <2>1, <3>1, <4>1, <4>2 DEF Overwrite, RowOK
    <3> QED BY <2>3, <3>1, <3>2 DEF RowHad, RowOK
  <2>8. LineOK'
    <3>1. \A r : RowHad(held, r) => RowHad(held', r)
      BY <2>5, HadKept
    <3> QED BY <1>1, <2>1, <2>7, <3>1 DEF SInv, LineOK
  <2> QED BY <1>1, <2>5, <2>6, <2>8, SameJobs
<1> QED BY <1>3, <1>4

LEMMA TickSettles ==
  ASSUME IInv, SInv, Tick
  PROVE  Settled
<1>1. UNCHANGED <<db, draft, held, acted, nprop, late, queue, wire>>
  BY DEF Tick, dbVars, lineVars, nodeVars
<1>2. StoreOK' /\ Keeps /\ AgreedStep
  BY <1>1, SameStore DEF SInv, StoreOK
<1>3. LineOK'
  <2>1. DOMAIN io' = {"pc", "frame", "wait"} /\ io'.frame = io.frame
    BY DEF Tick, SInv, LineOK
  <2> QED BY <1>1, <2>1 DEF SInv, LineOK
<1>4. ASSUME NEW t \in Threads
      PROVE  JobSettled(held, acted, db.nodata, job'[t])
  <2>1. JobSettled(held, acted, db.nodata, job[t]) /\ DOMAIN job[t] = DOMAIN Idle
    BY DEF SInv, JobsSettled, IInv, JobsOK, JobOK
  <2>2. job'[t] = IF Waiting(t) THEN [job[t] EXCEPT !.wait = @ + 1] ELSE job[t]
    BY DEF Tick
  <2>3. SameAim(job[t], job'[t]) /\ job'[t].rsc = job[t].rsc
    BY <2>1, <2>2 DEF Idle, SameAim
  <2> QED BY <2>1, <2>3, AimSettled
<1> QED BY <1>1, <1>2, <1>3, <1>4 DEF Settled, SInv, JobsSettled

LEMMA RestartSettles ==
  ASSUME IInv, SInv, Restart
  PROVE  Settled
<1>1. /\ UNCHANGED <<db, held, acted, nprop, late, wire>> /\ draft' = db /\ queue' = {}
      /\ io' = [pc |-> "idle", frame |-> NoFrame, wait |-> 0]
  BY DEF Restart, CommitAs, nodeVars
<1>2. StoreOK' /\ Keeps /\ AgreedStep
  BY <1>1 DEF SInv, StoreOK, Keeps, AgreedStep
<1>3. LineOK'
  BY <1>1 DEF SInv, LineOK, NoFrame
<1>4. JobsSettled'
  BY IdleSettled DEF Restart, JobsSettled
<1> QED BY <1>2, <1>3, <1>4 DEF Settled, SInv

LEMMA AgesSettles ==
  ASSUME IInv, SInv, (\E d \in Sensors : Ages(d)) \/ UNCHANGED vars
  PROVE  Settled
<1>1. UNCHANGED <<db, draft, job, io, held, acted, nprop, queue, wire>>
  BY DEF Ages, vars, dbVars, lineVars, nodeVars
<1>2. late' \subseteq Devices
  BY BackendAssumption DEF Ages, vars, SInv, StoreOK
<1>3. StoreOK' /\ Keeps
  BY <1>1, <1>2, SameStore
<1>4. LineOK'
  BY <1>1 DEF SInv, LineOK
<1> QED BY <1>1, <1>3, <1>4, SameJobs

-----------------------------------------------------------------------------
(* The theorems.                                                           *)

LEMMA InitSettled ==
  ASSUME Init
  PROVE  SInv
<1>1. /\ db.prop = [d \in Devices |-> [f \in Fields |-> Factory]]
      /\ db.nodata = [d \in Devices |-> 0] /\ draft = db /\ nprop = db.prop /\ late = {}
      /\ held = [d \in Devices |-> [f \in Fields |-> {Factory}]]
  BY DEF Init
<1>2. StoreOK
  BY <1>1, BackendAssumption DEF StoreOK, AllHad, Settings
<1>3. LineOK
  BY DEF Init, LineOK, NoFrame
<1>4. JobsSettled
  BY IdleSettled DEF Init, JobsSettled
<1> QED BY <1>2, <1>3, <1>4 DEF SInv

LEMMA ServeSettles ==
  ASSUME IInv, SInv, NEW t \in Threads, Serve(t)
  PROVE  Settled
BY ReadsSettle, RuleWritesSettle, InsertSettles, SendControlSettles, ReadInstallsSettles,
   AskNodeSettles, UpdateSettles, AnsweredSettles, BusyErrorSettles, CheckSettles, AlertSettles
   DEF Serve

LEMMA NextSettles ==
  ASSUME IInv, SInv, [Next]_vars
  PROVE  Settled
<1>1. CASE \E t \in Threads : Serve(t) \/ \E c \in Calls : Begin(t, c)
  BY <1>1, ServeSettles, BeginSettles
<1>2. CASE Io
  BY <1>2, IoFrameSettles, IoWritesSettles, IoResendsSettles, IoReceivesSettles DEF Io
<1>3. CASE \E m \in wire, rsc \in {"SUCCESS", "REFUSED"} : NodeServes(m, rsc)
  BY <1>3, NodeServesSettles
<1>4. CASE (\E d \in Sensors : Ages(d)) \/ UNCHANGED vars
  BY <1>4, AgesSettles
<1>5. CASE Tick \/ Restart
  BY <1>5, TickSettles, RestartSettles
<1> QED BY <1>1, <1>2, <1>3, <1>4, <1>5 DEF Next

LEMMA SettingsInvariance == Spec => []SInv
<1>1. Init => SInv
  BY InitSettled
<1>2. IInv /\ SInv /\ [Next]_vars => SInv'
  BY NextSettles DEF Settled
<1> QED BY <1>1, <1>2, Invariance, PTL DEF Spec

\* However patches, declarations, transactions and restarts interleave, the database
\* holds no setting that its device did not have at some time (ems.set_device_property
\* writes after the node has accepted, ingest what the node declares).
THEOREM SettingsTrue == Spec => []SettingsBacked
<1>1. SInv => SettingsBacked
  BY DEF SInv, StoreOK, AllHad, SettingsBacked
<1> QED BY <1>1, SettingsInvariance, PTL

\* A patch of devices of several nodes reaches the database only when every one of
\* those nodes has accepted it (the commit after the loop of ems).
THEOREM PatchesAgreed == Spec => AllNodesAgreed
<1> DEFINE Step ==
      \A t \in Threads :
        Of(t).op = "patch" /\ job'[t] # job[t] /\ db'.prop # db.prop =>
          \A d \in Of(t).devs : \E m \in acted : m.n = job[t].n /\ m.node = NodeOf[d]
<1>1. IInv /\ SInv /\ [Next]_vars => Step
  BY NextSettles DEF Settled, AgreedStep
<1> QED BY <1>1, Invariance, SettingsInvariance, PTL DEF Spec, AllNodesAgreed

\* Whatever checks run side by side, the list a check answers with has an alert for
\* every device that was late when it read them (fms.check_stale_devices).
THEOREM LatenessReported == Spec => []LateIsReported
<1>1. SInv => LateIsReported
  BY DEF SInv, JobsSettled, JobSettled, CheckSettled, LateIsReported, At
<1> QED BY <1>1, SettingsInvariance, PTL

-----------------------------------------------------------------------------
(* The types.                                                              *)

\* A database is a record of its tables; Shape and StoreOK say what is in them.
IsRecord(d) == d = [x \in DbFields |-> d[x]]
DbTyped == IsRecord(db) /\ IsRecord(draft)

\* A write lock that outlasts a step is held by a patch that asks its nodes.
Patching(j) == j.pc \in {"ask", "sending", "update"} /\ j.call.op = "patch"
Owned ==
  /\ owner \in Threads \cup {NoOne}
  /\ owner = NoOne => draft = db
  /\ \A t \in Threads : owner = t => Patching(job[t])

Aside ==
  /\ \E h \in Histories : IsPrefix(calls, h)
  /\ io.pc \in {"idle", "blocked", "dead"} /\ io.wait \in 0 .. BusyLimit
  /\ faults \in 0 .. MaxFaults /\ late \subseteq Sensors

TInv == DbTyped /\ Owned /\ Aside

\* A record with one field changed is a record with the same fields.
LEMMA RecordMade ==
  ASSUME NEW d, DOMAIN d = DbFields, NEW x, NEW v
  PROVE  IsRecord([d EXCEPT ![x] = v]) /\ DOMAIN [d EXCEPT ![x] = v] = DbFields
BY DEF IsRecord

\* A record whose tables are typed is a database.
LEMMA RecordTyped ==
  ASSUME NEW d, IsRecord(d), d.status \in [Rules -> Statuses], d.snap \in [Rules -> SUBSET Order],
         d.execs \in Seq(Row), d.prop \in Settings, d.nodata \in [Devices -> Nat]
  PROVE  d \in Database
<1>1. d = [status |-> d.status, snap |-> d.snap, execs |-> d.execs, prop |-> d.prop,
           nodata |-> d.nodata]
  BY DEF IsRecord, DbFields
<1> QED BY <1>1 DEF Database

\* The invariants together give the types.
LEMMA TypesFollow == ASSUME IInv, SInv, TInv PROVE TypeOK
<1>1. db \in Database /\ draft \in Database
  BY RecordTyped DEF IInv, DbOK, Shape, DraftAgrees, SInv, StoreOK, AllHad, TInv, DbTyped
<1> QED BY <1>1 DEF TypeOK, TInv, Owned, Patching, Aside, SInv, StoreOK, AllHad

\* The lock when the database stays as it is, ...
LEMMA LockStays ==
  ASSUME TInv, UNCHANGED dbVars, \A u \in Threads : owner = u => Patching(job'[u])
  PROVE  DbTyped' /\ Owned'
BY DEF TInv, DbTyped, Owned, dbVars

\* ... when a connection is closed, ...
LEMMA LockReleased ==
  ASSUME TInv, NEW t \in Threads, Moves(t), RollBack(t)
  PROVE  DbTyped' /\ Owned'
<1>1. DbTyped' /\ owner' \in Threads \cup {NoOne} /\ (owner' = NoOne => draft' = db')
  BY DEF TInv, DbTyped, Owned, RollBack
<1>2. owner' # t /\ (owner' = NoOne \/ owner' = owner)
  BY BackendAssumption DEF RollBack
<1>3. ASSUME NEW u \in Threads, owner' = u PROVE Patching(job'[u])
  <2>1. u # t /\ owner = u
    BY <1>2, <1>3, BackendAssumption
  <2> QED BY <2>1 DEF Moves, TInv, Owned
<1> QED BY <1>1, <1>3 DEF Owned

\* ... and when a transaction is committed.
LEMMA LockDone ==
  ASSUME NEW new, IsRecord(new), CommitAs(new)
  PROVE  DbTyped' /\ Owned'
BY BackendAssumption DEF CommitAs, DbTyped, Owned

\* Only a thread amid a patch can hold the lock.
LEMMA NotTheOwner ==
  ASSUME TInv, NEW t \in Threads, job[t].pc \notin {"ask", "sending", "update"}
  PROVE  owner # t
BY DEF TInv, Owned, Patching

\* Reads and the first request of an execution.
LEMMA ReadsTyped ==
  ASSUME IInv, TInv, NEW t \in Threads,
         \/ ReadRule(t) \/ ReadUser(t) \/ SendControl(t) \/ ReadInstalls(t)
         \/ CheckRead(t) \/ Look(t) \/ Report(t)
  PROVE  DbTyped' /\ Owned'
<1>1. /\ job[t].pc \in {"read", "send", "look", "report"} /\ UNCHANGED dbVars
  BY DEF ReadRule, ReadUser, SendControl, HandOver, ReadInstalls, CheckRead, Look, Report, At, dbVars
<1>2. Moves(t)
  BY DEF ReadRule, ReadUser, SendControl, HandOver, ReadInstalls, CheckRead, Look, Report, Return,
         Goto, Moves, IInv, JobsOK
<1>3. ASSUME NEW u \in Threads, owner = u PROVE Patching(job'[u])
  <2>1. u # t
    BY <1>1, <1>3, NotTheOwner
  <2> QED BY <1>2, <1>3, <2>1 DEF Moves, TInv, Owned
<1> QED BY <1>1, <1>3, LockStays

\* A patch asks its next node with the lock it has.
LEMMA AskTyped ==
  ASSUME IInv, TInv, NEW t \in Threads, AskNode(t)
  PROVE  DbTyped' /\ Owned'
<1>1. PICK m : HandOver(t, m)
  BY DEF AskNode
<1>2. UNCHANGED dbVars /\ Moves(t)
  BY <1>1 DEF HandOver, Moves, IInv, JobsOK
<1>3. Patching(job'[t])
  <2>1. DOMAIN job = Threads /\ DOMAIN job[t] = DOMAIN Idle /\ job[t].call.op = "patch"
    BY DEF AskNode, At, IInv, JobsOK, JobOK
  <2>2. job'[t].pc = "sending" /\ job'[t].call = job[t].call
    BY <1>1, <2>1 DEF HandOver, Idle
  <2> QED BY <2>1, <2>2 DEF Patching
<1>4. ASSUME NEW u \in Threads, owner = u PROVE Patching(job'[u])
  BY <1>2, <1>3, <1>4 DEF Moves, TInv, Owned
<1> QED BY <1>2, <1>4, LockStays

\* An answer or the end of the wait: the patch goes on or gives the lock back.
LEMMA AnswerTyped ==
  ASSUME IInv, TInv, NEW t \in Threads, Answered(t) \/ Expired(t)
  PROVE  DbTyped' /\ Owned'
<1>1. CASE Abort(t)
  BY <1>1, Returns, LockReleased DEF Abort, IInv
<1>2. CASE UNCHANGED dbVars /\ Of(t).op # "patch" /\ Goto(t, "finalize")
  <2>1. Moves(t) /\ owner # t
    BY <1>2, Goes DEF TInv, Owned, Patching, Of, IInv
  <2> QED BY <1>2, <2>1, LockStays DEF Moves, TInv, Owned
<1>3. CASE UNCHANGED dbVars /\ Of(t).op = "patch" /\ Goto(t, "update")
  <2>1. Moves(t) /\ Patching(job'[t])
    BY <1>3, Goes DEF Patching, Of, IInv
  <2> QED BY <1>3, <2>1, LockStays DEF Moves, TInv, Owned
<1> QED BY <1>1, <1>2, <1>3 DEF Answered, Expired

\* Each write is of a record, and ends its transaction.
LEMMA WritesTyped ==
  ASSUME IInv, TInv, NEW t \in Threads,
         Decide(t) \/ Draft(t) \/ Insert(t) \/ Finalize(t) \/ Alert(t)
  PROVE  DbTyped' /\ Owned'
<1>1. DOMAIN db = DbFields /\ DOMAIN View(t) = DbFields /\ JobsOK
  BY DEF IInv, DbOK, Shape, DraftAgrees, View
<1>2. CASE \E new : CommitAs(new) /\ IsRecord(new)
  BY <1>2, LockDone
<1>3. CASE RollBack(t) /\ Return(t)
  BY <1>1, <1>3, Returns, LockReleased
<1>4. CASE UNCHANGED dbVars /\ Return(t) /\ job[t].pc = "decide"
  <2>1. Moves(t) /\ owner # t
    BY <1>1, <1>4, Returns, NotTheOwner
  <2> QED BY <1>4, <2>1, LockStays DEF Moves, TInv, Owned
<1>5. CASE Decide(t)
  <2>1. IsRecord(Decided(Of(t)))
    BY <1>1, RecordMade DEF Decided, DbFields
  <2> QED BY <1>2, <1>3, <1>5, <2>1 DEF Decide
<1>6. CASE Draft(t)
  <2>1. \A r : IsRecord([db EXCEPT !.status[r] = "draft"])
    BY <1>1, RecordMade
  <2> QED BY <1>2, <1>4, <1>6, <2>1 DEF Draft, At
<1>7. CASE Insert(t)
  <2>1. \A row : IsRecord([db EXCEPT !.execs = Append(@, row)])
    BY <1>1, RecordMade
  <2> QED BY <1>2, <1>3, <1>7, <2>1 DEF Insert, Recorded
<1>8. CASE Finalize(t)
  <2>1. IsRecord([db EXCEPT !.execs[job[t].exec] = Result(@, job[t].rsc)])
    BY <1>1, RecordMade
  <2> QED BY <1>2, <1>8, <2>1 DEF Finalize
<1>9. CASE Alert(t)
  <2>1. IsRecord(Alerted(t))
    BY <1>1, RecordMade DEF Alerted
  <2> QED BY <1>2, <1>9, <2>1 DEF Alert, RaisesAlerts
<1> QED BY <1>5, <1>6, <1>7, <1>8, <1>9

\* A patch takes the lock with its first row and keeps it until its last node.
LEMMA UpdateTyped ==
  ASSUME IInv, TInv, NEW t \in Threads, Update(t)
  PROVE  DbTyped' /\ Owned'
<1>1. IsRecord(Patched(t)) /\ JobsOK /\ job[t].pc = "update" /\ job[t].call.op = "patch"
  BY RecordMade DEF Patched, IInv, DbOK, Shape, DraftAgrees, View, Update, At, JobsOK, JobOK
<1>2. Moves(t) /\ (LastNode(t) \/ Patching(job'[t]))
  <2>1. CASE LastNode(t)
    BY <1>1, <2>1, Returns DEF Update
  <2>2. CASE ~LastNode(t)
    <3>1. Goto(t, "ask")
      BY <2>2 DEF Update
    <3>2. Moves(t) /\ job'[t].pc = "ask" /\ job'[t].call = job[t].call
      BY <1>1, <3>1, Goes
    <3> QED BY <1>1, <3>2 DEF Patching
  <2> QED BY <2>1, <2>2
<1>3. CASE Changed(t) = {} /\ owner # t
  <2>1. UNCHANGED dbVars
    BY <1>3 DEF Update
  <2> QED BY <1>2, <1>3, <2>1, LockStays DEF Moves, TInv, Owned
<1>4. CASE CommitAs(Patched(t))
  BY <1>1, <1>4, LockDone
<1>5. CASE ~LastNode(t) /\ draft' = Patched(t) /\ owner' = t /\ UNCHANGED db
  <2>1. Patching(job'[t])
    BY <1>2, <1>5
  <2> QED BY <1>1, <1>5, <2>1, BackendAssumption DEF TInv, DbTyped, Owned
<1> QED BY <1>3, <1>4, <1>5 DEF Update, CommitsNow

\* The steps of a thread leave the I/O thread alone.
LEMMA ServeTyped ==
  ASSUME IInv, TInv, NEW t \in Threads, Serve(t)
  PROVE  TInv'
<1>1. UNCHANGED <<calls, io, late, faults>>
  BY DEF Serve, ReadRule, Decide, Draft, ReadUser, Insert, SendControl, Finalize, ReadInstalls, AskNode,
         Update, Answered, Expired, BusyError, CheckRead, Look, Alert, Report, HandOver, NoMoreAnswers,
         Quiet
<1>2. Aside'
  BY <1>1 DEF TInv, Aside
<1>3. ASSUME BusyError(t) PROVE DbTyped' /\ Owned'
  <2>1. RollBack(t) /\ Return(t) /\ JobsOK
    BY <1>3 DEF BusyError, Abort, IInv
  <2>2. Moves(t)
    BY <2>1, Returns
  <2> QED BY <2>1, <2>2, LockReleased
<1>4. DbTyped' /\ Owned'
  BY <1>3, ReadsTyped, AskTyped, AnswerTyped, WritesTyped, UpdateTyped DEF Serve
<1> QED BY <1>2, <1>4 DEF TInv

\* A request more of one of the histories.
LEMMA BeginTyped ==
  ASSUME IInv, TInv, NEW t \in Threads, NEW c \in Calls, Begin(t, c)
  PROVE  TInv'
<1>1. Aside'
  BY DEF Begin, TInv, Aside
<1>2. UNCHANGED dbVars /\ Moves(t) /\ owner # t
  BY NotTheOwner DEF Begin, At, Moves, IInv, JobsOK
<1>3. DbTyped' /\ Owned'
  BY <1>2, LockStays DEF Moves, TInv, Owned
<1> QED BY <1>1, <1>3 DEF TInv

\* Frames: the I/O thread waits for the lock, takes it for one step, or ends.
LEMMA IoFrameTyped ==
  ASSUME IInv, TInv, (\E frame \in Frames : IoFrame(frame)) \/ IoUnblocked \/ IoBusy
  PROVE  TInv'
<1>1. UNCHANGED <<job, calls, faults>>
  BY DEF IoFrame, IoUnblocked, IoBusy, NotIo
<1>2. io'.pc \in {"idle", "blocked", "dead"} /\ io'.wait = 0 /\ late' \subseteq late
  <2>1. ASSUME NEW frame, Ingested(frame)
        PROVE  io'.pc = "idle" /\ io'.wait = 0 /\ late' \subseteq late
    BY <2>1 DEF Ingested
  <2>2. ASSUME NEW frame, IoFrame(frame)
        PROVE  io'.pc \in {"idle", "blocked"} /\ io'.wait = 0 /\ late' \subseteq late
    BY <2>1, <2>2 DEF IoFrame
  <2>3. CASE IoUnblocked
    BY <2>1, <2>3 DEF IoUnblocked
  <2>4. CASE IoBusy
    BY <2>4 DEF IoBusy
  <2> QED BY <2>2, <2>3, <2>4
<1>3. Aside'
  BY <1>1, <1>2, BackendAssumption DEF TInv, Aside
<1>4. CASE UNCHANGED dbVars
  <2>1. \A u \in Threads : owner = u => Patching(job'[u])
    BY <1>1 DEF TInv, Owned
  <2>2. DbTyped' /\ Owned'
    BY <1>4, <2>1, LockStays
  <2> QED BY <1>3, <2>2 DEF TInv
<1>5. CASE \E frame : Ingested(frame)
  <2>1. \A v : IsRecord([db EXCEPT !.prop = v])
    BY RecordMade DEF IInv, DbOK, Shape
  <2>2. PICK frame : CommitAs([db EXCEPT !.prop = Overwrite(@, frame.set)])
    BY <1>5 DEF Ingested
  <2>3. DbTyped' /\ Owned'
    BY <2>1, <2>2, LockDone
  <2> QED BY <1>3, <2>3 DEF TInv
<1> QED BY <1>4, <1>5 DEF IoFrame, IoUnblocked, IoBusy

\* Steps that leave the database and what each thread is at.
LEMMA LockUnmoved ==
  ASSUME TInv, UNCHANGED dbVars, Aside',
         \A u \in Threads : job'[u].pc = job[u].pc /\ job'[u].call = job[u].call
  PROVE  TInv'
BY LockStays DEF TInv, Owned, Patching

\* Requests and answers on their way leave the database alone.
LEMMA LineTyped ==
  ASSUME IInv, TInv, \/ \E m \in queue : IoWrites(m)
                     \/ \E a \in answers : IoReceives(a)
                     \/ \E m \in wire, rsc \in {"SUCCESS", "REFUSED"} : NodeServes(m, rsc)
  PROVE  TInv'
<1>1. UNCHANGED <<dbVars, calls, io, late, faults>>
  BY DEF IoWrites, IoReceives, NodeServes, NotIo
<1>2. \A u \in Threads : job'[u].pc = job[u].pc /\ job'[u].call = job[u].call
  <2>1. CASE UNCHANGED job
    BY <2>1
  <2>2. ASSUME NEW a, job' = [t \in Threads |-> IF Waits(t, a.req)
                                THEN [job[t] EXCEPT !.rsc = a.rsc] ELSE job[t]]
        PROVE  \A u \in Threads : job'[u].pc = job[u].pc /\ job'[u].call = job[u].call
    BY <2>2 DEF IInv, JobsOK, JobOK, Idle
  <2> QED BY <2>1, <2>2 DEF IoWrites, IoReceives, NodeServes, NotIo
<1>3. Aside'
  BY <1>1 DEF TInv, Aside
<1> QED BY <1>1, <1>2, <1>3, LockUnmoved

\* A retransmission counts as a fault.
LEMMA ResendTyped ==
  ASSUME IInv, TInv, NEW t \in Threads, IoResends(t)
  PROVE  TInv'
<1>1. UNCHANGED <<dbVars, calls, io, late>> /\ faults < MaxFaults /\ faults' = faults + 1
  BY DEF IoResends
<1>2. \A u \in Threads : job'[u].pc = job[u].pc /\ job'[u].call = job[u].call
  BY DEF IoResends, IInv, JobsOK, JobOK, Idle
<1>3. Aside'
  BY <1>1, BackendAssumption DEF TInv, Aside
<1> QED BY <1>1, <1>2, <1>3, LockUnmoved

\* Nobody waits past its limit.
LEMMA TickTyped == ASSUME IInv, SInv, TInv, Tick PROVE TInv'
<1>1. UNCHANGED <<dbVars, calls, late, faults>>
  BY DEF Tick
<1>2. \A u \in Threads : job'[u].pc = job[u].pc /\ job'[u].call = job[u].call
  BY DEF Tick, IInv, JobsOK, JobOK, Idle
<1>3. io'.pc = io.pc /\ io'.wait \in 0 .. BusyLimit
  BY BackendAssumption DEF Tick, TInv, Aside, SInv, LineOK
<1>4. Aside'
  BY <1>1, <1>3 DEF TInv, Aside
<1> QED BY <1>1, <1>2, <1>4, LockUnmoved

\* A restart rolls back and begins with idle threads.
LEMMA OtherTyped ==
  ASSUME IInv, TInv, Restart \/ (\E d \in Sensors : Ages(d)) \/ UNCHANGED vars
  PROVE  TInv'
<1>1. CASE Restart
  <2>1. DbTyped' /\ Owned'
    BY <1>1, LockDone DEF Restart, TInv, DbTyped
  <2>2. UNCHANGED <<calls, late>> /\ io'.pc = "idle" /\ io'.wait = 0
        /\ faults < MaxFaults /\ faults' = faults + 1
    BY <1>1 DEF Restart
  <2>3. Aside'
    BY <2>2, BackendAssumption DEF TInv, Aside
  <2> QED BY <2>1, <2>3 DEF TInv
<1>2. CASE (\E d \in Sensors : Ages(d)) \/ UNCHANGED vars
  <2>1. UNCHANGED <<dbVars, job, calls, io, faults>> /\ late' \subseteq Sensors
    BY <1>2 DEF Ages, vars, TInv, Aside
  <2>2. Aside'
    BY <2>1 DEF TInv, Aside
  <2> QED BY <2>1, <2>2, LockUnmoved
<1> QED BY <1>1, <1>2

\* Every step.
LEMMA NextTyped == ASSUME IInv, SInv, TInv, [Next]_vars PROVE TInv'
<1>1. CASE \E t \in Threads : Serve(t) \/ \E c \in Calls : Begin(t, c)
  BY <1>1, ServeTyped, BeginTyped
<1>2. CASE Io
  BY <1>2, IoFrameTyped, LineTyped, ResendTyped DEF Io
<1>3. CASE \E m \in wire, rsc \in {"SUCCESS", "REFUSED"} : NodeServes(m, rsc)
  BY <1>3, LineTyped
<1>4. CASE (\E d \in Sensors : Ages(d)) \/ Restart \/ UNCHANGED vars
  BY <1>4, OtherTyped
<1>5. CASE Tick
  BY <1>5, TickTyped
<1> QED BY <1>1, <1>2, <1>3, <1>4, <1>5 DEF Next

\* At the start no request has been made, which begins every history.
LEMMA InitTyped == ASSUME Init PROVE TInv
<1>1. DbTyped
  BY DEF Init, DbTyped, IsRecord, DbFields
<1>2. Owned
  BY BackendAssumption DEF Init, Owned
<1>3. \E h \in Histories : IsPrefix(calls, h)
  <2>1. PICK h \in Histories : h \in Seq(Range(h))
    BY BackendAssumption
  <2>2. Len(h) \in Nat /\ Len(<<>>) = 0 /\ SubSeq(<<>>, 1, 0) = <<>> /\ SubSeq(h, 1, 0) = <<>>
    BY <2>1
  <2> QED BY <2>2 DEF Init, IsPrefix
<1>4. Aside
  BY <1>3, BackendAssumption DEF Init, Aside
<1> QED BY <1>1, <1>2, <1>4 DEF TInv

\* The database holds rows of its tables, also within a transaction; only a patch that is
\* asking its nodes holds the write lock from one step to the next (ems.set_device_property
\* commits after its last node, every other service at once); and the I/O thread waits no
\* longer than busy_timeout.
THEOREM TypesHold == Spec => []TypeOK
<1>1. Init => TInv
  BY InitTyped
<1>2. IInv /\ SInv /\ TInv /\ [Next]_vars => TInv'
  BY NextTyped
<1>3. IInv /\ SInv /\ TInv => TypeOK
  BY TypesFollow
<1> QED BY <1>1, <1>2, <1>3, Invariance, SettingsInvariance, PTL DEF Spec
=============================================================================
