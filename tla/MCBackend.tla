------------------------------ MODULE MCBackend ------------------------------
(* Instances of Backend for TLC. *)
EXTENDS Backend

CONSTANTS t1, t2, r1, d1, d2, on

MCNodeOf == d1 :> 1 @@ d2 :> 2

Turn(dev) == [cmd |-> on, dev |-> dev]
Approve(dev) == [op |-> "approve", rule |-> r1, order |-> Turn(dev)]
Patch(devs, f, v) == [op |-> "patch", devs |-> devs, field |-> f, val |-> v]

Draft1   == [op |-> "draft"]
Reject   == [op |-> "reject", rule |-> r1]
Execute  == [op |-> "execute", rule |-> r1]
Manually == [op |-> "manual", order |-> Turn(d1)]
Check    == [op |-> "check"]
Zone     == Patch({d1, d2}, "limit", 1)
Limit1   == Patch({d1}, "limit", 1)
Period1  == Patch({d1}, "period", 1)

\* Requests of two clients that meet: decisions on one rule; a rule carried out
\* beside a manual command; a patch of two nodes, which holds the write lock,
\* beside the alerts; patches of two fields of one device.
MixedHistories ==
  { <<Draft1, Approve(d1), Approve(d2), Reject>>,
    <<Draft1, Approve(d1), Manually, Execute>>,
    <<Zone, Check>>, <<Check, Check>>,
    <<Limit1, Period1>> }

ZoneHistories  == { <<Zone>> }
=============================================================================
