--------------------------- MODULE MCDeviceTables ---------------------------
(* Instances of DeviceTables for TLC. *)
EXTENDS DeviceTables

CONSTANTS temp, rain, fan

MCKindOf == temp :> "SENSOR" @@ rain :> "SENSOR" @@ fan :> "ACTUATOR"

Sensor(sub, limit) == [type |-> "SENSOR", sub |-> sub, period |-> 2, value |-> limit, limit |-> limit]
Actuator(sub)      == [type |-> "ACTUATOR", sub |-> sub, period |-> 2, value |-> 1, limit |-> 1]

Plain == 1 :> Sensor(temp, 1)
\* The same number for another device, a subtype without range, an actuator.
Other == 1 :> Sensor(rain, 1) @@ 2 :> Actuator(fan)
\* A Type that contradicts the Subtype.
Wrong == 1 :> Actuator(temp)

AllBuilds  == {Plain, Other, Wrong}
PlainBuild == {Plain}
=============================================================================
