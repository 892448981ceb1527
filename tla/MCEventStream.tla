---------------------------- MODULE MCEventStream ----------------------------
(* Instances of EventStream for TLC. *)
EXTENDS EventStream

MCKinds == { [judgement |-> "alert", node |-> 1], [judgement |-> "violation", node |-> 2] }
MCFilters == { Everything, [Everything EXCEPT !.judge = "violations"],
               [Everything EXCEPT !.node = 2] }

\* For the recovery of violations after a frame that is none.
QuietKinds == { [judgement |-> "normal", node |-> 1], [judgement |-> "violation", node |-> 1] }
JudgeFilters == { Everything, [Everything EXCEPT !.judge = "violations"] }
=============================================================================
