---------------------------- MODULE MCWorkflow ----------------------------
(* Instance of Workflow for TLC: a composite and an ordinary call of one   *)
(* caller, with all three tiers of limits and a map of buckets that        *)
(* overflows.                                                              *)
EXTENDS Workflow

CONSTANTS a, get, put

MCCallerOf == <<a, a>>
MCStepsOf == << <<get, put>>, <<put>> >>
MCPerCaller == [calls |-> 2, per_s |-> 3]
MCPerTool == [calls |-> 2, per_s |-> 1]
MCOverlay == [t \in Tools |-> IF t = put THEN [calls |-> 1, per_s |-> 2] ELSE NoLimit]
=============================================================================
