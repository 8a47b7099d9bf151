---------------------------- MODULE MCFrontDoor ----------------------------
(* Instance of FrontDoor for TLC: two request slots, two keys of which one *)
(* is published later, a token of each, and the deployments that differ in *)
(* what the listener and the guard ask for.                                *)
EXTENDS FrontDoor, TLC

CONSTANTS r1, r2, k1, k2, t1, t2

MCKidOf == [t \in Tokens |-> IF t = t1 THEN k1 ELSE k2]
MCExpOf == [t \in Tokens |-> IF t = t1 THEN 9 ELSE 2]
MCFits == [t \in Tokens |-> TRUE]

Bare == [token |-> NoToken, header |-> FALSE, cert |-> FALSE,
         foreign |-> FALSE, discovery |-> FALSE]
MCKinds ==
  {[Bare EXCEPT !.token = t1], [Bare EXCEPT !.token = t2],
   [Bare EXCEPT !.cert = TRUE, !.header = TRUE], [Bare EXCEPT !.foreign = TRUE]}

Local ==
  [verifier |-> FALSE, trusted |-> FALSE, anonymous |-> FALSE,
   introspect |-> FALSE, failOpen |-> FALSE, metadata |-> FALSE,
   loopback |-> TRUE, allowRemote |-> FALSE, tls |-> "none"]
Jwt == [Local EXCEPT !.verifier = TRUE, !.loopback = FALSE]
MCConfs ==
  {Local, Jwt,
   [Local EXCEPT !.loopback = FALSE],
   [Local EXCEPT !.loopback = FALSE, !.allowRemote = TRUE],
   [Local EXCEPT !.loopback = FALSE, !.tls = "server", !.trusted = TRUE, !.anonymous = TRUE],
   [Local EXCEPT !.loopback = FALSE, !.tls = "mutual"],
   [Jwt EXCEPT !.introspect = TRUE, !.metadata = TRUE],
   [Jwt EXCEPT !.introspect = TRUE, !.failOpen = TRUE, !.trusted = TRUE]}

Interchangeable == Permutations(Requests)
=============================================================================
