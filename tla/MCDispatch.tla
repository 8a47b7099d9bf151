---------------------------- MODULE MCDispatch ----------------------------
(* Instances of Dispatch for TLC: requests over one upstream, with a       *)
(* paginated cacheable read, a plain read and a write.                     *)
EXTENDS Dispatch

CONSTANTS k1, k2, k3, list, get, put, api

MCUpstreamOf == [t \in Tools |-> api]

(* No request waits for ever: a slot comes free because every call on the  *)
(* wire is answered or times out, and tokio's semaphore is first come,     *)
(* first served.  The tasks are interchangeable: k1 stands for each.       *)
EveryCallEnds == CallEnds(k1)
=============================================================================
