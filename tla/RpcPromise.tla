----------------------------- MODULE RpcPromise -----------------------------
(***************************************************************************)
(* What an MCP transport promises its callers, whatever happens below it:  *)
(* a request is issued, the upstream carries it out at most once, and the  *)
(* caller learns one outcome.  An answer is the upstream's answer to that  *)
(* very request; a failure says nothing of whether it was carried out, and *)
(* the upstream may still get to it.                                       *)
(***************************************************************************)
EXTENDS Naturals

CONSTANT Requests

VARIABLES
  fate,      (* "unused", "open", "answered" or "failed", per request      *)
  answer,    (* whose answer each request was given, 0 before              *)
  done       (* how often the upstream carried each out                    *)

vars == <<fate, answer, done>>

Init ==
  /\ fate = [r \in Requests |-> "unused"]
  /\ answer = [r \in Requests |-> 0]
  /\ done = [r \in Requests |-> 0]

Issue(r) ==
  /\ fate[r] = "unused"
  /\ fate' = [fate EXCEPT ![r] = "open"]
  /\ UNCHANGED <<answer, done>>

CarryOut(r) ==
  /\ fate[r] \in {"open", "failed"}
  /\ done[r] = 0
  /\ done' = [done EXCEPT ![r] = 1]
  /\ UNCHANGED <<fate, answer>>

Answer(r) ==
  /\ fate[r] = "open"
  /\ done[r] = 1
  /\ fate' = [fate EXCEPT ![r] = "answered"]
  /\ answer' = [answer EXCEPT ![r] = r]
  /\ UNCHANGED done

Fail(r) ==
  /\ fate[r] = "open"
  /\ fate' = [fate EXCEPT ![r] = "failed"]
  /\ UNCHANGED <<answer, done>>

Next == \E r \in Requests : Issue(r) \/ CarryOut(r) \/ Answer(r) \/ Fail(r)

Spec == Init /\ [][Next]_vars
=============================================================================
