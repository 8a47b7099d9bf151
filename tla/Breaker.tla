------------------------------ MODULE Breaker ------------------------------
(***************************************************************************)
(* The per-tool circuit breaker of src/src/surface/breaker.rs, as a value  *)
(* and the operators on it: closed, open for a cooldown, half-open with    *)
(* one probe, then closed or open again.                                   *)
(*                                                                         *)
(* The code keeps Instants and compares them with now.  Only differences   *)
(* are ever compared, so the model keeps what is left of the cooldown and  *)
(* how long ago the probe was claimed, and Elapse moves both.  Ages stop   *)
(* at the threshold they are compared with: no bound on time is needed.    *)
(***************************************************************************)
EXTENDS Integers

CONSTANTS
  Threshold,   (* consecutive_failures                                     *)
  Cooldown,    (* cooldown_s, in ticks                                     *)
  StaleAfter,  (* STALE_PROBE_AFTER, in ticks                              *)
  CountMax     (* the largest value of the u32 failure count               *)

ASSUME BreakerAssumption ==
  /\ Threshold \in Nat \ {0}
  /\ Cooldown \in Nat
  /\ StaleAfter \in Nat \ {0}
  /\ CountMax \in Nat
  /\ Threshold <= CountMax

Never == -1   (* None: no cooldown running, no probe claimed               *)

BreakerState ==
  [consecutive  : 0..CountMax,
   openLeft     : {Never} \cup 0..Cooldown,
   probeAge     : {Never} \cup 0..StaleAfter]

NewBreaker == [consecutive |-> 0, openLeft |-> Never, probeAge |-> Never]

(* A faulty Decision: a probe that never reports back is waited for.       *)
DecisionNeverStale(b) ==
  IF b.openLeft = Never THEN "allow"
  ELSE IF b.openLeft > 0 \/ b.probeAge # Never THEN "block"
  ELSE "probe"

(* The verdict of `check`.  "probe" is Allow { probe: true }.              *)
Decision(b) ==
  IF b.openLeft = Never THEN "allow"
  ELSE IF b.openLeft > 0 THEN "block"
  ELSE IF b.probeAge \in 0..(StaleAfter - 1) THEN "block"
  ELSE "probe"

(* A faulty Checked: the probe's slot is never claimed.                    *)
CheckedUnclaimed(b) == b

(* `check` changes the state only to claim the probe's slot.               *)
Checked(b) ==
  IF Decision(b) = "probe" THEN [b EXCEPT !.probeAge = 0] ELSE b

(* A faulty Counted: the count wraps past what a u32 holds.                *)
CountedUnbounded(n) == n + 1

Counted(n) == IF n < CountMax THEN n + 1 ELSE CountMax

(* `on_result`: a success closes; a failed probe, or a failure that        *)
(* reaches the threshold, opens for a full cooldown.                       *)
AfterResult(b, failed, wasProbe) ==
  LET n == Counted(b.consecutive)
      probeAge == IF wasProbe THEN Never ELSE b.probeAge
  IN  IF ~failed
      THEN [consecutive |-> 0, openLeft |-> Never, probeAge |-> probeAge]
      ELSE [consecutive |-> n,
            openLeft |-> IF wasProbe \/ n >= Threshold THEN Cooldown ELSE b.openLeft,
            probeAge |-> probeAge]

Older(age) == IF age \in 0..(StaleAfter - 1) THEN age + 1 ELSE age

(* A faulty Elapse: the end of the cooldown closes the breaker.            *)
ElapseCloses(b) ==
  [consecutive |-> b.consecutive,
   openLeft    |-> IF b.openLeft > 1 THEN b.openLeft - 1 ELSE Never,
   probeAge    |-> Older(b.probeAge)]

(* One tick of the clock, seen by the breaker.                             *)
Elapse(b) ==
  [consecutive |-> b.consecutive,
   openLeft    |-> IF b.openLeft > 0 THEN b.openLeft - 1 ELSE b.openLeft,
   probeAge    |-> Older(b.probeAge)]

=============================================================================
