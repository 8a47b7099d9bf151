----------------------------- MODULE RateLimit -----------------------------
(***************************************************************************)
(* Token buckets, src/src/surface/ratelimit.rs, as operators on the map    *)
(* from keys to buckets.  A limit is [calls, per_s]; time is in seconds.   *)
(* Tokens are counted in fractions of a call: a call costs per_s of them   *)
(* and a second refills `calls`, which makes the code's floating point     *)
(* calls / per_s whole numbers.                                            *)
(***************************************************************************)
EXTENDS Naturals, FiniteSets

CONSTANTS
  MAX_BUCKETS,    (* buckets the map may hold before it is swept           *)
  IDLE_EVICT_S    (* age at which a sweep drops a bucket                   *)

ASSUME BucketsAssumption ==
  /\ MAX_BUCKETS \in Nat \ {0}
  /\ IDLE_EVICT_S \in Nat \ {0}

Limit == [calls : Nat, per_s : Nat]

Lesser(a, b) == IF a <= b THEN a ELSE b
AtLeastOne(n) == IF n = 0 THEN 1 ELSE n

Rate(limit) == AtLeastOne(limit.calls)
Cost(limit) == AtLeastOne(limit.per_s)
Capacity(limit) == Rate(limit) * Cost(limit)

(* saturating_duration_since: never negative.                              *)
Since(now, then) == IF now > then THEN now - then ELSE 0

Refilled(limit, b, now) ==
  Lesser(b.tokens + Since(now, b.updated) * Rate(limit), Capacity(limit))

(* The map as `take` finds it: swept if the key is new and the map full.   *)
Swept(buckets, key, now) ==
  LET busy == {k \in DOMAIN buckets :
                 Since(now, buckets[k].updated) < IDLE_EVICT_S}
      kept == IF Cardinality(busy) >= MAX_BUCKETS THEN {} ELSE busy
  IN  IF Cardinality(DOMAIN buckets) < MAX_BUCKETS \/ key \in DOMAIN buckets
        THEN buckets
        ELSE [k \in kept |-> buckets[k]]

(* What is in the bucket for the call to be paid from; a new one is full.  *)
Available(buckets, key, limit, now) ==
  IF key \in DOMAIN Swept(buckets, key, now)
    THEN Refilled(limit, buckets[key], now)
    ELSE Capacity(limit)

(* A faulty Admits: what is left of a token is enough.                     *)
AdmitsFraction(buckets, key, limit, now) ==
  Available(buckets, key, limit, now) > 0

Admits(buckets, key, limit, now) ==
  Available(buckets, key, limit, now) >= Cost(limit)

With(buckets, key, b) ==
  [k \in DOMAIN buckets \cup {key} |-> IF k = key THEN b ELSE buckets[k]]

(* Refused or not, the bucket is refilled up to `now`, even a `now` that   *)
(* another caller's has overtaken.                                         *)
Taken(buckets, key, limit, now) ==
  LET has == Available(buckets, key, limit, now)
      paid == IF has >= Cost(limit) THEN Cost(limit) ELSE 0
  IN  With(Swept(buckets, key, now), key,
           [tokens |-> has - paid, updated |-> now])

(* A bucket that is gone has nothing to refund.                            *)
Refunded(buckets, key, limit, now) ==
  IF key \notin DOMAIN buckets
    THEN buckets
    ELSE [buckets EXCEPT ![key] =
           [tokens |-> Lesser(Refilled(limit, @, now) + Cost(limit),
                              Capacity(limit)),
            updated |-> now]]

(* The seconds a refused call is told to wait, rounded up.                 *)
RetryIn(limit, tokens) ==
  AtLeastOne((Cost(limit) - tokens + Rate(limit) - 1) \div Rate(limit))
=============================================================================
