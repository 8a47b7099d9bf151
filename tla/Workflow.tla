------------------------------ MODULE Workflow ------------------------------
(***************************************************************************)
(* Composites, src/src/surface/workflow.rs, over the rate limits of        *)
(* dispatch.rs and ratelimit.rs.  A run is one execution of a composite:   *)
(* a sequence of tools called in turn, each call first charged to up to    *)
(* three buckets.  The first call that does not succeed ends the run with  *)
(* a report that says whether running it again would repeat an effect.     *)
(* An ordinary call is a composite of one step.                            *)
(*                                                                         *)
(* The buckets' mutex is taken anew for every bucket and every refund, so  *)
(* other threads run in between, and `now` was read before them all.  The  *)
(* upstream is external.  It keeps its word: a tool the catalog says is    *)
(* read-only writes nothing, and one answered with an error has had no     *)
(* effect; what was sent and not answered may be carried out at any time.  *)
(***************************************************************************)
EXTENDS RateLimit, Integers, Sequences, Functions

CONSTANTS
  Runs,
  Callers,
  Tools,
  SpecTools,      (* the tools of upstreams mounted from an OpenAPI spec   *)
  CallerOf,       (* each run's caller                                     *)
  StepsOf,        (* each run's sequence of tools                          *)
  PerCaller,      (* config rate_limits: a limit, or NoLimit               *)
  PerTool,
  Overlay,        (* each tool's overlay rate_limit, or NoLimit            *)
  NoLimit,
  ReadOnly,       (* the tools the catalog first hints to be read-only     *)
  Unsettled,      (* bound of the model: tools whose hint may change       *)
  MaxTime,        (* bound of the model: seconds                           *)
  MaxRehints      (* bound of the model: re-indexes that change a hint     *)

Limits == Limit \cup {NoLimit}

ASSUME WorkflowAssumption ==
  /\ IsFiniteSet(Runs)
  /\ CallerOf \in [Runs -> Callers]
  /\ StepsOf \in [Runs -> Seq(Tools) \ {<<>>}]
  /\ PerCaller \in Limits
  /\ PerTool \in Limits
  /\ Overlay \in [Tools -> Limits]
  /\ SpecTools \subseteq Tools
  /\ ReadOnly \subseteq Tools
  /\ Unsettled \subseteq Tools
  /\ MaxTime \in Nat
  /\ MaxRehints \in Nat

VARIABLES
  run,          (* each run's progress                                     *)
  buckets,      (* Surface.limits                                          *)
  reportOnly,   (* config rate_limits.report_only                          *)
  readOnly,     (* the catalog's hint for each tool                        *)
  clock,
  effects,      (* the steps of each run that wrote upstream               *)
  limbo,        (* the unanswered steps that may still write               *)
  unread,       (* history: runs whose last answer could not be read       *)
  rehints,      (* re-indexes so far that changed a hint                   *)
  rehinted,     (* history: runs one of whose steps changed its hint       *)
  admitted,     (* history: the calls each bucket was charged for          *)
  ideal,        (* history: the buckets, had no refused call been charged  *)
  disturbed     (* history: buckets an older `now` came late to, or lost *)

vars == <<run, buckets, reportOnly, readOnly, clock, effects, limbo, unread,
          rehints, rehinted, admitted, ideal, disturbed>>
upstream == <<effects, limbo, unread>>
hints == <<readOnly, rehints, rehinted>>
history == <<admitted, ideal>>
limiter == <<buckets, history, disturbed>>
fixed == <<reportOnly, clock>>

----------------------------------------------------------------------------
(* The tiers of rate_limited, in its order.                                *)

Tool(r) == StepsOf[r][run[r].step]

LimitOf(key) ==
  CASE key[1] = "caller" -> PerCaller
    [] key[1] = "tool" -> PerTool
    [] key[1] = "overlay" -> Overlay[key[2]]

Limited(keys) == {k \in keys : LimitOf(k) # NoLimit}

Keys == Limited({<<"caller", c>> : c \in Callers}
                \cup {<<"tool", c, t>> : c \in Callers, t \in Tools}
                \cup {<<"overlay", t>> : t \in Tools})

Enforced(key) == ~reportOnly \/ key[1] = "overlay"

IfLimited(key) == IF LimitOf(key) # NoLimit THEN <<key>> ELSE <<>>

Tiers(r) ==
  IfLimited(<<"caller", CallerOf[r]>>)
  \o IfLimited(<<"tool", CallerOf[r], Tool(r)>>)
  \o IfLimited(<<"overlay", Tool(r)>>)

(* `tier` counts the buckets taken from, or refunded to, so far.           *)
NewRun ==
  [stage |-> "between", step |-> 1, now |-> 0, tier |-> 0, charged |-> <<>>,
   reach |-> "none", fix |-> "none"]

Stages ==
  {"between", "limits", "refund", "calling", "failed", "over"}

Init ==
  /\ run = [r \in Runs |-> NewRun]
  /\ buckets = [k \in {} |-> [tokens |-> 0, updated |-> 0]]
  /\ reportOnly \in BOOLEAN
  /\ readOnly = [t \in Tools |-> t \in ReadOnly]
  /\ clock = 0
  /\ effects = {}
  /\ limbo = {}
  /\ unread = {}
  /\ rehints = 0
  /\ rehinted = {}
  /\ admitted = {}
  /\ ideal = [k \in Keys |-> [tokens |-> Capacity(LimitOf(k)), updated |-> 0]]
  /\ disturbed = {}

At(r, stage) == run[r].stage = stage
Goto(r, stage) == run' = [run EXCEPT ![r].stage = stage]
Fail(r, reach) ==
  run' = [run EXCEPT ![r].stage = "failed", ![r].reach = reach]

(* rate_limited has returned: what it went by is gone.                     *)
Judged(r, stage) == [NewRun EXCEPT !.stage = stage, !.step = run[r].step]

(* A step starts: dispatch_reach, and `now` in rate_limited.               *)
Call(r) ==
  /\ At(r, "between")
  /\ run' = [run EXCEPT ![r].stage = "limits", ![r].now = clock,
                        ![r].tier = 0, ![r].charged = <<>>]
  /\ UNCHANGED <<limiter, hints, fixed, upstream>>

(* The other threads' clocks may have moved on since `now` was read.       *)
Overtaken(key, now) == key \in DOMAIN buckets /\ buckets[key].updated > now

(* Not full yet, by a thread whose clock says `now`.                       *)
Short(key, now) ==
  \/ Overtaken(key, now)
  \/ Refilled(LimitOf(key), buckets[key], now) < Capacity(LimitOf(key))

(* Buckets swept away before they were full again for every thread that    *)
(* has read its `now` and may still charge them: it finds a new, full one. *)
Lost ==
  {k \in DOMAIN buckets \ DOMAIN buckets' :
     \E r \in Runs : At(r, "limits") /\ Short(k, run[r].now)}

(* The next bucket is charged.  A tier that is only reported on lets the   *)
(* call pass uncharged.                                                    *)
Take(r) ==
  LET key == Tiers(r)[run[r].tier + 1]
      now == run[r].now
      ok == Admits(buckets, key, LimitOf(key), now)
  IN  /\ At(r, "limits")
      /\ run[r].tier < Len(Tiers(r))
      /\ buckets' = Taken(buckets, key, LimitOf(key), now)
      /\ run' = [run EXCEPT
           ![r].stage = IF ok \/ ~Enforced(key) THEN "limits" ELSE "refund",
           ![r].tier = IF ok \/ ~Enforced(key) THEN @ + 1 ELSE 0,
           ![r].charged = IF ok THEN Append(@, key) ELSE @]
      /\ disturbed' = disturbed \cup Lost \cup {k \in {key} : Overtaken(k, now)}
      /\ UNCHANGED <<history, hints, fixed, upstream>>

(* The worth of a bucket that only admitted calls were charged to.         *)
Ideal(key) ==
  LET limit == LimitOf(key)
  IN  Lesser(ideal[key].tokens + (clock - ideal[key].updated) * Rate(limit),
             Capacity(limit))

(* No tier refused the call.                                               *)
Admit(r) ==
  LET keys == Range(run[r].charged)
  IN  /\ At(r, "limits")
      /\ run[r].tier = Len(Tiers(r))
      /\ run' = [run EXCEPT ![r] = Judged(r, "calling")]
      /\ admitted' = admitted \cup
           {[key |-> k, by |-> <<r, run[r].step>>, at |-> run[r].now] :
              k \in keys}
      /\ ideal' = [k \in Keys |->
           IF k \in keys
             THEN [tokens |-> Ideal(k) - Cost(LimitOf(k)), updated |-> clock]
             ELSE ideal[k]]
      /\ UNCHANGED <<buckets, disturbed, hints, fixed, upstream>>

(* A faulty Charged: the caller's own bucket is not refunded.              *)
ChargedLater(r) ==
  SelectSeq(run[r].charged, LAMBDA key : key[1] # "caller")

(* The buckets a refused call must be refunded to.                         *)
Charged(r) == run[r].charged

(* A refused call is refunded bucket by bucket and reported as not sent.   *)
Refund(r) ==
  /\ At(r, "refund")
  /\ \/ LET key == Charged(r)[run[r].tier + 1]
            now == run[r].now
        IN  /\ run[r].tier < Len(Charged(r))
            /\ buckets' = Refunded(buckets, key, LimitOf(key), now)
            /\ disturbed' = disturbed \cup {k \in {key} : Overtaken(k, now)}
            /\ run' = [run EXCEPT ![r].tier = @ + 1]
     \/ /\ run[r].tier = Len(Charged(r))
        /\ run' = [run EXCEPT ![r] = [Judged(r, "failed") EXCEPT !.reach = "NotSent"]]
        /\ UNCHANGED <<buckets, disturbed>>
  /\ UNCHANGED <<history, hints, fixed, upstream>>

----------------------------------------------------------------------------
(* The call itself, and what becomes of the step.                          *)

(* Refused for another reason: by preflight, by an open breaker, or        *)
(* because the tool is unknown.                                            *)
RefuseLocally(r) ==
  /\ At(r, "calling")
  /\ Fail(r, "NotSent")
  /\ UNCHANGED <<limiter, hints, fixed, upstream>>

(* The upstream has carried the call out; the loop goes on, or is over.    *)
AnswerOk(r) ==
  /\ At(r, "calling")
  /\ run' = [run EXCEPT
       ![r] = IF @.step < Len(StepsOf[r])
                THEN [NewRun EXCEPT !.step = run[r].step + 1]
                ELSE Judged(r, "over")]
  /\ \/ UNCHANGED effects
     \/ /\ ~readOnly[Tool(r)]
        /\ effects' = effects \cup {<<r, run[r].step>>}
  /\ UNCHANGED <<limbo, unread, limiter, hints, fixed>>

AnswerError(r) ==
  /\ At(r, "calling")
  /\ Fail(r, "Answered")
  /\ UNCHANGED <<limiter, hints, fixed, upstream>>

(* A success of a spec upstream whose body times out, breaks off or is too *)
(* long: an error with the status of the success, and so Answered.         *)
AnswerUnreadable(r) ==
  /\ At(r, "calling")
  /\ Tool(r) \in SpecTools
  /\ Fail(r, "Answered")
  /\ effects' = effects \cup {call \in {<<r, run[r].step>>} : ~readOnly[Tool(r)]}
  /\ unread' = unread \cup {r}
  /\ UNCHANGED <<limbo, limiter, hints, fixed>>

(* A faulty ReachOfFailure: as if the call had not been sent.              *)
ReachUnsent == "NotSent"

(* What dispatch_reach says of a timeout or a transport failure.           *)
ReachOfFailure == "NoAnswer"

(* A timeout or a transport failure: if the call writes, it may do so now, *)
(* later or never.                                                         *)
NoAnswer(r) ==
  /\ At(r, "calling")
  /\ Fail(r, ReachOfFailure)
  /\ limbo' = limbo \cup {call \in {<<r, run[r].step>>} : ~readOnly[Tool(r)]}
  /\ UNCHANGED <<effects, unread, limiter, hints, fixed>>

(* External: a call that was given up on is carried out after all.         *)
LateEffect(r) ==
  \E call \in limbo :
    /\ call[1] = r
    /\ limbo' = limbo \ {call}
    /\ effects' = effects \cup {call}
    /\ UNCHANGED <<run, unread, limiter, hints, fixed>>

(* step_effect: the hint of the catalog of the moment.                     *)
Writes(tool) == ~readOnly[tool]

(* A faulty InDoubt: nobody asks whether the failed step was answered.     *)
InDoubtNever(r) == FALSE

InDoubt(r) == run[r].reach = "NoAnswer" /\ Writes(Tool(r))

(* workflow_failure: the report's `fix`.                                   *)
Fix(r) ==
  IF \E i \in 1..(run[r].step - 1) : Writes(StepsOf[r][i]) THEN "do not re-run"
  ELSE IF InDoubt(r) THEN "check first"
  ELSE "safe"

Report(r) ==
  /\ At(r, "failed")
  /\ run' = [run EXCEPT ![r].stage = "over", ![r].fix = Fix(r)]
  /\ UNCHANGED <<limiter, hints, fixed, upstream>>

(* A re-index swaps in a catalog with another hint for a tool.             *)
Called(r) == 1..(IF At(r, "between") THEN run[r].step - 1 ELSE run[r].step)

Rehint(t) ==
  /\ rehints < MaxRehints
  /\ rehints' = rehints + 1
  /\ readOnly' = [readOnly EXCEPT ![t] = ~@]
  /\ rehinted' = rehinted \cup
       {r \in Runs : ~At(r, "over") /\ \E i \in Called(r) : StepsOf[r][i] = t}
  /\ UNCHANGED <<run, limiter, fixed, upstream>>

Tick ==
  /\ clock < MaxTime
  /\ clock' = clock + 1
  /\ UNCHANGED <<run, limiter, hints, reportOnly, upstream>>

AllOver == \A r \in Runs : At(r, "over")

(* The runs of this instance are over; what follows is not modelled.       *)
Finished == AllOver /\ UNCHANGED vars

Step(r) ==
  \/ Call(r) \/ Take(r) \/ Admit(r) \/ Refund(r)
  \/ RefuseLocally(r) \/ AnswerOk(r) \/ AnswerError(r) \/ AnswerUnreadable(r)
  \/ NoAnswer(r) \/ LateEffect(r) \/ Report(r)

Next == (\E r \in Runs : Step(r)) \/ (\E t \in Unsettled : Rehint(t)) \/ Tick \/ Finished

Spec == Init /\ [][Next]_vars

----------------------------------------------------------------------------
(* Properties.                                                             *)

Run ==
  [stage : Stages, step : Nat, now : Nat, tier : Nat,
   charged : Seq(Keys),
   reach : {"none", "NotSent", "NoAnswer", "Answered"},
   fix : {"none", "safe", "check first", "do not re-run"}]

(* "Re-running this workflow after fixing the cause repeats no effect"     *)
(* (workflow.rs:118): a run whose report says so has written nothing, and  *)
(* nothing it sent will still be carried out.                              *)
RerunRepeatsNothing ==
  \A r \in Runs :
    run[r].fix = "safe" => \A call \in effects \cup limbo : call[1] # r

(* The same, but for the two ways in which it fails: workflow_failure      *)
(* judges completed steps by the catalog of the moment of the failure, so  *)
(* that a re-index on the way changes the verdict, and a success whose     *)
(* body could not be read counts as the upstream's error.                  *)
Excused == rehinted \cup unread

VerdictSound ==
  \A r \in Runs \ Excused :
    run[r].fix = "safe" => \A call \in effects \cup limbo : call[1] # r

(* A step reported as not_run or failed (Reach::outcome) has no effect     *)
(* then or later, but for the success that could not be read; whatever may *)
(* still happen was reported as unknown.                                   *)
OutcomeSound ==
  \A r \in Runs \ unread :
    run[r].reach \in {"NotSent", "Answered"} =>
      <<r, run[r].step>> \notin effects \cup limbo

(* The charges that calls still being judged may get back.                 *)
Holds(r, key) ==
  \/ At(r, "limits") /\ key \in Range(run[r].charged)
  \/ /\ At(r, "refund")
     /\ \E i \in (run[r].tier + 1)..Len(run[r].charged) : run[r].charged[i] = key

Pending(key) == Cardinality({r \in Runs : Holds(r, key)})

Worth(key) ==
  IF key \in DOMAIN buckets
    THEN Refilled(LimitOf(key), buckets[key], clock)
    ELSE Capacity(LimitOf(key))

(* "A refused call costs nothing" (dispatch.rs:358): with what pending     *)
(* refusals will give back, a bucket is never worth less than one that     *)
(* only the admitted calls were charged to, however takes and refunds of   *)
(* several callers interleave, and whatever instants they read before.     *)
RefusalsCostNothing ==
  \A k \in Keys : Worth(k) + Pending(k) * Cost(LimitOf(k)) >= Ideal(k)

(* The limit itself: over any span of time no bucket admits more than its  *)
(* burst and what the span refills, refunds, sweeps and report-only tiers  *)
(* notwithstanding.  Excepted are buckets that a thread with an older      *)
(* `now` came late to, which refill the same seconds twice                 *)
(* (ratelimit.rs:57), and those a full map was rid of before they were     *)
(* full again by the clock of every thread on its way to one.              *)
WithinLimit ==
  \A k \in Keys \ disturbed : \A from, to \in 0..clock :
    from <= to =>
      Cardinality({a \in admitted : a.key = k /\ a.at \in from..to})
        * Cost(LimitOf(k))
      <= Capacity(LimitOf(k)) + (to - from) * Rate(LimitOf(k))

(* "Err(seconds) until the next call would fit" (ratelimit.rs:33): alone,  *)
(* a caller who waits as long as told is admitted, and no sooner.          *)
RetryAfterExact ==
  \A k \in DOMAIN buckets :
    LET limit == LimitOf(k)
        wait == RetryIn(limit, Worth(k))
    IN  ~Admits(buckets, k, limit, clock) =>
          /\ Admits(buckets, k, limit, clock + wait)
          /\ ~Admits(buckets, k, limit, clock + wait - 1)

(* The limit holds, and what a refused caller is told of it is right.      *)
LimitKept == WithinLimit /\ RetryAfterExact
=============================================================================
