-------------------------- MODULE Workflow_proofs --------------------------
(***************************************************************************)
(* Proofs about Workflow, for any runs, composites, callers, limits, hints *)
(* and clocks: what a failure report says of effects is true; a refused    *)
(* call costs nothing, no bucket admits more than its limit, and a refused *)
(* caller is told the right time to wait.                                  *)
(***************************************************************************)
EXTENDS Workflow, FiniteSetTheorems, TLAPS

(* The part of the state the reports are about.                            *)
ReportType ==
  /\ run \in [Runs -> Run]
  /\ \A r \in Runs : run[r].step \in DOMAIN StepsOf[r]
  /\ readOnly \in [Tools -> BOOLEAN]
  /\ clock \in Nat
  /\ effects \cup limbo \subseteq Runs \X Nat

(* A write that was or may be carried out belongs to a step its run has    *)
(* reached; if to the last one reached, that step was not reported as      *)
(* without effect, unless its answer was unreadable.  Until the report its *)
(* tool is one the catalog says writes, unless a hint has changed.         *)
Traced(r, i) ==
  /\ i \in 1..run[r].step
  /\ i = run[r].step =>
       /\ run[r].stage \in {"failed", "over"}
       /\ r \notin unread =>
            /\ run[r].stage = "failed" => run[r].reach = "NoAnswer"
            /\ run[r].reach \notin {"NotSent", "Answered"}
  /\ run[r].stage # "over" /\ r \notin Excused => ~readOnly[StepsOf[r][i]]
  /\ r \notin Excused => run[r].fix # "safe"

Progress(r) ==
  /\ run[r].stage \notin {"failed", "over"} => run[r].reach = "none"
  /\ run[r].stage # "over" => run[r].fix = "none"

IInv ==
  /\ ReportType
  /\ \A r \in Runs : Progress(r)
  /\ \A r \in Runs, i \in Nat : <<r, i>> \in effects \cup limbo => Traced(r, i)

----------------------------------------------------------------------------
(* Every run starts at its first step, and a step is a tool.               *)
LEMMA StepsAreTools ==
  ASSUME NEW r \in Runs
  PROVE  /\ Len(StepsOf[r]) \in Nat \ {0}
         /\ DOMAIN StepsOf[r] = 1..Len(StepsOf[r])
         /\ \A i \in 1..Len(StepsOf[r]) : StepsOf[r][i] \in Tools
<1>1. StepsOf[r] \in Seq(Tools) /\ StepsOf[r] # <<>>
  BY WorkflowAssumption
<1>2. QED BY <1>1

(* The initial state satisfies the invariant.                              *)
LEMMA InitIInv == Init => IInv
<1> SUFFICES ASSUME Init PROVE IInv
  OBVIOUS
<1>1. NewRun \in Run
  BY DEF NewRun, Run, Stages
<1>2. \A r \in Runs : run[r] = NewRun
  BY DEF Init
<1>3. ReportType
  BY <1>1, <1>2, StepsAreTools DEF Init, ReportType, NewRun
<1>4. \A r \in Runs : Progress(r)
  BY <1>2 DEF Progress, NewRun
<1>5. QED BY <1>3, <1>4 DEF IInv, Init

(* A step of one run that writes nothing keeps the invariant if it keeps   *)
(* that run's own part of it.                                              *)
LEMMA OneRun ==
  ASSUME IInv, NEW r \in Runs, NEW f \in Run,
         run' = [run EXCEPT ![r] = f],
         f.step \in DOMAIN StepsOf[r],
         f.stage \notin {"failed", "over"} => f.reach = "none",
         f.stage # "over" => f.fix = "none",
         UNCHANGED <<hints, fixed, upstream>>,
         \A i \in Nat : <<r, i>> \in effects \cup limbo => Traced(r, i)'
  PROVE  IInv'
<1> USE DEF hints, fixed, upstream
<1>1. run' \in [Runs -> Run] /\ run'[r] = f
      /\ \A q \in Runs \ {r} : run'[q] = run[q]
  BY DEF IInv, ReportType
<1>2. ReportType'
  BY <1>1 DEF IInv, ReportType
<1>3. \A q \in Runs : Progress(q)'
  BY <1>1 DEF IInv, Progress
<1>4. ASSUME NEW q \in Runs, NEW i \in Nat, <<q, i>> \in effects \cup limbo
      PROVE  Traced(q, i)'
  <2>1. CASE q = r
    BY <1>4, <2>1
  <2>2. CASE q # r
    <3>1. Traced(q, i)
      BY <1>4 DEF IInv
    <3>2. QED BY <3>1, <2>2, <1>1 DEF Traced, Excused
  <2>3. QED BY <2>1, <2>2
<1>5. QED BY <1>2, <1>3, <1>4 DEF IInv

(* The tiers of a call are buckets with a limit.                           *)
LEMMA TiersAreKeys ==
  ASSUME NEW r \in Runs, Tool(r) \in Tools
  PROVE  Tiers(r) \in Seq(Keys)
<1>1. CallerOf[r] \in Callers
  BY WorkflowAssumption
<1>2. ASSUME NEW key, key \in Keys \/ LimitOf(key) = NoLimit
      PROVE  IfLimited(key) \in Seq(Keys)
  BY <1>2 DEF IfLimited
<1>3. <<"caller", CallerOf[r]>> \in Keys \/ LimitOf(<<"caller", CallerOf[r]>>) = NoLimit
  BY <1>1 DEF Keys, Limited
<1>4. \/ <<"tool", CallerOf[r], Tool(r)>> \in Keys
      \/ LimitOf(<<"tool", CallerOf[r], Tool(r)>>) = NoLimit
  BY <1>1 DEF Keys, Limited
<1>5. <<"overlay", Tool(r)>> \in Keys \/ LimitOf(<<"overlay", Tool(r)>>) = NoLimit
  BY DEF Keys, Limited
<1>6. QED BY <1>2, <1>3, <1>4, <1>5 DEF Tiers

(* The empty sequence is one of any kind.                                  *)
LEMMA EmptySeq == \A S : <<>> \in Seq(S)
OBVIOUS

(* What the steps of a run make of its record is a record.                 *)
LEMMA RunRecords ==
  ASSUME IInv, NEW r \in Runs
  PROVE  /\ run[r] \in Run
         /\ run[r].step \in 1..Len(StepsOf[r])
         /\ Tool(r) \in Tools
         /\ \A stage \in Stages : Judged(r, stage) \in Run
<1>1. run[r] \in Run /\ run[r].step \in 1..Len(StepsOf[r])
  BY StepsAreTools DEF IInv, ReportType
<1>2. Tool(r) \in Tools
  BY <1>1, StepsAreTools DEF Tool
<1>3. \A stage \in Stages : Judged(r, stage) \in Run
  BY <1>1, EmptySeq DEF Judged, NewRun, Run
<1>4. QED BY <1>1, <1>2, <1>3

(* While a step is under way nothing it wrote is known of: what a run has  *)
(* written it wrote in earlier steps.                                      *)
LEMMA EarlierSteps ==
  ASSUME IInv, NEW r \in Runs, run[r].stage \notin {"failed", "over"},
         NEW i \in Nat, <<r, i>> \in effects \cup limbo
  PROVE  /\ i \in 1..(run[r].step - 1)
         /\ r \notin Excused => ~readOnly[StepsOf[r][i]]
<1>1. Traced(r, i)
  BY DEF IInv
<1>2. run[r].step \in Nat
  BY RunRecords DEF Run
<1>3. QED BY <1>1, <1>2 DEF Traced

(* A step of the call under way, or its failure without an effect, keeps   *)
(* the invariant: nothing is added to what was written.                    *)
LEMMA NothingWritten ==
  ASSUME IInv, NEW r \in Runs, run[r].stage \notin {"failed", "over"},
         NEW f \in Run, run' = [run EXCEPT ![r] = f],
         f.step = run[r].step, f.stage # "over", f.fix = "none",
         f.stage # "failed" => f.reach = "none",
         UNCHANGED <<hints, fixed, upstream>>
  PROVE  IInv'
<1>1. f.step \in DOMAIN StepsOf[r]
  BY DEF IInv, ReportType
<1>2. run'[r] = f
  BY DEF IInv, ReportType
<1>3. ASSUME NEW i \in Nat, <<r, i>> \in effects \cup limbo
      PROVE  Traced(r, i)'
  <2>1. /\ i \in 1..(run[r].step - 1)
        /\ r \notin Excused => ~readOnly[StepsOf[r][i]]
    BY <1>3, EarlierSteps
  <2>2. run[r].step \in Nat
    BY RunRecords DEF Run
  <2>3. QED BY <2>1, <2>2, <1>2 DEF Traced, Excused, hints, upstream
<1>4. QED BY <1>1, <1>3, OneRun

(* The rate limits and the refusals, by a tier or by anything else.        *)
LEMMA CallIInv == ASSUME IInv, NEW r \in Runs, Call(r) PROVE IInv'
<1> DEFINE f == [run[r] EXCEPT !.stage = "limits", !.now = clock, !.tier = 0,
                               !.charged = <<>>]
<1>1. run[r] \in Run /\ Progress(r) /\ clock \in Nat /\ run \in [Runs -> Run]
  BY RunRecords DEF IInv, ReportType
<1>2. run[r].stage = "between"
  BY DEF Call, At
<1>3. run' = [run EXCEPT ![r] = f]
  BY <1>1 DEF Call
<1>4. f \in Run
  BY <1>1, EmptySeq DEF Run, Stages
<1>5. f.step = run[r].step /\ f.stage = "limits" /\ f.fix = "none" /\ f.reach = "none"
  BY <1>1, <1>2 DEF Progress, Run
<1>6. UNCHANGED <<hints, fixed, upstream>>
  BY DEF Call
<1>7. QED BY <1>2, <1>3, <1>4, <1>5, <1>6, NothingWritten

(* A bucket is charged, or refuses.                                        *)
LEMMA TakeIInv == ASSUME IInv, NEW r \in Runs, Take(r) PROVE IInv'
<1> DEFINE key == Tiers(r)[run[r].tier + 1]
           ok == Admits(buckets, key, LimitOf(key), run[r].now)
           through == ok \/ ~Enforced(key)
           stage == IF through THEN "limits" ELSE "refund"
           tier == IF through THEN run[r].tier + 1 ELSE 0
           charged == IF ok THEN Append(run[r].charged, key) ELSE run[r].charged
           f == [run[r] EXCEPT !.stage = stage, !.tier = tier,
                               !.charged = charged]
<1>1. run[r] \in Run /\ Progress(r) /\ run \in [Runs -> Run]
  BY RunRecords DEF IInv, ReportType
<1>2. run[r].stage = "limits"
  BY DEF Take, At
<1>3. run' = [run EXCEPT ![r] = f]
  BY <1>1 DEF Take
<1>4. key \in Keys
  <2>1. Tiers(r) \in Seq(Keys)
    BY RunRecords, TiersAreKeys
  <2>2. run[r].tier \in Nat /\ run[r].tier < Len(Tiers(r))
    BY <1>1 DEF Run, Take
  <2>3. QED BY <2>1, <2>2
<1>5. stage \in {"limits", "refund"} /\ tier \in Nat
  <2>1. run[r].tier \in Nat
    BY <1>1 DEF Run
  <2>2. run[r].tier + 1 \in Nat
    BY <2>1
  <2> HIDE DEF through
  <2>3. QED BY <2>2
<1>6. charged \in Seq(Keys)
  <2>1. run[r].charged \in Seq(Keys)
    BY <1>1 DEF Run
  <2> HIDE DEF key, ok
  <2>2. QED BY <1>4, <2>1
<1> HIDE DEF stage, tier, charged
<1>7. f \in Run
  BY <1>1, <1>5, <1>6 DEF Run, Stages
<1>8. /\ f.step = run[r].step /\ f.stage \in {"limits", "refund"}
      /\ f.fix = "none" /\ f.reach = "none"
  BY <1>1, <1>2, <1>5 DEF Progress, Run
<1>9. UNCHANGED <<hints, fixed, upstream>>
  BY DEF Take
<1>10. QED BY <1>2, <1>3, <1>7, <1>8, <1>9, NothingWritten

(* The limits let the call through.                                        *)
LEMMA AdmitIInv == ASSUME IInv, NEW r \in Runs, Admit(r) PROVE IInv'
<1>1. run[r].stage = "limits" /\ run' = [run EXCEPT ![r] = Judged(r, "calling")]
  BY DEF Admit, At
<1>2. Judged(r, "calling") \in Run
  BY RunRecords DEF Stages
<1>3. LET f == Judged(r, "calling")
      IN  /\ f.step = run[r].step /\ f.stage = "calling"
          /\ f.fix = "none" /\ f.reach = "none"
  BY DEF Judged, NewRun
<1>4. UNCHANGED <<hints, fixed, upstream>>
  BY DEF Admit
<1>5. QED BY <1>1, <1>2, <1>3, <1>4, NothingWritten

(* A charge is given back, or the refusal reported.                        *)
LEMMA RefundIInv == ASSUME IInv, NEW r \in Runs, Refund(r) PROVE IInv'
<1>1. run[r] \in Run /\ Progress(r) /\ run \in [Runs -> Run]
  BY RunRecords DEF IInv, ReportType
<1>2. run[r].stage = "refund"
  BY DEF Refund, At
<1>3. UNCHANGED <<hints, fixed, upstream>>
  BY DEF Refund
<1>4. CASE run' = [run EXCEPT ![r].tier = @ + 1]
  <2> DEFINE f == [run[r] EXCEPT !.tier = run[r].tier + 1]
  <2>1. f \in Run
    <3>1. run[r].tier \in Nat
      BY <1>1 DEF Run
    <3>2. run[r].tier + 1 \in Nat
      BY <3>1
    <3>3. QED BY <1>1, <3>2 DEF Run
  <2>2. /\ f.step = run[r].step /\ f.stage = "refund"
        /\ f.fix = "none" /\ f.reach = "none"
    BY <1>1, <1>2 DEF Progress, Run
  <2>3. run' = [run EXCEPT ![r] = f]
    BY <1>4, <1>1
  <2>4. QED BY <1>2, <1>3, <2>1, <2>2, <2>3, NothingWritten
<1>5. CASE run' = [run EXCEPT ![r] = [Judged(r, "failed") EXCEPT !.reach = "NotSent"]]
  <2> DEFINE f == [Judged(r, "failed") EXCEPT !.reach = "NotSent"]
  <2>1. Judged(r, "failed") \in Run
    BY RunRecords DEF Stages
  <2>2. f \in Run
    BY <2>1 DEF Run
  <2>3. f.step = run[r].step /\ f.stage = "failed" /\ f.fix = "none"
    BY DEF Judged, NewRun
  <2>4. QED BY <1>2, <1>3, <1>5, <2>2, <2>3, NothingWritten
<1>6. QED BY <1>4, <1>5 DEF Refund

(* A call that fails without an effect.                                    *)
LEMMA FailIInv ==
  ASSUME IInv, NEW r \in Runs, At(r, "calling"),
         NEW reach \in {"NotSent", "Answered"}, Fail(r, reach),
         UNCHANGED <<hints, fixed, upstream>>
  PROVE  IInv'
<1> DEFINE f == [run[r] EXCEPT !.stage = "failed", !.reach = reach]
<1>1. run[r] \in Run /\ Progress(r) /\ run \in [Runs -> Run]
  BY RunRecords DEF IInv, ReportType
<1>2. run[r].stage = "calling"
  BY DEF At
<1>3. run' = [run EXCEPT ![r] = f]
  BY <1>1 DEF Fail
<1>4. f \in Run
  BY <1>1 DEF Run, Stages
<1>5. f.step = run[r].step /\ f.stage = "failed" /\ f.fix = "none"
  BY <1>1, <1>2 DEF Progress, Run
<1>6. QED BY <1>2, <1>3, <1>4, <1>5, NothingWritten

(* A success may have written, in the step the run now leaves behind.      *)
LEMMA AnswerOkIInv == ASSUME IInv, NEW r \in Runs, AnswerOk(r) PROVE IInv'
<1> DEFINE more == run[r].step < Len(StepsOf[r])
           next == [NewRun EXCEPT !.step = run[r].step + 1]
           f == IF more THEN next ELSE Judged(r, "over")
<1>1. run[r] \in Run /\ run[r].step \in 1..Len(StepsOf[r]) /\ run \in [Runs -> Run]
  BY RunRecords DEF IInv, ReportType
<1>2. run[r].stage = "calling"
  BY DEF AnswerOk, At
<1>3. run' = [run EXCEPT ![r] = f]
  BY DEF AnswerOk
<1>4. next \in Run
  <2>1. run[r].step + 1 \in Nat
    BY <1>1, StepsAreTools
  <2>2. QED BY <2>1, EmptySeq DEF NewRun, Run, Stages
<1>5. Judged(r, "over") \in Run
  BY RunRecords DEF Stages
<1>6. /\ f \in Run
      /\ f.step \in DOMAIN StepsOf[r] /\ f.fix = "none" /\ f.reach = "none"
      /\ IF more THEN f.step = run[r].step + 1 /\ f.stage = "between"
                 ELSE f.step = run[r].step /\ f.stage = "over"
  BY <1>1, <1>4, <1>5, StepsAreTools DEF Judged, NewRun
<1> HIDE DEF f
<1>7. /\ run' \in [Runs -> Run] /\ run'[r] = f
      /\ \A q \in Runs \ {r} : run'[q] = run[q]
  BY <1>1, <1>3, <1>6
<1>8. /\ limbo' = limbo /\ UNCHANGED <<unread, hints, fixed>>
      /\ \/ effects' = effects
         \/ ~readOnly[Tool(r)] /\ effects' = effects \cup {<<r, run[r].step>>}
  BY DEF AnswerOk
<1>9. ReportType'
  <2>1. <<r, run[r].step>> \in Runs \X Nat
    BY <1>1, StepsAreTools
  <2>2. effects' \cup limbo' \subseteq Runs \X Nat
    BY <2>1, <1>8 DEF IInv, ReportType
  <2>3. \A q \in Runs : run'[q].step \in DOMAIN StepsOf[q]
    BY <1>6, <1>7 DEF IInv, ReportType
  <2>4. QED BY <2>2, <2>3, <1>7, <1>8 DEF IInv, ReportType, hints, fixed
<1>10. \A q \in Runs : Progress(q)'
  BY <1>6, <1>7 DEF IInv, Progress
<1>11. ASSUME NEW q \in Runs, NEW i \in Nat, <<q, i>> \in effects' \cup limbo'
       PROVE  Traced(q, i)'
  <2>1. CASE q # r
    <3>1. <<q, i>> \in effects \cup limbo
      BY <1>8, <1>11, <2>1
    <3>2. Traced(q, i)
      BY <3>1 DEF IInv
    <3>3. QED BY <3>2, <2>1, <1>7, <1>8 DEF Traced, Excused, hints, upstream
  <2>2. CASE q = r /\ <<r, i>> \in effects \cup limbo
    <3>1. /\ i \in 1..(run[r].step - 1)
          /\ r \notin Excused => ~readOnly[StepsOf[r][i]]
      BY <1>2, <2>2, EarlierSteps
    <3>2. QED BY <3>1, <2>2, <1>1, <1>6, <1>7, <1>8, StepsAreTools DEF Traced, Excused, hints, upstream
  <2>3. CASE q = r /\ i = run[r].step /\ ~readOnly[Tool(r)]
    BY <2>3, <1>1, <1>6, <1>7, <1>8, StepsAreTools DEF Traced, Excused, Tool, hints
  <2>4. QED BY <1>8, <1>11, <2>1, <2>2, <2>3
<1>12. QED BY <1>9, <1>10, <1>11 DEF IInv

(* A call without an answer may write later: it is reported as unknown.    *)
LEMMA NoAnswerIInv == ASSUME IInv, NEW r \in Runs, NoAnswer(r) PROVE IInv'
<1> DEFINE f == [run[r] EXCEPT !.stage = "failed", !.reach = "NoAnswer"]
<1>1. /\ run[r] \in Run /\ run[r].step \in 1..Len(StepsOf[r])
      /\ run \in [Runs -> Run] /\ Progress(r)
  BY RunRecords DEF IInv, ReportType
<1>2. run[r].stage = "calling"
  BY DEF NoAnswer, At
<1>3. run' = [run EXCEPT ![r] = f]
  BY <1>1 DEF NoAnswer, Fail, ReachOfFailure
<1>4. f \in Run
  BY <1>1 DEF Run, Stages
<1>5. f.step = run[r].step /\ f.stage = "failed" /\ f.fix = "none" /\ f.reach = "NoAnswer"
  BY <1>1, <1>2 DEF Progress, Run
<1> HIDE DEF f
<1>6. /\ run' \in [Runs -> Run] /\ run'[r] = f
      /\ \A q \in Runs \ {r} : run'[q] = run[q]
  BY <1>1, <1>3, <1>4
<1>7. /\ effects' = effects /\ UNCHANGED <<unread, hints, fixed>>
      /\ limbo' = limbo \cup {call \in {<<r, run[r].step>>} : ~readOnly[Tool(r)]}
  BY DEF NoAnswer
<1>8. ReportType'
  BY <1>1, <1>5, <1>6, <1>7, StepsAreTools DEF IInv, ReportType, hints, fixed
<1>9. \A q \in Runs : Progress(q)'
  BY <1>5, <1>6 DEF IInv, Progress
<1>10. ASSUME NEW q \in Runs, NEW i \in Nat, <<q, i>> \in effects' \cup limbo'
       PROVE  Traced(q, i)'
  <2>1. CASE q # r
    <3>1. <<q, i>> \in effects \cup limbo
      BY <1>7, <1>10, <2>1
    <3>2. Traced(q, i)
      BY <3>1 DEF IInv
    <3>3. QED BY <3>2, <2>1, <1>6, <1>7 DEF Traced, Excused, hints, upstream
  <2>2. CASE q = r /\ <<r, i>> \in effects \cup limbo
    <3>1. /\ i \in 1..(run[r].step - 1)
          /\ r \notin Excused => ~readOnly[StepsOf[r][i]]
      BY <1>2, <2>2, EarlierSteps
    <3>2. QED BY <3>1, <2>2, <1>1, <1>5, <1>6, <1>7, StepsAreTools DEF Traced, Excused, hints, upstream
  <2>3. CASE q = r /\ i = run[r].step /\ ~readOnly[Tool(r)]
    BY <2>3, <1>1, <1>5, <1>6, <1>7, StepsAreTools DEF Traced, Excused, Tool, hints
  <2>4. QED BY <1>7, <1>10, <2>1, <2>2, <2>3
<1>11. QED BY <1>8, <1>9, <1>10 DEF IInv

(* A success whose body could not be read has written what it wrote.       *)
LEMMA AnswerUnreadableIInv ==
  ASSUME IInv, NEW r \in Runs, AnswerUnreadable(r) PROVE IInv'
<1> DEFINE f == [run[r] EXCEPT !.stage = "failed", !.reach = "Answered"]
<1>1. /\ run[r] \in Run /\ run[r].step \in 1..Len(StepsOf[r])
      /\ run \in [Runs -> Run] /\ Progress(r)
  BY RunRecords DEF IInv, ReportType
<1>2. run[r].stage = "calling"
  BY DEF AnswerUnreadable, At
<1>3. run' = [run EXCEPT ![r] = f]
  BY <1>1 DEF AnswerUnreadable, Fail
<1>4. f \in Run
  BY <1>1 DEF Run, Stages
<1>5. f.step = run[r].step /\ f.stage = "failed" /\ f.fix = "none"
  BY <1>1, <1>2 DEF Progress, Run
<1> HIDE DEF f
<1>6. /\ run' \in [Runs -> Run] /\ run'[r] = f
      /\ \A q \in Runs \ {r} : run'[q] = run[q]
  BY <1>1, <1>3, <1>4
<1>7. /\ limbo' = limbo /\ UNCHANGED <<hints, fixed>> /\ unread' = unread \cup {r}
      /\ effects' = effects \cup {call \in {<<r, run[r].step>>} : ~readOnly[Tool(r)]}
  BY DEF AnswerUnreadable
<1>8. ReportType'
  BY <1>1, <1>5, <1>6, <1>7, StepsAreTools DEF IInv, ReportType, hints, fixed
<1>9. \A q \in Runs : Progress(q)'
  BY <1>5, <1>6 DEF IInv, Progress
<1>10. ASSUME NEW q \in Runs, NEW i \in Nat, <<q, i>> \in effects' \cup limbo'
       PROVE  Traced(q, i)'
  <2>1. CASE q # r
    <3>1. <<q, i>> \in effects \cup limbo
      BY <1>7, <1>10, <2>1
    <3>2. Traced(q, i)
      BY <3>1 DEF IInv
    <3>3. QED BY <3>2, <2>1, <1>6, <1>7 DEF Traced, Excused, hints
  <2>2. CASE q = r /\ <<r, i>> \in effects \cup limbo
    <3>1. i \in 1..(run[r].step - 1)
      BY <1>2, <2>2, EarlierSteps
    <3>2. QED BY <3>1, <2>2, <1>1, <1>5, <1>6, <1>7, StepsAreTools DEF Traced, Excused
  <2>3. CASE q = r /\ i = run[r].step
    BY <2>3, <1>1, <1>5, <1>6, <1>7, StepsAreTools DEF Traced, Excused
  <2>4. QED BY <1>7, <1>10, <2>1, <2>2, <2>3
<1>11. QED BY <1>8, <1>9, <1>10 DEF IInv

(* What was expected to be carried out now has been.                       *)
LEMMA LateEffectIInv == ASSUME IInv, NEW r \in Runs, LateEffect(r) PROVE IInv'
<1>1. effects' \cup limbo' = effects \cup limbo
  BY DEF LateEffect
<1>2. UNCHANGED <<run, unread, hints, fixed>>
  BY DEF LateEffect
<1>3. QED BY <1>1, <1>2 DEF IInv, ReportType, Progress, Traced, Excused, hints, fixed

(* The report: `safe` only if nothing was written.                         *)
LEMMA ReportIInv == ASSUME IInv, NEW r \in Runs, Report(r) PROVE IInv'
<1> DEFINE f == [run[r] EXCEPT !.stage = "over", !.fix = Fix(r)]
<1>1. /\ run[r] \in Run /\ run[r].step \in 1..Len(StepsOf[r])
      /\ run \in [Runs -> Run]
  BY RunRecords DEF IInv, ReportType
<1>2. run[r].stage = "failed"
  BY DEF Report, At
<1>3. run' = [run EXCEPT ![r] = f]
  BY <1>1 DEF Report
<1>4. Fix(r) \in {"safe", "check first", "do not re-run"}
  BY DEF Fix
<1>5. f \in Run
  BY <1>1, <1>4 DEF Run, Stages
<1>6. /\ f.step = run[r].step /\ f.stage = "over" /\ f.fix = Fix(r)
      /\ f.reach = run[r].reach
  BY <1>1 DEF Run
<1>7. f.step \in DOMAIN StepsOf[r]
  BY <1>1, <1>6, StepsAreTools
<1> HIDE DEF f
<1>8. run'[r] = f
  BY <1>1, <1>3
<1>9. UNCHANGED <<hints, fixed, upstream>>
  BY DEF Report
<1>10. ASSUME NEW i \in Nat, <<r, i>> \in effects \cup limbo
       PROVE  Traced(r, i)'
  <2>1. Traced(r, i)
    BY <1>10 DEF IInv
  <2>2. ASSUME r \notin Excused PROVE Fix(r) # "safe"
    <3>1. i \in 1..run[r].step /\ Writes(StepsOf[r][i])
      BY <2>1, <2>2, <1>2 DEF Traced, Excused, Writes
    <3>2. CASE i = run[r].step
      BY <3>1, <3>2, <2>1, <2>2, <1>2 DEF Traced, Excused, Fix, InDoubt, Tool
    <3>3. CASE i # run[r].step
      <4>1. i \in 1..(run[r].step - 1)
        BY <3>1, <3>3, <1>1, StepsAreTools
      <4>2. QED BY <4>1, <3>1 DEF Fix
    <3>4. QED BY <3>2, <3>3
  <2>3. QED BY <2>1, <2>2, <1>2, <1>6, <1>8, <1>9 DEF Traced, Excused, hints, upstream
<1>11. QED BY <1>3, <1>5, <1>6, <1>7, <1>9, <1>10, OneRun

(* A hint that changes is the hint of no step under way, or is noted.      *)
LEMMA RehintIInv == ASSUME IInv, NEW t \in Tools, Rehint(t) PROVE IInv'
<1>1. /\ UNCHANGED <<run, fixed, upstream>>
      /\ readOnly' = [readOnly EXCEPT ![t] = ~@]
      /\ rehinted' = rehinted \cup
           {r \in Runs : ~At(r, "over") /\ \E i \in Called(r) : StepsOf[r][i] = t}
  BY DEF Rehint
<1>2. readOnly \in [Tools -> BOOLEAN]
  BY DEF IInv, ReportType
<1>3. readOnly' \in [Tools -> BOOLEAN]
  BY <1>1, <1>2
<1>4. ReportType'
  BY <1>1, <1>3 DEF IInv, ReportType, fixed, upstream
<1>5. \A q \in Runs : Progress(q)'
  BY <1>1 DEF IInv, Progress
<1>6. ASSUME NEW q \in Runs, NEW i \in Nat, <<q, i>> \in effects' \cup limbo'
      PROVE  Traced(q, i)'
  <2>1. Traced(q, i)
    BY <1>1, <1>6 DEF IInv, upstream
  <2>2. run[q].step \in 1..Len(StepsOf[q])
    BY RunRecords
  <2>3. ASSUME run[q].stage # "over", q \notin Excused'
        PROVE  ~readOnly'[StepsOf[q][i]]
    <3>1. i \in Called(q)
      BY <2>1, <2>2, StepsAreTools DEF Traced, Called, At
    <3>2. StepsOf[q][i] # t
      BY <3>1, <2>3, <1>1 DEF At, Excused, upstream
    <3>3. StepsOf[q][i] \in Tools
      BY <2>1, <2>2, StepsAreTools DEF Traced
    <3>4. QED BY <3>2, <3>3, <2>1, <2>3, <1>1, <1>2 DEF Traced, Excused, upstream
  <2>4. QED BY <2>1, <2>3, <1>1 DEF Traced, Excused, upstream
<1>7. QED BY <1>4, <1>5, <1>6 DEF IInv

(* Time passes.                                                            *)
LEMMA TickIInv == ASSUME IInv, Tick PROVE IInv'
<1>1. UNCHANGED <<run, hints, upstream>> /\ clock' = clock + 1
  BY DEF Tick
<1>2. clock' \in Nat
  BY <1>1 DEF IInv, ReportType
<1>3. QED BY <1>1, <1>2 DEF IInv, ReportType, Progress, Traced, Excused, hints, upstream

(* Every step keeps the invariant.                                         *)
LEMMA NextIInv == ASSUME IInv, [Next]_vars PROVE IInv'
<1>1. ASSUME NEW r \in Runs, Step(r) PROVE IInv'
  <2>1. CASE Call(r)
    BY <2>1, CallIInv
  <2>2. CASE Take(r)
    BY <2>2, TakeIInv
  <2>3. CASE Admit(r)
    BY <2>3, AdmitIInv
  <2>4. CASE Refund(r)
    BY <2>4, RefundIInv
  <2>5. CASE RefuseLocally(r)
    BY <2>5, FailIInv DEF RefuseLocally
  <2>6. CASE AnswerOk(r)
    BY <2>6, AnswerOkIInv
  <2>7. CASE AnswerError(r)
    BY <2>7, FailIInv DEF AnswerError
  <2>8. CASE NoAnswer(r)
    BY <2>8, NoAnswerIInv
  <2>9. CASE LateEffect(r)
    BY <2>9, LateEffectIInv
  <2>10. CASE Report(r)
    BY <2>10, ReportIInv
  <2>11. CASE AnswerUnreadable(r)
    BY <2>11, AnswerUnreadableIInv
  <2>12. QED BY <1>1, <2>1, <2>2, <2>3, <2>4, <2>5, <2>6, <2>7, <2>8, <2>9, <2>10,
                <2>11 DEF Step
<1>2. ASSUME NEW t \in Unsettled, Rehint(t) PROVE IInv'
  BY <1>2, RehintIInv, WorkflowAssumption
<1>3. CASE Tick
  BY <1>3, TickIInv
<1>4. CASE UNCHANGED vars
  BY <1>4 DEF IInv, ReportType, Progress, Traced, Excused, vars
<1>5. QED BY <1>1, <1>2, <1>3, <1>4 DEF Next, Finished

(* The invariant holds of every reachable state.                           *)
LEMMA Invariance == Spec => []IInv
<1>1. IInv /\ [Next]_vars => IInv'
  BY NextIInv
<1>2. QED BY <1>1, InitIInv, PTL DEF Spec

(* workflow_failure calls a re-run safe only if the run has written        *)
(* nothing and nothing it sent may yet be carried out, for any composites, *)
(* limits, timing and failures, short of a hint that changed under it or   *)
(* an answer that could not be read.                                       *)
THEOREM VerdictsAreSound == Spec => []VerdictSound
<1>1. IInv => VerdictSound
  <2> SUFFICES ASSUME IInv, NEW r \in Runs \ Excused, run[r].fix = "safe",
                      NEW call \in effects \cup limbo, call[1] = r
               PROVE  FALSE
    BY DEF VerdictSound
  <2>1. PICK i \in Nat : call = <<r, i>>
    BY DEF IInv, ReportType
  <2>2. QED BY <2>1 DEF IInv, Traced
<1>2. QED BY <1>1, Invariance, PTL

(* A step reported as not_run or failed has no effect, then or later, if   *)
(* its answer could be read.                                               *)
THEOREM OutcomesAreSound == Spec => []OutcomeSound
<1>1. IInv => OutcomeSound
  <2> SUFFICES ASSUME IInv, NEW r \in Runs \ unread, run[r].reach \in {"NotSent", "Answered"},
                      <<r, run[r].step>> \in effects \cup limbo
               PROVE  FALSE
    BY DEF OutcomeSound
  <2>1. run[r].step \in Nat
    BY RunRecords DEF Run
  <2>2. QED BY <2>1 DEF IInv, Traced
<1>2. QED BY <1>1, Invariance, PTL

----------------------------------------------------------------------------
(* The rate limits.                                                        *)

Bucket == [tokens : Nat, updated : Nat]

----------------------------------------------------------------------------
(* Arithmetic.                                                             *)

(* The laws of products the bounds below need.                             *)
LEMMA Products ==
  /\ \A a, b, c \in Int : (a + b) * c = a * c + b * c /\ (a - b) * c = a * c - b * c
  /\ \A a, b \in Int : a * b \in Int
  /\ \A a, b \in Nat : a * b \in Nat
  /\ \A a, b \in Int, c \in Nat : a <= b => a * c <= b * c
<1>1. \A a, b, c \in Int : (a + b) * c = a * c + b * c /\ (a - b) * c = a * c - b * c
  OBVIOUS
<1>2. \A a, b \in Int : a * b \in Int
  OBVIOUS
<1>3. \A a, b \in Nat : a * b \in Nat
  OBVIOUS
<1>4. ASSUME NEW a \in Int, NEW b \in Int, NEW c \in Nat, a <= b PROVE a * c <= b * c
  <2>1. b - a \in Nat
    BY <1>4
  <2>2. (b - a) * c \in Nat
    BY <2>1, <1>3
  <2>3. (b - a) * c = b * c - a * c
    BY <1>1
  <2>4. QED BY <2>2, <2>3, <1>2
<1>5. QED BY <1>1, <1>2, <1>3, <1>4

(* Division rounds down by less than the divisor.                          *)
LEMMA Division ==
  ASSUME NEW a \in Nat, NEW b \in Nat \ {0}
  PROVE  /\ a \div b \in Nat
         /\ (a \div b) * b <= a
         /\ a < (a \div b) * b + b
OBVIOUS

(* A limit refills at least a token at a time and holds at least one call. *)
LEMMA LimitNumbers ==
  ASSUME NEW limit \in Limit
  PROVE  /\ Rate(limit) \in Nat \ {0}
         /\ Cost(limit) \in Nat \ {0}
         /\ Capacity(limit) \in Nat
         /\ Cost(limit) <= Capacity(limit)
<1>1. Rate(limit) \in Nat \ {0} /\ Cost(limit) \in Nat \ {0}
  BY DEF Limit, Rate, Cost, AtLeastOne
<1>2. 1 * Cost(limit) <= Rate(limit) * Cost(limit)
  BY <1>1, Products
<1>3. QED BY <1>1, <1>2, Products DEF Capacity

----------------------------------------------------------------------------
(* One bucket.                                                             *)

(* What is in a bucket at `now`.                                           *)
LEMMA RefilledValue ==
  ASSUME NEW limit \in Limit, NEW b \in Bucket, b.tokens <= Capacity(limit),
         NEW now \in Nat
  PROVE  /\ Refilled(limit, b, now) \in Nat
         /\ Refilled(limit, b, now) <= Capacity(limit)
         /\ b.updated <= now =>
              /\ (now - b.updated) * Rate(limit) \in Nat
              /\ Refilled(limit, b, now) =
                   Lesser(b.tokens + (now - b.updated) * Rate(limit), Capacity(limit))
         /\ now <= b.updated => Refilled(limit, b, now) = b.tokens
<1>1. b.tokens \in Nat /\ b.updated \in Nat
  BY DEF Bucket
<1>2. Since(now, b.updated) \in Nat
  BY <1>1 DEF Since
<1>3. Since(now, b.updated) * Rate(limit) \in Nat
  BY <1>2, LimitNumbers, Products
<1>4. b.updated <= now => Since(now, b.updated) = now - b.updated
  BY <1>1 DEF Since
<1>5. now <= b.updated => Since(now, b.updated) * Rate(limit) = 0
  BY <1>1, LimitNumbers DEF Since
<1> DEFINE x == Since(now, b.updated) * Rate(limit)
<1>6. x \in Nat /\ Refilled(limit, b, now) = Lesser(b.tokens + x, Capacity(limit))
  BY <1>3 DEF Refilled
<1>7. /\ Lesser(b.tokens + x, Capacity(limit)) \in Nat
      /\ Lesser(b.tokens + x, Capacity(limit)) <= Capacity(limit)
      /\ x = 0 => Lesser(b.tokens + x, Capacity(limit)) = b.tokens
  <2> HIDE DEF x
  <2>1. QED BY <1>1, <1>6, LimitNumbers DEF Lesser
<1>8. QED BY <1>3, <1>4, <1>5, <1>6, <1>7

(* A bucket written at n with e more than it held is worth e more at any   *)
(* later instant, or is full, even if it was last written after n.         *)
LEMMA RefilledLater ==
  ASSUME NEW limit \in Limit, NEW b \in Bucket, b.tokens <= Capacity(limit),
         NEW n \in Nat, NEW later \in Nat, n <= later, b.updated <= later,
         NEW t \in Nat, t <= Capacity(limit), NEW e \in Int,
         t >= Refilled(limit, b, n) + e \/ t = Capacity(limit)
  PROVE  Refilled(limit, [tokens |-> t, updated |-> n], later)
           >= Lesser(Refilled(limit, b, later) + e, Capacity(limit))
<1> DEFINE new == [tokens |-> t, updated |-> n]
           x == (later - b.updated) * Rate(limit)
           y == (later - n) * Rate(limit)
           z == (n - b.updated) * Rate(limit)
<1>1. b.tokens \in Nat /\ b.updated \in Nat /\ new \in Bucket /\ new.tokens = t
      /\ new.updated = n
  BY DEF Bucket
<1>2. x \in Nat /\ Refilled(limit, b, later) = Lesser(b.tokens + x, Capacity(limit))
  BY RefilledValue
<1>3. y \in Nat /\ Refilled(limit, new, later) = Lesser(t + y, Capacity(limit))
  BY <1>1, RefilledValue
<1>4. CASE b.updated <= n
  <2>1. z \in Nat /\ Refilled(limit, b, n) = Lesser(b.tokens + z, Capacity(limit))
    BY <1>4, RefilledValue
  <2>2. x = y + z
    <3>1. later - b.updated = (later - n) + (n - b.updated)
      BY <1>1
    <3>2. later - n \in Int /\ n - b.updated \in Int /\ Rate(limit) \in Int
      BY <1>1, LimitNumbers
    <3>3. QED BY <3>1, <3>2, Products
  <2> HIDE DEF new, x, y, z
  <2>3. QED BY <1>1, <1>2, <1>3, <2>1, <2>2, LimitNumbers DEF Lesser, new
<1>5. CASE n < b.updated
  <2>1. Refilled(limit, b, n) = b.tokens
    BY <1>1, <1>5, RefilledValue
  <2>2. x <= y
    BY <1>1, <1>5, LimitNumbers, Products
  <2> HIDE DEF new, x, y, z
  <2>3. QED BY <1>1, <1>2, <1>3, <2>1, <2>2, LimitNumbers DEF Lesser, new
<1>6. QED BY <1>1, <1>4, <1>5

(* What t tokens held at u have become by `now`.                           *)
Grown(limit, t, u, now) == Lesser(t + (now - u) * Rate(limit), Capacity(limit))

(* What was in a bucket has grown since it was written.                    *)
LEMMA RefilledGrown ==
  ASSUME NEW limit \in Limit, NEW b \in Bucket, b.tokens <= Capacity(limit),
         NEW now \in Nat, b.updated <= now
  PROVE  Refilled(limit, b, now) = Grown(limit, b.tokens, b.updated, now)
BY RefilledValue DEF Grown

(* A second more refills `calls` tokens, up to the capacity.               *)
LEMMA GrownTick ==
  ASSUME NEW limit \in Limit, NEW t \in Int, NEW u \in Nat, NEW now \in Nat, u <= now
  PROVE  Grown(limit, t, u, now + 1)
           = Lesser(Grown(limit, t, u, now) + Rate(limit), Capacity(limit))
<1> DEFINE x == (now - u) * Rate(limit)
<1>1. Rate(limit) \in Nat /\ Capacity(limit) \in Nat
  BY LimitNumbers
<1>2. x \in Int
  BY <1>1, Products
<1>3. (now + 1 - u) * Rate(limit) = x + Rate(limit)
  <2>1. now + 1 - u = (now - u) + 1 /\ now - u \in Int
    OBVIOUS
  <2>2. QED BY <1>1, <2>1, Products
<1> HIDE DEF x
<1>4. Lesser(t + (x + Rate(limit)), Capacity(limit))
        = Lesser(Lesser(t + x, Capacity(limit)) + Rate(limit), Capacity(limit))
  BY <1>1, <1>2 DEF Lesser
<1>5. QED BY <1>3, <1>4 DEF x, Grown

(* A caller who waits as long as told finds a call's worth of tokens, and  *)
(* a second earlier not yet.                                               *)
LEMMA RetryExact ==
  ASSUME NEW limit \in Limit, NEW t \in Nat, t < Cost(limit)
  PROVE  LET wait == RetryIn(limit, t)
         IN  /\ wait \in Nat \ {0}
             /\ t + wait * Rate(limit) >= Cost(limit)
             /\ t + (wait - 1) * Rate(limit) < Cost(limit)
<1> DEFINE short == Cost(limit) - t
           a == short + Rate(limit) - 1
           d == a \div Rate(limit)
<1>1. Rate(limit) \in Nat \ {0} /\ short \in Nat \ {0} /\ a \in Nat
      /\ Cost(limit) \in Nat
  BY LimitNumbers
<1>2. d \in Nat /\ d * Rate(limit) <= a /\ a < d * Rate(limit) + Rate(limit)
  BY <1>1, Division
<1>3. d * Rate(limit) \in Nat
  BY <1>1, <1>2, Products
<1>4. d # 0
  <2>1. d = 0 => d * Rate(limit) = 0
    BY <1>1
  <2>2. Rate(limit) <= a
    BY <1>1
  <2> HIDE DEF a, d
  <2>3. QED BY <1>1, <1>2, <2>1, <2>2
<1>5. RetryIn(limit, t) = d
  BY <1>4 DEF RetryIn, AtLeastOne
<1>6. (d - 1) * Rate(limit) = d * Rate(limit) - Rate(limit)
  BY <1>1, <1>2, Products
<1> DEFINE p == d * Rate(limit)
<1>7. t + p >= Cost(limit) /\ t + (p - Rate(limit)) < Cost(limit)
  <2>1. p \in Nat /\ p <= Cost(limit) - t + Rate(limit) - 1
        /\ Cost(limit) - t + Rate(limit) - 1 < p + Rate(limit)
    BY <1>2, <1>3
  <2> HIDE DEF p
  <2>2. QED BY <1>1, <2>1
<1>8. QED BY <1>2, <1>4, <1>5, <1>6, <1>7

----------------------------------------------------------------------------
(* The map of buckets.                                                     *)

(* A sweep drops buckets, changes none, and never the one asked for.       *)
LEMMA SweptKeeps ==
  ASSUME NEW bs, NEW key, NEW now
  PROVE  /\ DOMAIN Swept(bs, key, now) \subseteq DOMAIN bs
         /\ \A k \in DOMAIN Swept(bs, key, now) : Swept(bs, key, now)[k] = bs[k]
         /\ key \in DOMAIN Swept(bs, key, now) <=> key \in DOMAIN bs
<1> DEFINE busy == {k \in DOMAIN bs : Since(now, bs[k].updated) < IDLE_EVICT_S}
           kept == IF Cardinality(busy) >= MAX_BUCKETS THEN {} ELSE busy
           rest == [k \in kept |-> bs[k]]
<1>1. kept \subseteq DOMAIN bs
  OBVIOUS
<1>2. Swept(bs, key, now) = bs \/ (key \notin DOMAIN bs /\ Swept(bs, key, now) = rest)
  BY DEF Swept
<1> HIDE DEF kept
<1>3. QED BY <1>1, <1>2

(* The tokens a call may be paid from.                                     *)
LEMMA AvailableValue ==
  ASSUME NEW bs, NEW key, NEW limit, NEW now
  PROVE  /\ key \in DOMAIN bs => Available(bs, key, limit, now) = Refilled(limit, bs[key], now)
         /\ key \notin DOMAIN bs => Available(bs, key, limit, now) = Capacity(limit)
BY SweptKeeps DEF Available

(* What a take leaves in its bucket.                                       *)
Left(bs, key, limit, now) ==
  Available(bs, key, limit, now)
    - (IF Admits(bs, key, limit, now) THEN Cost(limit) ELSE 0)

(* A take writes its bucket; of the others it may drop some.               *)
LEMMA TakenEffect ==
  ASSUME NEW bs, NEW key, NEW limit, NEW now
  PROVE  LET new == Taken(bs, key, limit, now)
         IN  /\ key \in DOMAIN new
             /\ DOMAIN new \subseteq DOMAIN bs \cup {key}
             /\ new[key] = [tokens |-> Left(bs, key, limit, now), updated |-> now]
             /\ \A k \in DOMAIN new \ {key} : new[k] = bs[k]
<1> DEFINE swept == Swept(bs, key, now)
           b == [tokens |-> Left(bs, key, limit, now), updated |-> now]
           new == [k \in DOMAIN swept \cup {key} |-> IF k = key THEN b ELSE swept[k]]
<1>1. Taken(bs, key, limit, now) = new
  BY DEF Taken, With, Left, Admits
<1>2. DOMAIN swept \subseteq DOMAIN bs /\ \A k \in DOMAIN swept : swept[k] = bs[k]
  BY SweptKeeps
<1> HIDE DEF swept, b
<1>3. QED BY <1>1, <1>2 DEF b

(* A refund writes its bucket, if there is one.                            *)
LEMMA RefundedEffect ==
  ASSUME NEW bs, NEW key, NEW limit, NEW now
  PROVE  LET new == Refunded(bs, key, limit, now)
         IN  /\ key \notin DOMAIN bs => new = bs
             /\ key \in DOMAIN bs =>
                  /\ DOMAIN new = DOMAIN bs
                  /\ new[key] = [tokens |-> Lesser(Refilled(limit, bs[key], now) + Cost(limit),
                                                   Capacity(limit)),
                                 updated |-> now]
                  /\ \A k \in DOMAIN new \ {key} : new[k] = bs[k]
BY DEF Refunded

----------------------------------------------------------------------------
(* The tiers of a call.                                                    *)

(* Every bucket is under a limit.                                          *)
LEMMA KeyLimits ==
  ASSUME NEW k \in Keys
  PROVE  LimitOf(k) \in Limit
<1>1. LimitOf(k) # NoLimit
  BY DEF Keys, Limited
<1>2. PerCaller \in Limits /\ PerTool \in Limits /\ Overlay \in [Tools -> Limits]
  BY WorkflowAssumption
<1>3. LimitOf(k) \in Limits
  <2>1. \/ k \in {<<"caller", c>> : c \in Callers}
        \/ k \in {<<"tool", c, t>> : c \in Callers, t \in Tools}
        \/ k \in {<<"overlay", t>> : t \in Tools}
    BY DEF Keys, Limited
  <2>2. CASE k \in {<<"caller", c>> : c \in Callers}
    <3>1. k[1] = "caller"
      BY <2>2
    <3>2. QED BY <3>1, <1>2 DEF LimitOf
  <2>3. CASE k \in {<<"tool", c, t>> : c \in Callers, t \in Tools}
    <3>1. k[1] = "tool"
      BY <2>3
    <3>2. QED BY <3>1, <1>2 DEF LimitOf
  <2>4. CASE k \in {<<"overlay", t>> : t \in Tools}
    <3>1. k[1] = "overlay" /\ k[2] \in Tools
      BY <2>4
    <3>2. QED BY <3>1, <1>2 DEF LimitOf
  <2>5. QED BY <2>1, <2>2, <2>3, <2>4
<1>4. QED BY <1>1, <1>3 DEF Limits

(* Up to one of each of three different things, one after the other.       *)
LEMMA ThreeApart ==
  ASSUME NEW a, NEW b, NEW c, a # b, a # c, b # c,
         NEW s \in {<<a>>, <<>>}, NEW t \in {<<b>>, <<>>}, NEW u \in {<<c>>, <<>>}
  PROVE  \A i, j \in DOMAIN (s \o t \o u) :
           (s \o t \o u)[i] = (s \o t \o u)[j] => i = j
<1>1. CASE s = <<a>> /\ t = <<b>> /\ u = <<c>>
  BY <1>1
<1>2. CASE s = <<a>> /\ t = <<b>> /\ u = <<>>
  BY <1>2
<1>3. CASE s = <<a>> /\ t = <<>> /\ u = <<c>>
  BY <1>3
<1>4. CASE s = <<a>> /\ t = <<>> /\ u = <<>>
  BY <1>4
<1>5. CASE s = <<>> /\ t = <<b>> /\ u = <<c>>
  BY <1>5
<1>6. CASE s = <<>> /\ t = <<b>> /\ u = <<>>
  BY <1>6
<1>7. CASE s = <<>> /\ t = <<>> /\ u = <<c>>
  BY <1>7
<1>8. CASE s = <<>> /\ t = <<>> /\ u = <<>>
  BY <1>8
<1>9. QED BY <1>1, <1>2, <1>3, <1>4, <1>5, <1>6, <1>7, <1>8

(* No bucket is among a call's tiers twice.                                *)
LEMMA TiersApart ==
  ASSUME NEW r \in Runs
  PROVE  \A i, j \in DOMAIN Tiers(r) : Tiers(r)[i] = Tiers(r)[j] => i = j
<1> DEFINE a == <<"caller", CallerOf[r]>>
           b == <<"tool", CallerOf[r], Tool(r)>>
           c == <<"overlay", Tool(r)>>
<1>1. a # b /\ a # c /\ b # c
  <2>1. a[1] = "caller" /\ b[1] = "tool" /\ c[1] = "overlay"
    OBVIOUS
  <2>2. QED BY <2>1
<1> HIDE DEF a, b, c
<1>2. /\ IfLimited(a) \in {<<a>>, <<>>}
      /\ IfLimited(b) \in {<<b>>, <<>>}
      /\ IfLimited(c) \in {<<c>>, <<>>}
  BY DEF IfLimited
<1>3. Tiers(r) = IfLimited(a) \o IfLimited(b) \o IfLimited(c)
  BY DEF Tiers, a, b, c
<1>4. QED BY <1>1, <1>2, <1>3, ThreeApart, SMTT(20)

----------------------------------------------------------------------------
(* What the steps do to the runs.                                          *)

Others(r) == \A q \in Runs \ {r} : run'[q] = run[q]

(* The step takes no call through the limits and touches no bucket.        *)
Aside ==
  /\ UNCHANGED <<limiter, clock>>
  /\ \A q \in Runs :
       \/ run'[q] = run[q]
       \/ /\ run[q].stage \notin {"limits", "refund"}
          /\ run'[q].stage \notin {"limits", "refund"}
          /\ run'[q].now \in {0, run[q].now}

(* A call starts to be judged.                                             *)
LEMMA CallShape ==
  ASSUME IInv, NEW r \in Runs, Call(r)
  PROVE  /\ run[r].stage = "between" /\ Others(r)
         /\ run'[r].stage = "limits" /\ run'[r].now = clock
         /\ run'[r].charged = <<>>
         /\ UNCHANGED <<limiter, clock>>
<1>1. run \in [Runs -> Run]
  BY DEF IInv, ReportType
<1>2. run'[r] = [run[r] EXCEPT !.stage = "limits", !.now = clock, !.tier = 0,
                               !.charged = <<>>]
  BY <1>1 DEF Call
<1>3. Others(r)
  BY <1>1 DEF Call, Others
<1>4. /\ run'[r].stage = "limits" /\ run'[r].now = clock
      /\ run'[r].charged = <<>>
  <2>1. run[r] \in Run
    BY <1>1
  <2>2. QED BY <2>1, <1>2 DEF Run
<1>5. run[r].stage = "between" /\ UNCHANGED <<limiter, clock>>
  BY DEF Call, At, fixed
<1>6. QED BY <1>3, <1>4, <1>5

(* The next tier takes its charge, lets the call pass, or refuses it.      *)
LEMMA TakeShape ==
  ASSUME IInv, NEW r \in Runs, Take(r)
  PROVE  LET key == Tiers(r)[run[r].tier + 1]
             ok == Admits(buckets, key, LimitOf(key), run[r].now)
             through == ok \/ ~Enforced(key)
         IN  /\ run[r].stage = "limits" /\ run[r].tier \in Nat /\ run[r].charged \in Seq(Keys)
             /\ run[r].tier + 1 \in DOMAIN Tiers(r) /\ key \in Keys
             /\ Others(r) /\ run'[r].now = run[r].now
             /\ run'[r].stage = (IF through THEN "limits" ELSE "refund")
             /\ run'[r].tier = (IF through THEN run[r].tier + 1 ELSE 0)
             /\ run'[r].charged = (IF ok THEN Append(run[r].charged, key)
                                   ELSE run[r].charged)
<1> DEFINE key == Tiers(r)[run[r].tier + 1]
           ok == Admits(buckets, key, LimitOf(key), run[r].now)
           through == ok \/ ~Enforced(key)
<1>1. run \in [Runs -> Run]
  BY DEF IInv, ReportType
<1>2. run[r].stage = "limits" /\ run[r].tier \in Nat /\ run[r].charged \in Seq(Keys)
  BY <1>1 DEF Take, At, Run
<1>3. Tiers(r) \in Seq(Keys)
  BY RunRecords, TiersAreKeys
<1>4. run[r].tier + 1 \in DOMAIN Tiers(r) /\ key \in Keys
  BY <1>2, <1>3 DEF Take
<1>5. run' = [run EXCEPT
           ![r].stage = IF through THEN "limits" ELSE "refund",
           ![r].tier = IF through THEN @ + 1 ELSE 0,
           ![r].charged = IF ok THEN Append(@, key) ELSE @]
  BY DEF Take
<1> HIDE DEF through, ok, key
<1>6. run'[r] = [run[r] EXCEPT
           !.stage = IF through THEN "limits" ELSE "refund",
           !.tier = IF through THEN run[r].tier + 1 ELSE 0,
           !.charged = IF ok THEN Append(run[r].charged, key) ELSE run[r].charged]
  BY <1>1, <1>5
<1>7. Others(r)
  BY <1>1, <1>5 DEF Others
<1>8. /\ run'[r].now = run[r].now
      /\ run'[r].stage = (IF through THEN "limits" ELSE "refund")
      /\ run'[r].tier = (IF through THEN run[r].tier + 1 ELSE 0)
      /\ run'[r].charged = (IF ok THEN Append(run[r].charged, key) ELSE run[r].charged)
  <2> DEFINE stage == IF through THEN "limits" ELSE "refund"
             tier == IF through THEN run[r].tier + 1 ELSE 0
             charged == IF ok THEN Append(run[r].charged, key) ELSE run[r].charged
  <2>1. run[r] \in Run
    BY <1>1
  <2>2. run'[r] = [run[r] EXCEPT !.stage = stage, !.tier = tier, !.charged = charged]
    BY <1>6
  <2> HIDE DEF stage, tier, charged
  <2>3. /\ run'[r].now = run[r].now /\ run'[r].stage = stage
        /\ run'[r].tier = tier /\ run'[r].charged = charged
    BY <2>1, <2>2 DEF Run
  <2>4. QED BY <2>3 DEF stage, tier, charged
<1>9. QED BY <1>2, <1>4, <1>7, <1>8 DEF through, ok, key

(* The call goes out.                                                      *)
LEMMA AdmitShape ==
  ASSUME IInv, NEW r \in Runs, Admit(r)
  PROVE  /\ run[r].stage = "limits" /\ run[r].charged \in Seq(Keys) /\ Others(r)
         /\ run'[r].stage = "calling" /\ run'[r].now = 0
<1>1. run \in [Runs -> Run]
  BY DEF IInv, ReportType
<1>2. run'[r] = Judged(r, "calling") /\ Others(r)
  BY <1>1 DEF Admit, Others
<1>3. run[r].stage = "limits" /\ run[r].charged \in Seq(Keys)
  BY <1>1 DEF Admit, At, Run
<1>4. QED BY <1>2, <1>3 DEF Judged, NewRun

(* One charge is given back.                                               *)
GivesBack(r) ==
  LET key == run[r].charged[run[r].tier + 1]
  IN  /\ run[r].tier + 1 \in DOMAIN run[r].charged /\ key \in Keys
      /\ run'[r].stage = "refund" /\ run'[r].tier = run[r].tier + 1
      /\ run'[r].charged = run[r].charged /\ run'[r].now = run[r].now
      /\ buckets' = Refunded(buckets, key, LimitOf(key), run[r].now)
      /\ disturbed' = disturbed \cup {k \in {key} : Overtaken(k, run[r].now)}

(* All are, and the refusal is reported.                                   *)
GivenBack(r) ==
  /\ run[r].tier = Len(run[r].charged)
  /\ run'[r].stage = "failed" /\ run'[r].now = 0
  /\ UNCHANGED <<buckets, disturbed>>

(* A refused call is refunded.                                             *)
LEMMA RefundShape ==
  ASSUME IInv, NEW r \in Runs, Refund(r)
  PROVE  /\ run[r].stage = "refund" /\ run[r].tier \in Nat /\ run[r].charged \in Seq(Keys)
         /\ Others(r) /\ UNCHANGED <<history, clock>>
         /\ GivesBack(r) \/ GivenBack(r)
<1> DEFINE key == run[r].charged[run[r].tier + 1]
           now == run[r].now
<1>1. run \in [Runs -> Run]
  BY DEF IInv, ReportType
<1>2. run[r].stage = "refund" /\ run[r].tier \in Nat /\ run[r].charged \in Seq(Keys)
  BY <1>1 DEF Refund, At, Run
<1>3. UNCHANGED <<history, clock>>
  BY DEF Refund, fixed
<1>4. \/ /\ run[r].tier < Len(run[r].charged)
         /\ buckets' = Refunded(buckets, key, LimitOf(key), now)
         /\ disturbed' = disturbed \cup {k \in {key} : Overtaken(k, now)}
         /\ run' = [run EXCEPT ![r].tier = @ + 1]
      \/ /\ run[r].tier = Len(run[r].charged)
         /\ run' = [run EXCEPT ![r] = [Judged(r, "failed") EXCEPT !.reach = "NotSent"]]
         /\ UNCHANGED <<buckets, disturbed>>
  BY DEF Refund, Charged
<1>5. CASE run' = [run EXCEPT ![r].tier = @ + 1] /\ run[r].tier < Len(run[r].charged)
           /\ buckets' = Refunded(buckets, key, LimitOf(key), now)
           /\ disturbed' = disturbed \cup {k \in {key} : Overtaken(k, now)}
  <2>1. run'[r] = [run[r] EXCEPT !.tier = run[r].tier + 1] /\ Others(r)
    BY <1>1, <1>5 DEF Others
  <2>2. /\ run'[r].stage = "refund" /\ run'[r].tier = run[r].tier + 1
        /\ run'[r].charged = run[r].charged /\ run'[r].now = run[r].now
    BY <1>1, <1>2, <2>1 DEF Run
  <2>3. run[r].tier + 1 \in DOMAIN run[r].charged /\ key \in Keys
    BY <1>2, <1>5
  <2>4. QED BY <1>2, <1>3, <1>5, <2>1, <2>2, <2>3 DEF GivesBack
<1>6. CASE /\ run[r].tier = Len(run[r].charged)
           /\ run' = [run EXCEPT ![r] = [Judged(r, "failed") EXCEPT !.reach = "NotSent"]]
           /\ UNCHANGED <<buckets, disturbed>>
  <2>1. run'[r] = [Judged(r, "failed") EXCEPT !.reach = "NotSent"] /\ Others(r)
    BY <1>1, <1>6 DEF Others
  <2>2. run'[r].stage = "failed" /\ run'[r].now = 0
    BY <2>1 DEF Judged, NewRun
  <2>3. QED BY <1>2, <1>3, <1>6, <2>1, <2>2 DEF GivenBack
<1>7. QED BY <1>4, <1>5, <1>6

(* All other steps but the clock's leave the limiter aside.                *)
LEMMA StepKinds ==
  ASSUME IInv, [Next]_vars
  PROVE  \/ Aside \/ Tick
         \/ \E r \in Runs : Call(r) \/ Take(r) \/ Admit(r) \/ Refund(r)
<1>1. run \in [Runs -> Run]
  BY DEF IInv, ReportType
<1>2. ASSUME NEW r \in Runs, At(r, "calling"), NEW reach, Fail(r, reach),
             UNCHANGED <<limiter, fixed>>
      PROVE  Aside
  <2>1. Others(r) /\ run'[r] = [run[r] EXCEPT !.stage = "failed", !.reach = reach]
    BY <1>1, <1>2 DEF Fail, Others
  <2>2. run'[r].stage = "failed" /\ run'[r].now = run[r].now
    BY <1>1, <2>1, ZenonT(40) DEF Run
  <2>3. QED BY <1>2, <2>1, <2>2 DEF Aside, Others, At, fixed
<1>3. ASSUME NEW r \in Runs, AnswerOk(r) PROVE Aside
  <2>1. Others(r) /\ run'[r] \in {[NewRun EXCEPT !.step = run[r].step + 1], Judged(r, "over")}
    BY <1>1, <1>3 DEF AnswerOk, Others
  <2>2. run'[r].stage \notin {"limits", "refund"} /\ run'[r].now = 0
    BY <2>1 DEF NewRun, Judged
  <2>3. QED BY <1>3, <2>1, <2>2 DEF Aside, Others, At, AnswerOk, fixed
<1>4. ASSUME NEW r \in Runs, Report(r) PROVE Aside
  <2>1. Others(r) /\ run'[r] = [run[r] EXCEPT !.stage = "over", !.fix = Fix(r)]
    BY <1>1, <1>4 DEF Report, Others
  <2>2. run'[r].stage = "over" /\ run'[r].now = run[r].now
    BY <1>1, <2>1, ZenonT(40) DEF Run
  <2>3. QED BY <1>4, <2>1, <2>2 DEF Aside, Others, At, Report, fixed
<1>5. ASSUME NEW r \in Runs, LateEffect(r) PROVE Aside
  BY <1>5 DEF LateEffect, Aside, fixed
<1>6. ASSUME NEW t \in Unsettled, Rehint(t) PROVE Aside
  BY <1>6 DEF Rehint, Aside, fixed
<1>7. ASSUME UNCHANGED vars PROVE Aside
  BY <1>7 DEF vars, Aside, limiter, history
<1>8. ASSUME NEW r \in Runs, Step(r)
      PROVE  Aside \/ Call(r) \/ Take(r) \/ Admit(r) \/ Refund(r)
  BY <1>8, <1>2, <1>3, <1>4, <1>5
  DEF Step, RefuseLocally, AnswerError, AnswerUnreadable, NoAnswer
<1>9. QED BY <1>6, <1>7, <1>8 DEF Next, Finished

----------------------------------------------------------------------------
(* The limiter's books, and what the history records of them.              *)

LimiterType ==
  /\ \A r \in Runs : run[r].now \in 0..clock
  /\ DOMAIN buckets \subseteq Keys
  /\ \A k \in DOMAIN buckets :
       /\ buckets[k] \in Bucket
       /\ buckets[k].tokens <= Capacity(LimitOf(k))
       /\ buckets[k].updated <= clock
  /\ IsFiniteSet(admitted)
  /\ \A a \in admitted : a.at \in 0..clock

IdealType ==
  /\ ideal \in [Keys -> [tokens : Int, updated : Nat]]
  /\ \A k \in Keys : /\ ideal[k].tokens <= Capacity(LimitOf(k))
                     /\ ideal[k].updated <= clock

(* A call being judged was charged for tiers it has been through, each     *)
(* once.                                                                   *)
Charges(r) ==
  /\ run[r].stage = "limits" =>
       \A i \in DOMAIN run[r].charged :
         \E j \in DOMAIN Tiers(r) : j <= run[r].tier /\ run[r].charged[i] = Tiers(r)[j]
  /\ run[r].stage \in {"limits", "refund"} =>
       \A i, j \in DOMAIN run[r].charged : run[r].charged[i] = run[r].charged[j] => i = j

Ledger == LimiterType /\ IdealType /\ \A r \in Runs : Charges(r)

(* The books open in order.                                                *)
LEMMA InitLedger == Init => Ledger
<1> SUFFICES ASSUME Init PROVE Ledger
  OBVIOUS
<1>1. \A r \in Runs : run[r].now = 0 /\ run[r].stage = "between"
  BY DEF Init, NewRun
<1>2. LimiterType
  BY <1>1, FS_EmptySet DEF Init, LimiterType
<1>3. \A k \in Keys : Capacity(LimitOf(k)) \in Nat
  BY KeyLimits, LimitNumbers
<1>4. IdealType
  BY <1>3 DEF Init, IdealType
<1>5. \A r \in Runs : Charges(r)
  BY <1>1 DEF Charges
<1>6. QED BY <1>2, <1>4, <1>5 DEF Ledger

(* A run other than the one that steps keeps its charges.                  *)
LEMMA ChargesKept ==
  ASSUME NEW q \in Runs, Charges(q), run'[q] = run[q]
  PROVE  Charges(q)'
BY DEF Charges, Tiers, Tool

(* What a call's admission adds to the history is finite.                  *)
LEMMA AdmittedFinite ==
  ASSUME NEW S, NEW s \in Seq(S), NEW by, NEW at
  PROVE  IsFiniteSet({[key |-> k, by |-> by, at |-> at] : k \in Range(s)})
<1> DEFINE T == {[key |-> k, by |-> by, at |-> at] : k \in Range(s)}
           f == [i \in 1..Len(s) |-> [key |-> s[i], by |-> by, at |-> at]]
<1>1. Len(s) \in Nat /\ DOMAIN s = 1..Len(s)
  OBVIOUS
<1>2. f \in Surjection(1..Len(s), T)
  <2>1. f \in [1..Len(s) -> T]
    BY <1>1 DEF Range
  <2>2. \A t \in T : \E i \in 1..Len(s) : f[i] = t
    BY <1>1 DEF Range
  <2>3. QED BY <2>1, <2>2 DEF Surjection
<1>3. IsFiniteSet(1..Len(s))
  BY <1>1, FS_Interval
<1>4. QED BY <1>2, <1>3, FS_Surjection

(* The step of no run: time passes.                                        *)
LEMMA TickLedger == ASSUME IInv, Ledger, Tick PROVE Ledger'
<1>1. clock \in Nat /\ clock' = clock + 1 /\ UNCHANGED <<run, limiter>>
  BY DEF Tick, IInv, ReportType
<1>2. 0..clock \subseteq 0..clock'
  BY <1>1
<1>3. LimiterType'
  <2>1. \A k \in DOMAIN buckets : buckets[k].updated <= clock'
    BY <1>1 DEF Ledger, LimiterType, Bucket
  <2>2. QED BY <1>1, <1>2, <2>1 DEF Ledger, LimiterType, limiter, history
<1>4. IdealType'
  <2>1. \A k \in Keys : ideal[k].updated <= clock'
    BY <1>1 DEF Ledger, IdealType
  <2>2. QED BY <1>1, <2>1 DEF Ledger, IdealType, limiter, history
<1>5. \A r \in Runs : Charges(r)'
  BY <1>1, ChargesKept DEF Ledger
<1>6. QED BY <1>3, <1>4, <1>5 DEF Ledger

(* Nor does a step that leaves the limiter aside disturb the books.        *)
LEMMA AsideLedger == ASSUME IInv, Ledger, Aside PROVE Ledger'
<1>1. clock \in Nat
  BY DEF IInv, ReportType
<1>2. \A r \in Runs : run'[r].now \in 0..clock
  BY <1>1 DEF Aside, Ledger, LimiterType
<1>3. LimiterType' /\ IdealType'
  BY <1>2 DEF Aside, Ledger, LimiterType, IdealType, limiter, history
<1>4. \A r \in Runs : Charges(r)'
  <2> SUFFICES ASSUME NEW r \in Runs PROVE Charges(r)'
    OBVIOUS
  <2>1. CASE run'[r] = run[r]
    BY <2>1, ChargesKept DEF Ledger
  <2>2. CASE run'[r].stage \notin {"limits", "refund"}
    BY <2>2 DEF Charges
  <2>3. QED BY <2>1, <2>2 DEF Aside
<1>5. QED BY <1>3, <1>4 DEF Ledger

(* A call starts with no charge.                                           *)
LEMMA CallLedger == ASSUME IInv, Ledger, NEW r \in Runs, Call(r) PROVE Ledger'
<1>1. clock \in Nat
  BY DEF IInv, ReportType
<1>2. /\ Others(r) /\ run'[r].now = clock /\ run'[r].charged = <<>>
      /\ UNCHANGED <<limiter, clock>>
  BY CallShape
<1>3. \A q \in Runs : run'[q].now \in 0..clock
  BY <1>1, <1>2 DEF Others, Ledger, LimiterType
<1>4. LimiterType' /\ IdealType'
  BY <1>2, <1>3 DEF Ledger, LimiterType, IdealType, limiter, history
<1>5. Charges(r)'
  BY <1>2 DEF Charges
<1>6. \A q \in Runs \ {r} : Charges(q)'
  BY <1>2, ChargesKept DEF Others, Ledger
<1>7. QED BY <1>4, <1>5, <1>6 DEF Ledger

(* What a bucket has, and what a take leaves of it.                        *)
LEMMA AvailableType ==
  ASSUME LimiterType, NEW k \in Keys, NEW now \in Nat
  PROVE  LET limit == LimitOf(k)
             has == Available(buckets, k, limit, now)
             left == Left(buckets, k, limit, now)
         IN  /\ has \in Nat /\ has <= Capacity(limit)
             /\ left \in Nat /\ left <= Capacity(limit)
             /\ left = IF Admits(buckets, k, limit, now) THEN has - Cost(limit) ELSE has
<1> DEFINE limit == LimitOf(k)
           has == Available(buckets, k, limit, now)
<1>1. limit \in Limit
  BY KeyLimits
<1> HIDE DEF limit
<1>2. Capacity(limit) \in Nat /\ Cost(limit) \in Nat
  BY <1>1, LimitNumbers
<1>3. has \in Nat /\ has <= Capacity(limit)
  <2>1. CASE k \in DOMAIN buckets
    <3>1. buckets[k] \in Bucket /\ buckets[k].tokens <= Capacity(limit)
      BY <2>1 DEF LimiterType, limit
    <3>2. has = Refilled(limit, buckets[k], now)
      BY <2>1, AvailableValue
    <3>3. QED BY <1>1, <3>1, <3>2, RefilledValue
  <2>2. CASE k \notin DOMAIN buckets
    BY <1>2, <2>2, AvailableValue
  <2>3. QED BY <2>1, <2>2
<1> HIDE DEF has
<1>4. QED BY <1>2, <1>3 DEF Left, Admits, has, limit

(* A step that writes one bucket with a worth within its capacity keeps    *)
(* the books of the others.                                                *)
LEMMA WriteLedger ==
  ASSUME IInv, Ledger, NEW k \in Keys, NEW t \in Nat, t <= Capacity(LimitOf(k)),
         NEW r \in Runs,
         DOMAIN buckets' \subseteq DOMAIN buckets \cup {k},
         k \in DOMAIN buckets' => buckets'[k] = [tokens |-> t, updated |-> run[r].now],
         \A j \in DOMAIN buckets' \ {k} : buckets'[j] = buckets[j],
         Others(r), run'[r].now \in 0..clock, Charges(r)',
         UNCHANGED <<history, clock>>
  PROVE  Ledger'
<1>1. clock \in Nat /\ run[r].now \in 0..clock
  BY DEF IInv, ReportType, Ledger, LimiterType
<1>2. \A q \in Runs : run'[q].now \in 0..clock
  BY DEF Others, Ledger, LimiterType
<1>3. \A j \in DOMAIN buckets' : /\ j \in Keys /\ buckets'[j] \in Bucket
                                 /\ buckets'[j].tokens <= Capacity(LimitOf(j))
                                 /\ buckets'[j].updated <= clock
  <2>1. ASSUME NEW j \in DOMAIN buckets'
        PROVE  /\ j \in Keys /\ buckets'[j] \in Bucket
               /\ buckets'[j].tokens <= Capacity(LimitOf(j))
               /\ buckets'[j].updated <= clock
    <3>1. CASE j = k
      BY <1>1, <3>1 DEF Bucket
    <3>2. CASE j # k
      BY <3>2 DEF Ledger, LimiterType
    <3>3. QED BY <3>1, <3>2
  <2>2. QED BY <2>1
<1>4. LimiterType'
  BY <1>2, <1>3 DEF Ledger, LimiterType, history
<1>5. IdealType'
  BY DEF Ledger, IdealType, history
<1>6. \A q \in Runs : Charges(q)'
  BY ChargesKept DEF Others, Ledger
<1>7. QED BY <1>4, <1>5, <1>6 DEF Ledger

(* A charge is of a tier the call has not been through before.             *)
LEMMA TakeCharges ==
  ASSUME IInv, Ledger, NEW r \in Runs, Take(r)
  PROVE  /\ Charges(r)'
         /\ Tiers(r)[run[r].tier + 1] \notin Range(run[r].charged)
<1> DEFINE key == Tiers(r)[run[r].tier + 1]
           ok == Admits(buckets, key, LimitOf(key), run[r].now)
           through == ok \/ ~Enforced(key)
           s == run[r].charged
<1>1. /\ run[r].stage = "limits" /\ run[r].tier \in Nat /\ s \in Seq(Keys)
      /\ run[r].tier + 1 \in DOMAIN Tiers(r)
      /\ run'[r].stage = (IF through THEN "limits" ELSE "refund")
      /\ run'[r].tier = (IF through THEN run[r].tier + 1 ELSE 0)
      /\ run'[r].charged = (IF ok THEN Append(s, key) ELSE s)
  BY TakeShape
<1>2. Tiers(r)' = Tiers(r)
  <2>1. run'[r].step = run[r].step
    <3>1. run \in [Runs -> Run]
      BY DEF IInv, ReportType
    <3>2. run[r] \in Run
      BY <3>1
    <3>3. \E st, ti, ch : run'[r] = [run[r] EXCEPT !.stage = st, !.tier = ti, !.charged = ch]
      BY <3>1 DEF Take
    <3>4. QED BY <3>2, <3>3 DEF Run
  <2>2. QED BY <2>1 DEF Tiers, Tool
<1>3. /\ \A i \in DOMAIN s : \E j \in DOMAIN Tiers(r) : j <= run[r].tier /\ s[i] = Tiers(r)[j]
      /\ \A i, j \in DOMAIN s : s[i] = s[j] => i = j
  BY <1>1 DEF Ledger, Charges
<1>4. DOMAIN Tiers(r) \subseteq Nat
  BY RunRecords, TiersAreKeys
<1>5. \A i \in DOMAIN s : s[i] # key
  <2>1. SUFFICES ASSUME NEW i \in DOMAIN s, s[i] = key PROVE FALSE
    OBVIOUS
  <2>2. PICK j \in DOMAIN Tiers(r) : j <= run[r].tier /\ s[i] = Tiers(r)[j]
    BY <1>3
  <2>3. j = run[r].tier + 1
    BY <1>1, <2>1, <2>2, TiersApart
  <2>4. QED BY <1>1, <1>4, <2>2, <2>3
<1> HIDE DEF key, ok, through
<1>6. CASE ok
  <2>1. /\ Append(s, key) \in Seq(Keys \cup {key})
        /\ Len(s) \in Nat /\ DOMAIN s = 1..Len(s)
        /\ DOMAIN Append(s, key) = 1..(Len(s) + 1)
        /\ \A i \in 1..Len(s) : Append(s, key)[i] = s[i]
        /\ Append(s, key)[Len(s) + 1] = key
    BY <1>1
  <2>2. run'[r].charged = Append(s, key) /\ run'[r].stage = "limits"
        /\ run'[r].tier = run[r].tier + 1
    BY <1>1, <1>6 DEF through
  <2>3. \A i, j \in 1..(Len(s) + 1) : Append(s, key)[i] = Append(s, key)[j] => i = j
    BY <1>3, <1>5, <2>1
  <2>4. ASSUME NEW i \in 1..(Len(s) + 1)
        PROVE  \E j \in DOMAIN Tiers(r) :
                 j <= run[r].tier + 1 /\ Append(s, key)[i] = Tiers(r)[j]
    <3>1. CASE i = Len(s) + 1
      BY <1>1, <2>1, <3>1 DEF key
    <3>2. CASE i \in 1..Len(s)
      <4>1. PICK j \in DOMAIN Tiers(r) : j <= run[r].tier /\ s[i] = Tiers(r)[j]
        BY <1>3, <2>1, <3>2
      <4>2. QED BY <1>1, <1>4, <2>1, <3>2, <4>1
    <3>3. QED BY <2>1, <3>1, <3>2
  <2>5. QED BY <1>2, <1>5, <2>1, <2>2, <2>3, <2>4 DEF Charges, Range, key
<1>7. CASE ~ok
  <2>1. run'[r].charged = s /\ (run'[r].stage = "limits" => run'[r].tier = run[r].tier + 1)
    BY <1>1, <1>7
  <2>2. ASSUME run'[r].stage = "limits", NEW i \in DOMAIN s
        PROVE  \E j \in DOMAIN Tiers(r) : j <= run'[r].tier /\ s[i] = Tiers(r)[j]
    <3>1. PICK j \in DOMAIN Tiers(r) : j <= run[r].tier /\ s[i] = Tiers(r)[j]
      BY <1>3
    <3>2. QED BY <1>1, <1>4, <2>1, <2>2, <3>1
  <2>3. QED BY <1>2, <1>3, <1>5, <2>1, <2>2 DEF Charges, Range, key
<1>8. QED BY <1>6, <1>7

(* A charge, or a refusal.                                                 *)
LEMMA TakeLedger == ASSUME IInv, Ledger, NEW r \in Runs, Take(r) PROVE Ledger'
<1> DEFINE key == Tiers(r)[run[r].tier + 1]
           now == run[r].now
           t == Left(buckets, key, LimitOf(key), now)
<1>1. key \in Keys /\ Others(r) /\ run'[r].now = now
  BY TakeShape
<1>2. clock \in Nat /\ now \in 0..clock /\ now \in Nat
  BY DEF IInv, ReportType, Ledger, LimiterType
<1>3. t \in Nat /\ t <= Capacity(LimitOf(key))
  BY <1>1, <1>2, AvailableType DEF Ledger
<1>4. /\ buckets' = Taken(buckets, key, LimitOf(key), now)
      /\ UNCHANGED <<history, clock>>
  BY DEF Take, fixed
<1>5. Charges(r)'
  BY TakeCharges
<1> HIDE DEF key, t
<1>6. /\ DOMAIN buckets' \subseteq DOMAIN buckets \cup {key}
      /\ buckets'[key] = [tokens |-> t, updated |-> now]
      /\ \A j \in DOMAIN buckets' \ {key} : buckets'[j] = buckets[j]
  BY <1>4, TakenEffect DEF t
<1>7. QED BY <1>1, <1>2, <1>3, <1>4, <1>5, <1>6, WriteLedger

(* The call's charges become admissions.                                   *)
LEMMA AdmitLedger == ASSUME IInv, Ledger, NEW r \in Runs, Admit(r) PROVE Ledger'
<1> DEFINE keys == Range(run[r].charged)
           new == {[key |-> k, by |-> <<r, run[r].step>>, at |-> run[r].now] : k \in keys}
<1>1. /\ run[r].charged \in Seq(Keys) /\ Others(r)
      /\ run'[r].stage = "calling" /\ run'[r].now = 0
  BY AdmitShape
<1>2. /\ admitted' = admitted \cup new
      /\ ideal' = [k \in Keys |->
           IF k \in keys
             THEN [tokens |-> Ideal(k) - Cost(LimitOf(k)), updated |-> clock]
             ELSE ideal[k]]
      /\ UNCHANGED <<buckets, clock>>
  BY DEF Admit, fixed
<1>3. clock \in Nat /\ run[r].now \in 0..clock
  BY DEF IInv, ReportType, Ledger, LimiterType
<1>4. IsFiniteSet(new) /\ \A a \in new : a.at \in 0..clock
  <2>1. \A by, at : IsFiniteSet({[key |-> k, by |-> by, at |-> at] : k \in keys})
    BY <1>1, AdmittedFinite
  <2>2. IsFiniteSet(new)
    BY <2>1
  <2>3. QED BY <1>3, <2>2
<1>5. \A q \in Runs : run'[q].now \in 0..clock
  BY <1>1, <1>3 DEF Others, Ledger, LimiterType
<1>6. LimiterType'
  <2>1. IsFiniteSet(admitted') /\ \A a \in admitted' : a.at \in 0..clock
    <3>1. IsFiniteSet(admitted) /\ \A a \in admitted : a.at \in 0..clock
      BY DEF Ledger, LimiterType
    <3> HIDE DEF new
    <3>2. QED BY <1>2, <1>4, <3>1, FS_Union
  <2>2. QED BY <1>2, <1>5, <2>1 DEF Ledger, LimiterType
<1>7. IdealType'
  <2>1. ASSUME NEW k \in Keys
        PROVE  /\ ideal'[k] \in [tokens : Int, updated : Nat]
               /\ ideal'[k].tokens <= Capacity(LimitOf(k))
               /\ ideal'[k].updated <= clock
    <3>1. Capacity(LimitOf(k)) \in Nat /\ Cost(LimitOf(k)) \in Nat /\ Rate(LimitOf(k)) \in Nat
      BY KeyLimits, LimitNumbers
    <3>2. ideal[k] \in [tokens : Int, updated : Nat]
          /\ ideal[k].tokens <= Capacity(LimitOf(k)) /\ ideal[k].updated <= clock
      BY DEF Ledger, IdealType
    <3>3. Ideal(k) \in Int /\ Ideal(k) <= Capacity(LimitOf(k))
      <4>1. (clock - ideal[k].updated) * Rate(LimitOf(k)) \in Int
        BY <1>3, <3>1, <3>2, Products
      <4>2. QED BY <3>1, <3>2, <4>1 DEF Ideal, Lesser
    <3>4. CASE k \in keys
      <4>1. ideal'[k] = [tokens |-> Ideal(k) - Cost(LimitOf(k)), updated |-> clock]
        BY <1>2, <3>4
      <4>2. QED BY <1>3, <3>1, <3>3, <4>1
    <3>5. CASE k \notin keys
      BY <1>2, <3>2, <3>5
    <3>6. QED BY <3>4, <3>5
  <2>2. QED BY <1>2, <2>1 DEF IdealType
<1>8. \A q \in Runs : Charges(q)'
  <2>1. Charges(r)'
    BY <1>1 DEF Charges
  <2>2. QED BY <1>1, <2>1, ChargesKept DEF Others, Ledger
<1>9. QED BY <1>6, <1>7, <1>8 DEF Ledger

(* A charge is given back, at most up to the capacity.                     *)
LEMMA RefundLedger == ASSUME IInv, Ledger, NEW r \in Runs, Refund(r) PROVE Ledger'
<1>1. /\ run[r].stage = "refund" /\ run[r].tier \in Nat /\ run[r].charged \in Seq(Keys)
      /\ Others(r) /\ UNCHANGED <<history, clock>>
      /\ GivesBack(r) \/ GivenBack(r)
  BY RefundShape
<1>2. clock \in Nat /\ run[r].now \in 0..clock /\ run[r].now \in Nat
  BY DEF IInv, ReportType, Ledger, LimiterType
<1>3. CASE GivesBack(r)
  <2> DEFINE key == run[r].charged[run[r].tier + 1]
             limit == LimitOf(key)
             t == Lesser(Refilled(limit, buckets[key], run[r].now) + Cost(limit), Capacity(limit))
  <2>1. /\ key \in Keys /\ run'[r].stage = "refund" /\ run'[r].charged = run[r].charged
        /\ run'[r].now = run[r].now
        /\ buckets' = Refunded(buckets, key, limit, run[r].now)
    BY <1>3 DEF GivesBack
  <2>2. Charges(r)'
    BY <1>1, <2>1 DEF Ledger, Charges
  <2>3. CASE key \notin DOMAIN buckets
    <3> HIDE DEF key, limit, t
    <3>1. buckets' = buckets
      BY <2>1, <2>3 DEF Refunded
    <3>2. Capacity(LimitOf(key)) \in Nat
      BY <2>1, KeyLimits, LimitNumbers
    <3>3. Capacity(LimitOf(key)) <= Capacity(LimitOf(key))
      BY <3>2
    <3>4. QED BY <1>1, <1>2, <2>1, <2>2, <2>3, <3>1, <3>2, <3>3, WriteLedger
  <2>4. CASE key \in DOMAIN buckets
    <3>1. t \in Nat /\ t <= Capacity(limit)
      <4>1. limit \in Limit /\ buckets[key] \in Bucket /\ buckets[key].tokens <= Capacity(limit)
        BY <2>1, <2>4, KeyLimits DEF Ledger, LimiterType
      <4>2. Refilled(limit, buckets[key], run[r].now) \in Nat
        BY <1>2, <4>1, RefilledValue
      <4>3. Capacity(limit) \in Nat /\ Cost(limit) \in Nat
        BY <4>1, LimitNumbers
      <4>4. QED BY <4>2, <4>3 DEF Lesser
    <3>2. /\ DOMAIN buckets' = DOMAIN buckets
          /\ buckets'[key] = [tokens |-> t, updated |-> run[r].now]
          /\ \A j \in DOMAIN buckets' \ {key} : buckets'[j] = buckets[j]
      BY <2>1, <2>4, RefundedEffect, SMTT(20)
    <3> HIDE DEF key, t
    <3>3. QED BY <1>1, <1>2, <2>1, <2>2, <3>1, <3>2, WriteLedger
  <2>5. QED BY <2>3, <2>4
<1>4. CASE GivenBack(r)
  <2>1. run'[r].stage = "failed" /\ run'[r].now = 0 /\ UNCHANGED <<limiter, clock>>
    BY <1>1, <1>4 DEF GivenBack, limiter, history
  <2>2. Charges(r)'
    BY <2>1 DEF Charges
  <2>3. \A q \in Runs : run'[q].now \in 0..clock
    BY <1>1, <1>2, <2>1 DEF Others, Ledger, LimiterType
  <2>4. LimiterType' /\ IdealType'
    BY <2>1, <2>3 DEF Ledger, LimiterType, IdealType, limiter, history
  <2>5. \A q \in Runs : Charges(q)'
    BY <1>1, <2>2, ChargesKept DEF Others, Ledger
  <2>6. QED BY <2>4, <2>5 DEF Ledger
<1>5. QED BY <1>1, <1>3, <1>4

(* Every step keeps the books.                                             *)
LEMMA NextLedger == ASSUME IInv, Ledger, [Next]_vars PROVE Ledger'
BY StepKinds, AsideLedger, TickLedger, CallLedger, TakeLedger, AdmitLedger, RefundLedger

----------------------------------------------------------------------------
(* Who may get a charge back.                                              *)

(* A run that does not step holds what it held.                            *)
LEMMA HoldsKept ==
  ASSUME NEW q \in Runs, run'[q] = run[q]
  PROVE  \A k : Holds(q, k)' <=> Holds(q, k)
BY DEF Holds, At

SameHolders ==
  \A q \in Runs, k \in Keys :
    /\ Holds(q, k)' <=> Holds(q, k)
    /\ Holds(q, k) => run'[q].now = run[q].now

(* Steps aside change no holder.                                           *)
LEMMA AsideHolders == ASSUME Aside PROVE SameHolders
<1> SUFFICES ASSUME NEW q \in Runs, NEW k \in Keys
             PROVE  /\ Holds(q, k)' <=> Holds(q, k)
                    /\ Holds(q, k) => run'[q].now = run[q].now
  BY DEF SameHolders
<1>1. CASE run'[q] = run[q]
  BY <1>1, HoldsKept
<1>2. CASE run[q].stage \notin {"limits", "refund"} /\ run'[q].stage \notin {"limits", "refund"}
  BY <1>2 DEF Holds, At
<1>3. QED BY <1>1, <1>2 DEF Aside

(* A call that starts holds nothing.                                       *)
LEMMA CallHolders == ASSUME IInv, NEW r \in Runs, Call(r) PROVE SameHolders
<1>1. /\ run[r].stage = "between" /\ Others(r)
      /\ run'[r].stage = "limits" /\ run'[r].charged = <<>>
  BY CallShape
<1>2. \A k : ~Holds(r, k) /\ ~Holds(r, k)'
  BY <1>1 DEF Holds, At, Range
<1>3. \A q \in Runs \ {r} : run'[q] = run[q]
  BY <1>1 DEF Others
<1>4. QED BY <1>2, <1>3, HoldsKept DEF SameHolders

(* The holders of bucket k but r are what they were.                       *)
OtherHolders(r) ==
  \A q \in Runs \ {r}, k \in Keys :
    run'[q] = run[q] /\ (Holds(q, k)' <=> Holds(q, k))

(* A step of r is a step of r only.                                        *)
LEMMA OthersHold == ASSUME NEW r \in Runs, Others(r) PROVE OtherHolders(r)
<1>1. \A q \in Runs \ {r} : run'[q] = run[q]
  BY DEF Others
<1>2. QED BY <1>1, HoldsKept DEF OtherHolders

(* A take that succeeds makes the call a holder of its bucket.             *)
LEMMA TakeHolders ==
  ASSUME IInv, Ledger, NEW r \in Runs, Take(r)
  PROVE  LET key == Tiers(r)[run[r].tier + 1]
             ok == Admits(buckets, key, LimitOf(key), run[r].now)
         IN  /\ OtherHolders(r) /\ run'[r].now = run[r].now
             /\ ~Holds(r, key)
             /\ \A k \in Keys : Holds(r, k)' <=> (Holds(r, k) \/ (ok /\ k = key))
<1> DEFINE key == Tiers(r)[run[r].tier + 1]
           ok == Admits(buckets, key, LimitOf(key), run[r].now)
           through == ok \/ ~Enforced(key)
           s == run[r].charged
           s2 == run'[r].charged
<1>1. /\ run[r].stage = "limits" /\ s \in Seq(Keys) /\ key \in Keys
      /\ Others(r) /\ run'[r].now = run[r].now
      /\ run'[r].stage = (IF through THEN "limits" ELSE "refund")
      /\ run'[r].tier = (IF through THEN run[r].tier + 1 ELSE 0)
      /\ s2 = (IF ok THEN Append(s, key) ELSE s)
  BY TakeShape
<1>2. key \notin Range(s)
  BY TakeCharges
<1>3. OtherHolders(r)
  BY <1>1, OthersHold
<1> HIDE DEF key, ok
<1>4. \A k : Holds(r, k) <=> k \in Range(s)
  BY <1>1 DEF Holds, At
<1>5. \A k : Holds(r, k)' <=> k \in Range(s2)
  <2>1. CASE through
    BY <1>1, <2>1 DEF Holds, At
  <2>2. CASE ~through
    <3>1. run'[r].stage = "refund" /\ run'[r].tier = 0 /\ s2 = s
      BY <1>1, <2>2
    <3>2. DOMAIN s2 = 1..Len(s2)
      BY <1>1, <3>1
    <3>3. QED BY <3>1, <3>2 DEF Holds, At, Range
  <2>3. QED BY <2>1, <2>2
<1>6. ok => \A k : k \in Range(s2) <=> (k \in Range(s) \/ k = key)
  <2>1. Append(s, key) \in Seq(Keys) /\ DOMAIN s = 1..Len(s) /\ Len(s) \in Nat
        /\ DOMAIN Append(s, key) = 1..(Len(s) + 1)
        /\ \A i \in 1..Len(s) : Append(s, key)[i] = s[i]
        /\ Append(s, key)[Len(s) + 1] = key
    BY <1>1
  <2>2. 1..(Len(s) + 1) = 1..Len(s) \cup {Len(s) + 1}
    BY <2>1
  <2>3. \A k : k \in Range(Append(s, key)) <=> (k \in Range(s) \/ k = key)
    BY <2>1, <2>2 DEF Range
  <2>4. QED BY <1>1, <2>3
<1>7. ~ok => s2 = s
  BY <1>1
<1>8. QED BY <1>1, <1>2, <1>3, <1>4, <1>5, <1>6, <1>7 DEF key, ok

(* A call that goes out holds nothing more.                                *)
LEMMA AdmitHolders ==
  ASSUME IInv, NEW r \in Runs, Admit(r)
  PROVE  /\ OtherHolders(r)
         /\ \A k : ~Holds(r, k)' /\ (Holds(r, k) <=> k \in Range(run[r].charged))
<1>1. run[r].stage = "limits" /\ Others(r) /\ run'[r].stage = "calling"
  BY AdmitShape
<1>2. QED BY <1>1, OthersHold DEF Holds, At

(* A refund takes the call off the holders of one bucket.                  *)
LEMMA RefundHolders ==
  ASSUME IInv, Ledger, NEW r \in Runs, Refund(r)
  PROVE  /\ OtherHolders(r)
         /\ GivesBack(r) =>
              LET key == run[r].charged[run[r].tier + 1]
              IN  /\ Holds(r, key)
                  /\ \A k \in Keys : Holds(r, k)' <=> (Holds(r, k) /\ k # key)
         /\ GivenBack(r) => \A k : ~Holds(r, k) /\ ~Holds(r, k)'
<1> DEFINE s == run[r].charged
           n == run[r].tier
           key == s[n + 1]
<1>1. run[r].stage = "refund" /\ n \in Nat /\ s \in Seq(Keys) /\ Others(r)
  BY RefundShape
<1>2. Len(s) \in Nat /\ DOMAIN s = 1..Len(s)
  BY <1>1
<1>3. \A i, j \in DOMAIN s : s[i] = s[j] => i = j
  BY <1>1 DEF Ledger, Charges
<1>4. \A k : Holds(r, k) <=> \E i \in (n + 1)..Len(s) : s[i] = k
  BY <1>1 DEF Holds, At
<1>5. ASSUME GivesBack(r)
      PROVE  /\ Holds(r, key)
             /\ \A k \in Keys : Holds(r, k)' <=> (Holds(r, k) /\ k # key)
  <2>1. /\ n + 1 \in 1..Len(s) /\ run'[r].stage = "refund" /\ run'[r].tier = n + 1
        /\ run'[r].charged = s
    BY <1>2, <1>5 DEF GivesBack
  <2>2. \A k : Holds(r, k)' <=> \E i \in (n + 1 + 1)..Len(s) : s[i] = k
    BY <2>1 DEF Holds, At
  <2> HIDE DEF s, n
  <2>3. (n + 1)..Len(s) = {n + 1} \cup (n + 1 + 1)..Len(s)
    BY <1>1, <1>2, <2>1
  <2>4. \A i \in (n + 1 + 1)..Len(s) : i \in DOMAIN s /\ i # n + 1 /\ n + 1 \in DOMAIN s
    BY <1>1, <1>2, <2>1
  <2>5. \A i \in (n + 1 + 1)..Len(s) : s[i] # key
    BY <1>3, <2>4
  <2>6. QED BY <1>4, <2>2, <2>3, <2>5
<1>6. ASSUME GivenBack(r) PROVE \A k : ~Holds(r, k) /\ ~Holds(r, k)'
  <2>1. n = Len(s) /\ run'[r].stage = "failed"
    BY <1>6 DEF GivenBack
  <2>2. (n + 1)..Len(s) = {}
    BY <1>2, <2>1
  <2>3. QED BY <1>4, <2>1, <2>2 DEF Holds, At
<1>7. QED BY <1>1, <1>5, <1>6, OthersHold

----------------------------------------------------------------------------
(* Counting the holders.                                                   *)

HoldersOf(k) == {q \in Runs : Holds(q, k)}

(* The holders are finitely many runs.                                     *)
LEMMA HoldersFinite ==
  /\ \A k : IsFiniteSet(HoldersOf(k)) /\ Pending(k) \in Nat
  /\ \A k : Pending(k) = Cardinality(HoldersOf(k))
<1>1. \A S \in SUBSET Runs : IsFiniteSet(S) /\ Cardinality(S) \in Nat
  BY WorkflowAssumption, FS_Subset, FS_CardinalityType
<1>2. \A k : HoldersOf(k) \in SUBSET Runs /\ Pending(k) = Cardinality(HoldersOf(k))
  BY DEF HoldersOf, Pending
<1>3. QED BY <1>1, <1>2

(* One holder more or less.                                                *)
LEMMA PendingStep ==
  ASSUME NEW r \in Runs, OtherHolders(r), NEW k \in Keys
  PROVE  /\ (Holds(r, k)' <=> Holds(r, k)) => Pending(k)' = Pending(k)
         /\ Holds(r, k)' /\ ~Holds(r, k) => Pending(k)' = Pending(k) + 1
         /\ ~Holds(r, k)' /\ Holds(r, k) =>
              Pending(k) > 0 /\ Pending(k)' = Pending(k) - 1
<1>1. Pending(k)' = Cardinality(HoldersOf(k)') /\ Pending(k) = Cardinality(HoldersOf(k))
  BY DEF Pending, HoldersOf
<1>2. IsFiniteSet(HoldersOf(k)) /\ Cardinality(HoldersOf(k)) \in Nat
  BY <1>1, HoldersFinite
<1>3. (Holds(r, k)' <=> Holds(r, k)) => HoldersOf(k)' = HoldersOf(k)
  BY DEF HoldersOf, OtherHolders
<1>4. Holds(r, k)' /\ ~Holds(r, k) => HoldersOf(k)' = HoldersOf(k) \cup {r} /\ r \notin HoldersOf(k)
  BY DEF HoldersOf, OtherHolders
<1>5. ~Holds(r, k)' /\ Holds(r, k) => HoldersOf(k)' = HoldersOf(k) \ {r} /\ r \in HoldersOf(k)
  BY DEF HoldersOf, OtherHolders
<1>6. Holds(r, k)' /\ ~Holds(r, k) => Pending(k)' = Pending(k) + 1
  BY <1>1, <1>2, <1>4, FS_AddElement
<1>7. ~Holds(r, k)' /\ Holds(r, k) => Pending(k)' = Pending(k) - 1 /\ Pending(k) > 0
  <2>1. r \in HoldersOf(k) => Cardinality(HoldersOf(k)) # 0
    BY <1>2, FS_EmptySet
  <2>2. QED BY <1>1, <1>2, <1>5, <2>1, FS_RemoveElement
<1>8. QED BY <1>1, <1>3, <1>6, <1>7

(* None.                                                                   *)
LEMMA PendingSame == ASSUME SameHolders, NEW k \in Keys PROVE Pending(k)' = Pending(k)
BY DEF SameHolders, Pending

----------------------------------------------------------------------------
(* A refused call costs nothing.                                           *)

Owed(k) == Worth(k) + Pending(k) * Cost(LimitOf(k)) >= Ideal(k)

(* The numbers in the balance of a bucket.                                 *)
LEMMA BalanceType ==
  ASSUME IInv, Ledger, NEW k \in Keys
  PROVE  LET limit == LimitOf(k)
         IN  /\ limit \in Limit
             /\ Rate(limit) \in Nat /\ Cost(limit) \in Nat /\ Capacity(limit) \in Nat
             /\ Worth(k) \in Nat /\ Worth(k) <= Capacity(limit)
             /\ Ideal(k) \in Int /\ Ideal(k) <= Capacity(limit)
             /\ Pending(k) \in Nat /\ Pending(k) * Cost(limit) \in Nat
<1> DEFINE limit == LimitOf(k)
<1>1. limit \in Limit
  BY KeyLimits
<1>2. Rate(limit) \in Nat /\ Cost(limit) \in Nat /\ Capacity(limit) \in Nat
  BY <1>1, LimitNumbers
<1>3. clock \in Nat
  BY DEF IInv, ReportType
<1>4. Worth(k) \in Nat /\ Worth(k) <= Capacity(limit)
  <2>1. CASE k \in DOMAIN buckets
    <3>1. buckets[k] \in Bucket /\ buckets[k].tokens <= Capacity(limit)
      BY <2>1 DEF Ledger, LimiterType
    <3>2. QED BY <1>1, <1>3, <2>1, <3>1, RefilledValue DEF Worth
  <2>2. CASE k \notin DOMAIN buckets
    BY <1>2, <2>2 DEF Worth
  <2>3. QED BY <2>1, <2>2
<1>5. Ideal(k) \in Int /\ Ideal(k) <= Capacity(limit)
  <2>1. ideal[k].tokens \in Int /\ ideal[k].updated \in Nat
    BY DEF Ledger, IdealType
  <2>2. (clock - ideal[k].updated) * Rate(limit) \in Int
    BY <1>2, <1>3, <2>1, Products
  <2>3. QED BY <1>2, <2>1, <2>2 DEF Ideal, Lesser
<1>6. Pending(k) \in Nat /\ Pending(k) * Cost(limit) \in Nat
  BY <1>2, HoldersFinite, Products
<1>7. QED BY <1>1, <1>2, <1>4, <1>5, <1>6

(* A bucket that is written with e more than it had is worth e more.       *)
LEMMA WorthWritten ==
  ASSUME IInv, Ledger, clock' = clock, NEW k \in Keys, NEW n \in 0..clock,
         NEW t \in Nat, t <= Capacity(LimitOf(k)), NEW e \in Int,
         t >= Available(buckets, k, LimitOf(k), n) + e \/ t = Capacity(LimitOf(k)),
         k \in DOMAIN buckets', buckets'[k] = [tokens |-> t, updated |-> n]
  PROVE  Worth(k)' >= Lesser(Worth(k) + e, Capacity(LimitOf(k)))
<1> DEFINE limit == LimitOf(k)
           full == [tokens |-> Capacity(limit), updated |-> n]
<1>1. limit \in Limit /\ Capacity(limit) \in Nat
  BY BalanceType
<1>2. clock \in Nat /\ n \in Nat /\ n <= clock
  BY DEF IInv, ReportType
<1>3. Worth(k)' = Refilled(limit, [tokens |-> t, updated |-> n], clock)
  BY DEF Worth
<1>4. CASE k \in DOMAIN buckets
  <2>1. /\ buckets[k] \in Bucket /\ buckets[k].tokens <= Capacity(limit)
        /\ buckets[k].updated <= clock
    BY <1>4 DEF Ledger, LimiterType
  <2>2. /\ Worth(k) = Refilled(limit, buckets[k], clock)
        /\ Available(buckets, k, limit, n) = Refilled(limit, buckets[k], n)
    BY <1>4, AvailableValue DEF Worth
  <2> HIDE DEF limit
  <2>3. Refilled(limit, [tokens |-> t, updated |-> n], clock)
          >= Lesser(Refilled(limit, buckets[k], clock) + e, Capacity(limit))
    BY <1>1, <1>2, <2>1, <2>2, RefilledLater DEF limit
  <2>4. QED BY <1>3, <2>2, <2>3 DEF limit
<1>5. CASE k \notin DOMAIN buckets
  <2>1. Worth(k) = Capacity(limit) /\ Available(buckets, k, limit, n) = Capacity(limit)
    BY <1>5, AvailableValue DEF Worth
  <2>2. full \in Bucket /\ full.tokens = Capacity(limit) /\ full.updated = n
    BY <1>1, <1>2 DEF Bucket
  <2> HIDE DEF full, limit
  <2>3. Refilled(limit, full, n) = Capacity(limit) /\ Refilled(limit, full, clock) = Capacity(limit)
    <3>1. \A m \in Nat : n <= m => Refilled(limit, full, m) = Capacity(limit)
      <4>1. ASSUME NEW m \in Nat, n <= m PROVE Refilled(limit, full, m) = Capacity(limit)
        <5>1. /\ (m - n) * Rate(limit) \in Nat
              /\ Refilled(limit, full, m)
                   = Lesser(Capacity(limit) + (m - n) * Rate(limit), Capacity(limit))
          <6>1. full.tokens <= Capacity(limit) /\ full.updated <= m
            BY <1>1, <2>2, <4>1
          <6>2. QED BY <1>1, <2>2, <6>1, RefilledValue
        <5>2. QED BY <1>1, <5>1 DEF Lesser
      <4>2. QED BY <4>1
    <3>2. QED BY <1>2, <3>1
  <2>4. Refilled(limit, [tokens |-> t, updated |-> n], clock)
          >= Lesser(Refilled(limit, full, clock) + e, Capacity(limit))
    <3>1. t >= Refilled(limit, full, n) + e \/ t = Capacity(limit)
      BY <2>1, <2>3 DEF limit
    <3>2. full.tokens <= Capacity(limit) /\ full.updated <= clock /\ t <= Capacity(limit)
      BY <1>1, <1>2, <2>2 DEF limit
    <3>3. QED BY <1>1, <1>2, <2>2, <3>1, <3>2, RefilledLater
  <2>5. QED BY <1>3, <2>1, <2>3, <2>4 DEF limit
<1>6. QED BY <1>4, <1>5

(* A bucket no step writes is worth what it was, or full once it is gone.  *)
LEMMA WorthKept ==
  ASSUME IInv, Ledger, clock' = clock, NEW k \in Keys,
         k \in DOMAIN buckets' => k \in DOMAIN buckets /\ buckets'[k] = buckets[k]
  PROVE  Worth(k)' >= Worth(k)
<1>1. Worth(k) \in Nat /\ Worth(k) <= Capacity(LimitOf(k)) /\ Capacity(LimitOf(k)) \in Nat
  BY BalanceType
<1>2. k \in DOMAIN buckets' => Worth(k)' = Worth(k)
  BY DEF Worth
<1>3. k \notin DOMAIN buckets' => Worth(k)' = Capacity(LimitOf(k))
  BY DEF Worth
<1>4. QED BY <1>1, <1>2, <1>3

(* While nothing is admitted the ideal bucket is what it was.              *)
LEMMA IdealKept ==
  ASSUME NEW k, ideal' = ideal, clock' = clock PROVE Ideal(k)' = Ideal(k)
BY DEF Ideal

(* A balance survives a step in which worth and holders change alike.      *)
LEMMA OwedKept ==
  ASSUME IInv, Ledger, NEW k \in Keys, Owed(k), Worth(k)' \in Nat, Pending(k)' \in Nat,
         NEW d \in -1..1, Pending(k)' = Pending(k) + d,
         Worth(k)' >= Lesser(Worth(k) - d * Cost(LimitOf(k)), Capacity(LimitOf(k))),
         Ideal(k)' = Ideal(k)
  PROVE  Owed(k)'
<1> DEFINE cost == Cost(LimitOf(k))
           cap == Capacity(LimitOf(k))
           p == Pending(k) * cost
           p2 == Pending(k)' * cost
           x == d * cost
<1>1. /\ cost \in Nat /\ cap \in Nat /\ Worth(k) \in Nat /\ Worth(k) <= cap
      /\ Ideal(k) \in Int /\ Ideal(k) <= cap /\ Pending(k) \in Nat /\ p \in Nat
  BY BalanceType
<1>2. p2 = p + x /\ p2 \in Nat /\ x \in Int
  BY <1>1, Products
<1>3. Worth(k) + p >= Ideal(k)
  BY DEF Owed
<1>4. Worth(k)' >= Lesser(Worth(k) - x, cap)
  OBVIOUS
<1>5. Worth(k)' + p2 >= Ideal(k)
  <2> HIDE DEF p, p2, x, cost, cap
  <2>1. QED BY <1>1, <1>2, <1>3, <1>4 DEF Lesser
<1>6. QED BY <1>5 DEF Owed

(* A step that leaves the limiter aside.                                   *)
LEMMA IdleOwed ==
  ASSUME SameHolders, UNCHANGED <<limiter, clock>>, NEW k \in Keys, Owed(k)
  PROVE  Owed(k)'
<1>1. Pending(k)' = Pending(k)
  BY PendingSame
<1>2. Worth(k)' = Worth(k) /\ Ideal(k)' = Ideal(k)
  BY DEF Worth, Ideal, limiter, history
<1>3. QED BY <1>1, <1>2 DEF Owed

(* A second refills both alike.                                            *)
LEMMA TickOwed ==
  ASSUME IInv, Ledger, Tick, NEW k \in Keys, Owed(k) PROVE Owed(k)'
<1> DEFINE limit == LimitOf(k)
           rate == Rate(limit)
           cap == Capacity(limit)
           p == Pending(k) * Cost(limit)
<1>1. clock \in Nat /\ clock' = clock + 1 /\ UNCHANGED <<run, buckets, ideal>>
  BY DEF Tick, IInv, ReportType, limiter, history
<1>2. /\ limit \in Limit /\ rate \in Nat /\ cap \in Nat /\ p \in Nat
      /\ Worth(k) \in Nat /\ Worth(k) <= cap /\ Ideal(k) \in Int
  BY BalanceType
<1>3. Pending(k)' = Pending(k)
  BY <1>1 DEF Pending, Holds, At
<1>4. Ideal(k)' = Lesser(Ideal(k) + rate, cap)
  <2>1. ideal[k].tokens \in Int /\ ideal[k].updated \in Nat /\ ideal[k].updated <= clock
    BY DEF Ledger, IdealType
  <2>2. Ideal(k) = Grown(limit, ideal[k].tokens, ideal[k].updated, clock)
    BY DEF Ideal, Grown
  <2>3. Ideal(k)' = Grown(limit, ideal'[k].tokens, ideal'[k].updated, clock')
    BY DEF Ideal, Grown
  <2> HIDE DEF limit
  <2>4. Ideal(k)' = Grown(limit, ideal[k].tokens, ideal[k].updated, clock + 1)
    BY <1>1, <2>3
  <2>5. QED BY <1>1, <1>2, <2>1, <2>2, <2>4, GrownTick, SMTT(20)
<1>5. Worth(k)' = Lesser(Worth(k) + rate, cap)
  <2>1. CASE k \in DOMAIN buckets
    <3>1. /\ buckets[k] \in Bucket /\ buckets[k].tokens <= cap /\ buckets[k].updated <= clock
          /\ buckets[k].tokens \in Int /\ buckets[k].updated \in Nat
      BY <2>1 DEF Ledger, LimiterType, Bucket
    <3>2. /\ Worth(k) = Refilled(limit, buckets[k], clock)
          /\ Worth(k)' = Refilled(limit, buckets[k], clock + 1)
      BY <1>1, <2>1 DEF Worth
    <3> HIDE DEF limit
    <3>3. Worth(k) = Grown(limit, buckets[k].tokens, buckets[k].updated, clock)
      BY <1>1, <1>2, <3>1, <3>2, RefilledGrown
    <3>4. Worth(k)' = Grown(limit, buckets[k].tokens, buckets[k].updated, clock + 1)
      <4>1. clock + 1 \in Nat /\ buckets[k].updated <= clock + 1
        BY <1>1, <3>1
      <4>2. QED BY <1>2, <3>1, <3>2, <4>1, RefilledGrown
    <3>5. QED BY <1>1, <1>2, <3>1, <3>3, <3>4, GrownTick, SMTT(20)
  <2>2. CASE k \notin DOMAIN buckets
    <3>1. Worth(k) = cap /\ Worth(k)' = cap
      BY <1>1, <2>2 DEF Worth
    <3> HIDE DEF limit, cap, rate
    <3>2. QED BY <1>2, <3>1 DEF Lesser
  <2>3. QED BY <2>1, <2>2
<1>6. Worth(k) + p >= Ideal(k)
  BY DEF Owed
<1>7. Worth(k)' + p >= Ideal(k)'
  <2> HIDE DEF limit, cap, rate, p
  <2>1. QED BY <1>2, <1>4, <1>5, <1>6 DEF Lesser
<1>8. QED BY <1>3, <1>7 DEF Owed

(* The balances are natural numbers, before a step and after it.           *)
LEMMA BalanceNat ==
  IInv /\ Ledger => \A k \in Keys : Worth(k) \in Nat /\ Pending(k) \in Nat
BY BalanceType

LEMMA BalanceNatNext ==
  (IInv /\ Ledger => \A k \in Keys : Worth(k) \in Nat /\ Pending(k) \in Nat)'
BY BalanceNat, PTL

LEMMA BalanceNext ==
  ASSUME IInv, Ledger, [Next]_vars, NEW k \in Keys
  PROVE  Worth(k)' \in Nat /\ Pending(k)' \in Nat
<1>1. IInv' /\ Ledger'
  BY NextIInv, NextLedger
<1>2. QED BY <1>1, BalanceNatNext

(* A charge lowers the bucket's worth by what its holder may get back.     *)
LEMMA TakeOwed ==
  ASSUME IInv, Ledger, NEW r \in Runs, Take(r), [Next]_vars, NEW k \in Keys, Owed(k)
  PROVE  Owed(k)'
<1> DEFINE key == Tiers(r)[run[r].tier + 1]
           limit == LimitOf(key)
           now == run[r].now
           ok == Admits(buckets, key, limit, now)
           t == Left(buckets, key, limit, now)
<1>1. /\ key \in Keys
      /\ OtherHolders(r) /\ ~Holds(r, key)
      /\ \A j \in Keys : Holds(r, j)' <=> (Holds(r, j) \/ (ok /\ j = key))
  BY TakeShape, TakeHolders
<1>2. /\ buckets' = Taken(buckets, key, limit, now)
      /\ clock' = clock /\ ideal' = ideal
  BY DEF Take, fixed, history
<1>3. now \in 0..clock /\ clock \in Nat /\ now \in Nat
  BY DEF IInv, ReportType, Ledger, LimiterType
<1>4. /\ t \in Nat /\ t <= Capacity(limit) /\ Available(buckets, key, limit, now) \in Nat
      /\ t = IF ok THEN Available(buckets, key, limit, now) - Cost(limit)
                   ELSE Available(buckets, key, limit, now)
  BY <1>1, <1>3, AvailableType DEF Ledger
<1> HIDE DEF key, t, ok
<1>5. /\ key \in DOMAIN buckets'
      /\ DOMAIN buckets' \subseteq DOMAIN buckets \cup {key}
      /\ buckets'[key] = [tokens |-> t, updated |-> now]
      /\ \A j \in DOMAIN buckets' \ {key} : buckets'[j] = buckets[j]
  BY <1>2, TakenEffect DEF t
<1>6. Worth(k)' \in Nat /\ Pending(k)' \in Nat /\ Ideal(k)' = Ideal(k)
  BY <1>2, BalanceNext, IdealKept
<1>7. /\ Cost(LimitOf(k)) \in Nat /\ Capacity(LimitOf(k)) \in Nat
      /\ Worth(k) \in Nat /\ Worth(k) <= Capacity(LimitOf(k)) /\ Pending(k) \in Nat
  BY BalanceType
<1>8. CASE k # key
  <2>1. Pending(k)' = Pending(k) + 0
    <3>1. Holds(r, k)' <=> Holds(r, k)
      BY <1>1, <1>8
    <3>2. QED BY <1>1, <1>7, <3>1, PendingStep
  <2>2. Worth(k)' >= Worth(k)
    BY <1>2, <1>5, <1>8, WorthKept
  <2>3. Worth(k)' >= Lesser(Worth(k) - 0 * Cost(LimitOf(k)), Capacity(LimitOf(k)))
    <3>1. 0 * Cost(LimitOf(k)) = 0
      BY <1>7
    <3>2. QED BY <1>6, <1>7, <2>2, <3>1 DEF Lesser
  <2>4. 0 \in -1..1
    OBVIOUS
  <2>5. QED BY <1>6, <2>1, <2>3, <2>4, OwedKept
<1>9. CASE k = key /\ ok
  <2>1. Pending(k)' = Pending(k) + 1
    BY <1>1, <1>9, PendingStep
  <2>2. Worth(k)' >= Lesser(Worth(k) + (-Cost(limit)), Capacity(limit))
    <3>1. t >= Available(buckets, key, limit, now) + (-Cost(limit)) /\ -Cost(limit) \in Int
      BY <1>4, <1>7, <1>9
    <3>2. QED BY <1>1, <1>2, <1>3, <1>4, <1>5, <1>9, <3>1, WorthWritten
  <2>3. Worth(k)' >= Lesser(Worth(k) - 1 * Cost(LimitOf(k)), Capacity(LimitOf(k)))
    <3>1. 1 * Cost(LimitOf(k)) = Cost(limit)
      BY <1>7, <1>9
    <3>2. Worth(k) - 1 * Cost(LimitOf(k)) = Worth(k) + (-Cost(limit))
      BY <1>7, <1>9, <3>1
    <3>3. QED BY <1>9, <2>2, <3>2
  <2>4. 1 \in -1..1
    OBVIOUS
  <2>5. QED BY <1>6, <2>1, <2>3, <2>4, OwedKept
<1>10. CASE k = key /\ ~ok
  <2>1. Pending(k)' = Pending(k) + 0
    <3>1. Holds(r, k)' <=> Holds(r, k)
      BY <1>1, <1>10
    <3>2. QED BY <1>1, <1>7, <3>1, PendingStep
  <2>2. Worth(k)' >= Lesser(Worth(k) + 0, Capacity(limit))
    <3>1. t >= Available(buckets, key, limit, now) + 0
      BY <1>4, <1>10
    <3>2. QED BY <1>1, <1>2, <1>3, <1>4, <1>5, <1>10, <3>1, WorthWritten
  <2>3. Worth(k)' >= Lesser(Worth(k) - 0 * Cost(LimitOf(k)), Capacity(LimitOf(k)))
    <3>1. Worth(k) - 0 * Cost(LimitOf(k)) = Worth(k) + 0
      BY <1>7
    <3>2. QED BY <1>10, <2>2, <3>1
  <2>4. 0 \in -1..1
    OBVIOUS
  <2>5. QED BY <1>6, <2>1, <2>3, <2>4, OwedKept
<1>11. QED BY <1>8, <1>9, <1>10

(* A call that goes out is charged to the ideal bucket too, and gives      *)
(* nothing back.                                                           *)
LEMMA AdmitOwed ==
  ASSUME IInv, Ledger, NEW r \in Runs, Admit(r), [Next]_vars, NEW k \in Keys, Owed(k)
  PROVE  Owed(k)'
<1> DEFINE keys == Range(run[r].charged)
           cost == Cost(LimitOf(k))
           p == Pending(k) * cost
           p2 == Pending(k)' * cost
<1>1. /\ OtherHolders(r)
      /\ \A j : ~Holds(r, j)' /\ (Holds(r, j) <=> j \in keys)
  BY AdmitHolders
<1>2. /\ UNCHANGED <<buckets, clock>>
      /\ ideal' = [j \in Keys |->
           IF j \in keys
             THEN [tokens |-> Ideal(j) - Cost(LimitOf(j)), updated |-> clock]
             ELSE ideal[j]]
  BY DEF Admit, fixed
<1>3. /\ cost \in Nat /\ Capacity(LimitOf(k)) \in Nat
      /\ Pending(k) \in Nat /\ p \in Nat /\ Worth(k) \in Nat /\ Ideal(k) \in Int
      /\ Ideal(k) <= Capacity(LimitOf(k)) /\ Rate(LimitOf(k)) \in Nat /\ clock \in Nat
  BY BalanceType DEF IInv, ReportType
<1>4. Worth(k)' = Worth(k)
  BY <1>2 DEF Worth
<1>5. Worth(k) + p >= Ideal(k)
  BY DEF Owed
<1>6. CASE k \in keys
  <2>1. Pending(k)' = Pending(k) - 1
    BY <1>1, <1>6, PendingStep
  <2>2. p2 = p - cost
    <3>1. 1 * cost = cost
      BY <1>3
    <3>2. QED BY <1>3, <2>1, <3>1, Products
  <2>3. Ideal(k)' = Ideal(k) - cost
    <3>1. ideal'[k] = [tokens |-> Ideal(k) - cost, updated |-> clock]
      BY <1>2, <1>6
    <3>2. ideal'[k].tokens = Ideal(k) - cost /\ ideal'[k].updated = clock
      BY <3>1
    <3>3. Ideal(k)' = Lesser(Ideal(k) - cost + (clock - clock) * Rate(LimitOf(k)),
                             Capacity(LimitOf(k)))
      BY <1>2, <3>2 DEF Ideal
    <3>4. (clock - clock) * Rate(LimitOf(k)) = 0
      BY <1>3
    <3> HIDE DEF cost
    <3>5. QED BY <1>3, <3>3, <3>4 DEF Lesser
  <2> HIDE DEF cost, p, p2
  <2>4. Worth(k)' + p2 >= Ideal(k)'
    BY <1>3, <1>4, <1>5, <2>2, <2>3
  <2>5. QED BY <2>4 DEF Owed, p2, cost
<1>7. CASE k \notin keys
  <2>1. Pending(k)' = Pending(k)
    BY <1>1, <1>7, PendingStep
  <2>2. ideal'[k] = ideal[k]
    BY <1>2, <1>7
  <2>3. Ideal(k)' = Ideal(k)
    BY <1>2, <2>2 DEF Ideal
  <2>4. QED BY <1>4, <1>5, <2>1, <2>3 DEF Owed
<1>8. QED BY <1>6, <1>7

(* A refund raises the bucket's worth by what its holder no longer gets.   *)
LEMMA RefundOwed ==
  ASSUME IInv, Ledger, NEW r \in Runs, Refund(r), [Next]_vars, NEW k \in Keys, Owed(k)
  PROVE  Owed(k)'
<1> DEFINE key == run[r].charged[run[r].tier + 1]
           limit == LimitOf(key)
           now == run[r].now
           t == Lesser(Refilled(limit, buckets[key], now) + Cost(limit), Capacity(limit))
<1>1. /\ OtherHolders(r) /\ UNCHANGED <<history, clock>> /\ clock' = clock /\ ideal' = ideal
      /\ GivesBack(r) \/ GivenBack(r)
  BY RefundShape, RefundHolders DEF history
<1>2. now \in 0..clock /\ clock \in Nat /\ now \in Nat
  BY DEF IInv, ReportType, Ledger, LimiterType
<1>3. Worth(k)' \in Nat /\ Pending(k)' \in Nat /\ Ideal(k)' = Ideal(k)
  BY <1>1, BalanceNext, IdealKept
<1>4. /\ LimitOf(k) \in Limit /\ Cost(LimitOf(k)) \in Nat /\ Capacity(LimitOf(k)) \in Nat
      /\ Worth(k) \in Nat /\ Worth(k) <= Capacity(LimitOf(k)) /\ Pending(k) \in Nat
  BY BalanceType
<1>5. ASSUME Holds(r, k)' <=> Holds(r, k),
             k \in DOMAIN buckets' => k \in DOMAIN buckets /\ buckets'[k] = buckets[k]
      PROVE  Owed(k)'
  <2>1. Pending(k)' = Pending(k) + 0
    BY <1>1, <1>4, <1>5, PendingStep
  <2>2. Worth(k)' >= Worth(k)
    BY <1>1, <1>5, WorthKept
  <2>3. Worth(k)' >= Lesser(Worth(k) - 0 * Cost(LimitOf(k)), Capacity(LimitOf(k)))
    <3>1. 0 * Cost(LimitOf(k)) = 0
      BY <1>4
    <3>2. QED BY <1>3, <1>4, <2>2, <3>1 DEF Lesser
  <2>4. 0 \in -1..1
    OBVIOUS
  <2>5. QED BY <1>3, <2>1, <2>3, <2>4, OwedKept
<1>6. CASE GivenBack(r)
  <2>1. \A j : ~Holds(r, j) /\ ~Holds(r, j)'
    BY <1>6, RefundHolders
  <2>2. buckets' = buckets
    BY <1>6 DEF GivenBack
  <2>3. QED BY <1>5, <2>1, <2>2
<1>7. CASE GivesBack(r)
  <2>1. /\ key \in Keys /\ buckets' = Refunded(buckets, key, limit, now)
        /\ Holds(r, key)
        /\ \A j \in Keys : Holds(r, j)' <=> (Holds(r, j) /\ j # key)
    BY <1>7, RefundHolders DEF GivesBack
  <2>2. /\ key \notin DOMAIN buckets => buckets' = buckets
        /\ key \in DOMAIN buckets =>
             /\ DOMAIN buckets' = DOMAIN buckets
             /\ buckets'[key] = [tokens |-> t, updated |-> now]
             /\ \A j \in DOMAIN buckets' \ {key} : buckets'[j] = buckets[j]
    <3> HIDE DEF key, limit, now
    <3>1. QED BY <2>1, RefundedEffect DEF t
  <2> HIDE DEF key, t
  <2>3. CASE k # key
    <3>1. Holds(r, k)' <=> Holds(r, k)
      BY <2>1, <2>3
    <3>2. k \in DOMAIN buckets' => k \in DOMAIN buckets /\ buckets'[k] = buckets[k]
      BY <2>2, <2>3
    <3>3. QED BY <1>5, <3>1, <3>2
  <2>4. CASE k = key
    <3>1. Pending(k)' = Pending(k) + (-1)
      BY <1>1, <1>4, <2>1, <2>4, PendingStep
    <3>2. Worth(k)' >= Lesser(Worth(k) + Cost(limit), Capacity(limit))
      <4>1. CASE k \in DOMAIN buckets
        <5>1. Available(buckets, k, limit, now) = Refilled(limit, buckets[k], now)
          BY <4>1, AvailableValue
        <5>2. Available(buckets, k, limit, now) \in Nat
          BY <1>2, <2>4, AvailableType DEF Ledger
        <5>3. t = Lesser(Available(buckets, k, limit, now) + Cost(limit), Capacity(limit))
          BY <2>4, <5>1 DEF t
        <5>4. /\ t \in Nat /\ t <= Capacity(limit)
              /\ t >= Available(buckets, k, limit, now) + Cost(limit) \/ t = Capacity(limit)
          BY <1>4, <2>4, <5>2, <5>3 DEF Lesser
        <5>5. Cost(limit) \in Int
          BY <1>4, <2>4
        <5>6. QED BY <1>1, <1>2, <2>2, <2>4, <4>1, <5>4, <5>5, WorthWritten
      <4>2. CASE k \notin DOMAIN buckets
        <5>1. Worth(k)' >= Worth(k) /\ Worth(k) = Capacity(limit)
          BY <1>1, <2>2, <2>4, <4>2, WorthKept DEF Worth
        <5>2. QED BY <1>3, <1>4, <2>4, <5>1 DEF Lesser
      <4>3. QED BY <4>1, <4>2
    <3>3. Worth(k)' >= Lesser(Worth(k) - (-1) * Cost(LimitOf(k)), Capacity(LimitOf(k)))
      <4>1. Worth(k) - (-1) * Cost(LimitOf(k)) = Worth(k) + Cost(limit)
        BY <1>4, <2>4
      <4>2. QED BY <2>4, <3>2, <4>1
    <3>4. -1 \in -1..1
      OBVIOUS
    <3>5. QED BY <1>3, <3>1, <3>3, <3>4, OwedKept
  <2>5. QED BY <2>3, <2>4
<1>8. QED BY <1>1, <1>6, <1>7

(* Every step keeps the balance of every bucket.                           *)
LEMMA NextOwed ==
  ASSUME IInv, Ledger, [Next]_vars, NEW k \in Keys, Owed(k) PROVE Owed(k)'
<1>1. CASE Aside
  BY <1>1, AsideHolders, IdleOwed DEF Aside
<1>2. ASSUME NEW r \in Runs, Call(r) PROVE Owed(k)'
  BY <1>2, CallShape, CallHolders, IdleOwed
<1>3. QED BY <1>1, <1>2, StepKinds, TickOwed, TakeOwed, AdmitOwed, RefundOwed

(* "A refused call costs nothing" (rate_limited's comment): with what      *)
(* refusals on their way will give back, no bucket is ever worth less than *)
(* one that only admitted calls were charged to.                           *)
THEOREM RefusalsAreFree == Spec => []RefusalsCostNothing
<1> DEFINE AllOwed == \A k \in Keys : Owed(k)
<1>1. Init => AllOwed
  <2> SUFFICES ASSUME Init, NEW k \in Keys PROVE Owed(k)
    OBVIOUS
  <2>1. IInv /\ Ledger
    BY InitIInv, InitLedger
  <2>2. Worth(k) = Capacity(LimitOf(k))
    BY DEF Init, Worth
  <2>3. QED BY <2>1, <2>2, BalanceType DEF Owed
<1>2. IInv /\ Ledger /\ AllOwed /\ [Next]_vars => AllOwed'
  BY NextOwed
<1>3. IInv /\ Ledger /\ [Next]_vars => Ledger'
  BY NextLedger
<1>4. AllOwed => RefusalsCostNothing
  BY DEF Owed, RefusalsCostNothing
<1>5. QED BY <1>1, <1>2, <1>3, <1>4, InitLedger, Invariance, PTL DEF Spec


----------------------------------------------------------------------------
(* Counting the charges of a span of time: those of the calls admitted and *)
(* those of the calls that may still get them back.                        *)

From(n) == {i \in Nat : n <= i}

Admissions(k, S) == {a \in admitted : a.key = k /\ a.at \in S}
Holders(k, S) == {r \in Runs : Holds(r, k) /\ run[r].now \in S}
Count(k, S) == Cardinality(Admissions(k, S)) + Cardinality(Holders(k, S))

(* They are finitely many, and no more than those of a longer span.        *)
LEMMA CountFinite ==
  ASSUME Ledger, NEW k, NEW S
  PROVE  /\ IsFiniteSet(Admissions(k, S)) /\ Cardinality(Admissions(k, S)) \in Nat
         /\ IsFiniteSet(Holders(k, S)) /\ Cardinality(Holders(k, S)) \in Nat
         /\ Count(k, S) \in Nat
<1>1. IsFiniteSet(admitted) /\ IsFiniteSet(Runs)
  BY WorkflowAssumption DEF Ledger, LimiterType
<1>2. Admissions(k, S) \subseteq admitted /\ Holders(k, S) \subseteq Runs
  BY DEF Admissions, Holders
<1>3. /\ IsFiniteSet(Admissions(k, S)) /\ Cardinality(Admissions(k, S)) \in Nat
      /\ IsFiniteSet(Holders(k, S)) /\ Cardinality(Holders(k, S)) \in Nat
  BY <1>1, <1>2, FS_Subset, FS_CardinalityType
<1>4. QED BY <1>3 DEF Count

LEMMA CountNat == Ledger => \A k, S : Count(k, S) \in Nat
BY CountFinite

(* Nor is that different after a step.                                     *)
LEMMA CountNatNext == (Ledger => \A k, S : Count(k, S) \in Nat)'
BY CountNat, PTL

LEMMA CountMore ==
  ASSUME Ledger, NEW k, NEW S, NEW T, S \subseteq T
  PROVE  Count(k, S) <= Count(k, T)
<1>1. Admissions(k, S) \subseteq Admissions(k, T) /\ Holders(k, S) \subseteq Holders(k, T)
  BY DEF Admissions, Holders
<1>2. /\ Cardinality(Admissions(k, S)) <= Cardinality(Admissions(k, T))
      /\ Cardinality(Holders(k, S)) <= Cardinality(Holders(k, T))
  BY <1>1, CountFinite, FS_Subset
<1>3. QED BY <1>2, CountFinite DEF Count

(* A step of no holder and no admission counts as before.                  *)
LEMMA CountSame ==
  ASSUME SameHolders, admitted' = admitted, NEW k \in Keys
  PROVE  \A S : Count(k, S)' = Count(k, S)
<1> SUFFICES ASSUME NEW S PROVE Count(k, S)' = Count(k, S)
  OBVIOUS
<1>1. Admissions(k, S)' = Admissions(k, S)
  BY DEF Admissions
<1>2. Holders(k, S)' = Holders(k, S)
  BY DEF Holders, SameHolders
<1>3. QED BY <1>1, <1>2 DEF Count

(* A run that becomes a holder adds one where it read the clock, one that  *)
(* stops being a holder takes one away.                                    *)
LEMMA CountStep ==
  ASSUME Ledger, NEW r \in Runs, OtherHolders(r), admitted' = admitted,
         run'[r].now = run[r].now, NEW k \in Keys, NEW S
  PROVE  /\ (Holds(r, k)' <=> Holds(r, k)) => Count(k, S)' = Count(k, S)
         /\ Holds(r, k)' /\ ~Holds(r, k) =>
              Count(k, S)' = Count(k, S) + (IF run[r].now \in S THEN 1 ELSE 0)
         /\ ~Holds(r, k)' /\ Holds(r, k) =>
              Count(k, S)' = Count(k, S) - (IF run[r].now \in S THEN 1 ELSE 0)
<1>1. Admissions(k, S)' = Admissions(k, S)
  BY DEF Admissions
<1>2. \A q \in Runs \ {r} : (q \in Holders(k, S)' <=> q \in Holders(k, S))
  BY DEF OtherHolders, Holders
<1>3. /\ r \in Holders(k, S)' <=> (Holds(r, k)' /\ run[r].now \in S)
      /\ r \in Holders(k, S) <=> (Holds(r, k) /\ run[r].now \in S)
  BY DEF Holders
<1>4. Holders(k, S) \subseteq Runs /\ Holders(k, S)' \subseteq Runs
  BY DEF Holders
<1>5. /\ IsFiniteSet(Holders(k, S)) /\ Cardinality(Holders(k, S)) \in Nat
      /\ Cardinality(Admissions(k, S)) \in Nat
  BY CountFinite
<1>6. Holders(k, S)' = Holders(k, S) => Count(k, S)' = Count(k, S)
  BY <1>1 DEF Count
<1>7. Holders(k, S)' = Holders(k, S) \cup {r} /\ r \notin Holders(k, S)
        => Count(k, S)' = Count(k, S) + 1
  <2>1. r \notin Holders(k, S)
          => Cardinality(Holders(k, S) \cup {r}) = Cardinality(Holders(k, S)) + 1
    BY <1>5, FS_AddElement
  <2>2. QED BY <1>1, <1>5, <2>1 DEF Count
<1>8. Holders(k, S)' = Holders(k, S) \ {r} /\ r \in Holders(k, S)
        => Count(k, S)' = Count(k, S) - 1
  <2>1. r \in Holders(k, S)
          => Cardinality(Holders(k, S) \ {r}) = Cardinality(Holders(k, S)) - 1
    BY <1>5, FS_RemoveElement
  <2>2. QED BY <1>1, <1>5, <2>1 DEF Count
<1>9. Count(k, S) \in Nat
  BY CountFinite
<1>10. (Holds(r, k)' <=> Holds(r, k)) \/ run[r].now \notin S
         => Holders(k, S)' = Holders(k, S)
  BY <1>2, <1>3, <1>4
<1>11. Holds(r, k)' /\ ~Holds(r, k) /\ run[r].now \in S
         => Holders(k, S)' = Holders(k, S) \cup {r} /\ r \notin Holders(k, S)
  BY <1>2, <1>3, <1>4
<1>12. ~Holds(r, k)' /\ Holds(r, k) /\ run[r].now \in S
         => Holders(k, S)' = Holders(k, S) \ {r} /\ r \in Holders(k, S)
  BY <1>2, <1>3, <1>4
<1>13. QED BY <1>6, <1>7, <1>8, <1>9, <1>10, <1>11, <1>12

(* A call that goes out is counted once more at most, and was before.      *)
LEMMA CountAdmit ==
  ASSUME IInv, Ledger, NEW r \in Runs, Admit(r), NEW k \in Keys, NEW S
  PROVE  Count(k, S)' <= Count(k, S)
<1> DEFINE keys == Range(run[r].charged)
           new == [key |-> k, by |-> <<r, run[r].step>>, at |-> run[r].now]
<1>1. /\ OtherHolders(r)
      /\ ~Holds(r, k)' /\ (Holds(r, k) <=> k \in keys)
  BY AdmitHolders
<1>2. admitted' = admitted \cup
        {[key |-> j, by |-> <<r, run[r].step>>, at |-> run[r].now] : j \in keys}
  BY DEF Admit
<1>3. /\ IsFiniteSet(Holders(k, S)) /\ Cardinality(Holders(k, S)) \in Nat
      /\ IsFiniteSet(Admissions(k, S)) /\ Cardinality(Admissions(k, S)) \in Nat
  BY CountFinite
<1>4. Holders(k, S)' = Holders(k, S) \ {r}
  BY <1>1 DEF Holders, OtherHolders
<1>5. CASE k \in keys /\ run[r].now \in S
  <2>1. Admissions(k, S)' = Admissions(k, S) \cup {new}
    BY <1>2, <1>5 DEF Admissions
  <2>2. r \in Holders(k, S)
    BY <1>1, <1>5 DEF Holders
  <2>3. Cardinality(Holders(k, S)') = Cardinality(Holders(k, S)) - 1
    BY <1>3, <1>4, <2>2, FS_RemoveElement
  <2> HIDE DEF new
  <2>4. \/ Cardinality(Admissions(k, S)') = Cardinality(Admissions(k, S))
        \/ Cardinality(Admissions(k, S)') = Cardinality(Admissions(k, S)) + 1
    <3>1. CASE new \in Admissions(k, S)
      <4>1. Admissions(k, S)' = Admissions(k, S)
        BY <2>1, <3>1
      <4>2. QED BY <4>1
    <3>2. CASE new \notin Admissions(k, S)
      BY <1>3, <2>1, <3>2, FS_AddElement
    <3>3. QED BY <3>1, <3>2
  <2>5. QED BY <1>3, <2>3, <2>4 DEF Count
<1>6. CASE k \notin keys \/ run[r].now \notin S
  <2>1. Admissions(k, S)' = Admissions(k, S)
    BY <1>2, <1>6 DEF Admissions
  <2>2. r \notin Holders(k, S)
    BY <1>1, <1>6 DEF Holders
  <2>3. Holders(k, S)' = Holders(k, S)
    BY <1>4, <2>2
  <2>4. QED BY <1>3, <2>1, <2>3 DEF Count
<1>7. QED BY <1>5, <1>6

----------------------------------------------------------------------------
(* What a limit leaves room for.                                           *)

Load(k, S) == Count(k, S) * Cost(LimitOf(k))
Gain(k, d) == d * Rate(LimitOf(k))

(* What a bucket gains over two spans is what it gains over both.          *)
LEMMA GainLaws ==
  ASSUME NEW k \in Keys
  PROVE  /\ \A d \in Int : Gain(k, d) \in Int
         /\ \A d \in Nat : Gain(k, d) \in Nat
         /\ \A a, b, c \in Int : c = a + b => Gain(k, c) = Gain(k, a) + Gain(k, b)
<1>1. Rate(LimitOf(k)) \in Nat
  BY KeyLimits, LimitNumbers
<1>2. ASSUME NEW a \in Int, NEW b \in Int
      PROVE  Gain(k, a + b) = Gain(k, a) + Gain(k, b)
  BY <1>1, Products DEF Gain
<1>3. ASSUME NEW a \in Int, NEW b \in Int, NEW c \in Int, c = a + b
      PROVE  Gain(k, c) = Gain(k, a) + Gain(k, b)
  BY <1>2, <1>3
<1>4. /\ \A d \in Int : Gain(k, d) \in Int
      /\ \A d \in Nat : Gain(k, d) \in Nat
  BY <1>1, Products DEF Gain
<1>5. QED BY <1>3, <1>4

(* The load of a span is a number, of more calls a greater one.            *)
LEMMA LoadLaws ==
  ASSUME Ledger, NEW k \in Keys
  PROVE  /\ \A S : Load(k, S) \in Nat
         /\ \A S : Count(k, S) = 0 => Load(k, S) = 0
         /\ \A S, T : S \subseteq T => Load(k, S) <= Load(k, T)
<1>1. Cost(LimitOf(k)) \in Nat
  BY KeyLimits, LimitNumbers
<1>2. \A S : Count(k, S) \in Nat
  BY CountFinite
<1>3. \A S, T : S \subseteq T => Count(k, S) <= Count(k, T)
  BY CountMore
<1>4. \A S : Load(k, S) \in Nat
  BY <1>1, <1>2, Products DEF Load
<1>5. \A S, T : S \subseteq T => Load(k, S) <= Load(k, T)
  <2>1. ASSUME NEW S, NEW T, S \subseteq T PROVE Load(k, S) <= Load(k, T)
    <3>1. Count(k, S) \in Int /\ Count(k, T) \in Int /\ Count(k, S) <= Count(k, T)
      BY <1>2, <1>3, <2>1
    <3>2. QED BY <1>1, <3>1, Products DEF Load
  <2>2. QED BY <2>1
<1>6. \A S : Count(k, S) = 0 => Load(k, S) = 0
  BY <1>1 DEF Load
<1>7. QED BY <1>4, <1>5, <1>6

(* The load before a step and after it.                                    *)
LEMMA LoadStep ==
  ASSUME Ledger, Ledger', NEW k \in Keys, NEW S
  PROVE  /\ Load(k, S)' \in Nat /\ Count(k, S)' \in Nat
         /\ Count(k, S)' = Count(k, S) => Load(k, S)' = Load(k, S)
         /\ Count(k, S)' <= Count(k, S) => Load(k, S)' <= Load(k, S)
         /\ \A d \in Int : Count(k, S)' = Count(k, S) + d
              => Load(k, S)' = Load(k, S) + d * Cost(LimitOf(k))
<1>1. Cost(LimitOf(k)) \in Nat
  BY KeyLimits, LimitNumbers
<1>2. Count(k, S) \in Nat /\ Count(k, S)' \in Nat
  BY CountNat, CountNatNext
<1>3. Load(k, S)' = Count(k, S)' * Cost(LimitOf(k))
  BY DEF Load
<1>4. Load(k, S) = Count(k, S) * Cost(LimitOf(k))
  BY DEF Load
<1>5. QED BY <1>1, <1>2, <1>3, <1>4, Products

(* With t in bucket k at n: no charge is later, and those since any        *)
(* earlier instant leave room for t.                                       *)
Room(k, n, t) ==
  /\ Count(k, From(n + 1)) = 0
  /\ \A from \in 0..n :
       t + Load(k, From(from)) <= Capacity(LimitOf(k)) + Gain(k, n - from)

(* The instants at which a call may still ask for a bucket.                *)
Instants == {clock} \cup {run[r].now : r \in {q \in Runs : At(q, "limits")}}

(* What a bucket holds is accounted for; so is what one that was swept     *)
(* away holds once it is asked for again.                                  *)
Accounted(k) ==
  \A n, t \in Nat :
    (IF k \in DOMAIN buckets THEN buckets[k] = [tokens |-> t, updated |-> n]
                             ELSE n \in Instants /\ t = Capacity(LimitOf(k)))
      => Room(k, n, t)

(* No span has more charges than its limit allows.                         *)
Spans(k) ==
  \A from, to \in Nat :
    from <= to => Load(k, from..to) <= Capacity(LimitOf(k)) + Gain(k, to - from)

Books(k) == Accounted(k) /\ Spans(k)

(* Later there is room for what has been refilled in between.              *)
LEMMA RoomLater ==
  ASSUME Ledger, NEW k \in Keys, NEW n \in Nat, NEW m \in Nat, n <= m,
         NEW t \in Nat, Room(k, n, t),
         NEW t2 \in Nat, t2 <= t + Gain(k, m - n), t2 <= Capacity(LimitOf(k))
  PROVE  Room(k, m, t2)
<1> DEFINE cap == Capacity(LimitOf(k))
<1>1. cap \in Nat
  BY KeyLimits, LimitNumbers
<1>2. \A i \in Nat : n + 1 <= i => From(i) \subseteq From(n + 1)
  BY DEF From
<1>3. Count(k, From(m + 1)) = 0
  <2>1. m + 1 \in Nat /\ n + 1 <= m + 1
    OBVIOUS
  <2>2. Count(k, From(m + 1)) <= Count(k, From(n + 1))
    BY <1>2, <2>1, CountMore
  <2>3. Count(k, From(m + 1)) \in Nat
    BY CountNat
  <2>4. QED BY <2>2, <2>3 DEF Room
<1>4. ASSUME NEW from \in 0..m
      PROVE  t2 + Load(k, From(from)) <= cap + Gain(k, m - from)
  <2>1. Load(k, From(from)) \in Nat /\ m - from \in Nat /\ Gain(k, m - from) \in Nat
    <3>1. m - from \in Nat
      OBVIOUS
    <3>2. QED BY <3>1, LoadLaws, GainLaws
  <2>2. CASE from <= n
    <3>1. t + Load(k, From(from)) <= cap + Gain(k, n - from)
      BY <2>2 DEF Room
    <3>2. Gain(k, m - from) = Gain(k, m - n) + Gain(k, n - from)
      <4>1. m - from = (m - n) + (n - from) /\ m - n \in Int /\ n - from \in Int
            /\ m - from \in Int
        OBVIOUS
      <4>2. QED BY <4>1, GainLaws
    <3>3. Gain(k, m - n) \in Int /\ Gain(k, n - from) \in Int
      BY GainLaws
    <3> HIDE DEF cap
    <3>4. QED BY <1>1, <2>1, <3>1, <3>2, <3>3
  <2>3. CASE n < from
    <3>1. Count(k, From(from)) = 0
      <4>1. from \in Nat /\ n + 1 <= from
        BY <2>3
      <4>2. Count(k, From(from)) <= Count(k, From(n + 1))
        BY <1>2, <4>1, CountMore
      <4>3. Count(k, From(from)) \in Nat
        BY CountNat
      <4>4. QED BY <4>2, <4>3 DEF Room
    <3>2. Load(k, From(from)) = 0
      BY <3>1, LoadLaws
    <3>3. QED BY <1>1, <2>1, <3>2
  <2>4. QED BY <2>2, <2>3
<1>5. QED BY <1>3, <1>4 DEF Room

(* What a bucket that nobody with an older `now` came late to holds at n.  *)
LEMMA RoomRefilled ==
  ASSUME IInv, Ledger, NEW k \in Keys, k \in DOMAIN buckets, Accounted(k),
         NEW n \in Nat, buckets[k].updated <= n
  PROVE  Room(k, n, Refilled(LimitOf(k), buckets[k], n))
<1> DEFINE limit == LimitOf(k)
           u == buckets[k].updated
           t == buckets[k].tokens
           x == Refilled(limit, buckets[k], n)
<1>1. limit \in Limit /\ Capacity(limit) \in Nat
  BY KeyLimits, LimitNumbers
<1>2. buckets[k] \in Bucket /\ t \in Nat /\ u \in Nat /\ t <= Capacity(limit)
  BY DEF Ledger, LimiterType, Bucket
<1>3. x \in Nat /\ x <= Capacity(limit)
  BY <1>1, <1>2, RefilledValue
<1>4. x = Lesser(t + Gain(k, n - u), Capacity(limit))
  BY <1>1, <1>2, RefilledValue DEF Gain
<1>5. Gain(k, n - u) \in Int
  <2> HIDE DEF u
  <2>1. n - u \in Int
    BY <1>2
  <2>2. QED BY <2>1, GainLaws
<1>6. x <= t + Gain(k, n - u)
  <2> HIDE DEF x, t, u, limit
  <2>1. QED BY <1>1, <1>2, <1>4, <1>5 DEF Lesser
<1>7. Room(k, u, t)
  <2>1. buckets[k] = [tokens |-> t, updated |-> u]
    BY <1>2 DEF Bucket
  <2>2. QED BY <1>2, <2>1 DEF Accounted
<1>8. \A i \in Nat, s \in Nat, s2 \in Nat :
        Room(k, i, s) /\ i <= n /\ s2 <= s + Gain(k, n - i) /\ s2 <= Capacity(LimitOf(k))
          => Room(k, n, s2)
  BY RoomLater
<1> HIDE DEF x, t, u
<1>9. Room(k, n, x)
  BY <1>2, <1>3, <1>6, <1>7, <1>8 DEF u
<1>10. QED BY <1>9 DEF x

(* So does what a call asking for it finds, there or not.                  *)
LEMMA RoomAsked ==
  ASSUME IInv, Ledger, NEW k \in Keys, Accounted(k), NEW n \in Nat,
         k \in DOMAIN buckets \/ n \in Instants, ~Overtaken(k, n)
  PROVE  Room(k, n, Available(buckets, k, LimitOf(k), n))
<1>1. CASE k \in DOMAIN buckets
  <2>1. buckets[k].updated \in Nat
    BY <1>1 DEF Ledger, LimiterType, Bucket
  <2>2. buckets[k].updated <= n
    BY <1>1, <2>1 DEF Overtaken
  <2>3. Available(buckets, k, LimitOf(k), n) = Refilled(LimitOf(k), buckets[k], n)
    BY <1>1, AvailableValue
  <2>4. Room(k, n, Refilled(LimitOf(k), buckets[k], n))
    BY <1>1, <2>2, RoomRefilled
  <2>5. QED BY <2>3, <2>4
<1>2. CASE k \notin DOMAIN buckets
  <2>1. Available(buckets, k, LimitOf(k), n) = Capacity(LimitOf(k))
    BY <1>2, AvailableValue
  <2>2. Capacity(LimitOf(k)) \in Nat
    BY KeyLimits, LimitNumbers
  <2>3. QED BY <1>2, <2>1, <2>2 DEF Accounted
<1>3. QED BY <1>1, <1>2

(* A step that adds no charge of bucket k and leaves in it, or in one that *)
(* may take its place, what there is room for.                             *)
LEMMA BooksKept ==
  ASSUME IInv, Ledger, Ledger', NEW k \in Keys, Books(k),
         \A S : Count(k, S)' <= Count(k, S),
         \A n, t \in Nat :
           (IF k \in DOMAIN buckets' THEN buckets'[k] = [tokens |-> t, updated |-> n]
                                     ELSE n \in Instants' /\ t = Capacity(LimitOf(k)))
             => Room(k, n, t)
  PROVE  Books(k)'
<1> DEFINE cap == Capacity(LimitOf(k))
<1>1. cap \in Nat
  BY KeyLimits, LimitNumbers
<1>2. \A S : Count(k, S)' \in Nat /\ Count(k, S) \in Nat
  BY CountNat, CountNatNext
<1>3. \A S : Load(k, S)' <= Load(k, S) /\ Load(k, S)' \in Nat
  BY LoadStep
<1>4. \A S : Load(k, S) \in Nat
  BY LoadLaws
<1>5. ASSUME NEW n \in Nat, NEW t \in Nat, Room(k, n, t)
      PROVE  /\ Count(k, From(n + 1))' = 0
             /\ \A from \in 0..n : t + Load(k, From(from))' <= cap + Gain(k, n - from)
  <2>1. Count(k, From(n + 1))' = 0
    <3>1. Count(k, From(n + 1)) = 0
      BY <1>5 DEF Room
    <3>2. Count(k, From(n + 1))' <= Count(k, From(n + 1)) /\ Count(k, From(n + 1))' \in Nat
      BY <1>2
    <3>3. QED BY <3>1, <3>2
  <2>2. ASSUME NEW from \in 0..n
        PROVE  t + Load(k, From(from))' <= cap + Gain(k, n - from)
    <3>1. t + Load(k, From(from)) <= cap + Gain(k, n - from)
      BY <1>5 DEF Room
    <3>2. n - from \in Int
      OBVIOUS
    <3>3. Gain(k, n - from) \in Int
      BY <3>2, GainLaws
    <3>4. /\ Load(k, From(from))' <= Load(k, From(from))
          /\ Load(k, From(from))' \in Nat /\ Load(k, From(from)) \in Nat
      BY <1>3, <1>4
    <3> HIDE DEF cap
    <3>5. QED BY <1>1, <3>1, <3>3, <3>4
  <2>3. QED BY <2>1, <2>2
<1>6. \A n, t \in Nat : Room(k, n, t) => Room(k, n, t)'
  <2>1. ASSUME NEW n \in Nat, NEW t \in Nat, Room(k, n, t) PROVE Room(k, n, t)'
    BY <1>5, <2>1 DEF Room
  <2>2. QED BY <2>1
<1>7. Accounted(k)'
  BY <1>6 DEF Accounted
<1>8. Spans(k)'
  <2> SUFFICES ASSUME NEW from \in Nat, NEW to \in Nat, from <= to
               PROVE  Load(k, from..to)' <= cap + Gain(k, to - from)
    BY DEF Spans
  <2>1. Load(k, from..to) <= cap + Gain(k, to - from)
    BY DEF Books, Spans
  <2>2. Gain(k, to - from) \in Int
    <3>1. to - from \in Int
      OBVIOUS
    <3>2. QED BY <3>1, GainLaws
  <2>3. /\ Load(k, from..to)' <= Load(k, from..to)
        /\ Load(k, from..to)' \in Nat /\ Load(k, from..to) \in Nat
    BY <1>3, <1>4
  <2> HIDE DEF cap
  <2>4. QED BY <1>1, <2>1, <2>2, <2>3
<1>9. QED BY <1>7, <1>8 DEF Books

(* A step that writes bucket k: what it takes out is charged, what it puts *)
(* in no longer is.                                                        *)
LEMMA BooksWritten ==
  ASSUME IInv, Ledger, Ledger', NEW k \in Keys, Books(k),
         NEW n \in Nat, NEW t \in Nat, NEW has \in Nat, Room(k, n, has),
         NEW d \in -1..1, t + d * Cost(LimitOf(k)) <= has,
         k \in DOMAIN buckets', buckets'[k] = [tokens |-> t, updated |-> n],
         \A S : Count(k, S)' = Count(k, S) + (IF n \in S THEN d ELSE 0)
  PROVE  Books(k)'
<1> DEFINE cap == Capacity(LimitOf(k))
           x == d * Cost(LimitOf(k))
<1>1. cap \in Nat /\ x \in Int
  BY KeyLimits, LimitNumbers, Products
<1>2. \A S : /\ Load(k, S) \in Nat /\ Load(k, S)' \in Nat
             /\ n \in S => Load(k, S)' = Load(k, S) + x
             /\ n \notin S => Load(k, S)' = Load(k, S)
  <2>1. ASSUME NEW S
        PROVE  /\ Load(k, S) \in Nat /\ Load(k, S)' \in Nat
               /\ n \in S => Load(k, S)' = Load(k, S) + x
               /\ n \notin S => Load(k, S)' = Load(k, S)
    <3>1. Count(k, S) \in Nat /\ d \in Int
      BY CountNat
    <3>2. /\ n \in S => Count(k, S)' = Count(k, S) + d
          /\ n \notin S => Count(k, S)' = Count(k, S)
      BY <3>1
    <3>3. QED BY <3>1, <3>2, LoadStep, LoadLaws
  <2>2. QED BY <2>1
<1>3. t + x <= has
  OBVIOUS
<1>4. \A from \in 0..n : /\ has + Load(k, From(from)) <= cap + Gain(k, n - from)
                         /\ Gain(k, n - from) \in Int
                         /\ n \in From(from)
  <2>1. ASSUME NEW from \in 0..n
        PROVE  /\ has + Load(k, From(from)) <= cap + Gain(k, n - from)
               /\ Gain(k, n - from) \in Int
               /\ n \in From(from)
    <3>1. n - from \in Int
      OBVIOUS
    <3>2. QED BY <3>1, GainLaws DEF Room, From
  <2>2. QED BY <2>1
<1>5. Room(k, n, t)'
  <2>1. Count(k, From(n + 1))' = 0
    <3>1. n \notin From(n + 1)
      BY DEF From
    <3>2. Count(k, From(n + 1)) = 0
      BY DEF Room
    <3>3. QED BY <3>1, <3>2
  <2>2. ASSUME NEW from \in 0..n
        PROVE  t + Load(k, From(from))' <= cap + Gain(k, n - from)
    <3>1. /\ Load(k, From(from))' = Load(k, From(from)) + x
          /\ Load(k, From(from)) \in Nat
      BY <1>2, <1>4
    <3>2. has + Load(k, From(from)) <= cap + Gain(k, n - from) /\ Gain(k, n - from) \in Int
      BY <1>4
    <3> HIDE DEF cap, x
    <3>3. QED BY <1>1, <1>3, <3>1, <3>2
  <2>3. QED BY <2>1, <2>2 DEF Room
<1>6. Accounted(k)'
  <2>1. ASSUME NEW m \in Nat, NEW s \in Nat, buckets'[k] = [tokens |-> s, updated |-> m]
        PROVE  m = n /\ s = t
    <3>1. /\ [tokens |-> t, updated |-> n].tokens = [tokens |-> s, updated |-> m].tokens
          /\ [tokens |-> t, updated |-> n].updated = [tokens |-> s, updated |-> m].updated
      BY <2>1
    <3>2. QED BY <3>1
  <2>2. QED BY <1>5, <2>1 DEF Accounted
<1>7. Spans(k)'
  <2> SUFFICES ASSUME NEW from \in Nat, NEW to \in Nat, from <= to
               PROVE  Load(k, from..to)' <= cap + Gain(k, to - from)
    BY DEF Spans
  <2>1. Load(k, from..to) \in Nat
    BY <1>2
  <2>2. CASE n \notin from..to
    BY <1>2, <2>2 DEF Books, Spans
  <2>3. CASE n \in from..to
    <3>1. Load(k, from..to)' = Load(k, from..to) + x
      BY <1>2, <2>3
    <3>2. Load(k, from..to) <= Load(k, From(from)) /\ Load(k, From(from)) \in Nat
      <4>1. from..to \subseteq From(from)
        BY DEF From
      <4>2. QED BY <4>1, LoadLaws
    <3>3. has + Load(k, From(from)) <= cap + Gain(k, n - from) /\ Gain(k, n - from) \in Int
      BY <1>4, <2>3
    <3>4. Gain(k, to - from) = Gain(k, to - n) + Gain(k, n - from) /\ Gain(k, to - n) \in Nat
      <4>1. /\ to - from = (to - n) + (n - from) /\ to - n \in Nat /\ n - from \in Int
            /\ to - from \in Int
        BY <2>3
      <4>2. QED BY <4>1, GainLaws
    <3> HIDE DEF cap, x
    <3>5. Load(k, from..to)' <= cap + Gain(k, n - from)
      BY <1>1, <1>3, <2>1, <3>1, <3>2, <3>3
    <3>6. cap + Gain(k, n - from) <= cap + Gain(k, to - from)
      BY <1>1, <3>3, <3>4
    <3>7. Load(k, from..to)' \in Nat /\ Gain(k, to - from) \in Int
      BY <1>2, <3>3, <3>4, SMTT(20)
    <3>8. QED BY <1>1, <3>3, <3>5, <3>6, <3>7
  <2>4. QED BY <2>2, <2>3
<1>8. QED BY <1>6, <1>7 DEF Books

(* No later instant comes in sight but through the clock.                  *)
LEMMA InstantsKept ==
  ASSUME NEW r \in Runs, Others(r), clock' = clock,
         run'[r].stage = "limits" => run'[r].now \in Instants
  PROVE  Instants' \subseteq Instants
<1> SUFFICES ASSUME NEW i \in Instants' PROVE i \in Instants
  OBVIOUS
<1>1. CASE i = clock'
  BY <1>1 DEF Instants
<1>2. ASSUME NEW q \in Runs, run'[q].stage = "limits", i = run'[q].now
      PROVE  i \in Instants
  BY <1>2 DEF Others, Instants, At
<1>3. QED BY <1>1, <1>2 DEF Instants, At

(* A bucket that a step leaves alone.                                      *)
LEMMA BooksAlone ==
  ASSUME IInv, Ledger, Ledger', NEW k \in Keys, Books(k),
         \A S : Count(k, S)' <= Count(k, S),
         k \in DOMAIN buckets' <=> k \in DOMAIN buckets,
         k \in DOMAIN buckets => buckets'[k] = buckets[k],
         Instants' \subseteq Instants
  PROVE  Books(k)'
<1>1. \A n, t \in Nat :
        (IF k \in DOMAIN buckets' THEN buckets'[k] = [tokens |-> t, updated |-> n]
                                  ELSE n \in Instants' /\ t = Capacity(LimitOf(k)))
          => Room(k, n, t)
  BY DEF Books, Accounted
<1>2. QED BY <1>1, BooksKept

(* A step with the same charges counts them alike.                         *)
LEMMA CountKept ==
  ASSUME Ledger, SameHolders, admitted' = admitted, NEW k \in Keys
  PROVE  \A S : Count(k, S)' <= Count(k, S)
<1>1. \A S : Count(k, S)' = Count(k, S)
  BY CountSame
<1>2. \A S : Count(k, S) \in Nat
  BY CountNat
<1>3. QED BY <1>1, <1>2

(* Steps that leave the limiter aside, and the start of a call.            *)
LEMMA AsideBooks ==
  ASSUME IInv, Ledger, Aside, NEW k \in Keys, Books(k) PROVE Books(k)'
<1>1. Ledger' /\ SameHolders
  BY AsideLedger, AsideHolders
<1>2. buckets' = buckets /\ admitted' = admitted /\ clock' = clock
  BY DEF Aside, limiter, history
<1>3. Instants' \subseteq Instants
  <2>1. ASSUME NEW q \in Runs, run'[q].stage = "limits" PROVE run'[q] = run[q]
    BY <2>1 DEF Aside
  <2>2. QED BY <1>2, <2>1 DEF Instants, At
<1>4. \A S : Count(k, S)' <= Count(k, S)
  BY <1>1, <1>2, CountKept
<1>5. QED BY <1>1, <1>2, <1>3, <1>4, BooksAlone

LEMMA CallBooks ==
  ASSUME IInv, Ledger, NEW r \in Runs, Call(r), NEW k \in Keys, Books(k) PROVE Books(k)'
<1>1. /\ Ledger' /\ SameHolders /\ Others(r) /\ run'[r].now = clock
      /\ UNCHANGED <<limiter, clock>>
  BY CallLedger, CallHolders, CallShape
<1>2. buckets' = buckets /\ admitted' = admitted /\ clock' = clock
  BY <1>1 DEF limiter, history
<1>3. Instants' \subseteq Instants
  BY <1>1, <1>2, InstantsKept DEF Instants
<1>4. \A S : Count(k, S)' <= Count(k, S)
  BY <1>1, <1>2, CountKept
<1>5. QED BY <1>1, <1>2, <1>3, <1>4, BooksAlone

(* At the new instant there is the room there was at the last.             *)
LEMMA TickBooks ==
  ASSUME IInv, Ledger, Tick, NEW k \in Keys, Books(k) PROVE Books(k)'
<1> DEFINE cap == Capacity(LimitOf(k))
<1>1. /\ clock \in Nat /\ clock' = clock + 1 /\ run' = run /\ buckets' = buckets
      /\ admitted' = admitted
  BY DEF Tick, IInv, ReportType, limiter, history
<1>2. Ledger' /\ SameHolders
  BY <1>1, TickLedger, HoldsKept DEF SameHolders
<1>3. \A S : Count(k, S)' <= Count(k, S)
  BY <1>1, <1>2, CountKept
<1>4. Instants' \subseteq Instants \cup {clock + 1}
  BY <1>1 DEF Instants, At
<1>5. cap \in Nat
  BY KeyLimits, LimitNumbers
<1>6. k \notin DOMAIN buckets => Room(k, clock + 1, cap)
  <2> SUFFICES ASSUME k \notin DOMAIN buckets PROVE Room(k, clock + 1, cap)
    OBVIOUS
  <2>1. Room(k, clock, cap)
    <3>1. clock \in Instants
      BY DEF Instants
    <3>2. QED BY <1>1, <1>5, <3>1 DEF Books, Accounted
  <2>2. PICK n \in Nat : n = clock
    BY <1>1
  <2>3. Gain(k, (n + 1) - n) \in Nat
    <3>1. (n + 1) - n \in Nat
      OBVIOUS
    <3>2. QED BY <3>1, GainLaws
  <2>4. cap <= cap + Gain(k, (n + 1) - n) /\ cap <= cap /\ n + 1 \in Nat /\ n <= n + 1
    <3> HIDE DEF cap
    <3>1. QED BY <1>5, <2>3
  <2>5. Room(k, n + 1, cap)
    BY <1>5, <2>1, <2>2, <2>4, RoomLater
  <2>6. QED BY <2>2, <2>5
<1>7. \A n, t \in Nat :
        (IF k \in DOMAIN buckets' THEN buckets'[k] = [tokens |-> t, updated |-> n]
                                  ELSE n \in Instants' /\ t = cap)
          => Room(k, n, t)
  BY <1>1, <1>4, <1>6 DEF Books, Accounted
<1>8. QED BY <1>2, <1>3, <1>7, BooksKept

(* A bucket that was full for a call on its way leaves room for a new one. *)
LEMMA RoomSwept ==
  ASSUME IInv, Ledger, NEW k \in Keys, k \in DOMAIN buckets, Accounted(k),
         NEW m \in Nat, ~Short(k, m), NEW n \in Nat, m <= n
  PROVE  Room(k, n, Capacity(LimitOf(k)))
<1> DEFINE cap == Capacity(LimitOf(k))
           x == Refilled(LimitOf(k), buckets[k], m)
<1>1. LimitOf(k) \in Limit /\ cap \in Nat
  BY KeyLimits, LimitNumbers
<1>2. buckets[k] \in Bucket /\ buckets[k].tokens <= cap /\ buckets[k].updated \in Nat
  BY DEF Ledger, LimiterType, Bucket
<1>3. buckets[k].updated <= m /\ ~(x < cap)
  BY <1>2 DEF Short, Overtaken
<1>4. x \in Nat /\ x <= cap
  BY <1>1, <1>2, RefilledValue
<1>5. Room(k, m, x)
  BY <1>3, RoomRefilled
<1>6. x = cap
  <2> HIDE DEF x, cap
  <2>1. QED BY <1>1, <1>3, <1>4
<1>7. Room(k, m, cap)
  <2> HIDE DEF x
  <2>1. QED BY <1>5, <1>6
<1>8. Gain(k, n - m) \in Nat
  <2>1. n - m \in Nat
    OBVIOUS
  <2>2. QED BY <2>1, GainLaws
<1>9. cap <= cap + Gain(k, n - m) /\ cap <= cap
  <2> HIDE DEF cap
  <2>1. QED BY <1>1, <1>8
<1>10. QED BY <1>1, <1>7, <1>9, RoomLater

(* A bucket the sweep of another's take drops was full for every call that *)
(* may ask for it again.                                                   *)
LEMMA TakeBooksOther ==
  ASSUME IInv, Ledger, NEW r \in Runs, Take(r), NEW k \in Keys, k \notin disturbed',
         Books(k), k # Tiers(r)[run[r].tier + 1]
  PROVE  Books(k)'
<1> DEFINE key == Tiers(r)[run[r].tier + 1]
           limit == LimitOf(key)
           now == run[r].now
           cap == Capacity(LimitOf(k))
<1>1. /\ key \in Keys /\ Others(r) /\ OtherHolders(r) /\ run'[r].now = now
      /\ run[r].stage = "limits"
      /\ Holds(r, k)' <=> Holds(r, k)
  BY TakeShape, TakeHolders
<1>2. /\ buckets' = Taken(buckets, key, limit, now)
      /\ clock' = clock /\ admitted' = admitted
      /\ k \notin Lost
  BY DEF Take, fixed, history
<1>3. clock \in Nat /\ \A q \in Runs : run[q].now \in 0..clock
  BY DEF IInv, ReportType, Ledger, LimiterType
<1>4. Ledger'
  BY TakeLedger
<1>5. \A S : Count(k, S)' <= Count(k, S)
  <2>1. \A S : Count(k, S)' = Count(k, S)
    BY <1>1, <1>2, CountStep
  <2>2. QED BY <2>1, CountNat
<1>6. now \in Instants
  BY <1>1 DEF Instants, At
<1>7. Instants' \subseteq Instants
  BY <1>1, <1>2, <1>6, InstantsKept
<1> HIDE DEF key
<1>8. k \in DOMAIN buckets' => k \in DOMAIN buckets /\ buckets'[k] = buckets[k]
  <2>1. k # key
    BY DEF key
  <2>2. buckets' = Taken(buckets, key, limit, now)
    BY <1>2
  <2>3. /\ key \in DOMAIN buckets'
        /\ DOMAIN buckets' \subseteq DOMAIN buckets \cup {key}
        /\ buckets'[key] = [tokens |-> Left(buckets, key, limit, now), updated |-> now]
        /\ \A j \in DOMAIN buckets' \ {key} : buckets'[j] = buckets[j]
    BY <2>2, TakenEffect
  <2>4. QED BY <2>1, <2>3
<1>9. ASSUME k \in DOMAIN buckets, k \notin DOMAIN buckets', NEW n \in Nat, n \in Instants
      PROVE  Room(k, n, cap)
  <2>1. \A q \in Runs : At(q, "limits") => ~Short(k, run[q].now)
    BY <1>2, <1>9 DEF Lost
  <2>2. \E q \in Runs : At(q, "limits") /\ run[q].now <= n
    <3>1. CASE n = clock
      BY <1>1, <1>3, <3>1 DEF At
    <3>2. ASSUME NEW q \in Runs, At(q, "limits"), n = run[q].now
          PROVE  \E p \in Runs : At(p, "limits") /\ run[p].now <= n
      BY <1>9, <3>2
    <3>3. QED BY <1>9, <3>1, <3>2 DEF Instants
  <2>3. PICK q \in Runs : At(q, "limits") /\ run[q].now <= n
    BY <2>2
  <2>4. run[q].now \in Nat
    BY <1>3
  <2>5. PICK m \in Nat : m = run[q].now
    BY <2>4
  <2>6. ~Short(k, m) /\ m <= n
    BY <2>1, <2>3, <2>5
  <2>7. QED BY <1>9, <2>6, RoomSwept DEF Books
<1>10. \A n, t \in Nat :
         (IF k \in DOMAIN buckets' THEN buckets'[k] = [tokens |-> t, updated |-> n]
                                   ELSE n \in Instants' /\ t = cap)
           => Room(k, n, t)
  <2> SUFFICES ASSUME NEW n \in Nat, NEW t \in Nat,
                      IF k \in DOMAIN buckets'
                        THEN buckets'[k] = [tokens |-> t, updated |-> n]
                        ELSE n \in Instants' /\ t = cap
               PROVE  Room(k, n, t)
    OBVIOUS
  <2>1. CASE k \in DOMAIN buckets'
    BY <1>8, <2>1 DEF Books, Accounted
  <2>2. CASE k \notin DOMAIN buckets
    BY <1>7, <1>8, <2>2 DEF Books, Accounted
  <2>3. CASE k \in DOMAIN buckets /\ k \notin DOMAIN buckets'
    BY <1>7, <1>9, <2>3
  <2>4. QED BY <2>1, <2>2, <2>3
<1>11. QED BY <1>4, <1>5, <1>10, BooksKept

(* The bucket a call is charged to has the room for it.                    *)
LEMMA TakeBooksOwn ==
  ASSUME IInv, Ledger, NEW r \in Runs, Take(r), NEW k \in Keys, k \notin disturbed',
         Books(k), k = Tiers(r)[run[r].tier + 1]
  PROVE  Books(k)'
<1> DEFINE ok == Admits(buckets, k, LimitOf(k), run[r].now)
           d == IF ok THEN 1 ELSE 0
<1>1. /\ OtherHolders(r) /\ run'[r].now = run[r].now /\ run[r].stage = "limits"
      /\ ~Holds(r, k)
      /\ Holds(r, k)' <=> (Holds(r, k) \/ ok)
  BY TakeShape, TakeHolders
<1>2. /\ buckets' = Taken(buckets, k, LimitOf(k), run[r].now)
      /\ admitted' = admitted
      /\ ~Overtaken(k, run[r].now)
  BY DEF Take, fixed, history
<1>3. run[r].now \in Nat /\ run[r].now \in Instants
  BY <1>1 DEF IInv, ReportType, Ledger, LimiterType, Instants, At
<1>4. Ledger'
  BY TakeLedger
<1>5. PICK n \in Nat : n = run[r].now
  BY <1>3
<1>6. LET has == Available(buckets, k, LimitOf(k), n)
          left == Left(buckets, k, LimitOf(k), n)
      IN  /\ has \in Nat /\ left \in Nat
          /\ left = IF Admits(buckets, k, LimitOf(k), n) THEN has - Cost(LimitOf(k)) ELSE has
  BY AvailableType DEF Ledger
<1>7. PICK has \in Nat, t \in Nat : /\ has = Available(buckets, k, LimitOf(k), n)
                                    /\ t = Left(buckets, k, LimitOf(k), n)
                                    /\ t = IF ok THEN has - Cost(LimitOf(k)) ELSE has
  BY <1>5, <1>6
<1>8. Room(k, n, has)
  <2>1. n \in Instants /\ ~Overtaken(k, n)
    BY <1>2, <1>3, <1>5
  <2>2. Room(k, n, Available(buckets, k, LimitOf(k), n))
    BY <2>1, RoomAsked DEF Books
  <2>3. QED BY <1>7, <2>2
<1>9. k \in DOMAIN buckets' /\ buckets'[k] = [tokens |-> t, updated |-> n]
  <2>1. buckets' = Taken(buckets, k, LimitOf(k), n)
    BY <1>2, <1>5
  <2>2. /\ k \in DOMAIN buckets'
        /\ buckets'[k] = [tokens |-> Left(buckets, k, LimitOf(k), n), updated |-> n]
    BY <2>1, TakenEffect
  <2>3. QED BY <1>7, <2>2
<1> HIDE DEF ok
<1>10. \A S : Count(k, S)' = Count(k, S) + (IF n \in S THEN d ELSE 0)
  <2>1. \A S : Count(k, S) \in Nat
    BY CountNat
  <2>2. CASE ok
    BY <1>1, <1>2, <1>5, <2>1, <2>2, CountStep
  <2>3. CASE ~ok
    <3>1. \A S : Count(k, S)' = Count(k, S)
      BY <1>1, <1>2, <2>3, CountStep
    <3>2. QED BY <2>1, <2>3, <3>1
  <2>4. QED BY <2>2, <2>3
<1>11. d \in -1..1 /\ t + d * Cost(LimitOf(k)) <= has
  <2>1. Cost(LimitOf(k)) \in Nat
    BY KeyLimits, LimitNumbers
  <2>2. QED BY <1>7, <2>1
<1> HIDE DEF d
<1>12. QED BY <1>4, <1>8, <1>9, <1>10, <1>11, BooksWritten

(* A call that goes out is already counted.                                *)
LEMMA AdmitBooks ==
  ASSUME IInv, Ledger, NEW r \in Runs, Admit(r), NEW k \in Keys, Books(k)
  PROVE  Books(k)'
<1>1. Ledger' /\ Others(r) /\ run'[r].stage = "calling"
  BY AdmitLedger, AdmitShape
<1>2. buckets' = buckets /\ clock' = clock
  BY DEF Admit, fixed
<1>3. Instants' \subseteq Instants
  BY <1>1, <1>2, InstantsKept
<1>4. \A S : Count(k, S)' <= Count(k, S)
  BY CountAdmit
<1>5. QED BY <1>1, <1>2, <1>3, <1>4, BooksAlone

(* A refund puts back what is no longer counted.                           *)
LEMMA RefundBooks ==
  ASSUME IInv, Ledger, NEW r \in Runs, Refund(r), NEW k \in Keys, k \notin disturbed',
         Books(k)
  PROVE  Books(k)'
<1> DEFINE key == run[r].charged[run[r].tier + 1]
           limit == LimitOf(key)
<1>1. /\ OtherHolders(r) /\ Others(r) /\ clock' = clock /\ admitted' = admitted
      /\ GivesBack(r) \/ GivenBack(r)
  BY RefundShape, RefundHolders DEF history
<1>2. Ledger'
  BY RefundLedger
<1>3. run[r].now \in Nat /\ \A S : Count(k, S) \in Nat
  BY CountNat DEF IInv, ReportType, Ledger, LimiterType
<1>4. CASE GivenBack(r)
  <2>1. /\ \A j : ~Holds(r, j) /\ ~Holds(r, j)'
        /\ buckets' = buckets /\ run'[r].stage = "failed"
    BY <1>4, RefundHolders DEF GivenBack
  <2>2. SameHolders
    BY <1>1, <2>1 DEF SameHolders, OtherHolders
  <2>3. Instants' \subseteq Instants
    BY <1>1, <2>1, InstantsKept
  <2>4. \A S : Count(k, S)' <= Count(k, S)
    BY <1>1, <2>2, CountKept
  <2>5. QED BY <1>2, <2>1, <2>3, <2>4, BooksAlone
<1>5. CASE GivesBack(r)
  <2>1. /\ key \in Keys /\ buckets' = Refunded(buckets, key, limit, run[r].now)
        /\ disturbed' = disturbed \cup {j \in {key} : Overtaken(j, run[r].now)}
        /\ run'[r].stage = "refund" /\ run'[r].now = run[r].now
        /\ Holds(r, key)
        /\ Holds(r, k)' <=> (Holds(r, k) /\ k # key)
    BY <1>5, RefundHolders DEF GivesBack
  <2>2. Instants' \subseteq Instants
    BY <1>1, <2>1, InstantsKept
  <2> HIDE DEF key
  <2>3. CASE k # key
    <3>1. \A S : Count(k, S)' <= Count(k, S)
      <4>1. \A S : Count(k, S)' = Count(k, S)
        BY <1>1, <2>1, <2>3, CountStep
      <4>2. QED BY <1>3, <4>1
    <3>2. /\ k \in DOMAIN buckets' <=> k \in DOMAIN buckets
          /\ k \in DOMAIN buckets => buckets'[k] = buckets[k]
      <4>1. buckets' = Refunded(buckets, key, limit, run[r].now)
        BY <2>1
      <4>2. /\ key \notin DOMAIN buckets => buckets' = buckets
            /\ key \in DOMAIN buckets =>
                 /\ DOMAIN buckets' = DOMAIN buckets
                 /\ \A j \in DOMAIN buckets' \ {key} : buckets'[j] = buckets[j]
        <5> HIDE DEF limit
        <5>1. QED BY <4>1 DEF Refunded
      <4>3. QED BY <2>3, <4>2
    <3>3. QED BY <1>2, <2>2, <3>1, <3>2, BooksAlone
  <2>4. CASE k = key /\ k \notin DOMAIN buckets
    <3>1. \A S : Count(k, S)' <= Count(k, S)
      <4>1. \A S : Count(k, S)' = Count(k, S) - (IF run[r].now \in S THEN 1 ELSE 0)
        BY <1>1, <2>1, <2>4, CountStep
      <4>2. QED BY <1>3, <4>1
    <3>2. buckets' = buckets
      <4>1. buckets' = Refunded(buckets, key, limit, run[r].now) /\ key \notin DOMAIN buckets
        BY <2>1, <2>4
      <4> HIDE DEF limit
      <4>2. QED BY <4>1 DEF Refunded
    <3>3. QED BY <1>2, <2>2, <3>1, <3>2, BooksAlone
  <2>5. CASE k = key /\ k \in DOMAIN buckets
    <3>1. PICK n \in Nat : n = run[r].now
      BY <1>3
    <3>2. ~Overtaken(k, n)
      BY <2>1, <2>5, <3>1
    <3>3. Available(buckets, k, LimitOf(k), n) = Refilled(LimitOf(k), buckets[k], n)
          /\ Available(buckets, k, LimitOf(k), n) \in Nat
      BY <2>5, AvailableValue, AvailableType DEF Ledger
    <3>4. PICK has \in Nat : has = Refilled(LimitOf(k), buckets[k], n)
      BY <3>3
    <3>5. Room(k, n, has)
      <4>1. Room(k, n, Available(buckets, k, LimitOf(k), n))
        BY <2>5, <3>2, RoomAsked DEF Books
      <4>2. QED BY <3>3, <3>4, <4>1
    <3>6. Cost(LimitOf(k)) \in Nat /\ Capacity(LimitOf(k)) \in Nat
      BY KeyLimits, LimitNumbers
    <3>7. PICK t \in Nat : t = Lesser(has + Cost(LimitOf(k)), Capacity(LimitOf(k)))
      BY <3>6 DEF Lesser
    <3>8. -1 \in -1..1 /\ t + (-1) * Cost(LimitOf(k)) <= has
      BY <3>6, <3>7 DEF Lesser
    <3>9. k \in DOMAIN buckets' /\ buckets'[k] = [tokens |-> t, updated |-> n]
      <4>1. buckets' = Refunded(buckets, k, LimitOf(k), n)
        BY <2>1, <2>5, <3>1
      <4>2. /\ DOMAIN buckets' = DOMAIN buckets
            /\ buckets'[k] = [tokens |-> Lesser(Refilled(LimitOf(k), buckets[k], n)
                                                  + Cost(LimitOf(k)), Capacity(LimitOf(k))),
                              updated |-> n]
        BY <2>5, <4>1, RefundedEffect
      <4>3. QED BY <2>5, <3>4, <3>7, <4>2
    <3>10. \A S : Count(k, S)' = Count(k, S) + (IF n \in S THEN -1 ELSE 0)
      <4>1. \A S : Count(k, S)' = Count(k, S) - (IF run[r].now \in S THEN 1 ELSE 0)
        BY <1>1, <2>1, <2>5, CountStep
      <4>2. QED BY <1>3, <3>1, <4>1
    <3>11. QED BY <1>2, <3>5, <3>8, <3>9, <3>10, BooksWritten
  <2>6. QED BY <2>3, <2>4, <2>5
<1>6. QED BY <1>1, <1>4, <1>5

(* The books of every bucket that nobody with an older clock came late to. *)
AllBooks == \A k \in Keys : k \notin disturbed => Books(k)

(* Before the first call there is nothing to account for.                  *)
LEMMA InitBooks == Init => AllBooks
<1> SUFFICES ASSUME Init, NEW k \in Keys PROVE Books(k)
  BY DEF AllBooks
<1> DEFINE cap == Capacity(LimitOf(k))
<1>1. Ledger
  BY InitLedger
<1>2. /\ buckets = [j \in {} |-> [tokens |-> 0, updated |-> 0]]
      /\ admitted = {} /\ clock = 0
      /\ \A r \in Runs : run[r].stage = "between"
  BY DEF Init, NewRun
<1>3. \A S : Count(k, S) = 0
  <2>1. \A S : Admissions(k, S) = {} /\ Holders(k, S) = {}
    BY <1>2 DEF Admissions, Holders, Holds, At
  <2>2. QED BY <2>1, FS_EmptySet DEF Count
<1>4. \A S : Load(k, S) = 0
  BY <1>1, <1>3, LoadLaws
<1>5. cap \in Nat
  BY KeyLimits, LimitNumbers
<1>6. Instants = {0} /\ DOMAIN buckets = {}
  BY <1>2 DEF Instants, At
<1>7. Room(k, 0, cap)
  <2>1. ASSUME NEW from \in 0..0
        PROVE  cap + Load(k, From(from)) <= cap + Gain(k, 0 - from)
    <3>1. 0 - from \in Nat
      BY <2>1
    <3>2. Gain(k, 0 - from) \in Nat /\ Load(k, From(from)) = 0
      BY <3>1, <1>4, GainLaws
    <3> HIDE DEF cap
    <3>3. QED BY <1>5, <3>2
  <2>2. QED BY <1>3, <2>1 DEF Room
<1>8. Accounted(k)
  BY <1>6, <1>7 DEF Accounted
<1>9. Spans(k)
  <2> SUFFICES ASSUME NEW from \in Nat, NEW to \in Nat, from <= to
               PROVE  Load(k, from..to) <= cap + Gain(k, to - from)
    BY DEF Spans
  <2>1. to - from \in Nat
    OBVIOUS
  <2>2. Gain(k, to - from) \in Nat /\ Load(k, from..to) = 0
    BY <2>1, <1>4, GainLaws
  <2> HIDE DEF cap
  <2>3. QED BY <1>5, <2>2
<1>10. QED BY <1>8, <1>9 DEF Books

(* Every step keeps them; a disturbed bucket stays disturbed.              *)
LEMMA NextBooks == ASSUME IInv, Ledger, AllBooks, [Next]_vars PROVE AllBooks'
<1> SUFFICES ASSUME NEW k \in Keys, k \notin disturbed' PROVE Books(k)'
  BY DEF AllBooks
<1>1. k \notin disturbed
  <2>1. CASE Aside \/ Tick
    BY <2>1 DEF Aside, Tick, limiter
  <2>2. ASSUME NEW r \in Runs, Call(r) \/ Take(r) \/ Admit(r) \/ Refund(r)
        PROVE  disturbed \subseteq disturbed'
    BY <2>2 DEF Call, Take, Admit, Refund, limiter
  <2>3. QED BY <2>1, <2>2, StepKinds
<1>2. Books(k)
  BY <1>1 DEF AllBooks
<1>3. ASSUME NEW r \in Runs, Take(r) PROVE Books(k)'
  BY <1>2, <1>3, TakeBooksOwn, TakeBooksOther
<1>4. QED BY <1>2, <1>3, StepKinds, AsideBooks, TickBooks, CallBooks, AdmitBooks, RefundBooks

(* The books are in order, so no span has admitted more than the limit.    *)
LEMMA BooksLimit == ASSUME IInv, Ledger, AllBooks PROVE WithinLimit
<1> SUFFICES ASSUME NEW k \in Keys, k \notin disturbed,
                    NEW from \in 0..clock, NEW to \in 0..clock, from <= to
             PROVE  Cardinality({a \in admitted : a.key = k /\ a.at \in from..to})
                      * Cost(LimitOf(k))
                    <= Capacity(LimitOf(k)) + (to - from) * Rate(LimitOf(k))
  BY DEF WithinLimit
<1> DEFINE n == Cardinality({a \in admitted : a.key = k /\ a.at \in from..to})
<1>1. clock \in Nat
  BY DEF IInv, ReportType
<1>2. Load(k, from..to) <= Capacity(LimitOf(k)) + Gain(k, to - from)
  BY <1>1 DEF AllBooks, Books, Spans
<1>3. n \in Nat /\ Count(k, from..to) \in Nat /\ n <= Count(k, from..to)
  <2>1. n = Cardinality(Admissions(k, from..to))
    BY DEF Admissions
  <2> HIDE DEF n
  <2>2. /\ Cardinality(Admissions(k, from..to)) \in Nat
        /\ Cardinality(Holders(k, from..to)) \in Nat
    BY CountFinite
  <2>3. QED BY <2>1, <2>2 DEF Count
<1>4. /\ Cost(LimitOf(k)) \in Nat /\ Capacity(LimitOf(k)) \in Nat
      /\ Load(k, from..to) \in Nat /\ Gain(k, to - from) \in Int
  <2>1. to - from \in Int
    BY <1>1
  <2>2. QED BY <2>1, KeyLimits, LimitNumbers, LoadLaws, GainLaws
<1> HIDE DEF n
<1>5. n * Cost(LimitOf(k)) <= Load(k, from..to) /\ n * Cost(LimitOf(k)) \in Nat
  BY <1>3, <1>4, Products DEF Load
<1>6. n * Cost(LimitOf(k)) <= Capacity(LimitOf(k)) + Gain(k, to - from)
  BY <1>2, <1>4, <1>5
<1>7. QED BY <1>6 DEF Gain, n

(* Alone, a bucket is worth what was in it and what it gains.              *)
LEMMA RetryRight == ASSUME IInv, Ledger PROVE RetryAfterExact
<1> SUFFICES ASSUME NEW k \in DOMAIN buckets, ~Admits(buckets, k, LimitOf(k), clock)
             PROVE  LET wait == RetryIn(LimitOf(k), Worth(k))
                    IN  /\ Admits(buckets, k, LimitOf(k), clock + wait)
                        /\ ~Admits(buckets, k, LimitOf(k), clock + wait - 1)
  BY DEF RetryAfterExact
<1> DEFINE limit == LimitOf(k)
           t == buckets[k].tokens
           u == buckets[k].updated
           wait == RetryIn(limit, Worth(k))
           rate == Rate(limit)
           x == (clock - u) * rate
<1>1. /\ k \in Keys /\ buckets[k] \in Bucket /\ t \in Nat /\ u \in Nat
      /\ t <= Capacity(limit) /\ u <= clock /\ clock \in Nat
  BY DEF IInv, ReportType, Ledger, LimiterType, Bucket
<1>2. limit \in Limit /\ rate \in Nat /\ Cost(limit) \in Nat
      /\ Capacity(limit) \in Nat /\ Cost(limit) <= Capacity(limit)
  BY <1>1, KeyLimits, LimitNumbers
<1>3. \A n \in Nat : u <= n =>
        /\ (n - u) * rate \in Nat
        /\ Available(buckets, k, limit, n) = Lesser(t + (n - u) * rate, Capacity(limit))
  <2>1. \A n \in Nat : u <= n =>
          /\ (n - u) * rate \in Nat
          /\ Refilled(limit, buckets[k], n) = Lesser(t + (n - u) * rate, Capacity(limit))
    BY <1>1, <1>2, RefilledValue
  <2>2. \A n : Available(buckets, k, limit, n) = Refilled(limit, buckets[k], n)
    BY AvailableValue
  <2>3. QED BY <2>1, <2>2
<1>4. /\ Worth(k) = Available(buckets, k, limit, clock)
      /\ Worth(k) = Lesser(t + x, Capacity(limit)) /\ x \in Nat
  <2>1. Worth(k) = Available(buckets, k, limit, clock)
    BY AvailableValue DEF Worth
  <2>2. QED BY <1>1, <1>3, <2>1
<1>5. Worth(k) < Cost(limit) /\ Worth(k) \in Nat
  <2>1. ~(Worth(k) >= Cost(limit))
    BY <1>4 DEF Admits
  <2>2. Worth(k) \in Nat
    BY <1>1, BalanceType
  <2>3. QED BY <1>2, <2>1, <2>2
<1>6. Worth(k) = t + x
  <2> HIDE DEF t, x, limit
  <2>1. QED BY <1>1, <1>2, <1>4, <1>5 DEF Lesser
<1>7. /\ wait \in Nat \ {0}
      /\ Worth(k) + wait * rate >= Cost(limit)
      /\ Worth(k) + (wait - 1) * rate < Cost(limit)
  BY <1>2, <1>5, RetryExact
<1>8. \A d \in Nat : Admits(buckets, k, limit, clock + d)
                       <=> Worth(k) + d * rate >= Cost(limit)
  <2> SUFFICES ASSUME NEW d \in Nat
               PROVE  Admits(buckets, k, limit, clock + d)
                        <=> Worth(k) + d * rate >= Cost(limit)
    OBVIOUS
  <2>1. clock + d \in Nat /\ u <= clock + d
    BY <1>1
  <2>2. (clock + d - u) * rate = x + d * rate /\ d * rate \in Nat
    <3>1. clock + d - u = (clock - u) + d /\ clock - u \in Int /\ d \in Int
      BY <1>1
    <3> HIDE DEF u, rate
    <3>2. QED BY <1>2, <3>1, Products DEF x
  <2>3. Available(buckets, k, limit, clock + d)
          = Lesser(t + (clock + d - u) * rate, Capacity(limit))
    <3> HIDE DEF t, u, limit, rate
    <3>1. PICK n \in Nat : n = clock + d
      BY <2>1
    <3>2. Available(buckets, k, limit, n) = Lesser(t + (n - u) * rate, Capacity(limit))
      BY <1>3, <2>1, <3>1
    <3>3. n - u = clock + d - u
      BY <1>1, <3>1
    <3> DEFINE y == n - u
               z == clock + d - u
    <3>4. Available(buckets, k, limit, n) = Lesser(t + z * rate, Capacity(limit))
      <4>1. y = z
        BY <3>3
      <4>2. Available(buckets, k, limit, n) = Lesser(t + y * rate, Capacity(limit))
        BY <3>2
      <4> HIDE DEF y, z
      <4>3. QED BY <4>1, <4>2
    <3> HIDE DEF z
    <3>5. Available(buckets, k, limit, clock + d) = Lesser(t + z * rate, Capacity(limit))
      BY <3>1, <3>4
    <3>6. QED BY <3>5 DEF z
  <2>4. Available(buckets, k, limit, clock + d)
          = Lesser(Worth(k) + d * rate, Capacity(limit))
    <3>1. t + (x + d * rate) = (t + x) + d * rate
      <4> DEFINE y == d * rate
      <4>1. t \in Nat /\ x \in Nat /\ y \in Nat
        BY <1>1, <1>4, <2>2
      <4> HIDE DEF t, x, y
      <4>2. t + (x + y) = (t + x) + y
        BY <4>1
      <4>3. QED BY <4>2 DEF y
    <3> HIDE DEF t, x, limit, u, rate
    <3>2. QED BY <1>6, <2>2, <2>3, <3>1
  <2> HIDE DEF limit, rate
  <2>5. QED BY <1>2, <1>5, <2>2, <2>4 DEF Admits, Lesser
<1> HIDE DEF wait, limit, rate
<1>9. clock + wait - 1 = clock + (wait - 1) /\ wait - 1 \in Nat /\ wait \in Nat
  BY <1>1, <1>7
<1>10. Admits(buckets, k, limit, clock + wait)
  BY <1>7, <1>8, <1>9
<1>11. ~Admits(buckets, k, limit, clock + wait - 1)
  <2>1. ~(Worth(k) + (wait - 1) * rate >= Cost(limit))
    <3> DEFINE y == (wait - 1) * rate
    <3>1. y \in Nat
      BY <1>2, <1>9, Products
    <3>2. Worth(k) + y < Cost(limit)
      BY <1>7
    <3> HIDE DEF y
    <3>3. ~(Worth(k) + y >= Cost(limit))
      BY <1>2, <1>5, <3>1, <3>2
    <3>4. QED BY <3>3 DEF y
  <2>2. QED BY <1>8, <1>9, <2>1
<1>12. QED BY <1>10, <1>11 DEF wait, limit

(* The limit itself and the advice to a refused caller: over no span of    *)
(* time does a bucket admit more than its burst and what the span refills, *)
(* but for those a call with an older `now` came late to or may find swept *)
(* away; and a caller that waits as long as told is admitted, no sooner.   *)
THEOREM LimitsHold == Spec => []LimitKept
<1>1. IInv /\ Ledger /\ [Next]_vars => Ledger'
  BY NextLedger
<1>2. IInv /\ Ledger /\ AllBooks /\ [Next]_vars => AllBooks'
  BY NextBooks
<1>3. IInv /\ Ledger /\ AllBooks => LimitKept
  BY BooksLimit, RetryRight DEF LimitKept
<1>4. QED BY <1>1, <1>2, <1>3, InitLedger, InitBooks, Invariance, PTL DEF Spec
=============================================================================
