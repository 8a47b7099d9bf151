-------------------------- MODULE Dispatch_proofs --------------------------
(***************************************************************************)
(* What TLAPS proves of Dispatch, for any number of requests, tools,       *)
(* upstreams, slots, pages and any breaker and cache settings.             *)
(***************************************************************************)
EXTENDS Dispatch, FiniteSetTheorems, TLAPS

----------------------------------------------------------------------------

Tripped(b) == b.consecutive >= Threshold => b.openLeft # Never

(* The breaker's operators (check, on_result, the clock) stay within its   *)
(* states.                                                                 *)
LEMMA BreakerType ==
  /\ NewBreaker \in BreakerState
  /\ \A b \in BreakerState : Checked(b) \in BreakerState /\ Elapse(b) \in BreakerState
  /\ \A b \in BreakerState, failed, wasProbe \in BOOLEAN :
       AfterResult(b, failed, wasProbe) \in BreakerState
<1>1. NewBreaker \in BreakerState
  BY BreakerAssumption DEF NewBreaker, BreakerState, Never
<1>2. ASSUME NEW b \in BreakerState
      PROVE  Checked(b) \in BreakerState /\ Elapse(b) \in BreakerState
  <2>1. Checked(b) \in BreakerState
    BY BreakerAssumption DEF Checked, BreakerState, Never
  <2>2. Older(b.probeAge) \in {Never} \cup 0..StaleAfter
    BY BreakerAssumption DEF Older, BreakerState, Never
  <2>3. Elapse(b) \in BreakerState
    BY <2>2, BreakerAssumption DEF Elapse, BreakerState, Never
  <2>4. QED BY <2>1, <2>3
<1>3. ASSUME NEW b \in BreakerState, NEW failed \in BOOLEAN, NEW wasProbe \in BOOLEAN
      PROVE  AfterResult(b, failed, wasProbe) \in BreakerState
  BY BreakerAssumption DEF AfterResult, Counted, BreakerState, Never
<1>4. QED BY <1>1, <1>2, <1>3

(* A breaker that has counted the threshold stays open until a success.    *)
LEMMA BreakerTrips ==
  /\ Tripped(NewBreaker)
  /\ \A b \in BreakerState :
       Tripped(b) => Tripped(Checked(b)) /\ Tripped(Elapse(b))
  /\ \A b \in BreakerState, failed, wasProbe \in BOOLEAN :
       Tripped(b) => Tripped(AfterResult(b, failed, wasProbe))
<1>1. Tripped(NewBreaker)
  BY BreakerAssumption DEF NewBreaker, Tripped
<1>2. ASSUME NEW b \in BreakerState, Tripped(b)
      PROVE  Tripped(Checked(b)) /\ Tripped(Elapse(b))
  BY <1>2, BreakerAssumption DEF Checked, Elapse, BreakerState, Never, Tripped
<1>3. ASSUME NEW b \in BreakerState, NEW failed \in BOOLEAN, NEW wasProbe \in BOOLEAN,
             Tripped(b)
      PROVE  Tripped(AfterResult(b, failed, wasProbe))
  BY <1>3, BreakerAssumption DEF AfterResult, Counted, BreakerState, Never, Tripped
<1>4. QED BY <1>1, <1>2, <1>3

----------------------------------------------------------------------------
(* Type correctness.                                                       *)

(* The task records dispatch_reach writes are TaskStates.                  *)
LEMMA TaskType ==
  /\ Idle \in TaskState
  /\ Idle.stage = "idle"
  /\ \A t \in Tools, stage \in Stages : At(t, stage) \in TaskState
<1>1. \A t \in Tools, stage \in Stages : At(t, stage) \in TaskState
  BY DispatchAssumption, BreakerAssumption DEF At, TaskState, Sayings
<1>2. (CHOOSE t \in Tools : TRUE) \in Tools
  BY DispatchAssumption
<1>3. "idle" \in Stages
  BY DEF Stages
<1>4. Idle \in TaskState
  BY <1>1, <1>2, <1>3 DEF Idle
<1>5. QED BY <1>1, <1>4 DEF Idle, At

(* What a step does to the task it belongs to keeps every task typed.      *)
LEMMA UpdateType ==
  ASSUME TypeOK, NEW k \in Tasks, NEW state \in TaskState, Update(k, state)
  PROVE  task' \in [Tasks -> TaskState]
BY DEF Update, TypeOK

(* The surface starts typed.                                               *)
LEMMA InitType == Init => TypeOK
<1> SUFFICES ASSUME Init PROVE TypeOK
  OBVIOUS
<1>1. task \in [Tasks -> TaskState]
  BY TaskType DEF Init
<1>2. queue \in Seq(Tasks) /\ permits \in Nat
  BY DispatchAssumption DEF Init
<1>3. breaker \in [Tools -> BreakerState]
  BY BreakerType DEF Init
<1>4. DOMAIN cache = {}
  BY DEF Init
<1>5. /\ version \in [Upstreams -> Nat]
      /\ late \in [Upstreams -> Nat]
      /\ settled \in [Upstreams -> Nat]
      /\ known \subseteq Tools /\ adrift \subseteq Upstreams /\ overrun \subseteq Tools
  BY DEF Init
<1>6. QED BY <1>1, <1>2, <1>3, <1>4, <1>5 DEF TypeOK

(* Where a page that is not an error leaves the task: its first page takes *)
(* it to the breaker, a later one back for a slot or to the end.           *)
LEMMA AnsweredState ==
  ASSUME TypeOK, NEW k \in Tasks, AnswerOk(k)
  PROVE  \E state \in TaskState :
           /\ Update(k, state)
           /\ queue' = IF state.stage = "queued" THEN Append(queue, k) ELSE queue
           /\ state.said \in Says(task[k].tool, task[k].page)
           /\ state.page = IF state.said = "empty" THEN task[k].page
                           ELSE task[k].page + 1
           /\ state.stage = IF task[k].page = 0 THEN "record"
                            ELSE IF Follows(task[k].tool, state.page, state.said)
                            THEN "queued" ELSE "finish"
           /\ state.ok = TRUE
           /\ state.tool = task[k].tool /\ state.raced = task[k].raced
           /\ state.probe = task[k].probe /\ state.age = task[k].age
           /\ state.served = task[k].served /\ state.seen = task[k].seen
           /\ state.partial = task[k].partial
<1>1. PICK said \in Says(task[k].tool, task[k].page) :
        LET page  == IF said = "empty" THEN task[k].page ELSE task[k].page + 1
            stage == IF task[k].page = 0 THEN "record"
                     ELSE IF Follows(task[k].tool, page, said) THEN "queued" ELSE "finish"
        IN  /\ Update(k, [task[k] EXCEPT !.stage = stage, !.wire = 0, !.page = page,
                                         !.said = said, !.ok = TRUE])
            /\ queue' = IF stage = "queued" THEN Append(queue, k) ELSE queue
  BY DEF AnswerOk
<1> DEFINE page  == IF said = "empty" THEN task[k].page ELSE task[k].page + 1
           stage == IF task[k].page = 0 THEN "record"
                    ELSE IF Follows(task[k].tool, page, said) THEN "queued" ELSE "finish"
           state == [task[k] EXCEPT !.stage = stage, !.wire = 0, !.page = page,
                                    !.said = said, !.ok = TRUE]
<1>2. task[k] \in TaskState /\ 0 \in 0..Deadline
  BY DispatchAssumption DEF TypeOK
<1>3. /\ said \in Sayings
      /\ page \in Nat
      /\ stage \in Stages
  <2>1. said \in Sayings
    BY DEF Says, Sayings
  <2>2. page \in Nat
    BY <1>2 DEF TaskState
  <2>3. stage \in Stages
    BY DEF Stages
  <2>4. QED BY <2>1, <2>2, <2>3
<1>4. /\ Update(k, state)
      /\ queue' = IF stage = "queued" THEN Append(queue, k) ELSE queue
      /\ page = IF said = "empty" THEN task[k].page ELSE task[k].page + 1
      /\ stage = IF task[k].page = 0 THEN "record"
                 ELSE IF Follows(task[k].tool, page, said) THEN "queued" ELSE "finish"
  BY <1>1
<1> HIDE DEF page, stage
<1>5. /\ state \in TaskState
      /\ state.stage = stage /\ state.page = page /\ state.said = said /\ state.ok = TRUE
      /\ state.tool = task[k].tool /\ state.raced = task[k].raced
      /\ state.probe = task[k].probe /\ state.age = task[k].age
      /\ state.served = task[k].served /\ state.seen = task[k].seen
      /\ state.partial = task[k].partial
  BY <1>2, <1>3 DEF TaskState
<1> HIDE DEF state
<1>6. QED BY <1>1, <1>4, <1>5

(* The steps of one task.                                                  *)
LEMMA StepType ==
  ASSUME TypeOK, NEW k \in Tasks, Step(k)
  PROVE  TypeOK'
<1>0. task[k] \in TaskState /\ 0 \in 0..Deadline /\ 0 \in 0..StaleAfter
  BY DispatchAssumption, BreakerAssumption DEF TypeOK
<1>1. CASE Lookup(k)
  <2>1. [task[k] EXCEPT !.stage = "gate"] \in TaskState
    BY <1>0 DEF TaskState, Stages
  <2>2. task' \in [Tasks -> TaskState]
    BY <1>1, <2>1, UpdateType, TaskType DEF Lookup, Stage
  <2>3. QED BY <1>1, <2>2 DEF Lookup, TypeOK
<1>2. CASE Gate(k)
  <2>1. \A p \in BOOLEAN :
          [task[k] EXCEPT !.stage = "queued", !.probe = p] \in TaskState
    BY <1>0 DEF TaskState, Stages
  <2>2. task' \in [Tasks -> TaskState]
    BY <1>2, <2>1, UpdateType, TaskType DEF Gate
  <2>3. queue \in Seq(Tasks) /\ Append(queue, k) \in Seq(Tasks)
    BY DEF TypeOK
  <2>4. queue' \in Seq(Tasks)
    BY <1>2, <2>3 DEF Gate
  <2>5. breaker' \in [Tools -> BreakerState]
    BY <1>2, BreakerType DEF Gate, TypeOK
  <2>6. QED BY <1>2, <2>2, <2>4, <2>5 DEF Gate, TypeOK
<1>3. CASE AcquireSlot(k)
  <2>1. [task[k] EXCEPT !.stage = "called", !.served = FALSE] \in TaskState
    BY <1>0 DEF TaskState, Stages
  <2>2. task' \in [Tasks -> TaskState]
    BY <1>3, <2>1, UpdateType DEF AcquireSlot
  <2>3. queue' \in Seq(Tasks)
    BY <1>3 DEF AcquireSlot, TypeOK
  <2>4. permits' \in Nat
    BY <1>3 DEF AcquireSlot, TypeOK
  <2>5. QED BY <1>3, <2>2, <2>3, <2>4 DEF AcquireSlot, TypeOK
<1>4. CASE AnswerOk(k)
  <2>1. PICK state \in TaskState :
          /\ Update(k, state)
          /\ queue' = IF state.stage = "queued" THEN Append(queue, k) ELSE queue
    BY <1>4, AnsweredState
  <2>2. task' \in [Tasks -> TaskState]
    BY <2>1, UpdateType
  <2>3. queue \in Seq(Tasks) /\ Append(queue, k) \in Seq(Tasks)
    BY DEF TypeOK
  <2>4. queue' \in Seq(Tasks)
    BY <2>1, <2>3
  <2>5. permits' \in Nat
    BY <1>4 DEF AnswerOk, Released, TypeOK
  <2>6. QED BY <1>4, <2>2, <2>4, <2>5 DEF AnswerOk, TypeOK
<1>5. CASE AnswerError(k)
  <2>1. /\ [task[k] EXCEPT !.stage = "record", !.wire = 0] \in TaskState
        /\ [task[k] EXCEPT !.stage = "finish", !.wire = 0, !.partial = TRUE] \in TaskState
    BY <1>0 DEF TaskState, Stages
  <2>2. task' \in [Tasks -> TaskState]
    BY <1>5, <2>1, UpdateType DEF AnswerError
  <2>3. late' \in [Upstreams -> Nat]
    BY <1>5 DEF AnswerError, Abandon, TypeOK
  <2>4. permits' \in Nat
    BY <1>5 DEF AnswerError, Released, TypeOK
  <2>5. QED BY <1>5, <2>2, <2>3, <2>4 DEF AnswerError, TypeOK
<1>6. CASE Record(k)
  <2>1. /\ [task[k] EXCEPT !.stage = "queued", !.probe = FALSE, !.age = 0] \in TaskState
        /\ [task[k] EXCEPT !.stage = "finish", !.probe = FALSE, !.age = 0] \in TaskState
    BY <1>0 DEF TaskState, Stages
  <2>2. task' \in [Tasks -> TaskState]
    BY <1>6, <2>1, UpdateType DEF Record
  <2>3. queue \in Seq(Tasks) /\ Append(queue, k) \in Seq(Tasks)
    BY DEF TypeOK
  <2>4. queue' \in Seq(Tasks)
    BY <1>6, <2>3 DEF Record
  <2>5. /\ task[k].ok \in BOOLEAN
        /\ task[k].probe \in BOOLEAN
    BY <1>0 DEF TaskState
  <2>6. breaker' \in [Tools -> BreakerState]
    BY <1>6, <2>5, BreakerType DEF Record, TypeOK
  <2>7. QED BY <1>6, <2>2, <2>4, <2>6 DEF Record, TypeOK
<1>7. CASE Store(k)
  <2>1. task' \in [Tasks -> TaskState]
    BY <1>7, UpdateType, TaskType DEF Store
  <2>2. [age |-> 0, version |-> task[k].seen, page |-> task[k].page,
         said |-> task[k].said, raced |-> task[k].raced, missed |-> FALSE] \in Entry
    BY <1>0, DispatchAssumption DEF Entry, TaskState
  <2>3. Kept \subseteq DOMAIN cache
    BY DEF Kept, Unexpired
  <2>4. DOMAIN cache' \subseteq Cacheable /\ \A t \in DOMAIN cache' : cache'[t] \in Entry
    BY <1>7, <2>2, <2>3 DEF Store, Insert, TypeOK
  <2>5. QED BY <1>7, <2>1, <2>4 DEF Store, TypeOK
<1>8. CASE Bust(k)
  <2>1. \A j \in Tasks : [task[j] EXCEPT !.raced = TRUE] \in TaskState
    BY DEF TypeOK, TaskState
  <2>2. task' \in [Tasks -> TaskState]
    BY <1>8, <2>1, TaskType DEF Bust, TypeOK
  <2>3. DOMAIN cache' \subseteq Cacheable /\ \A t \in DOMAIN cache' : cache'[t] \in Entry
    <3>1. DOMAIN cache' = Spared(k) /\ Spared(k) \subseteq DOMAIN cache
      BY <1>8 DEF Bust, Spared
    <3>2. ASSUME NEW t \in DOMAIN cache'
          PROVE  \E m \in BOOLEAN : cache'[t] = [cache[t] EXCEPT !.missed = m]
      <4>1. cache'[t] = [cache[t] EXCEPT
                           !.missed = cache[t].missed
                             \/ (t \notin known /\ UpstreamOf[t] = UpstreamOf[task[k].tool])]
        BY <1>8, <3>1 DEF Bust
      <4>2. QED BY <4>1
    <3>3. \A e \in Entry, m \in BOOLEAN : [e EXCEPT !.missed = m] \in Entry
      BY DEF Entry
    <3>4. QED BY <3>1, <3>2, <3>3 DEF TypeOK
  <2>4. settled' \in [Upstreams -> Nat]
    <3>1. UpstreamOf[task[k].tool] \in Upstreams
      BY <1>0, DispatchAssumption DEF TaskState
    <3>2. QED BY <1>8, <3>1 DEF Bust, TypeOK
  <2>5. adrift' \subseteq Upstreams
    BY <1>8 DEF Bust, TypeOK
  <2>6. QED BY <1>8, <2>2, <2>3, <2>4, <2>5 DEF Bust, TypeOK
<1>9. QED BY <1>1, <1>2, <1>3, <1>4, <1>5, <1>6, <1>7, <1>8 DEF Step

(* A dropped write is put down to its upstream.                            *)
LEMMA DropType ==
  ASSUME TypeOK, NEW k \in Tasks, Drop(k)
  PROVE  adrift' \subseteq Upstreams
<1>1. UpstreamOf[task[k].tool] \in Upstreams
  BY DispatchAssumption DEF TypeOK, TaskState
<1>2. QED BY <1>1 DEF Drop, TypeOK

(* The steps of clients, upstreams, the catalog and the clock.             *)
LEMMA NextType == TypeOK /\ [Next]_vars => TypeOK'
<1> SUFFICES ASSUME TypeOK, [Next]_vars PROVE TypeOK'
  OBVIOUS
<1>1. ASSUME NEW k \in Tasks, NEW t \in Tools, Begin(k, t) PROVE TypeOK'
  <2>1. At(t, IF t \in Cacheable THEN "lookup" ELSE "gate") \in TaskState
    BY TaskType DEF Stages
  <2>2. task' \in [Tasks -> TaskState]
    BY <1>1, <2>1, UpdateType DEF Begin
  <2>3. QED BY <1>1, <2>2 DEF Begin, TypeOK
<1>2. ASSUME NEW k \in Tasks, Step(k) PROVE TypeOK'
  BY <1>2, StepType
<1>3. ASSUME NEW k \in Tasks, Serve(k) PROVE TypeOK'
  <2>0. task[k] \in TaskState /\ UpstreamOf[task[k].tool] \in Upstreams
    BY DispatchAssumption DEF TypeOK, TaskState
  <2>1. version' \in [Upstreams -> Nat]
    <3>1. version \in [Upstreams -> Nat]
      BY DEF TypeOK
    <3>2. version' = version
          \/ version' = [version EXCEPT ![UpstreamOf[task[k].tool]] = @ + 1]
      BY <1>3 DEF Serve
    <3>3. QED BY <2>0, <3>1, <3>2
  <2>2. \A n \in Nat : [task[k] EXCEPT !.served = TRUE, !.seen = n] \in TaskState
    BY <2>0 DEF TaskState
  <2>3. version'[UpstreamOf[task[k].tool]] \in Nat /\ task[k].seen \in Nat
    BY <2>0, <2>1 DEF TaskState
  <2>4. task' \in [Tasks -> TaskState]
    BY <1>3, <2>2, <2>3, UpdateType DEF Serve
  <2>5. QED BY <1>3, <2>1, <2>4 DEF Serve, TypeOK
<1>4. ASSUME NEW k \in Tasks, LeaveQueue(k) PROVE TypeOK'
  <2>1. task' \in [Tasks -> TaskState]
    BY <1>4, UpdateType, TaskType DEF LeaveQueue
  <2>2. queue' \in Seq(Tasks)
    <3>1. PICK i \in DOMAIN queue :
            queue' = [j \in 1..(Len(queue) - 1) |-> queue[IF j < i THEN j ELSE j + 1]]
      BY <1>4 DEF LeaveQueue
    <3>2. Len(queue) \in Nat /\ DOMAIN queue = 1..Len(queue)
          /\ \A j \in 1..Len(queue) : queue[j] \in Tasks
      BY DEF TypeOK
    <3>3. \A j \in 1..(Len(queue) - 1) : queue[IF j < i THEN j ELSE j + 1] \in Tasks
      BY <3>2
    <3>4. Len(queue) - 1 \in Nat
      BY <3>2
    <3>5. QED BY <3>1, <3>3, <3>4
  <2>3. adrift' \subseteq Upstreams
    BY <1>4, DropType DEF LeaveQueue
  <2>4. QED BY <1>4, <2>1, <2>2, <2>3 DEF LeaveQueue, TypeOK
<1>5. ASSUME NEW k \in Tasks, HangUp(k) PROVE TypeOK'
  <2>1. task' \in [Tasks -> TaskState]
    BY <1>5, UpdateType, TaskType DEF HangUp
  <2>2. late' \in [Upstreams -> Nat]
    <3>1. late \in [Upstreams -> Nat] /\ UpstreamOf[task[k].tool] \in Upstreams
      BY DispatchAssumption DEF TypeOK, TaskState
    <3>2. late' = late \/ late' = [late EXCEPT ![UpstreamOf[task[k].tool]] = @ + 1]
      BY <1>5 DEF HangUp, Abandon
    <3>3. QED BY <3>1, <3>2
  <2>3. permits' \in Nat
    BY <1>5 DEF HangUp, Released, TypeOK
  <2>4. adrift' \subseteq Upstreams
    BY <1>5, DropType DEF HangUp
  <2>5. QED BY <1>5, <2>1, <2>2, <2>3, <2>4 DEF HangUp, TypeOK
<1>6. ASSUME NEW u \in Upstreams, LateCommit(u) PROVE TypeOK'
  BY <1>6 DEF LateCommit, TypeOK
<1>7. ASSUME Tick PROVE TypeOK'
  <2>1. ASSUME NEW k \in Tasks
        PROVE  [task[k] EXCEPT !.wire = IF task[k].stage = "called" THEN @ + 1 ELSE @,
                               !.age = IF Live(k) THEN Older(@) ELSE @] \in TaskState
    <3>0. task[k] \in TaskState
      BY DEF TypeOK
    <3> DEFINE wire == IF task[k].stage = "called" THEN task[k].wire + 1 ELSE task[k].wire
               age  == IF Live(k) THEN Older(task[k].age) ELSE task[k].age
    <3>1. wire \in 0..Deadline
      <4>1. /\ task[k].wire \in 0..Deadline
            /\ task[k].stage = "called" => task[k].wire < Deadline
        BY <1>7, <3>0 DEF Tick, Prompt, TaskState
      <4>2. Deadline \in Nat
        BY DispatchAssumption
      <4>3. QED BY <4>1, <4>2
    <3>2. age \in 0..StaleAfter
      BY <3>0, BreakerAssumption DEF Older, TaskState
    <3> HIDE DEF wire, age
    <3>3. [task[k] EXCEPT !.wire = wire, !.age = age] \in TaskState
      BY <3>0, <3>1, <3>2 DEF TaskState
    <3>4. QED BY <3>3 DEF wire, age
  <2>2. task' \in [Tasks -> TaskState]
    BY <1>7, <2>1 DEF Tick
  <2>3. breaker' \in [Tools -> BreakerState]
    BY <1>7, BreakerType DEF Tick, TypeOK
  <2>4. DOMAIN cache' \subseteq Cacheable /\ \A t \in DOMAIN cache' : cache'[t] \in Entry
    <3>1. ASSUME NEW e \in Entry
          PROVE  [e EXCEPT !.age = IF e.age < TTL THEN e.age + 1 ELSE e.age] \in Entry
      <4>1. (IF e.age < TTL THEN e.age + 1 ELSE e.age) \in 0..TTL
        BY DispatchAssumption DEF Entry
      <4>2. QED BY <4>1 DEF Entry
    <3>2. cache' = [t \in DOMAIN cache |->
                      [cache[t] EXCEPT !.age = IF cache[t].age < TTL THEN cache[t].age + 1
                                               ELSE cache[t].age]]
      BY <1>7 DEF Tick
    <3>3. QED BY <3>1, <3>2 DEF TypeOK
  <2>5. overrun' \subseteq Tools
    BY <1>7 DEF Tick, TypeOK
  <2>6. QED BY <1>7, <2>2, <2>3, <2>4, <2>5 DEF Tick, TypeOK
<1>8. ASSUME Relist PROVE TypeOK'
  BY <1>8, DispatchAssumption DEF Relist, TypeOK
<1>9. ASSUME UNCHANGED vars PROVE TypeOK'
  BY <1>9 DEF vars, TypeOK
<1>10. QED BY <1>1, <1>2, <1>3, <1>4, <1>5, <1>6, <1>7, <1>8, <1>9 DEF Next

(* Every variable keeps its type: in particular no age, wait or failure    *)
(* count passes the bound it is compared with (dispatch_reach, on_result). *)
THEOREM TypeCorrect == Spec => []TypeOK
BY InitType, NextType, PTL DEF Spec

----------------------------------------------------------------------------
(* Every breaker starts closed.                                            *)
LEMMA InitTripped == Init => TrippedIsOpen
BY BreakerTrips DEF Init, TrippedIsOpen, Tripped

(* No step closes a breaker that has counted its threshold.                *)
LEMMA NextTripped == TypeOK /\ TrippedIsOpen /\ [Next]_vars => TrippedIsOpen'
<1> SUFFICES ASSUME TypeOK, TrippedIsOpen, [Next]_vars,
                    NEW x \in Tools
             PROVE  Tripped(breaker'[x])
  BY DEF TrippedIsOpen, Tripped
<1>0. breaker \in [Tools -> BreakerState] /\ breaker[x] \in BreakerState
      /\ Tripped(breaker[x])
  BY DEF TypeOK, TrippedIsOpen, Tripped
<1>1. ASSUME NEW k \in Tasks, Gate(k) PROVE Tripped(breaker'[x])
  BY <1>0, <1>1, BreakerTrips DEF Gate
<1>2. ASSUME NEW k \in Tasks, Record(k) PROVE Tripped(breaker'[x])
  <2>1. task[k].ok \in BOOLEAN /\ task[k].probe \in BOOLEAN
    BY DEF TypeOK, TaskState
  <2>2. QED BY <1>0, <1>2, <2>1, BreakerTrips DEF Record
<1>3. ASSUME Tick PROVE Tripped(breaker'[x])
  BY <1>0, <1>3, BreakerTrips DEF Tick
<1>4. CASE UNCHANGED breaker
  BY <1>0, <1>4
<1>5. QED
  BY <1>1, <1>2, <1>3, <1>4
  DEF Next, Step, Begin, Lookup, AcquireSlot, Serve, AnswerOk, AnswerError, Store, Bust,
      LeaveQueue, HangUp, LateCommit, Relist, vars

(* A breaker that has counted consecutive_failures is not closed           *)
(* (BreakerState::on_result).                                              *)
THEOREM TrippedStaysOpen == Spec => []TrippedIsOpen
BY InitType, NextType, InitTripped, NextTripped, PTL DEF Spec

----------------------------------------------------------------------------
(* Slots.  The queue is needed first: the task at its head waits for a     *)
(* slot and holds none.                                                    *)

(* A task that starts to wait for a slot joins the queue's end.            *)
LEMMA QueueAppend ==
  ASSUME TypeOK, QueueExact, NEW k \in Tasks, NEW state \in TaskState,
         task[k].stage # "queued", state.stage = "queued",
         Update(k, state), queue' = Append(queue, k)
  PROVE  QueueExact'
<1>1. Len(queue) \in Nat /\ DOMAIN queue = 1..Len(queue)
      /\ \A i \in 1..Len(queue) : queue[i] \in Tasks /\ queue[i] # k
  BY DEF TypeOK, QueueExact
<1>2. /\ DOMAIN queue' = 1..(Len(queue) + 1)
      /\ \A i \in 1..Len(queue) : queue'[i] = queue[i]
      /\ queue'[Len(queue) + 1] = k
  BY <1>1 DEF TypeOK
<1>3. \A j \in Tasks : task'[j] = IF j = k THEN state ELSE task[j]
  BY DEF Update, TypeOK
<1>4. ASSUME NEW j \in Tasks
      PROVE  task'[j].stage = "queued" <=> \E i \in DOMAIN queue' : queue'[i] = j
  <2>1. CASE j = k
    BY <1>1, <1>2, <1>3, <2>1
  <2>2. CASE j # k
    BY <1>1, <1>2, <1>3, <2>2 DEF QueueExact
  <2>3. QED BY <2>1, <2>2
<1>5. \A i, j \in DOMAIN queue' : queue'[i] = queue'[j] => i = j
  BY <1>1, <1>2 DEF QueueExact
<1>6. QED BY <1>4, <1>5 DEF QueueExact

(* A task that neither waited for a slot nor now does.                     *)
LEMMA QueueKeep ==
  ASSUME TypeOK, QueueExact, NEW k \in Tasks, NEW state,
         task[k].stage # "queued", state.stage # "queued",
         Update(k, state), queue' = queue
  PROVE  QueueExact'
BY DEF Update, TypeOK, QueueExact

(* The task at place i stops waiting and the others move up.               *)
LEMMA QueueRemove ==
  ASSUME TypeOK, QueueExact, NEW i \in DOMAIN queue, NEW state,
         state.stage # "queued", Update(queue[i], state),
         DOMAIN queue' = 1..(Len(queue) - 1),
         \A j \in DOMAIN queue' : queue'[j] = queue[IF j < i THEN j ELSE j + 1]
  PROVE  QueueExact'
<1>1. /\ Len(queue) \in Nat
      /\ DOMAIN queue = 1..Len(queue)
      /\ \A j \in 1..Len(queue) : queue[j] \in Tasks
  BY DEF TypeOK
<1> DEFINE k == queue[i]
           from(j) == IF j < i THEN j ELSE j + 1
<1>2. /\ DOMAIN queue' = 1..(Len(queue) - 1)
      /\ \A j \in 1..(Len(queue) - 1) :
           from(j) \in 1..Len(queue) /\ from(j) # i /\ queue'[j] = queue[from(j)]
  BY <1>1
<1>3. \A j, l \in 1..(Len(queue) - 1) : from(j) = from(l) => j = l
  BY <1>1
<1>4. \A j \in 1..Len(queue) : j # i => \E l \in 1..(Len(queue) - 1) : from(l) = j
  <2>1. ASSUME NEW j \in 1..Len(queue), j < i
        PROVE  j \in 1..(Len(queue) - 1) /\ from(j) = j
    BY <1>1, <2>1
  <2>2. ASSUME NEW j \in 1..Len(queue), j > i
        PROVE  j - 1 \in 1..(Len(queue) - 1) /\ from(j - 1) = j
    BY <1>1, <2>2
  <2> HIDE DEF from
  <2>3. QED BY <1>1, <2>1, <2>2
<1> HIDE DEF from
<1>5. k \in Tasks /\ \A j \in Tasks : task'[j] = IF j = k THEN state ELSE task[j]
  BY <1>1 DEF Update, TypeOK
<1>6. \A j \in 1..Len(queue) : queue[j] = k => j = i
  BY <1>1 DEF QueueExact
<1>7. ASSUME NEW t \in Tasks
      PROVE  task'[t].stage = "queued" <=> \E j \in DOMAIN queue' : queue'[j] = t
  <2>1. CASE t = k
    BY <1>1, <1>2, <1>5, <1>6, <2>1
  <2>2. CASE t # k
    <3>1. task'[t] = task[t]
      BY <1>5, <2>2
    <3>2. ASSUME task[t].stage = "queued"
          PROVE  \E j \in DOMAIN queue' : queue'[j] = t
      <4>1. PICK j \in 1..Len(queue) : queue[j] = t
        BY <1>1, <3>2 DEF QueueExact
      <4>2. PICK l \in 1..(Len(queue) - 1) : from(l) = j
        BY <1>4, <2>2, <4>1
      <4>3. QED BY <1>2, <4>1, <4>2
    <3>3. ASSUME NEW j \in DOMAIN queue', queue'[j] = t
          PROVE  task[t].stage = "queued"
      BY <1>1, <1>2, <3>3 DEF QueueExact
    <3>4. QED BY <3>1, <3>2, <3>3
  <2>3. QED BY <2>1, <2>2
<1>8. \A j, l \in DOMAIN queue' : queue'[j] = queue'[l] => j = l
  BY <1>1, <1>2, <1>3 DEF QueueExact
<1>9. QED BY <1>7, <1>8 DEF QueueExact

(* Every step keeps the queue exact.                                       *)
LEMMA NextQueue == TypeOK /\ QueueExact /\ [Next]_vars => QueueExact'
<1> SUFFICES ASSUME TypeOK, QueueExact, [Next]_vars PROVE QueueExact'
  OBVIOUS
<1>0. Idle.stage # "queued"
  BY TaskType
<1>1. ASSUME NEW k \in Tasks, NEW t \in Tools, Begin(k, t) PROVE QueueExact'
  <2>1. At(t, IF t \in Cacheable THEN "lookup" ELSE "gate").stage # "queued"
    BY DEF At
  <2>2. QED BY <1>1, <2>1, QueueKeep DEF Begin
<1>2. ASSUME NEW k \in Tasks, Lookup(k) PROVE QueueExact'
  <2>1. [task[k] EXCEPT !.stage = "gate"].stage # "queued"
    BY DEF TypeOK, TaskState
  <2>2. QED BY <1>0, <1>2, <2>1, QueueKeep DEF Lookup, Stage
<1>3. ASSUME NEW k \in Tasks, Gate(k) PROVE QueueExact'
  <2>1. \A p \in BOOLEAN :
          LET state == [task[k] EXCEPT !.stage = "queued", !.probe = p]
          IN  state \in TaskState /\ state.stage = "queued"
    BY ZenonT(40) DEF TypeOK, TaskState, Stages
  <2>2. CASE queue' = queue /\ Update(k, Idle)
    BY <1>0, <1>3, <2>2, QueueKeep DEF Gate
  <2>3. CASE /\ queue' = Append(queue, k)
             /\ \E p \in BOOLEAN : Update(k, [task[k] EXCEPT !.stage = "queued", !.probe = p])
    BY <1>3, <2>1, <2>3, QueueAppend DEF Gate
  <2>4. QED BY <1>3, <2>2, <2>3 DEF Gate
<1>4. ASSUME NEW k \in Tasks, AcquireSlot(k) PROVE QueueExact'
  <2>1. /\ 1 \in DOMAIN queue
        /\ queue[1] = k
        /\ DOMAIN queue' = 1..(Len(queue) - 1)
        /\ \A j \in DOMAIN queue' : queue'[j] = queue[IF j < 1 THEN j ELSE j + 1]
    <3>1. /\ queue \in Seq(Tasks) /\ queue # <<>>
          /\ Head(queue) = k /\ queue' = Tail(queue)
      BY <1>4 DEF AcquireSlot, TypeOK
    <3>2. Len(queue) \in Nat \ {0} /\ DOMAIN queue = 1..Len(queue) /\ queue[1] = k
      BY <3>1
    <3>3. /\ Tail(queue) \in Seq(Tasks)
          /\ Len(Tail(queue)) = Len(queue) - 1
          /\ \A j \in 1..(Len(queue) - 1) : Tail(queue)[j] = queue[j + 1]
      BY <3>1, <3>2
    <3>4. DOMAIN queue' = 1..(Len(queue) - 1)
      BY <3>1, <3>3
    <3>5. \A j \in DOMAIN queue' : queue'[j] = queue[IF j < 1 THEN j ELSE j + 1]
      BY <3>1, <3>3, <3>4
    <3>6. QED BY <3>2, <3>1, <3>4, <3>5
  <2>2. [task[k] EXCEPT !.stage = "called", !.served = FALSE].stage # "queued"
    BY DEF TypeOK, TaskState
  <2>3. QED BY <1>4, <2>1, <2>2, QueueRemove DEF AcquireSlot
<1>5. ASSUME NEW k \in Tasks, Serve(k) PROVE QueueExact'
  <2>1. \A n : [task[k] EXCEPT !.served = TRUE, !.seen = n].stage = task[k].stage
    BY DEF TypeOK, TaskState
  <2>2. QED BY <1>5, <2>1, QueueKeep DEF Serve
<1>6. ASSUME NEW k \in Tasks, AnswerOk(k) PROVE QueueExact'
  <2>1. PICK state \in TaskState :
          /\ Update(k, state)
          /\ queue' = IF state.stage = "queued" THEN Append(queue, k) ELSE queue
    BY <1>6, AnsweredState
  <2>2. task[k].stage # "queued"
    BY <1>6 DEF AnswerOk
  <2>3. CASE state.stage = "queued"
    BY <2>1, <2>2, <2>3, QueueAppend
  <2>4. CASE state.stage # "queued"
    BY <2>1, <2>2, <2>4, QueueKeep
  <2>5. QED BY <2>3, <2>4
<1>7. ASSUME NEW k \in Tasks, AnswerError(k) PROVE QueueExact'
  <2>1. /\ [task[k] EXCEPT !.stage = "record", !.wire = 0].stage # "queued"
        /\ [task[k] EXCEPT !.stage = "finish", !.wire = 0, !.partial = TRUE].stage # "queued"
    BY DEF TypeOK, TaskState
  <2>2. QED BY <1>7, <2>1, QueueKeep DEF AnswerError
<1>8. ASSUME NEW k \in Tasks, Record(k) PROVE QueueExact'
  <2> DEFINE after(s) == [task[k] EXCEPT !.stage = s, !.probe = FALSE, !.age = 0]
  <2>1. /\ after("queued") \in TaskState /\ after("queued").stage = "queued"
        /\ after("finish").stage # "queued"
    <3>1. task[k] \in TaskState /\ 0 \in 0..StaleAfter
      BY BreakerAssumption DEF TypeOK
    <3>2. QED BY <3>1 DEF TaskState, Stages
  <2>2. task[k].stage # "queued"
    BY <1>8 DEF Record
  <2>3. CASE queue' = queue /\ Update(k, after("finish"))
    BY <2>1, <2>2, <2>3, QueueKeep
  <2>4. CASE queue' = Append(queue, k) /\ Update(k, after("queued"))
    BY <2>1, <2>2, <2>4, QueueAppend
  <2>5. QED BY <1>8, <2>3, <2>4 DEF Record
<1>9. ASSUME NEW k \in Tasks, Store(k) PROVE QueueExact'
  BY <1>0, <1>9, QueueKeep DEF Store
<1>10. ASSUME NEW k \in Tasks, Bust(k) PROVE QueueExact'
  <2>1. \A j \in Tasks : [task[j] EXCEPT !.raced = TRUE].stage = task[j].stage
    BY DEF TypeOK, TaskState
  <2>2. \A j \in Tasks : task'[j].stage = "queued" <=> task[j].stage = "queued"
    BY <1>0, <1>10, <2>1 DEF Bust
  <2>3. queue' = queue
    BY <1>10 DEF Bust
  <2>4. QED BY <2>2, <2>3 DEF QueueExact
<1>11. ASSUME NEW k \in Tasks, LeaveQueue(k) PROVE QueueExact'
  <2>1. PICK i \in DOMAIN queue :
          /\ queue[i] = k
          /\ queue' = [j \in 1..(Len(queue) - 1) |-> queue[IF j < i THEN j ELSE j + 1]]
    BY <1>11 DEF LeaveQueue
  <2>2. Update(queue[i], Idle)
    BY <1>11, <2>1 DEF LeaveQueue
  <2>3. /\ DOMAIN queue' = 1..(Len(queue) - 1)
        /\ \A j \in DOMAIN queue' : queue'[j] = queue[IF j < i THEN j ELSE j + 1]
    BY <2>1
  <2>4. QED BY <1>0, <2>2, <2>3, QueueRemove
<1>12. ASSUME NEW k \in Tasks, HangUp(k) PROVE QueueExact'
  BY <1>0, <1>12, QueueKeep DEF HangUp
<1>13. ASSUME Tick PROVE QueueExact'
  <2>1. ASSUME NEW k \in Tasks
        PROVE  task'[k].stage = task[k].stage
    <3>1. task'[k] = [task[k] EXCEPT !.wire = IF task[k].stage = "called" THEN @ + 1 ELSE @,
                                     !.age = IF Live(k) THEN Older(@) ELSE @]
      BY <1>13 DEF Tick
    <3>2. QED BY <3>1 DEF TypeOK, TaskState
  <2>2. \A k \in Tasks : task'[k].stage = task[k].stage
    BY <2>1
  <2>3. queue' = queue
    BY <1>13 DEF Tick
  <2>4. QED BY <2>2, <2>3 DEF QueueExact
<1>14. CASE UNCHANGED <<task, queue>>
  BY <1>14 DEF QueueExact
<1>15. QED
  BY <1>1, <1>2, <1>3, <1>4, <1>5, <1>6, <1>7, <1>8, <1>9, <1>10, <1>11, <1>12, <1>13, <1>14
  DEF Next, Step, LateCommit, Relist, vars

(* Nobody waits for a slot outside the queue, and nobody is in it twice or *)
(* without waiting (Surface::upstream_slot).                               *)
THEOREM QueueIsExact == Spec => []QueueExact
<1>1. Init => QueueExact
  BY TaskType DEF Init, QueueExact
<1>2. QED BY <1>1, InitType, NextType, NextQueue, PTL DEF Spec

(* A step of one task moves a permit and a call together, or neither.      *)
LEMMA SlotTaken ==
  ASSUME TypeOK, SlotsConserved, NEW k \in Tasks,
         task[k].stage # "called", permits > 0, permits' = permits - 1,
         \A j \in Tasks : task'[j].stage = IF j = k THEN "called" ELSE task[j].stage
  PROVE  SlotsConserved'
<1>1. IsFiniteSet(OnWire) /\ k \notin OnWire /\ OnWire' = OnWire \cup {k}
  BY DispatchAssumption, FS_Subset DEF OnWire
<1>2. Cardinality(OnWire) \in Nat /\ Cardinality(OnWire') = Cardinality(OnWire) + 1
  BY <1>1, FS_CardinalityType, FS_AddElement
<1>3. QED BY <1>2 DEF SlotsConserved, TypeOK

(* A call that leaves the wire gives its slot back.                        *)
LEMMA SlotFreed ==
  ASSUME TypeOK, SlotsConserved, NEW k \in Tasks,
         task[k].stage = "called", permits' = Released(k), task'[k].stage # "called",
         \A j \in Tasks \ {k} : task'[j].stage = task[j].stage
  PROVE  SlotsConserved'
<1>1. IsFiniteSet(OnWire) /\ k \in OnWire /\ OnWire' = OnWire \ {k}
  BY DispatchAssumption, FS_Subset DEF OnWire
<1>2. Cardinality(OnWire) \in Nat /\ Cardinality(OnWire') = Cardinality(OnWire) - 1
  BY <1>1, FS_CardinalityType, FS_RemoveElement
<1>3. permits' = permits + 1
  BY DEF Released
<1>4. QED BY <1>2, <1>3 DEF SlotsConserved, TypeOK

(* A step that moves no call on or off the wire moves no slot.             *)
LEMMA SlotKept ==
  ASSUME SlotsConserved, permits' = permits,
         \A j \in Tasks : task'[j].stage = "called" <=> task[j].stage = "called"
  PROVE  SlotsConserved'
BY DEF SlotsConserved, OnWire

(* The stages after a step that updates task k.                            *)
LEMMA UpdateStage ==
  ASSUME TypeOK, NEW k \in Tasks, NEW state, Update(k, state)
  PROVE  /\ task'[k] = state
         /\ \A j \in Tasks \ {k} : task'[j] = task[j]
BY DEF Update, TypeOK

(* Every step keeps the slots.                                             *)
LEMMA NextSlots == TypeOK /\ QueueExact /\ SlotsConserved /\ [Next]_vars => SlotsConserved'
<1> SUFFICES ASSUME TypeOK, QueueExact, SlotsConserved, [Next]_vars
             PROVE  SlotsConserved'
  OBVIOUS
<1>0. Idle.stage = "idle"
  BY TaskType
<1>1. ASSUME NEW k \in Tasks, NEW t \in Tools, Begin(k, t) PROVE SlotsConserved'
  <2>1. At(t, IF t \in Cacheable THEN "lookup" ELSE "gate").stage # "called"
    BY DEF At
  <2>2. QED BY <1>1, <2>1, UpdateStage, SlotKept DEF Begin
<1>2. ASSUME NEW k \in Tasks, Lookup(k) PROVE SlotsConserved'
  <2>1. [task[k] EXCEPT !.stage = "gate"].stage # "called"
    BY DEF TypeOK, TaskState
  <2>2. QED BY <1>0, <1>2, <2>1, UpdateStage, SlotKept DEF Lookup, Stage
<1>3. ASSUME NEW k \in Tasks, Gate(k) PROVE SlotsConserved'
  <2>1. \A p \in BOOLEAN : [task[k] EXCEPT !.stage = "queued", !.probe = p].stage # "called"
    BY DEF TypeOK, TaskState
  <2>2. QED BY <1>0, <1>3, <2>1, UpdateStage, SlotKept, ZenonT(40) DEF Gate
<1>4. ASSUME NEW k \in Tasks, AcquireSlot(k) PROVE SlotsConserved'
  <2>1. [task[k] EXCEPT !.stage = "called", !.served = FALSE].stage = "called"
    BY DEF TypeOK, TaskState
  <2>2. task[k].stage = "queued"
    BY <1>4 DEF AcquireSlot, QueueExact, TypeOK
  <2>3. \A j \in Tasks : task'[j].stage = IF j = k THEN "called" ELSE task[j].stage
    <3>1. Update(k, [task[k] EXCEPT !.stage = "called", !.served = FALSE])
      BY <1>4 DEF AcquireSlot
    <3>2. task'[k].stage = "called" /\ \A j \in Tasks \ {k} : task'[j] = task[j]
      BY <2>1, <3>1, UpdateStage
    <3>3. QED BY <3>2
  <2>4. QED BY <1>4, <2>2, <2>3, SlotTaken DEF AcquireSlot
<1>5. ASSUME NEW k \in Tasks, Serve(k) PROVE SlotsConserved'
  <2>1. \A n : [task[k] EXCEPT !.served = TRUE, !.seen = n].stage = task[k].stage
    BY DEF TypeOK, TaskState
  <2>2. task'[k].stage = task[k].stage /\ \A j \in Tasks \ {k} : task'[j] = task[j]
    BY <1>5, <2>1, UpdateStage DEF Serve
  <2>3. QED BY <1>5, <2>2, SlotKept DEF Serve
<1>6. ASSUME NEW k \in Tasks, AnswerOk(k) PROVE SlotsConserved'
  <2>1. PICK state \in TaskState :
          Update(k, state) /\ state.stage \in {"record", "queued", "finish"}
    BY <1>6, AnsweredState
  <2>2. task'[k].stage # "called" /\ \A j \in Tasks \ {k} : task'[j] = task[j]
    BY <2>1, UpdateStage
  <2>3. QED BY <1>6, <2>2, SlotFreed DEF AnswerOk
<1>7. ASSUME NEW k \in Tasks, AnswerError(k) PROVE SlotsConserved'
  <2>1. /\ [task[k] EXCEPT !.stage = "record", !.wire = 0].stage # "called"
        /\ [task[k] EXCEPT !.stage = "finish", !.wire = 0, !.partial = TRUE].stage # "called"
    BY DEF TypeOK, TaskState
  <2>2. task'[k].stage # "called" /\ \A j \in Tasks \ {k} : task'[j] = task[j]
    BY <1>7, <2>1, UpdateStage DEF AnswerError
  <2>3. QED BY <1>7, <2>2, SlotFreed DEF AnswerError
<1>8. ASSUME NEW k \in Tasks, Record(k) PROVE SlotsConserved'
  <2>1. \A s \in {"queued", "finish"} :
          [task[k] EXCEPT !.stage = s, !.probe = FALSE, !.age = 0].stage # "called"
    BY DEF TypeOK, TaskState
  <2>2. task'[k].stage # "called" /\ \A j \in Tasks \ {k} : task'[j] = task[j]
    BY <1>8, <2>1, UpdateStage DEF Record
  <2>3. QED BY <1>8, <2>2, SlotKept DEF Record
<1>9. ASSUME NEW k \in Tasks, Store(k) PROVE SlotsConserved'
  BY <1>0, <1>9, UpdateStage, SlotKept DEF Store
<1>10. ASSUME NEW k \in Tasks, Bust(k) PROVE SlotsConserved'
  <2>1. \A j \in Tasks : [task[j] EXCEPT !.raced = TRUE].stage = task[j].stage
    BY DEF TypeOK, TaskState
  <2>2. \A j \in Tasks : task'[j].stage = "called" <=> task[j].stage = "called"
    BY <1>0, <1>10, <2>1 DEF Bust
  <2>3. QED BY <1>10, <2>2, SlotKept DEF Bust
<1>11. ASSUME NEW k \in Tasks, LeaveQueue(k) PROVE SlotsConserved'
  BY <1>0, <1>11, UpdateStage, SlotKept DEF LeaveQueue
<1>12. ASSUME NEW k \in Tasks, HangUp(k) PROVE SlotsConserved'
  BY <1>0, <1>12, UpdateStage, SlotFreed DEF HangUp
<1>13. ASSUME Tick PROVE SlotsConserved'
  <2>1. ASSUME NEW k \in Tasks
        PROVE  task'[k].stage = task[k].stage
    <3>1. task'[k] = [task[k] EXCEPT !.wire = IF task[k].stage = "called" THEN @ + 1 ELSE @,
                                     !.age = IF Live(k) THEN Older(@) ELSE @]
      BY <1>13 DEF Tick
    <3>2. QED BY <3>1 DEF TypeOK, TaskState
  <2>2. QED BY <1>13, <2>1, SlotKept DEF Tick
<1>14. CASE UNCHANGED <<task, permits>>
  BY <1>14, SlotKept
<1>15. QED
  BY <1>1, <1>2, <1>3, <1>4, <1>5, <1>6, <1>7, <1>8, <1>9, <1>10, <1>11, <1>12, <1>13, <1>14
  DEF Next, Step, LateCommit, Relist, vars

(* No way out of a call leaks or doubles an upstream slot.                 *)
THEOREM SlotsAreConserved == Spec => []SlotsConserved
<1>1. Init => QueueExact
  BY TaskType DEF Init, QueueExact
<1>2. Init => SlotsConserved
  <2> SUFFICES ASSUME Init PROVE SlotsConserved
    OBVIOUS
  <2>1. OnWire = {}
    BY TaskType DEF Init, OnWire
  <2>2. QED BY <2>1, FS_EmptySet, DispatchAssumption DEF Init, SlotsConserved
<1>3. QED BY <1>1, <1>2, InitType, NextType, NextQueue, NextSlots, PTL DEF Spec

----------------------------------------------------------------------------
(* What the steps that update some fields of a task leave of the others.   *)

Others(k) == \A j \in Tasks \ {k} : task'[j] = task[j]
SameCall(k) == /\ task'[k].tool = task[k].tool
               /\ task'[k].raced = task[k].raced
SameProbe(k) == task'[k].probe = task[k].probe /\ task'[k].age = task[k].age

(* What the breaker's check leaves of the task's fields.                   *)
LEMMA GateEffect ==
  ASSUME TypeOK, NEW k \in Tasks, Gate(k)
  PROVE  /\ Others(k)
         /\ \/ task'[k] = Idle
            \/ /\ task'[k].stage = "queued" /\ SameCall(k)
               /\ task'[k].age = task[k].age
               /\ task'[k].served = task[k].served /\ task'[k].page = task[k].page
               /\ task'[k].seen = task[k].seen /\ task'[k].ok = task[k].ok
               /\ LET t == task[k].tool
                  IN  task'[k].probe = (t \in Guarded /\ Decision(breaker[t]) = "probe")
<1> DEFINE verdict == IF task[k].tool \in Guarded THEN Decision(breaker[task[k].tool])
                      ELSE "allow"
           probe   == verdict = "probe"
           next    == [task[k] EXCEPT !.stage = "queued", !.probe = probe]
<1>1. Update(k, Idle) \/ Update(k, next)
  BY DEF Gate
<1>2. task'[k] \in {Idle, next} /\ Others(k)
  BY <1>1, UpdateStage DEF Others
<1>3. probe = (task[k].tool \in Guarded /\ Decision(breaker[task[k].tool]) = "probe")
  OBVIOUS
<1> HIDE DEF probe
<1>4. QED BY <1>2, <1>3, ZenonT(40) DEF TypeOK, TaskState, SameCall

(* What taking a slot leaves of them.                                      *)
LEMMA AcquireSlotEffect ==
  ASSUME TypeOK, NEW k \in Tasks, AcquireSlot(k)
  PROVE  /\ Others(k)
         /\ task'[k].stage = "called" /\ SameCall(k) /\ SameProbe(k)
         /\ task'[k].served = FALSE /\ task'[k].page = task[k].page
         /\ task'[k].seen = task[k].seen /\ task'[k].ok = task[k].ok
<1>1. task'[k] = [task[k] EXCEPT !.stage = "called", !.served = FALSE] /\ Others(k)
  BY UpdateStage DEF AcquireSlot, Others
<1>2. QED BY <1>1 DEF TypeOK, TaskState, SameCall, SameProbe

(* What being served leaves of them.                                       *)
LEMMA ServeEffect ==
  ASSUME TypeOK, NEW k \in Tasks, Serve(k)
  PROVE  /\ Others(k)
         /\ task'[k].stage = task[k].stage /\ SameCall(k) /\ SameProbe(k)
         /\ task'[k].served = TRUE /\ task'[k].page = task[k].page
         /\ task'[k].seen = IF task[k].page = 0 THEN version'[UpstreamOf[task[k].tool]]
                            ELSE task[k].seen
         /\ task'[k].ok = task[k].ok
<1> DEFINE n == IF task[k].page = 0 THEN version'[UpstreamOf[task[k].tool]]
                ELSE task[k].seen
<1>1. task'[k] = [task[k] EXCEPT !.served = TRUE, !.seen = n] /\ Others(k)
  <2>1. [task[k] EXCEPT !.served = TRUE,
                        !.seen = IF task[k].page = 0 THEN version'[UpstreamOf[task[k].tool]]
                                 ELSE @]
          = [task[k] EXCEPT !.served = TRUE, !.seen = n]
    BY DEF TypeOK, TaskState
  <2>2. QED BY <2>1, UpdateStage DEF Serve, Others
<1> HIDE DEF n
<1>2. /\ task'[k].stage = task[k].stage /\ SameCall(k) /\ SameProbe(k)
      /\ task'[k].served = TRUE /\ task'[k].page = task[k].page
      /\ task'[k].seen = n /\ task'[k].ok = task[k].ok
  BY <1>1 DEF TypeOK, TaskState, SameCall, SameProbe
<1>3. QED BY <1>1, <1>2 DEF n

(* What a good answer leaves of them.                                      *)
LEMMA AnswerOkEffect ==
  ASSUME TypeOK, NEW k \in Tasks, AnswerOk(k)
  PROVE  /\ Others(k)
         /\ task'[k].stage \in {"record", "queued", "finish"} /\ SameCall(k) /\ SameProbe(k)
         /\ task'[k].served = task[k].served /\ task'[k].page > 0
         /\ task'[k].seen = task[k].seen
<1>1. PICK state \in TaskState :
        /\ Update(k, state)
        /\ state.said \in Says(task[k].tool, task[k].page)
        /\ state.page = IF state.said = "empty" THEN task[k].page ELSE task[k].page + 1
        /\ state.stage \in {"record", "queued", "finish"}
        /\ state.tool = task[k].tool /\ state.raced = task[k].raced
        /\ state.probe = task[k].probe /\ state.age = task[k].age
        /\ state.served = task[k].served /\ state.seen = task[k].seen
  BY AnsweredState
<1>2. task'[k] = state /\ Others(k)
  BY <1>1, UpdateStage DEF Others
<1>3. state.page > 0
  <2>1. task[k].page \in Nat
    BY DEF TypeOK, TaskState
  <2>2. task[k].page = 0 => state.said # "empty"
    BY <1>1 DEF Says
  <2>3. QED BY <1>1, <2>1, <2>2
<1>4. QED BY <1>1, <1>2, <1>3 DEF SameCall, SameProbe

(* What a failure leaves of them.                                          *)
LEMMA AnswerErrorEffect ==
  ASSUME TypeOK, NEW k \in Tasks, AnswerError(k)
  PROVE  /\ Others(k)
         /\ task'[k].stage \in {"record", "finish"} /\ SameCall(k) /\ SameProbe(k)
         /\ task'[k].served = task[k].served /\ task'[k].page = task[k].page
         /\ task'[k].seen = task[k].seen /\ task'[k].ok = task[k].ok
<1> DEFINE first == [task[k] EXCEPT !.stage = "record", !.wire = 0]
           later == [task[k] EXCEPT !.stage = "finish", !.wire = 0, !.partial = TRUE]
<1>1. task'[k] \in {first, later} /\ Others(k)
  BY UpdateStage DEF AnswerError, Others
<1>2. QED BY <1>1 DEF TypeOK, TaskState, SameCall, SameProbe

(* What reporting to the breaker leaves of them.                           *)
LEMMA RecordEffect ==
  ASSUME TypeOK, NEW k \in Tasks, Record(k)
  PROVE  /\ Others(k)
         /\ task'[k].stage \in {"queued", "finish"} /\ SameCall(k)
         /\ task'[k].stage = "queued" => task[k].ok
         /\ task'[k].probe = FALSE
         /\ task'[k].served = task[k].served /\ task'[k].page = task[k].page
         /\ task'[k].seen = task[k].seen /\ task'[k].ok = task[k].ok
<1> DEFINE after(s) == [task[k] EXCEPT !.stage = s, !.probe = FALSE, !.age = 0]
<1>1. (Update(k, after("queued")) /\ task[k].ok) \/ Update(k, after("finish"))
  BY DEF Record
<1>2. /\ Others(k)
      /\ (task'[k] = after("queued") /\ task[k].ok) \/ task'[k] = after("finish")
  BY <1>1, UpdateStage DEF Others
<1>3. CASE task'[k] = after("queued") /\ task[k].ok
  BY <1>2, <1>3 DEF TypeOK, TaskState, SameCall
<1>4. CASE task'[k] = after("finish")
  BY <1>2, <1>4 DEF TypeOK, TaskState, SameCall
<1>5. QED BY <1>2, <1>3, <1>4

(* What a write's bust leaves of every task's fields.                      *)
LEMMA BustEffect ==
  ASSUME TypeOK, NEW k \in Tasks, Bust(k), NEW j \in Tasks \ {k}
  PROVE  /\ task'[j].stage = task[j].stage /\ task'[j].tool = task[j].tool /\ SameProbe(j)
         /\ task'[j].served = task[j].served /\ task'[j].page = task[j].page
         /\ task'[j].seen = task[j].seen /\ task'[j].ok = task[j].ok
         /\ task'[j].raced =
              (task[j].raced \/ (Reading(j) /\ UpstreamOf[task[j].tool]
                                                 = UpstreamOf[task[k].tool]))
<1>1. task'[j] = IF Reading(j) /\ UpstreamOf[task[j].tool] = UpstreamOf[task[k].tool]
                 THEN [task[j] EXCEPT !.raced = TRUE] ELSE task[j]
  BY DEF Bust
<1>2. QED BY <1>1 DEF TypeOK, TaskState, SameProbe

(* What a tick leaves of every task's fields.                              *)
LEMMA TickEffect ==
  ASSUME TypeOK, Tick, NEW k \in Tasks
  PROVE  /\ task'[k].stage = task[k].stage /\ SameCall(k)
         /\ task'[k].probe = task[k].probe
         /\ task'[k].age = IF Live(k) THEN Older(task[k].age) ELSE task[k].age
         /\ task'[k].served = task[k].served /\ task'[k].page = task[k].page
         /\ task'[k].seen = task[k].seen /\ task'[k].ok = task[k].ok
<1> DEFINE wire == IF task[k].stage = "called" THEN task[k].wire + 1 ELSE task[k].wire
           age  == IF Live(k) THEN Older(task[k].age) ELSE task[k].age
<1>1. task'[k] = [task[k] EXCEPT !.wire = wire, !.age = age]
  BY DEF Tick
<1> HIDE DEF wire, age
<1>2. /\ task'[k].stage = task[k].stage /\ SameCall(k) /\ task'[k].probe = task[k].probe
      /\ task'[k].age = age
      /\ task'[k].served = task[k].served /\ task'[k].page = task[k].page
      /\ task'[k].seen = task[k].seen /\ task'[k].ok = task[k].ok
  BY <1>1 DEF TypeOK, TaskState, SameCall
<1>3. QED BY <1>2 DEF age

----------------------------------------------------------------------------
(* One probe at a time.  The breaker and the probe's task measure the same *)
(* age: while the task's is below STALE_PROBE_AFTER so is the breaker's,   *)
(* and check refuses a second probe.                                       *)

FreshTasks ==
  \A k \in Tasks : task[k].stage \in {"lookup", "gate"} => task[k].age = 0

ProbeTimed(t) ==
  \A k \in LiveProbes(t) :
    /\ task[k].age < StaleAfter
    /\ breaker[t].probeAge = task[k].age
    /\ \A j \in LiveProbes(t) : j = k

ProbesTimed == \A t \in Guarded \ overrun : ProbeTimed(t)

(* A task waiting at the gate or before it holds no probe.                 *)
LEMMA NextFresh == TypeOK /\ FreshTasks /\ [Next]_vars => FreshTasks'
<1> SUFFICES ASSUME TypeOK, FreshTasks, [Next]_vars, NEW x \in Tasks,
                    task'[x].stage \in {"lookup", "gate"}
             PROVE  task'[x].age = 0
  BY DEF FreshTasks
<1>0. Idle.stage = "idle"
  BY TaskType
<1>1. ASSUME NEW k \in Tasks, NEW t \in Tools, Begin(k, t) PROVE task'[x].age = 0
  BY <1>1, UpdateStage DEF Begin, At, FreshTasks
<1>2. ASSUME NEW k \in Tasks, Lookup(k) PROVE task'[x].age = 0
  <2>1. [task[k] EXCEPT !.stage = "gate"].age = task[k].age /\ task[k].stage = "lookup"
    BY <1>2 DEF Lookup, TypeOK, TaskState
  <2>2. /\ Others(k)
        /\ task'[k] = Idle \/ task'[k] = [task[k] EXCEPT !.stage = "gate"]
    BY <1>2, UpdateStage DEF Lookup, Stage, Others
  <2>3. QED BY <1>0, <2>1, <2>2 DEF Others, FreshTasks
<1>3. ASSUME NEW k \in Tasks, Gate(k) PROVE task'[x].age = 0
  BY <1>0, <1>3, GateEffect DEF Others, FreshTasks
<1>4. ASSUME NEW k \in Tasks, AcquireSlot(k) PROVE task'[x].age = 0
  BY <1>4, AcquireSlotEffect DEF Others, FreshTasks
<1>5. ASSUME NEW k \in Tasks, Serve(k) PROVE task'[x].age = 0
  BY <1>5, ServeEffect, ZenonT(40) DEF Others, SameProbe, FreshTasks
<1>6. ASSUME NEW k \in Tasks, AnswerOk(k) PROVE task'[x].age = 0
  BY <1>6, AnswerOkEffect DEF Others, FreshTasks
<1>7. ASSUME NEW k \in Tasks, AnswerError(k) PROVE task'[x].age = 0
  BY <1>7, AnswerErrorEffect DEF Others, FreshTasks
<1>8. ASSUME NEW k \in Tasks, Record(k) PROVE task'[x].age = 0
  BY <1>8, RecordEffect DEF Others, FreshTasks
<1>9. ASSUME NEW k \in Tasks, Update(k, Idle) PROVE task'[x].age = 0
  BY <1>0, <1>9, UpdateStage DEF FreshTasks
<1>10. ASSUME NEW k \in Tasks, Bust(k) PROVE task'[x].age = 0
  <2>1. task'[k].stage = "idle"
    BY <1>0, <1>10 DEF Bust
  <2>2. QED BY <1>10, <2>1, BustEffect DEF SameProbe, FreshTasks
<1>11. ASSUME Tick PROVE task'[x].age = 0
  BY <1>11, TickEffect DEF FreshTasks, Live
<1>12. CASE UNCHANGED task
  BY <1>12 DEF FreshTasks
<1>13. QED
  BY <1>1, <1>2, <1>3, <1>4, <1>5, <1>6, <1>7, <1>8, <1>9, <1>10, <1>11, <1>12
  DEF Next, Step, Store, LeaveQueue, HangUp, LateCommit, Relist, vars

(* A step of task k that claims no probe of t and leaves its breaker's     *)
(* probe alone.                                                            *)
LEMMA ProbeKept ==
  ASSUME NEW t \in Tools, ProbeTimed(t), NEW k \in Tasks, Others(k),
         breaker'[t].probeAge = breaker[t].probeAge,
         k \in LiveProbes(t)' => k \in LiveProbes(t) /\ task'[k].age = task[k].age
  PROVE  ProbeTimed(t)'
<1>1. \A j \in LiveProbes(t)' : j \in LiveProbes(t) /\ task'[j].age = task[j].age
  BY DEF LiveProbes, Live, Others
<1>2. QED BY <1>1 DEF ProbeTimed

(* Every step keeps one probe at a time and its age with the breaker.      *)
LEMMA NextProbe ==
  TypeOK /\ QueueExact /\ FreshTasks /\ ProbesTimed /\ [Next]_vars => ProbesTimed'
<1> SUFFICES ASSUME TypeOK, QueueExact, FreshTasks, ProbesTimed, [Next]_vars,
                    NEW t \in Guarded \ overrun'
             PROVE  ProbeTimed(t)'
  BY DEF ProbesTimed
<1>a. overrun \subseteq overrun'
  BY DEF Next, Step, Begin, Lookup, Gate, AcquireSlot, Serve, AnswerOk, AnswerError, Record,
         Store, Bust, LeaveQueue, HangUp, LateCommit, Relist, Tick, vars
<1>b. t \in Tools /\ t \in Guarded /\ ProbeTimed(t)
  BY <1>a, DispatchAssumption DEF ProbesTimed
<1>c. Idle.stage = "idle"
  BY TaskType
<1>1. ASSUME NEW k \in Tasks, NEW x \in Tools, Begin(k, x) PROVE ProbeTimed(t)'
  <2>1. Others(k) /\ task'[k].stage \notin {"queued", "called", "record"}
    BY <1>1, UpdateStage DEF Begin, At, Others
  <2>2. QED BY <1>b, <1>1, <2>1, ProbeKept DEF Begin, LiveProbes, Live
<1>2. ASSUME NEW k \in Tasks, Lookup(k) PROVE ProbeTimed(t)'
  <2>1. [task[k] EXCEPT !.stage = "gate"].stage = "gate"
    BY DEF TypeOK, TaskState
  <2>2. Others(k) /\ task'[k].stage \notin {"queued", "called", "record"}
    BY <1>c, <1>2, <2>1, UpdateStage DEF Lookup, Stage, Others
  <2>3. QED BY <1>b, <1>2, <2>2, ProbeKept DEF Lookup, LiveProbes, Live
<1>3. ASSUME NEW k \in Tasks, Gate(k) PROVE ProbeTimed(t)'
  <2> DEFINE x == task[k].tool
  <2>0. breaker' = IF x \in Guarded THEN [breaker EXCEPT ![x] = Checked(breaker[x])]
                   ELSE breaker
    BY <1>3 DEF Gate
  <2>1. CASE t # x \/ Decision(breaker[t]) # "probe"
    <3>1. breaker'[t] = breaker[t]
      BY <1>b, <2>0, <2>1 DEF Checked, TypeOK
    <3>2. Others(k) /\ k \notin LiveProbes(t)'
      <4>1. CASE task'[k] = Idle
        BY <1>c, <1>3, <4>1, GateEffect DEF LiveProbes, Live
      <4>2. CASE task'[k] # Idle
        <5>1. /\ Others(k) /\ task'[k].tool = x
              /\ task'[k].probe = (x \in Guarded /\ Decision(breaker[x]) = "probe")
          BY <1>3, <4>2, GateEffect DEF SameCall
        <5>2. QED BY <1>b, <2>1, <5>1 DEF LiveProbes, Live
      <4>3. QED BY <4>1, <4>2
    <3>3. QED BY <1>b, <3>1, <3>2, ProbeKept
  <2>2. CASE t = x /\ Decision(breaker[t]) = "probe"
    <3>1. LiveProbes(t) = {}
      <4>1. ASSUME NEW j \in LiveProbes(t) PROVE breaker[t].probeAge \in 0..(StaleAfter - 1)
        BY <1>b, BreakerAssumption DEF ProbeTimed, LiveProbes, TypeOK, TaskState
      <4>2. breaker[t].probeAge \notin 0..(StaleAfter - 1)
        BY <2>2 DEF Decision
      <4>3. QED BY <4>1, <4>2
    <3>2. LiveProbes(t)' \subseteq {k}
      BY <1>3, <3>1, GateEffect DEF LiveProbes, Live, Others
    <3>3. breaker'[t].probeAge = 0
      <4>1. breaker'[t] = [breaker[t] EXCEPT !.probeAge = 0]
        BY <1>b, <2>0, <2>2 DEF Checked, TypeOK
      <4>2. QED BY <1>b, <4>1 DEF TypeOK, BreakerState
    <3>4. k \in LiveProbes(t)' => task'[k].age = 0
      BY <1>c, <1>3, GateEffect DEF LiveProbes, Live, FreshTasks, Gate
    <3>5. QED BY <3>2, <3>3, <3>4, BreakerAssumption DEF ProbeTimed
  <2>3. QED BY <2>1, <2>2
<1>4. ASSUME NEW k \in Tasks, AcquireSlot(k) PROVE ProbeTimed(t)'
  <2>1. task[k].stage = "queued"
    BY <1>4 DEF AcquireSlot, QueueExact, TypeOK
  <2>2. Others(k) /\ k \in LiveProbes(t)' => k \in LiveProbes(t) /\ task'[k].age = task[k].age
    BY <1>4, <2>1, AcquireSlotEffect DEF LiveProbes, Live, SameCall, SameProbe
  <2>3. QED BY <1>b, <1>4, <2>2, AcquireSlotEffect, ProbeKept DEF AcquireSlot
<1>5. ASSUME NEW k \in Tasks, Serve(k) PROVE ProbeTimed(t)'
  <2>1. k \in LiveProbes(t)' => k \in LiveProbes(t) /\ task'[k].age = task[k].age
    BY <1>5, ServeEffect DEF LiveProbes, Live, SameCall, SameProbe
  <2>2. QED BY <1>b, <1>5, <2>1, ServeEffect, ProbeKept DEF Serve
<1>6. ASSUME NEW k \in Tasks, AnswerOk(k) PROVE ProbeTimed(t)'
  <2>1. k \in LiveProbes(t)' => k \in LiveProbes(t) /\ task'[k].age = task[k].age
    BY <1>6, AnswerOkEffect DEF AnswerOk, LiveProbes, Live, SameCall, SameProbe
  <2>2. QED BY <1>b, <1>6, <2>1, AnswerOkEffect, ProbeKept DEF AnswerOk
<1>7. ASSUME NEW k \in Tasks, AnswerError(k) PROVE ProbeTimed(t)'
  <2>1. k \in LiveProbes(t)' => k \in LiveProbes(t) /\ task'[k].age = task[k].age
    BY <1>7, AnswerErrorEffect DEF AnswerError, LiveProbes, Live, SameCall, SameProbe
  <2>2. QED BY <1>b, <1>7, <2>1, AnswerErrorEffect, ProbeKept DEF AnswerError
<1>8. ASSUME NEW k \in Tasks, Record(k) PROVE ProbeTimed(t)'
  <2>0. Others(k) /\ k \notin LiveProbes(t)'
    BY <1>8, RecordEffect DEF LiveProbes, Live
  <2>1. CASE k \in LiveProbes(t)
    <3>1. LiveProbes(t)' = {}
      BY <1>b, <2>0, <2>1 DEF ProbeTimed, LiveProbes, Live, Others
    <3>2. QED BY <3>1 DEF ProbeTimed
  <2>2. CASE k \notin LiveProbes(t)
    <3>1. breaker'[t].probeAge = breaker[t].probeAge
      <4>1. CASE task[k].tool # t
        BY <1>b, <1>8, <4>1 DEF Record, TypeOK
      <4>2. CASE task[k].tool = t
        <5>1. task[k].probe = FALSE
          BY <1>8, <2>2, <4>2 DEF LiveProbes, Live, Record, TypeOK, TaskState
        <5>2. breaker'[t] = AfterResult(breaker[t], ~task[k].ok, FALSE)
          BY <1>b, <1>8, <4>2, <5>1 DEF Record, TypeOK
        <5>3. QED BY <5>2 DEF AfterResult
      <4>3. QED BY <4>1, <4>2
    <3>2. QED BY <1>b, <2>0, <3>1, ProbeKept
  <2>3. QED BY <2>1, <2>2
<1>9. ASSUME NEW k \in Tasks, Update(k, Idle), breaker' = breaker PROVE ProbeTimed(t)'
  <2>1. Others(k) /\ k \notin LiveProbes(t)'
    BY <1>c, <1>9, UpdateStage DEF Others, LiveProbes, Live
  <2>2. QED BY <1>b, <1>9, <2>1, ProbeKept
<1>10. ASSUME NEW k \in Tasks, Bust(k) PROVE ProbeTimed(t)'
  <2>1. k \notin LiveProbes(t)'
    BY <1>c, <1>10 DEF Bust, LiveProbes, Live
  <2>2. \A j \in LiveProbes(t)' : j \in LiveProbes(t) /\ task'[j].age = task[j].age
    BY <1>10, <2>1, BustEffect DEF LiveProbes, Live, SameProbe
  <2>3. QED BY <1>b, <1>10, <2>2 DEF Bust, ProbeTimed
<1>11. ASSUME Tick PROVE ProbeTimed(t)'
  <2>1. LiveProbes(t)' = LiveProbes(t)
    BY <1>11, TickEffect DEF LiveProbes, Live, SameCall
  <2>2. ASSUME NEW k \in LiveProbes(t)
        PROVE  /\ task[k].age \in Nat
               /\ task[k].age + 1 < StaleAfter
               /\ task'[k].age = Older(task[k].age)
               /\ breaker'[t].probeAge = Older(task[k].age)
    <3>1. k \in Tasks /\ Live(k) /\ task[k].age \in Nat
      BY DEF LiveProbes, TypeOK, TaskState
    <3>2. task[k].age + 1 < StaleAfter
      <4>1. t \notin {x \in Tools : \E j \in LiveProbes(x) : task[j].age + 1 >= StaleAfter}
        BY <1>11 DEF Tick
      <4>2. ~(task[k].age + 1 >= StaleAfter)
        BY <1>b, <4>1
      <4>3. QED BY <3>1, <4>2, BreakerAssumption
    <3>3. task'[k].age = Older(task[k].age)
      BY <1>11, <3>1, TickEffect
    <3>4. breaker'[t].probeAge = Older(breaker[t].probeAge)
      BY <1>b, <1>11 DEF Tick, Elapse
    <3>5. QED BY <1>b, <3>1, <3>2, <3>3, <3>4 DEF ProbeTimed
  <2>3. \A k \in LiveProbes(t) : Older(task[k].age) < StaleAfter
    BY <2>2, BreakerAssumption DEF Older
  <2>4. QED BY <1>b, <2>1, <2>2, <2>3 DEF ProbeTimed
<1>12. CASE UNCHANGED <<task, breaker>>
  BY <1>b, <1>12 DEF ProbeTimed, LiveProbes, Live
<1>13. QED
  BY <1>1, <1>2, <1>3, <1>4, <1>5, <1>6, <1>7, <1>8, <1>9, <1>10, <1>11, <1>12
  DEF Next, Step, Store, LeaveQueue, HangUp, LateCommit, Relist, vars

(* Until a probe has been out for STALE_PROBE_AFTER, a tool has at most    *)
(* one probe in flight (BreakerState::check).                            *)
THEOREM AtMostOneProbe == Spec => []OneProbe
<1>1. Init => QueueExact /\ FreshTasks /\ ProbesTimed
  BY TaskType DEF Init, QueueExact, FreshTasks, ProbesTimed, ProbeTimed, LiveProbes, Live
<1>2. ProbesTimed => OneProbe
  BY DEF ProbesTimed, ProbeTimed, OneProbe
<1>3. QED
  BY <1>1, <1>2, InitType, NextType, NextQueue, NextFresh, NextProbe, PTL DEF Spec

----------------------------------------------------------------------------
(* Stale reads.  A read holds a version no older than the last settled     *)
(* write unless a bust has marked it, what is cached is what a read that   *)
(* did take place returned, and a task that has not been on the wire has   *)
(* had nothing carried out.                                                *)

Unsent(k) ==
  /\ task[k].stage \in {"idle", "lookup", "gate"} => task[k].page = 0
  /\ task[k].stage \in {"idle", "lookup", "gate", "queued"} /\ task[k].page = 0
       => ~task[k].served

ReadSound(k) ==
  /\ Unsent(k)
  /\ task[k].ok => task[k].page > 0
  /\ Reading(k) /\ task[k].seen < settled[UpstreamOf[task[k].tool]] => task[k].raced

ReadsSound ==
  /\ \A u \in Upstreams : settled[u] <= version[u]
  /\ \A k \in Tasks : ReadSound(k)

(* An idle task has read nothing.                                          *)
LEMMA IdleSound ==
  ASSUME NEW k, task'[k].ok = FALSE, task'[k].served = FALSE, task'[k].page = 0
  PROVE  ReadSound(k)'
BY DEF ReadSound, Unsent, Reading, Carried

(* A step of task k that settles no write.                                 *)
LEMMA ReadsKept ==
  ASSUME TypeOK, ReadsSound, NEW k \in Tasks, Others(k), ReadSound(k)',
         version' = version, settled' = settled
  PROVE  ReadsSound'
<1>1. \A j \in Tasks : ReadSound(j)'
  BY DEF ReadsSound, ReadSound, Unsent, Reading, Carried, Others
<1>2. QED BY <1>1 DEF ReadsSound

(* Every step keeps what tasks and cache have read sound.                  *)
LEMMA NextReads == TypeOK /\ ReadsSound /\ [Next]_vars => ReadsSound'
<1> SUFFICES ASSUME TypeOK, ReadsSound, [Next]_vars PROVE ReadsSound'
  OBVIOUS
<1>a. /\ Idle.ok = FALSE /\ Idle.served = FALSE /\ Idle.page = 0
      /\ \A t, s : At(t, s).ok = FALSE /\ At(t, s).served = FALSE /\ At(t, s).page = 0
  BY DEF Idle, At
<1>b. \A k \in Tasks : /\ ReadSound(k) /\ task[k].page \in Nat /\ task[k].ok \in BOOLEAN
                       /\ task[k].raced \in BOOLEAN
                       /\ UpstreamOf[task[k].tool] \in Upstreams
  BY DispatchAssumption DEF ReadsSound, TypeOK, TaskState
<1>1. ASSUME NEW k \in Tasks, NEW t \in Tools, Begin(k, t) PROVE ReadsSound'
  <2>1. Others(k) /\ \E s : task'[k] = At(t, s)
    BY <1>1, UpdateStage DEF Begin, Others
  <2>2. ReadSound(k)'
    BY <1>a, <2>1, IdleSound
  <2>3. QED BY <1>1, <2>1, <2>2, ReadsKept DEF Begin
<1>2. ASSUME NEW k \in Tasks, Lookup(k) PROVE ReadsSound'
  <2>1. /\ Others(k)
        /\ task'[k] = Idle \/ task'[k] = [task[k] EXCEPT !.stage = "gate"]
    BY <1>2, UpdateStage DEF Lookup, Stage, Others
  <2>2. CASE task'[k] = Idle
    BY <1>a, <1>2, <2>1, <2>2, IdleSound, ReadsKept DEF Lookup
  <2>3. CASE task'[k] = [task[k] EXCEPT !.stage = "gate"]
    <3>1. /\ task'[k].ok = task[k].ok /\ task'[k].page = task[k].page
          /\ task'[k].served = task[k].served /\ task'[k].seen = task[k].seen
          /\ SameCall(k)
      BY <2>3 DEF TypeOK, TaskState, SameCall
    <3>2. ReadSound(k)'
      BY <1>b, <1>2, <3>1 DEF ReadSound, Unsent, Reading, Carried, SameCall, Lookup
    <3>3. QED BY <1>2, <2>1, <3>2, ReadsKept DEF Lookup
  <2>4. QED BY <2>1, <2>2, <2>3
<1>3. ASSUME NEW k \in Tasks, Gate(k) PROVE ReadsSound'
  <2>1. Others(k) /\ version' = version /\ settled' = settled
    BY <1>3, GateEffect DEF Gate
  <2>2. CASE task'[k] = Idle
    BY <1>a, <2>1, <2>2, IdleSound, ReadsKept
  <2>3. CASE task'[k] # Idle
    <3>1. /\ task[k].stage = "gate" /\ SameCall(k)
          /\ task'[k].served = task[k].served /\ task'[k].page = task[k].page
          /\ task'[k].seen = task[k].seen /\ task'[k].ok = task[k].ok
      BY <1>3, <2>3, GateEffect DEF Gate
    <3>2. ReadSound(k)'
      BY <1>b, <2>1, <3>1 DEF ReadSound, Unsent, Reading, Carried, SameCall
    <3>3. QED BY <2>1, <3>2, ReadsKept
  <2>4. QED BY <2>2, <2>3
<1>4. ASSUME NEW k \in Tasks, AcquireSlot(k) PROVE ReadsSound'
  <2>1. version' = version /\ settled' = settled
    BY <1>4 DEF AcquireSlot
  <2>2. Others(k) /\ ReadSound(k)'
    BY <1>b, <1>4, <2>1, AcquireSlotEffect DEF ReadSound, Unsent, Reading, Carried, SameCall
  <2>3. QED BY <2>1, <2>2, ReadsKept
<1>5. ASSUME NEW k \in Tasks, Serve(k) PROVE ReadsSound'
  <2> DEFINE u == UpstreamOf[task[k].tool]
  <2>1. settled' = settled /\ \A x \in Upstreams : settled[x] <= version'[x]
    <3>1. /\ settled' = settled
          /\ version' = version \/ version' = [version EXCEPT ![u] = @ + 1]
      BY <1>5 DEF Serve
    <3>2. version \in [Upstreams -> Nat] /\ settled \in [Upstreams -> Nat]
      BY DEF TypeOK
    <3>3. QED BY <3>1, <3>2 DEF ReadsSound
  <2>2. ReadSound(k)'
    <3>0. Unsent(k)'
      BY <1>5, ServeEffect DEF Serve, Unsent
    <3>1. CASE task[k].page = 0
      <4>1. task'[k].seen = version'[u] /\ settled'[u] <= version'[u]
            /\ UpstreamOf[task'[k].tool] = u
        BY <1>b, <1>5, <2>1, <3>1, ServeEffect DEF SameCall
      <4>2. settled'[u] \in Nat /\ version'[u] \in Nat
        BY <1>b, <1>5, NextType DEF TypeOK, Next
      <4>3. task'[k].ok => task'[k].page > 0
        BY <1>b, <1>5, ServeEffect DEF ReadSound
      <4>4. ~(task'[k].seen < settled'[UpstreamOf[task'[k].tool]])
        BY <4>1, <4>2
      <4>5. QED BY <3>0, <4>3, <4>4 DEF ReadSound
    <3>2. CASE task[k].page # 0
      <4>1. /\ task[k].page > 0 /\ task'[k].page = task[k].page
            /\ task'[k].seen = task[k].seen /\ task'[k].ok = task[k].ok
            /\ task'[k].tool = task[k].tool /\ task'[k].raced = task[k].raced
        <5>1. task[k].page > 0
          BY <1>b, <3>2
        <5>2. QED BY <1>5, <3>2, <5>1, ServeEffect DEF SameCall
      <4>2. QED BY <1>b, <2>1, <3>0, <4>1 DEF ReadSound, Reading, Carried
    <3>3. QED BY <3>1, <3>2
  <2>3. \A j \in Tasks : ReadSound(j)'
    <3>1. ASSUME NEW j \in Tasks \ {k} PROVE ReadSound(j)'
      <4>1. task'[j] = task[j]
        BY <1>5, ServeEffect DEF Others
      <4>2. ReadSound(j)
        BY <1>b
      <4>3. QED BY <2>1, <4>1, <4>2 DEF ReadSound, Unsent, Reading, Carried
    <3>2. QED BY <2>2, <3>1
  <2>4. QED BY <2>1, <2>3 DEF ReadsSound
<1>6. ASSUME NEW k \in Tasks, AnswerOk(k) PROVE ReadsSound'
  <2>1. version' = version /\ settled' = settled /\ task[k].served
    BY <1>6 DEF AnswerOk
  <2>2. Others(k) /\ ReadSound(k)'
    BY <1>b, <1>6, <2>1, AnswerOkEffect DEF ReadSound, Unsent, Reading, Carried, SameCall
  <2>3. QED BY <2>1, <2>2, ReadsKept
<1>7. ASSUME NEW k \in Tasks, AnswerError(k) PROVE ReadsSound'
  <2>1. version' = version /\ settled' = settled
    BY <1>7 DEF AnswerError
  <2>2. Others(k) /\ ReadSound(k)'
    BY <1>b, <1>7, <2>1, AnswerErrorEffect DEF ReadSound, Unsent, Reading, Carried, SameCall
  <2>3. QED BY <2>1, <2>2, ReadsKept
<1>8. ASSUME NEW k \in Tasks, Record(k) PROVE ReadsSound'
  <2>1. version' = version /\ settled' = settled
    BY <1>8 DEF Record
  <2>2. /\ Others(k) /\ SameCall(k)
        /\ task'[k].served = task[k].served /\ task'[k].page = task[k].page
        /\ task'[k].seen = task[k].seen /\ task'[k].ok = task[k].ok
    BY <1>8, RecordEffect
  <2>3. Unsent(k)'
    <3>1. /\ task'[k].stage \in {"queued", "finish"}
          /\ task'[k].stage = "queued" => task[k].ok
      BY <1>8, RecordEffect
    <3>2. task[k].ok => task[k].page # 0
      BY <1>b DEF ReadSound
    <3>3. QED BY <2>2, <3>1, <3>2 DEF Unsent
  <2>4. ReadSound(k)'
    BY <1>b, <2>1, <2>2, <2>3 DEF ReadSound, Reading, Carried, SameCall
  <2>5. QED BY <2>1, <2>2, <2>4, ReadsKept
<1>9. ASSUME NEW k \in Tasks, Update(k, Idle), version' = version, settled' = settled
      PROVE  ReadsSound'
  BY <1>a, <1>9, UpdateStage, IdleSound, ReadsKept DEF Others
<1>10. ASSUME NEW k \in Tasks, Bust(k) PROVE ReadsSound'
  <2> DEFINE u == UpstreamOf[task[k].tool]
  <2>1. version' = version /\ settled' = [settled EXCEPT ![u] = version[u]]
    BY <1>10 DEF Bust
  <2>2. \A x \in Upstreams : settled'[x] <= version'[x]
    BY <1>b, <2>1 DEF ReadsSound, TypeOK
  <2>3. ReadSound(k)'
    <3>1. task'[k] = Idle
      BY <1>10 DEF Bust
    <3>2. QED BY <1>a, <3>1, IdleSound
  <2>4. ASSUME NEW j \in Tasks \ {k} PROVE ReadSound(j)'
    <3>1. UpstreamOf[task[j].tool] # u =>
            settled'[UpstreamOf[task[j].tool]] = settled[UpstreamOf[task[j].tool]]
      BY <1>b, <2>1 DEF TypeOK
    <3>2. Unsent(j)' /\ (task'[j].ok => task'[j].page > 0)
      BY <1>b, <1>10, BustEffect DEF ReadSound, Unsent
    <3>3. Reading(j)' <=> Reading(j)
      BY <1>10, BustEffect DEF Reading, Carried
    <3>4. CASE Reading(j) /\ UpstreamOf[task[j].tool] = u
      BY <1>10, <3>2, <3>4, BustEffect DEF ReadSound
    <3>5. CASE ~Reading(j)
      BY <3>2, <3>3, <3>5 DEF ReadSound
    <3>6. CASE Reading(j) /\ UpstreamOf[task[j].tool] # u
      <4>1. task'[j].seen = task[j].seen /\ task'[j].tool = task[j].tool
            /\ task'[j].raced = task[j].raced
        BY <1>b, <1>10, <3>6, BustEffect
      <4>2. QED BY <1>b, <3>1, <3>2, <3>6, <4>1 DEF ReadSound
    <3>7. QED BY <3>4, <3>5, <3>6
  <2>5. QED BY <2>2, <2>3, <2>4 DEF ReadsSound
<1>11. ASSUME NEW u \in Upstreams, LateCommit(u) PROVE ReadsSound'
  <2>1. \A x \in Upstreams : settled'[x] <= version'[x]
    BY <1>11 DEF LateCommit, ReadsSound, TypeOK
  <2>2. QED BY <1>b, <1>11, <2>1 DEF LateCommit, ReadsSound, ReadSound, Unsent, Reading, Carried
<1>12. ASSUME Tick PROVE ReadsSound'
  <2>1. version' = version /\ settled' = settled
    BY <1>12 DEF Tick
  <2>2. \A k \in Tasks : ReadSound(k)'
    BY <1>b, <1>12, <2>1, TickEffect DEF ReadSound, Unsent, Reading, Carried, SameCall
  <2>3. QED BY <2>1, <2>2 DEF ReadsSound
<1>13. CASE UNCHANGED <<task, version, settled>>
  BY <1>13 DEF ReadsSound, ReadSound, Unsent, Reading, Carried
<1>14. QED
  BY <1>1, <1>2, <1>3, <1>4, <1>5, <1>6, <1>7, <1>8, <1>9, <1>10, <1>11, <1>12, <1>13
  DEF Next, Step, Store, LeaveQueue, HangUp, Relist, vars

(* Every step keeps stale entries among the raced and the missed.          *)
LEMMA NextEntries ==
  TypeOK /\ ReadsSound /\ EntriesExplained /\ [Next]_vars => EntriesExplained'
<1> SUFFICES ASSUME TypeOK, ReadsSound, EntriesExplained, [Next]_vars,
                    NEW x \in DOMAIN cache', cache'[x].version < settled'[UpstreamOf[x]]
             PROVE  cache'[x].raced \/ cache'[x].missed
  BY DEF EntriesExplained
<1>1. ASSUME NEW k \in Tasks, Store(k) PROVE cache'[x].raced \/ cache'[x].missed
  <2> DEFINE t == task[k].tool
             entry == [age |-> 0, version |-> task[k].seen, page |-> task[k].page,
                       said |-> task[k].said, raced |-> task[k].raced, missed |-> FALSE]
  <2>1. settled' = settled
    BY <1>1 DEF Store
  <2>2. CASE UNCHANGED cache
    BY <2>1, <2>2 DEF EntriesExplained
  <2>3. CASE t \in Cacheable /\ Clean(k) /\ Insert(t, entry)
    <3>1. Reading(k) /\ ReadSound(k)
      BY <2>3 DEF Clean, Reading, Carried, ReadsSound, ReadSound
    <3>2. CASE x = t
      <4>1. cache'[x].version = task[k].seen /\ cache'[x].raced = task[k].raced
        BY <2>3, <3>2 DEF Insert
      <4>2. QED BY <2>1, <3>1, <3>2, <4>1 DEF ReadSound
    <3>3. CASE x # t
      <4>1. x \in DOMAIN cache /\ cache'[x] = cache[x]
        BY <2>3, <3>3 DEF Insert, Kept, Unexpired
      <4>2. QED BY <2>1, <4>1 DEF EntriesExplained
    <3>4. QED BY <3>2, <3>3
  <2>4. QED BY <1>1, <2>2, <2>3 DEF Store
<1>2. ASSUME NEW k \in Tasks, Bust(k) PROVE cache'[x].raced \/ cache'[x].missed
  <2> DEFINE u == UpstreamOf[task[k].tool]
             missed == cache[x].missed \/ (x \notin known /\ UpstreamOf[x] = u)
  <2>1. /\ x \in DOMAIN cache /\ cache[x] \in Entry
        /\ x \notin known \/ UpstreamOf[x] # u
    BY <1>2 DEF Bust, Spared, TypeOK
  <2>2. cache'[x] = [cache[x] EXCEPT !.missed = missed]
    BY <1>2 DEF Bust
  <2> HIDE DEF missed
  <2>3. /\ cache'[x].version = cache[x].version /\ cache'[x].raced = cache[x].raced
        /\ cache'[x].missed = missed
    BY <2>1, <2>2 DEF Entry
  <2>4. CASE UpstreamOf[x] = u
    BY <2>1, <2>3, <2>4 DEF missed
  <2>5. CASE UpstreamOf[x] # u
    <3>1. settled'[UpstreamOf[x]] = settled[UpstreamOf[x]]
      BY <1>2, <2>5 DEF Bust, TypeOK
    <3>2. QED BY <2>1, <2>3, <3>1 DEF EntriesExplained, missed
  <2>6. QED BY <2>4, <2>5
<1>3. ASSUME Tick PROVE cache'[x].raced \/ cache'[x].missed
  <2>1. x \in DOMAIN cache /\ settled' = settled
    BY <1>3 DEF Tick
  <2>2. /\ cache'[x].version = cache[x].version
        /\ cache'[x].raced = cache[x].raced /\ cache'[x].missed = cache[x].missed
    <3>1. cache[x] \in Entry
      BY <2>1 DEF TypeOK
    <3>2. cache'[x] = [cache[x] EXCEPT !.age = IF cache[x].age < TTL THEN cache[x].age + 1
                                               ELSE cache[x].age]
      BY <1>3, <2>1 DEF Tick
    <3>3. QED BY <3>1, <3>2 DEF Entry
  <2>3. QED BY <2>1, <2>2 DEF EntriesExplained
<1>4. CASE UNCHANGED <<cache, settled>>
  BY <1>4 DEF EntriesExplained
<1>5. QED
  BY <1>1, <1>2, <1>3, <1>4
  DEF Next, Step, Begin, Lookup, Gate, AcquireSlot, Serve, AnswerOk, AnswerError, Record,
      LeaveQueue, HangUp, LateCommit, Relist, vars

(* A write under way, or one that left no bust behind.                     *)
Unsettled(u) == u \in adrift \/ \E k \in Tasks : Writing(k) /\ UpstreamOf[task[k].tool] = u

(* A step of task k that carries nothing out and settles nothing, and      *)
(* loses track of no write.                                                *)
LEMMA WritesKept ==
  ASSUME WritesExplained, NEW k \in Tasks, Others(k),
         version' = version, settled' = settled, adrift \subseteq adrift',
         Writing(k) => \/ UpstreamOf[task[k].tool] \in adrift'
                       \/ Writing(k)' /\ task'[k].tool = task[k].tool
  PROVE  WritesExplained'
<1> SUFFICES ASSUME NEW u \in Upstreams, settled[u] < version[u]
             PROVE  Unsettled(u)'
  BY DEF WritesExplained, Unsettled
<1>1. CASE u \in adrift
  BY <1>1 DEF Unsettled
<1>2. ASSUME NEW j \in Tasks, Writing(j), UpstreamOf[task[j].tool] = u
      PROVE  Unsettled(u)'
  <2>1. CASE j = k
    BY <1>2, <2>1 DEF Unsettled
  <2>2. CASE j # k
    BY <1>2, <2>2 DEF Others, Unsettled, Writing, Carried
  <2>3. QED BY <2>1, <2>2
<1>3. QED BY <1>1, <1>2 DEF WritesExplained

(* Every step keeps track of the writes that are not settled.              *)
LEMMA NextWrites ==
  TypeOK /\ QueueExact /\ ReadsSound /\ WritesExplained /\ [Next]_vars => WritesExplained'
<1> SUFFICES ASSUME TypeOK, QueueExact, ReadsSound, WritesExplained, [Next]_vars
             PROVE  WritesExplained'
  OBVIOUS
<1>a. \A k \in Tasks : /\ ReadSound(k) /\ task[k].page \in Nat
                       /\ UpstreamOf[task[k].tool] \in Upstreams
  BY DispatchAssumption DEF ReadsSound, TypeOK, TaskState
<1>b. ASSUME NEW k \in Tasks, task[k].stage \in {"idle", "lookup", "gate"}
      PROVE  ~Writing(k)
  BY <1>a, <1>b DEF ReadSound, Unsent, Writing, Carried
<1>1. ASSUME NEW k \in Tasks, NEW t \in Tools, Begin(k, t) PROVE WritesExplained'
  BY <1>1, <1>b, UpdateStage, WritesKept DEF Begin, Others
<1>2. ASSUME NEW k \in Tasks, Lookup(k) PROVE WritesExplained'
  <2>1. Others(k)
    BY <1>2, UpdateStage DEF Lookup, Stage, Others
  <2>2. QED BY <1>2, <1>b, <2>1, WritesKept DEF Lookup
<1>3. ASSUME NEW k \in Tasks, Gate(k) PROVE WritesExplained'
  <2>1. /\ task[k].stage = "gate" /\ Others(k)
        /\ version' = version /\ settled' = settled /\ adrift' = adrift
    BY <1>3, GateEffect DEF Gate
  <2>2. QED BY <1>b, <2>1, WritesKept
<1>4. ASSUME NEW k \in Tasks, AcquireSlot(k) PROVE WritesExplained'
  <2>1. task[k].stage = "queued"
    BY <1>4 DEF AcquireSlot, QueueExact, TypeOK
  <2>2. Writing(k) => Writing(k)' /\ task'[k].tool = task[k].tool
    <3>1. task'[k].tool = task[k].tool /\ task'[k].page = task[k].page
      BY <1>4, AcquireSlotEffect DEF SameCall
    <3>2. task[k].page = 0 => ~task[k].served
      BY <1>a, <2>1 DEF ReadSound, Unsent
    <3>3. task[k].page # 0 => task[k].page > 0
      BY <1>a
    <3>4. QED BY <3>1, <3>2, <3>3 DEF Writing, Carried
  <2>3. QED BY <1>4, <2>2, AcquireSlotEffect, WritesKept DEF AcquireSlot
<1>5. ASSUME NEW k \in Tasks, Serve(k) PROVE WritesExplained'
  <2> DEFINE w == UpstreamOf[task[k].tool]
  <2>1. /\ settled' = settled /\ adrift' = adrift
        /\ version' = IF task[k].tool \in Writes THEN [version EXCEPT ![w] = @ + 1]
                      ELSE version
    BY <1>5 DEF Serve
  <2>2. /\ task'[k].tool = task[k].tool
        /\ task[k].tool \in Writes => Writing(k)'
    BY <1>5, ServeEffect DEF SameCall, Writing, Carried
  <2>3. ASSUME NEW u \in Upstreams, settled'[u] < version'[u]
        PROVE  Unsettled(u)'
    <3>1. CASE task[k].tool \in Writes /\ u = w
      BY <2>2, <3>1 DEF Unsettled
    <3>2. CASE ~(task[k].tool \in Writes /\ u = w)
      <4>1. settled[u] < version[u]
        BY <2>1, <2>3, <3>2 DEF TypeOK
      <4>2. CASE u \in adrift
        BY <2>1, <4>2 DEF Unsettled
      <4>3. ASSUME NEW j \in Tasks, Writing(j), UpstreamOf[task[j].tool] = u
            PROVE  Unsettled(u)'
        <5>1. j # k
          BY <3>2, <4>3 DEF Writing
        <5>2. task'[j] = task[j]
          BY <1>5, <5>1, ServeEffect DEF Others
        <5>3. QED BY <4>3, <5>2 DEF Unsettled, Writing, Carried
      <4>4. QED BY <4>1, <4>2, <4>3 DEF WritesExplained
    <3>3. QED BY <3>1, <3>2
  <2>4. QED BY <2>3 DEF WritesExplained, Unsettled
<1>6. ASSUME NEW k \in Tasks, AnswerOk(k) PROVE WritesExplained'
  <2>1. Writing(k) => Writing(k)' /\ task'[k].tool = task[k].tool
    BY <1>6, AnswerOkEffect DEF Writing, Carried, SameCall
  <2>2. QED BY <1>6, <2>1, AnswerOkEffect, WritesKept DEF AnswerOk
<1>7. ASSUME NEW k \in Tasks, AnswerError(k) PROVE WritesExplained'
  <2>1. Writing(k) => Writing(k)' /\ task'[k].tool = task[k].tool
    BY <1>7, AnswerErrorEffect DEF Writing, Carried, SameCall
  <2>2. QED BY <1>7, <2>1, AnswerErrorEffect, WritesKept DEF AnswerError
<1>8. ASSUME NEW k \in Tasks, Record(k) PROVE WritesExplained'
  <2>1. Writing(k) => Writing(k)' /\ task'[k].tool = task[k].tool
    BY <1>8, RecordEffect DEF Writing, Carried, SameCall
  <2>2. QED BY <1>8, <2>1, RecordEffect, WritesKept DEF Record
<1>9. ASSUME NEW k \in Tasks, Store(k) PROVE WritesExplained'
  <2>1. ~Writing(k) /\ Others(k)
    BY <1>9, UpdateStage DEF Store, Writing, Others
  <2>2. QED BY <1>9, <2>1, WritesKept DEF Store
<1>10. ASSUME NEW k \in Tasks, Bust(k) PROVE WritesExplained'
  <2> DEFINE w == UpstreamOf[task[k].tool]
  <2>1. /\ version' = version /\ settled' = [settled EXCEPT ![w] = version[w]]
        /\ adrift' = adrift \ {w}
    BY <1>10 DEF Bust
  <2>2. ASSUME NEW u \in Upstreams, settled'[u] < version'[u]
        PROVE  Unsettled(u)'
    <3>1. version \in [Upstreams -> Nat] /\ settled \in [Upstreams -> Nat]
      BY DEF TypeOK
    <3>2. u # w
      BY <2>1, <2>2, <3>1
    <3>3. settled[u] < version[u]
      BY <2>1, <2>2, <3>1, <3>2
    <3>4. CASE u \in adrift
      BY <2>1, <3>2, <3>4 DEF Unsettled
    <3>5. ASSUME NEW j \in Tasks, Writing(j), UpstreamOf[task[j].tool] = u
          PROVE  Unsettled(u)'
      <4>1. j # k
        BY <3>2, <3>5
      <4>2. Writing(j)' /\ task'[j].tool = task[j].tool
        BY <1>10, <3>5, <4>1, BustEffect DEF Writing, Carried
      <4>3. QED BY <3>5, <4>2 DEF Unsettled
    <3>6. QED BY <3>3, <3>4, <3>5 DEF WritesExplained
  <2>3. QED BY <2>2 DEF WritesExplained, Unsettled
<1>11. ASSUME NEW k \in Tasks, LeaveQueue(k) \/ HangUp(k) PROVE WritesExplained'
  <2>1. /\ Update(k, Idle) /\ Drop(k)
        /\ version' = version /\ settled' = settled
    BY <1>11 DEF LeaveQueue, HangUp
  <2>2. Others(k)
    BY <2>1, UpdateStage DEF Others
  <2>3. /\ adrift \subseteq adrift'
        /\ Writing(k) => UpstreamOf[task[k].tool] \in adrift'
    BY <2>1 DEF Drop
  <2>4. QED BY <2>1, <2>2, <2>3, WritesKept
<1>12. ASSUME NEW w \in Upstreams, LateCommit(w) PROVE WritesExplained'
  <2>1. /\ version' = [version EXCEPT ![w] = @ + 1] /\ settled' = settled
        /\ adrift' = adrift \cup {w} /\ task' = task
    BY <1>12 DEF LateCommit
  <2>2. ASSUME NEW u \in Upstreams, settled'[u] < version'[u]
        PROVE  Unsettled(u)'
    <3>1. CASE u = w
      BY <2>1, <3>1 DEF Unsettled
    <3>2. CASE u # w
      BY <2>1, <2>2, <3>2 DEF TypeOK, WritesExplained, Unsettled, Writing, Carried
    <3>3. QED BY <3>1, <3>2
  <2>3. QED BY <2>2 DEF WritesExplained, Unsettled
<1>13. ASSUME Tick PROVE WritesExplained'
  <2>1. \A k \in Tasks : Writing(k) => Writing(k)' /\ task'[k].tool = task[k].tool
    BY <1>13, TickEffect DEF Writing, Carried, SameCall
  <2>2. version' = version /\ settled' = settled /\ adrift' = adrift
    BY <1>13 DEF Tick
  <2>3. QED BY <2>1, <2>2 DEF WritesExplained
<1>14. CASE UNCHANGED <<task, version, settled, adrift>>
  BY <1>14 DEF WritesExplained, Writing, Carried
<1>15. QED
  BY <1>1, <1>2, <1>3, <1>4, <1>5, <1>6, <1>7, <1>8, <1>9, <1>10, <1>11, <1>12, <1>13, <1>14
  DEF Next, Step, Relist, vars

(* A stale read was in flight at the bust of the write that overtook it,   *)
(* or its tool was unknown to the catalog then, or that write has no bust  *)
(* behind it: not yet, or, dropped or late, never (bust_upstream_cache).   *)
THEOREM StaleReadsExplained == Spec => []StaleExplained
<1>1. Init => ReadsSound
  BY TaskType DEF Init, ReadsSound, ReadSound, Unsent, Reading, Carried, Idle, At
<1>2. Init => EntriesExplained /\ WritesExplained
  BY DEF Init, EntriesExplained, WritesExplained
<1>3. Init => QueueExact
  BY TaskType DEF Init, QueueExact
<1>4. EntriesExplained /\ WritesExplained => StaleExplained
  BY DEF StaleExplained
<1>5. QED
  BY <1>1, <1>2, <1>3, <1>4, InitType, NextType, NextQueue, NextReads, NextEntries, NextWrites,
     PTL DEF Spec

----------------------------------------------------------------------------
(* Cached lists.  The pages a task has merged, at each place on its way:   *)
(* while it waits for a page, the last one named it; and where a list is   *)
(* clean at the end, its last page named none or max_pages is reached.     *)

Ended(t, page, said) == t \in Paginated /\ said = "more" => page = MaxPages

Paged(s) ==
  /\ s.stage \in {"lookup", "gate"} => s.page = 0 /\ ~s.ok /\ ~s.partial
  /\ s.stage \in {"queued", "called"} =>
       s.page < MaxPages /\ ~s.partial /\ (s.ok <=> s.page > 0)
  /\ s.stage = "record" => s.page = (IF s.ok THEN 1 ELSE 0) /\ ~s.partial
  /\ s.stage = "finish" /\ s.ok /\ ~s.partial => Ended(s.tool, s.page, s.said)

TasksPaged == \A k \in Tasks : Paged(task[k])

(* A task that moves to a place where its pages are counted.               *)
LEMMA PagedUpdate ==
  ASSUME TypeOK, TasksPaged, NEW k \in Tasks, NEW state, Paged(state), Update(k, state)
  PROVE  TasksPaged'
BY DEF Update, TypeOK, TasksPaged

(* Every step keeps count of the pages.                                    *)
LEMMA NextPaged == TypeOK /\ QueueExact /\ TasksPaged /\ [Next]_vars => TasksPaged'
<1> SUFFICES ASSUME TypeOK, QueueExact, TasksPaged, [Next]_vars PROVE TasksPaged'
  OBVIOUS
<1>a. Paged(Idle)
  BY DEF Idle, At, Paged
<1>b. ASSUME NEW k \in Tasks
      PROVE  task[k] \in TaskState /\ Paged(task[k])
  BY DEF TypeOK, TasksPaged
<1>c. MaxPages \in Nat \ {0}
  BY DispatchAssumption
<1>1. ASSUME NEW k \in Tasks, NEW t \in Tools, Begin(k, t) PROVE TasksPaged'
  <2>1. \A s \in {"lookup", "gate"} : Paged(At(t, s))
    BY DEF At, Paged
  <2>2. QED BY <1>1, <2>1, PagedUpdate DEF Begin
<1>2. ASSUME NEW k \in Tasks, Lookup(k) PROVE TasksPaged'
  <2>1. Paged([task[k] EXCEPT !.stage = "gate"])
    BY <1>b, <1>2 DEF Lookup, Paged, TaskState
  <2>2. QED BY <1>a, <1>2, <2>1, PagedUpdate DEF Lookup, Stage
<1>3. ASSUME NEW k \in Tasks, Gate(k) PROVE TasksPaged'
  <2>1. ASSUME NEW p \in BOOLEAN
        PROVE  Paged([task[k] EXCEPT !.stage = "queued", !.probe = p])
    BY <1>b, <1>c, <1>3 DEF Gate, Paged, TaskState
  <2>2. QED BY <1>a, <1>3, <2>1, PagedUpdate DEF Gate
<1>4. ASSUME NEW k \in Tasks, AcquireSlot(k) PROVE TasksPaged'
  <2>1. task[k].stage = "queued"
    BY <1>4 DEF AcquireSlot, QueueExact, TypeOK
  <2>2. Paged([task[k] EXCEPT !.stage = "called", !.served = FALSE])
    BY <1>b, <2>1 DEF Paged, TaskState
  <2>3. QED BY <1>4, <2>2, PagedUpdate DEF AcquireSlot
<1>5. ASSUME NEW k \in Tasks, Serve(k) PROVE TasksPaged'
  <2>1. ASSUME NEW n PROVE Paged([task[k] EXCEPT !.served = TRUE, !.seen = n])
    BY <1>b DEF Paged, TaskState
  <2>2. QED BY <1>5, <2>1, PagedUpdate DEF Serve
<1>6. ASSUME NEW k \in Tasks, AnswerOk(k) PROVE TasksPaged'
  <2>1. PICK state \in TaskState :
          /\ Update(k, state)
          /\ state.said \in Says(task[k].tool, task[k].page)
          /\ state.page = IF state.said = "empty" THEN task[k].page ELSE task[k].page + 1
          /\ state.stage = IF task[k].page = 0 THEN "record"
                           ELSE IF Follows(task[k].tool, state.page, state.said)
                           THEN "queued" ELSE "finish"
          /\ state.ok = TRUE
          /\ state.tool = task[k].tool
          /\ state.partial = task[k].partial
    BY <1>6, AnsweredState
  <2>2. /\ task[k].page \in Nat /\ task[k].page < MaxPages /\ ~task[k].partial
    BY <1>b, <1>6 DEF AnswerOk, Paged, TaskState
  <2>3. CASE task[k].page = 0
    <3>1. state.said # "empty"
      BY <2>1, <2>3 DEF Says
    <3>2. Paged(state)
      BY <2>1, <2>2, <2>3, <3>1 DEF Paged
    <3>3. QED BY <2>1, <3>2, PagedUpdate
  <2>4. CASE task[k].page # 0
    <3>1. state.page \in Nat /\ state.page > 0 /\ state.page <= MaxPages
      BY <1>c, <2>1, <2>2, <2>4
    <3>2. CASE Follows(task[k].tool, state.page, state.said)
      <4>1. state.stage = "queued" /\ state.page < MaxPages
        BY <2>1, <2>4, <3>2 DEF Follows
      <4>2. Paged(state)
        BY <2>1, <2>2, <3>1, <4>1 DEF Paged
      <4>3. QED BY <2>1, <4>2, PagedUpdate
    <3>3. CASE ~Follows(task[k].tool, state.page, state.said)
      <4>1. state.stage = "finish"
        BY <2>1, <2>4, <3>3
      <4>2. Ended(state.tool, state.page, state.said)
        BY <1>c, <2>1, <3>1, <3>3 DEF Follows, Ended
      <4>3. Paged(state)
        BY <4>1, <4>2 DEF Paged
      <4>4. QED BY <2>1, <4>3, PagedUpdate
    <3>4. QED BY <3>2, <3>3
  <2>5. QED BY <2>3, <2>4
<1>7. ASSUME NEW k \in Tasks, AnswerError(k) PROVE TasksPaged'
  <2>1. task[k].page = 0 => Paged([task[k] EXCEPT !.stage = "record", !.wire = 0])
    BY <1>b, <1>7 DEF AnswerError, Paged, TaskState
  <2>2. Paged([task[k] EXCEPT !.stage = "finish", !.wire = 0, !.partial = TRUE])
    BY <1>b DEF Paged, TaskState
  <2>3. QED BY <1>7, <2>1, <2>2, PagedUpdate DEF AnswerError
<1>8. ASSUME NEW k \in Tasks, Record(k) PROVE TasksPaged'
  <2> DEFINE s == task[k]
             more == s.ok /\ Follows(s.tool, 1, s.said)
  <2>1. s.page = (IF s.ok THEN 1 ELSE 0) /\ ~s.partial
    BY <1>b, <1>8 DEF Record, Paged
  <2>2. CASE more
    <3>1. 1 < MaxPages
      BY <2>2 DEF Follows
    <3>2. Paged([s EXCEPT !.stage = "queued", !.probe = FALSE, !.age = 0])
      BY <1>b, <2>1, <2>2, <3>1 DEF Paged, TaskState
    <3>3. QED BY <1>8, <2>2, <3>2, PagedUpdate DEF Record
  <2>3. CASE ~more
    <3>1. s.ok => Ended(s.tool, 1, s.said)
      BY <1>c, <2>3 DEF Follows, Ended
    <3>2. Paged([s EXCEPT !.stage = "finish", !.probe = FALSE, !.age = 0])
      BY <1>b, <2>1, <3>1 DEF Paged, TaskState
    <3>3. QED BY <1>8, <2>3, <3>2, PagedUpdate DEF Record
  <2>4. QED BY <2>2, <2>3
<1>9. ASSUME NEW k \in Tasks, Update(k, Idle) PROVE TasksPaged'
  BY <1>a, <1>9, PagedUpdate
<1>10. ASSUME NEW k \in Tasks, Bust(k) PROVE TasksPaged'
  <2>1. ASSUME NEW j \in Tasks PROVE Paged([task[j] EXCEPT !.raced = TRUE])
    BY <1>b DEF Paged, TaskState
  <2>2. QED BY <1>a, <1>b, <1>10, <2>1 DEF Bust, TasksPaged
<1>11. ASSUME Tick PROVE TasksPaged'
  <2>1. ASSUME NEW j \in Tasks, NEW w, NEW a
        PROVE  Paged([task[j] EXCEPT !.wire = w, !.age = a])
    BY <1>b DEF Paged, TaskState
  <2>2. QED BY <1>11, <2>1 DEF Tick, TasksPaged
<1>12. CASE UNCHANGED task
  BY <1>12 DEF TasksPaged
<1>13. QED
  BY <1>1, <1>2, <1>3, <1>4, <1>5, <1>6, <1>7, <1>8, <1>9, <1>10, <1>11, <1>12
  DEF Next, Step, Store, LeaveQueue, HangUp, LateCommit, Relist, vars

(* What a clean list adds to the cache had ended, and a bust, an eviction  *)
(* or the clock changes no entry's pages.                                  *)
LEMMA NextEnded ==
  TypeOK /\ TasksPaged /\ CachedListsEnded /\ [Next]_vars => CachedListsEnded'
<1> DEFINE EntryEnded(x, e) == Ended(x, e.page, e.said)
<1> SUFFICES ASSUME TypeOK, TasksPaged, CachedListsEnded, [Next]_vars,
                    NEW x \in DOMAIN cache'
             PROVE  EntryEnded(x, cache'[x])
  BY DEF CachedListsEnded, Ended
<1>a. \A t \in DOMAIN cache : EntryEnded(t, cache[t])
  BY DEF CachedListsEnded, Ended
<1>1. ASSUME NEW k \in Tasks, Store(k) PROVE EntryEnded(x, cache'[x])
  <2> DEFINE t == task[k].tool
             entry == [age |-> 0, version |-> task[k].seen, page |-> task[k].page,
                       said |-> task[k].said, raced |-> task[k].raced, missed |-> FALSE]
  <2>1. CASE UNCHANGED cache
    BY <1>a, <2>1
  <2>2. CASE Clean(k) /\ Insert(t, entry)
    <3>1. EntryEnded(t, entry)
      BY <1>1, <2>2 DEF Store, Clean, TasksPaged, Paged
    <3>2. x = t => cache'[x] = entry
      BY <2>2 DEF Insert
    <3>3. x # t => x \in DOMAIN cache /\ cache'[x] = cache[x]
      BY <2>2 DEF Insert, Kept, Unexpired
    <3>4. QED BY <1>a, <3>1, <3>2, <3>3
  <2>3. QED BY <1>1, <2>1, <2>2 DEF Store
<1>2. ASSUME NEW k \in Tasks, Bust(k) PROVE EntryEnded(x, cache'[x])
  <2> DEFINE missed == cache[x].missed
                         \/ (x \notin known /\ UpstreamOf[x] = UpstreamOf[task[k].tool])
  <2>1. x \in DOMAIN cache /\ cache[x] \in Entry
    BY <1>2 DEF Bust, Spared, TypeOK
  <2>2. cache'[x] = [cache[x] EXCEPT !.missed = missed]
    BY <1>2 DEF Bust
  <2> HIDE DEF missed
  <2>3. cache'[x].page = cache[x].page /\ cache'[x].said = cache[x].said
    BY <2>1, <2>2 DEF Entry
  <2>4. QED BY <1>a, <2>1, <2>3
<1>3. ASSUME Tick PROVE EntryEnded(x, cache'[x])
  <2>1. x \in DOMAIN cache /\ cache[x] \in Entry
    BY <1>3 DEF Tick, TypeOK
  <2>2. cache'[x] = [cache[x] EXCEPT !.age = IF cache[x].age < TTL THEN cache[x].age + 1
                                             ELSE cache[x].age]
    BY <1>3, <2>1 DEF Tick
  <2>3. cache'[x].page = cache[x].page /\ cache'[x].said = cache[x].said
    BY <2>1, <2>2 DEF Entry
  <2>4. QED BY <1>a, <2>1, <2>3
<1>4. CASE UNCHANGED cache
  BY <1>a, <1>4
<1>5. QED
  BY <1>1, <1>2, <1>3, <1>4
  DEF Next, Step, Begin, Lookup, Gate, AcquireSlot, Serve, AnswerOk, AnswerError, Record,
      LeaveQueue, HangUp, LateCommit, Relist, vars

(* No cached list was cut short by a page that failed: its upstream ended  *)
(* it, or max_pages did (dispatch_reach's clean, paginate's exits).        *)
THEOREM NoListCutByFailure == Spec => []CachedListsEnded
<1>1. Init => TasksPaged /\ CachedListsEnded
  BY DEF Init, TasksPaged, Paged, Idle, At, CachedListsEnded
<1>2. Init => QueueExact
  BY TaskType DEF Init, QueueExact
<1>3. QED
  BY <1>1, <1>2, InitType, NextType, NextQueue, NextPaged, NextEnded, PTL DEF Spec

----------------------------------------------------------------------------
(* Only the success of a call of the tool closes its breaker: not the end  *)
(* of a cooldown, not a probe that was dropped (BreakerState::on_result).*)
THEOREM BreakersCloseBySuccess == Spec => ClosedBySuccess
<1>1. TypeOK /\ [Next]_vars => [ClosesBySuccess]_vars
  <2> SUFFICES ASSUME TypeOK, Next, NEW t \in Tools,
                      breaker[t].openLeft # Never, breaker'[t].openLeft = Never
               PROVE  \E k \in Tasks : /\ task[k].stage = "record"
                                       /\ task'[k].stage # "record"
                                       /\ task[k].tool = t /\ task[k].ok
    BY DEF ClosesBySuccess
  <2>0. breaker[t] \in BreakerState
    BY DEF TypeOK
  <2>1. ASSUME NEW k \in Tasks, Gate(k) PROVE FALSE
    <3>1. breaker'[t] = breaker[t] \/ breaker'[t] = Checked(breaker[t])
      BY <2>1 DEF Gate, TypeOK
    <3>2. Checked(breaker[t]).openLeft = breaker[t].openLeft
      BY <2>0 DEF Checked, BreakerState
    <3>3. QED BY <3>1, <3>2
  <2>2. ASSUME NEW k \in Tasks, Record(k)
        PROVE  /\ task[k].stage = "record" /\ task'[k].stage # "record"
               /\ task[k].tool = t /\ task[k].ok
    <3>1. task[k].stage = "record" /\ task'[k].stage # "record"
      BY <2>2, RecordEffect DEF Record
    <3>2. /\ task[k].tool = t
          /\ breaker'[t] = AfterResult(breaker[t], ~task[k].ok, task[k].probe)
      BY <2>2 DEF Record, TypeOK
    <3>3. task[k].ok
      BY <2>0, <3>2, BreakerAssumption DEF AfterResult, Never
    <3>4. QED BY <3>1, <3>2, <3>3
  <2>3. ASSUME Tick PROVE FALSE
    <3>1. breaker'[t].openLeft = IF breaker[t].openLeft > 0 THEN breaker[t].openLeft - 1
                                 ELSE breaker[t].openLeft
      BY <2>3 DEF Tick, Elapse
    <3>2. breaker[t].openLeft \in {Never} \cup 0..Cooldown
      BY <2>0 DEF BreakerState
    <3>3. QED BY <3>1, <3>2, BreakerAssumption DEF Never
  <2>4. breaker' # breaker
    OBVIOUS
  <2>5. QED
    BY <2>1, <2>2, <2>3, <2>4
    DEF Next, Step, Begin, Lookup, AcquireSlot, Serve, AnswerOk, AnswerError, Store, Bust,
        LeaveQueue, HangUp, LateCommit, Relist
<1>2. QED BY <1>1, InitType, NextType, PTL DEF Spec, ClosedBySuccess
=============================================================================
