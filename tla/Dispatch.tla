------------------------------ MODULE Dispatch ------------------------------
(***************************************************************************)
(* The call path of src/src/surface/dispatch.rs: cache lookup, circuit     *)
(* breaker, the semaphore of upstream slots, the upstream call, pagination,*)
(* the breaker's verdict, the cache insert or the cache bust.  Each        *)
(* request is a task; a step of a task is what it does under one lock or   *)
(* between two awaits.  A task can be dropped at an await (its client went *)
(* away), which is when Rust releases its slot and nothing else.           *)
(*                                                                         *)
(* The upstream holds a version per backend that writes advance: a read's  *)
(* result is the version it saw.  Arguments are left out, so a tool is a   *)
(* cache key.  Refusals before the lookup (rate limit, preflight, a missing*)
(* user-supplied value) change nothing here; a tool the catalog in force   *)
(* does not know is not called.  Of a page only what it says of the next   *)
(* is kept.                                                                *)
(***************************************************************************)
EXTENDS Breaker, FiniteSets, Sequences

CONSTANTS
  Tasks,        (* requests in flight at once                              *)
  Tools,
  Upstreams,
  UpstreamOf,   (* [Tools -> Upstreams], the catalog's upstream_idx        *)
  Cacheable,    (* tools for which cache_allowed                           *)
  Writes,       (* tools for which ~is_read: assumed to write              *)
  Guarded,      (* tools whose overlay has a breaker                       *)
  Paginated,    (* tools whose overlay has paginate                        *)
  MaxPages,     (* paginate.max_pages                                      *)
  Fickle,       (* tools a re-index may drop from the catalog, or add again*)
  Slots,        (* max_concurrent_calls                                    *)
  Deadline,     (* ticks before the transport gives a call up              *)
  TTL,          (* read_cache_ttl_s, in ticks                              *)
  MaxEntries,   (* READ_CACHE_MAX_ENTRIES                                  *)
  MaxVersion    (* bound of the model: writes an upstream ever sees        *)

ASSUME DispatchAssumption ==
  /\ IsFiniteSet(Tasks)
  /\ Tools # {}
  /\ UpstreamOf \in [Tools -> Upstreams]
  /\ Cacheable \subseteq Tools
  /\ Writes \subseteq Tools \ Cacheable
  /\ Guarded \subseteq Tools
  /\ Paginated \subseteq Tools
  /\ Fickle \subseteq Tools
  /\ {MaxPages, Slots, Deadline, MaxEntries} \subseteq Nat \ {0}
  /\ {TTL, MaxVersion} \subseteq Nat

VARIABLES
  task,       (* what each task is doing: a TaskState                      *)
  queue,      (* tasks awaiting a slot; tokio's semaphore is first come    *)
  permits,    (* free slots                                                *)
  breaker,    (* [Tools -> BreakerState]                                   *)
  cache,      (* the read cache: a partial function from tools to entries  *)
  known,      (* the tools of the catalog in force (by_id)                 *)
  version,    (* what each upstream holds                                  *)
  late,       (* writes given up on that the upstream may still commit     *)
  settled,    (* history: the version when a write's bust last happened    *)
  adrift,     (* history: upstreams that carried a write out since then    *)
              (* whose request had left without a bust                     *)
  overrun     (* history: tools that had a live probe of age StaleAfter    *)

vars == <<task, queue, permits, breaker, cache, known, version, late, settled,
          adrift, overrun>>

(* What a page says of the next one: a cursor that moved (and `more`, if   *)
(* configured, is true); no cursor or `more` not true; the last cursor     *)
(* again; or it is empty, and what it says is not looked at.               *)
Sayings == {"more", "end", "stuck", "empty"}

(* Where a task stands.  "called" is on the wire; "record" and "finish"    *)
(* come after the primary answer and after the last page.                  *)
Stages == {"idle", "lookup", "gate", "queued", "called", "record", "finish"}

TaskState ==
  [stage   : Stages,
   tool    : Tools,
   page    : Nat,                   (* pages merged so far                 *)
   said    : Sayings,               (* the last page, of the next          *)
   probe   : BOOLEAN,               (* was_probe                           *)
   age     : 0..StaleAfter,         (* since the probe was claimed         *)
   wire    : 0..Deadline,           (* since the request was sent          *)
   served  : BOOLEAN,               (* the upstream has processed it       *)
   seen    : Nat,                   (* the version its first page showed   *)
   ok      : BOOLEAN,               (* the primary result, not isError     *)
   partial : BOOLEAN,               (* partial_pages                       *)
   raced   : BOOLEAN]               (* a bust happened since it was read   *)

(* "missed": a bust of its upstream ran while the catalog did not know it. *)
Entry == [age : 0..TTL, version : Nat, page : Nat, said : Sayings,
          raced : BOOLEAN, missed : BOOLEAN]

At(t, stage) ==
  [stage |-> stage, tool |-> t, page |-> 0, said |-> "end", probe |-> FALSE,
   age |-> 0, wire |-> 0, served |-> FALSE, seen |-> 0, ok |-> FALSE,
   partial |-> FALSE, raced |-> FALSE]

Idle == At(CHOOSE t \in Tools : TRUE, "idle")

TypeOK ==
  /\ task \in [Tasks -> TaskState]
  /\ queue \in Seq(Tasks)
  /\ permits \in Nat
  /\ breaker \in [Tools -> BreakerState]
  /\ DOMAIN cache \subseteq Cacheable
  /\ \A t \in DOMAIN cache : cache[t] \in Entry
  /\ known \subseteq Tools
  /\ version \in [Upstreams -> Nat]
  /\ late \in [Upstreams -> Nat]
  /\ settled \in [Upstreams -> Nat]
  /\ adrift \subseteq Upstreams
  /\ overrun \subseteq Tools

Init ==
  /\ task = [k \in Tasks |-> Idle]
  /\ queue = <<>>
  /\ permits = Slots
  /\ breaker = [t \in Tools |-> NewBreaker]
  /\ cache = [t \in {} |-> {}]
  /\ known = Tools
  /\ version = [u \in Upstreams |-> 0]
  /\ late = [u \in Upstreams |-> 0]
  /\ settled = [u \in Upstreams |-> 0]
  /\ adrift = {}
  /\ overrun = {}

----------------------------------------------------------------------------
(* The steps of one task, in the order dispatch_reach takes them.          *)

Update(k, state) == task' = [task EXCEPT ![k] = state]
Stage(k, stage) == Update(k, [task[k] EXCEPT !.stage = stage])

UnservedWrites(u) ==
  {k \in Tasks : /\ task[k].stage \in {"gate", "queued", "called"}
                 /\ task[k].tool \in Writes
                 /\ UpstreamOf[task[k].tool] = u
                 /\ ~task[k].served}

(* A call of a tool the catalog knows that got past every local refusal.   *)
(* The bound MaxVersion stops the model from writing for ever.             *)
Begin(k, t) ==
  LET u == UpstreamOf[t]
  IN  /\ task[k].stage = "idle"
      /\ t \in known
      /\ t \in Writes =>
           version[u] + late[u] + Cardinality(UnservedWrites(u)) < MaxVersion
      /\ Update(k, At(t, IF t \in Cacheable THEN "lookup" ELSE "gate"))
      /\ UNCHANGED <<queue, permits, breaker, cache, known, version, late, settled, adrift,
                     overrun>>

(* A hit ends the call: nothing upstream, the breaker or the cache moves.  *)
Lookup(k) ==
  LET t == task[k].tool
      hit == t \in DOMAIN cache /\ cache[t].age < TTL
  IN  /\ task[k].stage = "lookup"
      /\ IF hit THEN Update(k, Idle) ELSE Stage(k, "gate")
      /\ UNCHANGED <<queue, permits, breaker, cache, known, version, late, settled, adrift,
                     overrun>>

(* The breaker's check, then the wait for a slot begins.                   *)
Gate(k) ==
  LET t == task[k].tool
      verdict == IF t \in Guarded THEN Decision(breaker[t]) ELSE "allow"
  IN  /\ task[k].stage = "gate"
      /\ IF verdict = "block"
         THEN Update(k, Idle) /\ UNCHANGED queue
         ELSE /\ Update(k, [task[k] EXCEPT !.stage = "queued",
                                           !.probe = (verdict = "probe")])
              /\ queue' = Append(queue, k)
      /\ breaker' = IF t \in Guarded
                    THEN [breaker EXCEPT ![t] = Checked(@)] ELSE breaker
      /\ UNCHANGED <<permits, cache, known, version, late, settled, adrift,
                     overrun>>

AcquireSlot(k) ==
  /\ queue # <<>>
  /\ Head(queue) = k
  /\ permits > 0
  /\ queue' = Tail(queue)
  /\ permits' = permits - 1
  /\ Update(k, [task[k] EXCEPT !.stage = "called", !.served = FALSE])
  /\ UNCHANGED <<breaker, cache, known, version, late, settled, adrift, overrun>>

(* The upstream processes the request: a write commits, a read is taken.   *)
Serve(k) ==
  LET t == task[k].tool
      u == UpstreamOf[t]
  IN  /\ task[k].stage = "called"
      /\ ~task[k].served
      /\ version' = IF t \in Writes THEN [version EXCEPT ![u] = @ + 1] ELSE version
      /\ Update(k, [task[k] EXCEPT !.served = TRUE,
                                   !.seen = IF task[k].page = 0 THEN version'[u] ELSE @])
      /\ UNCHANGED <<queue, permits, breaker, cache, known, late, settled, adrift,
                     overrun>>

(* A write that left the proxy unanswered may still commit.                *)
Abandon(k) ==
  LET u == UpstreamOf[task[k].tool]
  IN  late' = IF task[k].tool \in Writes /\ task[k].stage = "called" /\ ~task[k].served
              THEN [late EXCEPT ![u] = @ + 1] ELSE late

(* A faulty Released: a slot that is taken is never given back.            *)
ReleasedNever(k) == permits

(* The permits once task k lets go of what it holds: dropping the guard    *)
(* of upstream_slot frees the slot, on every way out of the call.          *)
Released(k) == IF task[k].stage = "called" THEN permits + 1 ELSE permits

(* What a page may say: the first is not looked at for being empty, and    *)
(* there is no cursor yet to compare its own with.                         *)
Says(t, page) ==
  IF t \notin Paginated THEN {"end"} ELSE IF page = 0 THEN {"more", "end"} ELSE Sayings

(* The loop of paginate goes round once more.                              *)
Follows(t, page, said) == t \in Paginated /\ page < MaxPages /\ said = "more"

(* The call returns a result that is not an error, and frees its slot.     *)
(* The first page goes to the breaker first; whatever ends the list after  *)
(* a later one, partial stays as it is.                                    *)
AnswerOk(k) ==
  LET t == task[k].tool
  IN  /\ task[k].stage = "called"
      /\ task[k].served
      /\ permits' = Released(k)
      /\ \E said \in Says(t, task[k].page) :
           LET page  == IF said = "empty" THEN task[k].page ELSE task[k].page + 1
               stage == IF task[k].page = 0 THEN "record"
                        ELSE IF Follows(t, page, said) THEN "queued" ELSE "finish"
           IN  /\ Update(k, [task[k] EXCEPT !.stage = stage, !.wire = 0, !.page = page,
                                            !.said = said, !.ok = TRUE])
               /\ queue' = IF stage = "queued" THEN Append(queue, k) ELSE queue
      /\ UNCHANGED <<breaker, cache, known, version, late, settled, adrift,
                     overrun>>

(* An isError result, a transport failure or the deadline: the primary     *)
(* call's failure goes to the breaker, a later page's makes a partial list.*)
AnswerError(k) ==
  /\ task[k].stage = "called"
  /\ permits' = Released(k)
  /\ Update(k, IF task[k].page = 0
               THEN [task[k] EXCEPT !.stage = "record", !.wire = 0]
               ELSE [task[k] EXCEPT !.stage = "finish", !.wire = 0, !.partial = TRUE])
  /\ Abandon(k) \/ UNCHANGED late
  /\ UNCHANGED <<queue, breaker, cache, known, version, settled, adrift, overrun>>

(* The breaker hears the primary call's outcome; a list of more pages goes *)
(* back for a slot.                                                        *)
Record(k) ==
  LET t == task[k].tool
      more == task[k].ok /\ Follows(t, 1, task[k].said)
  IN  /\ task[k].stage = "record"
      /\ breaker' = IF t \in Guarded
                    THEN [breaker EXCEPT ![t] = AfterResult(@, ~task[k].ok, task[k].probe)]
                    ELSE breaker
      /\ Update(k, [task[k] EXCEPT !.stage = IF more THEN "queued" ELSE "finish",
                                   !.probe = FALSE, !.age = 0])
      /\ queue' = IF more THEN Append(queue, k) ELSE queue
      /\ UNCHANGED <<permits, cache, known, version, late, settled, adrift,
                     overrun>>

(* Room for one more entry: expired ones go first, and if that is not      *)
(* enough everything does.                                                 *)
Unexpired == {t \in DOMAIN cache : cache[t].age < TTL}
Kept ==
  IF Cardinality(DOMAIN cache) < MaxEntries THEN DOMAIN cache
  ELSE IF Cardinality(Unexpired) < MaxEntries THEN Unexpired
  ELSE {}

Insert(t, entry) ==
  cache' = [x \in Kept \cup {t} |-> IF x = t THEN entry ELSE cache[x]]

(* A faulty Clean: a list some page of which failed counts as clean.       *)
CleanPrimary(k) == task[k].ok

Clean(k) == task[k].ok /\ ~task[k].partial

(* The end of a cacheable call: a clean, complete result that is not too   *)
(* large is kept.                                                          *)
Store(k) ==
  LET t == task[k].tool
  IN  /\ task[k].stage = "finish"
      /\ t \notin Writes
      /\ \/ /\ t \in Cacheable /\ Clean(k)
            /\ Insert(t, [age |-> 0, version |-> task[k].seen, page |-> task[k].page,
                          said |-> task[k].said, raced |-> task[k].raced,
                          missed |-> FALSE])
         \/ UNCHANGED cache
      /\ Update(k, Idle)
      /\ UNCHANGED <<queue, permits, breaker, known, version, late, settled, adrift,
                     overrun>>

(* The upstream has carried a request of the call out; a cacheable call    *)
(* has then read from it.                                                  *)
Carried(j) == task[j].served \/ task[j].page > 0
Reading(j) == task[j].tool \in Cacheable /\ Carried(j)

(* A faulty Spared: only a write that succeeded busts the cache.           *)
SparedOnError(k) ==
  {t \in DOMAIN cache : \/ ~task[k].ok
                        \/ t \notin known
                        \/ UpstreamOf[t] # UpstreamOf[task[k].tool]}

(* The entries a write of task k leaves in the cache: bust_upstream_cache  *)
(* looks each one's upstream up in the catalog in force, and keeps those   *)
(* it does not find there.                                                 *)
Spared(k) ==
  {t \in DOMAIN cache : t \notin known \/ UpstreamOf[t] # UpstreamOf[task[k].tool]}

(* The end of a write, whatever its outcome: bust_upstream_cache.  Reads   *)
(* of that upstream still in flight are marked raced and its entries that  *)
(* stay are marked missed, for the invariants.                             *)
Bust(k) ==
  LET u == UpstreamOf[task[k].tool]
  IN  /\ task[k].stage = "finish"
      /\ task[k].tool \in Writes
      /\ cache' = [t \in Spared(k) |->
                     [cache[t] EXCEPT
                        !.missed = @ \/ (t \notin known /\ UpstreamOf[t] = u)]]
      /\ settled' = [settled EXCEPT ![u] = version[u]]
      /\ adrift' = adrift \ {u}
      /\ task' = [j \in Tasks |->
                    IF j = k THEN Idle
                    ELSE IF Reading(j) /\ UpstreamOf[task[j].tool] = u
                    THEN [task[j] EXCEPT !.raced = TRUE]
                    ELSE task[j]]
      /\ UNCHANGED <<queue, permits, breaker, known, version, late, overrun>>

(* A write the upstream has carried out and no bust has followed yet, and  *)
(* what is left of it when its future is dropped.                          *)
Writing(k) == task[k].tool \in Writes /\ Carried(k)
Drop(k) == adrift' = IF Writing(k) THEN adrift \cup {UpstreamOf[task[k].tool]} ELSE adrift

(* The client goes away at an await and the future is dropped, its place   *)
(* in the queue with it.                                                   *)
LeaveQueue(k) ==
  /\ task[k].stage = "queued"
  /\ \E i \in DOMAIN queue :
       /\ queue[i] = k
       /\ queue' = [j \in 1..(Len(queue) - 1) |-> queue[IF j < i THEN j ELSE j + 1]]
  /\ Update(k, Idle)
  /\ Drop(k)
  /\ UNCHANGED <<permits, breaker, cache, known, version, late, settled, overrun>>

(* The same on the wire: the slot is freed, the breaker is not told.       *)
HangUp(k) ==
  /\ task[k].stage = "called"
  /\ permits' = Released(k)
  /\ Abandon(k)
  /\ Drop(k)
  /\ Update(k, Idle)
  /\ UNCHANGED <<queue, breaker, cache, known, version, settled, overrun>>

----------------------------------------------------------------------------
(* The world around the tasks.                                             *)

(* A write the proxy gave up on commits after all.                         *)
LateCommit(u) ==
  /\ late[u] > 0
  /\ late' = [late EXCEPT ![u] = @ - 1]
  /\ version' = [version EXCEPT ![u] = @ + 1]
  /\ adrift' = adrift \cup {u}
  /\ UNCHANGED <<task, queue, permits, breaker, cache, known, settled, overrun>>

(* A re-index swaps the catalog in force: tools leave it and come back.    *)
(* The cache is not touched.                                               *)
Relist ==
  /\ \E S \in SUBSET Fickle : known' = (Tools \ Fickle) \cup S
  /\ known' # known
  /\ UNCHANGED <<task, queue, permits, breaker, cache, version, late, settled, adrift,
                 overrun>>

(* Timers are prompt: time does not pass a call's deadline, a free slot    *)
(* somebody waits for, or an outcome the breaker has yet to hear.  A tick  *)
(* is long beside those steps.                                             *)
Prompt ==
  /\ \A k \in Tasks : /\ task[k].stage # "record"
                      /\ task[k].stage = "called" => task[k].wire < Deadline
  /\ queue = <<>> \/ permits = 0

Live(k) == task[k].probe /\ task[k].stage \in {"queued", "called", "record"}
LiveProbes(t) == {k \in Tasks : Live(k) /\ task[k].tool = t}

Tick ==
  /\ Prompt
  /\ task' = [k \in Tasks |->
                [task[k] EXCEPT !.wire = IF task[k].stage = "called" THEN @ + 1 ELSE @,
                                !.age = IF Live(k) THEN Older(@) ELSE @]]
  /\ breaker' = [t \in Tools |-> Elapse(breaker[t])]
  /\ cache' = [t \in DOMAIN cache |->
                 [cache[t] EXCEPT !.age = IF @ < TTL THEN @ + 1 ELSE @]]
  /\ overrun' = overrun \cup
       {t \in Tools : \E k \in LiveProbes(t) : task[k].age + 1 >= StaleAfter}
  /\ UNCHANGED <<queue, permits, known, version, late, settled, adrift>>

----------------------------------------------------------------------------
(* The steps a task takes by itself once begun.  The transport's deadline  *)
(* makes an answer of some kind one of them.                               *)
Step(k) ==
  \/ Lookup(k) \/ Gate(k) \/ AcquireSlot(k) \/ AnswerOk(k) \/ AnswerError(k)
  \/ Record(k) \/ Store(k) \/ Bust(k)

Next ==
  \/ \E k \in Tasks, t \in Tools : Begin(k, t)
  \/ \E k \in Tasks : Step(k)
  \/ \E k \in Tasks : Serve(k)
  \/ \E k \in Tasks : LeaveQueue(k)
  \/ \E k \in Tasks : HangUp(k)
  \/ \E u \in Upstreams : LateCommit(u)
  \/ Relist
  \/ Tick

Spec == Init /\ [][Next]_vars

(* The runtime polls every task that is ready, timers fire and time goes   *)
(* on.  Nothing is asked of clients or upstreams.                          *)
Fairness ==
  /\ \A k \in Tasks : WF_vars(Step(k))
  /\ SF_vars(Tick)

FairSpec == Spec /\ Fairness

----------------------------------------------------------------------------
(* Slots.  Permits and the calls on the wire always add up to              *)
(* max_concurrent_calls: no path out of a call (an answer, a timeout, a    *)
(* dropped future) leaks or doubles a slot, and never more calls than that *)
(* are in flight.                                                          *)
OnWire == {k \in Tasks : task[k].stage = "called"}
SlotsConserved == permits + Cardinality(OnWire) = Slots

(* The queue for a slot is exactly the tasks that wait for one, once each. *)
QueueExact ==
  /\ \A k \in Tasks : task[k].stage = "queued" <=> \E i \in DOMAIN queue : queue[i] = k
  /\ \A i, j \in DOMAIN queue : queue[i] = queue[j] => i = j

(* Read cache.  An entry older than the last bust of its upstream was read *)
(* while that write was under way, or the catalog did not know its tool    *)
(* when the bust ran.                                                      *)
EntriesExplained ==
  \A t \in DOMAIN cache :
    cache[t].version < settled[UpstreamOf[t]] => cache[t].raced \/ cache[t].missed

(* A write no bust has settled still has its bust to come, or will have    *)
(* none: its request was dropped after the upstream carried it out, or it  *)
(* committed after it was given up on.                                     *)
WritesExplained ==
  \A u \in Upstreams :
    settled[u] < version[u]
      => u \in adrift \/ \E k \in Tasks : Writing(k) /\ UpstreamOf[task[k].tool] = u

(* A stale read has one of these four causes, and no other schedule of     *)
(* reads, writes, failures, evictions and re-indexes leaves one.  (They do:*)
(* the comment on bust_upstream_cache, that a write "must not leave stale  *)
(* reads behind", is too strong.)                                          *)
StaleExplained == EntriesExplained /\ WritesExplained

(* A cached list went on until its upstream ended it (no next cursor, the  *)
(* same cursor again, `more` not true, an empty page) or max_pages did: it *)
(* is never what was merged when a page failed or timed out.  (It may be   *)
(* short all the same: none of those ends sets partial_error, and paginate *)
(* then writes `more` false, so that "a pagination run that stopped early  *)
(* is NOT clean", of the comment on the insert, holds of failures only.)   *)
CachedListsEnded ==
  \A t \in DOMAIN cache \cap Paginated :
    cache[t].said = "more" => cache[t].page = MaxPages

(* Circuit breaker.  As long as no probe of a tool has stayed out for      *)
(* STALE_PROBE_AFTER, at most one of its probes is in flight, however late *)
(* results, cancellations and cooldowns interleave with it.                *)
OneProbe ==
  \A t \in Guarded \ overrun : \A j, k \in LiveProbes(t) : j = k

(* A breaker that has counted the threshold is open (or half-open).        *)
TrippedIsOpen ==
  \A t \in Tools : breaker[t].consecutive >= Threshold => breaker[t].openLeft # Never

(* Only a call that succeeded closes a breaker: not time, not a dropped    *)
(* probe, not a failure.                                                   *)
ClosesBySuccess ==
  \A t \in Tools :
    breaker[t].openLeft # Never /\ breaker'[t].openLeft = Never
      => \E k \in Tasks : /\ task[k].stage = "record" /\ task'[k].stage # "record"
                          /\ task[k].tool = t /\ task[k].ok

ClosedBySuccess == [][ClosesBySuccess]_vars

(* A breaker that refuses calls comes to admit one again, even when the    *)
(* probe it waits for was dropped and will never report.                   *)
BreakerRecovers ==
  \A t \in Guarded :
    (Decision(breaker[t]) = "block") ~> (Decision(breaker[t]) # "block")

(* A request ends: it does not wait for a slot for ever.                   *)
CallEnds(k) == (task[k].stage # "idle") ~> (task[k].stage = "idle")
=============================================================================
