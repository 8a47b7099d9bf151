------------------------------ MODULE Catalog ------------------------------
(***************************************************************************)
(* Re-indexing while serving, src/src/surface/catalog.rs.  An upstream may *)
(* change its tools at any time.  It announces the change, or it gave its  *)
(* listing a lifetime (ttlMs), or both.  A request that finds an upstream  *)
(* due lists it again, one request at a time, awaiting each listing; what  *)
(* differs from the catalog is assembled and vetted upstream by upstream,  *)
(* and one swap serves all that passed.                                    *)
(*                                                                         *)
(* A listing is its tools and, as history, how many changes of its         *)
(* upstream came before it.  ShapeOf is what the fingerprint covers: tools *)
(* of one shape differ in annotations only.                                *)
(***************************************************************************)
EXTENDS Integers, FiniteSets

CONSTANTS
  Requests,
  Upstreams,   (* 1..n, backend indices                                    *)
  Tools,       (* what an upstream may offer                               *)
  ShapeOf(_),  (* what listing_fingerprint sees of it                      *)
  Refused,     (* tools a vet refuses: a broken strong binding, poison     *)
  FirstTools,  (* [Upstreams -> Tools], listed at startup                  *)
  Announcing,  (* upstreams that send tools/list_changed                   *)
  Lived,       (* upstreams that send ttlMs                                *)
  MaxChanges,  (* bound of the model: changes per upstream                 *)
  MaxDrops     (* bound of the model: requests dropped while re-indexing   *)

ASSUME CatalogAssumption ==
  /\ IsFiniteSet(Upstreams)
  /\ Upstreams \subseteq Nat \ {0}
  /\ Refused \subseteq Tools
  /\ FirstTools \in [Upstreams -> Tools \ Refused]
  /\ Announcing \union Lived = Upstreams
  /\ {MaxChanges, MaxDrops} \subseteq Nat

VARIABLES
  offered,    (* what each upstream offers                                 *)
  note,       (* an announcement is on its way                             *)
  stale,      (* the transport's stale flag                                *)
  recheck,    (* recheck_at: "none", "later" or "due"                      *)
  served,     (* the listings the catalog in force was built from          *)
  flight,     (* each request's refresh_if_due                             *)
  unheard,    (* history: upstreams whose last signal came to nothing      *)
  drops

vars == <<offered, note, stale, recheck, served, flight, unheard, drops>>

Nobody == 0
Listing == [tools : Tools, age : 0..MaxChanges]
Changed == [u : Upstreams, listing : Listing]

(* A re-index: the catalog it started from, the upstreams still to be      *)
(* listed, the one awaited and its answer, the changed listings not yet    *)
(* assembled and those that have passed.                                   *)
Flight ==
  [on : BOOLEAN, current : {<<>>} \union [Upstreams -> Listing],
   todo : SUBSET Upstreams, at : Upstreams \union {Nobody},
   answer : SUBSET Listing, fresh : SUBSET Changed, accepted : SUBSET Changed]

NoFlight ==
  [on |-> FALSE, current |-> <<>>, todo |-> {}, at |-> Nobody, answer |-> {},
   fresh |-> {}, accepted |-> {}]

Init ==
  /\ offered = [u \in Upstreams |-> [tools |-> FirstTools[u], age |-> 0]]
  /\ note = [u \in Upstreams |-> FALSE]
  /\ stale = [u \in Upstreams |-> FALSE]
  /\ recheck = [u \in Upstreams |-> IF u \in Lived THEN "later" ELSE "none"]
  /\ served = offered
  /\ flight = [r \in Requests |-> NoFlight]
  /\ unheard = {}
  /\ drops = 0

----------------------------------------------------------------------------
(* The upstreams and the clock.                                            *)

Change(u) ==
  /\ offered[u].age < MaxChanges
  /\ \E t \in Tools \ {offered[u].tools} :
       offered' = [offered EXCEPT ![u] = [tools |-> t, age |-> @.age + 1]]
  /\ note' = [note EXCEPT ![u] = u \in Announcing]
  /\ UNCHANGED <<stale, recheck, served, flight, unheard, drops>>

(* The transport reads the announcement.                                   *)
Hear(u) ==
  /\ note[u]
  /\ note' = [note EXCEPT ![u] = FALSE]
  /\ stale' = [stale EXCEPT ![u] = TRUE]
  /\ UNCHANGED <<offered, recheck, served, flight, unheard, drops>>

(* The announcement dies with its connection: a child that exits and comes *)
(* back with other tools, a reply that was not a stream.                   *)
Lose(u) ==
  /\ note[u]
  /\ note' = [note EXCEPT ![u] = FALSE]
  /\ unheard' = unheard \union {u}
  /\ UNCHANGED <<offered, stale, recheck, served, flight, drops>>

(* recheck_at has come.                                                    *)
Lapse(u) ==
  /\ recheck[u] = "later"
  /\ recheck' = [recheck EXCEPT ![u] = "due"]
  /\ UNCHANGED <<offered, note, stale, served, flight, unheard, drops>>

----------------------------------------------------------------------------
(* refresh_if_due, at the start of a request.                              *)

(* A faulty Due: ttlMs goes unread.                                        *)
DueWhenAnnounced == {u \in Upstreams : stale[u]}

Due == {u \in Upstreams : stale[u] \/ recheck[u] = "due"}

(* A faulty Free: every request re-indexes.                                *)
FreeForAll(r) == ~flight[r].on

(* refreshing.try_lock                                                     *)
Free(r) == \A q \in Requests : ~flight[q].on

Start(r) ==
  /\ Free(r)
  /\ Due # {}
  /\ flight' = [flight EXCEPT ![r] =
       [NoFlight EXCEPT !.on = TRUE, !.current = served, !.todo = Due]]
  /\ UNCHANGED <<offered, note, stale, recheck, served, unheard, drops>>

Remaining(r, u) == flight[r].todo \ {u}

(* In the order of the upstreams: take_stale, then the listing is asked    *)
(* for.                                                                    *)
Ask(r, u) ==
  /\ flight[r].on
  /\ flight[r].at = Nobody
  /\ u \in flight[r].todo
  /\ \A v \in flight[r].todo : u <= v
  /\ stale' = [stale EXCEPT ![u] = FALSE]
  /\ flight' = [flight EXCEPT ![r].at = u, ![r].todo = Remaining(r, u)]
  /\ unheard' = unheard \ {u}
  /\ UNCHANGED <<offered, note, recheck, served, drops>>

(* The upstream answers with what it offers then.                          *)
Answer(r) ==
  /\ flight[r].at # Nobody
  /\ flight[r].answer = {}
  /\ flight' = [flight EXCEPT ![r].answer = {offered[flight[r].at]}]
  /\ UNCHANGED <<offered, note, stale, recheck, served, unheard, drops>>

(* schedule_recheck, from the listing's ttlMs.                             *)
Scheduled(u) == [recheck EXCEPT ![u] = IF u \in Lived THEN "later" ELSE "none"]

RetryLater(u) == [recheck EXCEPT ![u] = "later"]

Differs(l, m) == ShapeOf(l.tools) # ShapeOf(m.tools)

Listed(r, u) ==
  /\ flight[r].at = u
  /\ recheck' = Scheduled(u)
  /\ \E l \in flight[r].answer :
       flight' = [flight EXCEPT
         ![r].at = Nobody, ![r].answer = {},
         ![r].fresh = IF Differs(l, flight[r].current[u])
                      THEN @ \union {[u |-> u, listing |-> l]} ELSE @]
  /\ UNCHANGED <<offered, note, stale, served, unheard, drops>>

ListingFails(r) ==
  /\ flight[r].at # Nobody
  /\ recheck' = RetryLater(flight[r].at)
  /\ flight' = [flight EXCEPT ![r].at = Nobody, ![r].answer = {}]
  /\ UNCHANGED <<offered, note, stale, served, unheard, drops>>

(* The listings done, each change is assembled on top of those accepted,   *)
(* in the order of the upstreams.                                          *)
Finished(r) == flight[r].on /\ flight[r].at = Nobody /\ flight[r].todo = {}

Assembling(r, u) ==
  /\ Finished(r)
  /\ u \in {c.u : c \in flight[r].fresh}
  /\ \A c \in flight[r].fresh : u <= c.u

Accept(r, u) ==
  /\ Assembling(r, u)
  /\ \E c \in flight[r].fresh :
       /\ c.u = u
       /\ c.listing.tools \notin Refused
       /\ flight' = [flight EXCEPT ![r].fresh = @ \ {c}, ![r].accepted = @ \union {c}]
  /\ UNCHANGED <<offered, note, stale, recheck, served, unheard, drops>>

(* A faulty AfterRefusal: a refused upstream is not looked at again.       *)
RefusedForGood(u) == recheck

AfterRefusal(u) == RetryLater(u)

(* The vet refuses it, or a secret of some tool's headers does not resolve *)
(* and nothing can be assembled.                                           *)
Refuse(r, u) ==
  /\ Assembling(r, u)
  /\ recheck' = AfterRefusal(u)
  /\ flight' = [flight EXCEPT ![r].fresh = {c \in @ : c.u # u}]
  /\ UNCHANGED <<offered, note, stale, served, unheard, drops>>

(* The accepted listings, the catalog's own elsewhere.                     *)
Merged(f) ==
  [u \in Upstreams |->
     IF \E c \in f.accepted : c.u = u
     THEN (CHOOSE c \in f.accepted : c.u = u).listing
     ELSE f.current[u]]

(* The new catalog, if any listing passed, is swapped in; the lock goes.   *)
Swap(r) ==
  /\ Finished(r)
  /\ flight[r].fresh = {}
  /\ served' = IF flight[r].accepted = {} THEN served ELSE Merged(flight[r])
  /\ flight' = [flight EXCEPT ![r] = NoFlight]
  /\ UNCHANGED <<offered, note, stale, recheck, unheard, drops>>

(* The request is dropped at an await, a listing's or a secret's, and with *)
(* it what it had consumed and not yet served.                             *)
Discarded(f) ==
  {u \in Upstreams : u = f.at \/ \E c \in f.fresh \union f.accepted : c.u = u}

Drop(r) ==
  /\ drops < MaxDrops
  /\ flight[r].at # Nobody \/ (Finished(r) /\ flight[r].fresh # {})
  /\ flight' = [flight EXCEPT ![r] = NoFlight]
  /\ unheard' = unheard \union Discarded(flight[r])
  /\ drops' = drops + 1
  /\ UNCHANGED <<offered, note, stale, recheck, served>>

Next ==
  \/ \E u \in Upstreams : Change(u)
  \/ \E u \in Upstreams : Hear(u)
  \/ \E u \in Upstreams : Lose(u)
  \/ \E u \in Upstreams : Lapse(u)
  \/ \E r \in Requests : Start(r)
  \/ \E r \in Requests, u \in Upstreams : Ask(r, u)
  \/ \E r \in Requests : Answer(r)
  \/ \E r \in Requests, u \in Upstreams : Listed(r, u)
  \/ \E r \in Requests : ListingFails(r)
  \/ \E r \in Requests, u \in Upstreams : Accept(r, u)
  \/ \E r \in Requests, u \in Upstreams : Refuse(r, u)
  \/ \E r \in Requests : Swap(r)
  \/ \E r \in Requests : Drop(r)

Spec == Init /\ [][Next]_vars

(* Requests keep coming, so what is due is looked at and a re-index that   *)
(* is not dropped goes on; time passes; an upstream that is asked again    *)
(* and again answers, and its secrets resolve, once in a while.            *)
Fairness ==
  /\ WF_vars(\E r \in Requests : Start(r))
  /\ \A r \in Requests : WF_vars(Swap(r) \/ \E u \in Upstreams : Ask(r, u))
  /\ \A r \in Requests : WF_vars(\E u \in Upstreams : Refuse(r, u))
  /\ \A u \in Upstreams :
       /\ WF_vars(Hear(u))
       /\ WF_vars(Lapse(u))
       /\ SF_vars(\E r \in Requests : flight[r].at = u /\ Answer(r))
       /\ SF_vars(\E r \in Requests : Listed(r, u))
       /\ SF_vars(\E r \in Requests : Accept(r, u))

FairSpec == Spec /\ Fairness

----------------------------------------------------------------------------
WellFormed(f) ==
  /\ f.on => f.current \in [Upstreams -> Listing]
  /\ f.at \notin f.todo

(* Every variable keeps its type; a re-index works on a catalog, and the   *)
(* upstream it awaits is no longer to be listed.                           *)
TypeOK ==
  /\ offered \in [Upstreams -> Listing]
  /\ note \in [Upstreams -> BOOLEAN]
  /\ stale \in [Upstreams -> BOOLEAN]
  /\ recheck \in [Upstreams -> {"none", "later", "due"}]
  /\ served \in [Upstreams -> Listing]
  /\ flight \in [Requests -> Flight]
  /\ unheard \subseteq Upstreams
  /\ drops \in 0..MaxDrops
  /\ \A r \in Requests : WellFormed(flight[r])

(* What will bring u to a re-index, or what of it is in one: the listing   *)
(* under way has not been answered, or was answered with what is offered.  *)
Signalled(u) == note[u] \/ stale[u] \/ recheck[u] # "none"

InHand(r, u) ==
  \/ u \in flight[r].todo
  \/ flight[r].at = u /\ flight[r].answer = {}
  \/ flight[r].at = u /\ \E l \in flight[r].answer : ~Differs(l, offered[u])
  \/ \E c \in flight[r].fresh \union flight[r].accepted :
       c.u = u /\ ~Differs(c.listing, offered[u])

(* An upstream whose tools are not the ones served is still signalled or   *)
(* being re-indexed, through listings that fail, changes made while one is *)
(* awaited, and refusals ("without this a legacy upstream that never       *)
(* announces again would stay stale for good").  The exception is an       *)
(* upstream without ttlMs whose announcement was lost on the way or taken  *)
(* by a request that was then dropped.                                     *)
NothingForgotten ==
  \A u \in Upstreams :
    Differs(offered[u], served[u]) =>
      \/ Signalled(u)
      \/ \E r \in Requests : InHand(r, u)
      \/ u \in unheard \ Lived

(* No re-index puts back tools that a later listing has replaced: the lock *)
(* keeps two requests from merging into one catalog.                       *)
NeverBackwards ==
  [][\A u \in Upstreams : served'[u].age >= served[u].age]_vars

(* Once the upstreams stop changing, each is served as it is, or refused,  *)
(* or its only signal was lost: no refusal or failure of another upstream  *)
(* holds it back.                                                          *)
EveryChangeServed ==
  <>[](\A u \in Upstreams :
         \/ ~Differs(offered[u], served[u])
         \/ offered[u].tools \in Refused
         \/ u \in unheard \ Lived)
=============================================================================
