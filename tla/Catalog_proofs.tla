-------------------------- MODULE Catalog_proofs --------------------------
(***************************************************************************)
(* Proofs about Catalog: types, NothingForgotten and NeverBackwards, for   *)
(* any requests, upstreams and tools.                                      *)
(***************************************************************************)
EXTENDS Catalog, TLAPS

USE DEF Nobody

----------------------------------------------------------------------------
(* Types.                                                                  *)

(* An upstream is not Nobody, and what is served or offered is a listing.  *)
LEMMA Typed ==
  ASSUME TypeOK, NEW u \in Upstreams
  PROVE  /\ u # Nobody
         /\ offered[u] \in Listing
         /\ served[u] \in Listing
BY CatalogAssumption DEF TypeOK

(* The initial state is well typed.                                        *)
LEMMA InitType == Init => TypeOK
<1> SUFFICES ASSUME Init PROVE TypeOK
  OBVIOUS
<1>1. offered \in [Upstreams -> Listing]
  BY CatalogAssumption DEF Init, Listing
<1>2. NoFlight \in Flight /\ WellFormed(NoFlight)
  BY DEF NoFlight, Flight, WellFormed
<1>3. QED BY <1>1, <1>2, CatalogAssumption DEF Init, TypeOK

(* A request's re-index changes to one that is well typed.                 *)
LEMMA FlightType ==
  ASSUME TypeOK, NEW r \in Requests, NEW f \in Flight, WellFormed(f),
         flight' = [flight EXCEPT ![r] = f]
  PROVE  /\ flight' \in [Requests -> Flight]
         /\ \A q \in Requests : WellFormed(flight'[q])
BY DEF TypeOK

(* Every step keeps the types.                                             *)
LEMMA NextType == TypeOK /\ [Next]_vars => TypeOK'
<1> SUFFICES ASSUME TypeOK, [Next]_vars PROVE TypeOK'
  OBVIOUS
<1>a. \A r \in Requests : flight[r] \in Flight /\ WellFormed(flight[r])
  BY DEF TypeOK
<1>b. NoFlight \in Flight /\ WellFormed(NoFlight)
  BY DEF NoFlight, Flight, WellFormed
<1>1. ASSUME NEW u \in Upstreams, Change(u) PROVE TypeOK'
  <2>1. PICK t \in Tools : offered' = [offered EXCEPT ![u] = [tools |-> t, age |-> @.age + 1]]
    BY <1>1 DEF Change
  <2>2. offered[u].age + 1 \in 0..MaxChanges
    BY <1>1, CatalogAssumption DEF Change, TypeOK, Listing
  <2>3. offered' \in [Upstreams -> Listing]
    BY <2>1, <2>2 DEF TypeOK, Listing
  <2>4. QED BY <1>1, <2>3 DEF Change, TypeOK
<1>2. ASSUME NEW u \in Upstreams, Hear(u) PROVE TypeOK'
  BY <1>2 DEF Hear, TypeOK
<1>3. ASSUME NEW u \in Upstreams, Lose(u) PROVE TypeOK'
  BY <1>3 DEF Lose, TypeOK
<1>4. ASSUME NEW u \in Upstreams, Lapse(u) PROVE TypeOK'
  BY <1>4 DEF Lapse, TypeOK
<1>5. ASSUME NEW r \in Requests, Start(r) PROVE TypeOK'
  <2> DEFINE f == [NoFlight EXCEPT !.on = TRUE, !.current = served, !.todo = Due]
  <2>1. f \in Flight /\ WellFormed(f)
    BY CatalogAssumption DEF NoFlight, Flight, TypeOK, Due, WellFormed
  <2>2. flight' = [flight EXCEPT ![r] = f]
    BY <1>5 DEF Start
  <2>3. QED BY <1>5, <2>1, <2>2, FlightType DEF Start, TypeOK
<1>6. ASSUME NEW r \in Requests, NEW u \in Upstreams, Ask(r, u) PROVE TypeOK'
  <2> DEFINE f == [flight[r] EXCEPT !.at = u, !.todo = flight[r].todo \ {u}]
  <2>1. f \in Flight /\ WellFormed(f)
    BY <1>a DEF Flight, WellFormed
  <2>2. flight' = [flight EXCEPT ![r] = f]
    BY <1>6 DEF Ask, Remaining, TypeOK
  <2>3. QED BY <1>6, <2>1, <2>2, FlightType DEF Ask, TypeOK
<1>7. ASSUME NEW r \in Requests, Answer(r) PROVE TypeOK'
  <2> DEFINE f == [flight[r] EXCEPT !.answer = {offered[flight[r].at]}]
  <2>1. f \in Flight /\ WellFormed(f)
    BY <1>7, <1>a DEF Answer, Flight, TypeOK, WellFormed
  <2>2. flight' = [flight EXCEPT ![r] = f]
    BY <1>7 DEF Answer, TypeOK
  <2>3. QED BY <1>7, <2>1, <2>2, FlightType DEF Answer, TypeOK
<1>8. ASSUME NEW r \in Requests, NEW u \in Upstreams, Listed(r, u) PROVE TypeOK'
  <2>1. PICK l \in flight[r].answer :
          flight' = [flight EXCEPT
            ![r].at = Nobody, ![r].answer = {},
            ![r].fresh = IF Differs(l, flight[r].current[u])
                         THEN @ \union {[u |-> u, listing |-> l]} ELSE @]
    BY <1>8 DEF Listed
  <2> DEFINE g == IF Differs(l, flight[r].current[u])
                  THEN flight[r].fresh \union {[u |-> u, listing |-> l]}
                  ELSE flight[r].fresh
             f == [flight[r] EXCEPT !.at = Nobody, !.answer = {}, !.fresh = g]
  <2>2. g \subseteq Changed
    BY <1>a DEF Flight, Changed
  <2>3. f \in Flight /\ WellFormed(f)
    BY <1>a, <2>2, CatalogAssumption, ZenonT(40) DEF Flight, WellFormed
  <2>4. flight' = [flight EXCEPT ![r] = f]
    BY <2>1 DEF TypeOK
  <2>5. recheck' \in [Upstreams -> {"none", "later", "due"}]
    BY <1>8 DEF Listed, Scheduled, TypeOK
  <2>6. QED BY <1>8, <2>3, <2>4, <2>5, FlightType DEF Listed, TypeOK
<1>9. ASSUME NEW r \in Requests, ListingFails(r) PROVE TypeOK'
  <2> DEFINE f == [flight[r] EXCEPT !.at = Nobody, !.answer = {}]
  <2>1. f \in Flight /\ WellFormed(f)
    BY <1>a, CatalogAssumption DEF Flight, WellFormed
  <2>2. flight' = [flight EXCEPT ![r] = f]
    BY <1>9 DEF ListingFails, TypeOK
  <2>3. QED BY <1>9, <2>1, <2>2, FlightType DEF ListingFails, RetryLater, TypeOK
<1>10. ASSUME NEW r \in Requests, NEW u \in Upstreams, Accept(r, u) PROVE TypeOK'
  <2>1. PICK c \in flight[r].fresh :
          flight' = [flight EXCEPT ![r].fresh = @ \ {c}, ![r].accepted = @ \union {c}]
    BY <1>10 DEF Accept
  <2> DEFINE f == [flight[r] EXCEPT !.fresh = flight[r].fresh \ {c},
                                    !.accepted = flight[r].accepted \union {c}]
  <2>2. /\ flight[r].fresh \ {c} \subseteq Changed
        /\ flight[r].accepted \union {c} \subseteq Changed
    BY <1>a DEF Flight
  <2>3. f \in Flight /\ WellFormed(f)
    BY <1>a, <2>2 DEF Flight, WellFormed
  <2>4. flight' = [flight EXCEPT ![r] = f]
    BY <2>1 DEF TypeOK
  <2>5. QED BY <1>10, <2>3, <2>4, FlightType DEF Accept, TypeOK
<1>11. ASSUME NEW r \in Requests, NEW u \in Upstreams, Refuse(r, u) PROVE TypeOK'
  <2> DEFINE f == [flight[r] EXCEPT !.fresh = {c \in flight[r].fresh : c.u # u}]
  <2>1. f \in Flight /\ WellFormed(f)
    BY <1>a DEF Flight, TypeOK, WellFormed
  <2>2. flight' = [flight EXCEPT ![r] = f]
    BY <1>11 DEF Refuse, TypeOK
  <2>3. QED BY <1>11, <2>1, <2>2, FlightType DEF Refuse, AfterRefusal, RetryLater, TypeOK
<1>12. ASSUME NEW r \in Requests, Swap(r) PROVE TypeOK'
  <2>1. CASE flight[r].accepted = {}
    BY <1>b, <1>12, <2>1, FlightType DEF Swap, TypeOK
  <2>2. CASE flight[r].accepted # {}
    <3>1. flight[r].current \in {<<>>} \union [Upstreams -> Listing]
          /\ flight[r].accepted \subseteq Changed
      BY <1>a DEF Flight
    <3>2. flight[r].current \in [Upstreams -> Listing]
      BY <1>a, <1>12 DEF Swap, Finished, WellFormed
    <3>3. Merged(flight[r]) \in [Upstreams -> Listing]
      BY <3>1, <3>2 DEF Merged, Changed
    <3>4. QED BY <1>b, <1>12, <2>2, <3>3, FlightType DEF Swap, TypeOK
  <2>3. QED BY <2>1, <2>2
<1>13. ASSUME NEW r \in Requests, Drop(r) PROVE TypeOK'
  <2>1. unheard' \subseteq Upstreams
    BY <1>13 DEF Drop, Discarded, TypeOK
  <2>2. MaxDrops \in Nat
    BY CatalogAssumption
  <2>3. drops' \in 0..MaxDrops
    BY <1>13, <2>2 DEF Drop, TypeOK
  <2>4. QED BY <1>b, <1>13, <2>1, <2>3, FlightType DEF Drop, TypeOK
<1>14. CASE UNCHANGED vars
  BY <1>14 DEF vars, TypeOK
<1>15. QED
  BY <1>1, <1>2, <1>3, <1>4, <1>5, <1>6, <1>7, <1>8, <1>9, <1>10, <1>11, <1>12,
     <1>13, <1>14 DEF Next

(* Every variable of the re-index keeps its type, for any requests,        *)
(* upstreams and tools.                                                    *)
THEOREM TypeCorrect == Spec => []TypeOK
BY InitType, NextType, PTL DEF Spec
----------------------------------------------------------------------------
(* Nothing is forgotten.                                                   *)

(* Any signal of u but a recheck, which the next listing may take away.    *)
Heard(u) == note[u] \/ stale[u] \/ u \in Lived \/ u \in unheard

Changes(r) == flight[r].fresh \union flight[r].accepted

(* The lock: one request re-indexes, on top of the catalog in force.       *)
OneFlight ==
  \A r \in Requests :
    /\ ~flight[r].on => flight[r] = NoFlight
    /\ flight[r].on => /\ flight[r].current = served
                      /\ \A q \in Requests : flight[q].on => q = r

(* What is still to be listed is in no later stage, and an answer is that  *)
(* of the upstream awaited.                                                *)
Staged ==
  \A r \in Requests :
    /\ flight[r].at = Nobody => flight[r].answer = {}
    /\ \A c \in Changes(r) : c.u \notin flight[r].todo

(* Each place where a re-index holds something older than what is offered  *)
(* has left a signal that outlives it.                                     *)
SignalsKept ==
  /\ \A u \in Lived : recheck[u] # "none"
  /\ \A r \in Requests :
       /\ \A u \in flight[r].todo : stale[u] \/ recheck[u] # "none"
       /\ \A l \in flight[r].answer :
            Differs(l, offered[flight[r].at]) => Heard(flight[r].at)
       /\ \A c \in Changes(r) : Differs(c.listing, offered[c.u]) => Heard(c.u)

(* A request with anything in hand is re-indexing.                         *)
LEMMA Working ==
  ASSUME OneFlight, NEW r \in Requests, flight[r].at # Nobody \/ Changes(r) # {}
  PROVE  flight[r].on
BY DEF OneFlight, NoFlight, Changes

(* What a step of r's re-index leaves alone.                               *)
Works(r) ==
  /\ flight[r].on /\ flight'[r].on
  /\ flight'[r].current = flight[r].current
  /\ \A q \in Requests \ {r} : flight[q] = NoFlight /\ flight'[q] = NoFlight

(* An update of what r has in hand.                                        *)
LEMMA OneWorks ==
  ASSUME TypeOK, OneFlight, NEW r \in Requests, NEW f, flight[r].on,
         flight' = [flight EXCEPT ![r] = f],
         f.on = TRUE, f.current = flight[r].current
  PROVE  Works(r) /\ flight'[r] = f
BY DEF OneFlight, TypeOK, Works

(* The steps of a re-index, field by field.                                *)
LEMMA AskStep ==
  ASSUME TypeOK, OneFlight, NEW r \in Requests, NEW u \in Upstreams, Ask(r, u)
  PROVE  /\ Works(r)
         /\ flight[r].at = Nobody /\ u \in flight[r].todo
         /\ flight'[r].at = u /\ flight'[r].todo = flight[r].todo \ {u}
         /\ flight'[r].answer = flight[r].answer
         /\ Changes(r)' = Changes(r)
<1> DEFINE f == [flight[r] EXCEPT !.at = u, !.todo = flight[r].todo \ {u}]
<1>1. flight' = [flight EXCEPT ![r] = f]
  BY DEF Ask, Remaining, TypeOK
<1>2. /\ f.on = TRUE /\ f.current = flight[r].current /\ f.answer = flight[r].answer
      /\ f.at = u /\ f.todo = flight[r].todo \ {u}
      /\ f.fresh = flight[r].fresh /\ f.accepted = flight[r].accepted
  BY DEF Ask, TypeOK, Flight
<1>3. Works(r) /\ flight'[r] = f
  BY <1>1, <1>2, OneWorks DEF Ask
<1>4. QED BY <1>2, <1>3 DEF Ask, Changes

(* The same of an answer.                                                  *)
LEMMA AnswerStep ==
  ASSUME TypeOK, OneFlight, NEW r \in Requests, Answer(r)
  PROVE  /\ Works(r)
         /\ flight[r].at # Nobody
         /\ flight'[r].at = flight[r].at /\ flight'[r].todo = flight[r].todo
         /\ flight'[r].answer = {offered[flight[r].at]}
         /\ Changes(r)' = Changes(r)
<1> DEFINE f == [flight[r] EXCEPT !.answer = {offered[flight[r].at]}]
<1>1. flight' = [flight EXCEPT ![r] = f]
  BY DEF Answer, TypeOK
<1>2. flight[r].on
  BY Working DEF Answer
<1>3. /\ f.on = TRUE /\ f.current = flight[r].current
      /\ f.answer = {offered[flight[r].at]}
      /\ f.at = flight[r].at /\ f.todo = flight[r].todo
      /\ f.fresh = flight[r].fresh /\ f.accepted = flight[r].accepted
  BY <1>2 DEF TypeOK, Flight
<1>4. Works(r) /\ flight'[r] = f
  BY <1>1, <1>2, <1>3, OneWorks
<1>5. QED BY <1>3, <1>4 DEF Answer, Changes

(* Of a listing of u: it is set aside if it differs from the catalog's.    *)
LEMMA ListedStep ==
  ASSUME TypeOK, OneFlight, NEW r \in Requests, NEW u \in Upstreams, Listed(r, u)
  PROVE  /\ Works(r)
         /\ flight[r].at = u
         /\ flight'[r].at = Nobody /\ flight'[r].todo = flight[r].todo
         /\ flight'[r].answer = {}
         /\ \E l \in flight[r].answer :
              Changes(r)' = IF Differs(l, served[u])
                            THEN Changes(r) \union {[u |-> u, listing |-> l]}
                            ELSE Changes(r)
<1>1. flight[r].at = u /\ flight[r].on
  BY Typed, Working DEF Listed
<1>2. PICK l \in flight[r].answer :
        flight' = [flight EXCEPT
          ![r].at = Nobody, ![r].answer = {},
          ![r].fresh = IF Differs(l, flight[r].current[u])
                       THEN @ \union {[u |-> u, listing |-> l]} ELSE @]
  BY DEF Listed
<1>3. flight[r].current = served
  BY <1>1 DEF OneFlight
<1> DEFINE g == IF Differs(l, served[u])
                THEN flight[r].fresh \union {[u |-> u, listing |-> l]}
                ELSE flight[r].fresh
           f == [flight[r] EXCEPT !.at = Nobody, !.answer = {}, !.fresh = g]
<1>4. flight' = [flight EXCEPT ![r] = f]
  BY <1>2, <1>3 DEF TypeOK
<1>5. /\ f.on = TRUE /\ f.current = flight[r].current /\ f.answer = {}
      /\ f.at = Nobody /\ f.todo = flight[r].todo
      /\ f.fresh = g /\ f.accepted = flight[r].accepted
  BY <1>1 DEF TypeOK, Flight
<1>6. Works(r) /\ flight'[r] = f
  BY <1>1, <1>4, <1>5, OneWorks
<1>7. QED BY <1>1, <1>5, <1>6 DEF Changes

(* Of a listing that failed.                                               *)
LEMMA FailureStep ==
  ASSUME TypeOK, OneFlight, NEW r \in Requests, ListingFails(r)
  PROVE  /\ Works(r)
         /\ flight[r].at # Nobody
         /\ flight'[r].at = Nobody /\ flight'[r].todo = flight[r].todo
         /\ flight'[r].answer = {}
         /\ Changes(r)' = Changes(r)
<1> DEFINE f == [flight[r] EXCEPT !.at = Nobody, !.answer = {}]
<1>1. flight' = [flight EXCEPT ![r] = f]
  BY DEF ListingFails, TypeOK
<1>2. flight[r].on
  BY Working DEF ListingFails
<1>3. /\ f.on = TRUE /\ f.current = flight[r].current /\ f.answer = {}
      /\ f.at = Nobody /\ f.todo = flight[r].todo
      /\ f.fresh = flight[r].fresh /\ f.accepted = flight[r].accepted
  BY <1>2 DEF TypeOK, Flight
<1>4. Works(r) /\ flight'[r] = f
  BY <1>1, <1>2, <1>3, OneWorks
<1>5. QED BY <1>3, <1>4 DEF ListingFails, Changes

(* Of an accepted change, which goes from one set to the other.            *)
LEMMA AcceptStep ==
  ASSUME TypeOK, OneFlight, NEW r \in Requests, NEW u \in Upstreams, Accept(r, u)
  PROVE  /\ Works(r)
         /\ flight'[r].at = flight[r].at /\ flight'[r].todo = flight[r].todo
         /\ flight'[r].answer = flight[r].answer
         /\ Changes(r)' = Changes(r)
<1>1. PICK c \in flight[r].fresh :
        flight' = [flight EXCEPT ![r].fresh = @ \ {c}, ![r].accepted = @ \union {c}]
  BY DEF Accept
<1> DEFINE f == [flight[r] EXCEPT !.fresh = flight[r].fresh \ {c},
                                  !.accepted = flight[r].accepted \union {c}]
<1>2. flight' = [flight EXCEPT ![r] = f]
  BY <1>1 DEF TypeOK
<1>3. flight[r].on
  BY DEF Accept, Assembling, Finished
<1>4. /\ f.on = TRUE /\ f.current = flight[r].current /\ f.answer = flight[r].answer
      /\ f.at = flight[r].at /\ f.todo = flight[r].todo
      /\ f.fresh = flight[r].fresh \ {c}
      /\ f.accepted = flight[r].accepted \union {c}
  BY <1>3 DEF TypeOK, Flight
<1>5. Works(r) /\ flight'[r] = f
  BY <1>2, <1>3, <1>4, OneWorks
<1>6. QED BY <1>4, <1>5 DEF Changes

(* Of a refused one, which is gone.                                        *)
LEMMA RefuseStep ==
  ASSUME TypeOK, OneFlight, NEW r \in Requests, NEW u \in Upstreams, Refuse(r, u)
  PROVE  /\ Works(r)
         /\ flight'[r].at = flight[r].at /\ flight'[r].todo = flight[r].todo
         /\ flight'[r].answer = flight[r].answer
         /\ Changes(r)' \subseteq Changes(r)
         /\ \A c \in Changes(r) \ Changes(r)' : c.u = u
<1> DEFINE f == [flight[r] EXCEPT !.fresh = {c \in flight[r].fresh : c.u # u}]
<1>1. flight' = [flight EXCEPT ![r] = f]
  BY DEF Refuse, TypeOK
<1>2. flight[r].on
  BY DEF Refuse, Assembling, Finished
<1>3. /\ f.on = TRUE /\ f.current = flight[r].current /\ f.answer = flight[r].answer
      /\ f.at = flight[r].at /\ f.todo = flight[r].todo
      /\ f.fresh = {c \in flight[r].fresh : c.u # u}
      /\ f.accepted = flight[r].accepted
  BY <1>2 DEF TypeOK, Flight
<1>4. Works(r) /\ flight'[r] = f
  BY <1>1, <1>2, <1>3, OneWorks
<1>5. QED BY <1>3, <1>4 DEF Changes

(* A re-index that is over leaves none.                                    *)
LEMMA EndStep ==
  ASSUME TypeOK, OneFlight, NEW r \in Requests, Swap(r) \/ Drop(r)
  PROVE  flight[r].on /\ \A q \in Requests : flight'[q] = NoFlight
<1>1. flight[r].on /\ flight' = [flight EXCEPT ![r] = NoFlight]
  BY Working DEF Swap, Drop, Finished
<1>2. QED BY <1>1 DEF OneFlight, TypeOK

(* One that begins is the only one.                                        *)
LEMMA StartStep ==
  ASSUME TypeOK, OneFlight, NEW r \in Requests, Start(r)
  PROVE  /\ \A q \in Requests : flight[q] = NoFlight
         /\ \A q \in Requests \ {r} : flight'[q] = NoFlight
         /\ flight'[r].on /\ flight'[r].current = served
         /\ flight'[r].at = Nobody /\ flight'[r].todo = Due
         /\ flight'[r].answer = {} /\ Changes(r)' = {}
BY DEF Start, Free, OneFlight, TypeOK, NoFlight, Changes

(* Nothing is in hand where no re-index is.                                *)
LEMMA Empty ==
  /\ ~NoFlight.on /\ NoFlight.at = Nobody /\ NoFlight.todo = {}
  /\ NoFlight.answer = {}
  /\ \A r : flight[r] = NoFlight => Changes(r) = {}
  /\ \A r : flight'[r] = NoFlight => Changes(r)' = {}
BY DEF NoFlight, Changes

(* Every step keeps the lock.                                              *)
LEMMA NextOneFlight == TypeOK /\ OneFlight /\ [Next]_vars => OneFlight'
<1> SUFFICES ASSUME TypeOK, OneFlight, [Next]_vars PROVE OneFlight'
  OBVIOUS
<1>1. CASE UNCHANGED <<flight, served>>
  BY <1>1 DEF OneFlight
<1>2. ASSUME NEW r \in Requests, Start(r) PROVE OneFlight'
  <2>1. \A q \in Requests \ {r} : flight'[q] = NoFlight /\ ~flight'[q].on
    BY <1>2, StartStep, Empty
  <2>2. flight'[r].on /\ flight'[r].current = served'
    BY <1>2, StartStep DEF Start
  <2>3. QED BY <2>1, <2>2 DEF OneFlight
<1>3. ASSUME NEW r \in Requests, Works(r), served' = served PROVE OneFlight'
  BY <1>3, Empty DEF Works, OneFlight
<1>4. ASSUME NEW r \in Requests, Swap(r) \/ Drop(r) PROVE OneFlight'
  BY <1>4, EndStep, Empty DEF OneFlight
<1>5. ASSUME NEW r \in Requests, NEW u \in Upstreams,
             Ask(r, u) \/ Listed(r, u) \/ Accept(r, u) \/ Refuse(r, u)
      PROVE  OneFlight'
  <2>1. CASE Ask(r, u)
    BY <1>3, <2>1, AskStep DEF Ask
  <2>2. CASE Listed(r, u)
    BY <1>3, <2>2, ListedStep DEF Listed
  <2>3. CASE Accept(r, u)
    BY <1>3, <2>3, AcceptStep DEF Accept
  <2>4. CASE Refuse(r, u)
    BY <1>3, <2>4, RefuseStep DEF Refuse
  <2>5. QED BY <1>5, <2>1, <2>2, <2>3, <2>4
<1>6. ASSUME NEW r \in Requests, Answer(r) \/ ListingFails(r) PROVE OneFlight'
  BY <1>3, <1>6, AnswerStep, FailureStep DEF Answer, ListingFails
<1>7. QED
  BY <1>1, <1>2, <1>4, <1>5, <1>6 DEF Next, Change, Hear, Lose, Lapse, vars

(* Every step keeps the stages apart.                                      *)
LEMMA NextStaged == TypeOK /\ OneFlight /\ Staged /\ [Next]_vars => Staged'
<1> SUFFICES ASSUME TypeOK, OneFlight, Staged, [Next]_vars PROVE Staged'
  OBVIOUS
<1>a. ASSUME NEW r \in Requests, \A q \in Requests \ {r} : flight'[q] = NoFlight,
             flight'[r].at = Nobody => flight'[r].answer = {},
             \A c \in Changes(r)' : c.u \notin flight'[r].todo
      PROVE  Staged'
  BY <1>a, Empty DEF Staged
<1>1. CASE UNCHANGED flight
  BY <1>1 DEF Staged, Changes
<1>2. ASSUME NEW r \in Requests, Start(r) PROVE Staged'
  BY <1>2, <1>a, StartStep
<1>3. ASSUME NEW r \in Requests, NEW u \in Upstreams, Ask(r, u) PROVE Staged'
  BY <1>3, <1>a, AskStep, Typed DEF Staged, Works
<1>4. ASSUME NEW r \in Requests, Answer(r) PROVE Staged'
  BY <1>4, <1>a, AnswerStep DEF Staged, Works
<1>5. ASSUME NEW r \in Requests, NEW u \in Upstreams, Listed(r, u) PROVE Staged'
  <2>1. u \notin flight[r].todo
    BY <1>5 DEF Listed, TypeOK, WellFormed
  <2>2. \A c \in Changes(r)' : c \in Changes(r) \/ c.u = u
    BY <1>5, ListedStep
  <2>3. \A c \in Changes(r)' : c.u \notin flight'[r].todo
    BY <1>5, <2>1, <2>2, ListedStep DEF Staged
  <2>4. QED BY <1>5, <1>a, <2>3, ListedStep DEF Works
<1>6. ASSUME NEW r \in Requests, ListingFails(r) PROVE Staged'
  BY <1>6, <1>a, FailureStep DEF Staged, Works
<1>7. ASSUME NEW r \in Requests, NEW u \in Upstreams, Accept(r, u) PROVE Staged'
  BY <1>7, <1>a, AcceptStep DEF Staged, Works
<1>8. ASSUME NEW r \in Requests, NEW u \in Upstreams, Refuse(r, u) PROVE Staged'
  BY <1>8, <1>a, RefuseStep DEF Staged, Works
<1>9. ASSUME NEW r \in Requests, Swap(r) \/ Drop(r) PROVE Staged'
  BY <1>9, EndStep, Empty DEF Staged
<1>10. QED
  BY <1>1, <1>2, <1>3, <1>4, <1>5, <1>6, <1>7, <1>8, <1>9
     DEF Next, Change, Hear, Lose, Lapse, vars

(* A change is heard of, and an announcement stays heard of when it moves. *)
LEMMA StillHeard ==
  ASSUME TypeOK, NEW u \in Upstreams, Change(u) \/ Hear(u) \/ Lose(u)
  PROVE  /\ Change(u) => Heard(u)' /\ \A v \in Upstreams \ {u} : offered'[v] = offered[v]
         /\ \A v \in Upstreams : Heard(v) => Heard(v)'
<1>1. CASE Change(u)
  BY <1>1, CatalogAssumption DEF Change, Heard, TypeOK
<1>2. CASE Hear(u) \/ Lose(u)
  <2>1. \A v \in Upstreams : Heard(v) => Heard(v)'
    BY <1>2 DEF Hear, Lose, Heard, TypeOK
  <2>2. Change(u) => Heard(u)' /\ \A v \in Upstreams \ {u} : offered'[v] = offered[v]
    BY CatalogAssumption DEF Change, Heard, TypeOK
  <2>3. QED BY <2>1, <2>2
<1>3. QED BY <1>1, <1>2

(* A scheduled recheck is given up only for a listing that has come, and   *)
(* then only where there is no lifetime.                                   *)
LEMMA StillScheduled ==
  ASSUME TypeOK, [Next]_vars, NEW u \in Upstreams, recheck[u] # "none"
  PROVE  recheck'[u] # "none" \/ (u \notin Lived /\ \E r \in Requests : Listed(r, u))
<1>1. CASE \E v \in Upstreams : Lapse(v)
  <2>1. recheck'[u] = recheck[u] \/ recheck'[u] = "due"
    BY <1>1 DEF Lapse, TypeOK
  <2>2. QED BY <2>1
<1>2. CASE \E r \in Requests, v \in Upstreams : Listed(r, v)
  <2>1. PICK r \in Requests, v \in Upstreams : Listed(r, v)
    BY <1>2
  <2>2. CASE u = v
    BY <2>1, <2>2 DEF Listed, Scheduled, TypeOK
  <2>3. CASE u # v
    BY <2>1, <2>3 DEF Listed, Scheduled, TypeOK
  <2>4. QED BY <2>2, <2>3
<1>3. CASE \E r \in Requests : ListingFails(r)
  BY <1>3 DEF ListingFails, RetryLater, TypeOK
<1>4. CASE \E r \in Requests, v \in Upstreams : Refuse(r, v)
  BY <1>4 DEF Refuse, AfterRefusal, RetryLater, TypeOK
<1>5. CASE UNCHANGED recheck
  BY <1>5
<1>6. QED
  BY <1>1, <1>2, <1>3, <1>4, <1>5
     DEF Next, Change, Hear, Lose, Start, Ask, Answer, Accept, Swap, Drop, vars

(* Every step keeps the signals.                                           *)
LEMMA NextSignals ==
  TypeOK /\ OneFlight /\ Staged /\ SignalsKept /\ [Next]_vars => SignalsKept'
<1> SUFFICES ASSUME TypeOK, OneFlight, Staged, SignalsKept, [Next]_vars
             PROVE  SignalsKept'
  OBVIOUS
<1>a. \A u \in Lived : recheck'[u] # "none"
  BY StillScheduled, CatalogAssumption DEF SignalsKept
<1>b. ASSUME NEW r \in Requests, \A q \in Requests \ {r} : flight'[q] = NoFlight,
             \A u \in flight'[r].todo : stale'[u] \/ recheck'[u] # "none",
             \A l \in flight'[r].answer :
               Differs(l, offered'[flight'[r].at]) => Heard(flight[r].at)',
             \A c \in Changes(r)' : Differs(c.listing, offered'[c.u]) => Heard(c.u)'
      PROVE  SignalsKept'
  <2>1. \A q \in Requests \ {r} : /\ flight'[q].todo = {} /\ flight'[q].answer = {}
                                  /\ Changes(q)' = {}
    BY <1>b, Empty
  <2>2. QED BY <1>a, <1>b, <2>1 DEF SignalsKept
<1>c. \A r \in Requests :
        /\ \A u \in flight[r].todo : u \in Upstreams
        /\ \A l \in flight[r].answer : flight[r].at \in Upstreams
        /\ \A c \in Changes(r) : c.u \in Upstreams
  BY DEF TypeOK, Flight, Changed, Changes, Staged
<1>d. ASSUME UNCHANGED <<note, stale, unheard>> PROVE \A u : Heard(u) <=> Heard(u)'
  BY <1>d DEF Heard
<1>1. ASSUME NEW u \in Upstreams, Change(u) \/ Hear(u) \/ Lose(u) PROVE SignalsKept'
  <2>1. flight' = flight /\ recheck' = recheck
        /\ \A v \in Upstreams : stale[v] => stale'[v]
    BY <1>1 DEF Change, Hear, Lose, TypeOK
  <2>2. ASSUME NEW v \in Upstreams, NEW l, Differs(l, offered[v]) => Heard(v),
               Differs(l, offered'[v])
        PROVE  Heard(v)'
    <3>1. CASE Change(u)
      BY <1>1, <2>2, <3>1, StillHeard
    <3>2. CASE Hear(u) \/ Lose(u)
      <4>1. offered' = offered
        BY <3>2 DEF Hear, Lose
      <4>2. QED BY <1>1, <2>2, <4>1, StillHeard
    <3>3. QED BY <1>1, <3>1, <3>2
  <2>3. \A r \in Requests : \A v \in flight'[r].todo : stale'[v] \/ recheck'[v] # "none"
    BY <1>c, <2>1 DEF SignalsKept
  <2>4. \A r \in Requests : \A l \in flight'[r].answer :
          Differs(l, offered'[flight'[r].at]) => Heard(flight[r].at)'
    BY <1>c, <2>1, <2>2 DEF SignalsKept
  <2>5. \A r \in Requests : \A c \in Changes(r)' :
          Differs(c.listing, offered'[c.u]) => Heard(c.u)'
    BY <1>c, <2>1, <2>2 DEF SignalsKept, Changes
  <2>6. QED BY <1>a, <2>3, <2>4, <2>5 DEF SignalsKept
<1>2. ASSUME NEW u \in Upstreams, Lapse(u) PROVE SignalsKept'
  <2>1. UNCHANGED <<offered, note, stale, unheard, flight>>
    BY <1>2 DEF Lapse
  <2>2. \A v \in Upstreams : recheck[v] # "none" => recheck'[v] # "none"
    BY <1>2 DEF Lapse, TypeOK
  <2>3. QED BY <1>a, <1>c, <1>d, <2>1, <2>2 DEF SignalsKept, Changes
<1>3. ASSUME NEW r \in Requests, Start(r) PROVE SignalsKept'
  <2>1. \A u \in Due : stale'[u] \/ recheck'[u] # "none"
    BY <1>3 DEF Start, Due
  <2>2. QED BY <1>3, <1>b, <2>1, StartStep
<1>4. ASSUME NEW r \in Requests, NEW u \in Upstreams, Ask(r, u) PROVE SignalsKept'
  <2>1. recheck' = recheck /\ offered' = offered
        /\ \A v \in Upstreams \ {u} : stale'[v] = stale[v] /\ (Heard(v) => Heard(v)')
    BY <1>4 DEF Ask, Heard, TypeOK
  <2>2. flight[r].answer = {} /\ \A c \in Changes(r) : c.u # u
    BY <1>4, AskStep DEF Staged
  <2>3. \A c \in Changes(r)' : Differs(c.listing, offered'[c.u]) => Heard(c.u)'
    BY <1>4, <1>c, <2>1, <2>2, AskStep DEF SignalsKept
  <2>4. \A v \in flight'[r].todo : stale'[v] \/ recheck'[v] # "none"
    BY <1>4, <1>c, <2>1, AskStep DEF SignalsKept
  <2>5. QED BY <1>4, <1>b, <2>2, <2>3, <2>4, AskStep DEF Works
<1>5. ASSUME NEW r \in Requests, Answer(r) PROVE SignalsKept'
  <2>1. UNCHANGED <<offered, note, stale, recheck, unheard>>
    BY <1>5 DEF Answer
  <2>2. \A l \in flight'[r].answer : ~Differs(l, offered'[flight'[r].at])
    BY <1>5, <2>1, AnswerStep DEF Differs
  <2>3. QED BY <1>5, <1>b, <1>d, <2>1, <2>2, AnswerStep DEF SignalsKept, Works
<1>6. ASSUME NEW r \in Requests, NEW u \in Upstreams, Listed(r, u) PROVE SignalsKept'
  <2>1. UNCHANGED <<offered, note, stale, unheard>>
    BY <1>6 DEF Listed
  <2>2. \A v \in flight'[r].todo : stale'[v] \/ recheck'[v] # "none"
    <3>1. u \notin flight[r].todo
      BY <1>6 DEF Listed, TypeOK, WellFormed
    <3>2. \A v \in Upstreams \ {u} : recheck'[v] = recheck[v]
      BY <1>6 DEF Listed, Scheduled, TypeOK
    <3>3. QED BY <1>6, <1>c, <2>1, <3>1, <3>2, ListedStep DEF SignalsKept
  <2>3. \A c \in Changes(r)' : Differs(c.listing, offered'[c.u]) => Heard(c.u)'
    <3>1. PICK l \in flight[r].answer :
            Changes(r)' \subseteq Changes(r) \union {[u |-> u, listing |-> l]}
      <4>1. PICK l \in flight[r].answer :
              Changes(r)' = IF Differs(l, served[u])
                            THEN Changes(r) \union {[u |-> u, listing |-> l]}
                            ELSE Changes(r)
        BY <1>6, ListedStep
      <4>2. QED BY <4>1
    <3>2. Differs(l, offered[u]) => Heard(u)
      BY <1>6, ListedStep DEF SignalsKept
    <3>3. QED BY <1>d, <2>1, <3>1, <3>2 DEF SignalsKept
  <2>4. QED BY <1>6, <1>b, <2>2, <2>3, ListedStep DEF Works
<1>7. ASSUME NEW r \in Requests, ListingFails(r) PROVE SignalsKept'
  <2>1. UNCHANGED <<offered, note, stale, unheard>>
    BY <1>7 DEF ListingFails
  <2>2. \A v \in Upstreams : recheck[v] # "none" => recheck'[v] # "none"
    BY <1>7 DEF ListingFails, RetryLater, TypeOK
  <2>3. QED BY <1>7, <1>b, <1>c, <1>d, <2>1, <2>2, FailureStep DEF SignalsKept, Works
<1>8. ASSUME NEW r \in Requests, NEW u \in Upstreams, Accept(r, u) PROVE SignalsKept'
  <2>1. UNCHANGED <<offered, note, stale, recheck, unheard>>
    BY <1>8 DEF Accept
  <2>2. QED BY <1>8, <1>b, <1>d, <2>1, AcceptStep DEF SignalsKept, Works
<1>9. ASSUME NEW r \in Requests, NEW u \in Upstreams, Refuse(r, u) PROVE SignalsKept'
  <2>1. UNCHANGED <<offered, note, stale, unheard>>
    BY <1>9 DEF Refuse
  <2>2. \A v \in Upstreams : recheck[v] # "none" => recheck'[v] # "none"
    BY <1>9 DEF Refuse, AfterRefusal, RetryLater, TypeOK
  <2>3. QED BY <1>9, <1>b, <1>c, <1>d, <2>1, <2>2, RefuseStep DEF SignalsKept, Works
<1>10. ASSUME NEW r \in Requests, Swap(r) \/ Drop(r) PROVE SignalsKept'
  <2>1. \A q \in Requests : /\ flight'[q].todo = {} /\ flight'[q].answer = {}
                            /\ Changes(q)' = {}
    BY <1>10, EndStep, Empty
  <2>2. QED BY <1>a, <2>1 DEF SignalsKept
<1>11. CASE UNCHANGED vars
  BY <1>11, <1>d DEF SignalsKept, Changes, vars
<1>12. QED
  BY <1>1, <1>2, <1>3, <1>4, <1>5, <1>6, <1>7, <1>8, <1>9, <1>10, <1>11 DEF Next

(* A signal of either kind, or its loss.  Who is heard of is covered: a    *)
(* lifetime keeps its recheck.                                             *)
Covered(u) == Signalled(u) \/ u \in unheard \ Lived

(* Every step forgets nothing.                                             *)
LEMMA NextForgotten ==
  ASSUME TypeOK, OneFlight, Staged, SignalsKept, NothingForgotten, [Next]_vars,
         SignalsKept'
  PROVE  NothingForgotten'
<1> SUFFICES ASSUME NEW u \in Upstreams, Differs(offered[u], served[u])'
             PROVE  Covered(u)' \/ \E q \in Requests : InHand(q, u)'
  BY DEF NothingForgotten, Covered
<1>a. Heard(u)' => Covered(u)'
  BY DEF SignalsKept, Heard, Covered, Signalled
<1>b. Differs(offered[u], served[u]) => Covered(u) \/ \E q \in Requests : InHand(q, u)
  BY DEF NothingForgotten, Covered
<1>c. \A q \in Requests : flight[q] = NoFlight => ~InHand(q, u)
  BY Empty, Typed DEF InHand, Changes
<1>1. ASSUME UNCHANGED <<offered, served, flight>>, Covered(u) => Covered(u)'
      PROVE  Covered(u)' \/ \E q \in Requests : InHand(q, u)'
  BY <1>1, <1>b DEF InHand, Differs
<1>2. ASSUME NEW r \in Requests, Works(r), UNCHANGED <<offered, served>>,
             Covered(u) => Covered(u)', InHand(r, u) => InHand(r, u)'
      PROVE  Covered(u)' \/ \E q \in Requests : InHand(q, u)'
  BY <1>2, <1>b, <1>c DEF Works, Differs
<1>3. ASSUME NEW v \in Upstreams, Change(v)
      PROVE  Covered(u)' \/ \E q \in Requests : InHand(q, u)'
  <2>1. CASE u = v
    BY <1>3, <1>a, <2>1, StillHeard
  <2>2. CASE u # v
    <3>1. /\ flight' = flight /\ offered'[u] = offered[u] /\ served' = served
          /\ Signalled(u)' = Signalled(u) /\ unheard' = unheard
      BY <1>3, <2>2 DEF Change, Signalled, TypeOK
    <3>2. QED BY <1>b, <3>1 DEF InHand, Differs, Covered
  <2>3. QED BY <2>1, <2>2
<1>4. ASSUME NEW v \in Upstreams, Hear(v) \/ Lose(v)
      PROVE  Covered(u)' \/ \E q \in Requests : InHand(q, u)'
  <2>1. UNCHANGED <<offered, served, flight, recheck>>
    BY <1>4 DEF Hear, Lose
  <2>2. Heard(u) => Heard(u)'
    BY <1>4, StillHeard
  <2>3. Covered(u) => Covered(u)'
    BY <1>a, <2>1, <2>2 DEF Covered, Signalled, Heard
  <2>4. QED BY <1>1, <2>1, <2>3
<1>5. ASSUME NEW v \in Upstreams, Lapse(v)
      PROVE  Covered(u)' \/ \E q \in Requests : InHand(q, u)'
  <2>1. UNCHANGED <<offered, served, flight, note, stale, unheard>>
    BY <1>5 DEF Lapse
  <2>2. recheck[u] # "none" => recheck'[u] # "none"
    BY <1>5 DEF Lapse, TypeOK
  <2>3. QED BY <1>1, <2>1, <2>2 DEF Covered, Signalled
<1>6. ASSUME NEW r \in Requests, Start(r)
      PROVE  Covered(u)' \/ \E q \in Requests : InHand(q, u)'
  <2>1. UNCHANGED <<offered, served, note, stale, recheck, unheard>>
    BY <1>6 DEF Start
  <2>2. QED BY <1>6, <1>b, <1>c, <2>1, StartStep DEF Covered, Signalled, Differs
<1>7. ASSUME NEW r \in Requests, NEW v \in Upstreams, Ask(r, v)
      PROVE  Covered(u)' \/ \E q \in Requests : InHand(q, u)'
  <2>1. UNCHANGED <<offered, served, note, recheck>>
    BY <1>7 DEF Ask
  <2>2. CASE u = v
    <3>1. flight'[r].at = u /\ flight'[r].answer = {}
      BY <1>7, <2>2, AskStep DEF Staged
    <3>2. QED BY <3>1 DEF InHand
  <2>3. CASE u # v
    <3>1. Covered(u) => Covered(u)'
      BY <1>7, <2>3 DEF Ask, Covered, Signalled, TypeOK
    <3>2. InHand(r, u) => InHand(r, u)'
      BY <1>7, <2>1, <2>3, AskStep, Typed DEF InHand, Changes, Differs
    <3>3. QED BY <1>2, <1>7, <2>1, <3>1, <3>2, AskStep
  <2>4. QED BY <2>2, <2>3
<1>8. ASSUME NEW r \in Requests, Answer(r)
      PROVE  Covered(u)' \/ \E q \in Requests : InHand(q, u)'
  <2>1. UNCHANGED <<offered, served, note, stale, recheck, unheard>>
    BY <1>8 DEF Answer
  <2>2. Covered(u) => Covered(u)'
    BY <2>1 DEF Covered, Signalled
  <2>3. InHand(r, u) => InHand(r, u)'
    BY <1>8, <2>1, AnswerStep DEF InHand, Changes, Differs
  <2>4. QED BY <1>2, <1>8, <2>1, <2>2, <2>3, AnswerStep
<1>9. ASSUME NEW r \in Requests, NEW v \in Upstreams, Listed(r, v)
      PROVE  Covered(u)' \/ \E q \in Requests : InHand(q, u)'
  <2>1. UNCHANGED <<offered, served, note, stale, unheard>>
    BY <1>9 DEF Listed
  <2>2. PICK l \in flight[r].answer :
          Changes(r)' = IF Differs(l, served[v])
                        THEN Changes(r) \union {[u |-> v, listing |-> l]}
                        ELSE Changes(r)
    BY <1>9, ListedStep
  <2>3. CASE u = v
    <3>1. Differs(l, offered[u]) => Covered(u)'
      <4>1. Differs(l, offered[u]) => Heard(u)
        BY <1>9, <2>3, ListedStep DEF SignalsKept
      <4>2. Heard(u) => Heard(u)'
        BY <2>1 DEF Heard
      <4>3. QED BY <1>a, <4>1, <4>2
    <3>2. ASSUME ~Differs(l, offered[u]) PROVE InHand(r, u)'
      <4>1. Differs(l, served[u])
        BY <2>1, <3>2 DEF Differs
      <4>2. [u |-> u, listing |-> l] \in Changes(r)'
        BY <2>2, <2>3, <4>1
      <4>3. QED BY <2>1, <3>2, <4>2 DEF InHand, Changes, Differs
    <3>3. QED BY <3>1, <3>2
  <2>4. CASE u # v
    <3>1. recheck'[u] = recheck[u]
      BY <1>9, <2>4 DEF Listed, Scheduled, TypeOK
    <3>2. Covered(u) => Covered(u)'
      BY <2>1, <3>1 DEF Covered, Signalled
    <3>3. InHand(r, u) => InHand(r, u)'
      BY <1>9, <2>1, <2>2, <2>4, ListedStep DEF InHand, Changes, Differs
    <3>4. QED BY <1>2, <1>9, <2>1, <3>2, <3>3, ListedStep
  <2>5. QED BY <2>3, <2>4
<1>10. ASSUME NEW r \in Requests, ListingFails(r)
      PROVE  Covered(u)' \/ \E q \in Requests : InHand(q, u)'
  <2>1. UNCHANGED <<offered, served, note, stale, unheard>>
    BY <1>10 DEF ListingFails
  <2>2. CASE flight[r].at = u
    BY <1>10, <2>2 DEF ListingFails, RetryLater, TypeOK, Covered, Signalled
  <2>3. CASE flight[r].at # u
    <3>1. recheck'[u] = recheck[u]
      BY <1>10, <2>3 DEF ListingFails, RetryLater, TypeOK
    <3>2. Covered(u) => Covered(u)'
      BY <2>1, <3>1 DEF Covered, Signalled
    <3>3. InHand(r, u) => InHand(r, u)'
      BY <1>10, <2>1, <2>3, FailureStep DEF InHand, Changes, Differs
    <3>4. QED BY <1>2, <1>10, <2>1, <3>2, <3>3, FailureStep
  <2>4. QED BY <2>2, <2>3
<1>11. ASSUME NEW r \in Requests, NEW v \in Upstreams, Accept(r, v)
      PROVE  Covered(u)' \/ \E q \in Requests : InHand(q, u)'
  <2>1. UNCHANGED <<offered, served, note, stale, recheck, unheard>>
    BY <1>11 DEF Accept
  <2>2. Covered(u) => Covered(u)'
    BY <2>1 DEF Covered, Signalled
  <2>3. InHand(r, u) => InHand(r, u)'
    BY <1>11, <2>1, AcceptStep DEF InHand, Changes, Differs
  <2>4. QED BY <1>2, <1>11, <2>1, <2>2, <2>3, AcceptStep
<1>12. ASSUME NEW r \in Requests, NEW v \in Upstreams, Refuse(r, v)
      PROVE  Covered(u)' \/ \E q \in Requests : InHand(q, u)'
  <2>1. UNCHANGED <<offered, served, note, stale, unheard>>
    BY <1>12 DEF Refuse
  <2>2. CASE u = v
    BY <1>12, <2>2 DEF Refuse, AfterRefusal, RetryLater, TypeOK, Covered, Signalled
  <2>3. CASE u # v
    <3>1. recheck'[u] = recheck[u]
      BY <1>12, <2>3 DEF Refuse, AfterRefusal, RetryLater, TypeOK
    <3>2. Covered(u) => Covered(u)'
      BY <2>1, <3>1 DEF Covered, Signalled
    <3>3. InHand(r, u) => InHand(r, u)'
      BY <1>12, <2>1, <2>3, RefuseStep DEF InHand, Changes, Differs
    <3>4. QED BY <1>2, <1>12, <2>1, <3>2, <3>3, RefuseStep
  <2>4. QED BY <2>2, <2>3
<1>13. ASSUME NEW r \in Requests, Swap(r)
      PROVE  Covered(u)' \/ \E q \in Requests : InHand(q, u)'
  <2>1. UNCHANGED <<offered, note, stale, recheck, unheard>>
    BY <1>13 DEF Swap
  <2>2. /\ flight[r].on /\ flight[r].at = Nobody /\ flight[r].todo = {}
        /\ flight[r].fresh = {} /\ flight[r].current = served
    BY <1>13 DEF Swap, Finished, OneFlight
  <2>3. CASE \E c \in flight[r].accepted : c.u = u
    <3>1. PICK c \in flight[r].accepted : c.u = u /\ served'[u] = c.listing
      BY <1>13, <2>3 DEF Swap, Merged
    <3>2. Differs(c.listing, offered[u])
      BY <2>1, <3>1 DEF Differs
    <3>3. Heard(u)
      BY <3>1, <3>2 DEF SignalsKept, Changes
    <3>4. Heard(u)'
      BY <2>1, <3>3 DEF Heard
    <3>5. QED BY <1>a, <3>4
  <2>4. CASE ~ \E c \in flight[r].accepted : c.u = u
    <3>1. served'[u] = served[u]
      BY <1>13, <2>2, <2>4 DEF Swap, Merged
    <3>2. ~InHand(r, u)
      BY <2>2, <2>4, Typed DEF InHand
    <3>3. \A q \in Requests \ {r} : flight[q] = NoFlight
      BY <2>2 DEF OneFlight
    <3>4. Covered(u)
      BY <1>b, <1>c, <2>1, <3>1, <3>2, <3>3 DEF Differs
    <3>5. QED BY <2>1, <3>4 DEF Covered, Signalled
  <2>5. QED BY <2>3, <2>4
<1>14. ASSUME NEW r \in Requests, Drop(r)
      PROVE  Covered(u)' \/ \E q \in Requests : InHand(q, u)'
  <2>1. UNCHANGED <<offered, served, note, stale, recheck>>
        /\ unheard' = unheard \union Discarded(flight[r])
    BY <1>14 DEF Drop
  <2>2. Covered(u) => Covered(u)'
    BY <2>1 DEF Covered, Signalled
  <2>3. \A q \in Requests \ {r} : flight[q] = NoFlight
    BY <1>14, EndStep DEF OneFlight
  <2>4. ASSUME InHand(r, u) PROVE Covered(u)'
    <3>1. CASE u \in flight[r].todo
      BY <2>2, <3>1 DEF SignalsKept, Covered, Signalled
    <3>2. CASE u \notin flight[r].todo
      <4>1. u \in Discarded(flight[r])
        BY <2>4, <3>2 DEF InHand, Discarded
      <4>2. Heard(u)'
        BY <2>1, <4>1 DEF Heard
      <4>3. QED BY <1>a, <4>2
    <3>3. QED BY <3>1, <3>2
  <2>5. QED BY <1>b, <1>c, <2>1, <2>2, <2>3, <2>4 DEF Differs
<1>15. CASE UNCHANGED vars
  BY <1>1, <1>15 DEF vars, Covered, Signalled
<1>16. QED
  BY <1>3, <1>4, <1>5, <1>6, <1>7, <1>8, <1>9, <1>10, <1>11, <1>12, <1>13, <1>14,
     <1>15 DEF Next

----------------------------------------------------------------------------
(* Nothing goes backwards.                                                 *)

(* What is served is no newer than what a re-index has in hand, and that   *)
(* no newer than what is offered.                                          *)
InOrder(u, l) == served[u].age <= l.age /\ l.age <= offered[u].age

Ages ==
  /\ \A u \in Upstreams : InOrder(u, offered[u])
  /\ \A r \in Requests :
       /\ \A l \in flight[r].answer : InOrder(flight[r].at, l)
       /\ \A c \in Changes(r) : InOrder(c.u, c.listing)

(* What swap serves is what was served, or an accepted change.             *)
LEMMA Swapped ==
  ASSUME TypeOK, OneFlight, NEW r \in Requests, Swap(r), NEW u \in Upstreams
  PROVE  \/ served'[u] = served[u]
         \/ \E c \in Changes(r) : c.u = u /\ served'[u] = c.listing
<1>1. flight[r].current = served
  BY DEF Swap, Finished, OneFlight
<1>2. CASE \E c \in flight[r].accepted : c.u = u
  BY <1>2 DEF Swap, Merged, Changes
<1>3. CASE ~ \E c \in flight[r].accepted : c.u = u
  BY <1>1, <1>3 DEF Swap, Merged
<1>4. QED BY <1>2, <1>3

(* Every step keeps the ages in order.                                     *)
LEMMA NextAges == TypeOK /\ OneFlight /\ Staged /\ Ages /\ [Next]_vars => Ages'
<1> SUFFICES ASSUME TypeOK, OneFlight, Staged, Ages, [Next]_vars PROVE Ages'
  OBVIOUS
<1>a. ASSUME NEW r \in Requests, Works(r), UNCHANGED <<offered, served>>,
             \A l \in flight'[r].answer : InOrder(flight'[r].at, l),
             \A c \in Changes(r)' : InOrder(c.u, c.listing)
      PROVE  Ages'
  <2>1. \A q \in Requests \ {r} : flight'[q].answer = {} /\ Changes(q)' = {}
    BY <1>a, Empty DEF Works
  <2>2. \A u, l : InOrder(u, l) <=> InOrder(u, l)'
    BY <1>a DEF InOrder
  <2>3. QED BY <1>a, <2>1, <2>2 DEF Ages, InOrder
<1>b. /\ \A u \in Upstreams : offered[u].age \in Nat /\ served[u].age \in Nat
      /\ \A r \in Requests :
           /\ \A l \in flight[r].answer : flight[r].at \in Upstreams /\ l.age \in Nat
           /\ \A c \in Changes(r) : c.u \in Upstreams /\ c.listing.age \in Nat
  BY DEF TypeOK, Staged, Flight, Changed, Changes, Listing
<1>1. ASSUME NEW u \in Upstreams, Change(u) PROVE Ages'
  <2>1. UNCHANGED <<served, flight>>
    BY <1>1 DEF Change
  <2>2. \A v \in Upstreams : offered'[v].age \in Nat /\ offered[v].age <= offered'[v].age
    BY <1>1, <1>b DEF Change, TypeOK
  <2>3. \A v \in Upstreams : \A l : l.age \in Nat /\ InOrder(v, l) => InOrder(v, l)'
    BY <1>b, <2>1, <2>2 DEF InOrder
  <2>4. \A v \in Upstreams : InOrder(v, offered[v])'
    BY <1>b, <2>1, <2>2 DEF Ages, InOrder
  <2>5. QED BY <1>b, <2>1, <2>3, <2>4 DEF Ages, Changes
<1>2. ASSUME NEW r \in Requests, Start(r) PROVE Ages'
  <2>1. \A q \in Requests : flight'[q].answer = {} /\ Changes(q)' = {}
    BY <1>2, StartStep, Empty
  <2>2. UNCHANGED <<offered, served>>
    BY <1>2 DEF Start
  <2>3. QED BY <2>1, <2>2 DEF Ages, InOrder
<1>3. ASSUME NEW r \in Requests, NEW u \in Upstreams, Ask(r, u) PROVE Ages'
  <2>1. flight'[r].answer = {} /\ Changes(r)' = Changes(r)
    BY <1>3, AskStep DEF Staged
  <2>2. QED BY <1>3, <1>a, <2>1, AskStep DEF Ask, Ages
<1>4. ASSUME NEW r \in Requests, Answer(r) PROVE Ages'
  <2>1. flight[r].at \in Upstreams
    BY <1>4 DEF Answer, TypeOK, Flight
  <2>2. \A l \in flight'[r].answer : InOrder(flight'[r].at, l)
    BY <1>4, <2>1, AnswerStep DEF Ages
  <2>3. QED BY <1>4, <1>a, <2>2, AnswerStep DEF Answer, Ages
<1>5. ASSUME NEW r \in Requests, NEW u \in Upstreams, Listed(r, u) PROVE Ages'
  <2>1. PICK l \in flight[r].answer :
          Changes(r)' = IF Differs(l, served[u])
                        THEN Changes(r) \union {[u |-> u, listing |-> l]}
                        ELSE Changes(r)
    BY <1>5, ListedStep
  <2>2. InOrder(u, l)
    BY <1>5, ListedStep DEF Ages
  <2>3. \A c \in Changes(r)' : InOrder(c.u, c.listing)
    BY <2>1, <2>2 DEF Ages
  <2>4. QED BY <1>5, <1>a, <2>3, ListedStep DEF Listed
<1>6. ASSUME NEW r \in Requests, ListingFails(r) PROVE Ages'
  BY <1>6, <1>a, FailureStep DEF ListingFails, Ages
<1>7. ASSUME NEW r \in Requests, NEW u \in Upstreams, Accept(r, u) PROVE Ages'
  BY <1>7, <1>a, AcceptStep DEF Accept, Ages
<1>8. ASSUME NEW r \in Requests, NEW u \in Upstreams, Refuse(r, u) PROVE Ages'
  BY <1>8, <1>a, RefuseStep DEF Refuse, Ages
<1>9. ASSUME NEW r \in Requests, Swap(r) \/ Drop(r) PROVE Ages'
  <2>1. \A q \in Requests : flight'[q].answer = {} /\ Changes(q)' = {}
    BY <1>9, EndStep, Empty
  <2>2. \A u \in Upstreams : offered'[u] = offered[u] /\ served'[u].age <= offered[u].age
    <3>1. CASE Swap(r)
      BY <1>b, <3>1, Swapped, ZenonT(40) DEF Swap, Ages, InOrder
    <3>2. CASE Drop(r)
      BY <3>2 DEF Drop, Ages, InOrder
    <3>3. QED BY <1>9, <3>1, <3>2
  <2>3. \A u \in Upstreams : InOrder(u, offered[u])'
    BY <1>b, <2>2 DEF InOrder
  <2>4. QED BY <2>1, <2>3 DEF Ages
<1>10. CASE UNCHANGED <<offered, served, flight>>
  BY <1>10 DEF Ages, Changes, InOrder
<1>11. QED
  BY <1>1, <1>2, <1>3, <1>4, <1>5, <1>6, <1>7, <1>8, <1>9, <1>10
     DEF Next, Hear, Lose, Lapse, vars

----------------------------------------------------------------------------
(* The inductive invariant and the theorems.                               *)

Kept == OneFlight /\ Staged /\ SignalsKept /\ NothingForgotten /\ Ages

(* It holds at the start, where nothing is in hand and all is as offered.  *)
LEMMA InitKept == Init => Kept
<1> SUFFICES ASSUME Init PROVE Kept
  OBVIOUS
<1>1. \A r \in Requests : flight[r] = NoFlight
  BY DEF Init
<1>2. OneFlight /\ Staged
  BY <1>1, Empty DEF OneFlight, Staged
<1>3. SignalsKept
  BY <1>1, Empty, CatalogAssumption DEF Init, SignalsKept
<1>4. NothingForgotten
  BY DEF Init, NothingForgotten, Differs
<1>5. Ages
  BY <1>1, Empty DEF Init, Ages, InOrder
<1>6. QED BY <1>2, <1>3, <1>4, <1>5 DEF Kept

(* And is kept.                                                            *)
LEMMA NextKept == TypeOK /\ Kept /\ [Next]_vars => Kept'
BY NextOneFlight, NextStaged, NextSignals, NextForgotten, NextAges DEF Kept

(* Types and the inductive invariant together hold throughout.             *)
LEMMA AlwaysKept == Spec => [](TypeOK /\ Kept)
BY InitType, NextType, InitKept, NextKept, PTL DEF Spec

(* No change is forgotten while it is neither served nor refused, unless   *)
(* the only signal of it was lost: for any requests, upstreams and tools,  *)
(* through failing listings, refusals and dropped requests.                *)
THEOREM NothingIsForgotten == Spec => []NothingForgotten
BY AlwaysKept, PTL DEF Kept

(* No step puts back tools that a later listing has replaced.              *)
THEOREM NothingGoesBack == Spec => NeverBackwards
<1> DEFINE Forwards == \A u \in Upstreams : served'[u].age >= served[u].age
<1>1. TypeOK /\ Kept /\ [Next]_vars => [Forwards]_vars
  <2> SUFFICES ASSUME TypeOK, Kept, Next PROVE Forwards
    BY DEF vars
  <2>1. \A u \in Upstreams : served[u].age \in Nat
    BY DEF TypeOK, Listing
  <2>2. ASSUME NEW r \in Requests, Swap(r) PROVE Forwards
    BY <2>1, <2>2, Swapped DEF Kept, Ages, InOrder
  <2>3. CASE served' = served
    BY <2>1, <2>3
  <2>4. QED
    BY <2>2, <2>3
       DEF Next, Change, Hear, Lose, Lapse, Start, Ask, Answer, Listed, ListingFails,
           Accept, Refuse, Drop
<1>2. QED BY <1>1, AlwaysKept, PTL DEF Spec, NeverBackwards
=============================================================================
