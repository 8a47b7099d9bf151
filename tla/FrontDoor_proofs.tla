-------------------------- MODULE FrontDoor_proofs --------------------------
(***************************************************************************)
(* Proofs about FrontDoor, for any requests, deployments, keys, tokens and *)
(* timeouts: who is served as whom, and for how long a withdrawn key or a  *)
(* revoked token still opens the door.                                     *)
(***************************************************************************)
EXTENDS FrontDoor, TLAPS

Done == {"served", "refused", "closed"}

(* What the listener and the guard have seen to by the time a request is   *)
(* where it is.                                                            *)
Entered(r) ==
  /\ req[r].stage \notin Done => MayBind
  /\ RequiresClientCert /\ req[r].stage \notin Done \cup {"accepted"} =>
       req[r].kind.cert
  /\ At(r, "inner") /\ req[r].as = "process" => ~Enforced
  /\ req[r].stage \in {"flight", "fetching", "wire"} => Token(r) \in Tokens

(* A key the provider still publishes, or did when the last attempt began. *)
Backed(k) == k \in published \/ withdrawn[k] >= attemptedAt

(* The lock's holder is the one request that fetches, and what it has got  *)
(* was published since it began.                                           *)
Fetches(r) ==
  /\ At(r, "fetching") <=> flight = r
  /\ req[r].stage \in {"accepted", "ready", "flight"} => req[r].got = {}
  /\ At(r, "fetching") =>
       /\ now <= attemptedAt + JWKS_FETCH_TIMEOUT
       /\ \A k \in req[r].got : Backed(k)

(* An answer "active" was given after the question went out, before any    *)
(* revocation.                                                             *)
Asks(r) ==
  At(r, "wire") =>
    /\ req[r].sent <= now
    /\ now <= req[r].sent + AskTimeout
    /\ req[r].reply = "active" =>
         revoked[Token(r)] = Never \/ req[r].sent <= revoked[Token(r)]

KeysBacked == flight = Nobody /\ ~missed => \A k \in keys : Backed(k)

VerdictsDated ==
  \A t \in DOMAIN verdicts :
    /\ verdicts[t].at <= now
    /\ verdicts[t].active =>
         revoked[t] = Never \/ verdicts[t].at <= revoked[t] + AskTimeout

IInv ==
  /\ TypeOK
  /\ door = "open" => MayBind
  /\ attemptedAt <= now
  /\ KeysBacked
  /\ VerdictsDated
  /\ \A r \in Requests : Entered(r) /\ Fetches(r) /\ Asks(r)

----------------------------------------------------------------------------
(* What the code's operators return.                                       *)

(* The record of a request that has ended, and of one let in.              *)
EndedAs(stage) == [NoRequest EXCEPT !.stage = stage]
LetIn(r) ==
  [NoRequest EXCEPT !.stage = "inner", !.kind = req[r].kind, !.as = "token"]
Asking(r) ==
  [req[r] EXCEPT !.stage = "wire", !.sent = now, !.got = {}, !.reply = "none"]
Queueing(r) ==
  [req[r] EXCEPT !.stage = "flight", !.got = {}, !.reply = "none"]

LEMMA NoRequestType ==
  /\ NoRequest \in Progress
  /\ NoRequest.stage = "closed" /\ NoRequest.got = {}
<1>1. (CHOOSE k \in Kinds : TRUE) \in Kinds
  BY FrontDoorAssumption
<1>2. 0 \in Times
  BY FrontDoorAssumption DEF Times
<1>3. QED BY <1>1, <1>2 DEF NoRequest, Progress, Stages

(* The records a step may leave behind are of the right type.              *)
LEMMA RecordTypes ==
  ASSUME TypeOK, NEW r \in Requests
  PROVE  /\ \A stage \in Done : EndedAs(stage) \in Progress
         /\ LetIn(r) \in Progress
         /\ Asking(r) \in Progress
         /\ Queueing(r) \in Progress
<1>1. req[r] \in Progress /\ req[r].kind \in Kinds /\ now \in Times
  BY DEF TypeOK, Progress
<1>2. \A stage \in Done : EndedAs(stage) \in Progress
  BY NoRequestType DEF EndedAs, Done, Progress, Stages
<1>3. LetIn(r) \in Progress
  BY <1>1, NoRequestType DEF LetIn, Progress, Stages
<1>4. Asking(r) \in Progress
  BY <1>1 DEF Asking, Progress, Stages
<1>5. Queueing(r) \in Progress
  BY <1>1 DEF Queueing, Progress, Stages
<1>6. QED BY <1>2, <1>3, <1>4, <1>5

(* Verdict: in with the token's scopes, or refused.                        *)
LEMMA VerdictIs ==
  ASSUME NEW r \in Requests, NEW active \in BOOLEAN
  PROVE  /\ active => Verdict(r, active) = [req EXCEPT ![r] = LetIn(r)]
         /\ ~active => Verdict(r, active) = [req EXCEPT ![r] = EndedAs("refused")]
BY DEF Verdict, LetIn, EndedAs, Ended

(* A request is let in on a key that is known, and on a verdict still      *)
(* fresh where the server is asked; it asks, waits for a fetch, or is      *)
(* refused otherwise.                                                      *)
Judged(r, known, second, q) ==
  \/ q = EndedAs("refused") /\ (Kid(r) \in known \/ second)
  \/ q = LetIn(r) /\ Kid(r) \in known
     /\ (conf.introspect => Fresh(Token(r)) /\ verdicts[Token(r)].active)
  \/ q = Asking(r) /\ Kid(r) \in known
  \/ q = Queueing(r) /\ ~second

LEMMA AskIs ==
  ASSUME TypeOK, NEW r \in Requests
  PROVE  \/ Ask(r) = [req EXCEPT ![r] = Asking(r)]
         \/ Ask(r) = [req EXCEPT ![r] = EndedAs("refused")]
         \/ /\ Ask(r) = [req EXCEPT ![r] = LetIn(r)]
            /\ Fresh(Token(r)) /\ verdicts[Token(r)].active
<1>1. CASE ~Fresh(Token(r))
  <2>1. Ask(r) = [req EXCEPT ![r].stage = "wire", ![r].sent = now,
                             ![r].got = {}, ![r].reply = "none"]
    BY <1>1 DEF Ask
  <2>2. req \in [Requests -> Progress]
    BY DEF TypeOK
  <2>3. QED BY <2>1, <2>2 DEF Asking
<1>2. CASE Fresh(Token(r))
  <2>1. Ask(r) = Verdict(r, verdicts[Token(r)].active)
    BY <1>2 DEF Ask
  <2>2. verdicts[Token(r)].active \in BOOLEAN
    BY <1>2 DEF TypeOK, Fresh
  <2>3. QED BY <1>2, <2>1, <2>2, VerdictIs
<1>3. QED BY <1>1, <1>2

LEMMA LookIs ==
  ASSUME TypeOK, NEW r \in Requests, NEW known, NEW second \in BOOLEAN
  PROVE  \E q : Judged(r, known, second, q) /\ Look(r, known, second) = [req EXCEPT ![r] = q]
<1>1. CASE Kid(r) \in known
  <2>1. Look(r, known, second) = Judge(r)
    BY <1>1 DEF Look
  <2>2. CASE ~Verifies(Token(r))
    BY <1>1, <2>1, <2>2 DEF Judge, Ended, EndedAs, Judged
  <2>3. CASE Verifies(Token(r)) /\ conf.introspect
    <3>1. Judge(r) = Ask(r)
      BY <2>3 DEF Judge
    <3>2. QED BY <1>1, <2>1, <3>1, AskIs DEF Judged
  <2>4. CASE Verifies(Token(r)) /\ ~conf.introspect
    <3>1. Judge(r) = Verdict(r, TRUE)
      BY <2>4 DEF Judge
    <3>2. QED BY <1>1, <2>1, <2>4, <3>1, VerdictIs DEF Judged
  <2>5. QED BY <2>2, <2>3, <2>4
<1>2. CASE Kid(r) \notin known /\ second
  BY <1>2 DEF Look, Ended, EndedAs, Judged
<1>3. CASE Kid(r) \notin known /\ ~second
  <2>1. Look(r, known, second) =
          [req EXCEPT ![r].stage = "flight", ![r].got = {}, ![r].reply = "none"]
    BY <1>3 DEF Look
  <2>2. req \in [Requests -> Progress]
    BY DEF TypeOK
  <2>3. Look(r, known, second) = [req EXCEPT ![r] = Queueing(r)]
    BY <2>1, <2>2 DEF Queueing
  <2>4. QED BY <1>3, <2>3 DEF Judged
<1>4. QED BY <1>1, <1>2, <1>3

----------------------------------------------------------------------------
(* A step of request r leaves the others' part of the invariant alone.     *)

Steady == conf' = conf /\ door' = door /\ now' = now /\ world' = world

(* The lock stays, or r takes or leaves it.                                *)
LockMoves(r) ==
  \/ flight' = flight /\ attemptedAt' = attemptedAt
  \/ flight = r /\ flight' = Nobody /\ attemptedAt' = attemptedAt
  \/ flight = Nobody /\ flight' = r

LEMMA SteadyBinds ==
  ASSUME conf' = conf
  PROVE  /\ MayBind' = MayBind
         /\ Enforced' = Enforced
         /\ RequiresClientCert' = RequiresClientCert
BY DEF MayBind, Enforced, Required, RequiresClientCert

LEMMA OthersKeep ==
  ASSUME IInv, Steady, NEW r \in Requests, NEW q \in Progress,
         req' = [req EXCEPT ![r] = q], LockMoves(r)
  PROVE  /\ req' \in [Requests -> Progress]
         /\ \A s \in Requests \ {r} : Entered(s)' /\ Fetches(s)' /\ Asks(s)'
<1>1. req \in [Requests -> Progress]
  BY DEF IInv, TypeOK
<1>2. req' \in [Requests -> Progress] /\ req'[r] = q
  BY <1>1
<1>3. SUFFICES ASSUME NEW s \in Requests \ {r}
              PROVE  Entered(s)' /\ Fetches(s)' /\ Asks(s)'
  BY <1>2
<1>4. req'[s] = req[s]
  BY <1>1
<1>5. Entered(s) /\ Fetches(s) /\ Asks(s)
  BY DEF IInv
<1>6. Entered(s)'
  BY <1>4, <1>5, SteadyBinds DEF Entered, Steady, At, Token
<1>7. Asks(s)'
  BY <1>4, <1>5 DEF Asks, Steady, world, At, Token
<1>8. Fetches(s)'
  <2>1. At(s, "fetching")' <=> flight' = s
    BY <1>4, <1>5, FrontDoorAssumption DEF Fetches, LockMoves, At
  <2>2. At(s, "fetching") => attemptedAt' = attemptedAt
    BY <1>5, FrontDoorAssumption DEF Fetches, LockMoves
  <2>3. QED BY <1>4, <1>5, <2>1, <2>2 DEF Fetches, Backed, Steady, world, At
<1>9. QED BY <1>6, <1>7, <1>8

(* What r's own record becomes satisfies the invariant.                    *)
Passing(r) ==
  /\ req[r].stage \in {"ready", "flight", "fetching", "wire"}
  /\ Token(r) \in Tokens

LEMMA EndedKeeps ==
  ASSUME IInv, NEW r \in Requests, NEW stage \in Done, flight' # r,
         req' = [req EXCEPT ![r] = EndedAs(stage)]
  PROVE  EndedAs(stage) \in Progress /\ Entered(r)' /\ Fetches(r)' /\ Asks(r)'
<1>1. req'[r] = EndedAs(stage) /\ EndedAs(stage) \in Progress
  BY RecordTypes DEF IInv, TypeOK
<1>2. req'[r].stage = stage
  BY <1>1, NoRequestType DEF EndedAs, Progress
<1>3. QED BY <1>1, <1>2 DEF Entered, Fetches, Asks, At, Done

LEMMA LetInKeeps ==
  ASSUME IInv, Steady, NEW r \in Requests, Passing(r), flight' # r,
         req' = [req EXCEPT ![r] = LetIn(r)]
  PROVE  LetIn(r) \in Progress /\ Entered(r)' /\ Fetches(r)' /\ Asks(r)'
<1>1. req'[r] = LetIn(r) /\ LetIn(r) \in Progress
  BY RecordTypes DEF IInv, TypeOK
<1>2. req'[r].stage = "inner" /\ req'[r].kind = req[r].kind /\ req'[r].as = "token"
  BY <1>1, NoRequestType, ZenonT(40) DEF LetIn, Progress
<1>3. Entered(r)
  BY DEF IInv
<1>4. Entered(r)'
  BY <1>2, <1>3, SteadyBinds DEF Entered, Steady, At, Done, Passing
<1>5. QED BY <1>1, <1>2, <1>4 DEF Fetches, Asks, At

LEMMA AskingKeeps ==
  ASSUME IInv, Steady, NEW r \in Requests, Passing(r), flight' # r,
         req' = [req EXCEPT ![r] = Asking(r)]
  PROVE  Asking(r) \in Progress /\ Entered(r)' /\ Fetches(r)' /\ Asks(r)'
<1>1. req'[r] = Asking(r) /\ Asking(r) \in Progress /\ req[r] \in Progress
  BY RecordTypes DEF IInv, TypeOK
<1>2. /\ req'[r].stage = "wire" /\ req'[r].kind = req[r].kind
      /\ req'[r].sent = now /\ req'[r].reply = "none"
  <2>1. now \in Times
    BY DEF IInv, TypeOK
  <2>2. QED BY <1>1, <2>1, ZenonT(40) DEF Asking, Progress
<1>3. Entered(r)
  BY DEF IInv
<1>4. Entered(r)'
  BY <1>2, <1>3, SteadyBinds DEF Entered, Steady, At, Token, Done, Passing
<1>5. Asks(r)'
  <2>1. now \in Nat /\ AskTimeout \in Nat
    BY FrontDoorAssumption DEF IInv, TypeOK, Times
  <2>2. QED BY <1>2, <2>1 DEF Asks, Steady
<1>6. QED BY <1>1, <1>2, <1>4, <1>5 DEF Fetches, At

LEMMA QueueingKeeps ==
  ASSUME IInv, Steady, NEW r \in Requests, Passing(r), flight' # r,
         req' = [req EXCEPT ![r] = Queueing(r)]
  PROVE  Queueing(r) \in Progress /\ Entered(r)' /\ Fetches(r)' /\ Asks(r)'
<1>1. req'[r] = Queueing(r) /\ Queueing(r) \in Progress /\ req[r] \in Progress
  BY RecordTypes DEF IInv, TypeOK
<1>2. req'[r].stage = "flight" /\ req'[r].kind = req[r].kind /\ req'[r].got = {}
  BY <1>1, ZenonT(40) DEF Queueing, Progress
<1>3. Entered(r)
  BY DEF IInv
<1>4. Entered(r)'
  BY <1>2, <1>3, SteadyBinds DEF Entered, Steady, At, Token, Done, Passing
<1>5. QED BY <1>1, <1>2, <1>4 DEF Fetches, Asks, At

LEMMA JudgedKeeps ==
  ASSUME IInv, Steady, NEW r \in Requests, Passing(r), flight' # r,
         NEW known, NEW second \in BOOLEAN, NEW q, Judged(r, known, second, q),
         req' = [req EXCEPT ![r] = q]
  PROVE  q \in Progress /\ Entered(r)' /\ Fetches(r)' /\ Asks(r)'
<1>1. "refused" \in Done
  BY DEF Done
<1>2. QED
  BY <1>1, EndedKeeps, LetInKeeps, AskingKeeps, QueueingKeeps DEF Judged

----------------------------------------------------------------------------
(* One step of one request, brought together.                              *)

VerdictsTyped ==
  /\ DOMAIN verdicts \subseteq Tokens
  /\ \A t \in DOMAIN verdicts : verdicts[t] \in [at : Times, active : BOOLEAN]

LEMMA RequestKeeps ==
  ASSUME IInv, Steady, NEW r \in Requests, NEW q \in Progress,
         req' = [req EXCEPT ![r] = q], LockMoves(r),
         Entered(r)', Fetches(r)', Asks(r)',
         keys' \subseteq Kids, missed' \in BOOLEAN,
         attemptedAt' \in {attemptedAt, now}, flight' \in Requests \cup {Nobody},
         KeysBacked', VerdictsTyped', VerdictsDated'
  PROVE  IInv'
<1>1. TypeOK'
  BY OthersKeep DEF IInv, TypeOK, Steady, world, VerdictsTyped
<1>2. \A s \in Requests : Entered(s)' /\ Fetches(s)' /\ Asks(s)'
  BY OthersKeep
<1>3. (door = "open" => MayBind)'
  BY SteadyBinds DEF IInv, Steady
<1>4. (attemptedAt <= now)'
  BY FrontDoorAssumption DEF IInv, TypeOK, Times, Steady
<1>5. QED BY <1>1, <1>2, <1>3, <1>4 DEF IInv

(* A step that touches nothing but the request's own record.               *)
LEMMA QuietKeeps ==
  ASSUME IInv, UNCHANGED <<fixed, jwks, verdicts, world>>,
         NEW r \in Requests, NEW q \in Progress, req' = [req EXCEPT ![r] = q],
         Entered(r)', Fetches(r)', Asks(r)'
  PROVE  IInv'
<1>1. Steady /\ LockMoves(r)
  BY DEF fixed, jwks, Steady, LockMoves
<1>2. KeysBacked'
  BY DEF IInv, KeysBacked, Backed, jwks, world
<1>3. VerdictsTyped' /\ VerdictsDated'
  BY DEF IInv, TypeOK, VerdictsTyped, VerdictsDated, world, fixed
<1>4. /\ keys' \subseteq Kids /\ missed' \in BOOLEAN
      /\ attemptedAt' \in {attemptedAt, now} /\ flight' \in Requests \cup {Nobody}
  BY DEF IInv, TypeOK, jwks
<1>5. QED BY <1>1, <1>2, <1>3, <1>4, RequestKeeps

LEMMA QuietEnds ==
  ASSUME IInv, UNCHANGED <<fixed, jwks, verdicts, world>>,
         NEW r \in Requests, ~At(r, "fetching"), NEW stage \in Done,
         req' = Ended(r, stage)
  PROVE  IInv'
<1>1. req' = [req EXCEPT ![r] = EndedAs(stage)]
  BY DEF Ended, EndedAs
<1>2. flight' # r
  BY DEF IInv, Fetches, jwks
<1>3. QED BY <1>1, <1>2, EndedKeeps, QuietKeeps

LEMMA AcceptKeeps ==
  ASSUME IInv, NEW r \in Requests, NEW kind \in Kinds, Accept(r, kind)
  PROVE  IInv'
<1> DEFINE q == [NoRequest EXCEPT
                   !.stage = IF conf.tls = "none" THEN "ready" ELSE "accepted",
                   !.kind = kind]
<1>1. q \in Progress /\ q.stage \in {"ready", "accepted"} /\ q.got = {}
      /\ (q.stage = "ready" => conf.tls = "none")
  BY NoRequestType DEF Progress, Stages
<1>2. req' = [req EXCEPT ![r] = q] /\ UNCHANGED <<fixed, jwks, verdicts, world>>
  BY DEF Accept
<1>3. req'[r] = q
  BY <1>2 DEF IInv, TypeOK
<1>4. MayBind' /\ ~At(r, "fetching") /\ flight # r
  BY <1>2, SteadyBinds DEF Accept, IInv, Fetches, At, fixed
<1>5. Entered(r)'
  BY <1>1, <1>2, <1>3, <1>4, SteadyBinds DEF Entered, At, Done, fixed, RequiresClientCert
<1>6. Fetches(r)' /\ Asks(r)'
  BY <1>1, <1>2, <1>3, <1>4 DEF Fetches, Asks, At, jwks
<1>7. QED BY <1>1, <1>2, <1>5, <1>6, QuietKeeps

LEMMA HandshakeKeeps ==
  ASSUME IInv, NEW r \in Requests, Handshake(r)
  PROVE  IInv'
<1>1. UNCHANGED <<fixed, jwks, verdicts, world>> /\ At(r, "accepted")
  BY DEF Handshake
<1>2. CASE RequiresClientCert /\ ~req[r].kind.cert
  BY <1>1, <1>2, QuietEnds DEF Handshake, At, Done
<1>3. CASE ~(RequiresClientCert /\ ~req[r].kind.cert)
  <2> DEFINE q == [req[r] EXCEPT !.stage = "ready"]
  <2>1. req[r] \in Progress /\ Entered(r) /\ Fetches(r)
    BY DEF IInv, TypeOK
  <2>2. q \in Progress /\ q.stage = "ready" /\ q.kind = req[r].kind /\ q.got = req[r].got
    BY <2>1 DEF Progress, Stages
  <2>3. req' = [req EXCEPT ![r] = q] /\ req'[r] = q
    BY <1>1, <1>3 DEF Handshake, IInv, TypeOK
  <2>4. Entered(r)'
    BY <1>1, <1>3, <2>1, <2>2, <2>3, SteadyBinds DEF Entered, At, Done, fixed
  <2>5. Fetches(r)' /\ Asks(r)'
    BY <1>1, <2>1, <2>2, <2>3 DEF Fetches, Asks, At, jwks
  <2>6. QED BY <1>1, <2>2, <2>3, <2>4, <2>5, QuietKeeps
<1>4. QED BY <1>2, <1>3

LEMMA IdleKeeps ==
  ASSUME IInv, NEW r \in Requests, Idle(r)
  PROVE  IInv'
BY QuietEnds DEF Idle, At, Done

LEMMA HandleKeeps ==
  ASSUME IInv, NEW r \in Requests, NEW attached \in BOOLEAN, Handle(r, attached)
  PROVE  IInv'
BY QuietEnds DEF Handle, At, Done

(* An external answer only fills in `reply`, and `got` with what is        *)
(* published.                                                              *)
LEMMA ServerAnswersKeeps ==
  ASSUME IInv, NEW r \in Requests, ServerAnswers(r)
  PROVE  IInv'
<1> DEFINE q == [req[r] EXCEPT !.reply =
                   IF revoked[Token(r)] = Never THEN "active" ELSE "inactive"]
<1>1. /\ UNCHANGED <<fixed, jwks, verdicts, world>> /\ At(r, "wire")
      /\ req[r] \in Progress /\ Entered(r) /\ Fetches(r) /\ Asks(r)
  BY DEF ServerAnswers, IInv, TypeOK
<1>2. /\ q \in Progress /\ q.stage = req[r].stage /\ q.kind = req[r].kind
      /\ q.sent = req[r].sent /\ q.got = req[r].got
      /\ (q.reply = "active" => revoked[Token(r)] = Never)
  BY <1>1 DEF Progress
<1>3. req' = [req EXCEPT ![r] = q] /\ req'[r] = q
  BY DEF ServerAnswers, IInv, TypeOK
<1>4. Entered(r)'
  BY <1>1, <1>2, <1>3, SteadyBinds DEF Entered, At, Done, fixed, Token
<1>5. Fetches(r)'
  BY <1>1, <1>2, <1>3 DEF Fetches, At, jwks
<1>6. Asks(r)'
  BY <1>1, <1>2, <1>3 DEF Asks, At, fixed, world, Token
<1>7. QED BY <1>1, <1>2, <1>3, <1>4, <1>5, <1>6, QuietKeeps

LEMMA ProviderAnswersKeeps ==
  ASSUME IInv, NEW r \in Requests, ProviderAnswers(r)
  PROVE  IInv'
<1> DEFINE q == [req[r] EXCEPT !.reply = "document", !.got = published]
<1>1. /\ UNCHANGED <<fixed, jwks, verdicts, world>> /\ At(r, "fetching")
      /\ req[r] \in Progress /\ Entered(r) /\ Fetches(r) /\ published \subseteq Kids
  BY DEF ProviderAnswers, IInv, TypeOK
<1>2. q \in Progress /\ q.stage = req[r].stage /\ q.kind = req[r].kind /\ q.got = published
  BY <1>1 DEF Progress
<1>3. req' = [req EXCEPT ![r] = q] /\ req'[r] = q
  BY DEF ProviderAnswers, IInv, TypeOK
<1>4. Entered(r)'
  BY <1>1, <1>2, <1>3, SteadyBinds DEF Entered, At, Done, fixed, Token
<1>5. Fetches(r)'
  BY <1>1, <1>2, <1>3 DEF Fetches, Backed, At, jwks, world, fixed
<1>6. Asks(r)'
  BY <1>1, <1>2, <1>3 DEF Asks, At
<1>7. QED BY <1>1, <1>2, <1>3, <1>4, <1>5, <1>6, QuietKeeps

----------------------------------------------------------------------------
(* The steps that look a token's key up, or fetch the set.                 *)

LEMMA TokenOrNone ==
  ASSUME TypeOK, NEW r \in Requests
  PROVE  Token(r) \in Tokens \cup {NoToken}
<1>1. req[r].kind \in KindShape
  BY FrontDoorAssumption DEF TypeOK, Progress
<1>2. QED BY <1>1 DEF KindShape, Token

(* A look that leaves the lock alone.                                      *)
LEMMA LookKeeps ==
  ASSUME IInv, UNCHANGED <<fixed, jwks, verdicts, world>>,
         NEW r \in Requests, Passing(r), ~At(r, "fetching"),
         NEW known, NEW second \in BOOLEAN, req' = Look(r, known, second)
  PROVE  IInv'
<1>1. PICK q : Judged(r, known, second, q) /\ req' = [req EXCEPT ![r] = q]
  BY LookIs DEF IInv
<1>2. Steady /\ flight' # r
  BY DEF IInv, Fetches, fixed, jwks, Steady
<1>3. q \in Progress /\ Entered(r)' /\ Fetches(r)' /\ Asks(r)'
  BY <1>1, <1>2, JudgedKeeps
<1>4. QED BY <1>1, <1>3, QuietKeeps

LEMMA AttemptKeeps ==
  ASSUME IInv, UNCHANGED <<fixed, verdicts, world>>,
         NEW r \in Requests, Passing(r), req[r].stage \in {"ready", "flight"},
         flight = Nobody, NEW second \in BOOLEAN, Attempt(r, second)
  PROVE  IInv'
<1> DEFINE q == [req[r] EXCEPT !.stage = "fetching", !.second = second]
<1>1. req[r] \in Progress /\ Entered(r) /\ Fetches(r)
  BY DEF IInv, TypeOK
<1>2. /\ q \in Progress /\ q.stage = "fetching" /\ q.kind = req[r].kind
      /\ q.got = req[r].got
  BY <1>1 DEF Progress, Stages
<1>3. req' = [req EXCEPT ![r] = q] /\ req'[r] = q
  BY DEF Attempt, IInv, TypeOK
<1>4. /\ Steady /\ flight' = r /\ attemptedAt' = now
      /\ UNCHANGED <<keys, missed, verdicts>>
  BY DEF Attempt, Steady, fixed
<1>5. Entered(r)'
  BY <1>1, <1>2, <1>3, <1>4, SteadyBinds DEF Entered, At, Done, Steady, Token, Passing
<1>6. Fetches(r)'
  <2>1. now \in Nat /\ JWKS_FETCH_TIMEOUT \in Nat
    BY FrontDoorAssumption DEF IInv, TypeOK, Times
  <2>2. req[r].got = {}
    BY <1>1 DEF Fetches
  <2>3. (now <= attemptedAt + JWKS_FETCH_TIMEOUT)'
    BY <1>4, <2>1 DEF Steady
  <2>4. req'[r].stage = "fetching" /\ req'[r].got = {}
    BY <1>2, <1>3, <2>2
  <2>5. QED BY <1>4, <2>3, <2>4 DEF Fetches, At
<1>7. Asks(r)'
  BY <1>2, <1>3 DEF Asks, At
<1>8. KeysBacked'
  BY <1>4, FrontDoorAssumption DEF KeysBacked
<1>9. VerdictsTyped' /\ VerdictsDated'
  BY <1>4 DEF IInv, TypeOK, VerdictsTyped, VerdictsDated, Steady, world
<1>10. /\ keys' \subseteq Kids /\ missed' \in BOOLEAN
       /\ LockMoves(r) /\ flight' \in Requests \cup {Nobody}
  BY <1>4 DEF IInv, TypeOK, LockMoves
<1>11. QED
  BY <1>2, <1>3, <1>4, <1>5, <1>6, <1>7, <1>8, <1>9, <1>10, RequestKeeps

LEMMA HeadersKeeps ==
  ASSUME IInv, NEW r \in Requests, Headers(r)
  PROVE  IInv'
<1> DEFINE bearer == Token(r) # NoToken /\ conf.verifier
<1>1. UNCHANGED <<fixed, verdicts, world>> /\ At(r, "ready")
  BY DEF Headers
<1>2. CASE ~Discovery(r) /\ bearer /\ Claims(r)
  <2>1. Passing(r)
    BY <1>1, <1>2, TokenOrNone DEF IInv, Passing, At
  <2>2. CASE Stale /\ flight = Nobody /\ ~TooSoon
    BY <1>1, <1>2, <2>1, <2>2, AttemptKeeps DEF Claims, At
  <2>3. CASE ~(Stale /\ flight = Nobody /\ ~TooSoon)
    BY <1>1, <1>2, <2>1, <2>3, LookKeeps DEF Claims, At
  <2>4. QED BY <2>2, <2>3
<1>3. CASE /\ Discovery(r) \/ ~bearer
           /\ req' = IF Discovery(r) THEN Ended(r, "served")
                     ELSE IF conf.trusted /\ req[r].kind.header THEN Identified(r, "gateway")
                     ELSE IF ~Required \/ conf.anonymous THEN Identified(r, "process")
                     ELSE Ended(r, "refused")
           /\ UNCHANGED jwks
  <2>1. ASSUME NEW stage \in Done, req' = Ended(r, stage) PROVE IInv'
    BY <1>1, <1>3, <2>1, QuietEnds DEF At
  <2>2. ASSUME NEW who \in {"gateway", "process"}, req' = Identified(r, who),
               who = "process" => ~Enforced
        PROVE  IInv'
    <3> DEFINE q == [req[r] EXCEPT !.stage = "inner", !.as = who]
    <3>1. req[r] \in Progress /\ Entered(r) /\ Fetches(r)
      BY DEF IInv, TypeOK
    <3>2. /\ q \in Progress /\ q.stage = "inner" /\ q.kind = req[r].kind /\ q.as = who
      BY <3>1 DEF Progress, Stages
    <3>3. req' = [req EXCEPT ![r] = q] /\ req'[r] = q
      BY <2>2 DEF Identified, IInv, TypeOK
    <3>4. Entered(r)'
      BY <1>1, <2>2, <3>1, <3>2, <3>3, SteadyBinds DEF Entered, At, Done, fixed
    <3>5. Fetches(r)' /\ Asks(r)'
      BY <1>1, <1>3, <3>1, <3>2, <3>3 DEF Fetches, Asks, At, jwks
    <3>6. QED BY <1>1, <1>3, <3>2, <3>3, <3>4, <3>5, QuietKeeps
  <2>3. ~Required \/ conf.anonymous => ~Enforced
    BY DEF Enforced
  <2>4. "served" \in Done /\ "refused" \in Done
    BY DEF Done
  <2>5. QED BY <1>3, <2>1, <2>2, <2>3, <2>4
<1>4. QED BY <1>2, <1>3 DEF Headers, Token

LEMMA FlightKeeps ==
  ASSUME IInv, NEW r \in Requests, Flight(r)
  PROVE  IInv'
<1>1. UNCHANGED <<fixed, verdicts, world>> /\ At(r, "flight") /\ flight = Nobody
  BY DEF Flight
<1>2. Passing(r)
  BY <1>1 DEF IInv, Entered, Passing, At
<1>3. CASE TooSoon
  BY <1>1, <1>2, <1>3, LookKeeps DEF Flight, At
<1>4. CASE ~TooSoon
  BY <1>1, <1>2, <1>4, AttemptKeeps DEF Flight, At
<1>5. QED BY <1>3, <1>4

LEMMA FetchedKeeps ==
  ASSUME IInv, NEW r \in Requests, Fetched(r)
  PROVE  IInv'
<1>1. /\ UNCHANGED <<fixed, attemptedAt, verdicts, world>> /\ At(r, "fetching")
      /\ keys' = req[r].got /\ missed' = FALSE /\ flight' = Nobody
      /\ req' = Look(r, keys', req[r].second)
  BY DEF Fetched, Known
<1>2. req[r] \in Progress /\ Entered(r) /\ Fetches(r)
  BY DEF IInv, TypeOK
<1>3. req[r].second \in BOOLEAN /\ req[r].got \subseteq Kids
  BY <1>2 DEF Progress
<1>4. PICK q : Judged(r, req[r].got, req[r].second, q) /\ req' = [req EXCEPT ![r] = q]
  BY <1>1, <1>3, LookIs DEF IInv
<1>5. Steady /\ LockMoves(r) /\ flight' # r /\ Passing(r)
  BY <1>1, <1>2, FrontDoorAssumption
  DEF fixed, Steady, LockMoves, Fetches, Entered, Passing, At
<1>6. q \in Progress /\ Entered(r)' /\ Fetches(r)' /\ Asks(r)'
  BY <1>3, <1>4, <1>5, JudgedKeeps
<1>7. KeysBacked'
  BY <1>1, <1>2 DEF KeysBacked, Fetches, Backed, world
<1>8. VerdictsTyped' /\ VerdictsDated'
  BY <1>1 DEF IInv, TypeOK, VerdictsTyped, VerdictsDated, world, fixed
<1>9. keys' \subseteq Kids /\ missed' \in BOOLEAN
  BY <1>1, <1>3
<1>10. QED
  BY <1>1, <1>4, <1>5, <1>6, <1>7, <1>8, <1>9, RequestKeeps

LEMMA FetchFailsKeeps ==
  ASSUME IInv, NEW r \in Requests, FetchFails(r)
  PROVE  IInv'
<1>1. /\ UNCHANGED <<fixed, keys, attemptedAt, verdicts, world>> /\ At(r, "fetching")
      /\ missed' = TRUE /\ flight' = Nobody
      /\ req' = Look(r, keys, req[r].second)
  BY DEF FetchFails
<1>2. req[r] \in Progress /\ Entered(r) /\ Fetches(r)
  BY DEF IInv, TypeOK
<1>3. req[r].second \in BOOLEAN
  BY <1>2 DEF Progress
<1>4. PICK q : Judged(r, keys, req[r].second, q) /\ req' = [req EXCEPT ![r] = q]
  BY <1>1, <1>3, LookIs DEF IInv
<1>5. Steady /\ LockMoves(r) /\ flight' # r /\ Passing(r)
  BY <1>1, <1>2, FrontDoorAssumption
  DEF fixed, Steady, LockMoves, Fetches, Entered, Passing, At
<1>6. q \in Progress /\ Entered(r)' /\ Fetches(r)' /\ Asks(r)'
  BY <1>3, <1>4, <1>5, JudgedKeeps
<1>7. KeysBacked'
  BY <1>1 DEF KeysBacked
<1>8. VerdictsTyped' /\ VerdictsDated'
  BY <1>1 DEF IInv, TypeOK, VerdictsTyped, VerdictsDated, world, fixed
<1>9. keys' \subseteq Kids
  BY <1>1 DEF IInv, TypeOK
<1>10. QED
  BY <1>1, <1>4, <1>5, <1>6, <1>7, <1>8, <1>9, RequestKeeps

(* A request dropped while it fetches lets the lock go, and its attempt    *)
(* brought nothing.                                                        *)
LEMMA HangUpKeeps ==
  ASSUME IInv, NEW r \in Requests, HangUp(r)
  PROVE  IInv'
<1>1. /\ UNCHANGED <<fixed, keys, attemptedAt, verdicts, world>>
      /\ req' = [req EXCEPT ![r] = EndedAs("closed")]
      /\ flight' = IF flight = r THEN Nobody ELSE flight
      /\ missed' = (missed \/ At(r, "fetching"))
  BY DEF HangUp, Ended, EndedAs
<1>2. Fetches(r) /\ "closed" \in Done
  BY DEF IInv, Done
<1>3. Steady /\ LockMoves(r) /\ flight' # r
  BY <1>1, FrontDoorAssumption DEF fixed, Steady, LockMoves
<1>4. EndedAs("closed") \in Progress /\ Entered(r)' /\ Fetches(r)' /\ Asks(r)'
  BY <1>1, <1>2, <1>3, EndedKeeps
<1>5. KeysBacked'
  BY <1>1, <1>2 DEF IInv, KeysBacked, Backed, Fetches, world
<1>6. VerdictsTyped' /\ VerdictsDated'
  BY <1>1 DEF IInv, TypeOK, VerdictsTyped, VerdictsDated, world, fixed
<1>7. keys' \subseteq Kids /\ missed' \in BOOLEAN /\ flight' \in Requests \cup {Nobody}
  BY <1>1 DEF IInv, TypeOK, At
<1>8. QED
  BY <1>1, <1>3, <1>4, <1>5, <1>6, <1>7, RequestKeeps

----------------------------------------------------------------------------
(* The answers of the authorization server.                                *)

LEMMA VerdictKeeps ==
  ASSUME IInv, UNCHANGED <<fixed, jwks, world>>, NEW r \in Requests, At(r, "wire"),
         NEW active \in BOOLEAN, req' = Verdict(r, active),
         VerdictsTyped', VerdictsDated'
  PROVE  IInv'
<1>1. Steady /\ LockMoves(r) /\ flight' # r /\ Passing(r)
  BY DEF IInv, Entered, Fetches, At, fixed, jwks, Steady, LockMoves, Passing
<1>2. KeysBacked'
  BY DEF IInv, KeysBacked, Backed, jwks, world
<1>3. /\ keys' \subseteq Kids /\ missed' \in BOOLEAN
      /\ attemptedAt' \in {attemptedAt, now} /\ flight' \in Requests \cup {Nobody}
  BY DEF IInv, TypeOK, jwks
<1>4. CASE active
  BY <1>1, <1>2, <1>3, <1>4, VerdictIs, LetInKeeps, RequestKeeps
<1>5. CASE ~active
  <2>1. "refused" \in Done /\ req' = [req EXCEPT ![r] = EndedAs("refused")]
    BY <1>5, VerdictIs DEF Done
  <2>2. QED BY <1>1, <1>2, <1>3, <2>1, EndedKeeps, RequestKeeps
<1>6. QED BY <1>4, <1>5

LEMMA HeardKeeps ==
  ASSUME IInv, NEW r \in Requests, Heard(r)
  PROVE  IInv'
<1> DEFINE t == Token(r)
           active == req[r].reply = "active"
<1>1. /\ UNCHANGED <<fixed, jwks, world>> /\ At(r, "wire")
      /\ verdicts' = (IF ExpOf[t] <= now THEN verdicts ELSE Noted(t, active))
      /\ req' = Verdict(r, active)
  BY DEF Heard, Remember
<1>2. /\ t \in Tokens /\ now \in Times /\ AskTimeout \in Nat
      /\ req[r].sent \in Times /\ revoked[t] \in Times \cup {Never}
      /\ Asks(r)
  BY <1>1, FrontDoorAssumption DEF IInv, Entered, At, TypeOK, Progress
<1>3. VerdictsTyped /\ VerdictsDated
  BY DEF IInv, TypeOK, VerdictsTyped
<1>4. active => revoked[t] = Never \/ now <= revoked[t] + AskTimeout
  BY <1>1, <1>2, FrontDoorAssumption DEF Asks, Times
<1>5. CASE verdicts' = verdicts
  <2>1. VerdictsTyped' /\ VerdictsDated'
    BY <1>1, <1>3, <1>5 DEF VerdictsTyped, VerdictsDated, world, fixed
  <2>2. QED BY <1>1, <2>1, VerdictKeeps
<1>6. CASE verdicts' = Noted(t, active)
  <2>1. Roomy \subseteq DOMAIN verdicts
    BY DEF Roomy
  <2>2. DOMAIN verdicts' = Roomy \cup {t}
    BY <1>6 DEF Noted
  <2>3. \A u \in DOMAIN verdicts' :
          \/ verdicts'[u] = [at |-> now, active |-> active] /\ u = t
          \/ verdicts'[u] = verdicts[u] /\ u \in DOMAIN verdicts
    BY <1>6, <2>1, <2>2 DEF Noted
  <2>4. [at |-> now, active |-> active] \in [at : Times, active : BOOLEAN]
    BY <1>2
  <2>5. VerdictsTyped'
    BY <1>2, <1>3, <2>1, <2>2, <2>3, <2>4 DEF VerdictsTyped
  <2>6. now' = now /\ revoked' = revoked
    BY <1>1 DEF fixed, world
  <2>7. VerdictsDated'
    <3> SUFFICES ASSUME NEW u \in DOMAIN verdicts'
                 PROVE  /\ verdicts'[u].at <= now
                        /\ verdicts'[u].active =>
                             revoked[u] = Never \/ verdicts'[u].at <= revoked[u] + AskTimeout
      BY <2>6 DEF VerdictsDated
    <3>1. CASE verdicts'[u] = [at |-> now, active |-> active] /\ u = t
      <4>1. verdicts'[u].at = now /\ verdicts'[u].active = active
        BY <3>1
      <4>2. now <= now
        BY <1>2, FrontDoorAssumption DEF Times
      <4>3. QED BY <1>4, <3>1, <4>1, <4>2
    <3>2. CASE verdicts'[u] = verdicts[u] /\ u \in DOMAIN verdicts
      BY <1>3, <3>2 DEF VerdictsDated
    <3>3. QED BY <2>3, <3>1, <3>2
  <2>8. QED BY <1>1, <2>5, <2>7, VerdictKeeps
<1>7. QED BY <1>1, <1>5, <1>6

LEMMA UnreachableKeeps ==
  ASSUME IInv, NEW r \in Requests, Unreachable(r)
  PROVE  IInv'
<1>1. /\ UNCHANGED <<fixed, jwks, world>> /\ At(r, "wire") /\ verdicts' = verdicts
      /\ req' = Verdict(r, conf.failOpen)
  BY DEF Unreachable, Spared
<1>2. conf.failOpen \in BOOLEAN
  <2>1. conf \in ConfShape
    BY FrontDoorAssumption DEF IInv, TypeOK
  <2>2. QED BY <2>1 DEF ConfShape
<1>3. VerdictsTyped' /\ VerdictsDated'
  BY <1>1 DEF IInv, TypeOK, VerdictsTyped, VerdictsDated, world, fixed
<1>4. QED BY <1>1, <1>2, <1>3, VerdictKeeps

----------------------------------------------------------------------------
(* The steps of no request.                                                *)

LEMMA BindKeeps ==
  ASSUME IInv, Bind
  PROVE  IInv'
<1>1. UNCHANGED <<conf, req, jwks, verdicts, now, world>> /\ door' \in {"open", "shut"}
  BY DEF Bind
<1>2. MayBind' = MayBind /\ (door' = "open" => MayBind)
  BY <1>1, SteadyBinds DEF Bind
<1>3. TypeOK'
  BY <1>1 DEF IInv, TypeOK, jwks, world
<1>4. KeysBacked' /\ VerdictsDated' /\ (attemptedAt <= now)'
  BY <1>1 DEF IInv, KeysBacked, Backed, VerdictsDated, jwks, world
<1>5. ASSUME NEW r \in Requests PROVE Entered(r)' /\ Fetches(r)' /\ Asks(r)'
  <2>1. Entered(r)'
    BY <1>1, SteadyBinds DEF IInv, Entered, At, Token
  <2>2. Fetches(r)' /\ Asks(r)'
    BY <1>1 DEF IInv, Fetches, Asks, Backed, At, Token, jwks, world
  <2>3. QED BY <2>1, <2>2
<1>6. QED BY <1>2, <1>3, <1>4, <1>5 DEF IInv

LEMMA TickKeeps ==
  ASSUME IInv, Tick
  PROVE  IInv'
<1>1. /\ UNCHANGED <<conf, door, req, jwks, verdicts, world>> /\ now' = now + 1
      /\ now < MaxTime /\ \A r \in Requests : Awaiting(r)
  BY DEF Tick
<1>2. /\ now \in Times /\ attemptedAt \in Times /\ now' \in Times
      /\ JWKS_FETCH_TIMEOUT \in Nat /\ AskTimeout \in Nat /\ MaxTime \in Nat
  BY <1>1, FrontDoorAssumption DEF IInv, TypeOK, Times
<1>3. TypeOK'
  BY <1>1, <1>2 DEF IInv, TypeOK, jwks, world
<1>4. (attemptedAt <= now)'
  BY <1>1, <1>2 DEF IInv, Times, jwks
<1>5. KeysBacked'
  BY <1>1 DEF IInv, KeysBacked, Backed, jwks, world
<1>6. VerdictsDated'
  <2>1. \A t \in DOMAIN verdicts : verdicts[t].at \in Times
    BY DEF IInv, TypeOK
  <2>2. QED BY <1>1, <1>2, <2>1 DEF IInv, VerdictsDated, Times, world
<1>7. ASSUME NEW r \in Requests PROVE Entered(r)' /\ Fetches(r)' /\ Asks(r)'
  <2>1. Entered(r) /\ Fetches(r) /\ Asks(r) /\ Awaiting(r) /\ req[r] \in Progress
    BY <1>1 DEF IInv, TypeOK
  <2>2. Entered(r)'
    BY <1>1, <2>1, SteadyBinds DEF Entered, At, Token
  <2>3. Fetches(r)'
    BY <1>1, <1>2, <2>1 DEF Fetches, Awaiting, Backed, At, Times, jwks, world
  <2>4. Asks(r)'
    <3>1. req[r].sent \in Times
      BY <2>1 DEF Progress
    <3>2. QED BY <1>1, <1>2, <2>1, <3>1 DEF Asks, Awaiting, At, Token, Times, world
  <2>5. QED BY <2>2, <2>3, <2>4
<1>8. (door = "open" => MayBind)'
  BY <1>1, SteadyBinds DEF IInv
<1>9. QED BY <1>3, <1>4, <1>5, <1>6, <1>7, <1>8 DEF IInv

(* What the provider does to its keys, and the server to its tokens.       *)
LEMMA WorldKeeps ==
  ASSUME IInv, UNCHANGED <<fixed, req, jwks, verdicts>>,
         published' \subseteq Kids, withdrawn' \in [Kids -> Times \cup {Never}],
         revoked' \in [Tokens -> Times \cup {Never}],
         \A k \in Kids : Backed(k) => Backed(k)',
         \A t \in Tokens : revoked'[t] \in {revoked[t], now}
  PROVE  IInv'
<1>1. UNCHANGED <<conf, door, now, req, keys, attemptedAt, flight, missed, verdicts>>
  BY DEF fixed, jwks
<1>2. TypeOK'
  BY <1>1 DEF IInv, TypeOK
<1>3. (attemptedAt <= now)' /\ (door = "open" => MayBind)'
  BY <1>1, SteadyBinds DEF IInv
<1>4. KeysBacked'
  BY <1>1 DEF IInv, TypeOK, KeysBacked
<1>5. now \in Times /\ AskTimeout \in Nat
  BY FrontDoorAssumption DEF IInv, TypeOK
<1>6. VerdictsDated'
  <2> SUFFICES ASSUME NEW t \in DOMAIN verdicts
               PROVE  /\ verdicts[t].at <= now
                      /\ verdicts[t].active =>
                           revoked'[t] = Never \/ verdicts[t].at <= revoked'[t] + AskTimeout
    BY <1>1 DEF VerdictsDated
  <2>1. t \in Tokens /\ verdicts[t].at \in Times
    BY DEF IInv, TypeOK
  <2>2. /\ verdicts[t].at <= now
        /\ verdicts[t].active =>
             revoked[t] = Never \/ verdicts[t].at <= revoked[t] + AskTimeout
    BY DEF IInv, VerdictsDated
  <2>3. QED BY <1>5, <2>1, <2>2 DEF Times
<1>7. ASSUME NEW r \in Requests PROVE Entered(r)' /\ Fetches(r)' /\ Asks(r)'
  <2>1. Entered(r) /\ Fetches(r) /\ Asks(r) /\ req[r] \in Progress
    BY DEF IInv, TypeOK
  <2>2. Entered(r)'
    BY <1>1, <2>1, SteadyBinds DEF Entered, At, Token
  <2>3. Fetches(r)'
    <3>1. req[r].got \subseteq Kids
      BY <2>1 DEF Progress
    <3>2. QED BY <1>1, <2>1, <3>1 DEF Fetches, At
  <2>4. Asks(r)'
    <3>1. At(r, "wire") => Token(r) \in Tokens
      BY <2>1 DEF Entered, At
    <3>2. QED BY <1>1, <2>1, <3>1 DEF Asks, At, Token
  <2>5. QED BY <2>2, <2>3, <2>4
<1>8. QED BY <1>2, <1>3, <1>4, <1>6, <1>7 DEF IInv

LEMMA PublishKeeps ==
  ASSUME IInv, NEW k \in Kids, Publish(k)
  PROVE  IInv'
BY WorldKeeps DEF Publish, IInv, TypeOK, Backed, jwks

LEMMA WithdrawKeeps ==
  ASSUME IInv, NEW k \in Kids, Withdraw(k)
  PROVE  IInv'
<1>1. /\ UNCHANGED <<fixed, req, jwks, verdicts, revoked>>
      /\ published' = published \ {k}
      /\ withdrawn' = [withdrawn EXCEPT ![k] = now]
  BY DEF Withdraw
<1>2. /\ withdrawn \in [Kids -> Times \cup {Never}] /\ now \in Times
      /\ published \subseteq Kids /\ revoked \in [Tokens -> Times \cup {Never}]
      /\ attemptedAt <= now /\ attemptedAt \in Times
  BY DEF IInv, TypeOK
<1>3. \A j \in Kids : Backed(j) => Backed(j)'
  BY <1>1, <1>2, FrontDoorAssumption DEF Backed, jwks, Times
<1>4. withdrawn' \in [Kids -> Times \cup {Never}]
  BY <1>1, <1>2
<1>5. QED BY <1>1, <1>2, <1>3, <1>4, WorldKeeps

LEMMA RevokeKeeps ==
  ASSUME IInv, NEW t \in Tokens, Revoke(t)
  PROVE  IInv'
<1>1. /\ UNCHANGED <<fixed, req, jwks, verdicts, published, withdrawn>>
      /\ revoked' = [revoked EXCEPT ![t] = now]
  BY DEF Revoke
<1>2. /\ revoked \in [Tokens -> Times \cup {Never}] /\ now \in Times
      /\ published \subseteq Kids /\ withdrawn \in [Kids -> Times \cup {Never}]
  BY DEF IInv, TypeOK
<1>3. \A k \in Kids : Backed(k) => Backed(k)'
  BY <1>1 DEF Backed, jwks
<1>4. /\ revoked' \in [Tokens -> Times \cup {Never}]
      /\ \A u \in Tokens : revoked'[u] \in {revoked[u], now}
  BY <1>1, <1>2
<1>5. QED BY <1>1, <1>2, <1>3, <1>4, WorldKeeps

----------------------------------------------------------------------------
(* The invariant.                                                          *)

LEMMA InitKeeps == Init => IInv
<1> SUFFICES ASSUME Init PROVE IInv
  OBVIOUS
<1>1. 0 \in Times /\ FirstKids \subseteq Kids
  BY FrontDoorAssumption DEF Times
<1>2. TypeOK
  BY <1>1, NoRequestType DEF Init, TypeOK
<1>3. door # "open" /\ attemptedAt <= now
  BY DEF Init
<1>4. KeysBacked
  BY DEF Init, KeysBacked, Backed
<1>5. VerdictsDated
  BY DEF Init, VerdictsDated
<1>6. ASSUME NEW r \in Requests PROVE Entered(r) /\ Fetches(r) /\ Asks(r)
  <2>1. req[r] = NoRequest /\ flight = Nobody
    BY DEF Init
  <2>2. QED
    BY <2>1, NoRequestType, FrontDoorAssumption DEF Entered, Fetches, Asks, At, Done
<1>7. QED BY <1>2, <1>3, <1>4, <1>5, <1>6 DEF IInv

LEMMA StepKeeps == IInv /\ [Next]_vars => IInv'
<1> SUFFICES ASSUME IInv, [Next]_vars PROVE IInv'
  OBVIOUS
<1>1. CASE UNCHANGED vars
  <2>1. UNCHANGED <<fixed, req, jwks, verdicts, published, withdrawn, revoked>>
    BY <1>1 DEF vars, fixed, jwks
  <2>2. \A k \in Kids : Backed(k) => Backed(k)'
    BY <1>1 DEF vars, Backed
  <2>3. QED BY <2>1, <2>2, WorldKeeps DEF IInv, TypeOK
<1>2. CASE Bind
  BY <1>2, BindKeeps
<1>3. CASE Tick
  BY <1>3, TickKeeps
<1>4. ASSUME NEW r \in Requests, NEW kind \in Kinds, Accept(r, kind) PROVE IInv'
  BY <1>4, AcceptKeeps
<1>5. ASSUME NEW r \in Requests, Handshake(r) PROVE IInv'
  BY <1>5, HandshakeKeeps
<1>6. ASSUME NEW r \in Requests, Headers(r) PROVE IInv'
  BY <1>6, HeadersKeeps
<1>7. ASSUME NEW r \in Requests, Idle(r) PROVE IInv'
  BY <1>7, IdleKeeps
<1>8. ASSUME NEW r \in Requests, Fetched(r) PROVE IInv'
  BY <1>8, FetchedKeeps
<1>9. ASSUME NEW r \in Requests, FetchFails(r) PROVE IInv'
  BY <1>9, FetchFailsKeeps
<1>10. ASSUME NEW r \in Requests, Heard(r) PROVE IInv'
  BY <1>10, HeardKeeps
<1>11. ASSUME NEW r \in Requests, Unreachable(r) PROVE IInv'
  BY <1>11, UnreachableKeeps
<1>12. ASSUME NEW r \in Requests, NEW attached \in BOOLEAN, Handle(r, attached) PROVE IInv'
  BY <1>12, HandleKeeps
<1>13. ASSUME NEW r \in Requests, Flight(r) PROVE IInv'
  BY <1>13, FlightKeeps
<1>14. ASSUME NEW r \in Requests, ProviderAnswers(r) PROVE IInv'
  BY <1>14, ProviderAnswersKeeps
<1>15. ASSUME NEW r \in Requests, ServerAnswers(r) PROVE IInv'
  BY <1>15, ServerAnswersKeeps
<1>16. ASSUME NEW r \in Requests, HangUp(r) PROVE IInv'
  BY <1>16, HangUpKeeps
<1>17. ASSUME NEW k \in Kids, Publish(k) PROVE IInv'
  BY <1>17, PublishKeeps
<1>18. ASSUME NEW k \in Kids, Withdraw(k) PROVE IInv'
  BY <1>18, WithdrawKeeps
<1>19. ASSUME NEW t \in Revocable, Revoke(t) PROVE IInv'
  BY <1>19, RevokeKeeps, FrontDoorAssumption
<1>20. QED
  BY <1>1, <1>2, <1>3, <1>4, <1>5, <1>6, <1>7, <1>8, <1>9, <1>10, <1>11,
     <1>12, <1>13, <1>14, <1>15, <1>16, <1>17, <1>18, <1>19 DEF Next

LEMMA Invariance == Spec => []IInv
<1>1. QED BY InitKeeps, StepKeeps, PTL DEF Spec

(* Every variable of the door keeps its type, whatever the requests, the   *)
(* keys and the answers (serve_http, Jwks, Introspector).                  *)
THEOREM TypeCorrect == Spec => []TypeOK
<1>1. IInv => TypeOK
  BY DEF IInv
<1>2. QED BY <1>1, Invariance, PTL

----------------------------------------------------------------------------
(* Who is served as the process: ProcessScopesGuarded holds of any         *)
(* deployment (serve_http's guards, authenticate, MinMcpServer::caller).   *)
LEMMA ServedGuarded ==
  ASSUME IInv, NEW r \in Requests, NEW attached \in BOOLEAN, ServedAsProcess(r, attached)
  PROVE  /\ ~Enforced
         /\ ~req[r].kind.foreign
         /\ \/ conf.loopback
            \/ conf.allowRemote
            \/ RequiresClientCert /\ req[r].kind.cert
<1>1. At(r, "inner") /\ Entered(r) /\ req \in [Requests -> Progress]
  BY DEF ServedAsProcess, Handle, IInv, TypeOK
<1>2. ~((req[r].kind.foreign /\ ChecksOrigin) \/ (~attached /\ ~Fallback))
  <2>1. SUFFICES ASSUME (req[r].kind.foreign /\ ChecksOrigin) \/ (~attached /\ ~Fallback)
                 PROVE  FALSE
    OBVIOUS
  <2>2. req' = [req EXCEPT ![r] = EndedAs("refused")]
    BY <2>1 DEF ServedAsProcess, Handle, Ended, EndedAs
  <2>3. req'[r].stage = "refused"
    BY <1>1, <2>2, NoRequestType DEF EndedAs, Progress
  <2>4. QED BY <2>3 DEF ServedAsProcess
<1>3. ~Enforced
  BY <1>1, <1>2 DEF ServedAsProcess, Entered, Fallback
<1>4. ~req[r].kind.foreign
  BY <1>2, <1>3 DEF ChecksOrigin
<1>5. MayBind /\ (RequiresClientCert => req[r].kind.cert)
  BY <1>1 DEF Entered, At, Done
<1>6. conf.loopback \/ conf.allowRemote \/ RequiresClientCert
  BY <1>3, <1>5 DEF MayBind
<1>7. QED BY <1>3, <1>4, <1>5, <1>6

THEOREM ProcessIsGuarded == Spec => ProcessScopesGuarded
<1>1. IInv /\ [Next]_vars =>
        [\A r \in Requests, attached \in BOOLEAN :
           ServedAsProcess(r, attached) =>
             /\ ~Enforced
             /\ ~req[r].kind.foreign
             /\ \/ conf.loopback
                \/ conf.allowRemote
                \/ RequiresClientCert /\ req[r].kind.cert]_vars
  BY ServedGuarded
<1>2. QED BY <1>1, Invariance, PTL DEF Spec, ProcessScopesGuarded

----------------------------------------------------------------------------
(* Which steps judge a token.                                              *)

Looks(r) == Headers(r) \/ Flight(r) \/ Fetched(r) \/ FetchFails(r)

OfRequest(r) ==
  \/ \E kind \in Kinds : Accept(r, kind)
  \/ \E attached \in BOOLEAN : Handle(r, attached)
  \/ Looks(r) \/ Heard(r) \/ Unreachable(r)
  \/ Handshake(r) \/ Idle(r) \/ ProviderAnswers(r) \/ ServerAnswers(r) \/ HangUp(r)

(* A step of one request moves no other.                                   *)
LEMMA MovesAlone ==
  ASSUME IInv, NEW s \in Requests, OfRequest(s)
  PROVE  \A r \in Requests \ {s} : req'[r] = req[r]
<1>1. TypeOK /\ req \in [Requests -> Progress]
  BY DEF IInv, TypeOK
<1>2. SUFFICES \E q : req' = [req EXCEPT ![s] = q]
  BY <1>1
<1>3. ASSUME NEW known, NEW second \in BOOLEAN, req' = Look(s, known, second)
      PROVE  \E q : req' = [req EXCEPT ![s] = q]
  BY <1>1, <1>3, LookIs
<1>4. ASSUME NEW second \in BOOLEAN, Attempt(s, second)
      PROVE  \E q : req' = [req EXCEPT ![s] = q]
  BY <1>1, <1>4 DEF Attempt
<1>5. req[s].second \in BOOLEAN
  BY <1>1 DEF Progress
<1>6. CASE Headers(s)
  <2>1. CASE Claims(s)
    BY <1>3, <1>4, <2>1 DEF Claims
  <2>2. CASE ~Claims(s)
    BY <1>1, <1>6, <2>2 DEF Headers, Ended, Identified
  <2>3. QED BY <2>1, <2>2
<1>7. CASE Flight(s)
  BY <1>3, <1>4, <1>7 DEF Flight
<1>8. CASE Fetched(s) \/ FetchFails(s)
  BY <1>3, <1>5, <1>8 DEF Fetched, FetchFails
<1>9. CASE Heard(s)
  BY <1>9, VerdictIs DEF Heard
<1>10. CASE Unreachable(s)
  <2>1. conf \in ConfShape
    BY FrontDoorAssumption, <1>1 DEF TypeOK
  <2>2. conf.failOpen \in BOOLEAN
    BY <2>1 DEF ConfShape
  <2>3. QED BY <1>10, <2>2, VerdictIs DEF Unreachable
<1>11. CASE \E kind \in Kinds : Accept(s, kind)
  BY <1>11 DEF Accept
<1>12. CASE Handshake(s) \/ Idle(s) \/ HangUp(s) \/ \E attached \in BOOLEAN : Handle(s, attached)
  BY <1>1, <1>12 DEF Handshake, Idle, HangUp, Handle, Ended
<1>13. CASE ProviderAnswers(s) \/ ServerAnswers(s)
  BY <1>1, <1>13 DEF ProviderAnswers, ServerAnswers
<1>14. QED
  BY <1>6, <1>7, <1>8, <1>9, <1>10, <1>11, <1>12, <1>13 DEF OfRequest, Looks

(* A request goes on to the server, to its handler or to a refusal by a    *)
(* look at its token or by the server's answer.                            *)
LEMMA MovesByLooking ==
  ASSUME IInv, Next, NEW r \in Requests, ~At(r, "inner"),
         req'[r].stage \in {"wire", "inner", "refused"}, req'[r].stage # req[r].stage
  PROVE  Looks(r) \/ Heard(r) \/ Unreachable(r)
<1>1. req \in [Requests -> Progress]
  BY DEF IInv, TypeOK
<1>2. PICK s \in Requests : OfRequest(s)
  BY DEF Next, OfRequest, Looks, Bind, Tick, Publish, Withdraw, Revoke
<1>3. s = r
  BY <1>2, MovesAlone
<1>4. ASSUME NEW stage \in {"served", "closed", "ready"}, req' = Ended(r, stage) PROVE FALSE
  BY <1>1, <1>4, NoRequestType DEF Ended, Progress
<1>5. CASE \E kind \in Kinds : Accept(r, kind)
  <2>1. PICK kind \in Kinds : Accept(r, kind)
    BY <1>5
  <2>2. req'[r].stage \in {"ready", "accepted"}
    BY <1>1, <2>1, NoRequestType DEF Accept, Progress
  <2>3. QED BY <2>2
<1>6. CASE Handshake(r)
  <2>1. CASE req' = [req EXCEPT ![r].stage = "ready"]
    BY <1>1, <2>1 DEF Progress
  <2>2. QED BY <1>4, <1>6, <2>1 DEF Handshake
<1>7. CASE Idle(r) \/ HangUp(r)
  BY <1>4, <1>7 DEF Idle, HangUp
<1>8. CASE \E attached \in BOOLEAN : Handle(r, attached)
  BY <1>8 DEF Handle
<1>9. CASE ProviderAnswers(r) \/ ServerAnswers(r)
  BY <1>1, <1>9 DEF ProviderAnswers, ServerAnswers, Progress
<1>10. QED
  BY <1>2, <1>3, <1>5, <1>6, <1>7, <1>8, <1>9 DEF OfRequest

LEMMA Outcomes ==
  ASSUME TypeOK, NEW r \in Requests
  PROVE  /\ EndedAs("refused").stage = "refused"
         /\ LetIn(r).stage = "inner"
         /\ Asking(r).stage = "wire"
         /\ Queueing(r).stage = "flight"
<1>1. req[r] \in Progress
  BY DEF TypeOK
<1>2. QED
  BY <1>1, NoRequestType DEF EndedAs, LetIn, Asking, Queueing, Progress

(* An attempt takes the request nowhere but to the fetch.                  *)
LEMMA AttemptFetches ==
  ASSUME IInv, NEW r \in Requests, NEW second \in BOOLEAN, Attempt(r, second)
  PROVE  req'[r].stage = "fetching"
<1> DEFINE q == [req[r] EXCEPT !.stage = "fetching", !.second = second]
<1>1. req \in [Requests -> Progress] /\ req[r] \in Progress
  BY DEF IInv, TypeOK
<1>2. q.stage = "fetching"
  BY <1>1 DEF Progress
<1>3. req' = [req EXCEPT ![r] = q]
  BY <1>1 DEF Attempt
<1>4. QED BY <1>1, <1>2, <1>3

(* The keys a token was held against, and why they were thought good.      *)
HeldAgainst(r, second) ==
  \/ ~second /\ UNCHANGED jwks /\ (~Stale \/ flight # Nobody \/ TooSoon)
  \/ second /\ UNCHANGED jwks /\ TooSoon /\ flight = Nobody
  \/ At(r, "fetching") /\ keys' = req[r].got /\ attemptedAt' = attemptedAt
  \/ At(r, "fetching") /\ missed' /\ attemptedAt' = attemptedAt

(* A token that gets its bearer on, or refused, was looked at.             *)
ByToken(r) ==
  \/ req'[r].stage = "wire"
  \/ req'[r].stage = "inner" /\ req'[r].as = "token"
  \/ req'[r].stage = "refused" /\ Token(r) # NoToken /\ conf.verifier

LEMMA TokenLooked ==
  ASSUME IInv, NEW r \in Requests, Looks(r), ByToken(r)
  PROVE  \E second \in BOOLEAN : \E q :
           /\ Judged(r, keys', second, q)
           /\ req' = [req EXCEPT ![r] = q]
           /\ HeldAgainst(r, second)
<1> DEFINE bearer == Token(r) # NoToken /\ conf.verifier
<1>1. TypeOK /\ req \in [Requests -> Progress] /\ req[r] \in Progress
  BY DEF IInv, TypeOK
<1>2. req'[r].stage # "fetching" /\ req'[r].stage # "served"
  BY DEF ByToken
<1>3. CASE Headers(r) /\ ~Discovery(r) /\ bearer /\ Claims(r)
  <2>1. ~(Stale /\ flight = Nobody /\ ~TooSoon)
    BY <1>2, <1>3, AttemptFetches DEF Claims
  <2>2. req' = Look(r, keys, FALSE) /\ UNCHANGED jwks
    BY <1>3, <2>1 DEF Claims
  <2>3. PICK q : Judged(r, keys, FALSE, q) /\ req' = [req EXCEPT ![r] = q]
    BY <1>1, <2>2, LookIs
  <2>4. keys' = keys /\ HeldAgainst(r, FALSE)
    BY <2>1, <2>2 DEF jwks, HeldAgainst
  <2>5. QED BY <2>3, <2>4
<1>4. CASE /\ Discovery(r) \/ ~bearer
           /\ req' = IF Discovery(r) THEN Ended(r, "served")
                     ELSE IF conf.trusted /\ req[r].kind.header THEN Identified(r, "gateway")
                     ELSE IF ~Required \/ conf.anonymous THEN Identified(r, "process")
                     ELSE Ended(r, "refused")
  <2>1. ASSUME req' = Ended(r, "served") PROVE FALSE
    BY <1>1, <1>2, <2>1, NoRequestType DEF Ended, Progress
  <2>2. ASSUME NEW who \in {"gateway", "process"}, req' = Identified(r, who) PROVE FALSE
    <3>1. req'[r].stage = "inner" /\ req'[r].as = who
      BY <1>1, <2>2 DEF Identified, Progress
    <3>2. QED BY <3>1 DEF ByToken
  <2>3. ASSUME req' = Ended(r, "refused"), ~bearer PROVE FALSE
    <3>1. req'[r].stage = "refused"
      BY <1>1, <2>3, NoRequestType DEF Ended, Progress
    <3>2. QED BY <2>3, <3>1 DEF ByToken
  <2>4. QED BY <1>4, <2>1, <2>2, <2>3
<1>5. CASE Flight(r)
  <2>1. TooSoon
    BY <1>2, <1>5, AttemptFetches DEF Flight
  <2>2. req' = Look(r, keys, TRUE) /\ UNCHANGED jwks /\ flight = Nobody
    BY <1>5, <2>1 DEF Flight
  <2>3. PICK q : Judged(r, keys, TRUE, q) /\ req' = [req EXCEPT ![r] = q]
    BY <1>1, <2>2, LookIs
  <2>4. keys' = keys /\ HeldAgainst(r, TRUE)
    BY <2>1, <2>2 DEF jwks, HeldAgainst
  <2>5. QED BY <2>3, <2>4
<1>6. req[r].second \in BOOLEAN
  BY <1>1 DEF Progress
<1>7. CASE Fetched(r)
  <2>1. /\ At(r, "fetching") /\ keys' = req[r].got /\ attemptedAt' = attemptedAt
        /\ req' = Look(r, keys', req[r].second)
    BY <1>7 DEF Fetched, Known
  <2>2. PICK q : Judged(r, req[r].got, req[r].second, q) /\ req' = [req EXCEPT ![r] = q]
    BY <1>1, <1>6, <2>1, LookIs
  <2>3. HeldAgainst(r, req[r].second)
    BY <2>1 DEF HeldAgainst
  <2>4. QED BY <1>6, <2>1, <2>2, <2>3
<1>8. CASE FetchFails(r)
  <2>1. /\ At(r, "fetching") /\ keys' = keys /\ attemptedAt' = attemptedAt /\ missed'
        /\ req' = Look(r, keys, req[r].second)
    BY <1>8 DEF FetchFails
  <2>2. PICK q : Judged(r, keys, req[r].second, q) /\ req' = [req EXCEPT ![r] = q]
    BY <1>1, <1>6, <2>1, LookIs
  <2>3. HeldAgainst(r, req[r].second)
    BY <2>1 DEF HeldAgainst
  <2>4. QED BY <1>6, <2>1, <2>2, <2>3
<1>9. QED
  BY <1>3, <1>4, <1>5, <1>7, <1>8 DEF Looks, Headers, Token

----------------------------------------------------------------------------
(* A key the provider withdrew is good for the age of a set and no longer  *)
(* (JwtVerifier::claims, refresh): WithdrawnKeyDies.                       *)
LEMMA JudgedInAge ==
  ASSUME IInv, Next, NEW r \in Requests, JudgedBy(r), Kid(r) \notin published
  PROVE  \/ now - withdrawn[Kid(r)] <= JWKS_MAX_AGE
         \/ missed'
         \/ flight' # Nobody
<1>1. TypeOK /\ req \in [Requests -> Progress]
  BY DEF IInv, TypeOK
<1>2. Looks(r) /\ ByToken(r)
  <2>1. Looks(r) \/ Heard(r) \/ Unreachable(r)
    BY MovesByLooking DEF JudgedBy, At
  <2>2. QED BY <2>1 DEF JudgedBy, ByToken, Heard, Unreachable, At
<1>3. PICK second, q :
        /\ second \in BOOLEAN
        /\ Judged(r, keys', second, q)
        /\ req' = [req EXCEPT ![r] = q]
        /\ HeldAgainst(r, second)
  BY <1>2, TokenLooked
<1>4. Kid(r) \in keys'
  <2>1. q.stage \in {"wire", "inner"}
    BY <1>1, <1>3 DEF JudgedBy
  <2>2. QED BY <1>1, <1>3, <2>1, Outcomes DEF Judged
<1>5. SUFFICES ASSUME ~missed', flight' = Nobody
               PROVE  now - withdrawn[Kid(r)] <= JWKS_MAX_AGE
  OBVIOUS
<1>6. Fetches(r) /\ KeysBacked /\ keys \subseteq Kids /\ req[r] \in Progress
  BY DEF IInv, TypeOK
<1>7. Kid(r) \in Kids /\ Backed(Kid(r)) /\ now - attemptedAt <= JWKS_MAX_AGE
  <2>1. /\ now \in Int /\ attemptedAt \in Int /\ JWKS_MAX_AGE \in Int
        /\ JWKS_MIN_REFRESH \in Int /\ JWKS_FETCH_TIMEOUT \in Int
        /\ JWKS_MIN_REFRESH <= JWKS_MAX_AGE /\ JWKS_FETCH_TIMEOUT <= JWKS_MAX_AGE
    BY <1>1, FrontDoorAssumption DEF TypeOK, Times
  <2>2. CASE UNCHANGED jwks /\ (~Stale \/ TooSoon \/ flight # Nobody)
    <3>1. flight = Nobody /\ ~missed /\ keys' = keys
      BY <1>5, <2>2 DEF jwks
    <3>2. now - attemptedAt <= JWKS_MAX_AGE
      BY <2>1, <2>2, <3>1 DEF Stale, TooSoon
    <3>3. QED BY <1>4, <1>6, <3>1, <3>2 DEF KeysBacked
  <2>3. CASE At(r, "fetching") /\ keys' = req[r].got
    <3>1. now <= attemptedAt + JWKS_FETCH_TIMEOUT /\ Backed(Kid(r))
      BY <1>4, <1>6, <2>3 DEF Fetches
    <3>2. Kid(r) \in Kids
      BY <1>4, <1>6, <2>3 DEF Progress
    <3>3. QED BY <2>1, <3>1, <3>2
  <2>4. QED BY <1>3, <1>5, <2>2, <2>3 DEF HeldAgainst
<1>8. withdrawn[Kid(r)] \in Int /\ now \in Int /\ attemptedAt \in Int /\ JWKS_MAX_AGE \in Int
  BY <1>1, <1>7, FrontDoorAssumption DEF TypeOK, Times, Never
<1>9. withdrawn[Kid(r)] >= attemptedAt
  BY <1>7 DEF Backed
<1>10. QED BY <1>7, <1>8, <1>9

(* WithdrawnKeyDies holds of any deployment, whatever the provider does    *)
(* and however its answers and the clients race (JwtVerifier::claims).     *)
THEOREM WithdrawnKeysDie == Spec => WithdrawnKeyDies
<1>1. IInv /\ [Next]_vars =>
        [\A r \in Requests :
           JudgedBy(r) /\ Kid(r) \notin published =>
             \/ now - withdrawn[Kid(r)] <= JWKS_MAX_AGE
             \/ missed'
             \/ flight' # Nobody]_vars
  BY JudgedInAge
<1>2. QED BY <1>1, Invariance, PTL DEF Spec, WithdrawnKeyDies

----------------------------------------------------------------------------
(* A token is refused for its kid only after an attempt to find it:        *)
(* UnknownOnlyAfterLooking.                                                *)
LEMMA RefusedAfterLooking ==
  ASSUME IInv, Next, NEW r \in Requests,
         req[r].stage \in {"ready", "flight", "fetching"},
         req'[r].stage = "refused", Token(r) # NoToken, conf.verifier,
         Kid(r) \notin keys'
  PROVE  now - attemptedAt' < JWKS_MIN_REFRESH + JWKS_FETCH_TIMEOUT
<1>1. TypeOK /\ req \in [Requests -> Progress]
  BY DEF IInv, TypeOK
<1>2. Looks(r) /\ ByToken(r)
  <2>1. Looks(r) \/ Heard(r) \/ Unreachable(r)
    BY MovesByLooking DEF At
  <2>2. QED BY <2>1 DEF ByToken, Heard, Unreachable, At
<1>3. PICK second, q :
        /\ second \in BOOLEAN
        /\ Judged(r, keys', second, q)
        /\ req' = [req EXCEPT ![r] = q]
        /\ HeldAgainst(r, second)
  BY <1>2, TokenLooked
<1>4. second
  <2>1. q.stage = "refused"
    BY <1>1, <1>3
  <2>2. QED BY <1>1, <1>3, <2>1, Outcomes DEF Judged
<1>5. /\ now \in Int /\ attemptedAt \in Int
      /\ JWKS_MIN_REFRESH \in Int /\ JWKS_MIN_REFRESH > 0
      /\ JWKS_FETCH_TIMEOUT \in Int /\ JWKS_FETCH_TIMEOUT >= 0
  BY <1>1, FrontDoorAssumption DEF TypeOK, Times
<1>6. CASE UNCHANGED jwks /\ TooSoon
  BY <1>5, <1>6 DEF TooSoon, jwks
<1>7. CASE At(r, "fetching") /\ attemptedAt' = attemptedAt
  <2>1. now <= attemptedAt + JWKS_FETCH_TIMEOUT
    BY <1>7 DEF IInv, Fetches
  <2>2. QED BY <1>5, <1>7, <2>1
<1>8. QED BY <1>3, <1>4, <1>6, <1>7 DEF HeldAgainst

(* UnknownOnlyAfterLooking holds of any deployment: the fetch another      *)
(* request has under way counts, one nobody made does not (refresh).       *)
THEOREM UnknownAfterLooking == Spec => UnknownOnlyAfterLooking
<1>1. IInv /\ [Next]_vars =>
        [\A r \in Requests :
           /\ req[r].stage \in {"ready", "flight", "fetching"}
           /\ req'[r].stage = "refused"
           /\ Token(r) # NoToken /\ conf.verifier
           /\ Kid(r) \notin keys'
           => now - attemptedAt' < JWKS_MIN_REFRESH + JWKS_FETCH_TIMEOUT]_vars
  BY RefusedAfterLooking
<1>2. QED BY <1>1, Invariance, PTL DEF Spec, UnknownOnlyAfterLooking

----------------------------------------------------------------------------
(* A revoked token is let in for a verdict's time and a question's, and no *)
(* longer (Introspector::active): RevocationBites.                         *)
LEMMA LetInBeforeRevoked ==
  ASSUME IInv, Next, NEW r \in Requests, conf.introspect,
         ~At(r, "inner"), req'[r].stage = "inner", req'[r].as = "token"
  PROVE  \/ revoked[Token(r)] = Never
         \/ now - revoked[Token(r)] <= CacheTtl + AskTimeout
         \/ Assumed(r)
<1>1. TypeOK /\ req \in [Requests -> Progress] /\ Entered(r) /\ Asks(r) /\ VerdictsDated
  BY DEF IInv, TypeOK
<1>2. now \in Int /\ CacheTtl \in Nat /\ AskTimeout \in Nat
  BY <1>1, FrontDoorAssumption DEF TypeOK, Times
<1>3. ASSUME NEW t \in Tokens PROVE revoked[t] \in Int
  BY <1>1, FrontDoorAssumption DEF TypeOK, Times, Never
<1>4. CASE Looks(r)
  <2>1. ByToken(r)
    BY DEF ByToken
  <2>2. PICK second, q :
          /\ second \in BOOLEAN
          /\ Judged(r, keys', second, q)
          /\ req' = [req EXCEPT ![r] = q]
    BY <1>4, <2>1, TokenLooked
  <2>3. q.stage = "inner"
    BY <1>1, <2>2
  <2>4. Fresh(Token(r)) /\ verdicts[Token(r)].active
    BY <1>1, <2>2, <2>3, Outcomes DEF Judged
  <2>5. /\ Token(r) \in Tokens /\ Token(r) \in DOMAIN verdicts
        /\ verdicts[Token(r)].at \in Int
    BY <1>1, <2>4 DEF TypeOK, Fresh, Times
  <2>6. /\ now - verdicts[Token(r)].at < CacheTtl
        /\ \/ revoked[Token(r)] = Never
           \/ verdicts[Token(r)].at <= revoked[Token(r)] + AskTimeout
    BY <1>1, <2>4, <2>5 DEF VerdictsDated, Fresh
  <2>7. QED BY <1>2, <1>3, <2>5, <2>6
<1>5. ASSUME NEW active \in BOOLEAN, ~active, req' = Verdict(r, active) PROVE FALSE
  BY <1>1, <1>5, VerdictIs, Outcomes
<1>6. CASE Heard(r)
  <2>1. At(r, "wire") /\ req' = Verdict(r, req[r].reply = "active")
    BY <1>6 DEF Heard
  <2>2. req[r].reply = "active"
    BY <1>5, <2>1
  <2>3. Token(r) \in Tokens /\ req[r].sent \in Int
    BY <1>1, <2>1 DEF Entered, At, Progress, Times
  <2>4. /\ now <= req[r].sent + AskTimeout
        /\ revoked[Token(r)] = Never \/ req[r].sent <= revoked[Token(r)]
    BY <1>1, <2>1, <2>2 DEF Asks
  <2>5. QED BY <1>2, <1>3, <2>3, <2>4
<1>7. CASE Unreachable(r)
  <2>1. At(r, "wire") /\ req' = Verdict(r, conf.failOpen)
    BY <1>7 DEF Unreachable
  <2>2. conf \in ConfShape
    BY <1>1, FrontDoorAssumption DEF TypeOK
  <2>3. conf.failOpen \in BOOLEAN
    BY <2>2 DEF ConfShape
  <2>4. QED BY <1>5, <2>1, <2>3 DEF Assumed
<1>8. QED BY <1>4, <1>6, <1>7, MovesByLooking DEF At

(* RevocationBites holds of any deployment, for any order in which the     *)
(* server's answers are heard and remembered (Introspector::active).       *)
THEOREM RevocationsBite == Spec => RevocationBites
<1>1. IInv /\ [Next]_vars =>
        [\A r \in Requests :
           /\ conf.introspect
           /\ ~At(r, "inner") /\ req'[r].stage = "inner" /\ req'[r].as = "token"
           => \/ revoked[Token(r)] = Never
              \/ now - revoked[Token(r)] <= CacheTtl + AskTimeout
              \/ Assumed(r)]_vars
  BY LetInBeforeRevoked
<1>2. QED BY <1>1, Invariance, PTL DEF Spec, RevocationBites
=============================================================================
