----------------------------- MODULE FrontDoor -----------------------------
(***************************************************************************)
(* The HTTP front door: src/src/rmcp_serve.rs (serve_http, the request     *)
(* guard, HttpIdentity) with the token checks of src/src/auth.rs: the key  *)
(* set fetched from the identity provider (JWKS) and the introspection     *)
(* verdicts asked of the authorization server.  A request crosses the      *)
(* transport, is authenticated, waits for a permit and reaches a handler   *)
(* that serves it under some caller's scopes.                              *)
(*                                                                         *)
(* The runtime is multi-threaded; a request is one task, and a client may  *)
(* hang up wherever its task awaits, which drops the task on the spot.     *)
(* The identity provider, the authorization server and rmcp are external.  *)
(***************************************************************************)
EXTENDS Integers, FiniteSets

CONSTANTS
  Requests, Nobody,       (* request slots, and the holder of a free lock  *)
  Kinds,                  (* what a client may send, see KindShape         *)
  Confs,                  (* deployments, see ConfShape                    *)
  Kids,                   (* key ids the provider may ever publish         *)
  FirstKids,              (* those published when the proxy starts         *)
  Leaving,                (* those the provider may withdraw               *)
  Tokens,                 (* bearer tokens                                 *)
  Revocable,              (* those that may be revoked                     *)
  KidOf, ExpOf, Fits,     (* a token's kid, expiry and aud/iss match       *)
  NoToken,
  JWKS_MIN_REFRESH, JWKS_MAX_AGE, JWKS_FETCH_TIMEOUT,
  CacheTtl, AskTimeout, INTROSPECTION_CACHE_MAX, Leeway,
  MaxTime                 (* bound of the model: the clock stops there     *)

ConfShape ==
  [verifier : BOOLEAN, trusted : BOOLEAN, anonymous : BOOLEAN,
   introspect : BOOLEAN, failOpen : BOOLEAN, metadata : BOOLEAN,
   loopback : BOOLEAN, allowRemote : BOOLEAN,
   tls : {"none", "server", "mutual"}]

KindShape ==
  [token : Tokens \cup {NoToken}, header : BOOLEAN, cert : BOOLEAN,
   foreign : BOOLEAN, discovery : BOOLEAN]

ASSUME FrontDoorAssumption ==
  /\ Nobody \notin Requests
  /\ Kinds \subseteq KindShape /\ Kinds # {}
  /\ Confs \subseteq ConfShape
  /\ Revocable \subseteq Tokens
  /\ NoToken \notin Tokens
  /\ FirstKids \subseteq Kids
  /\ Leaving \subseteq Kids
  /\ KidOf \in [Tokens -> Kids]
  /\ ExpOf \in [Tokens -> Nat]
  /\ Fits \in [Tokens -> BOOLEAN]
  /\ JWKS_MIN_REFRESH \in Nat \ {0}
  /\ JWKS_MAX_AGE \in Nat
  /\ JWKS_FETCH_TIMEOUT \in Nat
  /\ CacheTtl \in Nat
  /\ AskTimeout \in Nat
  /\ INTROSPECTION_CACHE_MAX \in Nat
  /\ Leeway \in Nat
  /\ MaxTime \in Nat
  /\ JWKS_MIN_REFRESH <= JWKS_MAX_AGE
  /\ JWKS_FETCH_TIMEOUT <= JWKS_MAX_AGE

NoKey == [at |-> 0, active |-> FALSE]

VARIABLES
  conf,          (* the deployment; never changes                          *)
  door,          (* the listener: "starting", "open" or "shut"             *)
  req,           (* each request's progress                                *)
  keys,          (* Jwks.keys: the kids known                              *)
  attemptedAt,   (* the last fetch attempt                                 *)
  flight,        (* who holds the single-flight lock                       *)
  verdicts,      (* the introspection cache                                *)
  now,
  published,     (* the provider: kids in the document it serves           *)
  withdrawn,     (* the provider: when a kid left that document            *)
  revoked,       (* the authorization server: when a token was revoked     *)
  missed         (* history: an attempt since the last answer brought none *)

vars == <<conf, door, req, keys, attemptedAt, flight, verdicts, now,
          published, withdrawn, revoked, missed>>
jwks == <<keys, attemptedAt, flight, missed>>
world == <<published, withdrawn, revoked>>
fixed == <<conf, door, now>>

Never == -1

Stages ==
  {"accepted", "ready", "flight", "fetching", "wire", "inner",
   "served", "refused", "closed"}

NoRequest ==
  [stage |-> "closed", kind |-> CHOOSE k \in Kinds : TRUE, got |-> {},
   sent |-> 0, reply |-> "none", second |-> FALSE, as |-> "nobody"]

Init ==
  /\ conf \in Confs
  /\ door = "starting"
  /\ req = [r \in Requests |-> NoRequest]
  /\ keys = FirstKids
  /\ attemptedAt = 0
  /\ flight = Nobody
  /\ verdicts = [t \in {} |-> NoKey]
  /\ now = 0
  /\ published = FirstKids
  /\ withdrawn = [k \in Kids |-> Never]
  /\ revoked = [t \in Tokens |-> Never]
  /\ missed = FALSE

At(r, stage) == req[r].stage = stage
Ended(r, stage) == [req EXCEPT ![r] = [NoRequest EXCEPT !.stage = stage]]
Token(r) == req[r].kind.token
Kid(r) == KidOf[Token(r)]

----------------------------------------------------------------------------
(* The listener: serve_http up to its accept loop.                         *)

Required == conf.verifier \/ conf.trusted
Enforced == Required /\ ~conf.anonymous
RequiresClientCert == conf.tls = "mutual"

(* A faulty MayBind: identity configured is taken for identity enforced.   *)
MayBindRequired ==
  conf.loopback \/ conf.allowRemote \/ Required \/ RequiresClientCert

MayBind == conf.loopback \/ conf.allowRemote \/ Enforced \/ RequiresClientCert

Bind ==
  /\ door = "starting"
  /\ door' = IF MayBind THEN "open" ELSE "shut"
  /\ UNCHANGED <<conf, req, jwks, verdicts, now, world>>

(* rmcp refuses a foreign Origin, unless every request authenticates.      *)
ChecksOrigin == conf.loopback \/ ~Enforced

----------------------------------------------------------------------------
(* A connection, and the head of the one request it carries.               *)

Accept(r, kind) ==
  /\ door = "open"
  /\ req[r].stage \in {"served", "refused", "closed"}
  /\ req' = [req EXCEPT ![r] = [NoRequest EXCEPT
               !.stage = IF conf.tls = "none" THEN "ready" ELSE "accepted",
               !.kind = kind]]
  /\ UNCHANGED <<fixed, jwks, verdicts, world>>

(* A client without a certificate the CA signed fails, under mutual TLS.   *)
Handshake(r) ==
  /\ At(r, "accepted")
  /\ req' = IF RequiresClientCert /\ ~req[r].kind.cert
              THEN Ended(r, "closed") ELSE [req EXCEPT ![r].stage = "ready"]
  /\ UNCHANGED <<fixed, jwks, verdicts, world>>

(* TLS_HANDSHAKE_TIMEOUT and HEADER_READ_TIMEOUT: no request, no socket.   *)
Idle(r) ==
  /\ req[r].stage \in {"accepted", "ready"}
  /\ req' = Ended(r, "closed")
  /\ UNCHANGED <<fixed, jwks, verdicts, world>>

----------------------------------------------------------------------------
(* Introspector::active, up to the question and from its answer on.        *)

Fresh(t) == t \in DOMAIN verdicts /\ now - verdicts[t].at < CacheTtl

Verdict(r, active) ==
  IF active
    THEN [req EXCEPT ![r] = [NoRequest EXCEPT
            !.stage = "inner", !.kind = req[r].kind, !.as = "token"]]
    ELSE Ended(r, "refused")

Ask(r) ==
  IF Fresh(Token(r)) THEN Verdict(r, verdicts[Token(r)].active)
  ELSE [req EXCEPT ![r].stage = "wire", ![r].sent = now,
                   ![r].got = {}, ![r].reply = "none"]

(* External: the authorization server says what holds as it answers.       *)
ServerAnswers(r) ==
  /\ At(r, "wire")
  /\ req[r].reply = "none"
  /\ req' = [req EXCEPT ![r].reply =
               IF revoked[Token(r)] = Never THEN "active" ELSE "inactive"]
  /\ UNCHANGED <<fixed, jwks, verdicts, world>>

(* A full map drops its lapsed entries, and all of them if none lapsed.    *)
Roomy ==
  LET kept == {t \in DOMAIN verdicts : Fresh(t)}
  IN IF Cardinality(DOMAIN verdicts) < INTROSPECTION_CACHE_MAX THEN DOMAIN verdicts
     ELSE IF Cardinality(kept) < INTROSPECTION_CACHE_MAX THEN kept
     ELSE {}

Noted(t, active) ==
  [u \in Roomy \cup {t} |->
     IF u = t THEN [at |-> now, active |-> active] ELSE verdicts[u]]

(* remember: stamped on receipt, last writer wins, no dead token.          *)
Remember(t, active) ==
  verdicts' = IF ExpOf[t] <= now THEN verdicts ELSE Noted(t, active)

Heard(r) ==
  /\ At(r, "wire")
  /\ req[r].reply # "none"
  /\ Remember(Token(r), req[r].reply = "active")
  /\ req' = Verdict(r, req[r].reply = "active")
  /\ UNCHANGED <<fixed, jwks, world>>

(* A faulty Spared: what was assumed in an outage is remembered too.       *)
SparedPinned(t) == IF conf.failOpen THEN Noted(t, TRUE) ELSE verdicts

(* An outage leaves no verdict behind.                                     *)
Spared(t) == verdicts

Unreachable(r) ==
  /\ At(r, "wire")
  /\ verdicts' = Spared(Token(r))
  /\ req' = Verdict(r, conf.failOpen)
  /\ UNCHANGED <<fixed, jwks, world>>

----------------------------------------------------------------------------
(* JwtVerifier::claims over a JWKS.                                        *)

Stale == now - attemptedAt > JWKS_MAX_AGE

TooSoon == now - attemptedAt < JWKS_MIN_REFRESH

(* Under the lock: the attempt is stamped before it is made.               *)
Attempt(r, second) ==
  /\ flight' = r
  /\ attemptedAt' = now
  /\ req' = [req EXCEPT ![r].stage = "fetching", ![r].second = second]
  /\ UNCHANGED <<keys, missed>>

(* verify: the signature, exp (with the library's leeway), aud and iss.    *)
Verifies(t) == Fits[t] /\ now <= ExpOf[t] + Leeway

Judge(r) ==
  IF ~Verifies(Token(r)) THEN Ended(r, "refused")
  ELSE IF conf.introspect THEN Ask(r)
  ELSE Verdict(r, TRUE)

(* A faulty Look: an unknown kid is refused until the set is due.          *)
LookOnce(r, known, second) ==
  IF Kid(r) \in known THEN Judge(r) ELSE Ended(r, "refused")

(* Judged by the key of its kid; without one it waits for a fetch, once.   *)
Look(r, known, second) ==
  IF Kid(r) \in known THEN Judge(r)
  ELSE IF second THEN Ended(r, "refused")
  ELSE [req EXCEPT ![r].stage = "flight", ![r].got = {}, ![r].reply = "none"]

(* refresh(false): a set past its age is fetched by whoever gets the lock; *)
(* the others look in the one there is.                                    *)
Claims(r) ==
  IF Stale /\ flight = Nobody /\ ~TooSoon
    THEN Attempt(r, FALSE)
    ELSE req' = Look(r, keys, FALSE) /\ UNCHANGED jwks

(* refresh(true): an unknown kid waits for the fetch under way, and then   *)
(* looks whether it is time for one of its own.                            *)
Flight(r) ==
  /\ At(r, "flight")
  /\ flight = Nobody
  /\ IF TooSoon
       THEN req' = Look(r, keys, TRUE) /\ UNCHANGED jwks
       ELSE Attempt(r, TRUE)
  /\ UNCHANGED <<fixed, verdicts, world>>

(* External: the provider answers with the document it serves.             *)
ProviderAnswers(r) ==
  /\ At(r, "fetching")
  /\ req[r].reply = "none"
  /\ req' = [req EXCEPT ![r].reply = "document", ![r].got = published]
  /\ UNCHANGED <<fixed, jwks, verdicts, world>>

(* A faulty Known: the new document is merged into the known set.          *)
KnownEver(got) == keys \cup got

Known(got) == got

Fetched(r) ==
  /\ At(r, "fetching")
  /\ req[r].got # {}
  /\ keys' = Known(req[r].got)
  /\ missed' = FALSE
  /\ flight' = Nobody
  /\ req' = Look(r, keys', req[r].second)
  /\ UNCHANGED <<fixed, attemptedAt, verdicts, world>>

(* Refused, timed out, or no usable key in it: the known set stays.        *)
FetchFails(r) ==
  /\ At(r, "fetching")
  /\ missed' = TRUE
  /\ flight' = Nobody
  /\ req' = Look(r, keys, req[r].second)
  /\ UNCHANGED <<fixed, keys, attemptedAt, verdicts, world>>

----------------------------------------------------------------------------
(* The guard of a request, and MinMcpServer::caller past it.               *)

Identified(r, who) == [req EXCEPT ![r].stage = "inner", ![r].as = who]

(* The RFC 9728 document, read before anyone authenticates.                *)
Discovery(r) == conf.metadata /\ req[r].kind.discovery

(* In order: the metadata document, a bearer, the gateway's headers, the   *)
(* process identity, a 401.                                                *)
Headers(r) ==
  LET kind == req[r].kind
      bearer == kind.token # NoToken /\ conf.verifier
  IN /\ At(r, "ready")
     /\ \/ /\ ~Discovery(r) /\ bearer
           /\ Claims(r)
        \/ /\ Discovery(r) \/ ~bearer
           /\ req' = IF Discovery(r) THEN Ended(r, "served")
                     ELSE IF conf.trusted /\ kind.header THEN Identified(r, "gateway")
                     ELSE IF ~Required \/ conf.anonymous THEN Identified(r, "process")
                     ELSE Ended(r, "refused")
           /\ UNCHANGED jwks
     /\ UNCHANGED <<fixed, verdicts, world>>

(* A faulty Fallback: whoever comes without parts is the process.          *)
FallbackAlways == TRUE

Fallback == ~Enforced

(* External: rmcp checks the Origin, and attaches the request's parts or   *)
(* once does not.                                                          *)
Handle(r, attached) ==
  /\ At(r, "inner")
  /\ req' = IF (req[r].kind.foreign /\ ChecksOrigin) \/ (~attached /\ ~Fallback)
              THEN Ended(r, "refused")
              ELSE Ended(r, "served")
  /\ UNCHANGED <<fixed, jwks, verdicts, world>>

(* The client goes away: its task is dropped where it awaits.              *)
HangUp(r) ==
  /\ req[r].stage \in Stages \ {"served", "refused", "closed"}
  /\ req' = Ended(r, "closed")
  /\ flight' = IF flight = r THEN Nobody ELSE flight
  /\ missed' = (missed \/ At(r, "fetching"))
  /\ UNCHANGED <<fixed, keys, attemptedAt, verdicts, world>>

----------------------------------------------------------------------------
(* External: the provider rotates its keys, the server revokes a token;    *)
(* left out of deployments that ask neither.                               *)

Publish(k) ==
  /\ conf.verifier
  /\ k \notin published
  /\ withdrawn[k] = Never
  /\ published' = published \cup {k}
  /\ UNCHANGED <<fixed, req, jwks, verdicts, withdrawn, revoked>>

Withdraw(k) ==
  /\ conf.verifier
  /\ k \in published \cap Leaving
  /\ published' = published \ {k}
  /\ withdrawn' = [withdrawn EXCEPT ![k] = now]
  /\ UNCHANGED <<fixed, req, jwks, verdicts, revoked>>

Revoke(t) ==
  /\ conf.introspect
  /\ revoked[t] = Never
  /\ revoked' = [revoked EXCEPT ![t] = now]
  /\ UNCHANGED <<fixed, req, jwks, verdicts, published, withdrawn>>

(* Time passes only while every task awaits, and no client's timeout lets  *)
(* it wait past its bound.                                                 *)
Awaiting(r) ==
  /\ At(r, "flight") => flight # Nobody
  /\ At(r, "fetching") => now < attemptedAt + JWKS_FETCH_TIMEOUT
  /\ At(r, "wire") => now < req[r].sent + AskTimeout

Tick ==
  /\ now < MaxTime
  /\ \A r \in Requests : Awaiting(r)
  /\ now' = now + 1
  /\ UNCHANGED <<conf, door, req, jwks, verdicts, world>>

Next ==
  \/ Bind
  \/ Tick
  \/ \E r \in Requests :
       \/ \E kind \in Kinds : Accept(r, kind)
       \/ Handshake(r)
       \/ Headers(r)
       \/ Idle(r)
       \/ Fetched(r)
       \/ FetchFails(r)
       \/ Heard(r)
       \/ Unreachable(r)
       \/ \E attached \in BOOLEAN : Handle(r, attached)
       \/ Flight(r)
       \/ ProviderAnswers(r)
       \/ ServerAnswers(r)
       \/ HangUp(r)
  \/ \E k \in Kids : Publish(k) \/ Withdraw(k)
  \/ \E t \in Revocable : Revoke(t)

Spec == Init /\ [][Next]_vars

----------------------------------------------------------------------------

Times == 0..MaxTime

Progress ==
  [stage : Stages, kind : Kinds, got : SUBSET Kids, sent : Times,
   reply : {"none", "document", "active", "inactive"}, second : BOOLEAN,
   as : {"nobody", "token", "gateway", "process"}]

TypeOK ==
  /\ conf \in Confs
  /\ door \in {"starting", "open", "shut"}
  /\ req \in [Requests -> Progress]
  /\ keys \subseteq Kids
  /\ attemptedAt \in Times
  /\ flight \in Requests \cup {Nobody}
  /\ DOMAIN verdicts \subseteq Tokens
  /\ \A t \in DOMAIN verdicts : verdicts[t] \in [at : Times, active : BOOLEAN]
  /\ now \in Times
  /\ published \subseteq Kids
  /\ withdrawn \in [Kids -> Times \cup {Never}]
  /\ revoked \in [Tokens -> Times \cup {Never}]
  /\ missed \in BOOLEAN

(* The scopes of the process, with every upstream credential behind them,  *)
(* serve a request only where the operator opened the door to whoever      *)
(* sends it: never beside an enforced identity, never to a page of an      *)
(* Origin outside LOOPBACK_ORIGINS (which admit `null`; the Host check is  *)
(* not modelled), and beyond loopback only under --allow-remote or to a    *)
(* certificate holder (the guards of serve_http, authenticate, rmcp's      *)
(* Origin check, caller).                                                  *)
ServedAsProcess(r, attached) ==
  /\ Handle(r, attached)
  /\ req'[r].stage = "served"
  /\ attached => req[r].as = "process"

ProcessScopesGuarded ==
  [][\A r \in Requests, attached \in BOOLEAN :
       ServedAsProcess(r, attached) =>
         /\ ~Enforced
         /\ ~req[r].kind.foreign
         /\ \/ conf.loopback
            \/ conf.allowRemote
            \/ RequiresClientCert /\ req[r].kind.cert]_vars

(* A key judged by is one the provider still publishes or withdrew within  *)
(* the age a set is trusted for; only an attempt that brought nothing, or  *)
(* one still under way, stretches that (JwtVerifier::claims, refresh).     *)
JudgedBy(r) ==
  /\ req[r].stage \in {"ready", "flight", "fetching"}
  /\ \/ req'[r].stage = "wire"
     \/ req'[r].stage = "inner" /\ req'[r].as = "token"

WithdrawnKeyDies ==
  [][\A r \in Requests :
       JudgedBy(r) /\ Kid(r) \notin published =>
         \/ now - withdrawn[Kid(r)] <= JWKS_MAX_AGE
         \/ missed'
         \/ flight' # Nobody]_vars

(* A token whose kid is unknown is refused only if an attempt was made too *)
(* recently for another, never for want of looking (JwtVerifier::claims:   *)
(* "refetch (rate-limited), then look once more").                         *)
UnknownOnlyAfterLooking ==
  [][\A r \in Requests :
       /\ req[r].stage \in {"ready", "flight", "fetching"}
       /\ req'[r].stage = "refused"
       /\ Token(r) # NoToken /\ conf.verifier
       /\ Kid(r) \notin keys'
       => now - attemptedAt' < JWKS_MIN_REFRESH + JWKS_FETCH_TIMEOUT]_vars

(* A revoked token stops being served once a verdict's time and a question *)
(* on its way have passed, whatever order the answers come in: the outage  *)
(* of a fail-open deployment, which asks again each time, is the only      *)
(* exception (Introspector::active, remember, unreachable).                *)
Assumed(r) == conf.failOpen /\ At(r, "wire")

RevocationBites ==
  [][\A r \in Requests :
       /\ conf.introspect
       /\ ~At(r, "inner") /\ req'[r].stage = "inner" /\ req'[r].as = "token"
       => \/ revoked[Token(r)] = Never
          \/ now - revoked[Token(r)] <= CacheTtl + AskTimeout
          \/ Assumed(r)]_vars
=============================================================================
