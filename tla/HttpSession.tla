---------------------------- MODULE HttpSession ----------------------------
(***************************************************************************)
(* One remote upstream of the 2025-06-18 era, src/src/http_upstream.rs,    *)
(* with the token cache of src/src/oauth.rs in front of it: every request  *)
(* is a POST of its own, made with a bearer token and the session id the   *)
(* server gave at initialize; a request the server answers with 404 while  *)
(* a session was held re-initializes, once, and is sent again.             *)
(*                                                                         *)
(* The client runs on a multi-threaded runtime: a read of the session and  *)
(* the next one are steps apart.  Sessions are numbered in the order the   *)
(* server opens them.  The server is external: it opens a session at       *)
(* initialize, names it in its replies, may forget it at any time, and     *)
(* then answers 404; a request that names none it refuses.  The model      *)
(* starts after HttpUpstream::connect, with session 1 agreed.              *)
(***************************************************************************)
EXTENDS Naturals

CONSTANTS
  Requests,       (* positive integers                                     *)
  MaxSessions     (* bound of the model: sessions the server opens         *)

ASSUME HttpAssumption ==
  /\ Requests \subseteq Nat \ {0}
  /\ MaxSessions \in Nat \ {0}

Nobody == 0
None == 0          (* no session id                                        *)
Sessions == 1..MaxSessions

VARIABLES
  req,         (* each request's progress                                  *)
  session,     (* session_id: the one the server last named, or None       *)
  reinit,      (* who holds the re-handshake lock                          *)
  token,       (* whether the cached bearer is still good                  *)
  fetching,    (* who holds the token endpoint's lock                      *)
  server,      (* the server's side of each session                        *)
  carried,     (* how often each request was carried out                   *)
  wentBack     (* history: a late reply named an older session             *)

vars == <<req, session, reinit, token, fetching, server, carried, wentBack>>
client == <<session, reinit, wentBack>>
oauth == <<token, fetching>>
remote == <<server, carried>>

(* `doing` is the POST under way: the caller's own, or one of the two of   *)
(* the handshake it makes on the way.                                      *)
NewRequest ==
  [stage |-> "new", doing |-> "call", retried |-> FALSE, seen |-> None,
   had |-> FALSE, sid |-> None, reply |-> "none", names |-> None]

Stages ==
  {"new", "bearer", "fetchlock", "fetching", "had", "post", "wire", "reply",
   "body", "reinit", "clear", "answered", "failed"}

Init ==
  /\ req = [r \in Requests |-> NewRequest]
  /\ session = 1
  /\ reinit = Nobody
  /\ token = FALSE
  /\ fetching = Nobody
  /\ server = [s \in Sessions |-> IF s = 1 THEN "ready" ELSE "unborn"]
  /\ carried = [r \in Requests |-> 0]
  /\ wentBack = FALSE

At(r, stage) == req[r].stage = stage
Goto(r, stage) == req' = [req EXCEPT ![r].stage = stage]

(* A request that goes on to a POST: what it learnt of the last is gone.   *)
Posting(doing, retried) ==
  [NewRequest EXCEPT !.stage = "bearer", !.doing = doing, !.retried = retried]

Ended(r, stage) ==
  [NewRequest EXCEPT !.stage = stage, !.doing = req[r].doing,
                     !.retried = req[r].retried]

(* A faulty Released: only a handshake that succeeds lets go of the lock.  *)
StillHeld(r) == reinit

(* Dropping the guard, on whatever path leaves reinitialize.               *)
Released(r) == IF reinit = r THEN Nobody ELSE reinit

(* An error, of the request's own or of the handshake it was making.       *)
Abort(r) ==
  /\ req' = [req EXCEPT ![r] = Ended(r, "failed")]
  /\ reinit' = Released(r)

----------------------------------------------------------------------------
(* request_deadline, and the bearer: OAuthClient::bearer.                  *)

Begin(r) ==
  /\ At(r, "new")
  /\ req' = [req EXCEPT ![r] = [Posting("call", FALSE) EXCEPT !.seen = session]]
  /\ UNCHANGED <<client, oauth, remote>>

(* A notification does not look whether it has a session.                  *)
WithBearer(r) == IF req[r].doing = "initialized" THEN "post" ELSE "had"

Bearer(r) ==
  /\ At(r, "bearer")
  /\ Goto(r, IF token THEN WithBearer(r) ELSE "fetchlock")
  /\ UNCHANGED <<client, oauth, remote>>

(* A faulty Refreshed: whoever gets the lock fetches.                      *)
RefreshedUnseen == FALSE

(* Under the lock: did another caller fetch while this one waited?         *)
Refreshed == token

FetchLock(r) ==
  /\ At(r, "fetchlock")
  /\ fetching = Nobody
  /\ \/ /\ Refreshed
        /\ Goto(r, WithBearer(r))
        /\ UNCHANGED fetching
     \/ /\ ~Refreshed
        /\ Goto(r, "fetching")
        /\ fetching' = r
  /\ UNCHANGED <<client, token, remote>>

Fetched(r) ==
  /\ At(r, "fetching")
  /\ token' = TRUE
  /\ fetching' = Nobody
  /\ Goto(r, WithBearer(r))
  /\ UNCHANGED <<client, remote>>

FetchFails(r) ==
  /\ At(r, "fetching")
  /\ fetching' = Nobody
  /\ Abort(r)
  /\ UNCHANGED <<session, wentBack, token, remote>>

----------------------------------------------------------------------------
(* One POST: request_once, and notify for the handshake's second half.     *)

Had(r) ==
  /\ At(r, "had")
  /\ req' = [req EXCEPT ![r].had = session # None, ![r].stage = "post"]
  /\ UNCHANGED <<client, oauth, remote>>

(* post: the headers.                                                      *)
Post(r) ==
  /\ At(r, "post")
  /\ req' = [req EXCEPT ![r].sid = session, ![r].stage = "wire"]
  /\ UNCHANGED <<client, oauth, remote>>

(* No connection, no answer within the deadline, or a body that stops      *)
(* short or exceeds the limit; the server may have seen the request.       *)
PostFails(r) ==
  /\ \E stage \in {"wire", "reply", "body"} : At(r, stage)
  /\ Abort(r)
  /\ UNCHANGED <<session, wentBack, oauth, remote>>

(* A faulty Expired: any refusal is taken for a lost session.              *)
ExpiredIfRefused(r) ==
  /\ req[r].reply # "ok"
  /\ req[r].had
  /\ req[r].doing # "initialize"

(* HTTP 404 while a session was held: SessionExpired.                      *)
Expired(r) ==
  /\ req[r].reply = "lost"
  /\ req[r].had
  /\ req[r].doing # "initialize"

(* The session named by a reply's header, whichever request it answers.    *)
Captured(r) == IF req[r].names = None THEN session ELSE req[r].names

(* The head of a reply is in.  A notification's reply ends there.          *)
Head(r) ==
  /\ At(r, "reply")
  /\ \/ /\ req[r].doing # "initialized"
        /\ session' = Captured(r)
        /\ wentBack' = (wentBack \/ session' \in 1..(session - 1))
        /\ Goto(r, "body")
        /\ UNCHANGED reinit
     \/ /\ req[r].doing = "initialized"
        /\ req[r].reply = "ok"
        /\ req' = [req EXCEPT ![r] = Posting("call", TRUE)]
        /\ reinit' = Released(r)
        /\ UNCHANGED <<session, wentBack>>
     \/ /\ req[r].doing = "initialized"
        /\ req[r].reply # "ok"
        /\ Abort(r)
        /\ UNCHANGED <<session, wentBack>>
  /\ UNCHANGED <<oauth, remote>>

Body(r) ==
  /\ At(r, "body")
  /\ \/ /\ req[r].reply = "ok"
        /\ req' = [req EXCEPT ![r] = IF req[r].doing = "call"
                                     THEN Ended(r, "answered")
                                     ELSE Posting("initialized", TRUE)]
        /\ UNCHANGED reinit
     \/ /\ Expired(r) /\ ~req[r].retried
        /\ Goto(r, "reinit")
        /\ UNCHANGED reinit
     \/ /\ req[r].reply # "ok"
        /\ ~(Expired(r) /\ ~req[r].retried)
        /\ Abort(r)
  /\ UNCHANGED <<session, wentBack, oauth, remote>>

----------------------------------------------------------------------------
(* reinitialize.                                                           *)

(* A faulty ReinitFree: the lock is not there.                             *)
ReinitAnyway == TRUE

ReinitFree == reinit = Nobody

(* A faulty Replaced: the lock's holder does not look again.               *)
ReplacedUnseen(r) == FALSE

(* Under the lock: has the session this request saw been replaced?         *)
Replaced(r) == session # req[r].seen

Reinit(r) ==
  /\ At(r, "reinit")
  /\ ReinitFree
  /\ \/ /\ Replaced(r)
        /\ req' = [req EXCEPT ![r] = Posting("call", TRUE)]
        /\ UNCHANGED reinit
     \/ /\ ~Replaced(r)
        /\ Goto(r, "clear")
        /\ reinit' = r
  /\ UNCHANGED <<session, wentBack, oauth, remote>>

(* initialize starts by forgetting the session.                            *)
Clear(r) ==
  /\ At(r, "clear")
  /\ session' = None
  /\ req' = [req EXCEPT ![r] = Posting("initialize", TRUE)]
  /\ UNCHANGED <<reinit, wentBack, oauth, remote>>

----------------------------------------------------------------------------
(* The server, and the token's life.                                       *)

Live(s) == s # None /\ server[s] \in {"opened", "ready"}
Gone(s) == s # None /\ server[s] = "gone"

Reply(r, reply, names) ==
  req' = [req EXCEPT ![r].stage = "reply", ![r].reply = reply, ![r].names = names]

(* 404 for a session it forgot, 400 for none where one is needed and for   *)
(* an initialize within a session.                                         *)
Refuse(r) ==
  /\ At(r, "wire")
  /\ \/ Gone(req[r].sid) /\ Reply(r, "lost", None)
     \/ ~Gone(req[r].sid) /\ Reply(r, "refused", None)
  /\ UNCHANGED <<client, oauth, remote>>

Open(r) ==
  /\ At(r, "wire") /\ req[r].doing = "initialize" /\ req[r].sid = None
  /\ \E s \in Sessions :
       /\ server[s] = "unborn"
       /\ \A t \in 1..(s - 1) : server[t] # "unborn"
       /\ server' = [server EXCEPT ![s] = "opened"]
       /\ Reply(r, "ok", s)
  /\ UNCHANGED <<client, oauth, carried>>

Ready(r) ==
  /\ At(r, "wire") /\ req[r].doing = "initialized" /\ Live(req[r].sid)
  /\ server' = [server EXCEPT ![req[r].sid] = "ready"]
  /\ Reply(r, "ok", None)
  /\ UNCHANGED <<client, oauth, carried>>

(* It names the session in its reply to any request of it; what it carried *)
(* out may have failed.                                                    *)
Serve(r) ==
  /\ At(r, "wire") /\ req[r].doing = "call"
  /\ Live(req[r].sid) /\ server[req[r].sid] = "ready"
  /\ carried' = [carried EXCEPT ![r] = @ + 1]
  /\ \E reply \in {"ok", "refused"} : Reply(r, reply, req[r].sid)
  /\ UNCHANGED <<client, oauth, server>>

Forget(s) ==
  /\ Live(s)
  /\ server' = [server EXCEPT ![s] = "gone"]
  /\ UNCHANGED <<req, client, oauth, carried>>

TokenExpires ==
  /\ token
  /\ token' = FALSE
  /\ UNCHANGED <<req, client, fetching, remote>>

----------------------------------------------------------------------------
ClientStep(r) ==
  \/ Begin(r) \/ Bearer(r) \/ FetchLock(r) \/ Fetched(r) \/ FetchFails(r)
  \/ Had(r) \/ Post(r) \/ PostFails(r) \/ Head(r) \/ Body(r)
  \/ Reinit(r) \/ Clear(r)

ServerStep(r) == Refuse(r) \/ Open(r) \/ Ready(r) \/ Serve(r)

Next ==
  \/ \E r \in Requests : ClientStep(r)
  \/ \E r \in Requests : ServerStep(r)
  \/ \E s \in Sessions : Forget(s)
  \/ TokenExpires

Spec == Init /\ [][Next]_vars

(* The runtime polls every request, a queued lock goes to each in turn,    *)
(* and every exchange has a deadline; the server owes nothing.             *)
FairSpec == Spec /\ \A r \in Requests : SF_vars(ClientStep(r))

----------------------------------------------------------------------------
Request ==
  [stage : Stages, doing : {"call", "initialize", "initialized"},
   retried : BOOLEAN, seen : Sessions \cup {None}, had : BOOLEAN,
   sid : Sessions \cup {None}, reply : {"none", "ok", "lost", "refused"},
   names : Sessions \cup {None}]

Handshaking(r) ==
  \/ At(r, "clear")
  \/ req[r].doing # "call" /\ ~At(r, "failed")

(* The type invariant; each lock is held by the request that is at it.     *)
TypeOK ==
  /\ req \in [Requests -> Request]
  /\ \A r \in Requests : /\ At(r, "new") => req[r].doing = "call"
                         /\ reinit = r <=> Handshaking(r)
                         /\ fetching = r <=> At(r, "fetching")
  /\ session \in Sessions \cup {None}
  /\ {reinit, fetching} \subseteq Requests \cup {Nobody}
  /\ {token, wentBack} \subseteq BOOLEAN
  /\ server \in [Sessions -> {"unborn", "opened", "ready", "gone"}]
  /\ carried \in [Requests -> Nat]

(* A session the server still honours is given up for a new one only after *)
(* a late reply had put an older one back (no re-initialization undoes     *)
(* another's: the reason reinitialize looks again under its lock).         *)
LiveSessionKept ==
  (\E r \in Requests : At(r, "clear")) /\ Live(session) => wentBack

(* notifications/initialized never goes out with no session, as the loser  *)
(* of two concurrent re-initializations would send it.                     *)
InitializedInSession ==
  \A r \in Requests :
    req[r].doing = "initialized" /\ At(r, "wire") => req[r].sid # None

(* Without a session id there is a handshake under way that will bring     *)
(* one, or one that failed: nothing else loses it.                         *)
SessionlessAfterFailureOnly ==
  session = None =>
    \E r \in Requests : \/ req[r].doing = "initialize" /\ reinit = r
                        \/ req[r].doing # "call" /\ At(r, "failed")

(* No session is lost but by a failure, and no live one is dropped.        *)
SessionKept == LiveSessionKept /\ SessionlessAfterFailureOnly

(* The token endpoint is asked only for want of a good token: concurrent   *)
(* callers share one fetch.                                                *)
NoNeedlessFetch == fetching # Nobody => ~token

(* A request is carried out at most once, retry included, and an answer is *)
(* of one that was: what RpcPromise says of any transport.                 *)
Fate(r) ==
  CASE req[r].stage = "new" -> "unused"
    [] req[r].stage \in {"answered", "failed"} -> req[r].stage
    [] OTHER -> "open"

Promise == INSTANCE RpcPromise WITH
  fate <- [r \in Requests |-> Fate(r)],
  answer <- [r \in Requests |-> IF At(r, "answered") THEN r ELSE 0],
  done <- carried

KeepsPromise == Promise!Spec

(* Every request ends, whatever the server and the token endpoint do.      *)
EveryRequestEnds ==
  \A r \in Requests :
    ~At(r, "new") ~> (\E stage \in {"answered", "failed"} : At(r, stage))
=============================================================================
