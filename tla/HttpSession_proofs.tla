------------------------- MODULE HttpSession_proofs -------------------------
(***************************************************************************)
(* Proofs about HttpSession, for any requests and any number of sessions:  *)
(* types and locks, one fetch at a time, notifications/initialized within  *)
(* a session, that the transport implements RpcPromise, and that no live   *)
(* session is given up.                                                    *)
(***************************************************************************)
EXTENDS HttpSession, TLAPS

USE DEF Nobody, None

----------------------------------------------------------------------------
(* Types.                                                                  *)

(* A request is not Nobody.                                                *)
LEMMA SomeBody == \A r \in Requests : r # Nobody
BY HttpAssumption

(* The initial state is well typed.                                        *)
LEMMA InitType == Init => TypeOK
<1> SUFFICES ASSUME Init PROVE TypeOK
  OBVIOUS
<1>1. NewRequest \in Request
  BY DEF NewRequest, Request, Stages
<1>2. \A r \in Requests : req[r] = NewRequest
  BY DEF Init
<1>3. ASSUME NEW r \in Requests PROVE ~Handshaking(r) /\ ~At(r, "fetching")
  <2>1. req[r].stage = "new" /\ req[r].doing = "call"
    BY <1>2 DEF NewRequest
  <2>2. QED BY <2>1 DEF Handshaking, At
<1>4. 1 \in Sessions
  BY HttpAssumption DEF Sessions
<1>5. req \in [Requests -> Request]
  BY <1>1 DEF Init
<1>6. \A r \in Requests : /\ At(r, "new") => req[r].doing = "call"
                          /\ reinit = r <=> Handshaking(r)
                          /\ fetching = r <=> At(r, "fetching")
  BY <1>2, <1>3, SomeBody DEF Init, NewRequest
<1>7. /\ session \in Sessions \cup {None}
      /\ {reinit, fetching} \subseteq Requests \cup {Nobody}
      /\ {token, wentBack} \subseteq BOOLEAN
      /\ server \in [Sessions -> {"unborn", "opened", "ready", "gone"}]
      /\ carried \in [Requests -> Nat]
  BY <1>4 DEF Init
<1>8. QED BY <1>5, <1>6, <1>7 DEF TypeOK

(* What a request becomes on its way to a POST, or at its end, is typed.   *)
LEMMA RequestType ==
  ASSUME NEW r \in Requests, TypeOK
  PROVE  /\ req[r] \in Request
         /\ \A doing \in {"call", "initialize", "initialized"}, b \in BOOLEAN :
              Posting(doing, b) \in Request
         /\ \A stage \in Stages : Ended(r, stage) \in Request
         /\ \A stage \in Stages : [req[r] EXCEPT !.stage = stage] \in Request
<1>1. req[r] \in Request
  BY DEF TypeOK
<1>2. \A doing \in {"call", "initialize", "initialized"}, b \in BOOLEAN :
        Posting(doing, b) \in Request
  BY DEF Posting, NewRequest, Request, Stages
<1>3. \A stage \in Stages : Ended(r, stage) \in Request
  BY <1>1 DEF Ended, NewRequest, Request
<1>4. \A stage \in Stages : [req[r] EXCEPT !.stage = stage] \in Request
  BY <1>1 DEF Request
<1>5. QED BY <1>1, <1>2, <1>3, <1>4

(* A step that gives one request a new record, and the locks to match,     *)
(* keeps the part of TypeOK that is about requests.                        *)
LEMMA OneRequest ==
  ASSUME TypeOK, NEW r \in Requests, NEW f \in Request,
         req' = [req EXCEPT ![r] = f],
         f.stage # "new",
         reinit' = r <=> (f.stage = "clear" \/ (f.doing # "call" /\ f.stage # "failed")),
         reinit' = reinit \/ (reinit = r /\ reinit' = Nobody)
                          \/ (reinit = Nobody /\ reinit' = r),
         fetching' = r <=> f.stage = "fetching",
         fetching' = fetching \/ (fetching = r /\ fetching' = Nobody)
                              \/ (fetching = Nobody /\ fetching' = r)
  PROVE  /\ req' \in [Requests -> Request]
         /\ \A q \in Requests : /\ At(q, "new")' => req'[q].doing = "call"
                                /\ reinit' = q <=> Handshaking(q)'
                                /\ fetching' = q <=> At(q, "fetching")'
         /\ {reinit', fetching'} \subseteq Requests \cup {Nobody}
<1>1. req' \in [Requests -> Request]
  BY DEF TypeOK
<1>2. req'[r] = f /\ \A q \in Requests \ {r} : req'[q] = req[q]
  BY DEF TypeOK
<1>3. ASSUME NEW q \in Requests
      PROVE  /\ At(q, "new")' => req'[q].doing = "call"
             /\ reinit' = q <=> Handshaking(q)'
             /\ fetching' = q <=> At(q, "fetching")'
  <2>1. CASE q = r
    BY <2>1, <1>2 DEF At, Handshaking
  <2>2. CASE q # r
    <3>1. reinit' = q <=> reinit = q
      BY <2>2, SomeBody
    <3>2. fetching' = q <=> fetching = q
      BY <2>2, SomeBody
    <3>3. QED BY <2>2, <1>2, <3>1, <3>2 DEF At, Handshaking, TypeOK
  <2>3. QED BY <2>1, <2>2
<1>4. QED BY <1>1, <1>3 DEF TypeOK

(* A step that only moves a request to a stage where it holds what it held *)
(* before, or takes or frees the fetch lock on the way.                    *)
LEMMA StageStep ==
  ASSUME TypeOK, NEW r \in Requests, NEW stage \in Stages \ {"new", "clear"},
         Goto(r, stage), ~At(r, "clear"), ~At(r, "failed"), stage # "failed",
         UNCHANGED reinit,
         fetching' = r <=> stage = "fetching",
         fetching' = fetching \/ (fetching = r /\ fetching' = Nobody)
                              \/ (fetching = Nobody /\ fetching' = r),
         {token', wentBack'} \subseteq BOOLEAN, session' \in Sessions \cup {None},
         UNCHANGED remote
  PROVE  TypeOK'
<1> DEFINE f == [req[r] EXCEPT !.stage = stage]
<1>1. f \in Request /\ f.stage = stage /\ f.doing = req[r].doing
  BY RequestType DEF Request
<1>2. req' = [req EXCEPT ![r] = f]
  BY DEF Goto, TypeOK
<1>3. reinit' = r <=> (f.stage = "clear" \/ (f.doing # "call" /\ f.stage # "failed"))
  BY <1>1 DEF TypeOK, Handshaking, At
<1> HIDE DEF f
<1>4. QED BY <1>1, <1>2, <1>3, OneRequest DEF TypeOK, remote

(* An error ends a request and frees what it held.                         *)
LEMMA AbortStep ==
  ASSUME TypeOK, NEW r \in Requests, Abort(r), ~At(r, "new"),
         UNCHANGED <<session, wentBack, token, remote>>,
         fetching' # r,
         fetching' = fetching \/ (fetching = r /\ fetching' = Nobody)
  PROVE  TypeOK'
<1> DEFINE f == Ended(r, "failed")
<1>1. f \in Request /\ f.stage = "failed"
  BY RequestType DEF Ended, Stages, NewRequest
<1>2. req' = [req EXCEPT ![r] = f]
  BY DEF Abort
<1>3. /\ reinit' # r
      /\ reinit' = reinit \/ (reinit = r /\ reinit' = Nobody)
  BY SomeBody DEF Abort, Released
<1> HIDE DEF f
<1>4. QED BY <1>1, <1>2, <1>3, OneRequest DEF TypeOK, remote

(* A request goes on to a POST of the handshake, or of its own.            *)
LEMMA PostingStep ==
  ASSUME TypeOK, NEW r \in Requests,
         NEW doing \in {"call", "initialize", "initialized"},
         req' = [req EXCEPT ![r] = Posting(doing, TRUE)],
         ~At(r, "fetching"),
         reinit' = r <=> doing # "call",
         reinit' = reinit \/ (reinit = r /\ reinit' = Nobody),
         UNCHANGED <<token, fetching, remote>>,
         wentBack' \in BOOLEAN, session' \in Sessions \cup {None}
  PROVE  TypeOK'
<1> DEFINE f == Posting(doing, TRUE)
<1>1. f \in Request /\ f.stage = "bearer" /\ f.doing = doing
  BY RequestType DEF Posting, NewRequest
<1>2. fetching # r
  BY DEF TypeOK
<1> HIDE DEF f
<1>3. req' = [req EXCEPT ![r] = f]
  BY DEF f
<1>4. QED BY <1>1, <1>2, <1>3, OneRequest DEF TypeOK, remote

(* The server's reply: the lock and the stage do not change hands.         *)
LEMMA ReplyStep ==
  ASSUME TypeOK, NEW r \in Requests, At(r, "wire"),
         NEW reply \in {"ok", "lost", "refused"}, NEW s \in Sessions \cup {None},
         Reply(r, reply, s), UNCHANGED <<client, oauth>>,
         server' \in [Sessions -> {"unborn", "opened", "ready", "gone"}],
         carried' \in [Requests -> Nat]
  PROVE  TypeOK'
<1> DEFINE f == [req[r] EXCEPT !.stage = "reply", !.reply = reply, !.names = s]
<1>1. f \in Request /\ f.stage = "reply" /\ f.doing = req[r].doing
  <2>1. req[r] \in Request
    BY RequestType
  <2>2. QED BY <2>1 DEF Request, Stages
<1>2. req' = [req EXCEPT ![r] = f]
  BY DEF Reply, TypeOK
<1>3. /\ reinit = r <=> (f.stage = "clear" \/ (f.doing # "call" /\ f.stage # "failed"))
      /\ fetching # r
  BY <1>1 DEF TypeOK, Handshaking, At
<1> HIDE DEF f
<1>4. QED BY <1>1, <1>2, <1>3, OneRequest DEF TypeOK, client, oauth

(* Every step keeps the types.                                             *)
LEMMA NextType == TypeOK /\ [Next]_vars => TypeOK'
<1> SUFFICES ASSUME TypeOK, [Next]_vars PROVE TypeOK'
  OBVIOUS
<1> USE DEF client, oauth, remote
<1>a. \A r \in Requests, stage \in Stages \ {"fetching"} : At(r, stage) => fetching # r
  BY DEF TypeOK, At
<1>1. ASSUME NEW r \in Requests, Begin(r) PROVE TypeOK'
  <2> DEFINE f == [Posting("call", FALSE) EXCEPT !.seen = session]
  <2>1. f \in Request /\ f.stage = "bearer" /\ f.doing = "call"
    <3>1. Posting("call", FALSE) \in Request
      BY RequestType
    <3>2. Posting("call", FALSE).stage = "bearer" /\ Posting("call", FALSE).doing = "call"
      BY DEF Posting, NewRequest
    <3> HIDE DEF Posting
    <3>3. QED BY <3>1, <3>2 DEF TypeOK, Request
  <2>2. reinit # r /\ fetching # r
    BY <1>1 DEF Begin, TypeOK, Handshaking, At
  <2>3. req' = [req EXCEPT ![r] = f]
    BY <1>1 DEF Begin
  <2> HIDE DEF f
  <2>4. QED BY <1>1, <2>1, <2>2, <2>3, OneRequest DEF Begin, TypeOK
<1>2. ASSUME NEW r \in Requests, Bearer(r) PROVE TypeOK'
  BY <1>2, <1>a, StageStep DEF Bearer, WithBearer, TypeOK, At, Stages
<1>3. ASSUME NEW r \in Requests, FetchLock(r) PROVE TypeOK'
  <2>1. CASE fetching' = fetching
    BY <2>1, <1>3, <1>a, SomeBody, StageStep DEF FetchLock, WithBearer, TypeOK, At, Stages
  <2>2. CASE fetching' = r /\ Goto(r, "fetching")
    BY <2>2, <1>3, SomeBody, StageStep DEF FetchLock, TypeOK, At, Stages
  <2>3. QED BY <2>1, <2>2, <1>3 DEF FetchLock
<1>4. ASSUME NEW r \in Requests, Fetched(r) PROVE TypeOK'
  <2>1. fetching = r
    BY <1>4 DEF Fetched, TypeOK
  <2>2. QED
    BY <2>1, <1>4, SomeBody, StageStep DEF Fetched, WithBearer, TypeOK, At, Stages
<1>5. ASSUME NEW r \in Requests, FetchFails(r) PROVE TypeOK'
  <2>1. fetching = r
    BY <1>5 DEF FetchFails, TypeOK
  <2>2. QED
    BY <2>1, <1>5, SomeBody, AbortStep DEF FetchFails, At
<1>6. ASSUME NEW r \in Requests, Had(r) PROVE TypeOK'
  <2> DEFINE f == [req[r] EXCEPT !.had = session # None, !.stage = "post"]
  <2>1. req[r] \in Request
    BY RequestType
  <2>2. f \in Request /\ f.stage = "post" /\ f.doing = req[r].doing
    BY <2>1 DEF Request, Stages
  <2>3. reinit = r <=> f.doing # "call"
    BY <1>6, <2>2 DEF Had, TypeOK, Handshaking, At
  <2>4. fetching # r
    BY <1>6 DEF Had, TypeOK, At
  <2>5. req' = [req EXCEPT ![r] = f]
    BY <1>6 DEF Had, TypeOK
  <2> HIDE DEF f
  <2>6. QED BY <1>6, <2>2, <2>3, <2>4, <2>5, OneRequest DEF Had, TypeOK
<1>7. ASSUME NEW r \in Requests, Post(r) PROVE TypeOK'
  <2> DEFINE f == [req[r] EXCEPT !.sid = session, !.stage = "wire"]
  <2>1. req[r] \in Request
    BY RequestType
  <2>2. f \in Request /\ f.stage = "wire" /\ f.doing = req[r].doing
    BY <2>1 DEF Request, Stages, TypeOK
  <2>3. reinit = r <=> f.doing # "call"
    BY <1>7, <2>2 DEF Post, TypeOK, Handshaking, At
  <2>4. fetching # r
    BY <1>7 DEF Post, TypeOK, At
  <2>5. req' = [req EXCEPT ![r] = f]
    BY <1>7 DEF Post, TypeOK
  <2> HIDE DEF f
  <2>6. QED BY <1>7, <2>2, <2>3, <2>4, <2>5, OneRequest DEF Post, TypeOK
<1>8. ASSUME NEW r \in Requests, PostFails(r) PROVE TypeOK'
  <2>1. ~At(r, "new") /\ ~At(r, "fetching")
    BY <1>8 DEF PostFails, At
  <2>2. fetching # r
    BY <2>1 DEF TypeOK
  <2>3. QED BY <1>8, <2>1, <2>2, AbortStep DEF PostFails
<1>9. ASSUME NEW r \in Requests, Head(r) PROVE TypeOK'
  <2>1. /\ ~At(r, "new") /\ ~At(r, "fetching") /\ ~At(r, "clear") /\ ~At(r, "failed")
        /\ fetching # r
    BY <1>9 DEF Head, At, TypeOK
  <2>2. CASE req[r].doing # "initialized"
    <3>1. Captured(r) \in Sessions \cup {None}
      BY RequestType DEF Captured, Request, TypeOK
    <3>2. QED
      BY <1>9, <2>1, <2>2, <3>1, StageStep DEF Head, Stages, TypeOK
  <2>3. CASE req[r].doing = "initialized" /\ req[r].reply = "ok"
    <3>1. reinit' # r /\ (reinit' = reinit \/ (reinit = r /\ reinit' = Nobody))
      BY <1>9, <2>3, SomeBody DEF Head, Released
    <3>2. req' = [req EXCEPT ![r] = Posting("call", TRUE)]
      BY <1>9, <2>3 DEF Head
    <3>3. QED BY <1>9, <2>1, <2>3, <3>1, <3>2, PostingStep DEF Head, TypeOK
  <2>4. CASE req[r].doing = "initialized" /\ req[r].reply # "ok"
    BY <1>9, <2>1, <2>4, AbortStep DEF Head
  <2>5. QED BY <2>2, <2>3, <2>4
<1>10. ASSUME NEW r \in Requests, Body(r) PROVE TypeOK'
  <2>1. /\ ~At(r, "new") /\ ~At(r, "fetching") /\ ~At(r, "clear") /\ ~At(r, "failed")
        /\ fetching # r
        /\ reinit = r <=> req[r].doing # "call"
    BY <1>10 DEF Body, At, TypeOK, Handshaking
  <2>2. CASE req[r].reply = "ok" /\ req[r].doing = "call"
    <3> DEFINE f == Ended(r, "answered")
    <3>1. f \in Request /\ f.stage = "answered" /\ f.doing = "call"
      BY <2>2, RequestType DEF Ended, Stages, NewRequest
    <3>2. req' = [req EXCEPT ![r] = f] /\ UNCHANGED reinit
      BY <1>10, <2>2 DEF Body, Expired
    <3> HIDE DEF f
    <3>3. QED BY <1>10, <2>1, <2>2, <3>1, <3>2, OneRequest DEF Body, TypeOK
  <2>3. CASE req[r].reply = "ok" /\ req[r].doing # "call"
    <3>1. req' = [req EXCEPT ![r] = Posting("initialized", TRUE)] /\ UNCHANGED reinit
      BY <1>10, <2>3 DEF Body, Expired
    <3>2. QED BY <1>10, <2>1, <2>3, <3>1, PostingStep DEF Body, TypeOK
  <2>4. CASE Goto(r, "reinit") /\ UNCHANGED reinit
    BY <1>10, <2>1, <2>4, StageStep DEF Body, Stages, TypeOK
  <2>5. CASE Abort(r)
    BY <1>10, <2>1, <2>5, AbortStep DEF Body
  <2>6. QED BY <1>10, <2>2, <2>3, <2>4, <2>5 DEF Body
<1>11. ASSUME NEW r \in Requests, Reinit(r) PROVE TypeOK'
  <2>1. ~At(r, "fetching") /\ fetching # r /\ reinit = Nobody /\ req[r].doing = "call"
    BY <1>11, SomeBody DEF Reinit, ReinitFree, At, TypeOK, Handshaking
  <2>2. CASE Replaced(r)
    <3>1. req' = [req EXCEPT ![r] = Posting("call", TRUE)] /\ reinit' # r /\ reinit' = reinit
      BY <1>11, <2>1, <2>2, SomeBody DEF Reinit
    <3>2. QED BY <1>11, <2>1, <3>1, PostingStep DEF Reinit, TypeOK
  <2>3. CASE ~Replaced(r)
    <3> DEFINE f == [req[r] EXCEPT !.stage = "clear"]
    <3>1. f \in Request /\ f.stage = "clear"
      <4>1. req[r] \in Request
        BY RequestType
      <4>2. QED BY <4>1 DEF Request, Stages
    <3>2. req' = [req EXCEPT ![r] = f] /\ reinit' = r
      BY <1>11, <2>3 DEF Reinit, Goto, TypeOK
    <3> HIDE DEF f
    <3>3. QED BY <1>11, <2>1, <3>1, <3>2, OneRequest DEF Reinit, TypeOK
  <2>4. QED BY <2>2, <2>3
<1>12. ASSUME NEW r \in Requests, Clear(r) PROVE TypeOK'
  <2>1. reinit = r /\ ~At(r, "fetching")
    BY <1>12 DEF Clear, TypeOK, Handshaking, At
  <2>2. QED BY <1>12, <2>1, PostingStep DEF Clear, TypeOK
<1>13. ASSUME NEW r \in Requests, Refuse(r) PROVE TypeOK'
  BY <1>13, ReplyStep DEF Refuse, TypeOK
<1>14. ASSUME NEW r \in Requests, Open(r) PROVE TypeOK'
  <2>1. PICK s \in Sessions : /\ server' = [server EXCEPT ![s] = "opened"]
                              /\ Reply(r, "ok", s)
    BY <1>14 DEF Open
  <2>2. server' \in [Sessions -> {"unborn", "opened", "ready", "gone"}]
    BY <2>1 DEF TypeOK
  <2>3. QED BY <1>14, <2>1, <2>2, ReplyStep DEF Open, TypeOK
<1>15. ASSUME NEW r \in Requests, Ready(r) PROVE TypeOK'
  <2>1. server' \in [Sessions -> {"unborn", "opened", "ready", "gone"}]
    BY <1>15 DEF Ready, TypeOK
  <2>2. QED BY <1>15, <2>1, ReplyStep DEF Ready, TypeOK
<1>16. ASSUME NEW r \in Requests, Serve(r) PROVE TypeOK'
  <2>1. PICK reply \in {"ok", "refused"} : Reply(r, reply, req[r].sid)
    BY <1>16 DEF Serve
  <2>2. req[r].sid \in Sessions \cup {None}
    BY RequestType DEF Request
  <2>3. carried' \in [Requests -> Nat]
    BY <1>16 DEF Serve, TypeOK
  <2>4. QED BY <1>16, <2>1, <2>2, <2>3, ReplyStep DEF Serve, TypeOK
<1>17. ASSUME NEW s \in Sessions, Forget(s) PROVE TypeOK'
  BY <1>17 DEF Forget, TypeOK, Handshaking, At
<1>18. CASE TokenExpires
  BY <1>18 DEF TokenExpires, TypeOK, Handshaking, At
<1>19. CASE UNCHANGED vars
  BY <1>19 DEF vars, TypeOK, Handshaking, At
<1>20. QED
  BY <1>1, <1>2, <1>3, <1>4, <1>5, <1>6, <1>7, <1>8, <1>9, <1>10, <1>11, <1>12,
     <1>13, <1>14, <1>15, <1>16, <1>17, <1>18, <1>19 DEF Next, ClientStep, ServerStep

(* The types hold, each lock is held by the request that is where it may   *)
(* hold it, and by it alone: the guards of reinitialize and bearer.        *)
THEOREM TypeCorrect == Spec => []TypeOK
<1>1. QED BY InitType, NextType, PTL DEF Spec

----------------------------------------------------------------------------
(* The token cache.                                                        *)

(* Whatever else happens, the client's token and the fetches under way     *)
(* change only where a request takes the fetch lock or is done with it.    *)
LEMMA FetchStep ==
  ASSUME TypeOK, NoNeedlessFetch, [Next]_vars
  PROVE  NoNeedlessFetch'
<1> USE DEF client, oauth, remote, NoNeedlessFetch
<1>1. CASE TokenExpires \/ UNCHANGED oauth
  BY <1>1 DEF TokenExpires
<1>2. ASSUME NEW r \in Requests, FetchLock(r) \/ Fetched(r) \/ FetchFails(r)
      PROVE  NoNeedlessFetch'
  BY <1>2 DEF FetchLock, Refreshed, Fetched, FetchFails
<1>3. ASSUME NEW r \in Requests, ClientStep(r)
      PROVE  NoNeedlessFetch'
  BY <1>1, <1>2, <1>3
  DEF ClientStep, Begin, Bearer, Had, Post, PostFails, Head, Body, Reinit, Clear
<1>4. ASSUME NEW r \in Requests, ServerStep(r)
      PROVE  UNCHANGED oauth
  BY <1>4 DEF ServerStep, Refuse, Open, Ready, Serve
<1>5. QED BY <1>1, <1>3, <1>4 DEF Next, Forget, vars

(* The token endpoint is asked only for want of a good token: only the     *)
(* fetch lock's holder makes the token good, and it looked after it got    *)
(* the lock (OAuthClient::bearer).                                         *)
THEOREM FetchesAreNeeded == Spec => []NoNeedlessFetch
<1>1. Init => NoNeedlessFetch
  BY DEF Init, NoNeedlessFetch
<1>2. QED BY <1>1, FetchStep, TypeCorrect, PTL DEF Spec

----------------------------------------------------------------------------
(* The handshake.                                                          *)

(* A step of one request leaves every other's record alone.                *)
LEMMA OthersUntouched ==
  ASSUME TypeOK, NEW r \in Requests, ClientStep(r) \/ ServerStep(r),
         NEW q \in Requests \ {r}
  PROVE  req'[q] = req[q]
<1> USE DEF client, oauth, remote, Goto, Abort, Reply, TypeOK
<1>1. CASE ClientStep(r)
  BY <1>1 DEF ClientStep, Begin, Bearer, FetchLock, Fetched, FetchFails, Had, Post,
     PostFails, Head, Body, Reinit, Clear
<1>2. CASE ServerStep(r)
  BY <1>2 DEF ServerStep, Refuse, Open, Ready, Serve
<1>3. QED BY <1>1, <1>2

(* Between the server's answer to an initialize and the notification that  *)
(* confirms it there is a session: the handshake's owner has the lock, and *)
(* nobody else clears it.                                                  *)
Confirming(r) ==
  /\ (req[r].doing = "initialized" => ~At(r, "body"))
  /\ (req[r].doing = "initialize" /\ At(r, "reply") /\ req[r].reply = "ok"
        => req[r].names # None)
  /\ (req[r].doing = "initialize" /\ At(r, "body") /\ req[r].reply = "ok"
        => session # None)
  /\ (req[r].doing = "initialized"
         /\ (\E stage \in {"bearer", "fetchlock", "fetching", "had", "post"} : At(r, stage))
        => session # None)
  /\ (req[r].doing = "initialized" /\ At(r, "wire") => req[r].sid # None)

(* What a request's own step does to it.                                   *)
LEMMA OwnConfirming ==
  ASSUME TypeOK, NEW r \in Requests, Confirming(r), ClientStep(r) \/ ServerStep(r)
  PROVE  Confirming(r)'
<1> USE DEF client, oauth, remote, Confirming, At
<1>0. /\ DOMAIN req = Requests
      /\ req[r] \in Request
  BY DEF TypeOK
<1>1. CASE Begin(r)
  <2>1. req'[r].doing = "call"
    BY <1>1, <1>0 DEF Begin, Posting, NewRequest
  <2>2. QED BY <2>1
<1>2. CASE Bearer(r) \/ FetchLock(r) \/ Fetched(r)
  BY <1>2, <1>0 DEF Bearer, FetchLock, Fetched, WithBearer, Goto, Request
<1>3. CASE Abort(r)
  <2>1. req'[r].stage = "failed"
    BY <1>3, <1>0 DEF Abort, Ended, NewRequest
  <2>2. QED BY <2>1
<1>4. CASE Had(r)
  BY <1>4, <1>0 DEF Had, Request
<1>5. CASE Post(r)
  BY <1>5, <1>0 DEF Post, Request
<1>6. CASE Head(r) /\ ~Abort(r)
  <2>1. CASE req[r].doing # "initialized"
    BY <1>6, <1>0, <2>1 DEF Head, Goto, Captured, Request
  <2>2. CASE req[r].doing = "initialized"
    <3>1. req'[r].doing = "call"
      BY <1>6, <1>0, <2>2 DEF Head, Posting, NewRequest
    <3>2. QED BY <3>1
  <2>3. QED BY <2>1, <2>2
<1>7. CASE Body(r) /\ ~Abort(r)
  <2>1. CASE req[r].reply = "ok" /\ req[r].doing # "call"
    <3>1. req'[r].stage = "bearer" /\ req'[r].doing = "initialized"
      BY <1>7, <1>0, <2>1 DEF Body, Posting, NewRequest, Expired
    <3>2. session' = session
      BY <1>7 DEF Body
    <3>3. CASE req[r].doing = "initialize"
      BY <1>7, <2>1, <3>1, <3>2, <3>3 DEF Body
    <3>4. CASE req[r].doing = "initialized"
      BY <1>7, <2>1, <3>1, <3>2, <3>4 DEF Body
    <3>5. QED BY <1>0, <2>1, <3>3, <3>4 DEF Request
  <2>2. CASE req[r].reply = "ok" /\ req[r].doing = "call"
    <3>1. req'[r].stage = "answered"
      BY <1>7, <1>0, <2>2 DEF Body, Ended, NewRequest, Expired
    <3>2. QED BY <3>1
  <2>3. CASE req[r].reply # "ok"
    BY <1>7, <1>0, <2>3 DEF Body, Goto, Request
  <2>4. QED BY <2>1, <2>2, <2>3
<1>8. CASE Reinit(r) \/ Clear(r)
  BY <1>8, <1>0, ZenonT(40) DEF Reinit, Clear, Posting, NewRequest, Goto, Request
<1>9. CASE ServerStep(r)
  BY <1>9, <1>0 DEF ServerStep, Refuse, Open, Ready, Serve, Reply, Request, Sessions
<1>10. QED
  BY <1>1, <1>2, <1>3, <1>4, <1>5, <1>6, <1>7, <1>8, <1>9 DEF ClientStep, FetchFails, PostFails

(* Only Clear takes the session away.                                      *)
LEMMA SessionStays ==
  ASSUME TypeOK, [Next]_vars, session # None, session' = None
  PROVE  \E r \in Requests : Clear(r)
<1> USE DEF client, oauth, remote
<1>1. ASSUME NEW r \in Requests, ClientStep(r), ~Clear(r) PROVE session' # None
  <2>1. CASE Head(r)
    BY <2>1 DEF Head, Captured
  <2>2. CASE ~Head(r)
    BY <1>1, <2>2 DEF ClientStep, Begin, Bearer, FetchLock, Fetched, FetchFails, Had,
       Post, PostFails, Body, Reinit
  <2>3. QED BY <2>1, <2>2
<1>2. ASSUME NEW r \in Requests, ServerStep(r) PROVE session' # None
  BY <1>2 DEF ServerStep, Refuse, Open, Ready, Serve
<1>3. ASSUME NEW s \in Sessions, Forget(s) PROVE session' # None
  BY <1>3 DEF Forget
<1>4. QED BY <1>1, <1>2, <1>3 DEF Next, TokenExpires, vars

(* No step of another request undoes it.                                   *)
LEMMA OtherConfirming ==
  ASSUME TypeOK, [Next]_vars, NEW r \in Requests, Confirming(r), req'[r] = req[r]
  PROVE  Confirming(r)'
<1>1. CASE \E q \in Requests : Clear(q)
  <2>1. PICK q \in Requests : Clear(q)
    BY <1>1
  <2>2. reinit = q /\ At(q, "clear")
    BY <2>1 DEF Clear, TypeOK, Handshaking
  <2>3. q = r => req'[r] # req[r]
    BY <2>1, <2>2 DEF Clear, At, Posting, NewRequest, TypeOK
  <2>4. reinit # r
    BY <2>2, <2>3
  <2>5. req[r].doing = "call" \/ At(r, "failed")
    BY <2>4 DEF TypeOK, Handshaking
  <2>6. QED BY <2>5 DEF Confirming, At
<1>2. CASE ~\E q \in Requests : Clear(q)
  <2>1. session # None => session' # None
    BY <1>2, SessionStays
  <2>2. QED BY <2>1 DEF Confirming, At
<1>3. QED BY <1>1, <1>2

(* notifications/initialized never goes out without a session: the two     *)
(* halves of a handshake are not interleaved with another's (reinitialize, *)
(* "two concurrent re-inits would each clear the other's").                *)
THEOREM HandshakesDoNotMix == Spec => []InitializedInSession
<1> DEFINE Inv == \A r \in Requests : Confirming(r)
<1>1. Init => Inv
  <2> SUFFICES ASSUME Init, NEW r \in Requests PROVE Confirming(r)
    OBVIOUS
  <2>1. req[r].doing = "call"
    BY DEF Init, NewRequest
  <2>2. QED BY <2>1 DEF Confirming
<1>2. TypeOK /\ Inv /\ [Next]_vars => Inv'
  <2> SUFFICES ASSUME TypeOK, Inv, [Next]_vars, NEW r \in Requests
               PROVE  Confirming(r)'
    OBVIOUS
  <2>1. CASE ClientStep(r) \/ ServerStep(r)
    BY <2>1, OwnConfirming
  <2>2. ASSUME NEW q \in Requests \ {r}, ClientStep(q) \/ ServerStep(q)
        PROVE  req'[r] = req[r]
    BY <2>2, OthersUntouched
  <2>3. CASE req'[r] = req[r]
    BY <2>3, OtherConfirming
  <2>4. QED BY <2>1, <2>2, <2>3 DEF Next, Forget, TokenExpires, vars
<1>3. Inv => InitializedInSession
  BY DEF Confirming, InitializedInSession
<1> HIDE DEF Inv
<1>4. QED BY <1>1, <1>2, <1>3, TypeCorrect, PTL DEF Spec

----------------------------------------------------------------------------
(* The promise.                                                            *)

(* What of a request has been carried out, at each point of its way: the   *)
(* request is sent again only when it was not.                             *)
CarriedRight(r) ==
  /\ carried[r] \in {0, 1}
  /\ (~At(r, "failed") /\ ~At(r, "answered")
        /\ ~(req[r].doing = "call" /\ (At(r, "reply") \/ At(r, "body")))
        => carried[r] = 0)
  /\ (req[r].doing = "call" /\ (At(r, "reply") \/ At(r, "body"))
        => /\ req[r].reply = "ok" => carried[r] = 1
           /\ req[r].reply = "lost" => carried[r] = 0)
  /\ (At(r, "answered") => carried[r] = 1)

(* What a request's own step does to it.                                   *)
LEMMA OwnCarried ==
  ASSUME TypeOK, NEW r \in Requests, CarriedRight(r), ClientStep(r) \/ ServerStep(r)
  PROVE  CarriedRight(r)'
<1> USE DEF client, oauth, remote, CarriedRight, At
<1>0. /\ DOMAIN req = Requests /\ DOMAIN carried = Requests
      /\ req[r] \in Request
  BY DEF TypeOK
<1>1. CASE Begin(r)
  <2>1. req'[r].stage = "bearer"
    BY <1>1, <1>0 DEF Begin, Posting, NewRequest
  <2>2. carried[r] = 0 /\ carried' = carried
    BY <1>1 DEF Begin
  <2>3. QED BY <2>1, <2>2
<1>2. CASE Bearer(r) \/ FetchLock(r) \/ Fetched(r)
  BY <1>2, <1>0 DEF Bearer, FetchLock, Fetched, WithBearer, Goto, Request
<1>3. CASE Abort(r) /\ carried' = carried
  <2>1. req'[r].stage = "failed"
    BY <1>3, <1>0 DEF Abort, Ended, NewRequest
  <2>2. QED BY <2>1, <1>3
<1>4. CASE Had(r) \/ Post(r)
  BY <1>4, <1>0 DEF Had, Post, Request
<1>5. CASE Head(r) /\ ~Abort(r)
  <2>1. CASE req[r].doing # "initialized"
    BY <1>5, <1>0, <2>1 DEF Head, Goto, Request
  <2>2. CASE req[r].doing = "initialized"
    <3>1. req'[r].stage = "bearer" /\ carried' = carried /\ carried[r] = 0
      BY <1>5, <1>0, <2>2 DEF Head, Posting, NewRequest
    <3>2. QED BY <3>1
  <2>3. QED BY <2>1, <2>2
<1>6. CASE Body(r) /\ ~Abort(r)
  <2>1. CASE req[r].reply = "ok" /\ req[r].doing # "call"
    <3>1. req'[r].stage = "bearer" /\ carried' = carried /\ carried[r] = 0
      BY <1>6, <1>0, <2>1 DEF Body, Posting, NewRequest, Expired
    <3>2. QED BY <3>1
  <2>2. CASE req[r].reply = "ok" /\ req[r].doing = "call"
    <3>1. req'[r].stage = "answered" /\ carried' = carried /\ carried[r] = 1
      BY <1>6, <1>0, <2>2 DEF Body, Ended, NewRequest, Expired
    <3>2. QED BY <3>1
  <2>3. CASE req[r].reply # "ok"
    <3>1. Goto(r, "reinit") /\ Expired(r) /\ carried' = carried
      BY <1>6, <2>3 DEF Body
    <3>2. carried[r] = 0
      BY <3>1, <1>6 DEF Expired, Body
    <3>3. QED BY <3>1, <3>2, <1>0 DEF Goto, Request
  <2>4. QED BY <2>1, <2>2, <2>3
<1>7. CASE Reinit(r) \/ Clear(r)
  <2>1. carried' = carried /\ carried[r] = 0
    BY <1>7 DEF Reinit, Clear
  <2>2. req'[r].stage \in {"bearer", "clear"}
    BY <1>7, <1>0, ZenonT(40) DEF Reinit, Clear, Posting, NewRequest, Goto, Request
  <2>3. QED BY <2>1, <2>2
<1>8. CASE ServerStep(r)
  BY <1>8, <1>0 DEF ServerStep, Refuse, Open, Ready, Serve, Reply, Request
<1>9. QED
  BY <1>1, <1>2, <1>3, <1>4, <1>5, <1>6, <1>7, <1>8
  DEF ClientStep, FetchFails, PostFails, Head, Body

(* A step that changes the fate of one request at most.                    *)
LEMMA OneFate ==
  ASSUME TypeOK, NEW r \in Requests, ClientStep(r) \/ ServerStep(r)
  PROVE  /\ [q \in Requests |-> Fate(q)]' = [[q \in Requests |-> Fate(q)] EXCEPT ![r] = Fate(r)']
         /\ [q \in Requests |-> IF At(q, "answered") THEN q ELSE 0]'
             = [[q \in Requests |-> IF At(q, "answered") THEN q ELSE 0]
                  EXCEPT ![r] = IF At(r, "answered")' THEN r ELSE 0]
<1>1. \A q \in Requests \ {r} : req'[q] = req[q]
  BY OthersUntouched
<1>2. \A q \in Requests \ {r} : Fate(q)' = Fate(q) /\ (At(q, "answered")' <=> At(q, "answered"))
  BY <1>1 DEF Fate, At
<1>3. QED BY <1>2

(* What a request's own step does to its fate.                             *)
LEMMA OwnFate ==
  ASSUME TypeOK, NEW r \in Requests, CarriedRight(r), ClientStep(r) \/ ServerStep(r)
  PROVE  \/ /\ Fate(r) = "unused" /\ Fate(r)' = "open"
            /\ UNCHANGED carried
         \/ /\ Fate(r) = "open" /\ Fate(r)' = "open"
            /\ carried[r] = 0 /\ carried' = [carried EXCEPT ![r] = 1]
         \/ /\ Fate(r) = "open" /\ Fate(r)' = "answered"
            /\ carried[r] = 1 /\ UNCHANGED carried
         \/ /\ Fate(r) = "open" /\ Fate(r)' = "failed"
            /\ UNCHANGED carried
         \/ Fate(r) = "open" /\ Fate(r)' = "open" /\ UNCHANGED carried
<1> USE DEF client, oauth, remote, At, Fate
<1>0. /\ DOMAIN req = Requests /\ DOMAIN carried = Requests
      /\ req[r] \in Request
  BY DEF TypeOK
<1>1. CASE Begin(r)
  BY <1>1, <1>0 DEF Begin, Posting, NewRequest
<1>2. CASE Bearer(r) \/ FetchLock(r) \/ Fetched(r)
  BY <1>2, <1>0 DEF Bearer, FetchLock, Fetched, WithBearer, Goto, Request
<1>3. CASE Abort(r) /\ (FetchFails(r) \/ PostFails(r) \/ Head(r) \/ Body(r))
  <2>1. req'[r].stage = "failed"
    BY <1>3, <1>0 DEF Abort, Ended, NewRequest
  <2>2. carried' = carried /\ req[r].stage \in {"fetching", "wire", "reply", "body"}
    BY <1>3 DEF FetchFails, PostFails, Head, Body
  <2>3. QED BY <2>1, <2>2
<1>4. CASE Had(r) \/ Post(r)
  BY <1>4, <1>0 DEF Had, Post, Request
<1>5. CASE Head(r) /\ ~Abort(r)
  <2>1. req'[r].stage \in {"body", "bearer"}
    BY <1>5, <1>0, ZenonT(40) DEF Head, Goto, Request, Posting, NewRequest
  <2>2. carried' = carried /\ req[r].stage = "reply"
    BY <1>5 DEF Head
  <2>3. QED BY <2>1, <2>2
<1>6. CASE Body(r) /\ ~Abort(r)
  <2>1. carried' = carried /\ req[r].stage = "body"
    BY <1>6 DEF Body
  <2>2. CASE req[r].reply = "ok" /\ req[r].doing = "call"
    <3>1. req'[r].stage = "answered" /\ carried[r] = 1
      BY <1>6, <1>0, <2>2 DEF Body, Ended, NewRequest, Expired, CarriedRight
    <3>2. QED BY <3>1, <2>1
  <2>3. CASE ~(req[r].reply = "ok" /\ req[r].doing = "call")
    <3>1. CASE req[r].reply = "ok"
      <4>1. req' = [req EXCEPT ![r] = Posting("initialized", TRUE)]
        BY <1>6, <2>3, <3>1 DEF Body, Expired
      <4>2. req'[r].stage = "bearer"
        BY <4>1, <1>0 DEF Posting, NewRequest
      <4>3. QED BY <4>2, <2>1
    <3>2. CASE req[r].reply # "ok"
      <4>1. Goto(r, "reinit")
        BY <1>6, <3>2 DEF Body
      <4>2. req'[r].stage = "reinit"
        BY <4>1, <1>0 DEF Goto, Request
      <4>3. QED BY <4>2, <2>1
    <3>3. QED BY <3>1, <3>2
  <2>4. QED BY <2>2, <2>3
<1>7. CASE Reinit(r) \/ Clear(r)
  <2>1. carried' = carried /\ req[r].stage \in {"reinit", "clear"}
    BY <1>7 DEF Reinit, Clear
  <2>2. req'[r].stage \in {"bearer", "clear"}
    BY <1>7, <1>0, ZenonT(40) DEF Reinit, Clear, Posting, NewRequest, Goto, Request
  <2>3. QED BY <2>1, <2>2
<1>8. CASE ServerStep(r)
  <2>1. req[r].stage = "wire" /\ req'[r].stage = "reply"
    BY <1>8, <1>0 DEF ServerStep, Refuse, Open, Ready, Serve, Reply, Request
  <2>2. carried' = carried \/ (carried[r] = 0 /\ carried' = [carried EXCEPT ![r] = 1])
    BY <1>8, <1>0 DEF ServerStep, Refuse, Open, Ready, Serve, CarriedRight
  <2>3. QED BY <2>1, <2>2
<1>9. QED
  BY <1>1, <1>2, <1>3, <1>4, <1>5, <1>6, <1>7, <1>8
  DEF ClientStep, FetchFails, PostFails

(* Every step is one of RpcPromise's, or none.                             *)
LEMMA PromiseStep ==
  ASSUME TypeOK, \A r \in Requests : CarriedRight(r), [Next]_vars
  PROVE  [Promise!Next]_(Promise!vars)
<1>1. ASSUME NEW r \in Requests, ClientStep(r) \/ ServerStep(r)
      PROVE  [Promise!Next]_(Promise!vars)
  <2> DEFINE fate == [q \in Requests |-> Fate(q)]
             answer == [q \in Requests |-> IF At(q, "answered") THEN q ELSE 0]
  <2>1. /\ fate' = [fate EXCEPT ![r] = Fate(r)']
        /\ answer' = [answer EXCEPT ![r] = IF At(r, "answered")' THEN r ELSE 0]
    BY <1>1, OneFate
  <2>2. fate[r] = Fate(r) /\ answer[r] = IF At(r, "answered") THEN r ELSE 0
    OBVIOUS
  <2>3. DOMAIN fate = Requests /\ DOMAIN answer = Requests
    OBVIOUS
  <2>4. /\ Fate(r) = "answered" <=> At(r, "answered")
        /\ Fate(r)' = "answered" <=> At(r, "answered")'
    BY DEF Fate, At
  <2>5. Fate(r) = "open" /\ Fate(r)' = "open" => fate' = fate
    <3>1. fate = [fate EXCEPT ![r] = fate[r]]
      OBVIOUS
    <3> HIDE DEF fate
    <3>2. QED BY <2>1, <2>2, <3>1
  <2>6. Fate(r) # "answered" /\ Fate(r)' # "answered" => answer' = answer
    <3>1. answer = [answer EXCEPT ![r] = answer[r]]
      OBVIOUS
    <3> HIDE DEF answer
    <3>2. QED BY <2>1, <2>2, <2>4, <3>1
  <2>7. CASE Fate(r) = "unused" /\ Fate(r)' = "open" /\ UNCHANGED carried
    <3>1. Promise!Issue(r)
      BY <2>1, <2>2, <2>6, <2>7 DEF Promise!Issue
    <3>2. QED BY <3>1 DEF Promise!Next
  <2>8. CASE /\ Fate(r) = "open" /\ Fate(r)' = "open"
             /\ carried[r] = 0 /\ carried' = [carried EXCEPT ![r] = 1]
    <3>1. Promise!CarryOut(r)
      BY <2>2, <2>5, <2>6, <2>8 DEF Promise!CarryOut
    <3>2. QED BY <3>1 DEF Promise!Next
  <2>9. CASE /\ Fate(r) = "open" /\ Fate(r)' = "answered"
             /\ carried[r] = 1 /\ UNCHANGED carried
    <3>1. Promise!Answer(r)
      BY <2>1, <2>2, <2>4, <2>9 DEF Promise!Answer
    <3>2. QED BY <3>1 DEF Promise!Next
  <2>10. CASE Fate(r) = "open" /\ Fate(r)' = "failed" /\ UNCHANGED carried
    <3>1. Promise!Fail(r)
      BY <2>1, <2>2, <2>6, <2>10 DEF Promise!Fail
    <3>2. QED BY <3>1 DEF Promise!Next
  <2>11. CASE Fate(r) = "open" /\ Fate(r)' = "open" /\ UNCHANGED carried
    BY <2>5, <2>6, <2>11 DEF Promise!vars
  <2>12. QED BY <1>1, <2>7, <2>8, <2>9, <2>10, <2>11, OwnFate
<1>2. CASE \E s \in Sessions : Forget(s)
  BY <1>2 DEF Forget, Promise!vars, Fate, At
<1>3. CASE TokenExpires
  BY <1>3 DEF TokenExpires, remote, Promise!vars, Fate, At
<1>4. CASE UNCHANGED vars
  BY <1>4 DEF vars, Promise!vars, Fate, At
<1>5. QED BY <1>1, <1>2, <1>3, <1>4 DEF Next

(* The remote transport implements RpcPromise: however often a session     *)
(* expires under it, a request is carried out at most once, and is         *)
(* answered only if it was (request_deadline, "re-initialized once and the *)
(* request retried").                                                      *)
THEOREM ImplementsPromise == Spec => KeepsPromise
<1> DEFINE Inv == \A r \in Requests : CarriedRight(r)
<1>1. Init => Inv
  <2> SUFFICES ASSUME Init, NEW r \in Requests PROVE CarriedRight(r)
    OBVIOUS
  <2>1. req[r].stage = "new" /\ req[r].doing = "call" /\ carried[r] = 0
    BY DEF Init, NewRequest
  <2>2. QED BY <2>1 DEF CarriedRight, At
<1>2. TypeOK /\ Inv /\ [Next]_vars => Inv'
  <2> SUFFICES ASSUME TypeOK, Inv, [Next]_vars, NEW r \in Requests
               PROVE  CarriedRight(r)'
    OBVIOUS
  <2>1. CASE ClientStep(r) \/ ServerStep(r)
    BY <2>1, OwnCarried
  <2>2. ASSUME NEW q \in Requests \ {r}, ClientStep(q) \/ ServerStep(q)
        PROVE  CarriedRight(r)'
    <3>1. req'[r] = req[r]
      BY <2>2, OthersUntouched
    <3>2. carried'[r] = carried[r]
      BY <2>2, OwnFate DEF TypeOK
    <3>3. QED BY <3>1, <3>2 DEF CarriedRight, At
  <2>3. CASE UNCHANGED <<req, carried>>
    BY <2>3 DEF CarriedRight, At
  <2>4. QED BY <2>1, <2>2, <2>3 DEF Next, Forget, TokenExpires, remote, vars
<1>3. Init => Promise!Init
  BY DEF Init, NewRequest, Promise!Init, Fate, At
<1>4. TypeOK /\ Inv /\ [Next]_vars => [Promise!Next]_(Promise!vars)
  BY PromiseStep
<1> HIDE DEF Inv
<1>5. QED BY <1>1, <1>2, <1>3, <1>4, TypeCorrect, PTL DEF Spec, KeepsPromise, Promise!Spec

----------------------------------------------------------------------------
(* The session.                                                            *)

(* Session ids the client still holds somewhere: a request's copy, or the  *)
(* one a reply to its call names.                                          *)
Holds(r) ==
  {req[r].seen, req[r].sid} \cup IF req[r].doing = "call" THEN {req[r].names} ELSE {}
Known == {session} \cup UNION {Holds(r) : r \in Requests}

(* The server opens sessions in order, and the client knows none it has    *)
(* not opened.                                                             *)
Opened ==
  /\ \A k \in Known \ {None} : server[k] # "unborn"
  /\ \A s, t \in Sessions : t < s /\ server[s] # "unborn" => server[t] # "unborn"

(* A session said to be lost is gone, and what brings a request to         *)
(* reinitialize is a lost session.                                         *)
LostIsGone(r) ==
  /\ req[r].reply = "lost" =>
       Gone(req[r].sid) /\ \E stage \in {"reply", "body", "reinit", "clear"} : At(r, stage)
  /\ At(r, "reinit") => req[r].reply = "lost" /\ req[r].doing = "call"

(* The session a handshake brings is newer than any the client knows.      *)
OfferIsNew(r) ==
  req[r].doing = "initialize" /\ At(r, "reply") /\ req[r].names # None =>
    /\ server[req[r].names] # "unborn"
    /\ \A k \in Known : k < req[r].names

(* A handshake that has not brought its session yet.                       *)
Unadopted(r) ==
  \/ At(r, "clear")
  \/ req[r].doing = "initialize"
     /\ \E stage \in Stages \ {"body", "failed"} : At(r, stage)

(* A request on its way whose session was replaced before it went out saw  *)
(* one that is gone.                                                       *)
Overtaken(r) ==
  /\ req[r].doing = "call" /\ req[r].seen \notin {None, req[r].sid}
  /\ \E stage \in {"wire", "reply", "body", "reinit"} : At(r, stage)

(* As long as no late reply puts an older session back, only the current   *)
(* session can be alive, and it is the newest; a handshake under way       *)
(* replaces a dead one; a request whose session was replaced while it was  *)
(* on its way saw one that is gone.                                        *)
Forward ==
  /\ \A k \in Known \ {None, session} : Gone(k)
  /\ Live(session) => \A k \in Known : k <= session
  /\ \A r \in Requests :
       /\ Unadopted(r) => ~Live(session)
       /\ Overtaken(r) => Gone(req[r].seen)

Succession ==
  /\ Opened
  /\ \A r \in Requests : LostIsGone(r) /\ OfferIsNew(r)
  /\ ~wentBack => Forward


(* Nothing else in a request's record becomes known.                       *)
LEMMA OwnHolds ==
  ASSUME TypeOK, NEW r \in Requests, ClientStep(r) \/ ServerStep(r)
  PROVE  Holds(r)' \subseteq Holds(r) \cup {session, None}
<1> USE DEF client, oauth, remote, At
<1>0. /\ DOMAIN req = Requests
      /\ req[r] \in Request
  BY DEF TypeOK
<1>1. ASSUME NEW doing \in {"call", "initialize", "initialized"}, NEW b \in BOOLEAN,
             req'[r] = Posting(doing, b)
      PROVE  Holds(r)' \subseteq {None}
  BY <1>1 DEF Holds, Posting, NewRequest
<1>2. ASSUME NEW stage \in Stages, req'[r] = Ended(r, stage)
      PROVE  Holds(r)' \subseteq {None}
  BY <1>2 DEF Holds, Ended, NewRequest
<1>3. ASSUME NEW stage \in Stages, Goto(r, stage)
      PROVE  Holds(r)' = Holds(r)
  <2>1. /\ req'[r].seen = req[r].seen /\ req'[r].sid = req[r].sid
        /\ req'[r].doing = req[r].doing /\ req'[r].names = req[r].names
    BY <1>0, <1>3 DEF Goto, Request
  <2>2. QED BY <2>1 DEF Holds
<1>4. CASE Begin(r)
  <2>1. /\ req'[r].seen = session /\ req'[r].sid = None /\ req'[r].names = None
    BY <1>0, <1>4 DEF Begin, Posting, NewRequest
  <2>2. QED BY <2>1 DEF Holds
<1>5. CASE Bearer(r) \/ FetchLock(r) \/ Fetched(r)
  <2>1. \E stage \in Stages : Goto(r, stage)
    BY <1>5 DEF Bearer, FetchLock, Fetched, WithBearer, Stages
  <2>2. QED BY <2>1, <1>3
<1>6. CASE Abort(r)
  <2>1. req'[r] = Ended(r, "failed") /\ "failed" \in Stages
    BY <1>0, <1>6 DEF Abort, Stages
  <2>2. QED BY <2>1, <1>2
<1>7. CASE Had(r)
  <2>1. /\ req'[r].seen = req[r].seen /\ req'[r].sid = req[r].sid
        /\ req'[r].doing = req[r].doing /\ req'[r].names = req[r].names
    BY <1>0, <1>7 DEF Had, Request
  <2>2. QED BY <2>1 DEF Holds
<1>8. CASE Post(r)
  <2>1. /\ req'[r].seen = req[r].seen /\ req'[r].sid = session
        /\ req'[r].doing = req[r].doing /\ req'[r].names = req[r].names
    BY <1>0, <1>8 DEF Post, Request
  <2>2. QED BY <2>1 DEF Holds
<1>9. CASE Head(r) /\ ~Abort(r)
  <2>1. Goto(r, "body") \/ req'[r] = Posting("call", TRUE)
    BY <1>0, <1>9 DEF Head
  <2>2. QED BY <2>1, <1>1, <1>3 DEF Stages
<1>10. CASE Body(r) /\ ~Abort(r)
  <2>1. \/ Goto(r, "reinit")
        \/ req'[r] = Ended(r, "answered")
        \/ req'[r] = Posting("initialized", TRUE)
    BY <1>0, <1>10 DEF Body
  <2>2. QED BY <2>1, <1>1, <1>2, <1>3 DEF Stages
<1>11. CASE Reinit(r) \/ Clear(r)
  <2>1. \/ Goto(r, "clear")
        \/ req'[r] = Posting("call", TRUE)
        \/ req'[r] = Posting("initialize", TRUE)
    BY <1>0, <1>11 DEF Reinit, Clear
  <2>2. QED BY <2>1, <1>1, <1>3 DEF Stages
<1>12. CASE ServerStep(r)
  <2>1. PICK reply, names : /\ Reply(r, reply, names)
                            /\ names \in {None, req[r].sid} \/ req[r].doing # "call"
    BY <1>12 DEF ServerStep, Refuse, Open, Ready, Serve
  <2>2. /\ req'[r].seen = req[r].seen /\ req'[r].sid = req[r].sid
        /\ req'[r].doing = req[r].doing /\ req'[r].names = names
    BY <1>0, <2>1 DEF Reply, Request
  <2>3. QED BY <2>1, <2>2 DEF Holds
<1>13. QED
  BY <1>4, <1>5, <1>6, <1>7, <1>8, <1>9, <1>10, <1>11, <1>12
  DEF ClientStep, FetchFails, PostFails

(* What a step does to the session and to whether it ever went back.       *)
LEMMA SessionStep ==
  ASSUME TypeOK, [Next]_vars
  PROVE  \/ UNCHANGED <<session, wentBack>>
         \/ session' = None /\ UNCHANGED wentBack /\ \E r \in Requests : Clear(r)
         \/ \E r \in Requests :
              /\ Head(r) /\ req[r].names # None /\ req[r].doing # "initialized"
              /\ session' = req[r].names
              /\ wentBack' = (wentBack \/ session' \in 1..(session - 1))
<1> USE DEF client, oauth, remote
<1>1. ASSUME NEW r \in Requests, Head(r)
      PROVE  \/ UNCHANGED <<session, wentBack>>
             \/ /\ req[r].names # None /\ req[r].doing # "initialized"
                /\ session' = req[r].names
                /\ wentBack' = (wentBack \/ session' \in 1..(session - 1))
  <2>1. CASE req[r].doing # "initialized" /\ req[r].names = None
    <3>1. session' = session /\ wentBack' = (wentBack \/ session' \in 1..(session - 1))
      BY <1>1, <2>1 DEF Head, Captured
    <3>2. session \notin 1..(session - 1)
      BY DEF TypeOK, Sessions
    <3>3. wentBack' = wentBack
      BY <3>1, <3>2 DEF TypeOK
    <3>4. QED BY <3>1, <3>3
  <2>2. CASE req[r].doing # "initialized" /\ req[r].names # None
    BY <1>1, <2>2 DEF Head, Captured
  <2>3. CASE req[r].doing = "initialized"
    BY <1>1, <2>3 DEF Head
  <2>4. QED BY <2>1, <2>2, <2>3
<1>2. ASSUME NEW r \in Requests, Clear(r)
      PROVE  session' = None /\ UNCHANGED wentBack
  BY <1>2 DEF Clear
<1>3. ASSUME NEW r \in Requests, ClientStep(r), ~Head(r), ~Clear(r)
      PROVE  UNCHANGED <<session, wentBack>>
  BY <1>3 DEF ClientStep, Begin, Bearer, FetchLock, Fetched, FetchFails, Had,
     Post, PostFails, Body, Reinit
<1>4. ASSUME NEW r \in Requests, ServerStep(r)
      PROVE  UNCHANGED <<session, wentBack>>
  BY <1>4 DEF ServerStep, Refuse, Open, Ready, Serve
<1>5. QED BY <1>1, <1>2, <1>3, <1>4 DEF Next, Forget, TokenExpires, vars

(* The client comes to know a session by the reply to a handshake only.    *)
LEMMA KnownStep ==
  ASSUME TypeOK, [Next]_vars, NEW k \in Known', k # None
  PROVE  \/ k \in Known
         \/ /\ k = session'
            /\ \E r \in Requests :
                 Head(r) /\ req[r].doing = "initialize" /\ req[r].names = k
<1>1. ASSUME NEW q \in Requests, k \in Holds(q)' PROVE k \in Known
  <2>1. CASE ClientStep(q) \/ ServerStep(q)
    <3>1. k \in Holds(q) \cup {session}
      BY <1>1, <2>1, OwnHolds
    <3>2. QED BY <3>1 DEF Known
  <2>2. CASE req'[q] = req[q]
    <3>1. Holds(q)' = Holds(q)
      BY <2>2 DEF Holds
    <3>2. QED BY <1>1, <3>1 DEF Known
  <2>3. ASSUME NEW r \in Requests \ {q}, ClientStep(r) \/ ServerStep(r)
        PROVE  req'[q] = req[q]
    BY <2>3, OthersUntouched
  <2>4. QED BY <2>1, <2>2, <2>3 DEF Next, Forget, TokenExpires, remote, vars
<1>2. CASE k = session' /\ k \notin Known
  <2>1. session \in Known
    BY DEF Known
  <2>2. PICK r \in Requests : /\ Head(r) /\ req[r].doing # "initialized"
                              /\ session' = req[r].names
    BY <1>2, <2>1, SessionStep
  <2>3. req[r].doing = "initialize" \/ req[r].names \in Holds(r)
    BY <2>2 DEF Holds, TypeOK, Request
  <2>4. QED BY <1>2, <2>2, <2>3 DEF Known
<1>3. QED BY <1>1, <1>2 DEF Known

(* A session the server forgot stays forgotten; it opens one at a time,    *)
(* in order.                                                               *)
LEMMA ServerHistory ==
  ASSUME TypeOK, [Next]_vars
  PROVE  /\ \A s \in Sessions : Gone(s) => Gone(s)'
         /\ \A s \in Sessions : server[s] # "unborn" => server'[s] # "unborn"
         /\ \A s \in Sessions : Live(s)' => Live(s) \/ server[s] = "unborn"
         /\ \A s \in Sessions : server[s] = "unborn" /\ server'[s] # "unborn" =>
              /\ \A t \in 1..(s - 1) : server[t] # "unborn"
              /\ \E r \in Requests : Open(r) /\ Reply(r, "ok", s)
<1> USE DEF client, oauth, remote, Live, Gone
<1>0. server \in [Sessions -> {"unborn", "opened", "ready", "gone"}] /\ None \notin Sessions
  BY DEF TypeOK, Sessions, None
<1>1. CASE UNCHANGED server
  BY <1>1
<1>2. ASSUME NEW r \in Requests, Open(r)
      PROVE  \E s \in Sessions :
               /\ server[s] = "unborn" /\ server' = [server EXCEPT ![s] = "opened"]
               /\ \A t \in 1..(s - 1) : server[t] # "unborn"
               /\ Reply(r, "ok", s)
  BY <1>2 DEF Open
<1>3. CASE \E r \in Requests : Open(r)
  <2>1. PICK r \in Requests : Open(r)
    BY <1>3
  <2>2. PICK s \in Sessions :
          /\ server[s] = "unborn" /\ server' = [server EXCEPT ![s] = "opened"]
          /\ \A t \in 1..(s - 1) : server[t] # "unborn"
          /\ Reply(r, "ok", s)
    BY <2>1, <1>2
  <2>3. server'[s] = "opened" /\ \A t \in Sessions \ {s} : server'[t] = server[t]
    BY <2>2, <1>0
  <2>4. QED BY <1>0, <2>1, <2>2, <2>3
<1>4. ASSUME NEW r \in Requests, Ready(r)
      PROVE  /\ server[req[r].sid] \in {"opened", "ready"}
             /\ server' = [server EXCEPT ![req[r].sid] = "ready"]
  BY <1>4 DEF Ready
<1>5. CASE \E r \in Requests : Ready(r)
  BY <1>0, <1>4, <1>5
<1>6. CASE \E s \in Sessions : Forget(s)
  BY <1>0, <1>6 DEF Forget
<1>7. ASSUME NEW r \in Requests, ClientStep(r) PROVE UNCHANGED server
  BY <1>7 DEF ClientStep, Begin, Bearer, FetchLock, Fetched, FetchFails, Had,
     Post, PostFails, Head, Body, Reinit, Clear
<1>8. ASSUME NEW r \in Requests, Refuse(r) \/ Serve(r) PROVE UNCHANGED server
  BY <1>8 DEF Refuse, Serve
<1>9. QED
  BY <1>1, <1>3, <1>5, <1>6, <1>7, <1>8 DEF Next, ServerStep, TokenExpires, vars

LEMMA KnownType == TypeOK => Known \subseteq Sessions \cup {None}
<1> SUFFICES ASSUME TypeOK PROVE Known \subseteq Sessions \cup {None}
  OBVIOUS
<1>1. ASSUME NEW r \in Requests PROVE Holds(r) \subseteq Sessions \cup {None}
  <2>1. req[r] \in Request
    BY DEF TypeOK
  <2>2. {req[r].seen, req[r].sid, req[r].names} \subseteq Sessions \cup {None}
    BY <2>1 DEF Request
  <2>3. QED BY <2>2 DEF Holds
<1>2. QED BY <1>1 DEF Known, TypeOK

(* A session is lost for a request when the server said so, to it.         *)
LEMMA OwnLost ==
  ASSUME TypeOK, NEW r \in Requests, Confirming(r), LostIsGone(r),
         ClientStep(r) \/ ServerStep(r)
  PROVE  LostIsGone(r)'
<1> USE DEF client, oauth, remote, At
<1>0. /\ DOMAIN req = Requests
      /\ req[r] \in Request
  BY DEF TypeOK
<1>1. CASE ServerStep(r)
  <2>1. CASE Refuse(r)
    BY <1>0, <2>1 DEF Refuse, Reply, LostIsGone, Request, Gone
  <2>2. CASE Open(r) \/ Ready(r) \/ Serve(r)
    <3>1. req'[r].reply # "lost" /\ req'[r].stage = "reply"
      BY <1>0, <2>2 DEF Open, Ready, Serve, Reply, Request
    <3>2. QED BY <3>1 DEF LostIsGone
  <2>3. QED BY <1>1, <2>1, <2>2 DEF ServerStep
<1>2. ASSUME req'[r].reply = "none", req'[r].stage # "reinit"
      PROVE  LostIsGone(r)'
  BY <1>2 DEF LostIsGone
<1>3. ASSUME UNCHANGED server, req'[r].reply = req[r].reply, req'[r].sid = req[r].sid,
             req'[r].stage \in {"reply", "body", "clear"} \/ req[r].reply # "lost",
             req'[r].stage # "reinit"
      PROVE  LostIsGone(r)'
  BY <1>3 DEF LostIsGone, Gone
<1>4. CASE Begin(r)
  <2>1. req'[r].reply = "none" /\ req'[r].stage = "bearer"
    BY <1>0, <1>4 DEF Begin, Posting, NewRequest
  <2>2. QED BY <2>1, <1>2
<1>5. CASE Bearer(r) \/ FetchLock(r) \/ Fetched(r) \/ Had(r) \/ Post(r)
  <2>1. /\ UNCHANGED server /\ req'[r].reply = req[r].reply
        /\ req'[r].stage # "reinit" /\ req[r].reply # "lost"
    BY <1>0, <1>5
    DEF Bearer, FetchLock, Fetched, Had, Post, WithBearer, Goto, Request, LostIsGone
  <2>2. QED BY <2>1 DEF LostIsGone
<1>6. CASE Abort(r)
  <2>1. req'[r].reply = "none" /\ req'[r].stage = "failed"
    BY <1>0, <1>6 DEF Abort, Ended, NewRequest
  <2>2. QED BY <2>1, <1>2
<1>7. CASE Head(r) /\ ~Abort(r)
  <2>1. CASE Goto(r, "body") /\ UNCHANGED server
    BY <1>0, <1>3, <2>1 DEF Goto, Request
  <2>2. CASE req'[r] = Posting("call", TRUE)
    BY <1>2, <2>2 DEF Posting, NewRequest
  <2>3. QED BY <1>0, <1>7, <2>1, <2>2 DEF Head
<1>8. CASE Body(r) /\ ~Abort(r)
  <2>1. CASE Goto(r, "reinit") /\ Expired(r)
    <3>1. req[r].reply = "lost" /\ req[r].doing = "call" /\ UNCHANGED server
      BY <1>0, <1>8, <2>1 DEF Expired, Confirming, Body, Request
    <3>2. /\ req'[r].reply = "lost" /\ req'[r].doing = "call"
          /\ req'[r].sid = req[r].sid /\ req'[r].stage = "reinit"
      BY <1>0, <2>1, <3>1 DEF Goto, Request
    <3>3. QED BY <3>1, <3>2 DEF LostIsGone, Gone
  <2>2. CASE req'[r] \in {Ended(r, "answered"), Posting("initialized", TRUE)}
    BY <1>2, <2>2 DEF Ended, Posting, NewRequest
  <2>3. QED BY <1>0, <1>8, <2>1, <2>2 DEF Body
<1>9. CASE Reinit(r) \/ Clear(r)
  <2>1. CASE Goto(r, "clear") /\ UNCHANGED server
    BY <1>0, <1>3, <2>1 DEF Goto, Request
  <2>2. CASE req'[r] \in {Posting("call", TRUE), Posting("initialize", TRUE)}
    BY <1>2, <2>2 DEF Posting, NewRequest
  <2>3. QED BY <1>0, <1>9, <2>1, <2>2 DEF Reinit, Clear
<1>10. QED
  BY <1>1, <1>4, <1>5, <1>6, <1>7, <1>8, <1>9 DEF ClientStep, FetchFails, PostFails

(* A handshake is begun at the lock, by a request that finds the session   *)
(* it saw.                                                                 *)
LEMMA HandshakeBegins ==
  ASSUME TypeOK, NEW r \in Requests, ClientStep(r) \/ ServerStep(r),
         Unadopted(r)', ~Unadopted(r)
  PROVE  At(r, "reinit") /\ session = req[r].seen /\ UNCHANGED <<session, server>>
<1> USE DEF client, oauth, remote, At, Unadopted
<1>0. /\ DOMAIN req = Requests
      /\ req[r] \in Request
  BY DEF TypeOK
<1>1. CASE req'[r].doing = req[r].doing /\ req'[r].stage # "clear"
  <2>1. req'[r].doing = "initialize" /\ req[r].stage \in {"body", "failed"}
    BY <1>0, <1>1 DEF Request
  <2>2. Body(r) \/ PostFails(r)
    BY <2>1
    DEF ClientStep, ServerStep, Begin, Bearer, FetchLock, Fetched, FetchFails, Had, Post,
        Head, Reinit, Clear, Refuse, Open, Ready, Serve
  <2>3. \/ req'[r] = Ended(r, "failed") \/ req'[r] = Posting("initialized", TRUE)
        \/ Goto(r, "reinit") /\ Expired(r)
    BY <1>0, <1>1, <2>1, <2>2 DEF Body, PostFails, Abort
  <2>4. req'[r] # Posting("initialized", TRUE)
    BY <2>1 DEF Posting, NewRequest
  <2>5. ~Expired(r)
    BY <1>1, <2>1 DEF Expired
  <2>6. req'[r].stage = "failed"
    BY <2>3, <2>4, <2>5 DEF Ended, NewRequest
  <2>7. QED BY <2>6
<1>2. CASE ServerStep(r)
  <2>1. req'[r].doing = req[r].doing /\ req'[r].stage = "reply"
    BY <1>0, <1>2 DEF ServerStep, Refuse, Open, Ready, Serve, Reply, Request
  <2>2. QED BY <1>1, <2>1
<1>3. CASE Begin(r)
  <2>1. req'[r].doing = "call" /\ req'[r].stage = "bearer"
    BY <1>0, <1>3 DEF Begin, Posting, NewRequest
  <2>2. QED BY <2>1
<1>4. CASE Bearer(r) \/ FetchLock(r) \/ Fetched(r) \/ Had(r) \/ Post(r)
  <2>1. req'[r].doing = req[r].doing /\ req'[r].stage # "clear"
    BY <1>0, <1>4 DEF Bearer, FetchLock, Fetched, Had, Post, WithBearer, Goto, Request
  <2>2. QED BY <1>1, <2>1
<1>5. CASE Abort(r)
  <2>1. req'[r].stage = "failed"
    BY <1>0, <1>5 DEF Abort, Ended, NewRequest
  <2>2. QED BY <2>1
<1>6. CASE (Head(r) \/ Body(r)) /\ ~Abort(r)
  <2>1. CASE \E stage \in {"body", "reinit"} : Goto(r, stage)
    <3>1. req'[r].doing = req[r].doing /\ req'[r].stage # "clear"
      BY <1>0, <2>1 DEF Goto, Request
    <3>2. QED BY <3>1, <1>1
  <2>2. CASE req'[r] \in {Ended(r, "answered"), Posting("call", TRUE), Posting("initialized", TRUE)}
    <3>1. req'[r].stage = "answered" \/ (req'[r].doing # "initialize" /\ req'[r].stage # "clear")
      BY <2>2 DEF Ended, Posting, NewRequest
    <3>2. req'[r].doing = "initialize" /\ req'[r].stage = "answered" => req[r].doing = "initialize"
      BY <2>2 DEF Ended, Posting, NewRequest
    <3>3. CASE req'[r].doing = "initialize" /\ req'[r].stage = "answered"
      BY <1>1, <3>2, <3>3
    <3>4. QED BY <3>1, <3>3
  <2>3. QED BY <1>0, <1>6, <2>1, <2>2 DEF Head, Body
<1>7. CASE Reinit(r)
  <2>1. CASE req'[r] = Posting("call", TRUE)
    <3>1. req'[r].doing = "call" /\ req'[r].stage = "bearer"
      BY <2>1 DEF Posting, NewRequest
    <3>2. QED BY <3>1
  <2>2. CASE ~Replaced(r)
    BY <1>7, <2>2 DEF Reinit, Replaced
  <2>3. QED BY <1>0, <1>7, <2>1, <2>2 DEF Reinit
<1>8. CASE Clear(r)
  BY <1>8 DEF Clear
<1>9. QED
  BY <1>2, <1>3, <1>4, <1>5, <1>6, <1>7, <1>8 DEF ClientStep, FetchFails, PostFails

(* It was replaced by the time it went out, or is overtaken already.       *)
LEMMA OwnOvertaken ==
  ASSUME TypeOK, NEW r \in Requests, ClientStep(r) \/ ServerStep(r), Overtaken(r)'
  PROVE  /\ req'[r].seen = req[r].seen
         /\ Overtaken(r) \/ session # req[r].seen
<1> USE DEF client, oauth, remote, At, Overtaken
<1>0. /\ DOMAIN req = Requests
      /\ req[r] \in Request
  BY DEF TypeOK
<1>1. ASSUME req'[r].seen = None \/ req'[r].stage \in {"bearer", "answered", "failed"} PROVE FALSE
  BY <1>1
<1>2. CASE Begin(r)
  <2>1. req'[r].stage = "bearer"
    BY <1>0, <1>2 DEF Begin, Posting, NewRequest
  <2>2. QED BY <2>1, <1>1
<1>3. CASE Bearer(r) \/ FetchLock(r) \/ Fetched(r) \/ Had(r)
  <2>1. req'[r].stage \in {"post", "had", "fetchlock", "fetching"}
    BY <1>0, <1>3 DEF Bearer, FetchLock, Fetched, Had, WithBearer, Goto, Request
  <2>2. QED BY <2>1
<1>4. CASE Post(r)
  BY <1>0, <1>4 DEF Post, Request
<1>5. CASE Abort(r)
  <2>1. req'[r].stage = "failed"
    BY <1>0, <1>5 DEF Abort, Ended, NewRequest
  <2>2. QED BY <2>1, <1>1
<1>6. CASE (Head(r) \/ Body(r)) /\ ~Abort(r)
  <2>1. CASE \E stage \in {"body", "reinit"} : Goto(r, stage)
    <3>1. /\ req'[r].seen = req[r].seen /\ req'[r].sid = req[r].sid
          /\ req'[r].doing = req[r].doing
      BY <1>0, <2>1 DEF Goto, Request
    <3>2. req[r].stage \in {"reply", "body"}
      BY <1>6 DEF Head, Body
    <3>3. QED BY <3>1, <3>2
  <2>2. CASE req'[r] \in {Ended(r, "answered"), Posting("call", TRUE), Posting("initialized", TRUE)}
    <3>1. req'[r].seen = None
      BY <2>2 DEF Ended, Posting, NewRequest
    <3>2. QED BY <3>1, <1>1
  <2>3. QED BY <1>0, <1>6, <2>1, <2>2 DEF Head, Body
<1>7. CASE Reinit(r) \/ Clear(r)
  <2>1. CASE Goto(r, "clear")
    <3>1. req'[r].stage = "clear"
      BY <1>0, <2>1 DEF Goto, Request
    <3>2. QED BY <3>1
  <2>2. CASE req'[r] \in {Posting("call", TRUE), Posting("initialize", TRUE)}
    <3>1. req'[r].seen = None
      BY <2>2 DEF Posting, NewRequest
    <3>2. QED BY <3>1, <1>1
  <2>3. QED BY <1>0, <1>7, <2>1, <2>2 DEF Reinit, Clear
<1>8. CASE ServerStep(r)
  <2>1. /\ req'[r].seen = req[r].seen /\ req'[r].sid = req[r].sid
        /\ req'[r].doing = req[r].doing /\ req[r].stage = "wire"
    BY <1>0, <1>8 DEF ServerStep, Refuse, Open, Ready, Serve, Reply, Request
  <2>2. QED BY <2>1
<1>9. QED
  BY <1>2, <1>3, <1>4, <1>5, <1>6, <1>7, <1>8 DEF ClientStep, FetchFails, PostFails

(* One request's step, or a step of the server's or the token's own.       *)
LEMMA WhoseStep ==
  ASSUME TypeOK, [Next]_vars, NEW r \in Requests
  PROVE  ClientStep(r) \/ ServerStep(r) \/ req'[r] = req[r]
<1>1. ASSUME NEW q \in Requests \ {r}, ClientStep(q) \/ ServerStep(q)
      PROVE  req'[r] = req[r]
  BY <1>1, OthersUntouched
<1>2. QED BY <1>1 DEF Next, Forget, TokenExpires, remote, vars

LEMMA NextOpened ==
  ASSUME TypeOK, Opened, \A r \in Requests : OfferIsNew(r), [Next]_vars
  PROVE  Opened'
<1>1. ASSUME NEW k \in Known', k # None PROVE server'[k] # "unborn"
  <2>1. CASE k \in Known
    <3>1. server[k] # "unborn" /\ k \in Sessions
      BY <1>1, <2>1, KnownType DEF Opened
    <3>2. QED BY <3>1, ServerHistory
  <2>2. CASE k \notin Known
    <3>1. PICK r \in Requests : Head(r) /\ req[r].doing = "initialize" /\ req[r].names = k
      BY <1>1, <2>2, KnownStep
    <3>2. server[k] # "unborn"
      BY <1>1, <3>1 DEF Head, OfferIsNew
    <3>3. k \in Sessions
      BY <1>1, <3>1 DEF TypeOK, Request
    <3>4. QED BY <3>2, <3>3, ServerHistory
  <2>3. QED BY <2>1, <2>2
<1>2. ASSUME NEW s \in Sessions, NEW t \in Sessions, t < s, server'[s] # "unborn"
      PROVE  server'[t] # "unborn"
  <2>1. CASE server[s] # "unborn"
    <3>1. server[t] # "unborn"
      BY <1>2, <2>1 DEF Opened
    <3>2. QED BY <3>1, ServerHistory
  <2>2. CASE server[s] = "unborn"
    <3>1. t \in 1..(s - 1)
      BY <1>2 DEF Sessions
    <3>2. server[t] # "unborn"
      BY <1>2, <2>2, <3>1, ServerHistory
    <3>3. QED BY <3>2, ServerHistory
  <2>3. QED BY <2>1, <2>2
<1>3. \A k \in Known' \ {None} : server'[k] # "unborn"
  BY <1>1
<1>4. QED BY <1>2, <1>3 DEF Opened

LEMMA NextLost ==
  ASSUME TypeOK, [Next]_vars, NEW r \in Requests, Confirming(r), LostIsGone(r)
  PROVE  LostIsGone(r)'
<1>1. CASE ClientStep(r) \/ ServerStep(r)
  BY <1>1, OwnLost
<1>2. CASE req'[r] = req[r]
  <2>1. req[r].sid \in Sessions \cup {None}
    BY DEF TypeOK, Request
  <2>2. Gone(req[r].sid) => Gone(req[r].sid)'
    <3>1. ASSUME Gone(req[r].sid) PROVE req[r].sid \in Sessions
      BY <2>1, <3>1 DEF Gone
    <3>2. ASSUME Gone(req[r].sid) PROVE server'[req[r].sid] = "gone"
      BY <3>1, <3>2, ServerHistory DEF Gone
    <3>3. QED BY <3>2, <1>2 DEF Gone
  <2>3. QED BY <1>2, <2>2 DEF LostIsGone, At
<1>3. QED BY <1>1, <1>2, WhoseStep

(* Only the server makes a request wait for nothing but its reply.         *)
LEMMA ClientStage ==
  ASSUME TypeOK, NEW r \in Requests, ClientStep(r)
  PROVE  req'[r].stage # "reply"
<1> USE DEF At
<1>0. DOMAIN req = Requests /\ req[r] \in Request
  BY DEF TypeOK
<1>1. ASSUME NEW stage \in Stages \ {"reply"}, Goto(r, stage) PROVE req'[r].stage # "reply"
  BY <1>0, <1>1 DEF Goto, Request
<1>2. ASSUME NEW doing \in {"call", "initialize", "initialized"}, NEW b \in BOOLEAN,
             req'[r] = Posting(doing, b)
      PROVE  req'[r].stage # "reply"
  BY <1>2 DEF Posting, NewRequest
<1>3. ASSUME NEW stage \in {"answered", "failed"}, req'[r] = Ended(r, stage)
      PROVE  req'[r].stage # "reply"
  BY <1>3 DEF Ended, NewRequest
<1>4. CASE Begin(r)
  BY <1>0, <1>4 DEF Begin, Posting, NewRequest
<1>5. CASE Bearer(r) \/ FetchLock(r) \/ Fetched(r)
  <2>1. \E stage \in Stages \ {"reply"} : Goto(r, stage)
    BY <1>5 DEF Bearer, FetchLock, Fetched, WithBearer, Stages
  <2>2. QED BY <2>1, <1>1
<1>6. CASE Had(r) \/ Post(r)
  BY <1>0, <1>6 DEF Had, Post, Request
<1>7. CASE Abort(r)
  <2>1. req'[r] = Ended(r, "failed")
    BY <1>0, <1>7 DEF Abort
  <2>2. QED BY <2>1, <1>3
<1>8. CASE (Head(r) \/ Body(r)) /\ ~Abort(r)
  <2>1. \/ \E stage \in {"body", "reinit"} : Goto(r, stage)
        \/ req'[r] \in {Ended(r, "answered"), Posting("call", TRUE), Posting("initialized", TRUE)}
    BY <1>0, <1>8 DEF Head, Body
  <2>2. QED BY <2>1, <1>1, <1>2, <1>3 DEF Stages
<1>9. CASE Reinit(r) \/ Clear(r)
  <2>1. \/ Goto(r, "clear")
        \/ req'[r] \in {Posting("call", TRUE), Posting("initialize", TRUE)}
    BY <1>0, <1>9 DEF Reinit, Clear
  <2>2. QED BY <2>1, <1>1, <1>2 DEF Stages
<1>10. QED
  BY <1>4, <1>5, <1>6, <1>7, <1>8, <1>9 DEF ClientStep, FetchFails, PostFails

(* Two handshakes are never under way at once.                             *)
LEMMA OneHandshake ==
  ASSUME TypeOK, NEW q \in Requests, NEW r \in Requests, Unadopted(q), Unadopted(r)
  PROVE  q = r
<1>1. ASSUME NEW p \in Requests, Unadopted(p) PROVE reinit = p
  <2>1. Handshaking(p)
    BY <1>1 DEF Unadopted, Handshaking, At
  <2>2. QED BY <2>1 DEF TypeOK
<1>2. QED BY <1>1

LEMMA NextOffer ==
  ASSUME TypeOK, TypeOK', Opened, Opened', [Next]_vars, NEW r \in Requests, OfferIsNew(r)
  PROVE  OfferIsNew(r)'
<1> DEFINE n == req'[r].names
<1> HIDE DEF n
<1> SUFFICES ASSUME req'[r].doing = "initialize", req'[r].stage = "reply", n # None
             PROVE  server'[n] # "unborn" /\ \A k \in Known' : k < n
  BY DEF OfferIsNew, At, n
<1>0. /\ n \in Sessions /\ DOMAIN req = Requests /\ req[r] \in Request
      /\ Known \subseteq Sessions \cup {None}
  BY KnownType DEF TypeOK, Request, n
<1>1. ASSUME UNCHANGED session
      PROVE  Known' \subseteq Known \cup {None}
  <2>1. session' \in Known
    BY <1>1 DEF Known
  <2>2. QED BY <2>1, KnownStep
<1>2. CASE ClientStep(r) \/ ServerStep(r)
  <2>1. Open(r)
    <3>1. ServerStep(r)
      BY <1>2, ClientStage
    <3>2. CASE Refuse(r)
      <4>1. n = None
        BY <1>0, <3>2 DEF Refuse, Reply, Request, n
      <4>2. QED BY <4>1
    <3>3. ~Ready(r) /\ ~Serve(r)
      BY <1>0 DEF Ready, Serve, Reply, Request
    <3>4. QED BY <3>1, <3>2, <3>3 DEF ServerStep
  <2>2. PICK s \in Sessions : /\ server[s] = "unborn"
                              /\ server' = [server EXCEPT ![s] = "opened"]
                              /\ Reply(r, "ok", s)
    BY <2>1 DEF Open
  <2>3. n = s /\ UNCHANGED session
    BY <1>0, <2>1, <2>2 DEF Open, Reply, Request, client, n
  <2>4. server'[n] # "unborn"
    BY <2>2, <2>3 DEF TypeOK
  <2>5. ASSUME NEW k \in Known' PROVE k < n
    <3>1. CASE k = None
      BY <1>0, <3>1 DEF Sessions
    <3>2. CASE k # None
      <4>1. k \in Known /\ k \in Sessions
        BY <1>0, <1>1, <2>3, <2>5, <3>2
      <4>2. server[k] # "unborn"
        BY <3>2, <4>1 DEF Opened
      <4>3. k # s /\ ~(s < k)
        BY <2>2, <4>1, <4>2 DEF Opened
      <4>4. QED BY <2>3, <4>1, <4>3 DEF Sessions
    <3>3. QED BY <3>1, <3>2
  <2>6. QED BY <2>4, <2>5
<1>3. CASE req'[r] = req[r]
  <2>1. /\ req[r].doing = "initialize" /\ At(r, "reply") /\ n = req[r].names
        /\ server[n] # "unborn" /\ \A k \in Known : k < n
    BY <1>3 DEF OfferIsNew, At, n
  <2>2. ASSUME NEW k \in Known' PROVE k < n
    <3>1. CASE k = None
      BY <1>0, <3>1 DEF Sessions
    <3>2. CASE k # None /\ k \notin Known
      <4>1. PICK q \in Requests : Head(q) /\ req[q].doing = "initialize"
        BY <2>2, <3>2, KnownStep
      <4>2. Unadopted(q) /\ Unadopted(r)
        BY <2>1, <4>1 DEF Unadopted, Head, At, Stages
      <4>3. q = r
        BY <4>2, OneHandshake
      <4>4. req'[r].stage # "reply"
        BY <4>1, <4>3, ClientStage DEF ClientStep
      <4>5. QED BY <4>4
    <3>3. QED BY <2>1, <3>1, <3>2
  <2>3. QED BY <1>0, <2>1, <2>2, ServerHistory
<1>4. QED BY <1>2, <1>3, WhoseStep

LEMMA NextForward ==
  ASSUME TypeOK, TypeOK', Opened, Opened', [Next]_vars, ~wentBack', ~wentBack => Forward,
         \A r \in Requests : Confirming(r) /\ LostIsGone(r) /\ OfferIsNew(r)
  PROVE  Forward'
<1>0. /\ session \in Known /\ session' \in Known'
      /\ Known \subseteq Sessions \cup {None} /\ Known' \subseteq Sessions \cup {None}
      /\ session' \in Sessions \cup {None} /\ session \in Sessions \cup {None}
  <2>1. (TypeOK => Known \subseteq Sessions \cup {None})'
    BY KnownType, PTL
  <2>2. session \in Known /\ session' \in Known'
    BY DEF Known
  <2>3. QED BY <2>1, <2>2, KnownType
<1>1. ~wentBack /\ Forward
  <2>1. wentBack => wentBack'
    BY SessionStep
  <2>2. QED BY <2>1
<1>2. \A k \in Known \ {None} : Live(k) \/ Gone(k)
  <2>1. \A k \in Known \ {None} : server[k] \in {"opened", "ready", "gone"}
    BY <1>0 DEF Opened, TypeOK
  <2>2. QED BY <2>1 DEF Live, Gone
<1>3. \A k \in Known : /\ Gone(k) => Gone(k)' /\ ~Live(k)'
                       /\ Live(k)' => Live(k)
  <2>1. ASSUME NEW k \in Known PROVE Live(k)' => Live(k)
    <3>1. CASE k = None
      BY <3>1 DEF Live
    <3>2. CASE k # None
      BY <1>0, <3>2, ServerHistory DEF Opened
    <3>3. QED BY <3>1, <3>2
  <2>2. ASSUME NEW k \in Known, Gone(k) PROVE Gone(k)' /\ ~Live(k)'
    <3>1. k \in Sessions
      BY <1>0, <2>2 DEF Gone
    <3>2. Gone(k)'
      BY <2>2, <3>1, ServerHistory
    <3>3. QED BY <3>2 DEF Gone, Live
  <2>3. QED BY <2>1, <2>2
<1>4. ASSUME NEW q \in Requests, Head(q), req[q].doing = "call",
             session' = req[q].names, session' # None, session' # session
      PROVE  Gone(session') /\ ~Live(session)
  <2>1. session' \in Known
    BY <1>4 DEF Known, Holds
  <2>2. Gone(session')
    BY <1>1, <1>4, <2>1 DEF Forward
  <2>3. ASSUME Live(session) PROVE FALSE
    <3>1. session' <= session
      BY <1>1, <2>1, <2>3 DEF Forward
    <3>2. session' \in 1..(session - 1)
      <4>1. session' \in Nat /\ session \in Nat
        BY <1>0 DEF Sessions
      <4>2. session' # 0
        BY <1>4
      <4>3. QED BY <3>1, <4>1, <4>2, <1>4
    <3>3. wentBack'
      BY <1>4, <3>2 DEF Head
    <3>4. QED BY <3>3
  <2>4. QED BY <2>2, <2>3
<1>5. ASSUME NEW q \in Requests, Head(q), req[q].doing = "initialize"
      PROVE  Unadopted(q) /\ ~Live(session)
  <2>1. Unadopted(q)
    BY <1>5 DEF Head, Unadopted, At, Stages
  <2>2. QED BY <1>1, <2>1 DEF Forward
<1>6. ASSUME NEW q \in Requests, Clear(q) PROVE ~Live(session)
  BY <1>1, <1>6 DEF Forward, Unadopted, Clear
<1>7. session' # session => ~Live(session)
  <2>1. SUFFICES ASSUME session' # session PROVE ~Live(session)
    OBVIOUS
  <2>2. CASE \E q \in Requests : Clear(q)
    BY <1>6, <2>2
  <2>3. ASSUME NEW q \in Requests, Head(q), req[q].names # None,
               req[q].doing # "initialized", session' = req[q].names
        PROVE  ~Live(session)
    <3>1. req[q].doing \in {"call", "initialize"}
      BY <2>3 DEF TypeOK, Request
    <3>2. QED BY <1>4, <1>5, <2>1, <2>3, <3>1
  <2>4. QED BY <2>1, <2>2, <2>3, SessionStep
<1>8. ASSUME NEW k \in Known' \ {None, session'} PROVE Gone(k)'
  <2>1. k \in Known
    BY <1>8, KnownStep
  <2>2. Gone(k)
    BY <1>1, <1>2, <1>7, <1>8, <2>1 DEF Forward
  <2>3. QED BY <1>3, <2>1, <2>2
<1>9. ASSUME Live(session)', NEW k \in Known' PROVE k <= session'
  <2>1. session' # None /\ session' \in Nat
    BY <1>0, <1>9 DEF Live, Sessions
  <2>2. CASE k = None \/ k = session'
    BY <2>1, <2>2
  <2>3. CASE k \in Known /\ session' = session
    <3>1. Live(session)
      BY <1>0, <1>3, <1>9, <2>3 DEF Live
    <3>2. QED BY <1>1, <2>3, <3>1 DEF Forward
  <2>4. CASE k \in Known /\ session' # session
    <3>1. PICK q \in Requests : /\ Head(q) /\ req[q].names # None
                                /\ req[q].doing # "initialized" /\ session' = req[q].names
      BY <2>1, <2>4, SessionStep
    <3>2. CASE req[q].doing = "initialize"
      <4>1. k < session'
        BY <2>4, <3>1, <3>2 DEF OfferIsNew, Head
      <4>2. k \in Nat
        BY <1>0, <2>4 DEF Sessions
      <4>3. QED BY <2>1, <4>1, <4>2
    <3>3. CASE req[q].doing = "call"
      <4>1. Gone(session') /\ session' \in Known
        BY <1>4, <2>1, <2>4, <3>1, <3>3 DEF Known, Holds
      <4>2. ~Live(session)'
        BY <1>3, <4>1 DEF Live
      <4>3. QED BY <1>9, <4>2
    <3>4. QED BY <3>1, <3>2, <3>3 DEF TypeOK, Request
  <2>5. QED BY <2>2, <2>3, <2>4, KnownStep
<1>10. ASSUME NEW r \in Requests, Unadopted(r)', Live(session)' PROVE FALSE
  <2>1. session' # None
    BY <1>10 DEF Live
  <2>2. CASE session' = session
    <3>1. Live(session)
      BY <1>0, <1>3, <1>10, <2>2 DEF Live
    <3>2. ~Unadopted(r)
      BY <1>1, <3>1 DEF Forward
    <3>3. req'[r] # req[r]
      BY <1>10, <3>2 DEF Unadopted, At
    <3>4. At(r, "reinit") /\ session = req[r].seen
      BY <1>10, <3>2, <3>3, WhoseStep, HandshakeBegins
    <3>5. Gone(req[r].sid) /\ req[r].doing = "call"
      BY <3>4 DEF LostIsGone
    <3>6. Gone(session)
      <4>1. CASE req[r].seen = req[r].sid
        BY <3>4, <3>5, <4>1
      <4>2. CASE req[r].seen # req[r].sid
        <5>1. \E stage \in {"wire", "reply", "body", "reinit"} : At(r, stage)
          BY <3>4
        <5>2. QED BY <1>1, <2>1, <2>2, <3>4, <3>5, <4>2, <5>1 DEF Forward, Overtaken
      <4>3. QED BY <4>1, <4>2
    <3>7. QED BY <3>1, <3>6 DEF Gone, Live
  <2>3. CASE session' # session
    <3>1. PICK q \in Requests : /\ Head(q) /\ req[q].names # None
                                /\ req[q].doing # "initialized" /\ session' = req[q].names
      BY <2>1, <2>3, SessionStep
    <3>2. CASE req[q].doing = "call"
      <4>1. Gone(session') /\ session' \in Known
        BY <1>4, <2>1, <2>3, <3>1, <3>2 DEF Known, Holds
      <4>2. ~Live(session)'
        BY <1>3, <4>1 DEF Live
      <4>3. QED BY <1>10, <4>2
    <3>3. CASE req[q].doing = "initialize"
      <4>1. Unadopted(q) /\ req' = [req EXCEPT ![q].stage = "body"]
        BY <1>5, <3>1, <3>3 DEF Head, Goto
      <4>2. /\ req'[q].doing = "initialize" /\ req'[q].stage = "body"
        BY <3>3, <4>1 DEF TypeOK, Request
      <4>3. ~Unadopted(q)'
        BY <4>2 DEF Unadopted, At
      <4>4. q # r /\ req'[r] = req[r]
        BY <1>10, <4>1, <4>3 DEF TypeOK
      <4>5. Unadopted(r)
        BY <1>10, <4>4 DEF Unadopted, At
      <4>6. QED BY <4>1, <4>4, <4>5, OneHandshake
    <3>4. QED BY <3>1, <3>2, <3>3 DEF TypeOK, Request
  <2>4. QED BY <2>2, <2>3
<1>11. ASSUME NEW r \in Requests, Overtaken(r)' PROVE Gone(req[r].seen)' /\ req'[r].seen = req[r].seen
  <2>1. req'[r].seen = req[r].seen /\ (Overtaken(r) \/ session # req[r].seen)
    <3>1. CASE ClientStep(r) \/ ServerStep(r)
      BY <1>11, <3>1, OwnOvertaken
    <3>2. CASE req'[r] = req[r]
      BY <1>11, <3>2 DEF Overtaken, At
    <3>3. QED BY <3>1, <3>2, WhoseStep
  <2>2. req[r].seen # None /\ req[r].seen \in Known
    BY <1>11, <2>1 DEF Overtaken, Known, Holds
  <2>3. Gone(req[r].seen)
    BY <1>1, <2>1, <2>2 DEF Forward, Overtaken
  <2>4. req[r].seen \in Sessions
    BY <1>0, <2>2
  <2>5. server'[req[r].seen] = "gone"
    BY <2>3, <2>4, ServerHistory DEF Gone
  <2>6. QED BY <2>1, <2>2, <2>5 DEF Gone
<1>12. \A k \in Known' \ {None, session'} : Gone(k)'
  BY <1>8
<1>13. Live(session)' => \A k \in Known' : k <= session'
  BY <1>9
<1>14. \A r \in Requests : Unadopted(r)' => ~Live(session)'
  BY <1>10
<1>15. \A r \in Requests : Overtaken(r)' => Gone(req[r].seen)'
  BY <1>11
<1>16. QED BY <1>12, <1>13, <1>14, <1>15 DEF Forward, Overtaken

(* No session is lost but by a failed handshake, whose record stays.       *)
LEMMA NextSessionless ==
  ASSUME TypeOK, [Next]_vars, SessionlessAfterFailureOnly,
         \A r \in Requests : Confirming(r) /\ OfferIsNew(r)
  PROVE  SessionlessAfterFailureOnly'
<1> USE DEF client, oauth, remote, At
<1> SUFFICES ASSUME session' = None
             PROVE  \E r \in Requests : \/ req'[r].doing = "initialize" /\ reinit' = r
                                        \/ req'[r].doing # "call" /\ req'[r].stage = "failed"
  BY DEF SessionlessAfterFailureOnly
<1>1. CASE \E r \in Requests : Clear(r)
  <2>1. PICK r \in Requests : Clear(r)
    BY <1>1
  <2>2. reinit' = r
    BY <2>1 DEF Clear, TypeOK, Handshaking
  <2>3. req'[r].doing = "initialize"
    BY <2>1 DEF Clear, Posting, NewRequest, TypeOK
  <2>4. QED BY <2>2, <2>3
<1>2. CASE session = None
  <2>1. PICK r \in Requests : \/ req[r].doing = "initialize" /\ reinit = r
                              \/ req[r].doing # "call" /\ At(r, "failed")
    BY <1>2 DEF SessionlessAfterFailureOnly
  <2>2. CASE ClientStep(r) \/ ServerStep(r)
    <3>0. DOMAIN req = Requests /\ req[r] \in Request
      BY DEF TypeOK
    <3>1. ~At(r, "failed")
      BY <2>2
      DEF ClientStep, ServerStep, Begin, Bearer, FetchLock, Fetched, FetchFails, Had, Post,
          PostFails, Head, Body, Reinit, Clear, Refuse, Open, Ready, Serve
    <3>2. req[r].doing = "initialize" /\ reinit = r
      BY <2>1, <3>1
    <3>3. CASE Abort(r)
      <4>1. req'[r].stage = "failed" /\ req'[r].doing = "initialize"
        BY <3>0, <3>2, <3>3 DEF Abort, Ended, NewRequest
      <4>2. QED BY <4>1
    <3>4. CASE Body(r) /\ ~Abort(r)
      <4>1. req[r].reply = "ok"
        BY <3>2, <3>4 DEF Body, Expired
      <4>2. QED BY <1>2, <3>2, <3>4, <4>1 DEF Body, Confirming
    <3>5. CASE Begin(r) \/ Clear(r) \/ Reinit(r)
      <4>1. ~Begin(r)
        BY <3>2 DEF Begin, TypeOK
      <4>2. ~Reinit(r)
        BY <3>2, SomeBody DEF Reinit, ReinitFree
      <4>3. QED BY <1>1, <3>5, <4>1, <4>2
    <3>6. CASE ~Abort(r) /\ (Head(r) \/ Had(r) \/ Post(r) \/ Bearer(r) \/ FetchLock(r) \/ Fetched(r))
      <4>1. req'[r].doing = req[r].doing /\ UNCHANGED reinit
        BY <3>0, <3>2, <3>6
        DEF Head, Had, Post, Bearer, FetchLock, Fetched, WithBearer, Goto, Request
      <4>2. QED BY <3>2, <4>1
    <3>7. CASE ServerStep(r)
      <4>1. req'[r].doing = req[r].doing /\ UNCHANGED reinit
        BY <3>0, <3>7 DEF ServerStep, Refuse, Open, Ready, Serve, Reply, Request
      <4>2. QED BY <3>2, <4>1
    <3>8. QED
      BY <2>2, <3>3, <3>4, <3>5, <3>6, <3>7 DEF ClientStep, FetchFails, PostFails
  <2>3. CASE req'[r] = req[r]
    <3>1. CASE req[r].doing # "call" /\ At(r, "failed")
      BY <2>3, <3>1
    <3>2. CASE req[r].doing = "initialize" /\ reinit = r /\ ~At(r, "failed")
      <4>1. TypeOK'
        BY NextType
      <4>2. Handshaking(r)'
        BY <2>3, <3>2 DEF Handshaking
      <4>3. reinit' = r
        BY <4>1, <4>2 DEF TypeOK
      <4>4. QED BY <2>3, <3>2, <4>3
    <3>3. QED BY <2>1, <3>1, <3>2
  <2>4. QED BY <2>2, <2>3, WhoseStep
<1>3. CASE session # None
  BY <1>1, <1>3, SessionStays
<1>4. QED BY <1>2, <1>3

(* No session is lost but by a failure, and no live one is dropped: the    *)
(* holder of the re-handshake lock looks again whether the session it saw  *)
(* is still the current one (reinitialize), and without a late reply that  *)
(* puts an older session back the current one is the newest.               *)
THEOREM SessionIsKept == Spec => []SessionKept
<1> DEFINE Inv == /\ \A r \in Requests : Confirming(r) /\ LostIsGone(r) /\ OfferIsNew(r)
                  /\ Opened
                  /\ ~wentBack => Forward
                  /\ SessionlessAfterFailureOnly
<1>1. Init => Inv
  <2> SUFFICES ASSUME Init PROVE Inv
    OBVIOUS
  <2>1. ASSUME NEW r \in Requests
        PROVE  /\ req[r].doing = "call" /\ req[r].stage = "new" /\ req[r].reply = "none"
               /\ Holds(r) = {None}
    BY DEF Init, NewRequest, Holds
  <2>2. Known \subseteq {1, None}
    BY <2>1 DEF Known, Init
  <2>3. \A r \in Requests : Confirming(r) /\ LostIsGone(r) /\ OfferIsNew(r)
    BY <2>1 DEF Confirming, LostIsGone, OfferIsNew, At
  <2>4. Opened
    BY <2>2, HttpAssumption DEF Init, Opened, Sessions
  <2>5. Forward
    BY <2>1, <2>2 DEF Init, Forward, Unadopted, Overtaken, At
  <2>6. SessionlessAfterFailureOnly
    BY DEF Init, SessionlessAfterFailureOnly
  <2>7. QED BY <2>3, <2>4, <2>5, <2>6
<1>2. TypeOK /\ Inv /\ [Next]_vars => Inv'
  <2> SUFFICES ASSUME TypeOK, Inv, [Next]_vars PROVE Inv'
    OBVIOUS
  <2>1. TypeOK' /\ Opened' /\ SessionlessAfterFailureOnly'
    BY NextType, NextOpened, NextSessionless
  <2>2. ~wentBack' => Forward'
    BY <2>1, NextForward
  <2>3. ASSUME NEW r \in Requests PROVE Confirming(r)'
    <3>1. CASE ClientStep(r) \/ ServerStep(r)
      BY <3>1, OwnConfirming
    <3>2. CASE req'[r] = req[r]
      BY <3>2, OtherConfirming
    <3>3. QED BY <3>1, <3>2, WhoseStep
  <2>4. ASSUME NEW r \in Requests PROVE LostIsGone(r)' /\ OfferIsNew(r)'
    BY <2>1, NextLost, NextOffer
  <2>5. QED BY <2>1, <2>2, <2>3, <2>4
<1>3. Inv => SessionKept
  <2> SUFFICES ASSUME Inv PROVE LiveSessionKept
    BY DEF SessionKept
  <2>1. QED BY DEF LiveSessionKept, Forward, Unadopted
<1> HIDE DEF Inv
<1>4. QED BY <1>1, <1>2, <1>3, TypeCorrect, PTL DEF Spec
=============================================================================
