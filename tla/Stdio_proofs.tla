---------------------------- MODULE Stdio_proofs ----------------------------
(***************************************************************************)
(* Proofs about Stdio, for any requests, children, pings and pipe sizes:   *)
(* the pending map and the requests in flight agree, a running child is    *)
(* never replaced, and the transport implements RpcPromise.                *)
(***************************************************************************)
EXTENDS Stdio, SequenceTheorems, TLAPS

----------------------------------------------------------------------------
(* Types.                                                                  *)

Frame == ({"call", "cancel"} \X Nat \X Requests) \cup {<<"pong", 0, Nobody>>}
Line == ({"reply"} \X Nat \X Requests) \cup {<<"ping", 0, Nobody>>}

Conn ==
  [dead : BOOLEAN, lastId : Nat, pending : SUBSET (Nat \X Requests),
   writer : Requests \cup {Nobody, Reader}, stdin : Seq(Frame), stdout : Seq(Line),
   child : {"up", "mute", "gone"}, owed : SUBSET (Nat \X Requests), pings : Nat,
   reader : {"read", "lock", "write", "drain", "done"}]

Request ==
  [stage : Stages, on : Nat, id : Nat, slot : Requests \cup {Empty, Dropped}]

TypeOK ==
  /\ req \in [Requests -> Request]
  /\ \A r \in Requests : IF req[r].stage = "new" THEN req[r].on = 0 ELSE req[r].on \in Conns
  /\ conn \in Seq(Conn) /\ conn # <<>>
  /\ spawning \in Requests \cup {Nobody}
  /\ recent \in BOOLEAN
  /\ carried \in [Requests -> Nat]

----------------------------------------------------------------------------
(* Ids.                                                                    *)

(* Before a request is in the pending map.                                 *)
Early == {"new", "respawn", "spawning", "insert"}

(* A request has an id from the time it is in the pending map, and keeps   *)
(* it; a connection gives each id once.                                    *)
IdsUnique ==
  /\ \A r \in Requests : req[r].id # 0 => req[r].id <= conn[req[r].on].lastId
  /\ \A r, q \in Requests :
       req[r].id # 0 /\ req[r].id = req[q].id /\ req[r].on = req[q].on => r = q
  /\ \A r \in Requests :
       req[r].stage \in Early <=> req[r].id = 0 /\ req[r].stage # "failed"

(* Request q has this id on connection c.                                  *)
Tagged(c, id, q) == id # 0 /\ req[q].on = c /\ req[q].id = id

(* What is on its way to the child and back on connection c bears the id   *)
(* of the request it is about.  A call is in the pipe once and has not     *)
(* been carried out; one that is answered has been.                        *)
Unread(c, id, q) ==
  Tagged(c, id, q) /\ carried[q] = 0 /\ req[q].stage \notin {"lock", "write"}
Answering(c, id, q) == Tagged(c, id, q) /\ carried[q] = 1

(* Frame i of this pipe is a call.                                         *)
Calls(s, i) == i \in 1..Len(s) /\ s[i][1] = "call"

InTransit(c) ==
  /\ \A i \in 1..Len(conn[c].stdin) :
       Calls(conn[c].stdin, i) => Unread(c, conn[c].stdin[i][2], conn[c].stdin[i][3])
  /\ \A i, j \in 1..Len(conn[c].stdin) :
       /\ Calls(conn[c].stdin, i) /\ Calls(conn[c].stdin, j)
       /\ conn[c].stdin[i][3] = conn[c].stdin[j][3]
       => i = j
  /\ \A p \in conn[c].owed : Answering(c, p[1], p[2])
  /\ \A i \in 1..Len(conn[c].stdout) :
       conn[c].stdout[i][1] = "reply" =>
         Answering(c, conn[c].stdout[i][2], conn[c].stdout[i][3])

(* A request is carried out once at most, and not before it is written; it *)
(* hears of itself or of nothing.                                          *)
Outcome(r) ==
  /\ carried[r] \in {0, 1}
  /\ req[r].stage \in {"lock", "write"} \/ req[r].id = 0 => carried[r] = 0
  /\ req[r].slot \in Requests => req[r].slot = r /\ carried[r] = 1
  /\ req[r].stage = "answered" => req[r].slot = r

Exchanges ==
  /\ IdsUnique
  /\ \A c \in Conns : InTransit(c)
  /\ \A r \in Requests : Outcome(r)

(* The pending map of a connection holds the requests that were written to *)
(* it, or are about to be, and have heard nothing.                         *)
Expecting(c, id, q) ==
  /\ req[q].on = c /\ req[q].id = id
  /\ req[q].stage \in {"lock", "write", "check", "wait"} /\ req[q].slot = Empty

PendingIs ==
  \A c \in Conns : \A id \in Nat, q \in Requests :
    <<id, q>> \in conn[c].pending <=> Expecting(c, id, q)

(* Nobody hears anything before it has an id; one that waits and has heard *)
(* nothing has a reader; a reader that goes on to drain has marked its     *)
(* connection dead.                                                        *)
Expected ==
  /\ PendingIs
  /\ \A r \in Requests :
       /\ req[r].id = 0 => req[r].slot = Empty
       /\ req[r].stage = "wait" /\ req[r].slot = Empty => conn[req[r].on].reader # "done"
  /\ \A c \in Conns : conn[c].reader \in {"drain", "done"} => conn[c].dead

(* All but the last connection are dead, and that one too while somebody   *)
(* spawns the next.                                                        *)
Succession ==
  /\ \A c \in Conns : c # Len(conn) => conn[c].dead
  /\ spawning # Nobody => conn[Len(conn)].dead
  /\ \A r \in Requests : req[r].stage = "spawning" => spawning = r

----------------------------------------------------------------------------
(* Helpers.                                                                *)

With(f, c, k) == [f EXCEPT ![c] = k]

(* What replacing one connection leaves.                                   *)
LEMMA WithIs ==
  ASSUME NEW f \in Seq(Conn), NEW c \in 1..Len(f), NEW k \in Conn
  PROVE  /\ With(f, c, k) \in Seq(Conn)
         /\ Len(With(f, c, k)) = Len(f)
         /\ With(f, c, k) # <<>>
         /\ With(f, c, k)[c] = k
         /\ \A d \in 1..Len(f) : d # c => With(f, c, k)[d] = f[d]
<1>1. /\ With(f, c, k) \in Seq(Conn)
      /\ Len(With(f, c, k)) = Len(f)
  BY ExceptSeq DEF With
<1>2. DOMAIN f = 1..Len(f)
  BY LenProperties
<1>3. With(f, c, k) # <<>>
  BY <1>1, EmptySeq
<1>4. QED BY <1>1, <1>2, <1>3 DEF With

(* The types of a connection and of a request of a state.                  *)
LEMMA Typed ==
  ASSUME TypeOK
  PROVE  /\ \A c \in Conns : conn[c] \in Conn /\ c \in Nat /\ c # 0
         /\ DOMAIN conn = Conns
         /\ Len(conn) \in Nat /\ Len(conn) \in Conns
         /\ \A r \in Requests : req[r] \in Request /\ r \in Nat /\ r # 0
         /\ DOMAIN req = Requests
<1>1. conn \in Seq(Conn) /\ Len(conn) \in Nat /\ Len(conn) # 0 /\ DOMAIN conn = Conns
  BY LenProperties, EmptySeq DEF TypeOK, Conns
<1>2. \A c \in Conns : conn[c] \in Conn
  BY <1>1, ElementOfSeq DEF Conns
<1>3. QED BY <1>1, <1>2, StdioAssumption DEF TypeOK, Conns

(* What a request's own step does to its stage.                            *)
LEMMA StepStages ==
  ASSUME TypeOK, NEW r \in Requests
  PROVE  /\ Connect(r) => req[r].stage = "new" /\ req'[r].stage \in {"respawn", "insert"}
         /\ Respawn(r) => /\ req[r].stage = "respawn"
                          /\ req'[r].stage \in {"insert", "failed", "spawning"}
         /\ SpawnOk(r) => req[r].stage = "spawning" /\ req'[r].stage = "insert"
         /\ SpawnFails(r) => req[r].stage = "spawning" /\ req'[r].stage = "failed"
         /\ Insert(r) => req[r].stage = "insert" /\ req'[r].stage = "lock"
         /\ LockWriter(r) => req[r].stage = "lock" /\ req'[r].stage = "write"
         /\ WriteFrame(r) => req[r].stage = "write" /\ req'[r].stage = "check"
         /\ WriteFails(r) => req[r].stage = "write" /\ req'[r].stage = "failed"
         /\ CheckDead(r) => req[r].stage = "check" /\ req'[r].stage \in {"wait", "failed"}
         /\ Wake(r) => req[r].stage = "wait" /\ req'[r].stage \in {"answered", "failed"}
         /\ TimeOut(r) => req[r].stage = "wait" /\ req'[r].stage = "cancel"
         /\ Cancel(r) => req[r].stage = "cancel" /\ req'[r].stage = "failed"
<1>0. r \in DOMAIN req /\ req[r] \in Request
  BY Typed
<1>1. \A stage : Goto(r, stage) => req'[r].stage = stage
  BY <1>0 DEF Goto, Request
<1>2. Connect(r) => req[r].stage = "new" /\ req'[r].stage \in {"respawn", "insert"}
  BY <1>0 DEF Connect, Request
<1>3. Respawn(r) => /\ req[r].stage = "respawn"
                    /\ req'[r].stage \in {"insert", "failed", "spawning"}
  BY <1>0, <1>1 DEF Respawn, Request
<1>4. SpawnOk(r) => req[r].stage = "spawning" /\ req'[r].stage = "insert"
  BY <1>0 DEF SpawnOk, Request
<1>5. Insert(r) => req[r].stage = "insert" /\ req'[r].stage = "lock"
  BY <1>0 DEF Insert, Request
<1>6. /\ SpawnFails(r) => req[r].stage = "spawning" /\ req'[r].stage = "failed"
      /\ LockWriter(r) => req[r].stage = "lock" /\ req'[r].stage = "write"
      /\ WriteFrame(r) => req[r].stage = "write" /\ req'[r].stage = "check"
      /\ WriteFails(r) => req[r].stage = "write" /\ req'[r].stage = "failed"
  BY <1>1 DEF SpawnFails, LockWriter, WriteFrame, WriteFails
<1>7. /\ CheckDead(r) => req[r].stage = "check" /\ req'[r].stage \in {"wait", "failed"}
      /\ Wake(r) => req[r].stage = "wait" /\ req'[r].stage \in {"answered", "failed"}
      /\ TimeOut(r) => req[r].stage = "wait" /\ req'[r].stage = "cancel"
      /\ Cancel(r) => req[r].stage = "cancel" /\ req'[r].stage = "failed"
  BY <1>1 DEF CheckDead, Wake, TimeOut, Cancel
<1>8. QED BY <1>2, <1>3, <1>4, <1>5, <1>6, <1>7

(* The connection each step leaves in the place of connection c.           *)
Replaced(c, k) == c \in Conns /\ k \in Conn /\ conn' = With(conn, c, k)

Inserted(c, r) ==
  [conn[c] EXCEPT !.lastId = NextId(c),
                  !.pending = {p \in conn[c].pending : p[1] # NextId(c)}
                                \cup {<<NextId(c), r>>}]
Locked(c, r) == [conn[c] EXCEPT !.writer = r]
Written(c, r) ==
  [conn[c] EXCEPT !.stdin = Append(conn[c].stdin, <<"call", req[r].id, r>>),
                  !.writer = Nobody]
Broken(c, r) ==
  [conn[c] EXCEPT !.pending = Forget(c, req[r].id), !.dead = TRUE, !.writer = Nobody]
Forgotten(c, r) == [conn[c] EXCEPT !.pending = Forget(c, req[r].id)]
Cancelled(c, r) ==
  [conn[c] EXCEPT !.stdin = Append(conn[c].stdin, <<"cancel", req[r].id, r>>)]
Addressees(c) ==
  LET line == Head(conn[c].stdout)
  IN  IF line[1] = "reply" THEN Route(c, line[2]) ELSE {}
Taken(c) ==
  [conn[c] EXCEPT !.stdout = Tail(conn[c].stdout),
                  !.pending = conn[c].pending \ Addressees(c),
                  !.reader = IF Head(conn[c].stdout)[1] = "ping" THEN "lock" ELSE "read"]
ReaderLocked(c) == [conn[c] EXCEPT !.writer = Reader, !.reader = "write"]
ReaderBroken(c) ==
  [conn[c] EXCEPT !.writer = Nobody, !.dead = TRUE, !.reader = "drain"]
Ponged(c) ==
  [conn[c] EXCEPT !.writer = Nobody, !.reader = "read",
                  !.stdin = Append(conn[c].stdin, <<"pong", 0, Nobody>>)]
AtEof(c) == [conn[c] EXCEPT !.dead = TRUE, !.reader = "drain"]
Drained(c) == [conn[c] EXCEPT !.pending = {}, !.reader = "done"]
OwedAfter(c) ==
  LET frame == Head(conn[c].stdin)
  IN  CASE conn[c].child = "mute" -> {}
        [] frame[1] = "call"   -> conn[c].owed \cup {<<frame[2], frame[3]>>}
        [] frame[1] = "cancel" -> {p \in conn[c].owed : p[1] # frame[2]}
        [] OTHER               -> conn[c].owed
Consumed(c) == [conn[c] EXCEPT !.stdin = Tail(conn[c].stdin), !.owed = OwedAfter(c)]
Replied(c, p) ==
  [conn[c] EXCEPT !.owed = conn[c].owed \ {p},
                  !.stdout = Append(conn[c].stdout, <<"reply", p[1], p[2]>>)]
Pinged(c) ==
  [conn[c] EXCEPT !.pings = conn[c].pings + 1,
                  !.stdout = Append(conn[c].stdout, <<"ping", 0, Nobody>>)]
Muted(c) == [conn[c] EXCEPT !.child = "mute", !.owed = {}]
Exited(c) == [conn[c] EXCEPT !.child = "gone", !.owed = {}, !.stdin = <<>>]

(* The steps of a request.                                                 *)
LEMMA CallerConn ==
  ASSUME TypeOK, NEW r \in Requests, NEW c, c = req[r].on
  PROVE  /\ Insert(r) => Replaced(c, Inserted(c, r))
         /\ LockWriter(r) => Replaced(c, Locked(c, r))
         /\ WriteFrame(r) => Replaced(c, Written(c, r))
         /\ WriteFails(r) => Replaced(c, Broken(c, r))
         /\ CheckDead(r) => conn' = conn \/ Replaced(c, Forgotten(c, r))
         /\ TimeOut(r) => Replaced(c, Forgotten(c, r))
         /\ Cancel(r) => conn' = conn \/ Replaced(c, Cancelled(c, r))
<1>1. req[r] \in Request /\ conn \in Seq(Conn)
  BY Typed DEF TypeOK
<1>2. \A stage \in Stages \ {"new"} : req[r].stage = stage => c \in Conns /\ conn[c] \in Conn
  BY Typed DEF TypeOK
<1>3. Insert(r) => Replaced(c, Inserted(c, r))
  <2> SUFFICES ASSUME Insert(r) PROVE Replaced(c, Inserted(c, r))
    OBVIOUS
  <2>1. c \in Conns /\ conn[c] \in Conn
    BY <1>2 DEF Insert, Stages
  <2>2. NextId(c) \in Nat
    BY <2>1, SMTT(20) DEF NextId, Conn
  <2>3. Inserted(c, r) \in Conn
    <3>1. {p \in conn[c].pending : p[1] # NextId(c)} \cup {<<NextId(c), r>>}
            \in SUBSET (Nat \X Requests)
      BY <2>1, <2>2, SMTT(20) DEF Conn
    <3>2. QED BY <2>1, <2>2, <3>1 DEF Inserted, Conn
  <2>4. QED BY <2>1, <2>3, <1>1, Typed DEF Insert, Replaced, Inserted, With
<1>4. LockWriter(r) => Replaced(c, Locked(c, r))
  BY <1>1, <1>2, Typed DEF LockWriter, Replaced, Locked, With, Conn, Stages
<1>5. WriteFrame(r) => Replaced(c, Written(c, r))
  <2> SUFFICES ASSUME WriteFrame(r) PROVE Replaced(c, Written(c, r))
    OBVIOUS
  <2>1. c \in Conns /\ conn[c] \in Conn
    BY <1>2 DEF WriteFrame, Stages
  <2>2. <<"call", req[r].id, r>> \in Frame
    BY <1>1 DEF Frame, Request
  <2>3. Append(conn[c].stdin, <<"call", req[r].id, r>>) \in Seq(Frame)
    BY <2>1, <2>2, AppendProperties DEF Conn
  <2>4. QED BY <2>1, <2>3, <1>1, Typed DEF WriteFrame, Replaced, Written, With, Conn
<1>6. WriteFails(r) => Replaced(c, Broken(c, r))
  BY <1>1, <1>2, Typed, ZenonT(40) DEF WriteFails, Forget, Replaced, Broken, With, Conn, Stages
<1>7. \A stage \in Stages \ {"new"} : req[r].stage = stage => Forgotten(c, r) \in Conn
  BY <1>2 DEF Forgotten, Forget, Conn
<1>8. CheckDead(r) => conn' = conn \/ Replaced(c, Forgotten(c, r))
  BY <1>2, <1>7, Typed DEF CheckDead, Forgotten, Replaced, With, Stages
<1>9. TimeOut(r) => Replaced(c, Forgotten(c, r))
  BY <1>2, <1>7, Typed DEF TimeOut, ForgetOnTimeout, Forgotten, Replaced, With, Stages
<1>10. Cancel(r) => conn' = conn \/ Replaced(c, Cancelled(c, r))
  <2> SUFFICES ASSUME Cancel(r), conn' # conn PROVE Replaced(c, Cancelled(c, r))
    OBVIOUS
  <2>1. c \in Conns /\ conn[c] \in Conn
    BY <1>2 DEF Cancel, Stages
  <2>2. <<"cancel", req[r].id, r>> \in Frame
    BY <1>1 DEF Frame, Request
  <2>3. Append(conn[c].stdin, <<"cancel", req[r].id, r>>) \in Seq(Frame)
    BY <2>1, <2>2, AppendProperties DEF Conn
  <2>4. QED BY <2>1, <2>3, <1>1, Typed DEF Cancel, Replaced, Cancelled, With, Conn
<1>11. QED BY <1>3, <1>4, <1>5, <1>6, <1>8, <1>9, <1>10

(* Those of the reader.                                                    *)
LEMMA ReaderConn ==
  ASSUME TypeOK, NEW c \in Conns
  PROVE  /\ ReadLine(c) => Replaced(c, Taken(c))
         /\ ReaderLock(c) => Replaced(c, ReaderLocked(c))
         /\ ReaderWrite(c) => Replaced(c, ReaderBroken(c)) \/ Replaced(c, Ponged(c))
         /\ ReaderEof(c) => Replaced(c, AtEof(c))
         /\ Drain(c) => Replaced(c, Drained(c))
<1>1. conn[c] \in Conn
  BY Typed
<1>2. ReadLine(c) => Replaced(c, Taken(c))
  <2> SUFFICES ASSUME ReadLine(c) PROVE Replaced(c, Taken(c))
    OBVIOUS
  <2>1. Tail(conn[c].stdout) \in Seq(Line)
    BY <1>1, HeadTailProperties DEF ReadLine, Conn
  <2>2. Taken(c) \in Conn
    BY <1>1, <2>1 DEF Taken, Addressees, Route, Conn
  <2>3. QED BY <2>2, <1>1, Typed DEF ReadLine, Replaced, Taken, Addressees, With
<1>3. ReaderLock(c) => Replaced(c, ReaderLocked(c))
  BY <1>1, Typed DEF ReaderLock, Replaced, ReaderLocked, With, Conn
<1>4. ReaderWrite(c) => Replaced(c, ReaderBroken(c)) \/ Replaced(c, Ponged(c))
  <2>1. Append(conn[c].stdin, <<"pong", 0, Nobody>>) \in Seq(Frame)
    BY <1>1, AppendProperties DEF Conn, Frame
  <2>2. ReaderBroken(c) \in Conn /\ Ponged(c) \in Conn
    BY <1>1, <2>1 DEF ReaderBroken, Ponged, Conn
  <2>3. QED BY <2>2, <1>1, Typed DEF ReaderWrite, Replaced, ReaderBroken, Ponged, With
<1>5. ReaderEof(c) => Replaced(c, AtEof(c))
  BY <1>1, Typed DEF ReaderEof, Replaced, AtEof, With, Conn
<1>6. Drain(c) => Replaced(c, Drained(c))
  BY <1>1, Typed DEF Drain, Replaced, Drained, With, Conn
<1>7. QED BY <1>2, <1>3, <1>4, <1>5, <1>6

(* And those of the child.                                                 *)
LEMMA ChildConn ==
  ASSUME TypeOK, NEW c \in Conns
  PROVE  /\ ChildRead(c) => Replaced(c, Consumed(c))
         /\ ChildReply(c) => \E p \in conn[c].owed : Replaced(c, Replied(c, p))
         /\ ChildPing(c) => Replaced(c, Pinged(c))
         /\ ChildMute(c) => Replaced(c, Muted(c))
         /\ ChildExit(c) => Replaced(c, Exited(c))
<1>1. conn[c] \in Conn
  BY Typed
<1>2. ChildRead(c) => Replaced(c, Consumed(c))
  <2> SUFFICES ASSUME ChildRead(c) PROVE Replaced(c, Consumed(c))
    OBVIOUS
  <2>1. Tail(conn[c].stdin) \in Seq(Frame) /\ Head(conn[c].stdin) \in Frame
    BY <1>1, HeadTailProperties DEF ChildRead, Conn
  <2>2. OwedAfter(c) \in SUBSET (Nat \X Requests)
    <3>1. LET frame == Head(conn[c].stdin)
          IN  frame[1] = "call" => <<frame[2], frame[3]>> \in Nat \X Requests
      BY <2>1 DEF Frame
    <3>2. QED BY <1>1, <3>1 DEF OwedAfter, Conn
  <2>3. Consumed(c) \in Conn
    BY <1>1, <2>1, <2>2 DEF Consumed, Conn
  <2>4. conn' = [conn EXCEPT ![c].stdin = Tail(conn[c].stdin), ![c].owed = OwedAfter(c)]
    BY DEF ChildRead, OwedAfter
  <2>5. QED BY <2>3, <2>4, <1>1, Typed DEF Replaced, Consumed, With
<1>3. ChildReply(c) => \E p \in conn[c].owed : Replaced(c, Replied(c, p))
  <2> SUFFICES ASSUME ChildReply(c) PROVE \E p \in conn[c].owed : Replaced(c, Replied(c, p))
    OBVIOUS
  <2>1. PICK p \in conn[c].owed :
          conn' = [conn EXCEPT ![c].owed = @ \ {p},
                               ![c].stdout = Append(@, <<"reply", p[1], p[2]>>)]
    BY DEF ChildReply
  <2>2. <<"reply", p[1], p[2]>> \in Line
    <3>1. p \in Nat \X Requests
      BY <1>1 DEF Conn
    <3>2. QED BY <3>1 DEF Line
  <2>3. Append(conn[c].stdout, <<"reply", p[1], p[2]>>) \in Seq(Line)
    BY <1>1, <2>2, AppendProperties DEF Conn
  <2>4. Replied(c, p) \in Conn
    BY <1>1, <2>3 DEF Replied, Conn
  <2>5. QED BY <2>1, <2>4, <1>1, Typed DEF Replaced, Replied, With
<1>4. ChildPing(c) => Replaced(c, Pinged(c))
  <2>1. Append(conn[c].stdout, <<"ping", 0, Nobody>>) \in Seq(Line)
    BY <1>1, AppendProperties DEF Conn, Line
  <2>2. Pinged(c) \in Conn
    <3>1. conn[c].pings + 1 \in Nat
      BY <1>1 DEF Conn
    <3>2. QED BY <1>1, <2>1, <3>1 DEF Pinged, Conn
  <2>3. QED BY <2>2, <1>1, Typed DEF ChildPing, Replaced, Pinged, With
<1>5. ChildMute(c) => Replaced(c, Muted(c))
  BY <1>1, Typed DEF ChildMute, Replaced, Muted, With, Conn
<1>6. ChildExit(c) => Replaced(c, Exited(c))
  <2>1. Exited(c) \in Conn
    BY <1>1, EmptySeq DEF Exited, Conn
  <2>2. QED BY <2>1, <1>1, Typed DEF ChildExit, Replaced, Exited, With
<1>7. QED BY <1>2, <1>3, <1>4, <1>5, <1>6
(* A step replaces a connection, starts one, or leaves them all alone.     *)
LEMMA ConnStep ==
  ASSUME TypeOK, [Next]_vars
  PROVE  \/ conn' = conn
         \/ \E c \in Conns : \E k \in Conn : Replaced(c, k)
         \/ conn' = Append(conn, NewConn)
<1>1. ASSUME NEW r \in Requests, Step(r)
      PROVE  \/ conn' = conn
             \/ \E c \in Conns : \E k \in Conn : Replaced(c, k)
             \/ conn' = Append(conn, NewConn)
  <2>1. CASE Connect(r) \/ Respawn(r) \/ SpawnFails(r) \/ Wake(r)
    BY <2>1 DEF Connect, Respawn, SpawnFails, Wake
  <2>2. CASE SpawnOk(r)
    BY <2>2 DEF SpawnOk
  <2>3. QED BY <1>1, <2>1, <2>2, CallerConn DEF Step, Replaced
<1>2. ASSUME NEW c \in Conns, ReaderStep(c)
      PROVE  \E k \in Conn : Replaced(c, k)
  BY <1>2, ReaderConn DEF ReaderStep, Replaced
<1>3. ASSUME NEW c \in Conns,
             ChildRead(c) \/ ChildReply(c) \/ ChildPing(c) \/ ChildMute(c) \/ ChildExit(c)
      PROVE  \E k \in Conn : Replaced(c, k)
  BY <1>3, ChildConn DEF Replaced
<1>4. CASE Cool \/ UNCHANGED vars
  BY <1>4 DEF Cool, vars
<1>5. QED BY <1>1, <1>2, <1>3, <1>4 DEF Next

(* The connections a step keeps, and the ones there are after it.          *)
LEMMA ConnsGrow ==
  ASSUME TypeOK, [Next]_vars
  PROVE  /\ conn' \in Seq(Conn) /\ conn' # <<>>
         /\ Conns \subseteq Conns'
<1>0. conn \in Seq(Conn) /\ Len(conn) \in Nat /\ conn # <<>>
  BY Typed DEF TypeOK
<1>1. CASE conn' = conn
  BY <1>1, <1>0 DEF Conns
<1>2. ASSUME NEW c \in Conns, NEW k \in Conn, Replaced(c, k)
      PROVE  conn' \in Seq(Conn) /\ conn' # <<>> /\ Conns \subseteq Conns'
  BY <1>0, <1>2, WithIs DEF Replaced, Conns
<1>3. CASE conn' = Append(conn, NewConn)
  <2>1. NewConn \in Conn
    BY EmptySeq DEF NewConn, Conn
  <2>2. conn' \in Seq(Conn) /\ Len(conn') = Len(conn) + 1
    BY <1>0, <1>3, <2>1, AppendProperties
  <2>3. conn' # <<>>
    BY <1>0, <2>2, EmptySeq
  <2>4. QED BY <1>0, <2>2, <2>3 DEF Conns
<1>4. QED BY <1>1, <1>2, <1>3, ConnStep

(* A request's own step is the only one of a request that touches it.      *)
LEMMA OthersUntouched ==
  ASSUME TypeOK, NEW r \in Requests, Step(r)
  PROVE  /\ \A q \in Requests \ {r} : req'[q] = req[q]
         /\ DOMAIN req' = Requests
         /\ \E k : req' = [req EXCEPT ![r] = k]
BY Typed DEF Step, Connect, Respawn, SpawnOk, SpawnFails, Insert, LockWriter,
   WriteFrame, WriteFails, CheckDead, Wake, TimeOut, Cancel, Goto

(* The stages a request goes through, and when it gets its id.             *)
LEMMA OwnStep ==
  ASSUME TypeOK, NEW r \in Requests, Step(r)
  PROVE  /\ req'[r] \in Request
         /\ req'[r].slot = req[r].slot
         /\ req'[r].stage # "new" /\ req'[r].on \in Conns'
<1>0. /\ DOMAIN req = Requests
      /\ req[r] \in Request
      /\ Conns \subseteq Conns'
      /\ Len(conn) \in Conns /\ Len(conn) \in Nat
      /\ req[r].stage # "new" => req[r].on \in Conns
  BY Typed, ConnsGrow DEF TypeOK, Next
<1>1. ASSUME NEW stage \in Stages \ {"new"}, Goto(r, stage), req[r].stage # "new"
      PROVE  /\ req'[r] \in Request
             /\ req'[r].slot = req[r].slot
             /\ req'[r].stage # "new" /\ req'[r].on \in Conns'
  BY <1>0, <1>1 DEF Goto, Request
<1>2. CASE Connect(r)
  BY <1>0, <1>2 DEF Connect, Request, Current, Stages
<1>3. CASE Respawn(r)
  <2>1. CASE Recheck
    BY <1>0, <1>3, <2>1 DEF Respawn, Request, Current, Stages
  <2>2. CASE ~Recheck
    BY <1>1, <1>3, <2>2 DEF Respawn, Stages
  <2>3. QED BY <2>1, <2>2
<1>4. CASE SpawnOk(r)
  <2>1. Len(conn) + 1 \in Nat /\ Len(conn) + 1 \in Conns'
    <3>1. NewConn \in Conn /\ conn \in Seq(Conn)
      BY EmptySeq DEF NewConn, Conn, TypeOK
    <3>2. Len(conn') = Len(conn) + 1
      BY <3>1, <1>4, AppendProperties DEF SpawnOk
    <3>3. QED BY <1>0, <3>2 DEF Conns
  <2>2. QED BY <1>0, <1>4, <2>1 DEF SpawnOk, Request, Stages
<1>5. CASE Insert(r)
  <2>1. NextId(req[r].on) \in Nat
    BY <1>0, <1>5, Typed DEF Insert, NextId, Conn
  <2>2. QED BY <1>0, <1>5, <2>1 DEF Insert, Request, Stages
<1>6. CASE SpawnFails(r) \/ LockWriter(r) \/ WriteFrame(r) \/ WriteFails(r) \/ CheckDead(r)
           \/ Wake(r) \/ TimeOut(r) \/ Cancel(r)
  BY <1>6, <1>1 DEF SpawnFails, LockWriter, WriteFrame, WriteFails, CheckDead, Wake,
     TimeOut, Cancel, Stages
<1>7. QED BY <1>2, <1>3, <1>4, <1>5, <1>6 DEF Step

(* What the reader tells the requests.                                     *)
Told(q, slot) == req'[q] = [req[q] EXCEPT !.slot = slot]

LEMMA ReaderTells ==
  ASSUME TypeOK, NEW c \in Conns, ReaderStep(c), NEW q \in Requests
  PROVE  /\ DOMAIN req' = Requests
         /\ \/ req'[q] = req[q]
            \/ /\ ReadLine(c) /\ Head(conn[c].stdout)[1] = "reply"
               /\ <<Head(conn[c].stdout)[2], q>> \in conn[c].pending
               /\ Head(conn[c].stdout) \in {"reply"} \X Nat \X Requests
               /\ Told(q, Head(conn[c].stdout)[3])
            \/ /\ Drain(c)
               /\ \E p \in conn[c].pending : p[2] = q
               /\ Told(q, Dropped)
<1>0. conn[c] \in Conn /\ DOMAIN req = Requests
  BY Typed
<1>1. CASE ReadLine(c)
  <2>1. Head(conn[c].stdout) \in Line
    BY <1>0, <1>1, HeadTailProperties DEF ReadLine, Conn
  <2>2. Head(conn[c].stdout)[1] = "reply" =>
          Head(conn[c].stdout) \in {"reply"} \X Nat \X Requests
    BY <2>1 DEF Line
  <2>3. \A p \in conn[c].pending : p = <<p[1], p[2]>>
    BY <1>0 DEF Conn
  <2>4. QED BY <1>1, <2>2, <2>3 DEF ReadLine, Route, Told
<1>2. CASE Drain(c)
  BY <1>2 DEF Drain, Told
<1>3. CASE ReaderLock(c) \/ ReaderWrite(c) \/ ReaderEof(c)
  BY <1>0, <1>3 DEF ReaderLock, ReaderWrite, ReaderEof
<1>4. QED BY <1>1, <1>2, <1>3 DEF ReaderStep

(* Nobody else says anything to a request.                                 *)
LEMMA ChildSilent ==
  ASSUME NEW c, \/ ChildRead(c) \/ ChildReply(c) \/ ChildPing(c) \/ ChildMute(c)
                \/ ChildExit(c) \/ Cool \/ UNCHANGED vars
  PROVE  req' = req /\ spawning' = spawning
BY DEF ChildRead, ChildReply, ChildPing, ChildMute, ChildExit, Cool, vars

LEMMA TypeStep == TypeOK /\ [Next]_vars => TypeOK'
<1> SUFFICES ASSUME TypeOK, [Next]_vars PROVE TypeOK'
  OBVIOUS
<1>1. conn' \in Seq(Conn) /\ conn' # <<>> /\ Conns \subseteq Conns'
  BY ConnsGrow
<1>2. req \in [Requests -> Request]
  BY DEF TypeOK
<1>3. ASSUME NEW q \in Requests
      PROVE  /\ req'[q] \in Request
             /\ IF req'[q].stage = "new" THEN req'[q].on = 0 ELSE req'[q].on \in Conns'
  <2>0. /\ req[q] \in Request
        /\ IF req[q].stage = "new" THEN req[q].on = 0 ELSE req[q].on \in Conns
    BY DEF TypeOK
  <2>1. CASE Step(q)
    BY <2>1, OwnStep
  <2>2. CASE req'[q] = req[q]
    BY <2>0, <2>2, <1>1
  <2>3. ASSUME NEW slot \in Requests \cup {Dropped}, Told(q, slot)
        PROVE  /\ req'[q] \in Request
               /\ IF req'[q].stage = "new" THEN req'[q].on = 0 ELSE req'[q].on \in Conns'
    BY <2>0, <2>3, <1>1 DEF Told, Request
  <2>4. ASSUME NEW c \in Conns, ReaderStep(c), req'[q] # req[q]
        PROVE  \E slot \in Requests \cup {Dropped} : Told(q, slot)
    <3>1. CASE Told(q, Dropped)
      BY <3>1
    <3>2. CASE /\ Head(conn[c].stdout) \in {"reply"} \X Nat \X Requests
               /\ Told(q, Head(conn[c].stdout)[3])
      <4>1. Head(conn[c].stdout)[3] \in Requests
        BY <3>2
      <4>2. QED BY <3>2, <4>1
    <3>3. QED BY <2>4, <3>1, <3>2, ReaderTells
  <2>5. ASSUME NEW r \in Requests \ {q}, Step(r) PROVE req'[q] = req[q]
    BY <2>5, OthersUntouched
  <2>6. QED BY <2>5, <2>1, <2>2, <2>3, <2>4, ChildSilent DEF Next
<1>4. req' = [q \in Requests |-> req'[q]]
  <2>1. ASSUME NEW r \in Requests, Step(r) PROVE req' = [q \in Requests |-> req'[q]]
    <3>1. PICK k : req' = [req EXCEPT ![r] = k]
      BY <2>1, OthersUntouched
    <3>2. QED BY <1>2, <3>1
  <2>2. ASSUME NEW c \in Conns, ReadLine(c) \/ Drain(c)
        PROVE  req' = [q \in Requests |-> req'[q]]
    BY <2>2 DEF ReadLine, Drain
  <2>3. CASE req' = req
    BY <1>2, <2>3
  <2>4. ASSUME NEW c \in Conns, ReaderStep(c) PROVE req' = req \/ ReadLine(c) \/ Drain(c)
    BY <2>4 DEF ReaderStep, ReaderLock, ReaderWrite, ReaderEof
  <2>5. QED BY <2>1, <2>2, <2>3, <2>4, ChildSilent DEF Next
<1>5. spawning' \in Requests \cup {Nobody} /\ recent' \in BOOLEAN
  <2>1. ASSUME NEW r \in Requests, Step(r)
        PROVE  spawning' \in {spawning, Nobody, r} /\ recent' \in {recent, TRUE}
    BY <2>1 DEF Step, Connect, Respawn, SpawnOk, SpawnFails, Insert, LockWriter,
       WriteFrame, WriteFails, CheckDead, Wake, TimeOut, Cancel
  <2>2. ASSUME NEW c \in Conns, ReaderStep(c)
        PROVE  spawning' = spawning /\ recent' = recent
    BY <2>2 DEF ReaderStep, ReadLine, ReaderLock, ReaderWrite, ReaderEof, Drain
  <2>3. ASSUME NEW c, ChildRead(c) \/ ChildReply(c) \/ ChildPing(c) \/ ChildMute(c) \/ ChildExit(c)
        PROVE  spawning' = spawning /\ recent' = recent
    BY <2>3 DEF ChildRead, ChildReply, ChildPing, ChildMute, ChildExit
  <2>4. CASE Cool \/ UNCHANGED vars
    BY <2>4 DEF Cool, vars, TypeOK
  <2>5. QED BY <2>1, <2>2, <2>3, <2>4 DEF TypeOK, Next
<1>6. carried' \in [Requests -> Nat]
  <2>1. ASSUME NEW c \in Conns, ChildRead(c) PROVE carried' \in [Requests -> Nat]
    <3>1. conn[c] \in Conn /\ Head(conn[c].stdin) \in Frame
      BY <2>1, Typed, HeadTailProperties DEF ChildRead, Conn
    <3> DEFINE q == Head(conn[c].stdin)[3]
    <3>2. carried' = carried \/ (q \in Requests /\ carried' = [carried EXCEPT ![q] = @ + 1])
      BY <2>1, <3>1 DEF ChildRead, Frame
    <3>3. QED BY <3>2 DEF TypeOK
  <2>2. CASE carried' = carried
    BY <2>2 DEF TypeOK
  <2>3. QED BY <2>1, <2>2 DEF Next, Step, Connect, Respawn, SpawnOk, SpawnFails, Insert,
     LockWriter, WriteFrame, WriteFails, CheckDead, Wake, TimeOut, Cancel, ReaderStep,
     ReadLine, ReaderLock, ReaderWrite, ReaderEof, Drain, ChildReply, ChildPing,
     ChildMute, ChildExit, Cool, vars
<1>7. QED BY <1>1, <1>3, <1>4, <1>5, <1>6 DEF TypeOK

(* Every variable keeps its type, in every state the transport reaches.    *)
THEOREM TypeCorrect == Spec => []TypeOK
<1>1. Init => TypeOK
  <2> SUFFICES ASSUME Init PROVE TypeOK
    OBVIOUS
  <2>1. NewConn \in Conn
    BY EmptySeq DEF NewConn, Conn
  <2>2. conn \in Seq(Conn) /\ conn # <<>>
    BY <2>1, EmptySeq DEF Init
  <2>3. QED BY <2>2 DEF Init, TypeOK, NewRequest, Request, Stages
<1>2. QED BY <1>1, TypeStep, PTL DEF Spec

----------------------------------------------------------------------------
(* Which steps change what.                                                *)

LEMMA ReplacedIs ==
  ASSUME TypeOK, NEW c, NEW k, Replaced(c, k)
  PROVE  /\ c \in Conns /\ conn[c] \in Conn /\ k \in Conn
         /\ conn'[c] = k
         /\ \A d \in Conns : d # c => conn'[d] = conn[d]
         /\ Conns' = Conns /\ Len(conn') = Len(conn)
<1>1. c \in Conns /\ k \in Conn /\ conn' = With(conn, c, k) /\ conn \in Seq(Conn)
  BY DEF Replaced, TypeOK
<1>2. c \in 1..Len(conn)
  BY <1>1 DEF Conns
<1>3. /\ Len(conn') = Len(conn)
      /\ conn'[c] = k
      /\ \A d \in 1..Len(conn) : d # c => conn'[d] = conn[d]
  BY <1>1, <1>2, WithIs
<1>4. QED BY <1>1, <1>3, Typed DEF Conns

LEMMA SpawnConn ==
  ASSUME TypeOK, conn' = Append(conn, NewConn)
  PROVE  /\ \A d \in Conns : conn'[d] = conn[d]
         /\ Len(conn') = Len(conn) + 1
         /\ conn'[Len(conn')] = NewConn
         /\ Conns' = Conns \cup {Len(conn')}
<1>1. NewConn \in Conn /\ conn \in Seq(Conn)
  BY EmptySeq DEF NewConn, Conn, TypeOK
<1>2. QED BY <1>1, AppendProperties, Typed DEF Conns

(* The steps that disturb each part of connection d.                       *)
Inserts(d) == \E r \in Requests : req[r].on = d /\ Insert(r)
Forgets(d) ==
  \E r \in Requests : req[r].on = d /\ (WriteFails(r) \/ CheckDead(r) \/ TimeOut(r))
Writes(d) == \E r \in Requests : req[r].on = d /\ (WriteFrame(r) \/ Cancel(r))

Disturbed(d) ==
  /\ \/ conn'[d].lastId = conn[d].lastId
     \/ Inserts(d)
  /\ \/ conn'[d].pending = conn[d].pending
     \/ Inserts(d) \/ Forgets(d) \/ ReadLine(d) \/ Drain(d)
  /\ \/ conn'[d].stdin = conn[d].stdin
     \/ Writes(d) \/ ReaderWrite(d) \/ ChildRead(d) \/ ChildExit(d)
  /\ \/ conn'[d].owed = conn[d].owed
     \/ ChildRead(d) \/ ChildReply(d) \/ ChildMute(d) \/ ChildExit(d)
  /\ \/ conn'[d].stdout = conn[d].stdout
     \/ ReadLine(d) \/ ChildReply(d) \/ ChildPing(d)
  /\ \/ conn'[d].reader = conn[d].reader
     \/ ReaderStep(d)
  /\ conn'[d].dead = conn[d].dead \/ conn'[d].dead

LEMMA Disturbance ==
  ASSUME TypeOK, [Next]_vars, NEW d \in Conns
  PROVE  Disturbed(d)
<1>0. conn[d] \in Conn
  BY Typed
<1>1. CASE conn'[d] = conn[d]
  BY <1>1 DEF Disturbed
<1>2. ASSUME NEW r \in Requests, Step(r), conn'[d] # conn[d]
      PROVE  Disturbed(d)
  <2>1. ~(Connect(r) \/ Respawn(r) \/ SpawnFails(r) \/ Wake(r))
    BY <1>2 DEF Connect, Respawn, SpawnFails, Wake
  <2>2. ~SpawnOk(r)
    BY <1>2, SpawnConn DEF SpawnOk
  <2>3. CASE Insert(r)
    <3>1. Replaced(req[r].on, Inserted(req[r].on, r))
      BY <2>3, CallerConn
    <3>2. d = req[r].on /\ conn'[d] = Inserted(d, r)
      BY <1>2, <3>1, ReplacedIs
    <3>3. QED BY <1>0, <2>3, <3>2 DEF Disturbed, Inserts, Inserted, Conn
  <2>4. CASE LockWriter(r)
    <3>1. Replaced(req[r].on, Locked(req[r].on, r))
      BY <2>4, CallerConn
    <3>2. d = req[r].on /\ conn'[d] = Locked(d, r)
      BY <1>2, <3>1, ReplacedIs
    <3>3. QED BY <1>0, <3>2 DEF Disturbed, Locked, Conn
  <2>5. CASE WriteFrame(r)
    <3>1. Replaced(req[r].on, Written(req[r].on, r))
      BY <2>5, CallerConn
    <3>2. d = req[r].on /\ conn'[d] = Written(d, r)
      BY <1>2, <3>1, ReplacedIs
    <3>3. QED BY <1>0, <2>5, <3>2 DEF Disturbed, Writes, Written, Conn
  <2>6. CASE WriteFails(r)
    <3>1. Replaced(req[r].on, Broken(req[r].on, r))
      BY <2>6, CallerConn
    <3>2. d = req[r].on /\ conn'[d] = Broken(d, r)
      BY <1>2, <3>1, ReplacedIs
    <3>3. QED BY <1>0, <2>6, <3>2 DEF Disturbed, Forgets, Broken, Conn
  <2>7. CASE CheckDead(r) \/ TimeOut(r)
    <3>1. Replaced(req[r].on, Forgotten(req[r].on, r))
      BY <1>2, <2>7, CallerConn
    <3>2. d = req[r].on /\ conn'[d] = Forgotten(d, r)
      BY <1>2, <3>1, ReplacedIs
    <3>3. QED BY <1>0, <2>7, <3>2 DEF Disturbed, Forgets, Forgotten, Conn
  <2>8. CASE Cancel(r)
    <3>1. Replaced(req[r].on, Cancelled(req[r].on, r))
      BY <1>2, <2>8, CallerConn
    <3>2. d = req[r].on /\ conn'[d] = Cancelled(d, r)
      BY <1>2, <3>1, ReplacedIs
    <3>3. QED BY <1>0, <2>8, <3>2 DEF Disturbed, Writes, Cancelled, Conn
  <2>9. QED BY <1>2, <2>1, <2>2, <2>3, <2>4, <2>5, <2>6, <2>7, <2>8 DEF Step
<1>3. ASSUME NEW c \in Conns, ReaderStep(c), conn'[d] # conn[d]
      PROVE  Disturbed(d)
  <2>1. CASE ReadLine(c)
    <3>1. d = c /\ conn'[d] = Taken(d)
      BY <1>3, <2>1, ReaderConn, ReplacedIs
    <3>2. QED BY <1>0, <1>3, <2>1, <3>1 DEF Disturbed, Taken, Conn
  <2>2. CASE ReaderLock(c)
    <3>1. d = c /\ conn'[d] = ReaderLocked(d)
      BY <1>3, <2>2, ReaderConn, ReplacedIs
    <3>2. QED BY <1>0, <1>3, <3>1 DEF Disturbed, ReaderLocked, Conn
  <2>3. CASE ReaderWrite(c)
    <3>1. d = c /\ (conn'[d] = ReaderBroken(d) \/ conn'[d] = Ponged(d))
      BY <1>3, <2>3, ReaderConn, ReplacedIs
    <3>2. QED BY <1>0, <1>3, <2>3, <3>1 DEF Disturbed, ReaderBroken, Ponged, Conn
  <2>4. CASE ReaderEof(c)
    <3>1. d = c /\ conn'[d] = AtEof(d)
      BY <1>3, <2>4, ReaderConn, ReplacedIs
    <3>2. QED BY <1>0, <1>3, <3>1 DEF Disturbed, AtEof, Conn
  <2>5. CASE Drain(c)
    <3>1. d = c /\ conn'[d] = Drained(d)
      BY <1>3, <2>5, ReaderConn, ReplacedIs
    <3>2. QED BY <1>0, <1>3, <2>5, <3>1 DEF Disturbed, Drained, Conn
  <2>6. QED BY <1>3, <2>1, <2>2, <2>3, <2>4, <2>5 DEF ReaderStep
<1>4. ASSUME NEW c \in Conns, conn'[d] # conn[d],
             ChildRead(c) \/ ChildReply(c) \/ ChildPing(c) \/ ChildMute(c) \/ ChildExit(c)
      PROVE  Disturbed(d)
  <2>1. CASE ChildRead(c)
    <3>1. d = c /\ conn'[d] = Consumed(d)
      BY <1>4, <2>1, ChildConn, ReplacedIs
    <3>2. QED BY <1>0, <2>1, <3>1 DEF Disturbed, Consumed, Conn
  <2>2. CASE ChildReply(c)
    <3>1. d = c /\ \E p \in conn[c].owed : conn'[d] = Replied(d, p)
      BY <1>4, <2>2, ChildConn, ReplacedIs
    <3>2. QED BY <1>0, <2>2, <3>1 DEF Disturbed, Replied, Conn
  <2>3. CASE ChildPing(c)
    <3>1. d = c /\ conn'[d] = Pinged(d)
      BY <1>4, <2>3, ChildConn, ReplacedIs
    <3>2. QED BY <1>0, <2>3, <3>1 DEF Disturbed, Pinged, Conn
  <2>4. CASE ChildMute(c)
    <3>1. d = c /\ conn'[d] = Muted(d)
      BY <1>4, <2>4, ChildConn, ReplacedIs
    <3>2. QED BY <1>0, <2>4, <3>1 DEF Disturbed, Muted, Conn
  <2>5. CASE ChildExit(c)
    <3>1. d = c /\ conn'[d] = Exited(d)
      BY <1>4, <2>5, ChildConn, ReplacedIs
    <3>2. QED BY <1>0, <2>5, <3>1 DEF Disturbed, Exited, Conn
  <2>6. QED BY <1>4, <2>1, <2>2, <2>3, <2>4, <2>5
<1>5. CASE Cool \/ UNCHANGED vars
  BY <1>5 DEF Cool, vars, Disturbed
<1>6. QED BY <1>1, <1>2, <1>3, <1>4, <1>5 DEF Next
(* Where a request's record changes.                                       *)
LEMMA RequestStep ==
  ASSUME TypeOK, [Next]_vars, NEW q \in Requests
  PROVE  \/ req'[q] = req[q]
         \/ Step(q)
         \/ \E c \in Conns : ReaderStep(c) /\ \E slot : Told(q, slot)
<1>1. ASSUME NEW r \in Requests, Step(r) PROVE req'[q] = req[q] \/ Step(q)
  BY <1>1, OthersUntouched
<1>2. ASSUME NEW c \in Conns, ReaderStep(c)
      PROVE  req'[q] = req[q] \/ \E slot : Told(q, slot)
  BY <1>2, ReaderTells
<1>3. QED BY <1>1, <1>2, ChildSilent DEF Next

(* A request has one id and one connection for life.                       *)
LEMMA IdStep ==
  ASSUME TypeOK, IdsUnique, [Next]_vars, NEW q \in Requests
  PROVE  /\ \/ req'[q].id = req[q].id /\ (req[q].id # 0 => req'[q].on = req[q].on)
            \/ /\ Insert(q) /\ req[q].on \in Conns
               /\ req'[q].id = NextId(req[q].on) /\ req'[q].on = req[q].on
         /\ req'[q].stage \in Early <=> req'[q].id = 0 /\ req'[q].stage # "failed"
<1>0. /\ DOMAIN req = Requests /\ req[q] \in Request
      /\ req[q].stage \in Early <=> req[q].id = 0 /\ req[q].stage # "failed"
      /\ req[q].stage # "new" => req[q].on \in Conns
  BY Typed DEF IdsUnique, TypeOK
<1>1. CASE req'[q] = req[q]
  BY <1>0, <1>1
<1>2. ASSUME NEW slot, Told(q, slot) PROVE
        /\ req'[q].id = req[q].id /\ req'[q].on = req[q].on
        /\ req'[q].stage = req[q].stage
  BY <1>0, <1>2 DEF Told, Request
<1>3. CASE Step(q)
  <2>1. CASE Connect(q) \/ SpawnOk(q)
    BY <1>0, <2>1 DEF Connect, SpawnOk, Request, Early
  <2>2. CASE Respawn(q)
    BY <1>0, <2>2 DEF Respawn, Goto, Request, Early
  <2>3. CASE Insert(q)
    <3>1. req[q].on \in Conns /\ conn[req[q].on].lastId \in Nat
      BY <1>0, <2>3, Typed DEF Insert, Conn
    <3>2. NextId(req[q].on) # 0
      BY <3>1 DEF NextId
    <3>3. /\ req'[q].id = NextId(req[q].on) /\ req'[q].on = req[q].on
          /\ req'[q].stage = "lock"
      BY <1>0, <2>3 DEF Insert, Request
    <3>4. QED BY <2>3, <3>1, <3>2, <3>3 DEF Early
  <2>4. CASE SpawnFails(q) \/ LockWriter(q) \/ WriteFrame(q) \/ WriteFails(q)
               \/ CheckDead(q) \/ Wake(q) \/ TimeOut(q) \/ Cancel(q)
    BY <1>0, <2>4, SMTT(20) DEF SpawnFails, LockWriter, WriteFrame, WriteFails, CheckDead, Wake,
       TimeOut, Cancel, Goto, Request, Early
  <2>5. QED BY <1>3, <2>1, <2>2, <2>3, <2>4 DEF Step
<1>4. QED BY <1>0, <1>1, <1>2, <1>3, RequestStep

(* Ids grow, on every connection.                                          *)
LEMMA LastIdGrows ==
  ASSUME TypeOK, [Next]_vars, NEW c \in Conns
  PROVE  /\ conn[c].lastId \in Nat /\ conn'[c].lastId \in Nat
         /\ conn[c].lastId <= conn'[c].lastId
         /\ \A r \in Requests : Insert(r) /\ req[r].on = c =>
              conn'[c].lastId = NextId(c) /\ NextId(c) = conn[c].lastId + 1
<1>1. conn[c] \in Conn
  BY Typed
<1>2. ASSUME NEW r \in Requests, Insert(r), req[r].on = c
      PROVE  conn'[c].lastId = NextId(c) /\ NextId(c) = conn[c].lastId + 1
  <2>1. conn'[c] = Inserted(c, r)
    BY <1>2, CallerConn, ReplacedIs
  <2>2. QED BY <1>1, <2>1 DEF Inserted, Conn, NextId
<1>3. QED BY <1>1, <1>2, Disturbance DEF Disturbed, Inserts, Conn

LEMMA InsertTags ==
  ASSUME TypeOK, NEW r \in Requests, Insert(r)
  PROVE  /\ req[r].on \in Conns
         /\ req'[r] = [req[r] EXCEPT !.stage = "lock", !.id = NextId(req[r].on)]
         /\ req'[r].id = NextId(req[r].on) /\ req'[r].on = req[r].on
         /\ req'[r].stage = "lock" /\ req[r].stage = "insert"
         /\ req'[r].slot = req[r].slot
BY Typed DEF Insert, TypeOK, Request

LEMMA IdsStep == TypeOK /\ IdsUnique /\ [Next]_vars => IdsUnique'
<1> SUFFICES ASSUME TypeOK, IdsUnique, [Next]_vars PROVE IdsUnique'
  OBVIOUS
<1>1. ASSUME NEW r \in Requests, req'[r].id # 0
      PROVE  req'[r].id <= conn'[req'[r].on].lastId
  <2>1. CASE req'[r].id = req[r].id /\ req'[r].on = req[r].on
    <3>1. req[r].on \in Conns /\ req[r].id \in Nat
      BY <1>1, <2>1, Typed DEF IdsUnique, TypeOK, Early, Request
    <3>2. req[r].id <= conn[req[r].on].lastId
      BY <1>1, <2>1 DEF IdsUnique
    <3>3. QED BY <2>1, <3>1, <3>2, LastIdGrows
  <2>2. CASE Insert(r) /\ req[r].on \in Conns /\ req'[r].id = NextId(req[r].on)
             /\ req'[r].on = req[r].on
    BY <2>2, LastIdGrows
  <2>3. QED BY <1>1, <2>1, <2>2, IdStep
<1>2. ASSUME NEW r \in Requests, NEW q \in Requests, Insert(r), req'[r].id = NextId(req[r].on),
             req[r].on \in Conns, req'[q].id = req[q].id, req'[q].on = req[q].on,
             req'[r].on = req[r].on, req'[r].on = req'[q].on, req'[r].id = req'[q].id
      PROVE  FALSE
  <2>1. conn[req[r].on].lastId \in Nat /\ NextId(req[r].on) = conn[req[r].on].lastId + 1
    BY <1>2, LastIdGrows
  <2>2. req[q].id # 0 /\ req[q].id > conn[req[q].on].lastId
    BY <1>2, <2>1
  <2>3. QED BY <1>2, <2>1, <2>2 DEF IdsUnique
<1>3. ASSUME NEW r \in Requests, NEW q \in Requests,
             req'[r].id # 0, req'[r].id = req'[q].id, req'[r].on = req'[q].on
      PROVE  r = q
  <2>1. CASE Insert(r) /\ Insert(q)
    <3>1. req'[r].stage = "lock" /\ req[r].stage = "insert"
      BY <2>1, InsertTags
    <3>2. Step(q)
      BY <2>1 DEF Step
    <3>3. QED BY <3>1, <3>2, OthersUntouched
  <2>2. CASE Insert(r) /\ ~Insert(q)
    <3>1. /\ req[r].on \in Conns /\ req'[r].id = NextId(req[r].on) /\ req'[r].on = req[r].on
          /\ req'[q].id = req[q].id /\ (req[q].id # 0 => req'[q].on = req[q].on)
      BY <2>2, IdStep, InsertTags
    <3>2. QED BY <1>2, <1>3, <2>2, <3>1
  <2>3. CASE ~Insert(r) /\ Insert(q)
    <3>1. /\ req[q].on \in Conns /\ req'[q].id = NextId(req[q].on) /\ req'[q].on = req[q].on
          /\ req'[r].id = req[r].id /\ (req[r].id # 0 => req'[r].on = req[r].on)
      BY <2>3, IdStep, InsertTags
    <3>2. QED BY <1>2, <1>3, <2>3, <3>1
  <2>4. CASE ~Insert(r) /\ ~Insert(q)
    BY <1>3, <2>4, IdStep DEF IdsUnique
  <2>5. QED BY <2>1, <2>2, <2>3, <2>4
<1>4. QED BY <1>1, <1>3, IdStep DEF IdsUnique

(* What bears a request's id goes on doing so.                             *)
LEMMA TaggedStays ==
  ASSUME TypeOK, IdsUnique, [Next]_vars, NEW c, NEW id, NEW q \in Requests, Tagged(c, id, q)
  PROVE  Tagged(c, id, q)'
<1>1. ~Insert(q)
  BY DEF Tagged, IdsUnique, Insert, Early
<1>2. QED BY <1>1, IdStep DEF Tagged
----------------------------------------------------------------------------
(* The pending map.                                                        *)

(* Every pending entry the reader removes, it answers.                     *)
LEMMA ReaderTellsAll ==
  ASSUME TypeOK, NEW c \in Conns, NEW id \in Nat, NEW q \in Requests,
         <<id, q>> \in conn[c].pending
  PROVE  /\ ReadLine(c) /\ Head(conn[c].stdout)[1] = "reply" /\ id = Head(conn[c].stdout)[2]
              => Told(q, Head(conn[c].stdout)[3])
         /\ Drain(c) => Told(q, Dropped)
<1>1. CASE ReadLine(c) /\ Head(conn[c].stdout)[1] = "reply" /\ id = Head(conn[c].stdout)[2]
  <2>1. <<id, q>> \in Route(c, Head(conn[c].stdout)[2])
    BY <1>1 DEF Route
  <2>2. QED BY <1>1, <2>1 DEF ReadLine, Told, Drain
<1>2. CASE Drain(c)
  <2>1. \E p \in conn[c].pending : p[2] = q
    OBVIOUS
  <2>2. Told(q, Dropped)
    BY <1>2, <2>1 DEF Drain, Told
  <2>3. ~ReadLine(c)
    BY <1>2 DEF Drain, ReadLine
  <2>4. QED BY <2>2, <2>3
<1>3. QED BY <1>1, <1>2

(* A request's own step and the entry it has in connection c.              *)
LEMMA OwnEntry ==
  ASSUME TypeOK, IdsUnique, Expected, NEW q \in Requests, Step(q),
         NEW c \in Conns, NEW id \in Nat
  PROVE  <<id, q>> \in conn'[c].pending <=> Expecting(c, id, q)'
<1>0. /\ DOMAIN req = Requests /\ req[q] \in Request /\ conn[c] \in Conn
      /\ req[q].stage # "new" => req[q].on \in Conns
      /\ req[q].stage \in Early <=> req[q].id = 0 /\ req[q].stage # "failed"
      /\ <<id, q>> \in conn[c].pending <=> Expecting(c, id, q)
      /\ req[q].id = 0 => req[q].slot = Empty
  BY Typed DEF TypeOK, IdsUnique, Expected, PendingIs
<1>1. CASE Connect(q) \/ Respawn(q) \/ SpawnFails(q) \/ Cancel(q)
  <2>1. req[q].stage \in {"new", "respawn", "spawning", "cancel"}
    BY <1>1 DEF Connect, Respawn, SpawnFails, Cancel
  <2>2. req'[q].stage \in {"insert", "respawn", "spawning", "failed"}
    BY <1>0, <1>1 DEF Connect, Respawn, SpawnFails, Cancel, Goto, Request
  <2>3. conn'[c].pending = conn[c].pending
    <3>1. CASE conn' = conn
      BY <3>1
    <3>2. CASE Replaced(req[q].on, Cancelled(req[q].on, q))
      <4>1. conn'[c] = conn[c] \/ conn'[c] = Cancelled(c, q)
        BY <3>2, ReplacedIs
      <4>2. QED BY <1>0, <4>1 DEF Cancelled, Conn
    <3>3. QED BY <1>1, <3>1, <3>2, CallerConn DEF Connect, Respawn, SpawnFails
  <2>4. QED BY <1>0, <2>1, <2>2, <2>3 DEF Expecting
<1>2. CASE SpawnOk(q)
  <2>1. req[q].stage = "spawning" /\ req'[q].stage = "insert"
    BY <1>0, <1>2 DEF SpawnOk, Request
  <2>2. conn'[c] = conn[c]
    BY <1>2, SpawnConn DEF SpawnOk
  <2>3. QED BY <1>0, <2>1, <2>2 DEF Expecting
<1>3. CASE Insert(q)
  <2>1. /\ req'[q].id = NextId(req[q].on) /\ req'[q].on = req[q].on
        /\ req'[q].stage = "lock" /\ req[q].stage = "insert"
        /\ req'[q].slot = Empty
    BY <1>0, <1>3, InsertTags DEF Early
  <2>2. /\ conn'[req[q].on] = Inserted(req[q].on, q)
        /\ c # req[q].on => conn'[c] = conn[c]
    BY <1>3, CallerConn, ReplacedIs
  <2>3. CASE c = req[q].on
    <3>1. conn'[c].pending = {p \in conn[c].pending : p[1] # NextId(c)} \cup {<<NextId(c), q>>}
      BY <1>0, <2>2, <2>3 DEF Inserted, Conn
    <3>2. <<id, q>> \notin conn[c].pending
      BY <1>0, <2>1 DEF Expecting
    <3>3. QED BY <2>1, <2>3, <3>1, <3>2 DEF Expecting
  <2>4. CASE c # req[q].on
    BY <1>0, <2>1, <2>2, <2>4 DEF Expecting
  <2>5. QED BY <2>3, <2>4
<1>4. CASE LockWriter(q) \/ WriteFrame(q) \/ (CheckDead(q) /\ ~DeadAfterWrite(req[q].on))
  <2>1. /\ req'[q].id = req[q].id /\ req'[q].on = req[q].on /\ req'[q].slot = req[q].slot
        /\ {req[q].stage, req'[q].stage} \subseteq {"lock", "write", "check", "wait"}
    BY <1>0, <1>4 DEF LockWriter, WriteFrame, CheckDead, Goto, Request
  <2>2. conn'[c].pending = conn[c].pending
    <3>1. CASE LockWriter(q)
      <4>1. conn'[c] = conn[c] \/ conn'[c] = Locked(c, q)
        BY <3>1, CallerConn, ReplacedIs
      <4>2. QED BY <1>0, <4>1 DEF Locked, Conn
    <3>2. CASE WriteFrame(q)
      <4>1. conn'[c] = conn[c] \/ conn'[c] = Written(c, q)
        BY <3>2, CallerConn, ReplacedIs
      <4>2. QED BY <1>0, <4>1 DEF Written, Conn
    <3>3. QED BY <1>4, <3>1, <3>2 DEF CheckDead
  <2>3. QED BY <1>0, <2>1, <2>2 DEF Expecting
<1>5. CASE WriteFails(q) \/ (CheckDead(q) /\ DeadAfterWrite(req[q].on)) \/ TimeOut(q)
  <2>1. req'[q].stage \in {"failed", "cancel"} /\ req[q].stage \in {"write", "check", "wait"}
    BY <1>0, <1>5 DEF WriteFails, CheckDead, TimeOut, Goto, Request
  <2>2. c = req[q].on => conn'[c].pending = Forget(c, req[q].id)
    <3>1. CASE WriteFails(q)
      <4>1. conn'[req[q].on] = Broken(req[q].on, q)
        BY <3>1, CallerConn, ReplacedIs
      <4>2. QED BY <1>0, <4>1 DEF Broken, Conn
    <3>2. CASE TimeOut(q)
      <4>1. conn'[req[q].on] = Forgotten(req[q].on, q)
        BY <3>2, CallerConn, ReplacedIs
      <4>2. QED BY <1>0, <4>1 DEF Forgotten, Conn
    <3>3. CASE CheckDead(q) /\ DeadAfterWrite(req[q].on)
      <4>1. c = req[q].on => conn' = [conn EXCEPT ![c].pending = Forget(c, req[q].id)]
        BY <3>3 DEF CheckDead
      <4>2. QED BY <1>0, <4>1, Typed DEF Conn
    <3>4. QED BY <1>5, <3>1, <3>2, <3>3
  <2>3. c # req[q].on => conn'[c] = conn[c]
    BY <1>5, CallerConn, ReplacedIs
  <2>4. QED BY <1>0, <2>1, <2>2, <2>3 DEF Expecting, Forget
<1>6. CASE Wake(q)
  <2>1. req[q].slot # Empty /\ req'[q].slot = req[q].slot /\ conn' = conn
    BY <1>0, <1>6 DEF Wake, Goto, Request
  <2>2. QED BY <1>0, <2>1 DEF Expecting
<1>7. QED BY <1>1, <1>2, <1>3, <1>4, <1>5, <1>6 DEF Step

(* Steps that do not touch a request leave its entries alone: no other     *)
(* request has the same id there.                                          *)
LEMMA EntryKept ==
  ASSUME TypeOK, IdsUnique, Expected, [Next]_vars,
         NEW q \in Requests, req'[q] = req[q], NEW c \in Conns, NEW id \in Nat
  PROVE  <<id, q>> \in conn'[c].pending <=> <<id, q>> \in conn[c].pending
<1>0. /\ conn[c] \in Conn /\ req[q] \in Request
      /\ <<id, q>> \in conn[c].pending <=> Expecting(c, id, q)
      /\ req[q].stage \in Early <=> req[q].id = 0 /\ req[q].stage # "failed"
  BY Typed DEF TypeOK, IdsUnique, Expected, PendingIs
<1>1. CASE conn'[c].pending = conn[c].pending
  BY <1>1
<1>2. ASSUME NEW t \in Requests, req[t].on = c, Insert(t)
      PROVE  <<id, q>> \in conn'[c].pending <=> <<id, q>> \in conn[c].pending
  <2>1. t # q
    BY <1>2, InsertTags
  <2>2. conn'[c] = Inserted(c, t)
    BY <1>2, CallerConn, ReplacedIs
  <2>3. conn'[c].pending = {p \in conn[c].pending : p[1] # NextId(c)} \cup {<<NextId(c), t>>}
    BY <1>0, <2>2 DEF Inserted, Conn
  <2>4. ASSUME <<id, q>> \in conn[c].pending PROVE id # NextId(c)
    <3>1. req[q].on = c /\ req[q].id = id /\ id # 0
      BY <1>0, <2>4 DEF Expecting, Early
    <3>2. id <= conn[c].lastId /\ conn[c].lastId \in Nat
      BY <1>0, <3>1 DEF IdsUnique, Conn
    <3>3. QED BY <3>2 DEF NextId
  <2>5. QED BY <2>1, <2>3, <2>4
<1>3. ASSUME NEW t \in Requests, req[t].on = c, WriteFails(t) \/ CheckDead(t) \/ TimeOut(t)
      PROVE  <<id, q>> \in conn'[c].pending <=> <<id, q>> \in conn[c].pending
  <2>0. req[t] \in Request /\ DOMAIN req = Requests
    BY Typed
  <2>1. t # q /\ req[t].id # 0
    <3>1. req'[t].stage # req[t].stage
      BY <1>3, <2>0 DEF WriteFails, CheckDead, TimeOut, Goto, Request
    <3>2. req[t].stage \in {"write", "check", "wait"}
      BY <1>3 DEF WriteFails, CheckDead, TimeOut
    <3>3. QED BY <3>1, <3>2 DEF IdsUnique, Early
  <2>2. conn'[c] = conn[c] \/ conn'[c] = Broken(c, t) \/ conn'[c] = Forgotten(c, t)
    BY <1>3, CallerConn, ReplacedIs
  <2>3. conn'[c] = conn[c] \/ conn'[c].pending = Forget(c, req[t].id)
    BY <1>0, <2>2 DEF Broken, Forgotten, Conn
  <2>4. <<id, q>> \in conn[c].pending => id # req[t].id
    BY <1>0, <1>3, <2>1 DEF Expecting, IdsUnique
  <2>5. QED BY <2>3, <2>4 DEF Forget
<1>4. CASE ReadLine(c)
  <2>1. conn'[c] = Taken(c)
    BY <1>4, ReaderConn, ReplacedIs
  <2>2. conn'[c].pending = conn[c].pending \ Addressees(c)
    BY <1>0, <2>1 DEF Taken, Conn
  <2>3. ASSUME <<id, q>> \in conn[c].pending, <<id, q>> \in Addressees(c) PROVE FALSE
    <3>1. Head(conn[c].stdout)[1] = "reply" /\ id = Head(conn[c].stdout)[2]
      BY <2>3 DEF Addressees, Route
    <3>2. Told(q, Head(conn[c].stdout)[3]) /\ req[q].slot = Empty
      BY <1>0, <1>4, <2>3, <3>1, ReaderTellsAll DEF Expecting
    <3>3. Head(conn[c].stdout) \in Line
      BY <1>0, <1>4, HeadTailProperties DEF ReadLine, Conn
    <3>4. Head(conn[c].stdout)[3] # Empty
      BY <3>1, <3>3, StdioAssumption DEF Line, Empty
    <3>5. QED BY <1>0, <3>2, <3>4 DEF Told, Request
  <2>4. QED BY <2>2, <2>3
<1>5. CASE Drain(c)
  <2>1. conn'[c] = Drained(c)
    BY <1>5, ReaderConn, ReplacedIs
  <2>2. conn'[c].pending = {}
    BY <1>0, <2>1 DEF Drained, Conn
  <2>3. ASSUME <<id, q>> \in conn[c].pending PROVE FALSE
    <3>1. Told(q, Dropped) /\ req[q].slot = Empty
      BY <1>0, <1>5, <2>3, ReaderTellsAll DEF Expecting
    <3>2. QED BY <1>0, <3>1 DEF Told, Request, Dropped, Empty
  <2>4. QED BY <2>2, <2>3
<1>6. QED BY <1>1, <1>2, <1>3, <1>4, <1>5, Disturbance DEF Disturbed, Inserts, Forgets

(* What a request is told, it is told by the reader of its own connection, *)
(* which has taken it from the map.                                        *)
LEMMA ToldEntry ==
  ASSUME TypeOK, IdsUnique, Expected, [Next]_vars, NEW d \in Conns, ReaderStep(d),
         NEW q \in Requests, req'[q] # req[q]
  PROVE  /\ Expecting(d, req[q].id, q)
         /\ \E slot \in Requests \cup {Dropped} :
              Told(q, slot) /\ req'[q].slot = slot /\ slot # Empty
         /\ \A id \in Nat : <<id, q>> \notin conn'[d].pending
<1>0. /\ conn[d] \in Conn /\ req[q] \in Request
      /\ \A id \in Nat : <<id, q>> \in conn[d].pending <=> Expecting(d, id, q)
  BY Typed DEF TypeOK, Expected, PendingIs
<1>1. CASE /\ ReadLine(d) /\ Head(conn[d].stdout)[1] = "reply"
           /\ <<Head(conn[d].stdout)[2], q>> \in conn[d].pending
           /\ Head(conn[d].stdout) \in {"reply"} \X Nat \X Requests
           /\ Told(q, Head(conn[d].stdout)[3])
  <2> DEFINE line == Head(conn[d].stdout)
  <2>1. line[2] \in Nat /\ line[3] \in Requests /\ line[3] # Empty
    BY <1>1, StdioAssumption DEF Empty
  <2>2. Expecting(d, line[2], q) /\ req[q].id = line[2]
    BY <1>0, <1>1, <2>1 DEF Expecting
  <2>3. conn'[d] = Taken(d)
    BY <1>1, ReaderConn, ReplacedIs
  <2>4. conn'[d].pending = conn[d].pending \ Addressees(d)
    BY <1>0, <2>3 DEF Taken, Conn
  <2>5. \A id \in Nat : <<id, q>> \notin conn'[d].pending
    BY <1>0, <1>1, <2>2, <2>4 DEF Addressees, Route, Expecting
  <2>6. req'[q].slot = line[3]
    BY <1>0, <1>1 DEF Told, Request
  <2>7. QED BY <1>1, <2>1, <2>2, <2>5, <2>6
<1>2. CASE /\ Drain(d)
           /\ \E p \in conn[d].pending : p[2] = q
           /\ Told(q, Dropped)
  <2>1. \E id \in Nat : <<id, q>> \in conn[d].pending
    BY <1>0, <1>2 DEF Conn
  <2>2. Expecting(d, req[q].id, q)
    BY <1>0, <2>1 DEF Expecting
  <2>3. conn'[d] = Drained(d)
    BY <1>2, ReaderConn, ReplacedIs
  <2>4. conn'[d].pending = {}
    BY <1>0, <2>3 DEF Drained, Conn
  <2>5. req'[q].slot = Dropped /\ Dropped # Empty
    BY <1>0, <1>2 DEF Told, Request, Dropped, Empty
  <2>6. QED BY <1>2, <2>2, <2>4, <2>5
<1>3. QED BY <1>1, <1>2, ReaderTells

(* The connections there were before a step hold the entries they should.  *)
LEMMA EntryStep ==
  ASSUME TypeOK, IdsUnique, Expected, [Next]_vars,
         NEW c \in Conns, NEW id \in Nat, NEW q \in Requests
  PROVE  <<id, q>> \in conn'[c].pending <=> Expecting(c, id, q)'
<1>0. <<id, q>> \in conn[c].pending <=> Expecting(c, id, q)
  BY DEF Expected, PendingIs
<1>1. CASE Step(q)
  BY <1>1, OwnEntry
<1>2. CASE req'[q] = req[q]
  <2>1. Expecting(c, id, q)' <=> Expecting(c, id, q)
    BY <1>2 DEF Expecting
  <2>2. QED BY <1>0, <1>2, <2>1, EntryKept
<1>3. ASSUME NEW d \in Conns, ReaderStep(d), req'[q] # req[q]
      PROVE  <<id, q>> \in conn'[c].pending <=> Expecting(c, id, q)'
  <2>1. ~Expecting(c, id, q)'
    BY <1>3, ToldEntry DEF Expecting
  <2>2. CASE c = d
    BY <1>3, <2>1, <2>2, ToldEntry
  <2>3. CASE c # d
    <3>1. conn'[c] = conn[c]
      BY <1>3, <2>3, ReaderConn, ReplacedIs DEF ReaderStep
    <3>2. QED BY <1>0, <1>3, <2>1, <2>3, <3>1, ToldEntry DEF Expecting
  <2>4. QED BY <2>2, <2>3
<1>4. QED BY <1>1, <1>2, <1>3, RequestStep

(* The reader ends by draining, once its connection is marked dead.        *)
LEMMA ReaderEnds ==
  ASSUME TypeOK, [Next]_vars, NEW c \in Conns,
         conn[c].reader \in {"drain", "done"} => conn[c].dead
  PROVE  /\ conn'[c].reader = "done" => conn[c].reader = "done" \/ Drain(c)
         /\ conn'[c].reader \in {"drain", "done"} => conn'[c].dead
<1>0. conn[c] \in Conn /\ Disturbed(c)
  BY Typed, Disturbance
<1>1. CASE conn'[c].reader = conn[c].reader
  BY <1>0, <1>1 DEF Disturbed
<1>2. CASE ReadLine(c)
  <2>1. conn'[c] = Taken(c)
    BY <1>2, ReaderConn, ReplacedIs
  <2>2. QED BY <1>0, <2>1 DEF Taken, Conn
<1>3. CASE ReaderLock(c) \/ ReaderWrite(c) \/ ReaderEof(c)
  <2>1. \/ conn'[c] = ReaderLocked(c) \/ conn'[c] = ReaderBroken(c)
        \/ conn'[c] = Ponged(c) \/ conn'[c] = AtEof(c)
    BY <1>3, ReaderConn, ReplacedIs
  <2>2. conn'[c].reader \in {"drain", "done"} => conn'[c].reader = "drain" /\ conn'[c].dead
    BY <1>0, <2>1 DEF ReaderLocked, ReaderBroken, Ponged, AtEof, Conn
  <2>3. QED BY <2>2
<1>4. CASE Drain(c)
  <2>1. conn'[c] = Drained(c)
    BY <1>4, ReaderConn, ReplacedIs
  <2>2. conn[c].reader = "drain"
    BY <1>4 DEF Drain
  <2>3. QED BY <1>0, <1>4, <2>1, <2>2 DEF Drained, Conn
<1>5. QED BY <1>0, <1>1, <1>2, <1>3, <1>4 DEF Disturbed, ReaderStep

(* A request that waits and has heard nothing has a reader.                *)
LEMMA ReaderRuns ==
  ASSUME TypeOK, IdsUnique, Expected, [Next]_vars, NEW q \in Requests,
         req'[q].stage = "wait", req'[q].slot = Empty
  PROVE  conn'[req'[q].on].reader # "done"
<1>0. /\ req[q] \in Request /\ DOMAIN req = Requests
      /\ req[q].stage # "new" => req[q].on \in Conns
  BY Typed DEF TypeOK
<1>1. CASE req'[q] = req[q]
  <2>1. req[q].on \in Conns /\ conn[req[q].on].reader # "done"
    BY <1>0, <1>1 DEF Expected
  <2>2. <<req[q].id, q>> \in conn[req[q].on].pending /\ req[q].id \in Nat
    BY <1>0, <1>1, <2>1 DEF Expected, PendingIs, Expecting, Request
  <2>3. Drain(req[q].on) => Told(q, Dropped)
    BY <2>1, <2>2, ReaderTellsAll
  <2>4. ~Drain(req[q].on)
    BY <1>0, <1>1, <2>3 DEF Told, Request, Dropped, Empty
  <2>5. QED BY <1>1, <2>1, <2>4, ReaderEnds DEF Expected
<1>2. CASE Step(q)
  <2>1. CheckDead(q)
    BY <1>2, StepStages DEF Step
  <2>2. ~DeadAfterWrite(req[q].on) /\ conn' = conn /\ req'[q].on = req[q].on
        /\ req[q].on \in Conns
    BY <1>0, <2>1 DEF CheckDead, Goto, Request
  <2>3. conn[req[q].on].reader # "done"
    BY <2>2 DEF DeadAfterWrite, Expected
  <2>4. QED BY <2>2, <2>3
<1>3. ASSUME NEW d \in Conns, ReaderStep(d), req'[q] # req[q] PROVE FALSE
  BY <1>3, ToldEntry
<1>4. QED BY <1>1, <1>2, <1>3, RequestStep

(* A request stays on the connection it got its id from.                   *)
LEMMA OnStays ==
  ASSUME TypeOK, IdsUnique, [Next]_vars, NEW q \in Requests,
         req'[q].stage \notin Early \cup {"failed"} \/ req'[q].id # 0
  PROVE  req'[q].on \in Conns
<1>1. req'[q].id # 0
  BY IdStep
<1>2. CASE req'[q].id = req[q].id
  <2>1. req[q].stage # "new"
    BY <1>1, <1>2 DEF IdsUnique, Early
  <2>2. ~Insert(q)
    BY <1>1, <1>2 DEF Insert, IdsUnique, Early
  <2>3. QED BY <1>1, <1>2, <2>1, <2>2, IdStep DEF TypeOK
<1>3. QED BY <1>2, IdStep

(* A request hears nothing before it has an id.                            *)
LEMMA SilentBefore ==
  ASSUME TypeOK, IdsUnique, Expected, [Next]_vars, NEW q \in Requests, req'[q].id = 0
  PROVE  req'[q].slot = Empty
<1>0. /\ req[q] \in Request
      /\ req[q].id = 0 => req[q].slot = Empty
      /\ req[q].stage \in Early <=> req[q].id = 0 /\ req[q].stage # "failed"
  BY Typed DEF Expected, IdsUnique
<1>1. ~Insert(q)
  <2> SUFFICES ASSUME Insert(q) PROVE FALSE
    OBVIOUS
  <2>1. req[q].on \in Conns /\ req'[q].id = NextId(req[q].on)
    BY InsertTags
  <2>2. NextId(req[q].on) = conn[req[q].on].lastId + 1 /\ conn[req[q].on].lastId \in Nat
    BY <2>1, LastIdGrows
  <2>3. QED BY <2>1, <2>2
<1>2. req[q].id = 0
  BY <1>1, IdStep
<1>3. CASE Step(q)
  BY <1>0, <1>2, <1>3, OwnStep
<1>4. CASE req'[q] = req[q]
  BY <1>0, <1>2, <1>4
<1>5. ASSUME NEW d \in Conns, ReaderStep(d), req'[q] # req[q] PROVE FALSE
  BY <1>0, <1>2, <1>5, ToldEntry DEF Expecting, Early
<1>6. QED BY <1>3, <1>4, <1>5, RequestStep

LEMMA ExpectedStep == TypeOK /\ IdsUnique /\ Expected /\ [Next]_vars => Expected'
<1> SUFFICES ASSUME TypeOK, IdsUnique, Expected, [Next]_vars PROVE Expected'
  OBVIOUS
<1>1. \A c \in Conns : conn'[c].reader \in {"drain", "done"} => conn'[c].dead
  BY ReaderEnds DEF Expected
<1>2. ASSUME conn' = Append(conn, NewConn)
      PROVE  /\ Conns' = Conns \cup {Len(conn')}
             /\ conn'[Len(conn')].reader = "read"
             /\ conn'[Len(conn')].pending = {}
             /\ Len(conn') \notin Conns
  BY <1>2, SpawnConn, Typed DEF NewConn, Conns
<1>3. Conns' = Conns \/ conn' = Append(conn, NewConn)
  BY ConnStep, ReplacedIs DEF Conns
<1>4. PendingIs'
  <2> SUFFICES ASSUME NEW c \in Conns', NEW id \in Nat, NEW q \in Requests
               PROVE  <<id, q>> \in conn'[c].pending <=> Expecting(c, id, q)'
    BY DEF PendingIs
  <2>1. CASE c \in Conns
    BY <2>1, EntryStep
  <2>2. CASE c \notin Conns
    <3>1. conn'[c].pending = {}
      BY <1>2, <1>3, <2>2
    <3>2. ~Expecting(c, id, q)'
      BY <2>2, OnStays DEF Expecting, Early
    <3>3. QED BY <3>1, <3>2
  <2>3. QED BY <2>1, <2>2
<1>5. \A c \in Conns' : conn'[c].reader \in {"drain", "done"} => conn'[c].dead
  BY <1>1, <1>2, <1>3
<1>6. QED BY <1>4, <1>5, ReaderRuns, SilentBefore DEF Expected
----------------------------------------------------------------------------
(* What is in transit.                                                     *)

(* The child carries a call out when it reads it.                          *)
LEMMA CarriedStep ==
  ASSUME TypeOK, [Next]_vars
  PROVE  \/ carried' = carried
         \/ \E d \in Conns :
              /\ ChildRead(d) /\ Calls(conn[d].stdin, 1)
              /\ conn[d].stdin[1][3] \in Requests
              /\ carried' = [carried EXCEPT ![conn[d].stdin[1][3]] = @ + 1]
<1>1. ASSUME NEW d \in Conns, ChildRead(d), carried' # carried
      PROVE  /\ Calls(conn[d].stdin, 1)
             /\ conn[d].stdin[1][3] \in Requests
             /\ carried' = [carried EXCEPT ![conn[d].stdin[1][3]] = @ + 1]
  <2>1. conn[d].stdin \in Seq(Frame) /\ conn[d].stdin # <<>>
    BY <1>1, Typed DEF ChildRead, Conn
  <2>2. Head(conn[d].stdin) = conn[d].stdin[1] /\ 1 \in 1..Len(conn[d].stdin)
        /\ Head(conn[d].stdin) \in Frame
    BY <2>1, HeadTailProperties, EmptySeq, LenProperties
  <2>3. Head(conn[d].stdin)[1] = "call" => Head(conn[d].stdin)[3] \in Requests
    BY <2>2 DEF Frame
  <2>4. /\ Head(conn[d].stdin)[1] = "call"
        /\ carried' = [carried EXCEPT ![Head(conn[d].stdin)[3]] = @ + 1]
    BY <1>1 DEF ChildRead
  <2>5. QED BY <2>2, <2>3, <2>4 DEF Calls
<1>2. ASSUME NEW r \in Requests, Step(r) PROVE carried' = carried
  BY <1>2 DEF Step, Connect, Respawn, SpawnOk, SpawnFails, Insert, LockWriter,
     WriteFrame, WriteFails, CheckDead, Wake, TimeOut, Cancel
<1>3. ASSUME NEW c, ReaderStep(c) \/ ChildReply(c) \/ ChildPing(c) \/ ChildMute(c)
                    \/ ChildExit(c) \/ Cool \/ UNCHANGED vars
      PROVE  carried' = carried
  BY <1>3 DEF ReaderStep, ReadLine, ReaderLock, ReaderWrite, ReaderEof, Drain, ChildReply,
     ChildPing, ChildMute, ChildExit, Cool, vars
<1>4. QED BY <1>1, <1>2, <1>3 DEF Next

(* Whom the child reads of has not been carried out before, and is on the  *)
(* child's connection.                                                     *)
LEMMA CarriedOnce ==
  ASSUME TypeOK, Exchanges, [Next]_vars, NEW q \in Requests, carried'[q] # carried[q]
  PROVE  \E d \in Conns :
           /\ ChildRead(d) /\ Calls(conn[d].stdin, 1) /\ conn[d].stdin[1][3] = q
           /\ Unread(d, conn[d].stdin[1][2], q)
           /\ carried[q] = 0 /\ carried'[q] = 1
           /\ \A t \in Requests \ {q} : carried'[t] = carried[t]
<1>1. PICK d \in Conns :
        /\ ChildRead(d) /\ Calls(conn[d].stdin, 1)
        /\ conn[d].stdin[1][3] \in Requests
        /\ carried' = [carried EXCEPT ![conn[d].stdin[1][3]] = @ + 1]
  BY CarriedStep
<1>2. conn[d].stdin[1][3] = q
  BY <1>1 DEF TypeOK
<1>3. Unread(d, conn[d].stdin[1][2], q)
  BY <1>1, <1>2 DEF Exchanges, InTransit, Calls
<1>4. QED BY <1>1, <1>2, <1>3 DEF Unread, TypeOK

LEMMA AnsweringStays ==
  ASSUME TypeOK, Exchanges, [Next]_vars,
         NEW c, NEW id, NEW q \in Requests, Answering(c, id, q)
  PROVE  Answering(c, id, q)'
<1>1. carried'[q] = carried[q]
  BY CarriedOnce DEF Answering
<1>2. QED BY <1>1, TaggedStays DEF Answering, Exchanges

(* A request with an id that was written stays so.                         *)
LEMMA WrittenStays ==
  ASSUME TypeOK, IdsUnique, [Next]_vars, NEW q \in Requests,
         req[q].id # 0, req[q].stage \notin {"lock", "write"}
  PROVE  req'[q].stage \notin {"lock", "write"}
<1>0. /\ req[q] \in Request /\ DOMAIN req = Requests
      /\ req[q].stage \notin Early
  BY Typed DEF IdsUnique
<1>1. CASE Step(q)
  BY <1>0, <1>1, StepStages DEF Step, Early
<1>2. ASSUME NEW slot, Told(q, slot) PROVE req'[q].stage = req[q].stage
  BY <1>0, <1>2 DEF Told, Request
<1>3. QED BY <1>1, <1>2, RequestStep

LEMMA UnreadStays ==
  ASSUME TypeOK, IdsUnique, [Next]_vars,
         NEW c, NEW id, NEW q \in Requests, Unread(c, id, q), carried'[q] = carried[q]
  PROVE  Unread(c, id, q)'
<1>1. req[q].id # 0
  BY DEF Unread, Tagged
<1>2. QED BY <1>1, TaggedStays, WrittenStays DEF Unread

(* What a step puts in the pipes.                                          *)
LEMMA StdinStep ==
  ASSUME TypeOK, [Next]_vars, NEW c \in Conns, ~ChildRead(c)
  PROVE  \/ conn'[c].stdin = conn[c].stdin
         \/ conn'[c].stdin = <<>>
         \/ \E r \in Requests :
              /\ WriteFrame(r) /\ req[r].on = c
              /\ conn'[c].stdin = Append(conn[c].stdin, <<"call", req[r].id, r>>)
         \/ \E f \in Frame :
              f[1] # "call" /\ conn'[c].stdin = Append(conn[c].stdin, f)
<1>0. conn[c] \in Conn
  BY Typed
<1>1. ASSUME NEW r \in Requests, req[r].on = c, WriteFrame(r)
      PROVE  conn'[c].stdin = Append(conn[c].stdin, <<"call", req[r].id, r>>)
  <2>1. conn'[c] = Written(c, r)
    BY <1>1, CallerConn, ReplacedIs
  <2>2. QED BY <1>0, <2>1 DEF Written, Conn
<1>2. ASSUME NEW r \in Requests, req[r].on = c, Cancel(r)
      PROVE  \/ conn'[c].stdin = conn[c].stdin
             \/ \E f \in Frame :
                  f[1] # "call" /\ conn'[c].stdin = Append(conn[c].stdin, f)
  <2>1. conn' = conn \/ conn'[c] = Cancelled(c, r)
    BY <1>2, CallerConn, ReplacedIs
  <2>2. <<"cancel", req[r].id, r>> \in Frame
    BY Typed DEF Frame, Request
  <2>3. conn'[c] = Cancelled(c, r) =>
          conn'[c].stdin = Append(conn[c].stdin, <<"cancel", req[r].id, r>>)
    BY <1>0 DEF Cancelled, Conn
  <2>4. <<"cancel", req[r].id, r>>[1] # "call"
    OBVIOUS
  <2>5. QED BY <2>1, <2>2, <2>3, <2>4
<1>3. CASE ReaderWrite(c)
  <2>1. conn'[c] = ReaderBroken(c) \/ conn'[c] = Ponged(c)
    BY <1>3, ReaderConn, ReplacedIs
  <2>2. <<"pong", 0, Nobody>> \in Frame /\ <<"pong", 0, Nobody>>[1] # "call"
    BY DEF Frame
  <2>3. \/ conn'[c].stdin = conn[c].stdin
        \/ conn'[c].stdin = Append(conn[c].stdin, <<"pong", 0, Nobody>>)
    BY <1>0, <2>1 DEF ReaderBroken, Ponged, Conn
  <2>4. QED BY <2>2, <2>3
<1>4. CASE ChildExit(c)
  <2>1. conn'[c] = Exited(c)
    BY <1>4, ChildConn, ReplacedIs
  <2>2. QED BY <1>0, <2>1 DEF Exited, Conn
<1>5. QED BY <1>1, <1>2, <1>3, <1>4, Disturbance DEF Disturbed, Writes

LEMMA StdoutStep ==
  ASSUME TypeOK, [Next]_vars, NEW c \in Conns
  PROVE  \/ conn'[c].stdout = conn[c].stdout
         \/ conn[c].stdout # <<>> /\ conn'[c].stdout = Tail(conn[c].stdout)
         \/ conn'[c].stdout = Append(conn[c].stdout, <<"ping", 0, Nobody>>)
         \/ \E p \in conn[c].owed :
              conn'[c].stdout = Append(conn[c].stdout, <<"reply", p[1], p[2]>>)
<1>0. conn[c] \in Conn
  BY Typed
<1>1. CASE ReadLine(c)
  <2>1. conn'[c] = Taken(c) /\ conn[c].stdout # <<>>
    BY <1>1, ReaderConn, ReplacedIs DEF ReadLine
  <2>2. QED BY <1>0, <2>1 DEF Taken, Conn
<1>2. CASE ChildPing(c)
  <2>1. conn'[c] = Pinged(c)
    BY <1>2, ChildConn, ReplacedIs
  <2>2. QED BY <1>0, <2>1 DEF Pinged, Conn
<1>3. CASE ChildReply(c)
  <2>1. PICK p \in conn[c].owed : Replaced(c, Replied(c, p))
    BY <1>3, ChildConn
  <2>2. conn'[c] = Replied(c, p)
    BY <2>1, ReplacedIs
  <2>3. QED BY <1>0, <2>2 DEF Replied, Conn
<1>4. QED BY <1>1, <1>2, <1>3, Disturbance DEF Disturbed

LEMMA OwedStep ==
  ASSUME TypeOK, [Next]_vars, NEW c \in Conns
  PROVE  \/ conn'[c].owed \subseteq conn[c].owed
         \/ /\ ChildRead(c) /\ Calls(conn[c].stdin, 1)
            /\ conn'[c].owed \subseteq
                 conn[c].owed \cup {<<conn[c].stdin[1][2], conn[c].stdin[1][3]>>}
<1>0. conn[c] \in Conn
  BY Typed
<1>1. CASE ChildRead(c)
  <2>1. conn'[c] = Consumed(c)
    BY <1>1, ChildConn, ReplacedIs
  <2>2. conn'[c].owed = OwedAfter(c)
    BY <1>0, <2>1 DEF Consumed, Conn
  <2>3. /\ Head(conn[c].stdin) = conn[c].stdin[1] /\ 1 \in 1..Len(conn[c].stdin)
    BY <1>0, <1>1, HeadTailProperties, EmptySeq, LenProperties DEF ChildRead, Conn
  <2>4. QED BY <1>1, <2>2, <2>3 DEF OwedAfter, Calls
<1>2. CASE ChildReply(c)
  <2>1. PICK p \in conn[c].owed : Replaced(c, Replied(c, p))
    BY <1>2, ChildConn
  <2>2. conn'[c] = Replied(c, p)
    BY <2>1, ReplacedIs
  <2>3. QED BY <1>0, <2>2 DEF Replied, Conn
<1>3. CASE ChildMute(c) \/ ChildExit(c)
  <2>1. conn'[c] = Muted(c) \/ conn'[c] = Exited(c)
    BY <1>3, ChildConn, ReplacedIs
  <2>2. QED BY <1>0, <2>1 DEF Muted, Exited, Conn
<1>4. QED BY <1>1, <1>2, <1>3, Disturbance DEF Disturbed

(* Frame i of connection c's pipe is a call, with this id, of request q.   *)
CallAt(c, i, id, q) ==
  Calls(conn[c].stdin, i) /\ conn[c].stdin[i][2] = id /\ conn[c].stdin[i][3] = q

CallsOk(c) ==
  /\ \A i : \A id, q : CallAt(c, i, id, q) => Unread(c, id, q)
  /\ \A i, j : \A id, jd, q : CallAt(c, i, id, q) /\ CallAt(c, j, jd, q) => i = j

LEMMA CallsOkIs ==
  ASSUME NEW c, InTransit(c)
  PROVE  CallsOk(c)
BY DEF InTransit, CallsOk, CallAt, Calls

LEMMA CallTyped ==
  ASSUME TypeOK, NEW c \in Conns, NEW i, NEW id, NEW q, CallAt(c, i, id, q)
  PROVE  i \in 1..Len(conn[c].stdin) /\ id \in Nat /\ q \in Requests
<1>1. conn[c].stdin \in Seq(Frame) /\ i \in 1..Len(conn[c].stdin)
  BY Typed DEF CallAt, Calls, Conn
<1>2. conn[c].stdin[i] \in Frame /\ conn[c].stdin[i][1] = "call"
  BY <1>1, ElementOfSeq DEF CallAt, Calls
<1>3. conn[c].stdin[i][2] \in Nat /\ conn[c].stdin[i][3] \in Requests
  BY <1>2 DEF Frame
<1>4. QED BY <1>1, <1>3 DEF CallAt

(* A call stays unread while somebody else's is read.                      *)
LEMMA OtherUnread ==
  ASSUME TypeOK, Exchanges, [Next]_vars, NEW c \in Conns,
         NEW i, NEW id, NEW q, CallAt(c, i, id, q), ~ChildRead(c) \/ i # 1
  PROVE  Unread(c, id, q)'
<1>1. q \in Requests
  BY CallTyped
<1>2. CallsOk(c) /\ Unread(c, id, q)
  BY CallsOkIs DEF Exchanges, CallsOk
<1>3. ASSUME carried'[q] # carried[q] PROVE FALSE
  <2>1. PICK d \in Conns :
          /\ ChildRead(d) /\ Calls(conn[d].stdin, 1) /\ conn[d].stdin[1][3] = q
          /\ Unread(d, conn[d].stdin[1][2], q)
    BY <1>1, <1>3, CarriedOnce
  <2>2. d = c
    BY <1>2, <2>1 DEF Unread, Tagged
  <2>3. CallAt(c, 1, conn[c].stdin[1][2], q)
    BY <2>1, <2>2 DEF CallAt
  <2>4. QED BY <1>2, <2>1, <2>2, <2>3 DEF CallsOk
<1>4. QED BY <1>1, <1>2, <1>3, UnreadStays DEF Exchanges

(* The calls in a pipe, after a step.                                      *)
LEMMA CallsStep ==
  ASSUME TypeOK, Exchanges, [Next]_vars, NEW c \in Conns
  PROVE  CallsOk(c)'
<1>0. conn[c] \in Conn /\ conn[c].stdin \in Seq(Frame) /\ CallsOk(c)
  BY Typed, CallsOkIs DEF Conn, Exchanges
<1>1. CASE conn'[c].stdin = conn[c].stdin /\ ~ChildRead(c)
  <2>1. \A i, id, q : CallAt(c, i, id, q)' <=> CallAt(c, i, id, q)
    BY <1>1 DEF CallAt
  <2>2. QED BY <1>0, <1>1, <2>1, OtherUnread DEF CallsOk
<1>2. CASE conn'[c].stdin = <<>>
  <2>1. \A i, id, q : ~CallAt(c, i, id, q)'
    BY <1>2, EmptySeq DEF CallAt, Calls
  <2>2. QED BY <2>1 DEF CallsOk
<1>3. ASSUME NEW f \in Frame, f[1] # "call", ~ChildRead(c),
             conn'[c].stdin = Append(conn[c].stdin, f)
      PROVE  CallsOk(c)'
  <2>1. \A i, id, q : CallAt(c, i, id, q)' => CallAt(c, i, id, q)
    <3> SUFFICES ASSUME NEW i, NEW id, NEW q, CallAt(c, i, id, q)' PROVE CallAt(c, i, id, q)
      OBVIOUS
    <3>1. /\ Len(conn'[c].stdin) = Len(conn[c].stdin) + 1
          /\ \A k \in 1..Len(conn[c].stdin) : conn'[c].stdin[k] = conn[c].stdin[k]
          /\ conn'[c].stdin[Len(conn[c].stdin) + 1] = f
          /\ Len(conn[c].stdin) \in Nat
      BY <1>0, <1>3, AppendProperties, LenProperties
    <3>2. QED BY <1>3, <3>1 DEF CallAt, Calls
  <2>2. QED BY <1>0, <1>3, <2>1, OtherUnread DEF CallsOk
<1>4. ASSUME NEW r \in Requests, WriteFrame(r), req[r].on = c, ~ChildRead(c),
             conn'[c].stdin = Append(conn[c].stdin, <<"call", req[r].id, r>>)
      PROVE  CallsOk(c)'
  <2> DEFINE n == Len(conn[c].stdin) + 1
             f == <<"call", req[r].id, r>>
  <2>1. /\ Len(conn'[c].stdin) = n /\ n \in Nat
        /\ \A k \in 1..Len(conn[c].stdin) : conn'[c].stdin[k] = conn[c].stdin[k]
        /\ conn'[c].stdin[n] = f /\ Len(conn[c].stdin) \in Nat
    <3>1. f \in Frame
      BY Typed DEF Frame, Request
    <3>2. QED BY <1>0, <1>4, <3>1, AppendProperties, LenProperties
  <2>2. ASSUME NEW i, NEW id, NEW q, CallAt(c, i, id, q)'
        PROVE  CallAt(c, i, id, q) \/ (i = n /\ id = req[r].id /\ q = r)
    <3>1. i \in 1..Len(conn'[c].stdin)
      BY <2>2 DEF CallAt, Calls
    <3>2. CASE i = n
      BY <2>1, <2>2, <3>2 DEF CallAt
    <3>3. CASE i # n
      <4>1. i \in 1..Len(conn[c].stdin) /\ conn'[c].stdin[i] = conn[c].stdin[i]
        BY <2>1, <3>1, <3>3
      <4>2. QED BY <2>2, <4>1 DEF CallAt, Calls
    <3>4. QED BY <3>2, <3>3
  <2>3. ASSUME NEW i, NEW id, CallAt(c, i, id, r) PROVE FALSE
    BY <1>0, <1>4, <2>3 DEF CallsOk, Unread, WriteFrame
  <2>4. ASSUME NEW id, id = req[r].id PROVE Unread(c, id, r)'
    <3>1. req[r].id # 0 /\ carried[r] = 0
      BY <1>4 DEF WriteFrame, Exchanges, IdsUnique, Early, Outcome
    <3>2. /\ req'[r].id = req[r].id /\ req'[r].on = req[r].on /\ req'[r].stage = "check"
          /\ carried' = carried
      BY <1>4, Typed DEF WriteFrame, Goto, Request
    <3>3. QED BY <1>4, <2>4, <3>1, <3>2 DEF Unread, Tagged
  <2> HIDE DEF n, f
  <2>5. \A i, id, q : CallAt(c, i, id, q)' => Unread(c, id, q)'
    BY <1>4, <2>2, <2>4, OtherUnread
  <2>6. \A i, j, id, jd, q : CallAt(c, i, id, q)' /\ CallAt(c, j, jd, q)' => i = j
    BY <1>0, <2>2, <2>3 DEF CallsOk
  <2>7. QED BY <2>5, <2>6 DEF CallsOk
<1>5. CASE ChildRead(c)
  <2>1. conn'[c] = Consumed(c) /\ conn[c].stdin # <<>>
    BY <1>5, ChildConn, ReplacedIs DEF ChildRead
  <2>2. conn'[c].stdin = Tail(conn[c].stdin)
    BY <1>0, <2>1 DEF Consumed, Conn
  <2>3. /\ Len(conn'[c].stdin) = Len(conn[c].stdin) - 1 /\ Len(conn[c].stdin) \in Nat
        /\ \A k \in 1..Len(conn'[c].stdin) : conn'[c].stdin[k] = conn[c].stdin[k + 1]
    BY <1>0, <2>1, <2>2, HeadTailProperties, LenProperties
  <2>4. ASSUME NEW i, NEW id, NEW q, CallAt(c, i, id, q)'
        PROVE  CallAt(c, i + 1, id, q) /\ i \in Nat /\ i + 1 # 1
    <3>1. i \in 1..Len(conn'[c].stdin)
      BY <2>4 DEF CallAt, Calls
    <3>2. i \in Nat /\ i + 1 # 1 /\ i + 1 \in 1..Len(conn[c].stdin)
      BY <2>3, <3>1
    <3>3. conn'[c].stdin[i] = conn[c].stdin[i + 1]
      BY <2>3, <3>1
    <3>4. QED BY <2>4, <3>2, <3>3 DEF CallAt, Calls
  <2>5. \A i, id, q : CallAt(c, i, id, q)' => Unread(c, id, q)'
    BY <2>4, OtherUnread
  <2>6. \A i, j, id, jd, q : CallAt(c, i, id, q)' /\ CallAt(c, j, jd, q)' => i = j
    <3> SUFFICES ASSUME NEW i, NEW j, NEW id, NEW jd, NEW q,
                        CallAt(c, i, id, q)', CallAt(c, j, jd, q)'
                 PROVE  i = j
      OBVIOUS
    <3>1. /\ CallAt(c, i + 1, id, q) /\ CallAt(c, j + 1, jd, q)
          /\ i \in Nat /\ j \in Nat
      BY <2>4
    <3>2. i + 1 = j + 1
      BY <1>0, <3>1 DEF CallsOk
    <3>3. QED BY <3>1, <3>2
  <2>7. QED BY <2>5, <2>6 DEF CallsOk
<1>6. QED BY <1>1, <1>2, <1>3, <1>4, <1>5, StdinStep
(* What the child owes and has answered, after a step.                     *)
LEMMA OwedOk ==
  ASSUME TypeOK, Exchanges, [Next]_vars, NEW c \in Conns
  PROVE  \A id, q : <<id, q>> \in conn'[c].owed => Answering(c, id, q)'
<1> SUFFICES ASSUME NEW id, NEW q, <<id, q>> \in conn'[c].owed
             PROVE  Answering(c, id, q)'
  OBVIOUS
<1>1. CASE <<id, q>> \in conn[c].owed
  <2>1. q \in Requests
    BY <1>1, Typed DEF Conn
  <2>2. Answering(c, id, q)
    BY <1>1 DEF Exchanges, InTransit
  <2>3. QED BY <2>1, <2>2, AnsweringStays
<1>2. CASE ChildRead(c) /\ CallAt(c, 1, id, q)
  <2>1. q \in Requests /\ Unread(c, id, q)
    BY <1>2, CallTyped, CallsOkIs DEF Exchanges, CallsOk
  <2>2. carried'[q] = 1
    <3>1. Head(conn[c].stdin) = conn[c].stdin[1]
      OBVIOUS
    <3>2. carried' = [carried EXCEPT ![q] = @ + 1]
      BY <1>2, <3>1 DEF ChildRead, CallAt, Calls
    <3>3. QED BY <2>1, <3>2 DEF Unread, TypeOK
  <2>3. QED BY <2>1, <2>2, TaggedStays DEF Unread, Answering, Exchanges
<1>3. QED BY <1>1, <1>2, OwedStep DEF CallAt

LEMMA RepliesOk ==
  ASSUME TypeOK, Exchanges, [Next]_vars, NEW c \in Conns,
         NEW i \in 1..Len(conn'[c].stdout), conn'[c].stdout[i][1] = "reply",
         NEW id, NEW q, id = conn'[c].stdout[i][2], q = conn'[c].stdout[i][3]
  PROVE  Answering(c, id, q)'
<1>0. /\ conn[c].stdout \in Seq(Line) /\ conn[c].owed \in SUBSET (Nat \X Requests)
      /\ InTransit(c) /\ Len(conn[c].stdout) \in Nat
  BY Typed, LenProperties DEF Conn, Exchanges
<1>1. ASSUME NEW k \in 1..Len(conn[c].stdout), conn'[c].stdout[i] = conn[c].stdout[k]
      PROVE  Answering(c, id, q)'
  <2>1. conn[c].stdout[k] \in Line /\ conn[c].stdout[k][1] = "reply"
    BY <1>0, <1>1, ElementOfSeq
  <2>2. q \in Requests
    BY <1>1, <2>1 DEF Line
  <2>3. Answering(c, id, q)
    BY <1>0, <1>1, <2>1 DEF InTransit
  <2>4. QED BY <2>2, <2>3, AnsweringStays
<1>2. CASE conn'[c].stdout = conn[c].stdout
  BY <1>1, <1>2
<1>3. CASE conn[c].stdout # <<>> /\ conn'[c].stdout = Tail(conn[c].stdout)
  <2>1. /\ Len(conn'[c].stdout) = Len(conn[c].stdout) - 1
        /\ conn'[c].stdout[i] = conn[c].stdout[i + 1]
    BY <1>0, <1>3, HeadTailProperties
  <2>2. i + 1 \in 1..Len(conn[c].stdout)
    BY <1>0, <2>1
  <2>3. QED BY <1>1, <2>1, <2>2
<1>4. ASSUME NEW line \in Line, conn'[c].stdout = Append(conn[c].stdout, line)
      PROVE  Answering(c, id, q)' \/ conn'[c].stdout[i] = line
  <2>1. /\ Len(conn'[c].stdout) = Len(conn[c].stdout) + 1
        /\ \A k \in 1..Len(conn[c].stdout) : conn'[c].stdout[k] = conn[c].stdout[k]
        /\ conn'[c].stdout[Len(conn[c].stdout) + 1] = line
    BY <1>0, <1>4, AppendProperties
  <2>2. CASE i \in 1..Len(conn[c].stdout)
    BY <1>1, <2>1, <2>2
  <2>3. QED BY <1>0, <2>1, <2>2
<1>5. CASE conn'[c].stdout = Append(conn[c].stdout, <<"ping", 0, Nobody>>)
  <2>1. <<"ping", 0, Nobody>> \in Line /\ <<"ping", 0, Nobody>>[1] # "reply"
    BY DEF Line
  <2>2. QED BY <1>4, <1>5, <2>1
<1>6. ASSUME NEW p \in conn[c].owed,
             conn'[c].stdout = Append(conn[c].stdout, <<"reply", p[1], p[2]>>)
      PROVE  Answering(c, id, q)'
  <2>1. p[1] \in Nat /\ p[2] \in Requests /\ <<"reply", p[1], p[2]>> \in Line
    BY <1>0 DEF Line
  <2>2. Answering(c, p[1], p[2])
    BY <1>0 DEF InTransit
  <2>3. CASE conn'[c].stdout[i] = <<"reply", p[1], p[2]>>
    <3>1. id = p[1] /\ q = p[2]
      BY <2>3
    <3>2. QED BY <2>1, <2>2, <3>1, AnsweringStays
  <2>4. QED BY <1>4, <1>6, <2>1, <2>3
<1>7. QED BY <1>2, <1>3, <1>5, <1>6, StdoutStep

LEMMA TransitStep ==
  ASSUME TypeOK, Exchanges, [Next]_vars, NEW c \in Conns'
  PROVE  InTransit(c)'
<1>1. CASE c \in Conns
  <2>1. (\A i \in 1..Len(conn[c].stdin) :
           Calls(conn[c].stdin, i) => Unread(c, conn[c].stdin[i][2], conn[c].stdin[i][3]))'
    BY <1>1, CallsStep DEF CallsOk, CallAt, Unread, Tagged
  <2>2. \A i, j \in 1..Len(conn'[c].stdin) :
          /\ Calls(conn'[c].stdin, i) /\ Calls(conn'[c].stdin, j)
          /\ conn'[c].stdin[i][3] = conn'[c].stdin[j][3]
          => i = j
    BY <1>1, CallsStep DEF CallsOk, CallAt
  <2>3. \A p \in conn'[c].owed : Answering(c, p[1], p[2])'
    <3> SUFFICES ASSUME NEW p \in conn'[c].owed PROVE Answering(c, p[1], p[2])'
      OBVIOUS
    <3>1. conn'[c] \in Conn
      BY ConnsGrow, ElementOfSeq DEF Conns
    <3>2. p = <<p[1], p[2]>>
      BY <3>1 DEF Conn
    <3>3. QED BY <1>1, <3>2, OwedOk DEF Answering, Tagged
  <2>4. (\A i \in 1..Len(conn[c].stdout) :
          conn[c].stdout[i][1] = "reply" =>
            Answering(c, conn[c].stdout[i][2], conn[c].stdout[i][3]))'
    BY <1>1, RepliesOk DEF Answering, Tagged
  <2>5. QED BY <2>1, <2>2, <2>3, <2>4 DEF InTransit
<1>2. CASE c \notin Conns
  <2>1. conn'[c] = NewConn
    <3>1. conn' = Append(conn, NewConn)
      BY <1>2, ConnStep, ReplacedIs DEF Conns
    <3>2. QED BY <1>2, <3>1, SpawnConn
  <2>2. conn'[c].stdin = <<>> /\ conn'[c].stdout = <<>> /\ conn'[c].owed = {}
    BY <2>1 DEF NewConn
  <2>3. QED BY <2>2, EmptySeq DEF InTransit
<1>3. QED BY <1>1, <1>2
----------------------------------------------------------------------------
(* What becomes of a request.                                              *)

(* A reply reaches the request it answers.                                 *)
LEMMA ToldOwn ==
  ASSUME TypeOK, Exchanges, Expected, [Next]_vars, NEW d \in Conns, ReaderStep(d),
         NEW q \in Requests, req'[q] # req[q], req'[q].slot \in Requests
  PROVE  req'[q].slot = q /\ carried[q] = 1
<1>0. /\ req[q] \in Request /\ conn[d] \in Conn /\ InTransit(d)
      /\ Expecting(d, req[q].id, q)
  BY Typed, ToldEntry DEF Exchanges
<1>1. ~Told(q, Dropped)
  BY <1>0, StdioAssumption DEF Told, Request, Dropped
<1>2. /\ ReadLine(d) /\ Head(conn[d].stdout)[1] = "reply"
      /\ <<Head(conn[d].stdout)[2], q>> \in conn[d].pending
      /\ Head(conn[d].stdout) \in {"reply"} \X Nat \X Requests
      /\ Told(q, Head(conn[d].stdout)[3])
  BY <1>1, ReaderTells
<1> DEFINE line == Head(conn[d].stdout)
<1>3. line = conn[d].stdout[1] /\ 1 \in 1..Len(conn[d].stdout)
  BY <1>0, <1>2, EmptySeq, LenProperties DEF ReadLine, Conn
<1>4. Answering(d, line[2], line[3])
  BY <1>0, <1>2, <1>3 DEF InTransit
<1>5. line[2] \in Nat /\ line[3] \in Requests /\ req'[q].slot = line[3]
  BY <1>0, <1>2 DEF Told, Request
<1>6. req[q].on = d /\ req[q].id = line[2]
  BY <1>2, <1>5 DEF Expected, PendingIs, Expecting
<1>7. line[3] = q
  BY <1>4, <1>5, <1>6 DEF Answering, Tagged, Exchanges, IdsUnique
<1>8. QED BY <1>4, <1>5, <1>7 DEF Answering

LEMMA OutcomeStep ==
  ASSUME TypeOK, Exchanges, Expected, [Next]_vars, NEW q \in Requests
  PROVE  Outcome(q)'
<1>0. /\ req[q] \in Request /\ DOMAIN req = Requests
      /\ Outcome(q) /\ IdsUnique
  BY Typed DEF Exchanges
<1>1. carried'[q] \in {0, 1} /\ (carried[q] = 1 => carried'[q] = 1)
  BY <1>0, CarriedOnce DEF Outcome
<1>2. req'[q].stage \in {"lock", "write"} \/ req'[q].id = 0 => carried'[q] = 0
  <2>1. CASE req[q].id # 0 /\ req[q].stage \notin {"lock", "write"}
    <3>1. req'[q].stage \notin {"lock", "write"}
      BY <1>0, <2>1, WrittenStays
    <3>2. ~Insert(q)
      BY <2>1 DEF Insert, Exchanges, IdsUnique, Early
    <3>3. QED BY <1>0, <2>1, <3>1, <3>2, IdStep
  <2>2. CASE ~(req[q].id # 0 /\ req[q].stage \notin {"lock", "write"})
    <3>1. carried[q] = 0
      BY <1>0, <2>2 DEF Outcome
    <3>2. carried'[q] = carried[q]
      BY <2>2, CarriedOnce DEF Unread, Tagged
    <3>3. QED BY <3>1, <3>2
  <2>3. QED BY <2>1, <2>2
<1>3. req'[q].slot \in Requests => req'[q].slot = q /\ carried'[q] = 1
  <2>1. CASE req'[q].slot = req[q].slot
    BY <1>0, <1>1, <2>1 DEF Outcome
  <2>2. ASSUME NEW d \in Conns, ReaderStep(d), req'[q] # req[q]
        PROVE  req'[q].slot \in Requests => req'[q].slot = q /\ carried'[q] = 1
    BY <1>1, <2>2, ToldOwn
  <2>3. Step(q) => req'[q].slot = req[q].slot
    BY OwnStep
  <2>4. QED BY <2>1, <2>2, <2>3, RequestStep
<1>4. req'[q].stage = "answered" => req'[q].slot = q
  <2> SUFFICES ASSUME req'[q].stage = "answered" PROVE req'[q].slot = q
    OBVIOUS
  <2>1. CASE req'[q] = req[q]
    BY <1>0, <2>1 DEF Outcome
  <2>2. CASE Step(q)
    <3>1. Wake(q)
      BY <2>2, StepStages DEF Step
    <3>2. req[q].slot \notin {Empty, Dropped} /\ req'[q].slot = req[q].slot
      BY <1>0, <3>1 DEF Wake, Goto, Request
    <3>3. QED BY <1>0, <3>2 DEF Outcome, Request
  <2>3. ASSUME NEW d \in Conns, ReaderStep(d), req'[q] # req[q] PROVE FALSE
    <3>1. Expecting(d, req[q].id, q) /\ \E slot : Told(q, slot)
      BY <2>3, ToldEntry DEF Exchanges
    <3>2. QED BY <1>0, <3>1 DEF Told, Expecting, Request
  <2>4. QED BY <2>1, <2>2, <2>3, RequestStep
<1>5. QED BY <1>1, <1>2, <1>3, <1>4 DEF Outcome

LEMMA ExchangesStep == TypeOK /\ Exchanges /\ Expected /\ [Next]_vars => Exchanges' /\ Expected'
BY IdsStep, TransitStep, OutcomeStep, ExpectedStep DEF Exchanges

LEMMA ExchangesInit == Init => TypeOK /\ Exchanges /\ Expected
<1> SUFFICES ASSUME Init PROVE TypeOK /\ Exchanges /\ Expected
  OBVIOUS
<1>1. NewConn \in Conn
  BY EmptySeq DEF NewConn, Conn
<1>2. conn \in Seq(Conn) /\ conn # <<>> /\ Conns = {1} /\ conn[1] = NewConn
  BY <1>1, EmptySeq DEF Init, Conns
<1>3. TypeOK
  BY <1>2 DEF Init, TypeOK, NewRequest, Request, Stages
<1>4. IdsUnique /\ \A r \in Requests : Outcome(r)
  BY StdioAssumption DEF Init, NewRequest, IdsUnique, Early, Outcome, Empty
<1>5. InTransit(1)
  BY <1>2, EmptySeq DEF InTransit, NewConn
<1>6. PendingIs
  BY <1>2 DEF Init, NewRequest, PendingIs, Expecting, NewConn
<1>7. Expected
  BY <1>2, <1>6 DEF Init, NewRequest, Expected, NewConn
<1>8. QED BY <1>2, <1>3, <1>4, <1>5, <1>7 DEF Exchanges

(* Nobody waits for a reply that cannot come, and the pending map holds no *)
(* entry of a request that has ended: an entry goes in with the id, and    *)
(* comes out with the reply, the deadline, the failed write or the end of  *)
(* the child, whichever is first (Conn::request, read_loop).               *)
THEOREM PendingAgrees == Spec => []PendingMatches
<1>1. TypeOK /\ Exchanges /\ Expected => PendingMatches
  <2> SUFFICES ASSUME TypeOK, Exchanges, Expected PROVE PendingMatches
    OBVIOUS
  <2>1. NoHopelessWait
    <3> SUFFICES ASSUME NEW r \in Requests, req[r].stage = "wait", req[r].slot = Empty
                 PROVE  /\ <<req[r].id, r>> \in conn[req[r].on].pending
                        /\ conn[req[r].on].reader # "done"
      BY DEF NoHopelessWait
    <3>1. req[r].on \in Conns /\ req[r].id \in Nat
      BY Typed DEF TypeOK, Request
    <3>2. QED BY <3>1 DEF Expected, PendingIs, Expecting
  <2>2. PendingExact
    <3> SUFFICES ASSUME NEW c \in Conns, NEW p \in conn[c].pending
                 PROVE  /\ req[p[2]].stage \in {"lock", "write", "check", "wait"}
                        /\ req[p[2]].on = c
                        /\ req[p[2]].id = p[1]
      BY DEF PendingExact
    <3>1. p[1] \in Nat /\ p[2] \in Requests /\ p = <<p[1], p[2]>>
      BY Typed DEF Conn
    <3>2. Expecting(c, p[1], p[2])
      BY <3>1 DEF Expected, PendingIs
    <3>3. QED BY <3>2 DEF Expecting
  <2>3. QED BY <2>1, <2>2 DEF PendingMatches
<1>2. QED BY <1>1, TypeStep, ExchangesInit, ExchangesStep, PTL DEF Spec

----------------------------------------------------------------------------
(* Children.                                                               *)

LEMMA DeadStays ==
  ASSUME TypeOK, [Next]_vars, NEW c \in Conns, conn[c].dead
  PROVE  conn'[c].dead
BY Disturbance DEF Disturbed

LEMMA SuccessionStep == TypeOK /\ Succession /\ [Next]_vars => Succession'
<1> SUFFICES ASSUME TypeOK, Succession, [Next]_vars PROVE Succession'
  OBVIOUS
<1>0. /\ Len(conn) \in Conns /\ Len(conn) \in Nat /\ DOMAIN req = Requests
      /\ \A r \in Requests : req[r] \in Request /\ r # 0
      /\ spawning \in Requests \cup {Nobody}
  BY Typed DEF TypeOK
<1>1. CASE Len(conn') = Len(conn) /\ spawning' = spawning
  <2>1. Conns' = Conns
    BY <1>1 DEF Conns
  <2>2. \A c \in Conns' : c # Len(conn') => conn'[c].dead
    BY <1>1, <2>1, DeadStays DEF Succession
  <2>3. spawning' # Nobody => conn'[Len(conn')].dead
    BY <1>0, <1>1, DeadStays DEF Succession
  <2>4. ASSUME NEW r \in Requests, req'[r].stage = "spawning" PROVE spawning' = r
    <3>1. CASE req[r].stage = "spawning"
      BY <1>1, <3>1 DEF Succession
    <3>2. CASE Step(r) /\ req[r].stage # "spawning"
      <4>1. Respawn(r)
        BY <2>4, <3>2, StepStages DEF Step
      <4>2. QED BY <1>0, <2>4, <4>1 DEF Respawn, Goto, Request
    <3>3. ASSUME NEW slot, Told(r, slot) PROVE req'[r].stage = req[r].stage
      BY <1>0, <3>3 DEF Told, Request
    <3>4. QED BY <2>4, <3>1, <3>2, <3>3, RequestStep
  <2>5. QED BY <2>2, <2>3, <2>4 DEF Succession
<1>2. ASSUME NEW r \in Requests, Respawn(r), spawning' # spawning
      PROVE  Succession'
  <2>1. /\ conn' = conn /\ spawning' = r /\ spawning = Nobody /\ conn[Len(conn)].dead
        /\ \A q \in Requests \ {r} : req'[q] = req[q]
    <3>1. ~Recheck /\ spawning' = r /\ conn' = conn /\ Goto(r, "spawning") /\ spawning = Nobody
      BY <1>2 DEF Respawn
    <3>2. QED BY <1>0, <3>1 DEF Recheck, Live, Current, Goto
  <2>2. \A q \in Requests : req[q].stage # "spawning"
    BY <1>0, <2>1, StdioAssumption DEF Succession, Nobody
  <2>3. QED BY <2>1, <2>2 DEF Succession, Conns
<1>3. ASSUME NEW r \in Requests, SpawnOk(r) \/ SpawnFails(r) PROVE Succession'
  <2>1. /\ spawning = r /\ spawning' = Nobody /\ spawning # Nobody /\ req'[r].stage # "spawning"
        /\ \A q \in Requests \ {r} : req'[q] = req[q]
    BY <1>0, <1>3, StdioAssumption DEF SpawnOk, SpawnFails, Succession, Nobody, Goto, Request
  <2>2. \A c \in Conns : conn[c].dead
    BY <2>1 DEF Succession
  <2>3. \A q \in Requests : req'[q].stage # "spawning"
    BY <2>1 DEF Succession
  <2>4. \A c \in Conns' : c # Len(conn') => conn'[c].dead
    <3>1. CASE SpawnFails(r)
      BY <2>2, <3>1 DEF SpawnFails, Conns
    <3>2. CASE SpawnOk(r)
      BY <2>2, <3>2, SpawnConn DEF SpawnOk
    <3>3. QED BY <1>3, <3>1, <3>2
  <2>5. QED BY <2>1, <2>3, <2>4 DEF Succession
<1>4. ASSUME NEW r \in Requests, Step(r)
      PROVE  \/ spawning' = spawning /\ Len(conn') = Len(conn)
             \/ Respawn(r) /\ spawning' # spawning
             \/ SpawnOk(r) \/ SpawnFails(r)
  <2>1. CASE Connect(r) \/ Respawn(r) \/ Wake(r)
    BY <2>1 DEF Connect, Respawn, Wake
  <2>2. CASE Insert(r) \/ LockWriter(r) \/ WriteFrame(r) \/ WriteFails(r) \/ CheckDead(r)
             \/ TimeOut(r) \/ Cancel(r)
    <3>1. spawning' = spawning
      BY <2>2 DEF Insert, LockWriter, WriteFrame, WriteFails, CheckDead, TimeOut, Cancel
    <3>2. conn' = conn \/ \E k : Replaced(req[r].on, k)
      BY <2>2, CallerConn
    <3>3. QED BY <3>1, <3>2, ReplacedIs
  <2>3. QED BY <1>4, <2>1, <2>2 DEF Step
<1>5. ASSUME NEW c \in Conns, ReaderStep(c)
      PROVE  spawning' = spawning /\ Len(conn') = Len(conn)
  <2>1. spawning' = spawning
    BY <1>5 DEF ReaderStep, ReadLine, ReaderLock, ReaderWrite, ReaderEof, Drain
  <2>2. \E k : Replaced(c, k)
    BY <1>5, ReaderConn DEF ReaderStep
  <2>3. QED BY <2>1, <2>2, ReplacedIs
<1>6. ASSUME NEW c \in Conns,
             ChildRead(c) \/ ChildReply(c) \/ ChildPing(c) \/ ChildMute(c) \/ ChildExit(c)
      PROVE  spawning' = spawning /\ Len(conn') = Len(conn)
  <2>1. spawning' = spawning
    BY <1>6, ChildSilent
  <2>2. \E k : Replaced(c, k)
    BY <1>6, ChildConn
  <2>3. QED BY <2>1, <2>2, ReplacedIs
<1>7. CASE Cool \/ UNCHANGED vars
  BY <1>1, <1>7 DEF Cool, vars
<1>8. QED BY <1>1, <1>2, <1>3, <1>4, <1>5, <1>6, <1>7 DEF Next

(* A child that runs is never replaced: a request spawns only under the    *)
(* respawn lock and once it has seen the last child dead, and no child     *)
(* comes back to life (Upstream::connection).                              *)
THEOREM RunningChildStays == Spec => []LiveNeverReplaced
<1>1. Init => TypeOK /\ Succession
  BY ExchangesInit DEF Init, Succession, NewRequest, Conns, Nobody
<1>2. TypeOK /\ Succession => LiveNeverReplaced
  BY Typed DEF Succession, LiveNeverReplaced
<1>3. QED BY <1>1, <1>2, TypeStep, SuccessionStep, PTL DEF Spec

----------------------------------------------------------------------------
(* The promise.                                                            *)

Fate(q) ==
  CASE req[q].stage = "new" -> "unused"
    [] req[q].stage \in {"answered", "failed"} -> req[q].stage
    [] OTHER -> "open"
Answered(q) == IF req[q].stage = "answered" THEN req[q].slot ELSE Nobody

(* The fate a request's own step brings it.                                *)
LEMMA OwnFate ==
  ASSUME TypeOK, Exchanges, NEW q \in Requests, Step(q)
  PROVE  /\ \/ Fate(q) = "unused" /\ Fate(q)' = "open"
            \/ Fate(q) = "open" /\ Fate(q)' \in {"open", "failed"}
            \/ /\ Fate(q) = "open" /\ Fate(q)' = "answered"
               /\ carried[q] = 1 /\ Answered(q)' = q
         /\ Answered(q) = 0 /\ (Fate(q)' # "answered" => Answered(q)' = 0)
         /\ carried' = carried
<1>0. /\ req[q] \in Request /\ DOMAIN req = Requests
      /\ Outcome(q)
  BY Typed DEF Exchanges
<1>1. carried' = carried
  BY DEF Step, Connect, Respawn, SpawnOk, SpawnFails, Insert, LockWriter,
     WriteFrame, WriteFails, CheckDead, Wake, TimeOut, Cancel
<1>2. req[q].stage \notin {"answered", "failed"}
  BY DEF Step, Connect, Respawn, SpawnOk, SpawnFails, Insert, LockWriter,
     WriteFrame, WriteFails, CheckDead, Wake, TimeOut, Cancel
<1>3. CASE Connect(q)
  BY <1>0, <1>1, <1>3 DEF Connect, Fate, Answered, Nobody, Request
<1>4. CASE Wake(q)
  <2>1. /\ req[q].stage = "wait" /\ req'[q].stage \in {"answered", "failed"}
        /\ req'[q].slot = req[q].slot
        /\ req'[q].stage = "answered" => req[q].slot = q /\ carried[q] = 1
    BY <1>0, <1>4 DEF Wake, Goto, Request, Outcome
  <2>2. QED BY <1>1, <2>1 DEF Fate, Answered, Nobody
<1>5. CASE ~Connect(q) /\ ~Wake(q)
  <2>1. req[q].stage # "new" /\ req'[q].stage \notin {"new", "answered"}
    BY <1>5, StepStages DEF Step
  <2>2. QED BY <1>1, <1>2, <2>1 DEF Fate, Answered, Nobody
<1>6. QED BY <1>3, <1>4, <1>5

(* What the reader tells a request is for it to wake to.                   *)
LEMMA ToldFate ==
  ASSUME TypeOK, Exchanges, Expected, [Next]_vars, NEW q \in Requests, req' = req \/
         \E d \in Conns : ReaderStep(d)
  PROVE  Fate(q)' = Fate(q) /\ Answered(q)' = Answered(q)
<1>0. req[q] \in Request
  BY Typed
<1>1. CASE req'[q] = req[q]
  BY <1>1 DEF Fate, Answered
<1>2. ASSUME NEW d \in Conns, ReaderStep(d), req'[q] # req[q]
      PROVE  Fate(q)' = Fate(q) /\ Answered(q)' = Answered(q)
  <2>1. Expecting(d, req[q].id, q) /\ \E slot : Told(q, slot)
    BY <1>2, ToldEntry DEF Exchanges
  <2>2. req'[q].stage = req[q].stage /\ req[q].stage # "answered"
    BY <1>0, <2>1 DEF Told, Expecting, Request
  <2>3. QED BY <2>2 DEF Fate, Answered
<1>3. QED BY <1>1, <1>2

(* Every step is one of RpcPromise's, or none.                             *)
LEMMA PromiseStep ==
  ASSUME TypeOK, Exchanges, Expected, [Next]_vars
  PROVE  [Promise!Next]_(Promise!vars)
<1> DEFINE fate == [q \in Requests |-> Fate(q)]
           answer == [q \in Requests |-> Answered(q)]
<1>1. ASSUME NEW r \in Requests, Step(r)
      PROVE  [Promise!Next]_(Promise!vars)
  <2>1. /\ fate' = [fate EXCEPT ![r] = Fate(r)']
        /\ answer' = [answer EXCEPT ![r] = Answered(r)']
    BY <1>1, OthersUntouched DEF Fate, Answered
  <2>2. fate[r] = Fate(r) /\ answer[r] = Answered(r) /\ carried' = carried
    BY <1>1, OwnFate
  <2>3. /\ Fate(r)' = Fate(r) => fate' = fate
        /\ Answered(r)' = Answered(r) => answer' = answer
    <3>1. /\ fate = [fate EXCEPT ![r] = fate[r]]
          /\ answer = [answer EXCEPT ![r] = answer[r]]
      OBVIOUS
    <3> HIDE DEF fate, answer
    <3>2. QED BY <2>1, <2>2, <3>1
  <2>4. CASE Fate(r) = "unused" /\ Fate(r)' = "open"
    <3>1. Promise!Issue(r)
      BY <1>1, <2>1, <2>2, <2>3, <2>4, OwnFate DEF Promise!Issue, Fate, Answered
    <3>2. QED BY <3>1 DEF Promise!Next
  <2>5. CASE Fate(r) = "open" /\ Fate(r)' = "failed"
    <3>1. Promise!Fail(r)
      BY <1>1, <2>1, <2>2, <2>3, <2>5, OwnFate DEF Promise!Fail, Fate, Answered
    <3>2. QED BY <3>1 DEF Promise!Next
  <2>6. CASE Fate(r) = "open" /\ Fate(r)' = "answered" /\ carried[r] = 1 /\ Answered(r)' = r
    <3>1. Promise!Answer(r)
      BY <2>1, <2>2, <2>6 DEF Promise!Answer, Fate, Answered
    <3>2. QED BY <3>1 DEF Promise!Next
  <2>7. CASE Fate(r) = "open" /\ Fate(r)' = "open"
    BY <1>1, <2>2, <2>3, <2>7, OwnFate DEF Promise!vars, Fate, Answered
  <2>8. QED BY <1>1, <2>4, <2>5, <2>6, <2>7, OwnFate
<1>2. ASSUME req' = req \/ \E d \in Conns : ReaderStep(d)
      PROVE  [Promise!Next]_(Promise!vars)
  <2>1. fate' = fate /\ answer' = answer
    BY <1>2, ToldFate
  <2>2. CASE carried' = carried
    BY <2>1, <2>2 DEF Promise!vars, Fate, Answered
  <2>3. ASSUME NEW q \in Requests, carried'[q] # carried[q]
        PROVE  [Promise!Next]_(Promise!vars)
    <3>1. /\ carried[q] = 0 /\ carried'[q] = 1
          /\ \A t \in Requests \ {q} : carried'[t] = carried[t]
          /\ \E d, id : Unread(d, id, q)
      BY <2>3, CarriedOnce
    <3>2. Fate(q) \in {"open", "failed"}
      BY <3>1 DEF Unread, Tagged, Exchanges, Outcome, IdsUnique, Early, Fate
    <3>3. carried' = [carried EXCEPT ![q] = 1]
      BY <3>1, TypeStep DEF TypeOK
    <3>4. Promise!CarryOut(q)
      BY <2>1, <3>1, <3>2, <3>3 DEF Promise!CarryOut, Fate, Answered
    <3>5. QED BY <3>4 DEF Promise!Next
  <2>4. carried' = carried \/ \E q \in Requests : carried'[q] # carried[q]
    BY TypeStep DEF TypeOK
  <2>5. QED BY <2>2, <2>3, <2>4
<1>3. QED BY <1>1, <1>2, ChildSilent DEF Next

(* The pipe transport implements RpcPromise: whatever the child and the    *)
(* deadlines do, a request is carried out at most once, and its caller     *)
(* hears one outcome, the child's answer to that very request or a         *)
(* failure (Conn::request, read_loop).                                     *)
THEOREM ImplementsPromise == Spec => KeepsPromise
<1>1. Init => Promise!Init
  BY DEF Init, NewRequest, Promise!Init, Nobody
<1>2. TypeOK /\ Exchanges /\ Expected /\ [Next]_vars => [Promise!Next]_(Promise!vars)
  BY PromiseStep
<1>3. QED BY <1>1, <1>2, TypeStep, ExchangesInit, ExchangesStep, PTL
          DEF Spec, KeepsPromise, Promise!Spec
=============================================================================
