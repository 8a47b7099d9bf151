------------------------------- MODULE Stdio -------------------------------
(***************************************************************************)
(* One stdio upstream, src/src/upstream.rs: a child process behind two     *)
(* pipes, requests multiplexed over it by id, one reader task, a writer    *)
(* lock, and a respawn when the child has died.                            *)
(*                                                                         *)
(* A request is a future that Upstream::rpc runs; it is given an id on the *)
(* connection it got, so ids repeat from one child to the next.  Frames    *)
(* hold what the properties need: the id, and which request it carries.    *)
(* Pipes hold a number of frames.  The handshake of a fresh child is part  *)
(* of spawning it: it comes up or it does not.                             *)
(***************************************************************************)
EXTENDS Integers, Sequences, FiniteSets

CONSTANTS
  Requests,     (* positive integers: a request doubles as its payload     *)
  MaxConns,     (* bound of the model: children started                    *)
  MaxPings,     (* bound of the model: pings a child sends                 *)
  StdinRoom,    (* frames the child's stdin pipe holds                     *)
  StdoutRoom,   (* lines its stdout pipe holds                             *)
  OneAtATime    (* the child answers a request before it reads the next    *)

ASSUME StdioAssumption ==
  /\ Requests \subseteq Nat \ {0}
  /\ MaxConns \in Nat \ {0}
  /\ {MaxPings} \subseteq Nat
  /\ {StdinRoom, StdoutRoom} \subseteq Nat \ {0}
  /\ OneAtATime \in BOOLEAN

VARIABLES
  req,        (* each request's progress                                   *)
  conn,       (* the connections, one per child started                    *)
  spawning,   (* the request that holds the respawn lock, or Nobody        *)
  recent,     (* the last spawn was less than MIN_RESPAWN_INTERVAL ago     *)
  carried     (* how often each request was carried out                    *)

vars == <<req, conn, spawning, recent, carried>>

Nobody == 0
Reader == -1     (* the reader task, as a holder of the writer lock        *)
Dropped == -1    (* the oneshot's sender went away                         *)
Empty == 0       (* nothing has been sent on the oneshot                   *)

Conns == 1..Len(conn)
Current == Len(conn)
Live == ~conn[Current].dead

(* A fresh connection.                                                     *)
NewConn ==
  [dead    |-> FALSE,
   lastId  |-> 0,
   pending |-> {},            (* <<id, request>> pairs                     *)
   writer  |-> Nobody,
   stdin   |-> <<>>,
   stdout  |-> <<>>,
   child   |-> "up",          (* "mute": closed its stdout; "gone": exited *)
   owed    |-> {},            (* <<id, request>> the child has yet to answer *)
   pings   |-> 0,
   reader  |-> "read"]

Stages ==
  {"new", "respawn", "spawning", "insert", "lock", "write", "check", "wait",
   "cancel", "answered", "failed"}

NewRequest == [stage |-> "new", on |-> 0, id |-> 0, slot |-> Empty]

Init ==
  /\ req = [r \in Requests |-> NewRequest]
  /\ conn = <<NewConn>>
  /\ spawning = Nobody
  /\ recent = TRUE
  /\ carried = [r \in Requests |-> 0]

Goto(r, stage) == req' = [req EXCEPT ![r].stage = stage]

----------------------------------------------------------------------------
(* Getting a connection: Upstream::connection.                             *)

(* The fast path, or the queue for the respawn lock.                       *)
Connect(r) ==
  /\ req[r].stage = "new"
  /\ req' = [req EXCEPT ![r].stage = IF Live THEN "insert" ELSE "respawn",
                        ![r].on = Current]
  /\ UNCHANGED <<conn, spawning, recent, carried>>

(* A faulty Recheck: the lock's holder does not look again.                *)
RecheckForgotten == FALSE

(* Under the lock: has another caller respawned while this one waited?     *)
Recheck == Live

Respawn(r) ==
  /\ req[r].stage = "respawn"
  /\ spawning = Nobody
  /\ \/ /\ Recheck
        /\ req' = [req EXCEPT ![r].stage = "insert", ![r].on = Current]
        /\ UNCHANGED <<spawning, recent>>
     \/ /\ ~Recheck /\ recent
        /\ Goto(r, "failed")
        /\ UNCHANGED <<spawning, recent>>
     \/ /\ ~Recheck /\ ~recent
        /\ Goto(r, "spawning")
        /\ spawning' = r
        /\ recent' = TRUE
  /\ UNCHANGED <<conn, carried>>

SpawnOk(r) ==
  /\ req[r].stage = "spawning"
  /\ Len(conn) < MaxConns
  /\ conn' = Append(conn, NewConn)
  /\ req' = [req EXCEPT ![r].stage = "insert", ![r].on = Len(conn) + 1]
  /\ spawning' = Nobody
  /\ UNCHANGED <<recent, carried>>

SpawnFails(r) ==
  /\ req[r].stage = "spawning"
  /\ Goto(r, "failed")
  /\ spawning' = Nobody
  /\ UNCHANGED <<conn, recent, carried>>

----------------------------------------------------------------------------
(* One exchange: Conn::request.                                            *)

(* A faulty NextId: the id of a request that was given up on is used again. *)
NextIdReused(c) == Cardinality(conn[c].pending) + 1

NextId(c) == conn[c].lastId + 1

Insert(r) ==
  LET c == req[r].on
  IN  /\ req[r].stage = "insert"
      /\ conn' = [conn EXCEPT ![c].lastId = NextId(c),
                              ![c].pending = {p \in @ : p[1] # NextId(c)}
                                               \cup {<<NextId(c), r>>}]
      /\ req' = [req EXCEPT ![r].stage = "lock", ![r].id = NextId(c)]
      /\ UNCHANGED <<spawning, recent, carried>>

LockWriter(r) ==
  LET c == req[r].on
  IN  /\ req[r].stage = "lock"
      /\ conn[c].writer = Nobody
      /\ conn' = [conn EXCEPT ![c].writer = r]
      /\ Goto(r, "write")
      /\ UNCHANGED <<spawning, recent, carried>>

Forget(c, id) == {p \in conn[c].pending : p[1] # id}

(* The frame goes into the pipe once there is room for it, however long    *)
(* that takes: no deadline covers the write.                               *)
WriteFrame(r) ==
  LET c == req[r].on
  IN  /\ req[r].stage = "write"
      /\ conn[c].child # "gone"
      /\ Len(conn[c].stdin) < StdinRoom
      /\ conn' = [conn EXCEPT ![c].stdin = Append(@, <<"call", req[r].id, r>>),
                              ![c].writer = Nobody]
      /\ Goto(r, "check")
      /\ UNCHANGED <<spawning, recent, carried>>

WriteFails(r) ==
  LET c == req[r].on
  IN  /\ req[r].stage = "write"
      /\ conn[c].child = "gone"
      /\ conn' = [conn EXCEPT ![c].pending = Forget(c, req[r].id),
                              ![c].dead = TRUE, ![c].writer = Nobody]
      /\ Goto(r, "failed")
      /\ UNCHANGED <<spawning, recent, carried>>

(* A faulty DeadAfterWrite: the flag is not looked at.                     *)
DeadUnseen(c) == FALSE

(* The look at `dead` between the write and the wait.                      *)
DeadAfterWrite(c) == conn[c].dead

CheckDead(r) ==
  LET c == req[r].on
  IN  /\ req[r].stage = "check"
      /\ IF DeadAfterWrite(c)
         THEN /\ conn' = [conn EXCEPT ![c].pending = Forget(c, req[r].id)]
              /\ Goto(r, "failed")
         ELSE UNCHANGED conn /\ Goto(r, "wait")
      /\ UNCHANGED <<spawning, recent, carried>>

(* The oneshot resolves: with a reply, or because its sender was dropped.  *)
Wake(r) ==
  /\ req[r].stage = "wait"
  /\ req[r].slot # Empty
  /\ Goto(r, IF req[r].slot = Dropped THEN "failed" ELSE "answered")
  /\ UNCHANGED <<conn, spawning, recent, carried>>

(* A faulty Expired: no deadline on the wait.                              *)
ExpiredNever(r) == FALSE

Expired(r) == req[r].slot = Empty

ForgetOnTimeout(c, id) == Forget(c, id)

TimeOut(r) ==
  LET c == req[r].on
  IN  /\ req[r].stage = "wait"
      /\ Expired(r)
      /\ conn' = [conn EXCEPT ![c].pending = ForgetOnTimeout(c, req[r].id)]
      /\ Goto(r, "cancel")
      /\ UNCHANGED <<spawning, recent, carried>>

(* The cancellation notice: written if the pipe takes it within a second,  *)
(* given up otherwise.                                                     *)
Cancel(r) ==
  LET c == req[r].on
  IN  /\ req[r].stage = "cancel"
      /\ \/ /\ conn[c].writer = Nobody
            /\ conn[c].child # "gone"
            /\ Len(conn[c].stdin) < StdinRoom
            /\ conn' = [conn EXCEPT ![c].stdin = Append(@, <<"cancel", req[r].id, r>>)]
         \/ UNCHANGED conn
      /\ Goto(r, "failed")
      /\ UNCHANGED <<spawning, recent, carried>>

----------------------------------------------------------------------------
(* The reader task: read_loop.                                             *)

Route(c, id) == {p \in conn[c].pending : p[1] = id}

(* One line: a reply goes to the request whose id it has, if that request  *)
(* still waits, and is discarded otherwise; a ping must be answered.       *)
ReadLine(c) ==
  LET line == Head(conn[c].stdout)
      to == IF line[1] = "reply" THEN Route(c, line[2]) ELSE {}
  IN  /\ conn[c].reader = "read"
      /\ conn[c].stdout # <<>>
      /\ conn' = [conn EXCEPT ![c].stdout = Tail(@),
                              ![c].pending = @ \ to,
                              ![c].reader = IF line[1] = "ping" THEN "lock" ELSE "read"]
      /\ req' = [r \in Requests |->
                   IF \E p \in to : p[2] = r THEN [req[r] EXCEPT !.slot = line[3]]
                   ELSE req[r]]
      /\ UNCHANGED <<spawning, recent, carried>>

(* The reader's own frame takes the same lock as any caller's, and the     *)
(* same pipe: until it is written nothing is read.                         *)
ReaderLock(c) ==
  /\ conn[c].reader = "lock"
  /\ conn[c].writer = Nobody
  /\ conn' = [conn EXCEPT ![c].writer = Reader, ![c].reader = "write"]
  /\ UNCHANGED <<req, spawning, recent, carried>>

ReaderWrite(c) ==
  /\ conn[c].reader = "write"
  /\ \/ /\ conn[c].child = "gone"
        /\ conn' = [conn EXCEPT ![c].writer = Nobody, ![c].dead = TRUE,
                                ![c].reader = "drain"]
     \/ /\ conn[c].child # "gone"
        /\ Len(conn[c].stdin) < StdinRoom
        /\ conn' = [conn EXCEPT ![c].writer = Nobody, ![c].reader = "read",
                                ![c].stdin = Append(@, <<"pong", 0, Nobody>>)]
  /\ UNCHANGED <<req, spawning, recent, carried>>

(* End of file: the connection is dead, and then every waiter is failed.   *)
ReaderEof(c) ==
  /\ conn[c].reader = "read"
  /\ conn[c].stdout = <<>>
  /\ conn[c].child # "up"
  /\ conn' = [conn EXCEPT ![c].dead = TRUE, ![c].reader = "drain"]
  /\ UNCHANGED <<req, spawning, recent, carried>>

Drain(c) ==
  /\ conn[c].reader = "drain"
  /\ conn' = [conn EXCEPT ![c].pending = {}, ![c].reader = "done"]
  /\ req' = [r \in Requests |->
               IF \E p \in conn[c].pending : p[2] = r
               THEN [req[r] EXCEPT !.slot = Dropped] ELSE req[r]]
  /\ UNCHANGED <<spawning, recent, carried>>

----------------------------------------------------------------------------
(* The child, and the clock of the crash-loop guard.                       *)

(* The child reads a frame: it carries a call out, or drops what it owes   *)
(* for a cancelled one.  One that closed its stdout owes nobody a reply.   *)
ChildRead(c) ==
  LET frame == Head(conn[c].stdin)
  IN  /\ conn[c].child # "gone"
      /\ conn[c].stdin # <<>>
      /\ OneAtATime => conn[c].owed = {}
      /\ conn' = [conn EXCEPT
           ![c].stdin = Tail(@),
           ![c].owed = CASE conn[c].child = "mute" -> {}
                         [] frame[1] = "call"   -> @ \cup {<<frame[2], frame[3]>>}
                         [] frame[1] = "cancel" -> {p \in @ : p[1] # frame[2]}
                         [] OTHER               -> @]
      /\ carried' = IF frame[1] = "call" THEN [carried EXCEPT ![frame[3]] = @ + 1]
                                          ELSE carried
      /\ UNCHANGED <<req, spawning, recent>>

ChildReply(c) ==
  /\ conn[c].child = "up"
  /\ Len(conn[c].stdout) < StdoutRoom
  /\ \E p \in conn[c].owed :
       conn' = [conn EXCEPT ![c].owed = @ \ {p},
                            ![c].stdout = Append(@, <<"reply", p[1], p[2]>>)]
  /\ UNCHANGED <<req, spawning, recent, carried>>

ChildPing(c) ==
  /\ conn[c].child = "up"
  /\ Len(conn[c].stdout) < StdoutRoom
  /\ conn[c].pings < MaxPings
  /\ conn' = [conn EXCEPT ![c].pings = @ + 1,
                          ![c].stdout = Append(@, <<"ping", 0, Nobody>>)]
  /\ UNCHANGED <<req, spawning, recent, carried>>

(* It closes its stdout and lives on, or exits.                            *)
ChildMute(c) ==
  /\ conn[c].child = "up"
  /\ conn' = [conn EXCEPT ![c].child = "mute", ![c].owed = {}]
  /\ UNCHANGED <<req, spawning, recent, carried>>

ChildExit(c) ==
  /\ conn[c].child # "gone"
  /\ conn' = [conn EXCEPT ![c].child = "gone", ![c].owed = {}, ![c].stdin = <<>>]
  /\ UNCHANGED <<req, spawning, recent, carried>>

(* MIN_RESPAWN_INTERVAL has passed since the last start.                   *)
Cool ==
  /\ recent
  /\ recent' = FALSE
  /\ UNCHANGED <<req, conn, spawning, carried>>

----------------------------------------------------------------------------
(* The steps of a request that need no answer: the runtime polls it, and   *)
(* every wait but the writes' has a deadline.                              *)
Step(r) ==
  \/ Connect(r) \/ Respawn(r) \/ SpawnOk(r) \/ SpawnFails(r) \/ Insert(r)
  \/ LockWriter(r) \/ WriteFrame(r) \/ WriteFails(r) \/ CheckDead(r)
  \/ Wake(r) \/ TimeOut(r) \/ Cancel(r)

ReaderStep(c) ==
  ReadLine(c) \/ ReaderLock(c) \/ ReaderWrite(c) \/ ReaderEof(c) \/ Drain(c)

Next ==
  \/ \E r \in Requests : Step(r)
  \/ \E c \in Conns : ReaderStep(c)
  \/ \E c \in Conns : ChildRead(c)
  \/ \E c \in Conns : ChildReply(c)
  \/ \E c \in Conns : ChildPing(c)
  \/ \E c \in Conns : ChildMute(c)
  \/ \E c \in Conns : ChildExit(c)
  \/ Cool

Spec == Init /\ [][Next]_vars

(* The runtime polls every request and every reader; a request queued for  *)
(* a lock gets it in turn.  The child goes on reading its input when it    *)
(* can.  One that reads ahead need not ever answer; one that takes a       *)
(* request at a time answers it, or it would not read on.                  *)
Fairness ==
  /\ \A r \in Requests : SF_vars(Step(r))
  /\ \A c \in 1..MaxConns : /\ SF_vars(c \in Conns /\ ReaderStep(c))
                            /\ WF_vars(c \in Conns /\ ChildRead(c))
                            /\ OneAtATime => WF_vars(c \in Conns /\ ChildReply(c))

FairSpec == Spec /\ Fairness

----------------------------------------------------------------------------
(* Nobody waits for a reply that cannot come: a request that waits and has *)
(* heard nothing is still in the pending map, and a reader that may still  *)
(* answer or drain it is running.                                          *)
NoHopelessWait ==
  \A r \in Requests :
    req[r].stage = "wait" /\ req[r].slot = Empty =>
      /\ <<req[r].id, r>> \in conn[req[r].on].pending
      /\ conn[req[r].on].reader # "done"

(* The pending map holds no entry of a request that has ended: timeouts,   *)
(* failed writes and dead connections leave none behind.                   *)
PendingExact ==
  \A c \in Conns : \A p \in conn[c].pending :
    /\ req[p[2]].stage \in {"lock", "write", "check", "wait"}
    /\ req[p[2]].on = c
    /\ req[p[2]].id = p[1]

(* The pending map and the requests in flight agree, in both directions.   *)
PendingMatches == NoHopelessWait /\ PendingExact

(* Only a dead connection is ever replaced: however many callers find the  *)
(* child dead at once, no child is started beside one that runs, and at    *)
(* most one runs.                                                          *)
LiveNeverReplaced ==
  /\ spawning # Nobody => \A c \in Conns : conn[c].dead
  /\ \A c, d \in Conns : ~conn[c].dead /\ ~conn[d].dead => c = d

(* Every request ends.                                                     *)
EveryRequestEnds ==
  \A r \in Requests :
    (req[r].stage # "new") ~> (req[r].stage \in {"answered", "failed"})

(* A request's caller is told at most once, an answer is the child's       *)
(* answer to that very request, and no request is carried out twice.       *)
Promise == INSTANCE RpcPromise WITH
  fate <- [r \in Requests |->
             CASE req[r].stage = "new" -> "unused"
               [] req[r].stage \in {"answered", "failed"} -> req[r].stage
               [] OTHER -> "open"],
  answer <- [r \in Requests |-> IF req[r].stage = "answered" THEN req[r].slot ELSE Nobody],
  done <- carried

KeepsPromise == Promise!Spec
=============================================================================
