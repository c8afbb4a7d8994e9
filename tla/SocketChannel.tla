--------------------------- MODULE SocketChannel ----------------------------
(***************************************************************************)
(* A socket channel (lualib/skynet/socket_channel.lua): coroutines of one  *)
(* Lua service send requests over one connection that is opened on demand, *)
(* authenticated, and reopened after an error; a dispatch coroutine reads  *)
(* the answers and hands them out, by the order of the requests or by      *)
(* session.  A coroutine is a program counter that runs until it waits:    *)
(* Run executes it, one label for each stretch of code between two points  *)
(* where it may stop.  A response is abstracted to the number of the       *)
(* request it answers; multi-part responses are left out.                  *)
(* The sockets below are those of module LuaSocket, reduced to what the    *)
(* channel sees: connected, in the pool, who waits, who waits to close.    *)
(***************************************************************************)
EXTENDS Integers, Sequences, SequencesExt, FiniteSets, TLC

CONSTANTS
    Order,          \* TRUE: answers by order; FALSE: by session
    AuthRequests,   \* requests the auth function makes; 0: there is none
    Backups,        \* number of backup addresses
    Client,         \* coroutines that use the channel
    Ops,            \* what they may call
    MaxFd,          \* bound on the connections
    MaxCalls        \* bound on the calls

VARIABLES
    ch,       \* the Lua service: the channel, its coroutines, the Lua sockets
    mq,       \* messages to the service
    peer,     \* fd -> the connection as the socket thread and the peer see it
    asked,    \* fd -> requests the peer has received and not answered
    calls     \* calls made

vars == <<ch, mq, peer, asked, calls>>

D == "dispatch"
Co == Client \cup {D}
Fd == 1..MaxFd
SocketError == -1      \* a result that is not the number of a request
ResultFalse == -2

Idle == [at |-> "idle", w |-> FALSE, fd |-> 0, left |-> 0, once |-> FALSE,
         auth |-> 0, id |-> 0, op |-> "no"]

NoSocket == [connected |-> FALSE, pooled |-> FALSE, thread |-> "nil",
             closing |-> "nil", buf |-> <<>>, onclose |-> FALSE]

Init ==
    /\ ch = [sock |-> 0, closed |-> FALSE, authco |-> "nil", connecting |-> <<>>,
             queue |-> <<>>, waiting |-> FALSE, dispatch |-> FALSE,
             result |-> [co \in Client |-> 0], so |-> [fd \in Fd |-> NoSocket],
             nfd |-> 0, n |-> 0, pc |-> [co \in Co |-> Idle], ready |-> <<>>,
             cmds |-> <<>>, yields |-> <<>>, sends |-> <<>>, wrong |-> FALSE,
             self |-> FALSE, orphans |-> {}, asserted |-> FALSE]
    /\ mq = <<>> /\ calls = 0
    /\ peer = [fd \in Fd |-> "none"]
    /\ asked = [fd \in Fd |-> <<>>]

-----------------------------------------------------------------------------
(* Waiting, waking up, going on at a label.                                *)

Goto(c, co, at) == [c EXCEPT !.pc[co].at = at, !.pc[co].w = FALSE]
Wait(c, co, at) == [c EXCEPT !.pc[co].at = at, !.pc[co].w = TRUE]

Wakeup(c, co) == IF c.pc[co].w THEN [c EXCEPT !.ready = Append(@, co)] ELSE c

WakeupSocket(c, fd) ==
    IF c.so[fd].thread = "nil" THEN c
    ELSE Wakeup([c EXCEPT !.so[fd].thread = "nil"], c.so[fd].thread)

(* socket.close(fd), then label at.  It waits for the socket's end, or for *)
(* the coroutine that reads the socket, while the socket is connected.     *)
SocketClose(c, co, fd, at) ==
    IF ~c.so[fd].pooled THEN Goto(c, co, at)
    ELSE LET o == [c EXCEPT !.cmds = Append(@, [c |-> "close", fd |-> fd])]
         IN  IF ~c.so[fd].connected THEN Goto([o EXCEPT !.so[fd].pooled = FALSE], co, at)
             ELSE IF c.so[fd].thread # "nil"
             THEN Wait([o EXCEPT !.so[fd].closing = co, !.pc[co].fd = fd], co, at)
             ELSE Wait([o EXCEPT !.so[fd].thread = co, !.pc[co].fd = fd], co, at)

CloseChannelSocket(c, co, at) ==
    IF c.sock = 0 THEN Goto(c, co, at)
    ELSE SocketClose([c EXCEPT !.sock = 0], co, c.sock, at)

(* wakeup_all: every request in flight fails with the socket error. *)
RECURSIVE FailAll(_, _)
FailAll(c, q) ==
    IF q = <<>> THEN c
    ELSE FailAll(IF Head(q).co = "signal" THEN c
                 ELSE Wakeup([c EXCEPT !.result[Head(q).co] = SocketError], Head(q).co),
                 Tail(q))

WakeupAll(c) == FailAll([c EXCEPT !.queue = <<>>], c.queue)

(* Mutant: the dispatch coroutine is not woken for the new request. *)
PushResponseQuiet(c, co, id) == [c EXCEPT !.queue = Append(@, [co |-> co, id |-> id])]

PushResponse(c, co, id) ==
    LET p == [c EXCEPT !.queue = Append(@, [co |-> co, id |-> id])]
    IN  IF p.waiting THEN Wakeup([p EXCEPT !.waiting = FALSE], D) ELSE p

TermDispatchThread(c) ==
    IF Order /\ c.dispatch THEN PushResponse(c, "signal", 0) ELSE c

Disconnected(c, fd) == c.so[fd].pooled /\ ~c.so[fd].connected

-----------------------------------------------------------------------------
(* Connecting.                                                             *)

(* check_connection: "true", "false" or "nil"; it drops a connection the   *)
(* peer has closed.                                                        *)
Dropped(c) ==
    IF c.sock # 0 /\ Disconnected(c, c.sock)
    THEN [c EXCEPT !.so[c.sock].pooled = FALSE, !.sock = 0,
                   !.cmds = Append(@, [c |-> "close", fd |-> c.sock])]
    ELSE c

Connection(c, co) ==
    CASE c.sock # 0 /\ Disconnected(c, c.sock) -> "nil"
      [] c.sock # 0 /\ c.authco \in {"nil", co} -> "true"
      [] c.closed -> "false"
      [] OTHER -> "nil"

BlockConnect(c, co) ==
    LET d == Dropped(c)
        r == Connection(c, co)
    IN  CASE r = "true" -> Goto(d, co, "connected")
          [] r = "false" -> Goto(d, co, "failed")
          [] d.connecting # <<>> ->
               Wait([d EXCEPT !.connecting = Append(@, co),
                              !.self = @ \/ Head(d.connecting) = co], co, "checked")
          [] OTHER -> Goto([d EXCEPT !.connecting = <<co>>], co, "try")

Checked(c, co) ==
    Goto(Dropped(c), co, IF Connection(c, co) = "true" THEN "connected" ELSE "failed")

(* try_connect and connect_once. *)
Try(c, co) ==
    IF c.closed THEN Goto(c, co, "tried")
    ELSE Goto([c EXCEPT !.pc[co].left = Backups], co, "open")

OpenTcpClient(c, co) ==
    LET fd == c.nfd + 1
    IN  Wait([c EXCEPT !.nfd = fd, !.pc[co].fd = fd,
                       !.so[fd] = [NoSocket EXCEPT !.pooled = TRUE, !.thread = co],
                       !.cmds = Append(@, [c |-> "open", fd |-> fd])], co, "opened")

NextAddress(c, co) ==
    IF c.pc[co].left > 0 THEN Goto([c EXCEPT !.pc[co].left = @ - 1], co, "open")
    ELSE IF c.pc[co].once THEN Goto(c, co, "tried")
    ELSE Wait(c, co, "try")

OpenedTcp(c, co) ==
    LET fd == c.pc[co].fd
    IN  IF ~c.so[fd].connected
        THEN NextAddress([c EXCEPT !.so[fd].pooled = FALSE], co)
        ELSE Goto([TermDispatchThread(c) EXCEPT
                      !.asserted = @ \/ c.sock # 0 \/ c.authco # "nil"], co, "exit")

(* The connection is used when the old dispatch coroutine has ended. *)
AwaitExit(c, co) ==
    IF c.dispatch THEN Wait([c EXCEPT !.yields = Append(@, co)], co, "exit")
    ELSE LET s == [c EXCEPT !.sock = c.pc[co].fd, !.dispatch = TRUE,
                            !.pc[D] = [Idle EXCEPT !.at = "forked"]]
         IN  IF AuthRequests > 0
             THEN Goto([s EXCEPT !.authco = co, !.pc[co].auth = AuthRequests], co, "auth")
             ELSE Goto(s, co, "tried")

(* The auth function makes its requests over the channel, one by one. *)
AuthEnd(c, co, ok) ==
    IF ok /\ c.pc[co].auth > 1 THEN Goto([c EXCEPT !.pc[co].auth = @ - 1], co, "auth")
    ELSE IF ok
    THEN LET a == [c EXCEPT !.authco = "nil"]
         IN  Goto(a, co, IF a.sock # 0 THEN "tried" ELSE IF a.closed THEN "tried" ELSE "try")
    ELSE CloseChannelSocket(c, co, "authclosed")

AuthClosed(c, co) ==
    NextAddress([c EXCEPT !.authco = "nil"], co)

RECURSIVE WakeEach(_, _)
WakeEach(c, q) == IF q = <<>> THEN c ELSE WakeEach(Wakeup(c, Head(q)), Tail(q))

Tried(c, co) ==
    Goto(WakeEach([c EXCEPT !.connecting = <<>>], Tail(c.connecting)), co, "checked")

-----------------------------------------------------------------------------
(* A request over the connection.                                          *)

SendRequest(c, co) ==
    LET fd == c.sock
    IN  IF peer[fd] = "gone" THEN CloseChannelSocket(c, co, "sockerr")
        ELSE LET s == [c EXCEPT !.n = @ + 1, !.pc[co].id = c.n + 1,
                                !.sends = Append(@, [fd |-> fd, id |-> c.n + 1])]
             IN  Wait(PushResponse(s, co, c.n + 1), co, "answered")

SockErr(c, co) == Goto(WakeupAll(c), co, "failed")

Answered(c, co) ==
    LET r == c.result[co]
        a == [c EXCEPT !.result[co] = 0,
                       !.wrong = @ \/ r \notin {SocketError, ResultFalse, c.pc[co].id}]
    IN  Goto(a, co, IF r \in {SocketError, ResultFalse} THEN "failed" ELSE "done")

(* The end of a call; of the request of the auth function. *)
End(c, co, ok) ==
    IF c.authco = co THEN AuthEnd(c, co, ok)
    ELSE [c EXCEPT !.pc[co] = Idle]

Connected(c, co) ==
    IF c.pc[co].op = "request" \/ c.authco = co THEN SendRequest(c, co) ELSE Goto(c, co, "done")

CloseCall(c, co) ==
    IF c.closed THEN Goto(c, co, "done")
    ELSE CloseChannelSocket([TermDispatchThread(c) EXCEPT !.closed = TRUE], co, "done")

-----------------------------------------------------------------------------
(* The dispatch coroutine.                                                 *)

Forked(c) ==
    IF Order /\ (c.sock = 0 \/ ~c.so[c.sock].pooled) THEN Goto(c, D, "dexit")
    ELSE LET r == IF Order THEN [c EXCEPT !.so[c.sock].onclose = TRUE] ELSE c
         IN  Goto(r, D, "dloop")

(* pop_response; a popped request is kept in the dispatch coroutine. *)
Pop(c) ==
    IF c.queue = <<>> THEN Wait([c EXCEPT !.waiting = TRUE], D, "dpop")
    ELSE LET q == Head(c.queue)
             p == [c EXCEPT !.queue = Tail(@), !.pc[D].op = q.co]
         IN  IF q.co = "signal" THEN Goto(WakeupAll(p), D, "dexit")
             ELSE IF c.sock = 0
             THEN Goto(WakeupAll(Wakeup([p EXCEPT !.result[q.co] = SocketError], q.co)), D, "dexit")
             ELSE Goto([p EXCEPT !.pc[D].fd = c.sock], D, "dread")

Loop(c) ==
    IF c.sock = 0 THEN Goto(c, D, "dexit")
    ELSE IF Order THEN Pop(c)
    ELSE Goto([c EXCEPT !.pc[D].fd = c.sock], D, "dread")

(* The end of the dispatch coroutine.  It empties __request only where it  *)
(* calls wakeup_all: a request, or the close signal (0), that came later   *)
(* stays, and the next dispatch coroutine takes it for one of its own      *)
(* connection.  orphans keeps their numbers for the properties.            *)
DispatchExit(c) ==
    [c EXCEPT !.dispatch = FALSE, !.pc[D] = Idle,
              !.orphans = IF Order THEN @ \cup {c.queue[i].id : i \in 1..Len(c.queue)} ELSE @]

(* response(sock): it reads the connection the dispatch coroutine knows. *)
Deliver(c, r) ==
    IF Order
    THEN Goto(Wakeup([c EXCEPT !.result[c.pc[D].op] =
                         IF r.ok = "ok" THEN r.id ELSE ResultFalse], c.pc[D].op), D, "dloop")
    ELSE LET k == {i \in 1..Len(c.queue) : c.queue[i].id = r.id}
         IN  IF k = {} THEN Goto(c, D, "dloop")
             ELSE LET i == CHOOSE j \in k : TRUE
                      co == c.queue[i].co
                  IN  Goto(Wakeup([c EXCEPT !.queue = RemoveAt(@, i), !.result[co] =
                                      IF r.ok = "ok" THEN r.id ELSE ResultFalse], co), D, "dloop")

ReadNext(c, fd) ==
    LET r == Head(c.so[fd].buf)
        t == [c EXCEPT !.so[fd].buf = Tail(@)]
    IN  IF r.ok = "bad" THEN CloseChannelSocket(t, D, "derr") ELSE Deliver(t, r)

ReadResponse(c) ==
    LET fd == c.pc[D].fd
        so == c.so[fd]
    IN  IF so.pooled /\ so.buf # <<>> THEN ReadNext(c, fd)
        ELSE IF so.pooled /\ so.connected /\ so.thread = "nil"
        THEN Wait([c EXCEPT !.so[fd].thread = D], D, "dreread")
        ELSE CloseChannelSocket(c, D, "derr")

ReadAgain(c) ==
    LET fd == c.pc[D].fd
    IN  IF c.so[fd].buf # <<>> THEN ReadNext(c, fd) ELSE CloseChannelSocket(c, D, "derr")

DispatchError(c) ==
    LET h == c.pc[D].op
        t == IF Order THEN Wakeup([c EXCEPT !.result[h] = SocketError], h) ELSE c
    IN  Goto(WakeupAll(t), D, "dloop")

-----------------------------------------------------------------------------
(* Run(c, co): coroutine co from its label until it waits or ends.         *)

Exec(c, co) ==
    CASE c.pc[co].at = "block" -> BlockConnect(c, co)
      [] c.pc[co].at = "checked" -> Checked(c, co)
      [] c.pc[co].at = "try" -> Try(c, co)
      [] c.pc[co].at = "open" -> OpenTcpClient(c, co)
      [] c.pc[co].at = "opened" -> OpenedTcp(c, co)
      [] c.pc[co].at = "exit" -> AwaitExit(c, co)
      [] c.pc[co].at = "auth" -> BlockConnect(c, co)
      [] c.pc[co].at = "authclosed" -> AuthClosed(c, co)
      [] c.pc[co].at = "tried" -> Tried(c, co)
      [] c.pc[co].at = "connected" -> Connected(c, co)
      [] c.pc[co].at = "sockerr" -> SockErr(c, co)
      [] c.pc[co].at = "answered" -> Answered(c, co)
      [] c.pc[co].at = "close" -> CloseCall(c, co)
      [] c.pc[co].at = "change" -> CloseChannelSocket(c, co, "done")
      [] c.pc[co].at = "done" -> End(c, co, TRUE)
      [] c.pc[co].at = "failed" -> End(c, co, FALSE)
      [] c.pc[co].at = "forked" -> Forked(c)
      [] c.pc[co].at = "dloop" -> Loop(c)
      [] c.pc[co].at = "dpop" -> Pop(c)
      [] c.pc[co].at = "dread" -> ReadResponse(c)
      [] c.pc[co].at = "dreread" -> ReadAgain(c)
      [] c.pc[co].at = "derr" -> DispatchError(c)
      [] c.pc[co].at = "dexit" -> DispatchExit(c)

RECURSIVE Run(_, _)
Run(c, co) ==
    IF c.pc[co].w \/ c.pc[co].at = "idle" THEN c ELSE Run(Exec(c, co), co)

(* A coroutine woken in a wait of socket.lua leaves suspend_socket, which  *)
(* wakes the one that waits to close; socket.close takes the socket out of *)
(* the pool.                                                               *)
Woken(c, co) ==
    LET fd == c.pc[co].fd
        at == c.pc[co].at
        cl == IF fd = 0 THEN FALSE ELSE at \in {"sockerr", "done", "authclosed", "derr"}
        u == IF cl THEN [c EXCEPT !.so[fd].connected = FALSE, !.so[fd].pooled = FALSE] ELSE c
        k == IF fd = 0 THEN "nil" ELSE c.so[fd].closing
        suspended == cl \/ at \in {"dreread", "opened"}
    IN  IF suspended /\ k \notin {"nil", co} THEN Wakeup(u, k) ELSE u

-----------------------------------------------------------------------------
(* What a coroutine ordered while it ran leaves for the socket thread and  *)
(* the peer.                                                               *)

Posted(c) ==
    /\ ch' = [c EXCEPT !.yields = <<>>, !.sends = <<>>]
    /\ asked' = [fd \in Fd |-> asked[fd] \o
                   [i \in 1..Len(SelectSeq(c.sends, LAMBDA x : x.fd = fd)) |->
                       SelectSeq(c.sends, LAMBDA x : x.fd = fd)[i].id]]

Resume ==
    /\ ch.ready # <<>>
    /\ LET co == Head(ch.ready)
           c == Woken([ch EXCEPT !.ready = Tail(@)], co)
           r == Run([c EXCEPT !.pc[co].w = FALSE], co)
       IN  /\ Posted(r)
           /\ mq' = mq \o [i \in 1..Len(r.yields) |-> [e |-> "yield", co |-> r.yields[i]]]
    /\ UNCHANGED <<peer, calls>>

StartDispatch ==
    /\ ch.ready = <<>> /\ ch.pc[D].at = "forked"
    /\ Posted(Run(ch, D))
    /\ UNCHANGED <<mq, peer, calls>>

Free == ch.ready = <<>> /\ ch.pc[D].at # "forked"

Call(co, op, at, once) ==
    /\ Free /\ op \in Ops /\ ch.pc[co] = Idle /\ calls < MaxCalls
    /\ ch.nfd + Backups < MaxFd
    /\ calls' = calls + 1
    /\ LET r == Run([ch EXCEPT !.pc[co].at = at, !.pc[co].once = once, !.pc[co].op = op,
                               !.closed = @ /\ op # "connect"], co)
       IN  Posted(r)
    /\ UNCHANGED <<mq, peer>>

Request(co) == Call(co, "request", "block", TRUE)
Connect(co) == Call(co, "connect", "block", FALSE)
Close(co) == Call(co, "close", "close", FALSE)
ChangeHost(co) == Call(co, "changehost", IF ch.closed THEN "done" ELSE "change", FALSE)

(* The sleep between two attempts of a connect that goes on trying. *)
Retry(co) ==
    /\ Free /\ ch.pc[co].at = "try" /\ ch.pc[co].w
    /\ ch.nfd + Backups < MaxFd
    /\ Posted(Run([ch EXCEPT !.pc[co].w = FALSE], co))
    /\ UNCHANGED <<mq, peer, calls>>

-----------------------------------------------------------------------------
(* Messages to the service (the handlers of socket.lua).                   *)

Handle(e) == Free /\ mq # <<>> /\ Head(mq).e = e /\ mq' = Tail(mq) /\ UNCHANGED <<peer, asked, calls>>

OnYield == Handle("yield") /\ ch' = [ch EXCEPT !.ready = Append(@, Head(mq).co)]

OnConnect ==
    /\ Handle("connect")
    /\ LET fd == Head(mq).fd
       IN  ch' = WakeupSocket([ch EXCEPT !.so[fd].connected = TRUE], fd)

OnData ==
    /\ Handle("data")
    /\ LET fd == Head(mq).fd
       IN  ch' = IF ~ch.so[fd].pooled THEN ch
                 ELSE WakeupSocket([ch EXCEPT !.so[fd].buf =
                          Append(@, [id |-> Head(mq).id, ok |-> Head(mq).ok])], fd)

(* autoclose_cb: an order channel drops a connection that its peer closes  *)
(* while no request is in flight.                                          *)
AutoClose(c, fd) == c.so[fd].onclose /\ c.waiting /\ c.sock = fd

OnClose ==
    /\ Handle("close")
    /\ LET fd == Head(mq).fd
           down == WakeupSocket([ch EXCEPT !.so[fd].connected = FALSE], fd)
           end == [down EXCEPT !.cmds = Append(@, [c |-> "close", fd |-> fd])]
       IN  ch' = IF ~ch.so[fd].pooled THEN [ch EXCEPT !.cmds = Append(@, [c |-> "close", fd |-> fd])]
                 ELSE IF AutoClose(ch, fd) THEN [end EXCEPT !.sock = 0, !.so[fd].pooled = FALSE]
                 ELSE down

OnError ==
    /\ Handle("error")
    /\ LET fd == Head(mq).fd
           down == IF ch.so[fd].pooled
                   THEN WakeupSocket([ch EXCEPT !.so[fd].connected = FALSE], fd) ELSE ch
       IN  ch' = [down EXCEPT !.cmds = Append(@, [c |-> "close", fd |-> fd])]

-----------------------------------------------------------------------------
(* The socket thread and the peer.                                         *)

Event(e) == mq' = Append(mq, e)

Command ==
    /\ ch.cmds # <<>>
    /\ LET k == Head(ch.cmds)
           live == peer[k.fd] \in {"connecting", "open", "half"}
       IN  /\ peer' = [peer EXCEPT ![k.fd] = IF k.c = "open" THEN "connecting" ELSE "gone"]
           /\ IF k.c = "close" /\ live /\ peer[k.fd] # "half"
              THEN Event([e |-> "close", fd |-> k.fd]) ELSE UNCHANGED mq
    /\ ch' = [ch EXCEPT !.cmds = Tail(@)]
    /\ UNCHANGED <<asked, calls>>

Establish(fd) ==
    /\ peer[fd] = "connecting"
    /\ \/ peer' = [peer EXCEPT ![fd] = "open"] /\ Event([e |-> "connect", fd |-> fd])
       \/ peer' = [peer EXCEPT ![fd] = "gone"] /\ Event([e |-> "error", fd |-> fd])
    /\ UNCHANGED <<ch, asked, calls>>

Answer(fd) ==
    /\ peer[fd] = "open" /\ asked[fd] # <<>>
    /\ \E i \in IF Order THEN {1} ELSE 1..Len(asked[fd]), ok \in {"ok", "fail", "bad"} :
         /\ asked' = [asked EXCEPT ![fd] = RemoveAt(@, i)]
         /\ Event([e |-> "data", fd |-> fd, id |-> asked[fd][i], ok |-> ok])
    /\ UNCHANGED <<ch, peer, calls>>

PeerGone(fd) ==
    /\ peer[fd] = "open"
    /\ \/ peer' = [peer EXCEPT ![fd] = "half"] /\ Event([e |-> "close", fd |-> fd])
       \/ peer' = [peer EXCEPT ![fd] = "gone"] /\ Event([e |-> "error", fd |-> fd])
    /\ UNCHANGED <<ch, asked, calls>>

-----------------------------------------------------------------------------
Next ==
    \/ Resume \/ StartDispatch
    \/ \E co \in Client : Request(co) \/ Connect(co) \/ Close(co) \/ ChangeHost(co) \/ Retry(co)
    \/ OnYield \/ OnConnect \/ OnData \/ OnClose \/ OnError
    \/ Command
    \/ \E fd \in Fd : Establish(fd) \/ Answer(fd) \/ PeerGone(fd)

Spec == Init /\ [][Next]_vars

-----------------------------------------------------------------------------
Settled == Free /\ mq = <<>> /\ ch.cmds = <<>>

(* Type correctness: who is in the wakeup queue waits and is in it once,   *)
(* and the channel's socket is one that was opened.                        *)
TypeOK ==
    /\ ch.sock \in 0..ch.nfd /\ ch.nfd \in 0..MaxFd /\ calls \in 0..MaxCalls
    /\ IsInjective(ch.ready)
    /\ \A i \in 1..Len(ch.ready) : ch.pc[ch.ready[i]].w

(* channel:request returns the response to its own request, never that of  *)
(* another coroutine's, over any number of reconnections; by order, as     *)
(* long as no ending dispatch coroutine has left anything in the queue     *)
(* (dispatch_by_order, socket_channel.lua:179): a request left there takes *)
(* the place of one of the next connection, whose responses then go to the *)
(* wrong coroutines.                                                       *)
AnswersMatch == ch.wrong => ch.orphans # {}

(* No request is left behind: when nothing is on its way, a coroutine that *)
(* waits for a response waits for one the peer of the channel's connection *)
(* still owes; an error of the connection has reached everyone else        *)
(* (wakeup_all, dispatch_by_order, dispatch_by_session).  The exception is *)
(* an order channel one of whose dispatch coroutines ended and left        *)
(* something in the queue: a request there waits for ever, and a close     *)
(* signal there ends the next dispatch coroutine of the open connection.   *)
NoneStranded ==
    Settled /\ ch.orphans = {} => \A co \in Client :
        ch.pc[co].at = "answered" =>
            /\ ch.sock # 0 /\ peer[ch.sock] = "open"
            /\ ch.pc[co].id \in Range(asked[ch.sock])

(* Nobody waits in block_connect for a coroutine that does not connect.    *)
(* The exception is a channel whose auth function lost the connection and  *)
(* asks for the next one: it waits for the coroutine that connects, which  *)
(* is itself (socket_channel.lua:422), and everyone else waits with it.    *)
ConnectorAtWork ==
    Settled /\ ~ch.self => \A co \in Client :
        ch.pc[co].at = "checked" =>
            /\ ch.connecting # <<>>
            /\ ch.pc[Head(ch.connecting)].at # "checked"

(* A connection the channel has given up does not stay open: when nothing  *)
(* is on its way and nobody connects, only the channel's socket is left;   *)
(* and a new connection never finds an old one in its place (the assertion *)
(* of connect_once).                                                       *)
NoLeak ==
    /\ ~ch.asserted
    /\ Settled /\ ch.connecting = <<>> =>
        \A fd \in Fd : ch.so[fd].pooled \/ peer[fd] \in {"connecting", "open", "half"} => fd = ch.sock
=============================================================================
