----------------------------- MODULE LuaSocket ------------------------------
(***************************************************************************)
(* The socket API of a Lua service (lualib/skynet/socket.lua) for one      *)
(* socket id: the coroutines of the service that open, read, lock, close   *)
(* or abandon it, the handlers of the socket messages, and the socket      *)
(* thread behind the two channels (commands to it, messages from it).      *)
(* A coroutine runs until it waits; those that were woken run before the   *)
(* service takes its next message (skynet.lua's wakeup queue).             *)
(***************************************************************************)
EXTENDS Naturals, Sequences, SequencesExt, FiniteSets, TLC

(***************************************************************************)
(* The receive buffer of one Lua socket (luaclib-src/lua-socket.cpp): a    *)
(* list of the blocks the socket thread read, the offset of the first byte *)
(* not taken yet from the head block, the number of bytes left, and the    *)
(* pool of free list nodes with the number of chunks it was carved from.   *)
(* A block is a sequence of bytes; freeing one is dropping it.             *)
(***************************************************************************)

CONSTANTS
    LARGE_PAGE_NODE        \* log2 of the largest chunk of nodes (code: 12)

EmptyBuffer == [nodes |-> <<>>, offset |-> 0, size |-> 0, free |-> 0, tsz |-> 0]

(* The bytes in the buffer, in order. *)
Content(b) ==
    LET all == FlattenSeq(b.nodes) IN SubSeq(all, b.offset + 1, Len(all))

(* The nodes of a new chunk: 16, then 32, ..., at most 2^LARGE_PAGE_NODE. *)
ChunkSize(tsz) ==
    8 * 2 ^ (IF tsz <= LARGE_PAGE_NODE - 3 THEN tsz ELSE LARGE_PAGE_NODE - 3)

Grown(b) ==
    LET tsz == IF b.tsz = 0 THEN 1 ELSE b.tsz
    IN  IF b.free > 0 THEN b ELSE [b EXCEPT !.free = ChunkSize(tsz), !.tsz = tsz + 1]

Push(b, msg) ==
    LET g == Grown(b)
    IN  [g EXCEPT !.nodes = Append(@, msg), !.size = @ + Len(msg), !.free = @ - 1]

(* Mutant: the node goes back to the pool without resetting the offset. *)
ReturnFreeNodeKept(b) ==
    [b EXCEPT !.nodes = Tail(@), !.free = @ + 1]

ReturnFreeNode(b) ==
    [b EXCEPT !.nodes = Tail(@), !.offset = 0, !.free = @ + 1]

-----------------------------------------------------------------------------
(* _pop_lstring: take sz bytes and leave the last skip of them out of the  *)
(* result, across as many nodes as it needs.                               *)

Shown(sz, skip) == IF sz > skip THEN sz - skip ELSE 0

Bytes(b, n) == SubSeq(Head(b.nodes), b.offset + 1, b.offset + n)

Left(b) == Len(Head(b.nodes)) - b.offset

Advanced(b, sz) ==
    IF sz = Left(b) THEN ReturnFreeNode(b) ELSE [b EXCEPT !.offset = @ + sz]

RECURSIVE PopLstring(_, _, _, _)
PopLstring(b, sz, skip, out) ==
    IF Left(b) >= sz
    THEN [str |-> out \o Bytes(b, Shown(sz, skip)), buf |-> Advanced(b, sz)]
    ELSE LET n == IF Shown(sz, skip) < Left(b) THEN Shown(sz, skip) ELSE Left(b)
         IN  PopLstring(ReturnFreeNode(b), sz - Left(b), skip, out \o Bytes(b, n))

Taken(b, sz, skip) ==
    LET p == PopLstring(b, sz, skip, <<>>)
    IN  [p EXCEPT !.buf.size = @ - sz]

(* l_pop_socket_recv_buffer: sz bytes, or nil when there are not enough. *)
CanPop(b, sz) == b.size >= sz /\ sz # 0

Pop(b, sz) == Taken(b, sz, 0)

(* l_read_all: everything, node by node. *)
RECURSIVE ReadNodes(_, _)
ReadNodes(b, out) ==
    IF b.nodes = <<>> THEN [str |-> out, buf |-> [b EXCEPT !.size = 0]]
    ELSE ReadNodes(ReturnFreeNode(b), out \o Bytes(b, Left(b)))

ReadAll(b) == ReadNodes(b, <<>>)

-----------------------------------------------------------------------------
(* l_read_line: the separator is searched from every byte on, and may lie  *)
(* across nodes.                                                           *)

RECURSIVE CheckSep(_, _, _)
CheckSep(nodes, from, sep) ==
    LET sz == Len(Head(nodes)) - from
    IN  IF sz >= Len(sep) THEN SubSeq(Head(nodes), from + 1, from + Len(sep)) = sep
        ELSE /\ SubSeq(Head(nodes), from + 1, from + sz) = SubSeq(sep, 1, sz)
             /\ CheckSep(Tail(nodes), 0, SubSeq(sep, sz + 1, Len(sep)))

(* The bytes before the first separator, or the size of the buffer (no     *)
(* line) when there is none.                                               *)
RECURSIVE FindSep(_, _, _, _, _)
FindSep(nodes, from, sep, i, size) ==
    IF nodes = <<>> \/ i + Len(sep) > size THEN size
    ELSE IF CheckSep(nodes, from, sep) THEN i
    ELSE IF from + 1 = Len(Head(nodes)) THEN FindSep(Tail(nodes), 0, sep, i + 1, size)
    ELSE FindSep(nodes, from + 1, sep, i + 1, size)

LineEnd(b, sep) == FindSep(b.nodes, b.offset, sep, 0, b.size)

HasLine(b, sep) == LineEnd(b, sep) < b.size

ReadLine(b, sep) == Taken(b, LineEnd(b, sep) + Len(sep), Len(sep))

-----------------------------------------------------------------------------

CONSTANTS
    Kind,                  \* "client", "accepted", "listen" or "udp"
    BUFFER_LIMIT,          \* the size from which a socket is paused
    BufferLimit,           \* the limit socket.limit sets
    Stream,                \* the bytes the peer sends, then it closes
    Sep,                   \* the separator of read_line
    Sizes,                 \* the sizes socket.read asks for; 0: some bytes
    MaxBlock,              \* bound on a block of data
    ReaderOps, OtherOps,   \* what the two coroutines may call
    MaxOps,                \* bound on the calls
    MaxAccept              \* bound on the accepted connections

VARIABLES
    pool,      \* is the socket object in socket_object_pool?
    obj,       \* the socket object (coroutines keep it when it left the pool)
    pc,        \* where each coroutine waits
    ready,     \* the wakeup queue
    running,   \* the coroutine resumed last
    mq,        \* messages to the service, timer answers included
    cmds,      \* commands in the control pipe of the socket thread
    srv,       \* the socket in the socket thread
    sent,      \* bytes of Stream read by the socket thread
    got,       \* bytes the readers were given
    lost,      \* data came for a socket that had left the pool
    child,     \* accepted connections
    calls,     \* calls made
    failed     \* which coroutines an assertion of socket.lua has ended, and which one

vars == <<pool, obj, pc, ready, running, mq, cmds, srv, sent, got, lost,
          child, calls, failed>>

Reader == "reader"
Other == "other"
Co == {Reader, Other}
Nil == "nil"

Idle == [at |-> "idle", arg |-> 0, was |-> FALSE]
NotRequired == [t |-> "nil", n |-> 0]

NewSocketObject(connected, connecting, callback) ==
    [connected |-> connected, connecting |-> connecting, callback |-> callback,
     rr |-> NotRequired, thread |-> Nil, pause |-> FALSE, closing |-> Nil,
     lock_set |-> <<>>, limit |-> 0, buf |-> EmptyBuffer]

Init ==
    /\ pool = FALSE
    /\ obj = NewSocketObject(FALSE, FALSE, FALSE)
    /\ pc = [co \in Co |-> Idle]
    /\ ready = <<>> /\ running = Nil
    /\ mq = <<>> /\ cmds = <<>>
    /\ srv = [st |-> "none", reading |-> FALSE, writing |-> TRUE]
    /\ sent = 0 /\ got = <<>> /\ lost = FALSE
    /\ child = <<>> /\ calls = 0 /\ failed = {}

-----------------------------------------------------------------------------
(* Waiting and waking up.                                                  *)

(* A failed assertion ends the coroutine. *)
Fails(co, what) == failed' = failed \cup {[co |-> co, what |-> what]}
Dead == [at |-> "dead", arg |-> 0, was |-> FALSE]
Ends(co) == pc' = [pc EXCEPT ![co] = Dead]

Waits(co, at, arg, was) == pc' = [pc EXCEPT ![co] = [at |-> at, arg |-> arg, was |-> was]]

Unthreaded(o) == [o EXCEPT !.thread = Nil]

WakeupSocket(q, o) == IF o.thread = Nil THEN q ELSE Append(q, o.thread)

Started(o) == IF o.pause THEN Append(cmds, "start") ELSE cmds

(* suspend_socket, up to its skynet.wait, for a call that runs in co. *)
Suspend(co, o, at, arg) ==
    IF o.thread # Nil
    THEN Fails(co, "thread") /\ Ends(co) /\ obj' = o /\ UNCHANGED cmds
    ELSE /\ obj' = [o EXCEPT !.thread = co]
         /\ cmds' = Started(o)
         /\ Waits(co, at, arg, o.pause)
         /\ UNCHANGED failed

(* A call is made by a coroutine that runs: the one resumed last, or any   *)
(* when no woken coroutine is waiting for its turn.  The id of a client    *)
(* socket is not known before open_tcp_client returns it.                  *)
Call(co, op) ==
    /\ pc[co] = Idle /\ calls < MaxOps
    /\ Kind = "client" => ~obj.connecting
    /\ ready = <<>> \/ running = co
    /\ op \in IF co = Reader THEN ReaderOps ELSE OtherOps
    /\ calls' = calls + 1
    /\ running' = co

-----------------------------------------------------------------------------
(* Opening the socket: open_tcp_client, socket.start and udp_socket.       *)

Opened ==
    CASE Kind = "client" -> [st |-> "connecting", reading |-> TRUE, writing |-> TRUE]
      [] Kind = "udp" -> [st |-> "open", reading |-> TRUE, writing |-> TRUE]
      [] OTHER -> [st |-> "prepared", reading |-> FALSE, writing |-> TRUE]

Open(co) ==
    /\ Call(co, "open") /\ srv.st = "none"
    /\ pool' = TRUE
    /\ srv' = Opened
    /\ IF Kind = "udp"
       THEN /\ obj' = NewSocketObject(TRUE, FALSE, TRUE)
            /\ UNCHANGED <<pc, cmds>>
       ELSE /\ obj' = [NewSocketObject(FALSE, TRUE, Kind = "listen")
                          EXCEPT !.thread = co]
            /\ Waits(co, "connect", 0, FALSE)
            /\ cmds' = IF Kind = "client" THEN cmds ELSE Append(cmds, "start")
    /\ UNCHANGED <<ready, mq, sent, got, lost, child, failed>>

(* connect(), after the wait. *)
Connected(o) ==
    /\ obj' = [o EXCEPT !.connecting = FALSE]
    /\ pool' = (pool /\ o.connected)
    /\ UNCHANGED <<got, failed>>

-----------------------------------------------------------------------------
(* Reading.  A read that cannot be served notes what it needs and waits.   *)

Give(o, r, skipped) ==
    /\ got' = got \o r.str \o skipped
    /\ obj' = [o EXCEPT !.buf = r.buf]

(* What a read can take from the buffer at once. *)
Servable(o, at, n) ==
    CASE at = "read" -> IF n = 0 THEN o.buf.size > 0 ELSE CanPop(o.buf, n)
      [] at = "line" -> HasLine(o.buf, Sep)
      [] OTHER -> FALSE

Serve(o, at, n) ==
    CASE at = "line" -> Give(o, ReadLine(o.buf, Sep), Sep)
      [] at = "read" /\ n > 0 -> Give(o, Pop(o.buf, n), <<>>)
      [] OTHER -> Give(o, ReadAll(o.buf), <<>>)

Required(at, n) ==
    [t |-> CASE at = "line" -> "string" [] at = "all" -> "true" [] OTHER -> "number",
     n |-> n]

Read(co, at, n) ==
    /\ Call(co, at) /\ pool /\ Kind \in {"client", "accepted"}
    /\ IF Servable(obj, at, n)
       THEN Serve(obj, at, n) /\ UNCHANGED <<pc, cmds, failed>>
       ELSE IF ~obj.connected
       THEN /\ IF at = "block" THEN UNCHANGED <<obj, got>> ELSE Serve(obj, "all", 0)
            /\ UNCHANGED <<pc, cmds, failed>>
       ELSE /\ UNCHANGED got
            /\ IF obj.rr # NotRequired
               THEN Fails(co, "required") /\ Ends(co) /\ UNCHANGED <<obj, cmds>>
               ELSE Suspend(co, [obj EXCEPT !.rr = Required(at, n)], at, n)
    /\ UNCHANGED <<pool, ready, mq, srv, sent, lost, child>>

(* The rest of a read after its wait. *)
ReadOn(co, o, at, n) ==
    /\ IF at = "all" /\ o.connected THEN Fails(co, "connected") ELSE UNCHANGED failed
    /\ UNCHANGED pool
    /\ IF at = "block" \/ (at = "all" /\ o.connected)
                      \/ (at = "line" /\ o.connected /\ ~HasLine(o.buf, Sep))
       THEN obj' = o /\ UNCHANGED got
       ELSE IF at # "line" \/ o.connected
       THEN Serve(o, IF Servable(o, at, n) THEN at ELSE "all", n)
       ELSE Serve(o, "all", n)

-----------------------------------------------------------------------------
(* Closing, pausing, abandoning, limiting.                                 *)

(* The end of socket.close: the lock must be free. *)
Closed(co, o) ==
    /\ obj' = [o EXCEPT !.connected = FALSE]
    /\ IF o.lock_set = <<>> THEN pool' = FALSE /\ UNCHANGED failed
       ELSE Fails(co, "locked") /\ UNCHANGED pool
    /\ UNCHANGED got

GoesOn(co) == pc' = [pc EXCEPT ![co] = IF failed' = failed THEN Idle ELSE Dead]

Close(co) ==
    /\ Call(co, "close") /\ pool
    /\ UNCHANGED <<ready, mq, srv, sent, lost, child>>
    /\ LET ordered == Append(cmds, "close")
       IN  IF ~obj.connected
           THEN Closed(co, obj) /\ GoesOn(co) /\ cmds' = ordered
           ELSE IF obj.thread = Nil
           THEN /\ obj' = [obj EXCEPT !.thread = co]
                /\ cmds' = IF obj.pause THEN Append(ordered, "start") ELSE ordered
                /\ Waits(co, "close", 0, obj.pause)
                /\ UNCHANGED <<pool, got, failed>>
           ELSE /\ cmds' = ordered
                /\ UNCHANGED <<pool, got>>
                /\ IF obj.closing # Nil
                   THEN Fails(co, "closing") /\ Ends(co) /\ UNCHANGED obj
                   ELSE /\ obj' = [obj EXCEPT !.closing = co]
                        /\ Waits(co, "closing", 0, FALSE)
                        /\ UNCHANGED failed

(* pause_socket yields: a timer answer of this service resumes it. *)
PauseCall(co) ==
    /\ Call(co, "pause") /\ pool /\ ~obj.pause
    /\ obj' = [obj EXCEPT !.pause = TRUE]
    /\ cmds' = Append(cmds, "pause")
    /\ mq' = Append(mq, [e |-> "resume", co |-> co])
    /\ Waits(co, "pause", 0, FALSE)
    /\ UNCHANGED <<pool, ready, srv, sent, got, lost, child, failed>>

Abandon(co) ==
    /\ Call(co, "abandon") /\ pool
    /\ obj' = Unthreaded([obj EXCEPT !.connected = FALSE])
    /\ ready' = WakeupSocket(ready, obj)
    /\ pool' = FALSE
    /\ UNCHANGED <<pc, mq, cmds, srv, sent, got, lost, child, failed>>

Shutdown(co) ==
    /\ Call(co, "shutdown") /\ pool
    /\ cmds' = Append(cmds, "close")
    /\ UNCHANGED <<pool, obj, pc, ready, mq, srv, sent, got, lost, child, failed>>

LimitCall(co) ==
    /\ Call(co, "limit") /\ pool
    /\ obj' = [obj EXCEPT !.limit = BufferLimit]
    /\ UNCHANGED <<pool, pc, ready, mq, cmds, srv, sent, got, lost, child, failed>>

-----------------------------------------------------------------------------
(* socket.lock and socket.unlock: the head of lock_set holds the lock.     *)

Lock(co) ==
    /\ Call(co, "lock") /\ pool /\ co \notin Range(obj.lock_set)
    /\ obj' = [obj EXCEPT !.lock_set = Append(@, co)]
    /\ IF obj.lock_set = <<>> THEN UNCHANGED pc ELSE Waits(co, "lock", 0, FALSE)
    /\ UNCHANGED <<pool, ready, mq, cmds, srv, sent, got, lost, child, failed>>

HandedOver(s) == IF Len(s) = 1 THEN ready ELSE Append(ready, s[2])

Unlock(co) ==
    /\ Call(co, "unlock") /\ pool
    /\ obj.lock_set # <<>> /\ Head(obj.lock_set) = co
    /\ obj' = [obj EXCEPT !.lock_set = Tail(@)]
    /\ ready' = HandedOver(obj.lock_set)
    /\ UNCHANGED <<pool, pc, mq, cmds, srv, sent, got, lost, child, failed>>

-----------------------------------------------------------------------------
(* A woken coroutine goes on.  One that left suspend_socket has resumed    *)
(* the socket if it found it paused, and wakes the closing coroutine.      *)

Suspended(at) == at \notin {"closing", "lock", "pause"}

Left_(o, was) == IF was THEN [o EXCEPT !.pause = FALSE] ELSE o

WokenClosing(q, at) ==
    IF Suspended(at) /\ obj.closing # Nil THEN Append(q, obj.closing) ELSE q

Resume ==
    /\ ready # <<>>
    /\ LET co == Head(ready)
           w == pc[co]
           o == Left_(obj, w.was)
       IN  /\ running' = co
           /\ ready' = WokenClosing(Tail(ready), w.at)
           /\ CASE w.at = "connect" -> Connected(o)
                [] w.at \in {"close", "closing"} -> Closed(co, o)
                [] w.at \in {"pause", "lock"} -> obj' = o /\ UNCHANGED <<pool, got, failed>>
                [] OTHER -> ReadOn(co, o, w.at, w.arg)
           /\ GoesOn(co)
    /\ UNCHANGED <<mq, cmds, srv, sent, lost, child, calls>>

-----------------------------------------------------------------------------
(* The handlers of the socket messages.                                    *)

Handled(m) ==
    /\ ready = <<>> /\ mq # <<>> /\ Head(mq).e = m
    /\ running' = Nil
    /\ UNCHANGED <<srv, sent, got, calls, failed>>

(* The handler pauses a socket that holds too much, yields, and only then  *)
(* wakes the reader.                                                       *)
PauseThen(o, wake) ==
    /\ obj' = [o EXCEPT !.pause = TRUE]
    /\ cmds' = Append(cmds, "pause")
    /\ mq' = Append(Tail(mq), [e |-> "yielded", wake |-> wake])
    /\ UNCHANGED ready

Satisfied(o) ==
    \/ o.rr.t = "number" /\ o.buf.size >= o.rr.n
    \/ o.rr.t = "string" /\ HasLine(o.buf, Sep)

Served(o) == [o EXCEPT !.rr = NotRequired]

OnData ==
    /\ Handled("data")
    /\ UNCHANGED <<pool, pc, child>>
    /\ IF ~pool
       THEN lost' = TRUE /\ mq' = Tail(mq) /\ UNCHANGED <<obj, ready, cmds>>
       ELSE LET o == [obj EXCEPT !.buf = Push(@, Head(mq).data)]
                overflow == o.rr.t # "number" /\ o.limit > 0 /\ o.buf.size > o.limit
                big == o.buf.size > BUFFER_LIMIT /\ ~o.pause
                served == Served(o)
            IN  /\ UNCHANGED lost
                /\ IF overflow
                   THEN /\ cmds' = Append(cmds, "close")
                        /\ obj' = o /\ mq' = Tail(mq) /\ UNCHANGED ready
                   ELSE IF Satisfied(o)
                   THEN IF big THEN PauseThen(served, TRUE)
                        ELSE /\ obj' = Unthreaded(served)
                             /\ ready' = WakeupSocket(ready, served)
                             /\ mq' = Tail(mq) /\ UNCHANGED cmds
                   ELSE IF o.rr.t \in {"nil", "true"} /\ big THEN PauseThen(o, FALSE)
                   ELSE obj' = o /\ mq' = Tail(mq) /\ UNCHANGED <<ready, cmds>>

OnYielded ==
    /\ Handled("yielded")
    /\ mq' = Tail(mq)
    /\ IF Head(mq).wake
       THEN obj' = Unthreaded(obj) /\ ready' = WakeupSocket(ready, obj)
       ELSE UNCHANGED <<obj, ready>>
    /\ UNCHANGED <<pool, pc, cmds, lost, child>>

OnResume ==
    /\ Handled("resume")
    /\ mq' = Tail(mq)
    /\ ready' = Append(ready, Head(mq).co)
    /\ UNCHANGED <<pool, obj, pc, cmds, lost, child>>

OnConnect ==
    /\ Handled("connect")
    /\ mq' = Tail(mq)
    /\ IF pool /\ ~obj.connected
       THEN /\ obj' = Unthreaded([obj EXCEPT !.connected = TRUE])
            /\ ready' = WakeupSocket(ready, obj)
       ELSE UNCHANGED <<obj, ready>>
    /\ UNCHANGED <<pool, pc, cmds, lost, child>>

Ended(o) == [o EXCEPT !.connected = FALSE]

OnClose ==
    /\ Handled("close")
    /\ mq' = Tail(mq)
    /\ IF pool
       THEN /\ obj' = Unthreaded(Ended(obj))
            /\ ready' = WakeupSocket(ready, obj)
            /\ UNCHANGED cmds
       ELSE cmds' = Append(cmds, "close") /\ UNCHANGED <<obj, ready>>
    /\ UNCHANGED <<pool, pc, lost, child>>

OnError ==
    /\ Handled("error")
    /\ mq' = Tail(mq)
    /\ IF pool /\ ~obj.callback
       THEN /\ obj' = Unthreaded(Ended(obj))
            /\ ready' = WakeupSocket(ready, obj)
            /\ cmds' = Append(cmds, "close")
       ELSE /\ cmds' = IF pool THEN cmds ELSE Append(cmds, "close")
            /\ UNCHANGED <<obj, ready>>
    /\ UNCHANGED <<pool, pc, lost, child>>

(* A connection accepted for a socket that is gone is closed. *)
Adopted == IF pool THEN "callback" ELSE "closing"

OnAccept ==
    /\ Handled("accept")
    /\ mq' = Tail(mq)
    /\ child' = [child EXCEPT ![Head(mq).id] = Adopted]
    /\ UNCHANGED <<pool, obj, pc, ready, cmds, lost>>

OnUdp ==
    /\ Handled("udp")
    /\ mq' = Tail(mq)
    /\ lost' = (lost \/ ~(pool /\ obj.callback))
    /\ UNCHANGED <<pool, obj, pc, ready, cmds, child>>

-----------------------------------------------------------------------------
(* The socket thread (module SocketServer), seen through its channels.     *)

Event(e) == mq' = Append(mq, e)
Silent == UNCHANGED mq
Serving == UNCHANGED <<pool, obj, pc, ready, running, got, lost, calls, failed>>

Exists == srv.st \in {"connecting", "prepared", "open", "half"}

Command ==
    /\ cmds # <<>>
    /\ cmds' = Tail(cmds)
    /\ CASE Head(cmds) = "start" ->
              CASE ~Exists -> Event([e |-> "error"]) /\ UNCHANGED srv
                [] srv.st \in {"half", "connecting"} -> Silent /\ UNCHANGED srv
                [] srv.st = "open" /\ ~srv.writing -> Silent /\ srv' = [srv EXCEPT !.reading = TRUE]
                [] OTHER -> /\ srv' = [srv EXCEPT !.st = "open", !.reading = TRUE]
                            /\ Event([e |-> "connect"])
         [] Head(cmds) = "pause" ->
              srv' = [srv EXCEPT !.reading = @ /\ ~Exists] /\ Silent
         [] Head(cmds) = "close" ->
              /\ srv' = IF Exists THEN [srv EXCEPT !.st = "gone"] ELSE srv
              /\ IF Exists /\ srv.st # "half" THEN Event([e |-> "close"]) ELSE Silent
    /\ Serving /\ UNCHANGED <<sent, child>>

Establish ==
    /\ srv.st = "connecting"
    /\ \/ srv' = [srv EXCEPT !.st = "open"] /\ Event([e |-> "connect"])
       \/ srv' = [srv EXCEPT !.st = "gone"] /\ Event([e |-> "error"])
    /\ Serving /\ UNCHANGED <<cmds, sent, child>>

Readable == srv.st = "open" /\ srv.reading

Receive ==
    /\ Readable
    /\ \/ /\ Kind \in {"client", "accepted"}
          /\ \E n \in 1..MaxBlock :
                /\ sent + n <= Len(Stream)
                /\ sent' = sent + n
                /\ Event([e |-> "data", data |-> SubSeq(Stream, sent + 1, sent + n)])
          /\ UNCHANGED <<srv, child>>
       \/ /\ Kind \in {"client", "accepted"} /\ sent = Len(Stream)
          /\ srv' = [srv EXCEPT !.st = "half"]
          /\ Event([e |-> "close"]) /\ UNCHANGED <<sent, child>>
       \/ /\ Kind = "listen" /\ Len(child) < MaxAccept
          /\ child' = Append(child, "accepted")
          /\ Event([e |-> "accept", id |-> Len(child) + 1])
          /\ UNCHANGED <<srv, sent>>
       \/ /\ Kind = "udp" /\ sent < Len(Stream)
          /\ sent' = sent + 1
          /\ Event([e |-> "udp"]) /\ UNCHANGED <<srv, child>>
    /\ Serving /\ UNCHANGED cmds

(* A read error frees the socket, a write error only ends its writing. *)
Fault ==
    /\ srv.st = "open" /\ Kind \in {"client", "accepted"}
    /\ \/ srv' = [srv EXCEPT !.st = "gone"]
       \/ srv.writing /\ srv' = [srv EXCEPT !.writing = FALSE]
    /\ Event([e |-> "error"])
    /\ Serving /\ UNCHANGED <<cmds, sent, child>>

-----------------------------------------------------------------------------
Next ==
    \/ \E co \in Co :
         \/ Open(co) \/ Close(co) \/ PauseCall(co) \/ Abandon(co) \/ Shutdown(co)
         \/ LimitCall(co) \/ Lock(co) \/ Unlock(co)
         \/ \E n \in Sizes : Read(co, "read", n)
         \/ Read(co, "line", 0) \/ Read(co, "all", 0) \/ Read(co, "block", 0)
    \/ Resume
    \/ OnData \/ OnYielded \/ OnResume \/ OnConnect \/ OnClose \/ OnError
    \/ OnAccept \/ OnUdp
    \/ Command \/ Establish \/ Receive \/ Fault

Spec == Init /\ [][Next]_vars

-----------------------------------------------------------------------------
DataIn(q) == FlattenSeq([i \in 1..Len(q) |-> IF q[i].e = "data" THEN q[i].data ELSE <<>>])

Settled == mq = <<>> /\ cmds = <<>> /\ ready = <<>>

(* Type correctness; no coroutine is in the wakeup queue twice, and only   *)
(* waiting ones are in it.                                                 *)
TypeOK ==
    /\ pool \in BOOLEAN /\ obj.thread \in Co \cup {Nil} /\ obj.closing \in Co \cup {Nil}
    /\ IsInjective(ready)
    /\ \A co \in Range(ready) : pc[co] # Idle /\ co # obj.thread
    /\ calls \in 0..MaxOps /\ sent \in 0..Len(Stream)

(* The receive buffer keeps the bytes: what the readers were given, what   *)
(* is buffered and what is on its way are the bytes the peer sent, in      *)
(* order, none lost and none twice, whatever blocks they came in and       *)
(* whatever mixture of read, read_line and read_all took them              *)
(* (_pop_lstring, l_read_line, OnData).                                    *)
BytesInOrder ==
    /\ obj.buf.size = Len(Content(obj.buf))
    /\ IsPrefix(got \o Content(obj.buf), Stream)
    /\ ~lost /\ Kind \in {"client", "accepted"} =>
         got \o Content(obj.buf) \o DataIn(mq) = SubSeq(Stream, 1, sent)

(* Two ways to be left behind by a close, which takes the socket out of    *)
(* the pool where no message wakes anybody: the coroutine came to a socket *)
(* whose close had been woken and had still to run; or it waits for the    *)
(* socket to start, and close does not wait for who is not connected.      *)
LeftByClose(co) == ~pool /\ (obj.closing # Nil \/ pc[co].at = "connect")

(* No wakeup is lost: when no message, command or woken coroutine is left, *)
(* the coroutine that waits on the socket waits for something that has not *)
(* happened (suspend_socket, wakeup_socket, pause_socket).  The exceptions *)
(* are those of LeftByClose: what socket.close says, "wait reading         *)
(* coroutine read the buffer", is so for a read that was waiting, not for  *)
(* the next one nor for socket.start.                                      *)
NoLostWakeup ==
    Settled /\ obj.thread # Nil /\ ~LeftByClose(obj.thread) =>
        LET w == pc[obj.thread]
        IN  /\ pool /\ srv.st \notin {"half", "gone"}
            /\ w.at = "connect" => ~obj.connected
            /\ ~Servable(obj, w.at, w.arg)
            /\ w.at # "close"

(* socket.close ends: when nothing is on its way, nobody waits for a       *)
(* reader to end (closing_thread), and nobody for the socket's end but a   *)
(* coroutine that called close when another close was about to finish.     *)
CloseEnds ==
    Settled => \A co \in Co :
        /\ pc[co].at # "closing"
        /\ pc[co].at = "close" => LeftByClose(co)

(* Flow control lets go: when nothing is on its way, a socket on which a   *)
(* coroutine waits to read is not paused in the socket thread.  The        *)
(* exception is socket.read_all, which needs the end of the stream and is  *)
(* left waiting when the pause at BUFFER_LIMIT keeps that from coming.     *)
(* The instances do not let one coroutine call socket.pause while another  *)
(* waits to read, which leaves that one waiting too.                       *)
NotPausedForEver ==
    Settled /\ obj.thread # Nil /\ srv.st = "open" =>
        srv.reading \/ pc[obj.thread].at = "all"

(* The requirement of a finished read does not outlive it: the next read   *)
(* of the same coroutine finds read_required free, and read_all only wakes *)
(* on a closed connection (the assertions of socket.read and read_all);    *)
(* one close at a time waits for a reader.  Two assertions can fail, when  *)
(* two coroutines wait on one socket and when a locked socket is closed.   *)
(* One coroutine of the instances reads: of two that read one socket the   *)
(* second fails the assertion on read_required.                            *)
NoAssertion == \A f \in failed : f.what \in {"thread", "locked"}

(* The lock is handed over: when nothing is on its way, the head of        *)
(* lock_set is not waiting, and everyone else in it is.                    *)
LockHeld ==
    Settled => \A i \in 1..Len(obj.lock_set) :
                  (i = 1) <=> (pc[obj.lock_set[i]].at # "lock")

(* A connection accepted while the listening socket was being closed is    *)
(* not left open without an owner.                                         *)
NoOrphan == Settled => \A i \in 1..Len(child) : child[i] # "accepted"
=============================================================================
