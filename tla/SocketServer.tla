---------------------------- MODULE SocketServer ----------------------------
(***************************************************************************)
(* The socket server of a skynet++ node (src/skynet-src/socket).           *)
(*                                                                         *)
(* Worker threads create sockets, send and close; every such call ends in  *)
(* a command written to one pipe.  The socket thread reads the pipe and    *)
(* the poller, owns the socket objects and returns events.  A worker that  *)
(* finds nothing waiting on a connection writes to it directly, under the  *)
(* mutex of the socket object: the two threads share the object, its       *)
(* sending count and its slot, which is given to the next socket as soon   *)
(* as it is free.                                                          *)
(*                                                                         *)
(* A message is a number; it is MsgSize units long, and a buffer or a      *)
(* wire is the sequence of the units in it (message 1 of two units is      *)
(* <<1, 1>>).  Services, statistics and the ownership of memory are left   *)
(* out; the network takes and brings units at will.                        *)
(***************************************************************************)
EXTENDS Integers, Sequences, FiniteSets, SequencesExt

CONSTANTS Worker,       \* worker threads
          MaxSocket,    \* slots of the pool (65536 in the code)
          MsgSize,      \* units of a message
          WarningSize,  \* WARNING_SIZE, in units
          Creates,      \* the ways this instance makes sockets
          Established,  \* whether a connection exists at the start
          Orders,       \* the orders this instance gives: R, S, K, shutdown
          Nets,         \* what the network does in this instance: data, fin, rst
          PollOk,       \* outcomes of the poller's add and enable calls
          MaxId,        \* bound: socket ids are 1 .. MaxId
          MaxCalls,     \* bound: calls made by the workers
          MaxSend       \* bound: messages accepted for sending

VARIABLES sock,      \* the pool: slot -> socket object
          net,       \* what the kernel holds for the slot's descriptor
          allocId,   \* alloc_socket_id_
          pipe,      \* the control pipe
          batch,     \* events_ from event_next_index_ on
          needCheck, \* need_check_ctrl_cmd_
          thr,       \* where the socket thread is
          loc,       \* where each worker is
          sent,      \* message -> who sent it, to which socket and how
          wire,      \* socket id -> the units handed to the kernel
          late,      \* ids that got data after their CLOSE
          known,     \* ids some service holds
          opened,    \* ids whose OPEN has been raised
          closes,    \* id -> number of CLOSE events raised, up to 2
          calls,     \* calls made so far
          fault      \* the assertion that failed, or "none"

sockVars == <<sock, net>>
workVars == <<loc, sent, calls, allocId>>
pollVars == <<batch, needCheck, thr>>
toldVars == <<late, known, opened, closes>>
vars == <<sock, net, allocId, pipe, batch, needCheck, thr, loc, sent, wire,
          late, known, opened, closes, calls, fault>>

Slot == 0 .. MaxSocket - 1
Id == 1 .. MaxId
Msg == 1 .. MaxSend
Status == {"invalid", "alloced", "prepare_listen", "listen", "connecting",
           "connected", "half_read", "half_write", "prepare_accept", "bind"}
Types == {"unknown", "tcp", "udp"}

-----------------------------------------------------------------------------
(* Socket objects. *)

At(id) == id % MaxSocket
High16(id) == id \div MaxSocket

IsInvalid(o, id) == o.id # id \/ o.status = "invalid"

WriteBufferEmpty(o) == o.high = <<>> /\ o.low = <<>>

IsCloseRead(o) == o.status = "half_read"

NoMoreSendingData(o) ==
    \/ WriteBufferEmpty(o) /\ o.direct = <<>> /\ o.count = 0
    \/ o.status = "half_write"

CanDirectSend(o, id) ==
    /\ o.id = id
    /\ NoMoreSendingData(o)
    /\ o.status = "connected"
    /\ o.connecting = 0

\* inc_sending_count: only for tcp, and only while the tag matches the id.
IncSending(o, id) ==
    IF o.type = "tcp" /\ o.tag = High16(id) THEN [o EXCEPT !.count = @ + 1] ELSE o

DecSending(o, id) ==
    IF o.id = id /\ o.type = "tcp" THEN [o EXCEPT !.count = @ - 1] ELSE o

\* The slots alloc_socket tries, in order, as distances from allocId.
FreeAhead == {k \in 1 .. MaxSocket : sock[At(allocId + k)].status = "invalid"}
NextId == allocId + (CHOOSE k \in FreeAhead : \A j \in FreeAhead : k <= j)

\* alloc_socket after its compare-and-exchange.
Alloced(o, id) ==
    [o EXCEPT !.status = "alloced", !.id = id, !.type = "unknown", !.connecting = 0]

\* new_socket, and the status its caller gives the object.
NewSocket(o, id, type, reading, status) ==
    [o EXCEPT !.status = status, !.id = id, !.type = type,
              !.reading = reading, !.writing = FALSE, !.closing = FALSE,
              !.tag = High16(id), !.count = 0, !.size = 0, !.warn = 0,
              !.direct = <<>>, !.addr = FALSE]

\* force_close under the mutex; write_buffer_size keeps its value.
Freed(o) == [o EXCEPT !.status = "invalid", !.high = <<>>, !.low = <<>>, !.direct = <<>>]

\* Mutant: a half-closed socket is still read.
CloseReadNothing(o) == o

CloseRead(o) == [o EXCEPT !.status = "half_read", !.reading = FALSE]

Units(m) == [i \in 1 .. MsgSize |-> m]
Rest(s, n) == SubSeq(s, n + 1, Len(s))

\* A list is uncomplete when part of its first message has left it.
Uncomplete(list) ==
    list # <<>> /\ Cardinality({i \in DOMAIN list : list[i] = list[1]}) < MsgSize

AppendBuffer(o, m, high) ==
    IF high THEN [o EXCEPT !.high = @ \o Units(m), !.size = @ + MsgSize]
            ELSE [o EXCEPT !.low = @ \o Units(m), !.size = @ + MsgSize]

\* The kernel's side of a slot: no descriptor, or one the poller watches, with
\* data to read, ended or reset; `os' for a descriptor that is no socket.
NoNet == [on |-> FALSE, in |-> 0, fin |-> FALSE, rst |-> FALSE, os |-> FALSE]
FreshNet == [NoNet EXCEPT !.on = TRUE]

-----------------------------------------------------------------------------
(* Worker threads. *)

Idle == [pc |-> "idle", id |-> 0, m |-> 0, op |-> ""]
Cmd(op, id, m) == [op |-> op, id |-> id, m |-> m]

Call(w) ==
    /\ fault = "none"
    /\ loc[w] = Idle
    /\ calls < MaxCalls
    /\ calls' = calls + 1

\* alloc_socket up to the compare-and-exchange that takes the slot: the
\* object still carries the id of the socket that had the slot before.
Alloc(w) ==
    /\ Call(w)
    /\ IF FreeAhead = {}
       THEN /\ allocId + MaxSocket <= MaxId
            /\ allocId' = allocId + MaxSocket
            /\ UNCHANGED <<sock, loc>>
       ELSE /\ NextId <= MaxId
            /\ allocId' = NextId
            /\ sock' = [sock EXCEPT ![At(NextId)].status = "alloced"]
            /\ \E op \in Creates :
                  loc' = [loc EXCEPT ![w] = [pc |-> "alloced", id |-> NextId, m |-> 0, op |-> op]]
    /\ UNCHANGED <<net, pipe, wire, sent, fault>> /\ UNCHANGED pollVars /\ UNCHANGED toldVars

\* The rest of alloc_socket, and the command of listen, connect, bind_os_fd or
\* udp_socket.  An address that does not fit makes connect return without a
\* command, the slot still allocated.  The ids of listen and udp_socket are
\* used by the caller at once, the others after the socket's first event.
AllocDone(w) ==
    LET id == loc[w].id  op == loc[w].op IN
    /\ fault = "none"
    /\ loc[w].pc = "alloced"
    /\ sock' = [sock EXCEPT ![At(id)] = Alloced(@, id)]
    /\ loc' = [loc EXCEPT ![w] = Idle]
    /\ \/ pipe' = Append(pipe, Cmd(op, id, 0))
       \/ op = "connect" /\ pipe' = pipe
    /\ known' = IF op \in {"listen", "udp"} THEN known \cup {id} ELSE known
    /\ opened' = IF op = "udp" THEN opened \cup {id} ELSE opened
    /\ UNCHANGED <<net, allocId, wire, sent, calls, late, closes, fault>> /\ UNCHANGED pollVars

\* start, pause, close and shutdown.
Order(w, id, op) ==
    /\ Call(w)
    /\ id \in known
    /\ pipe' = Append(pipe, Cmd(op, id, 0))
    /\ UNCHANGED <<allocId, loc, wire, sent, fault>>
    /\ UNCHANGED sockVars /\ UNCHANGED pollVars /\ UNCHANGED toldVars

\* send, send_low_priority and udp_send up to the decision to write directly:
\* D and P are the commands of the two priorities, A carries an address.
Send(w, id, op) ==
    LET o == sock[At(id)]
        m == Len(sent) + 1 IN
    /\ Call(w)
    /\ id \in opened
    /\ op = "A" => "udp" \in Creates /\ (IsInvalid(o, id) \/ o.type # "tcp")
    /\ IF IsInvalid(o, id)
       THEN UNCHANGED <<sock, loc, sent>>
       ELSE /\ m <= MaxSend
            /\ sent' = Append(sent, [id |-> id, by |-> w, op |-> op])
            /\ IF op # "P" /\ CanDirectSend(o, id) /\ o.mutex = "free"
               THEN /\ sock' = [sock EXCEPT ![At(id)].mutex = w]
                    /\ loc' = [loc EXCEPT ![w] = [pc |-> "locked", id |-> id, m |-> m, op |-> op]]
               ELSE /\ loc' = [loc EXCEPT ![w] = [pc |-> "count", id |-> id, m |-> m, op |-> op]]
                    /\ UNCHANGED sock
    /\ UNCHANGED <<net, allocId, pipe, wire, fault>> /\ UNCHANGED pollVars /\ UNCHANGED toldVars

\* The units one write may take: none of a reset connection; a datagram goes
\* whole or not at all.
Writable(i, m) ==
    IF net[i].rst THEN {0}
    ELSE IF sock[i].type = "tcp" THEN 0 .. MsgSize ELSE {0, MsgSize}

\* The second test under the mutex and the direct write.  What is left waits
\* in the direct buffer for the socket thread, whom the W command wakes; an
\* unset udp address drops the message; udp_send leaves what it could not
\* send to the command.
DirectWrite(w) ==
    LET id == loc[w].id  m == loc[w].m  op == loc[w].op
        i == At(id)      o == sock[i]
        Next_(pc, c) == loc' = [loc EXCEPT ![w] = IF pc = "idle" THEN Idle
                                                  ELSE [@ EXCEPT !.pc = pc, !.op = c]] IN
    /\ fault = "none"
    /\ loc[w].pc = "locked"
    /\ \/ /\ ~CanDirectSend(o, id)
          /\ sock' = [sock EXCEPT ![i].mutex = "free"]
          /\ Next_("count", op)
          /\ UNCHANGED wire
       \/ /\ CanDirectSend(o, id)
          /\ o.type = "udp" /\ op = "D" /\ ~o.addr
          /\ sock' = [sock EXCEPT ![i].mutex = "free"]
          /\ Next_("idle", op)
          /\ UNCHANGED wire
       \/ /\ CanDirectSend(o, id)
          /\ o.type = "tcp" \/ op = "A" \/ o.addr
          /\ \E n \in Writable(i, m) :
                /\ wire' = [wire EXCEPT ![o.id] = @ \o SubSeq(Units(m), 1, n)]
                /\ sock' = [sock EXCEPT ![i].mutex = "free",
                              ![i].direct = IF op = "A" THEN @ ELSE Rest(Units(m), n)]
                /\ IF n = MsgSize THEN Next_("idle", op)
                   ELSE Next_("count", IF op = "A" THEN op ELSE "W")
    /\ UNCHANGED <<net, allocId, pipe, sent, calls, fault>> /\ UNCHANGED pollVars /\ UNCHANGED toldVars

CountSending(w) ==
    LET id == loc[w].id IN
    /\ fault = "none"
    /\ loc[w].pc = "count"
    /\ sock' = IF loc[w].op = "A" THEN sock
               ELSE [sock EXCEPT ![At(id)] = IncSending(@, id)]
    /\ loc' = [loc EXCEPT ![w].pc = "post"]
    /\ UNCHANGED <<net, allocId, pipe, wire, sent, calls, fault>>
    /\ UNCHANGED pollVars /\ UNCHANGED toldVars

\* _send_ctrl_cmd after a send.
Post(w) ==
    /\ fault = "none"
    /\ loc[w].pc = "post"
    /\ pipe' = Append(pipe, Cmd(loc[w].op, loc[w].id, loc[w].m))
    /\ loc' = [loc EXCEPT ![w] = Idle]
    /\ UNCHANGED <<allocId, wire, sent, calls, fault>>
    /\ UNCHANGED sockVars /\ UNCHANGED pollVars /\ UNCHANGED toldVars

\* udp_connect: the count is raised under the mutex before the name is
\* resolved; a name that does not resolve leaves it raised.
UdpConnect(w, id) ==
    /\ Call(w)
    /\ id \in known /\ "udp" \in Creates /\ sock[At(id)].type # "tcp"
    /\ IF IsInvalid(sock[At(id)], id) THEN UNCHANGED <<sock, pipe>>
       ELSE /\ sock[At(id)].mutex = "free"
            /\ sock' = [sock EXCEPT ![At(id)].connecting = @ + 1]
            /\ pipe' \in {pipe, Append(pipe, Cmd("C", id, 0))}
    /\ UNCHANGED <<net, allocId, loc, wire, sent, fault>> /\ UNCHANGED pollVars /\ UNCHANGED toldVars

Work(w) ==
    \/ Alloc(w) \/ AllocDone(w) \/ DirectWrite(w) \/ CountSending(w) \/ Post(w)
    \/ \E id \in Id :
          \/ \E op \in Orders : Order(w, id, op)
          \/ \E op \in {"D", "P", "A"} : Send(w, id, op)
          \/ UdpConnect(w, id)

-----------------------------------------------------------------------------
(* The socket thread: what a handler returns. *)

Loop == [pc |-> "loop", slot |-> 0, ev |-> "none", cmd |-> FALSE]
FirstEvent == [Loop EXCEPT !.pc = "event"]

\* An event returned to the node, which forwards it to the owning service;
\* an accept carries the new id.
Raise(ev, id, new) ==
    /\ late' = IF ev = "data" /\ closes[id] > 0 THEN late \cup {id} ELSE late
    /\ known' = known \cup (IF ev = "accept" THEN {new} ELSE IF ev = "open" THEN {id} ELSE {})
    /\ opened' = IF ev = "open" THEN opened \cup {id} ELSE opened
    /\ closes' = IF ev = "close" THEN [closes EXCEPT ![id] = IF @ < 2 THEN @ + 1 ELSE @] ELSE closes

Quiet == UNCHANGED toldVars

\* _clear_closed_event: the first waiting event whose object is not the
\* socket `id' in use.
ClearClosedEvent(b, id) ==
    LET stale == {k \in DOMAIN b : IsInvalid(sock'[b[k].slot], id)} IN
    IF stale = {} THEN b ELSE RemoveAt(b, CHOOSE k \in stale : \A j \in stale : k <= j)

\* The end of a command that raised `ev' for the socket `id'.
Answer(ev, id) ==
    /\ thr' = Loop
    /\ batch' = IF ev \in {"close", "error"} THEN ClearClosedEvent(batch, id) ELSE batch
    /\ IF ev = "none" THEN Quiet ELSE Raise(ev, id, 0)

\* force_close up to the mutex: `ev' is what its caller returns.
BeginForceClose(i, ev, cmd) ==
    IF sock[i].status = "alloced"
    THEN fault' = "force_close" /\ UNCHANGED <<sock, thr>>
    ELSE /\ sock' = [sock EXCEPT ![i].high = <<>>, ![i].low = <<>>]
         /\ thr' = [pc |-> "force", slot |-> i, ev |-> ev, cmd |-> cmd]
         /\ UNCHANGED fault

\* The rest of force_close, once no worker writes directly, and the return.
ForceClose ==
    LET i == thr.slot  id == sock[i].id IN
    /\ fault = "none"
    /\ thr.pc = "force"
    /\ sock[i].mutex = "free"
    /\ sock' = [sock EXCEPT ![i] = Freed(@)]
    /\ net' = [net EXCEPT ![i] = NoNet]
    /\ IF thr.cmd THEN Answer(thr.ev, id)
       ELSE /\ thr' = Loop /\ UNCHANGED batch
            /\ IF thr.ev = "none" THEN Quiet ELSE Raise(thr.ev, id, 0)
    /\ UNCHANGED <<pipe, needCheck, wire, fault>> /\ UNCHANGED workVars

-----------------------------------------------------------------------------
(* Commands from the pipe (handle_ctrl_cmd). *)

Current(c) == sock[At(c.id)]

\* enable_read and enable_write call the poller only when the flag changes.
Polled(changes) == IF changes THEN PollOk ELSE {TRUE}

\* The assertions of new_socket.
NewSocketFault(o) ==
    IF o.status # "alloced" THEN "new_socket"
    ELSE IF ~WriteBufferEmpty(o) THEN "new_socket_list" ELSE "none"

\* connect_socket: the address does not resolve or connect, or the poller
\* refuses; the connection is made at once; or it is in progress.  When
\* enable_write fails the code frees the slot and leaves the descriptor open and
\* registered; later events of that descriptor are not modelled.
CmdConnect(c) ==
    LET i == At(c.id)
        New(status) == NewSocket(sock[i], c.id, "tcp", TRUE, status)
        To(o, ev) ==
            /\ sock' = [sock EXCEPT ![i] = o]
            /\ net' = [net EXCEPT ![i] = IF o.status = "invalid" THEN NoNet ELSE FreshNet]
            /\ Answer(ev, c.id)
            /\ UNCHANGED fault IN
    \/ To([sock[i] EXCEPT !.status = "invalid"], "error")
    \/ /\ NewSocketFault(sock[i]) # "none"
       /\ fault' = NewSocketFault(sock[i])
       /\ UNCHANGED <<sock, net, batch, thr>> /\ UNCHANGED toldVars
    \/ /\ NewSocketFault(sock[i]) = "none"
       /\ \/ To(New("connected"), "open")
          \/ To([New("connecting") EXCEPT !.writing = TRUE], "none")
          \/ FALSE \in PollOk /\ To([New("invalid") EXCEPT !.writing = TRUE], "error")

\* listen_socket, bind_os_fd and udp_socket.  A refused udp socket is
\* reported in an event that names no socket.
CmdNew(c) ==
    LET i == At(c.id)
        as == CASE c.op = "listen" -> NewSocket(sock[i], c.id, "tcp", FALSE, "prepare_listen")
                [] c.op = "bind" -> NewSocket(sock[i], c.id, "tcp", TRUE, "bind")
                [] c.op = "udp" -> NewSocket(sock[i], c.id, "udp", TRUE, "connected") IN
    IF NewSocketFault(sock[i]) # "none"
    THEN fault' = NewSocketFault(sock[i]) /\ UNCHANGED <<sock, net, batch, thr>> /\ UNCHANGED toldVars
    ELSE /\ UNCHANGED fault
         /\ \E ok \in PollOk :
            /\ net' = [net EXCEPT ![i] = IF ok THEN [FreshNet EXCEPT !.os = c.op = "bind"] ELSE NoNet]
            /\ IF ok THEN /\ sock' = [sock EXCEPT ![i] = as]
                          /\ Answer(IF c.op = "bind" THEN "open" ELSE "none", c.id)
               ELSE /\ sock' = [sock EXCEPT ![i].status = "invalid"]
                    /\ Answer("error", IF c.op = "udp" THEN 0 ELSE c.id)

\* close_socket: at once when nothing is waiting to be sent (or on shutdown),
\* otherwise when the data is out.
CmdClose(c) ==
    LET i == At(c.id)  o == Current(c)
        ev == IF IsCloseRead(o) THEN "none" ELSE "close" IN
    /\ UNCHANGED net
    /\ IF IsInvalid(o, c.id) THEN UNCHANGED <<sock, fault>> /\ Answer("none", c.id)
       ELSE IF c.op = "shutdown" \/ NoMoreSendingData(o)
       THEN BeginForceClose(i, ev, TRUE) /\ UNCHANGED batch /\ UNCHANGED toldVars
       ELSE /\ sock' = [sock EXCEPT ![i] = [IF ev = "close" THEN CloseRead(@) ELSE @
                                             EXCEPT !.closing = TRUE]]
            /\ Answer(ev, c.id)
            /\ UNCHANGED fault

\* resume_socket.
CmdResume(c) ==
    LET i == At(c.id)  o == Current(c)
        to == CASE o.status = "prepare_accept" -> "connected"
                [] o.status = "prepare_listen" -> "listen"
                [] OTHER -> o.status
        ev == IF o.status \in {"prepare_accept", "prepare_listen", "connected"} THEN "open" ELSE "none" IN
    /\ UNCHANGED <<net, fault>>
    /\ \/ IsInvalid(o, c.id) /\ UNCHANGED sock /\ Answer("error", c.id)
       \/ ~IsInvalid(o, c.id) /\ IsCloseRead(o) /\ UNCHANGED sock /\ Answer("none", c.id)
       \/ /\ ~IsInvalid(o, c.id) /\ ~IsCloseRead(o)
          /\ \E ok \in Polled(~o.reading) :
                IF ok THEN /\ sock' = [sock EXCEPT ![i].reading = TRUE, ![i].status = to]
                           /\ Answer(ev, c.id)
                ELSE /\ sock' = [sock EXCEPT ![i].reading = TRUE]
                     /\ Answer("error", c.id)

\* pause_socket.
CmdPause(c) ==
    LET i == At(c.id)  o == Current(c) IN
    /\ UNCHANGED <<net, fault>>
    /\ \/ IsInvalid(o, c.id) /\ UNCHANGED sock /\ Answer("none", c.id)
       \/ /\ ~IsInvalid(o, c.id)
          /\ sock' = [sock EXCEPT ![i].reading = FALSE]
          /\ \E ok \in Polled(o.reading) : Answer(IF ok THEN "none" ELSE "error", c.id)

\* send_socket, and the sending count that D and P give back afterwards.
\* A low message joins an empty list as a high one.
CmdSend(c) ==
    LET i == At(c.id)  o == Current(c)
        refused == \/ IsInvalid(o, c.id) \/ o.closing
                   \/ o.status \in {"half_write", "prepare_accept", "prepare_listen", "listen"}
                   \/ o.type = "udp" /\ WriteBufferEmpty(o) /\ c.op # "A" /\ ~o.addr
        high == c.op # "P" \/ (o.type = "tcp" /\ WriteBufferEmpty(o))
        full(b) == b.size >= WarningSize /\ b.size >= b.warn
        Finish(b, ev) ==
            /\ sock' = [sock EXCEPT ![i] = IF c.op = "A" THEN b ELSE DecSending(b, c.id)]
            /\ Answer(ev, c.id)
        Warned(b) == IF full(b) THEN Finish([b EXCEPT !.warn = IF @ = 0 THEN 2 * WarningSize ELSE 2 * @], "warning")
                     ELSE Finish(b, "none") IN
    IF c.op # "A" /\ o.id = c.id /\ o.type = "tcp" /\ o.count = 0
    THEN fault' = "dec_sending_count" /\ UNCHANGED <<sock, net, wire, batch, thr>> /\ UNCHANGED toldVars
    ELSE /\ UNCHANGED <<net, fault>>
         /\ \/ refused /\ Finish(o, "none") /\ UNCHANGED wire
            \/ /\ ~refused /\ o.type = "udp" /\ WriteBufferEmpty(o)
               /\ wire' = [wire EXCEPT ![c.id] = @ \o Units(c.m)]
               /\ Finish(o, "none")
            \/ /\ ~refused /\ WriteBufferEmpty(o)
               /\ \E ok \in Polled(~o.writing) :
                     LET b == [AppendBuffer(o, c.m, high) EXCEPT !.writing = TRUE] IN
                     IF ok THEN Warned(b) ELSE Finish(b, "error")
               /\ UNCHANGED wire
            \/ ~refused /\ ~WriteBufferEmpty(o) /\ Warned(AppendBuffer(o, c.m, high)) /\ UNCHANGED wire

\* trigger_write.
CmdTriggerWrite(c) ==
    LET i == At(c.id)  o == Current(c) IN
    /\ UNCHANGED <<net, fault>>
    /\ \/ IsInvalid(o, c.id) /\ UNCHANGED sock /\ Answer("none", c.id)
       \/ /\ ~IsInvalid(o, c.id)
          /\ sock' = [sock EXCEPT ![i].writing = TRUE]
          /\ \E ok \in Polled(~o.writing) : Answer(IF ok THEN "none" ELSE "error", c.id)

\* set_udp_address: the address is of the socket's kind, or is refused.
CmdSetUdp(c) ==
    LET i == At(c.id)  o == Current(c) IN
    /\ UNCHANGED <<net, fault>>
    /\ \/ IsInvalid(o, c.id) /\ UNCHANGED sock /\ Answer("none", c.id)
       \/ ~IsInvalid(o, c.id) /\ UNCHANGED sock /\ Answer("error", c.id)
       \/ /\ ~IsInvalid(o, c.id) /\ o.type = "udp"
          /\ sock' = [sock EXCEPT ![i].addr = TRUE, ![i].connecting = @ - 1]
          /\ Answer("none", c.id)

\* handle_ctrl_cmd, and what poll_socket_event does with its answer.
HandleCommand ==
    LET c == Head(pipe) IN
    /\ fault = "none"
    /\ thr.pc = "loop" /\ needCheck /\ pipe # <<>>
    /\ pipe' = Tail(pipe)
    /\ \/ c.op = "connect" /\ CmdConnect(c) /\ UNCHANGED wire
       \/ c.op \in {"listen", "bind", "udp"} /\ CmdNew(c) /\ UNCHANGED wire
       \/ c.op \in {"K", "shutdown"} /\ CmdClose(c) /\ UNCHANGED wire
       \/ c.op = "R" /\ CmdResume(c) /\ UNCHANGED wire
       \/ c.op = "S" /\ CmdPause(c) /\ UNCHANGED wire
       \/ c.op \in {"D", "P", "A"} /\ CmdSend(c)
       \/ c.op = "W" /\ CmdTriggerWrite(c) /\ UNCHANGED wire
       \/ c.op = "C" /\ CmdSetUdp(c) /\ UNCHANGED wire
    /\ UNCHANGED needCheck /\ UNCHANGED workVars

-----------------------------------------------------------------------------
(* Events from the poller. *)

\* What epoll reports: level triggered, errors and hang-ups unasked.  A hang-up
\* follows a reset, the closing of both directions, or, on the descriptor of a
\* pipe or a terminal, the end of the other side.
Ready(i) ==
    LET o == sock[i]  n == net[i] IN
    [slot |-> i,
     r |-> o.reading /\ (n.in > 0 \/ n.fin \/ n.rst),
     w |-> o.writing,
     e |-> n.rst,
     h |-> n.rst \/ (n.fin /\ (n.os \/ o.status = "half_write"))]

ReadySlots == {i \in Slot : /\ net[i].on
                            /\ LET f == Ready(i) IN f.r \/ f.w \/ f.e \/ f.h}

NoMoreCommands ==
    /\ fault = "none"
    /\ thr.pc = "loop" /\ needCheck /\ pipe = <<>>
    /\ needCheck' = FALSE
    /\ UNCHANGED <<pipe, batch, thr, wire, fault>>
    /\ UNCHANGED workVars /\ UNCHANGED sockVars /\ UNCHANGED toldVars

\* The wait: its first event is taken before the pipe is looked at again, unless
\* that is the pipe's own, which comes at any place of the batch.
Wait ==
    /\ fault = "none"
    /\ thr.pc = "loop" /\ ~needCheck /\ batch = <<>>
    /\ ReadySlots # {} \/ pipe # <<>>
    /\ needCheck' = TRUE
    /\ \E order \in SetToSeqs(ReadySlots) : batch' = [k \in DOMAIN order |-> Ready(order[k])]
    /\ \/ ReadySlots # {} /\ thr' = FirstEvent
       \/ pipe # <<>> /\ thr' = Loop
    /\ UNCHANGED <<pipe, wire, fault>>
    /\ UNCHANGED workVars /\ UNCHANGED sockVars /\ UNCHANGED toldVars

\* The next event is taken: `after' is what is left of the batch.
TakeEvent(after) ==
    /\ fault = "none"
    /\ batch # <<>>
    /\ thr.pc = "event" \/ (thr.pc = "loop" /\ ~needCheck)
    /\ batch' = after
    /\ UNCHANGED <<pipe, needCheck>> /\ UNCHANGED workVars

Return(ev, id) == thr' = Loop /\ IF ev = "none" THEN Quiet ELSE Raise(ev, id, 0)
Forced(i, ev) == BeginForceClose(i, ev, FALSE) /\ UNCHANGED net /\ UNCHANGED toldVars

\* The event of a connection in progress (handle_connect).
EventConnect ==
    LET i == Head(batch).slot  o == sock[i] IN
    /\ TakeEvent(Tail(batch))
    /\ o.status = "connecting"
    /\ \/ Forced(i, "error")
       \/ /\ \E ok \in Polled(NoMoreSendingData(o) /\ o.writing) :
                IF ok THEN /\ sock' = [sock EXCEPT ![i].status = "connected",
                                         ![i].writing = @ /\ ~NoMoreSendingData(o)]
                           /\ Return("open", o.id)
                           /\ UNCHANGED <<net, fault>>
                ELSE Forced(i, "error")
    /\ UNCHANGED wire

\* The event of a listening socket (handle_accept): nothing to accept any more,
\* no descriptor or no slot left, or a new socket, prepared but not read.
EventAccept ==
    LET i == Head(batch).slot  o == sock[i]  j == At(NextId)
        new == NewSocket(Alloced(sock[j], NextId), NextId, "tcp", FALSE, "prepare_accept") IN
    /\ fault = "none" /\ batch # <<>>
    /\ thr.pc = "event" \/ (thr.pc = "loop" /\ ~needCheck)
    /\ o.status = "listen"
    /\ batch' = Tail(batch)
    /\ thr' = Loop
    /\ \/ Quiet /\ UNCHANGED <<sock, net, allocId>>
       \/ Raise("error", o.id, 0) /\ UNCHANGED <<sock, net, allocId>>
       \/ /\ net[i].in > 0 /\ FreeAhead # {} /\ NextId <= MaxId
          /\ allocId' = NextId
          /\ \E ok \in PollOk :
                /\ sock' = IF ok THEN [sock EXCEPT ![j] = new] ELSE sock
                /\ net' = [net EXCEPT ![i].in = 0, ![j] = IF ok THEN FreshNet ELSE NoNet]
                /\ IF ok THEN Raise("accept", o.id, NextId) ELSE Quiet
    /\ UNCHANGED <<pipe, needCheck, loc, sent, calls, wire, fault>>

EventInvalid ==
    /\ TakeEvent(Tail(batch))
    /\ sock[Head(batch).slot].status = "invalid"
    /\ thr' = Loop
    /\ UNCHANGED <<wire, fault>> /\ UNCHANGED sockVars /\ UNCHANGED toldVars

Plain(i) == sock[i].status \notin {"connecting", "listen", "invalid"}

\* forward_message_tcp and forward_message_udp.  A writable socket keeps its
\* event for the write, a datagram keeps it whole to read on.  A slot that is
\* not in use has no descriptor to read.
EventRead ==
    LET e == Head(batch)  i == e.slot  o == sock[i]
        rest(ev) == IF e.w /\ ev \notin {"close", "error"}
                    THEN <<[e EXCEPT !.r = FALSE]>> \o Tail(batch) ELSE Tail(batch)
        broken == net[i].rst \/ ~net[i].on
        Plainly(ev) == TakeEvent(rest(ev)) /\ Return(ev, o.id) /\ UNCHANGED fault IN
    /\ batch # <<>> /\ e.r /\ Plain(i)
    /\ \/ /\ net[i].in > 0 /\ o.type = "udp"
          /\ TakeEvent(batch) /\ Return("udp", o.id)
          /\ net' = [net EXCEPT ![i].in = 0]
          /\ UNCHANGED <<sock, fault>>
       \/ /\ net[i].in > 0 /\ o.type # "udp"
          /\ Plainly(IF IsCloseRead(o) THEN "none" ELSE "data")
          /\ net' = [net EXCEPT ![i].in = 0]
          /\ UNCHANGED sock
       \/ /\ net[i].in = 0 /\ broken
          /\ TakeEvent(rest("error")) /\ Forced(i, "error")
       \/ /\ net[i].in = 0 /\ ~broken /\ ~net[i].fin
          /\ Plainly("none") /\ UNCHANGED <<sock, net>>
       \/ /\ net[i].in = 0 /\ ~broken /\ net[i].fin /\ o.type # "udp"
          /\ IF o.closing
             THEN IF NoMoreSendingData(o) THEN TakeEvent(rest("none")) /\ Forced(i, "none")
                  ELSE Plainly("none") /\ UNCHANGED <<sock, net>>
             ELSE IF IsCloseRead(o) THEN Plainly("none") /\ UNCHANGED <<sock, net>>
             ELSE IF o.status = "half_write" THEN TakeEvent(rest("close")) /\ Forced(i, "close")
             ELSE /\ Plainly("close")
                  /\ sock' = [sock EXCEPT ![i] = CloseRead(@)]
                  /\ UNCHANGED net
    /\ UNCHANGED wire

\* Error and hang-up, looked at only when the event asks for nothing else.
EventError ==
    LET e == Head(batch)  i == e.slot IN
    /\ TakeEvent(Tail(batch))
    /\ ~e.r /\ ~e.w /\ Plain(i)
    /\ \/ e.e /\ Forced(i, "error")
       \/ ~e.e /\ e.h /\ Forced(i, "close")
       \/ ~e.e /\ ~e.h /\ thr' = Loop /\ Quiet /\ UNCHANGED <<sock, net, fault>>
    /\ UNCHANGED wire

\* What sending a list may leave and put on the wire; a datagram goes whole,
\* and the first that fails for good is dropped.
SendList(list, type) ==
    IF type = "tcp"
    THEN {[left |-> Rest(list, n), out |-> SubSeq(list, 1, n)] : n \in 0 .. Len(list)}
    ELSE {[left |-> Rest(list, MsgSize * (n + d)), out |-> SubSeq(list, 1, MsgSize * n)] :
             n \in 0 .. Len(list) \div MsgSize, d \in {0, 1}}

\* raise_uncomplete: the units of the first low message become the high list.
RaiseUncomplete(o) ==
    IF ~Uncomplete(o.low) THEN o
    ELSE LET n == Cardinality({k \in DOMAIN o.low : o.low[k] = o.low[1]}) IN
         [o EXCEPT !.high = SubSeq(o.low, 1, n), !.low = Rest(o.low, n)]

\* Mutant: the direct buffer goes behind the high list.
MergedBehind(o) ==
    [o EXCEPT !.direct = <<>>, !.high = o.high \o o.direct, !.size = @ + Len(o.direct)]

\* The direct buffer goes before the high list.
Merged(o) ==
    [o EXCEPT !.direct = <<>>, !.high = o.direct \o o.high, !.size = @ + Len(o.direct)]

\* close_write, entered with the mutex held.
CloseWrite(o) ==
    IF o.closing \/ IsCloseRead(o) THEN [to |-> Freed(o), ev |-> "none"]
    ELSE IF o.status = "half_write" THEN [to |-> o, ev |-> "none"]
    ELSE [to |-> [o EXCEPT !.status = "half_write", !.writing = FALSE], ev |-> "error"]

\* send_write_buffer: the direct buffer goes before the high list, the high
\* list before the low one.  When everything is out, a closing socket is freed
\* and another stops asking for write events.
EventWrite ==
    LET e == Head(batch)  i == e.slot  o == sock[i]
        broken == o.type = "tcp" /\ (net[i].rst \/ ~net[i].on)
        merged == Merged(o)
        first == merged.high
        To(b, ev) ==
            /\ sock' = [sock EXCEPT ![i] = b]
            /\ net' = IF b.status = "invalid" THEN [net EXCEPT ![i] = NoNet] ELSE net
            /\ Return(ev, o.id) IN
    /\ TakeEvent(Tail(batch))
    /\ ~e.r /\ e.w /\ Plain(i)
    /\ \/ /\ o.mutex # "free"
          /\ Return("none", o.id) /\ UNCHANGED <<sock, net, wire, fault>>
       \/ /\ o.mutex = "free" /\ Uncomplete(o.low)
          /\ fault' = "uncomplete" /\ UNCHANGED <<sock, net, wire, thr>> /\ UNCHANGED toldVars
       \/ /\ o.mutex = "free" /\ ~Uncomplete(o.low) /\ broken /\ first \o o.low # <<>>
          /\ LET f == CloseWrite(merged) IN To(f.to, f.ev)
          /\ UNCHANGED <<wire, fault>>
       \/ /\ o.mutex = "free" /\ ~Uncomplete(o.low)
          /\ ~(broken /\ first \o o.low # <<>>)
          /\ \E h \in SendList(first, o.type) :
             \E l \in IF h.left = <<>> THEN SendList(o.low, o.type) ELSE {[left |-> o.low, out |-> <<>>]} :
                LET left == Len(h.left) + Len(l.left)
                    b == [merged EXCEPT !.high = h.left, !.low = l.left,
                             !.size = @ - (Len(first) + Len(o.low) - left)] IN
                /\ wire' = IF h.out \o l.out = <<>> THEN wire
                           ELSE [wire EXCEPT ![o.id] = @ \o h.out \o l.out]
                /\ IF left > 0 THEN To(IF h.left = <<>> THEN RaiseUncomplete(b) ELSE b, "none") /\ UNCHANGED fault
                   ELSE IF b.size # 0 THEN fault' = "size" /\ UNCHANGED <<sock, net, thr>> /\ UNCHANGED toldVars
                   ELSE IF b.closing THEN To(Freed(b), "none") /\ UNCHANGED fault
                   ELSE /\ UNCHANGED fault
                        /\ \E ok \in Polled(b.writing) :
                              IF ~ok THEN To([b EXCEPT !.writing = FALSE], "error")
                              ELSE To([b EXCEPT !.writing = FALSE, !.warn = 0],
                                      IF b.warn > 0 THEN "warning" ELSE "none")

-----------------------------------------------------------------------------
(* The network. *)

\* Data or a connection arrives; the other side ends or resets.
Network(i) ==
    /\ fault = "none"
    /\ net[i].on /\ sock[i].status \notin {"connecting", "prepare_listen"}
    /\ \/ "data" \in Nets /\ ~net[i].fin /\ ~net[i].rst /\ net' = [net EXCEPT ![i].in = 1]
       \/ /\ "fin" \in Nets /\ sock[i].type = "tcp" /\ sock[i].status # "listen"
          /\ net' = [net EXCEPT ![i].fin = TRUE]
       \/ /\ "rst" \in Nets /\ sock[i].type = "tcp" /\ sock[i].status # "listen" /\ ~net[i].os
          /\ net' = [net EXCEPT ![i].rst = TRUE]
    /\ UNCHANGED <<sock, pipe, wire, fault>>
    /\ UNCHANGED workVars /\ UNCHANGED pollVars /\ UNCHANGED toldVars

-----------------------------------------------------------------------------
SocketThread ==
    \/ HandleCommand \/ NoMoreCommands \/ Wait \/ ForceClose
    \/ EventConnect \/ EventAccept \/ EventInvalid \/ EventRead \/ EventWrite \/ EventError

EmptySocket ==
    [status |-> "invalid", id |-> 0, type |-> "unknown", reading |-> FALSE,
     writing |-> FALSE, closing |-> FALSE, high |-> <<>>, low |-> <<>>,
     direct |-> <<>>, size |-> 0, warn |-> 0, tag |-> 0, count |-> 0,
     connecting |-> 0, addr |-> FALSE, mutex |-> "free"]

\* Nothing has happened; or the first connection has just been made.
Init ==
    /\ sock = [i \in Slot |-> IF Established /\ i = At(1)
                              THEN NewSocket(EmptySocket, 1, "tcp", TRUE, "connected")
                              ELSE EmptySocket]
    /\ net = [i \in Slot |-> IF Established /\ i = At(1) THEN FreshNet ELSE NoNet]
    /\ allocId = (IF Established THEN 1 ELSE 0)
    /\ pipe = <<>>
    /\ batch = <<>>
    /\ needCheck = TRUE
    /\ thr = Loop
    /\ loc = [w \in Worker |-> Idle]
    /\ sent = <<>>
    /\ wire = [id \in Id |-> <<>>]
    /\ late = {}
    /\ known = (IF Established THEN {1} ELSE {})
    /\ opened = known
    /\ closes = [id \in Id |-> 0]
    /\ calls = 0
    /\ fault = "none"

Next ==
    \/ \E w \in Worker : Work(w)
    \/ SocketThread
    \/ \E i \in Slot : Network(i)

\* The threads run on, and the other side of a connection goes on taking what
\* is written to it.
Finish(w) == AllocDone(w) \/ DirectWrite(w) \/ CountSending(w) \/ Post(w)
WriteOut == EventWrite /\ wire' # wire

Fairness ==
    /\ \A w \in Worker : WF_vars(Finish(w))
    /\ WF_vars(SocketThread)
    /\ SF_vars(WriteOut)

Spec == Init /\ [][Next]_vars
FairSpec == Spec /\ Fairness

-----------------------------------------------------------------------------
\* Every variable keeps its type; no count of units goes below zero.
TypeOK ==
    /\ \A i \in Slot :
          /\ sock[i].status \in Status /\ sock[i].type \in Types
          /\ sock[i].id \in Id \cup {0}
          /\ sock[i].mutex \in Worker \cup {"free"}
          /\ sock[i].count \in Nat /\ sock[i].size \in Nat
    /\ allocId \in 0 .. MaxId
    /\ thr.pc \in {"loop", "event", "force"}
    /\ Len(sent) <= MaxSend
    /\ opened \subseteq known /\ known \subseteq Id

\* A socket in use whose closing has not begun.
InUse(id) ==
    /\ ~IsInvalid(sock[At(id)], id) /\ sock[At(id)].status # "alloced"
    /\ ~(thr.pc = "force" /\ thr.slot = At(id))

\* Every unit on a connection is of a message sent to that socket, also when
\* its slot had another socket before; and as long as the socket is in use the
\* stream is made of whole messages one after the other: the direct writes of
\* the workers and the lists of the socket thread never mix two messages.
WireWhole ==
    \A id \in Id : \A i, j \in DOMAIN wire[id] :
       /\ sent[wire[id][i]].id = id
       /\ InUse(id) => (wire[id][i] = wire[id][j] <=> (i - 1) \div MsgSize = (j - 1) \div MsgSize)

\* Two messages a worker sends to a connection with the high priority are on
\* the wire in the order of the calls, the second only after the first.
WireOrder ==
    \A id \in Id : \A k \in DOMAIN wire[id] : \A m \in DOMAIN sent :
       LET n == wire[id][k] IN
       (/\ InUse(id) /\ sock[At(id)].type = "tcp"
        /\ m < n /\ sent[m].id = id /\ sent[m].by = sent[n].by
        /\ sent[m].op = "D" /\ sent[n].op = "D")
       => \E j \in 1 .. k : wire[id][j] = m

\* No assertion of the socket server fails as long as no slot has been used
\* for a second socket.
NoFault == allocId <= MaxSocket => fault = "none"

\* A service that has been told CLOSE gets no data of that socket any more.
NoDataAfterClose == late = {}

Waiting(i) == sock[i].direct # <<>> \/ ~WriteBufferEmpty(sock[i])

Lingers(i) == sock[i].closing /\ Waiting(i)
Gone(i) == sock[i].status = "invalid"

\* The message is on the wire, or its connection is closed or reset.
Settled(m) ==
    LET id == sent[m].id  o == sock[At(id)] IN
       \/ Cardinality({k \in DOMAIN wire[id] : wire[id][k] = m}) = MsgSize
       \/ IsInvalid(o, id) \/ o.closing \/ o.status = "half_write" \/ o.type # "tcp"

SomeAccepted == sent # <<>>
AllSettled == \A m \in DOMAIN sent : Settled(m)

=============================================================================
