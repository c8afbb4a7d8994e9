------------------------------ MODULE WebSocket -----------------------------
(***************************************************************************)
(* A websocket connection of lualib/http/websocket.lua: the client's side  *)
(* (connect, read, write, ping, close) and the server's (accept, whose     *)
(* coroutine hands frames to the handlers while other coroutines of the    *)
(* service write, ping and close).  Frames are bytes: a first byte of fin  *)
(* and opcode, a second of mask and length, the longer lengths, the key    *)
(* and the payload.  Handshake messages are single negative tokens.        *)
(***************************************************************************)
EXTENDS Integers, Sequences, SequencesExt, FiniteSets

CONSTANTS
    Short, Medium,  \* lengths from which a frame has a longer length (126, 0xffff)
    Base,           \* digits of the longer lengths (two and three of them)
    MAX_FRAME_SIZE, \* bound of the server on a payload
    Keys,           \* masking keys, <<>> for none
    Payloads,       \* messages written, sequences of bits
    Parts,          \* messages written in two frames, pairs of sequences of bits
    MaxWrites       \* MaxWrites[s]: bound on the writes of side s

VARIABLES
    out,            \* out[s]: bytes sent by side s and not read by the other
    pool,           \* sides whose ws_pool has the connection
    sock,           \* sides whose socket is not closed
    link,           \* the connection is up
    pc,             \* pc[s]: what the reading coroutine of side s does
    recv_buf,       \* recv_buf[s]: fragments of a message
    events,         \* calls of the server's handlers, in order
    got,            \* got[s]: messages handed to side s
    sent,           \* sent[s]: messages written by side s
    writes,         \* frames written by each side
    lost            \* bytes read with the client's handshake answer and dropped

vars == <<out, pool, sock, link, pc, recv_buf, events, got, sent, writes, lost>>

Side == {"client", "server"}
Other(s) == IF s = "client" THEN "server" ELSE "client"

MaskBit == 8
op_code == [frame |-> 0, text |-> 1, close |-> 8, ping |-> 9, pong |-> 10]
NameOf(op) ==
    IF \E n \in DOMAIN op_code : op_code[n] = op
    THEN CHOOSE n \in DOMAIN op_code : op_code[n] = op ELSE "unknown"
KeyLen == 2

-----------------------------------------------------------------------------
(* Frames. *)

\* crypt.xor_str: the key is repeated.
xor_str(p, key) == [i \in DOMAIN p |-> (p[i] + key[((i - 1) % Len(key)) + 1]) % 2]

Digits(n, w) == [i \in 1 .. w |-> (n \div Base ^ (w - i)) % Base]
Number(d) == FoldLeft(LAMBDA a, b : a * Base + b, 0, d)

Length(n, mask) ==
    CASE n < Short -> <<mask + n>>
      [] n >= Short /\ n < Medium -> <<mask + Short>> \o Digits(n, 2)
      [] n >= Medium -> <<mask + Short + 1>> \o Digits(n, 3)

write_frame(fin, op, p, key) ==
    <<(IF fin THEN 16 ELSE 0) + op_code[op]>>
    \o Length(Len(p), IF key = <<>> THEN 0 ELSE MaskBit)
    \o key \o (IF key = <<>> THEN p ELSE xor_str(p, key))

\* Sizes of the parts of the frame a stream starts with.
Ext(s) == CASE s[2] % MaskBit = Short -> 2 [] s[2] % MaskBit = Short + 1 -> 3 [] OTHER -> 0
PayloadLen(s) == IF Ext(s) = 0 THEN s[2] % MaskBit ELSE Number(SubSeq(s, 3, 2 + Ext(s)))

KeyOf(s) == IF s[2] >= MaskBit THEN SubSeq(s, 3 + Ext(s), 2 + Ext(s) + KeyLen) ELSE <<>>

HasHead(s) == Len(s) >= 2 /\ Len(s) >= 2 + Ext(s)
FrameLen(s) == 2 + Ext(s) + (IF s[2] >= MaskBit THEN KeyLen ELSE 0) + PayloadLen(s)
Complete(s) == HasHead(s) /\ Len(s) >= FrameLen(s)

\* read_frame of a complete frame.
read_frame(s) ==
    LET n == FrameLen(s)
        p == SubSeq(s, n - PayloadLen(s) + 1, n)
    IN  [fin |-> s[1] >= 16, op |-> NameOf(s[1] % 16),
         data |-> IF KeyOf(s) = <<>> THEN p ELSE xor_str(p, KeyOf(s)),
         rest |-> SubSeq(s, n + 1, Len(s))]

-----------------------------------------------------------------------------
(* The handshake. *)

Request == -1
BadRequest == -2
Switching == -3
Refusal == -4

\* connect up to the wait for the answer.
Connect(ok) ==
    /\ pc["client"] = "idle"
    /\ pc' = [pc EXCEPT !["client"] = "handshake"]
    /\ out' = [out EXCEPT !["client"] = <<IF ok THEN Request ELSE BadRequest>>]
    /\ pool' = Side /\ sock' = Side /\ link' = TRUE
    /\ UNCHANGED <<recv_buf, events, got, sent, writes, lost>>

\* read_handshake and, when it refuses, write_response; either way resolve_accept
\* calls the handler "handshake" and goes on.
ReadHandshake ==
    LET ok == out["client"][1] = Request
    IN  /\ pc["server"] = "handshake" /\ out["client"] # <<>> /\ "server" \in sock
        /\ pc' = [pc EXCEPT !["server"] = "loop"]
        /\ out' = [out EXCEPT !["client"] = Tail(@),
                              !["server"] = Append(@, IF ok THEN Switching ELSE Refusal)]
        /\ events' = Append(events, "handshake")
        /\ UNCHANGED <<pool, sock, link, recv_buf, got, sent, writes, lost>>

\* write_handshake has its answer: what was read with it (n bytes: nothing, or all that
\* was sent) is dropped; an error leaves the connection in the pool.
Answer(n) ==
    /\ pc["client"] = "handshake" /\ out["server"] # <<>>
    /\ pc' = [pc EXCEPT !["client"] = IF out["server"][1] = Switching THEN "ready" ELSE "failed"]
    /\ out' = [out EXCEPT !["server"] = SubSeq(@, n + 2, Len(@))]
    /\ lost' = n
    /\ UNCHANGED <<pool, sock, link, recv_buf, events, got, sent, writes>>

-----------------------------------------------------------------------------
(* Writing and closing; s is a side whose pool has the connection. *)

Up(s) == s \in pool /\ (s = "client" => pc[s] \in {"ready", "read"})
              /\ (s = "server" => events # <<>>)

Frame(s, fin, op, p, key) ==
    /\ writes[s] < MaxWrites[s]
    /\ out' = [out EXCEPT ![s] = @ \o write_frame(fin, op, p, key)]
    /\ writes' = [writes EXCEPT ![s] = @ + 1]

Write(s, p, key) ==
    /\ Up(s)
    /\ Frame(s, TRUE, "text", p, key)
    /\ sent' = [sent EXCEPT ![s] = Append(@, p)]
    /\ UNCHANGED <<pool, sock, link, pc, recv_buf, events, got, lost>>

\* A peer of another implementation sends a message in two frames, with a ping between.
WriteParts(s, p, q) ==
    /\ Up(s)
    /\ writes[s] < MaxWrites[s]
    /\ out' = [out EXCEPT ![s] = @ \o write_frame(FALSE, "text", p, <<>>)
                                   \o write_frame(TRUE, "ping", <<>>, <<>>)
                                   \o write_frame(TRUE, "frame", q, <<>>)]
    /\ writes' = [writes EXCEPT ![s] = @ + 1]
    /\ sent' = [sent EXCEPT ![s] = Append(@, p \o q)]
    /\ UNCHANGED <<pool, sock, link, pc, recv_buf, events, got, lost>>

\* It sends a frame with an opcode that op_code does not have.
WriteUnknown(s) ==
    /\ Up(s)
    /\ writes[s] < MaxWrites[s]
    /\ out' = [out EXCEPT ![s] = @ \o <<16 + 3, 0>>]
    /\ writes' = [writes EXCEPT ![s] = @ + 1]
    /\ UNCHANGED <<pool, sock, link, pc, recv_buf, events, got, sent, lost>>

ping(s) ==
    /\ Up(s)
    /\ Frame(s, TRUE, "ping", <<>>, <<>>)
    /\ UNCHANGED <<pool, sock, link, pc, recv_buf, events, got, sent, lost>>

\* _close_websocket
close_websocket(s) == pool' = pool \ {s} /\ sock' = sock \ {s}

\* M.close by any coroutine; the close frame has a code and a reason, or nothing.
Close(s, p) ==
    /\ Up(s)
    /\ out' = [out EXCEPT ![s] = @ \o write_frame(TRUE, "close", p, <<>>)]
    /\ close_websocket(s)
    /\ UNCHANGED <<link, pc, recv_buf, events, got, sent, writes, lost>>

\* The connection breaks.
Break ==
    /\ link /\ pc["client"] # "idle"
    /\ link' = FALSE
    /\ UNCHANGED <<out, pool, sock, pc, recv_buf, events, got, sent, writes, lost>>

-----------------------------------------------------------------------------
(* Reading. *)

\* A frame the reader of side s can take; a read that gives false.
CanRead(s) == s \in sock /\ Complete(out[Other(s)])
NoRead(s) == s \notin sock \/ (~(link /\ Other(s) \in sock) /\ ~Complete(out[Other(s)]))

Taken(s) == [out EXCEPT ![Other(s)] = read_frame(@).rest]

\* A message or a part of one: the parts held after it, and the message if it ends one.
Joined(s, f) == Append(recv_buf[s], f.data)

\* not _isws_closed(self.id)
StillOpen == "server" \in pool

\* The top of the loop of resolve_accept.
Loop ==
    /\ pc["server"] = "loop"
    /\ IF StillOpen
       THEN pc' = [pc EXCEPT !["server"] = "read"] /\ UNCHANGED events
       ELSE pc' = [pc EXCEPT !["server"] = "ended"] /\ events' = Append(events, "close")
    /\ UNCHANGED <<out, pool, sock, link, recv_buf, got, sent, writes, lost>>

\* accept after resolve_accept: the handler is told of a socket_error only, another error
\* is returned to the caller of accept.
Accepted(told) ==
    LET closed == "server" \notin pool
    IN  /\ pc' = [pc EXCEPT !["server"] = IF told = "error" THEN "raised" ELSE "ended"]
        /\ IF closed THEN UNCHANGED <<pool, sock>> ELSE close_websocket("server")
        /\ events' = (CASE told = "socket_error" -> Append(events, IF closed THEN "close" ELSE "error")
                        [] told = "error" -> events
                        [] told = "close" -> Append(events, "close"))

\* A frame of resolve_accept that is a message or a part of one.
Message ==
    LET f == read_frame(out["client"])
        parts == Joined("server", f)
        all == FlattenSeq(parts)
        over == recv_buf["server"] # <<>> \/ ~f.fin
    IN  /\ pc["server"] = "read" /\ CanRead("server")
        /\ f.op \in {"text", "frame"} /\ Len(f.data) <= MAX_FRAME_SIZE
        /\ out' = Taken("server")
        /\ IF over /\ Len(all) > MAX_FRAME_SIZE
           THEN Accepted("error") /\ UNCHANGED <<recv_buf, got>>
           ELSE /\ recv_buf' = [recv_buf EXCEPT !["server"] = IF f.fin THEN <<>> ELSE parts]
                /\ got' = [got EXCEPT !["server"] = IF f.fin THEN Append(@, all) ELSE @]
                /\ events' = (IF f.fin THEN Append(events, "message") ELSE events)
                /\ pc' = [pc EXCEPT !["server"] = "loop"]
                /\ UNCHANGED <<pool, sock>>
        /\ UNCHANGED <<link, sent, writes, lost>>

\* The handler "close" after a close frame, and the end of the loop.
CloseTold == Accepted("close")

\* The other frames of resolve_accept; the answer may find the connection broken.
Control(broken) ==
    LET f == read_frame(out["client"])
        answer == CASE f.op = "close" -> write_frame(TRUE, "close", <<>>, <<>>)
                    [] f.op = "ping" -> write_frame(TRUE, "pong", <<>>, <<>>)
                    [] f.op = "pong" -> <<>>
    IN  /\ pc["server"] = "read" /\ CanRead("server")
        /\ f.op \in {"close", "ping", "pong"}
        /\ broken => ~link /\ answer # <<>>
        /\ out' = [Taken("server") EXCEPT !["server"] = IF broken THEN @ ELSE @ \o answer]
        /\ CASE broken -> Accepted("socket_error")
             [] ~broken /\ f.op = "close" -> CloseTold
             [] ~broken /\ f.op # "close" -> /\ pc' = [pc EXCEPT !["server"] = "loop"]
                                             /\ events' = Append(events, f.op)
                                             /\ UNCHANGED <<pool, sock>>
        /\ UNCHANGED <<link, recv_buf, got, sent, writes, lost>>

\* read_frame raises: the socket has ended, a frame is too large, or its opcode is unknown.
ReadFails ==
    LET s == out["client"]
        large == "server" \in sock /\ HasHead(s) /\ PayloadLen(s) > MAX_FRAME_SIZE
        unknown == CanRead("server") /\ read_frame(s).op = "unknown"
    IN  /\ \/ pc["server"] = "read" /\ (large \/ unknown) /\ Accepted("error")
           \/ pc["server"] = "read" /\ ~large /\ NoRead("server") /\ Accepted("socket_error")
           \/ pc["server"] = "handshake" /\ ~link /\ Accepted("socket_error")
        /\ UNCHANGED <<out, link, recv_buf, got, sent, writes, lost>>

\* M.read is called, takes a frame (an unknown opcode fails an assertion), or raises.
CallRead ==
    /\ pc["client"] = "ready" /\ "client" \in pool
    /\ pc' = [pc EXCEPT !["client"] = "read"]
    /\ recv_buf' = [recv_buf EXCEPT !["client"] = <<>>]
    /\ UNCHANGED <<out, pool, sock, link, events, got, sent, writes, lost>>

Read ==
    LET f == read_frame(out["server"])
        text == f.op \in {"text", "frame"}
    IN  /\ pc["client"] = "read" /\ CanRead("client")
        /\ out' = [Taken("client") EXCEPT !["client"] =
                       IF f.op = "ping" THEN @ \o write_frame(TRUE, "pong", <<>>, <<>>) ELSE @]
        /\ pc' = [pc EXCEPT !["client"] =
                     IF f.op \in {"close", "unknown"} \/ (text /\ f.fin) THEN "ready" ELSE "read"]
        /\ recv_buf' = [recv_buf EXCEPT !["client"] = IF text THEN Joined("client", f) ELSE @]
        /\ got' = [got EXCEPT !["client"] =
                       IF text /\ f.fin THEN Append(@, FlattenSeq(Joined("client", f))) ELSE @]
        /\ IF f.op = "close" THEN close_websocket("client") ELSE UNCHANGED <<pool, sock>>
        /\ UNCHANGED <<link, events, sent, writes, lost>>

ReadRaises ==
    /\ pc["client"] = "read" /\ NoRead("client")
    /\ pc' = [pc EXCEPT !["client"] = "ready"]
    /\ UNCHANGED <<out, pool, sock, link, recv_buf, events, got, sent, writes, lost>>

-----------------------------------------------------------------------------
Init ==
    /\ out = [s \in Side |-> <<>>]
    /\ pool = {} /\ sock = {} /\ link = TRUE
    /\ pc = [s \in Side |-> IF s = "client" THEN "idle" ELSE "handshake"]
    /\ recv_buf = [s \in Side |-> <<>>]
    /\ events = <<>>
    /\ got = [s \in Side |-> <<>>] /\ sent = [s \in Side |-> <<>>]
    /\ writes = [s \in Side |-> 0]
    /\ lost = 0

Next ==
    \/ \E ok \in BOOLEAN : Connect(ok)
    \/ ReadHandshake
    \/ \E n \in {0, Len(out["server"]) - 1} : Answer(n)
    \/ \E s \in Side, p \in Payloads, key \in Keys : Write(s, p, key)
    \/ \E s \in Side, m \in Parts : WriteParts(s, m[1], m[2])
    \/ \E s \in Side : WriteUnknown(s)
    \/ \E s \in Side : ping(s)
    \/ \E s \in Side, p \in {<<>>, <<1, 0, 1>>} : Close(s, p)
    \/ Break
    \/ Loop
    \/ Message
    \/ \E broken \in BOOLEAN : Control(broken)
    \/ ReadFails
    \/ CallRead
    \/ Read
    \/ ReadRaises

Spec == Init /\ [][Next]_vars

-----------------------------------------------------------------------------
\* Every variable keeps its type.
TypeOK ==
    /\ pool \subseteq Side /\ sock \subseteq Side
    /\ pc["client"] \in {"idle", "handshake", "ready", "read", "failed"}
    /\ pc["server"] \in {"handshake", "loop", "read", "ended", "raised"}
    /\ \A s \in Side : writes[s] \in 0 .. MaxWrites[s]

\* Messages arrive whole, unmasked and in order on both sides, whatever their lengths,
\* fragments and the pings between them, as long as the client's handshake has not
\* dropped bytes that arrived with its answer.
InOrder ==
    /\ IsPrefix(got["server"], sent["client"])
    /\ lost = 0 => IsPrefix(got["client"], sent["server"])

EndEvents == {i \in DOMAIN events : events[i] \in {"close", "error"}}

\* The server's handlers are told of the end of a connection, by "close" or by "error",
\* exactly once, and of nothing afterwards, however it ends: by a close frame, a close of
\* the service's own, or a socket that fails.  The exceptions are the ends the server itself
\* makes, on a payload that is too large or an opcode it does not know: accept returns
\* false and the error, and no handler is called.
EndToldOnce ==
    /\ \A i \in EndEvents : i = Len(events)
    /\ Cardinality(EndEvents) = (IF pc["server"] = "ended" THEN 1 ELSE 0)

\* When accept returns, the connection has left the pool and its socket is closed; at
\* any time an open socket is one the pool has.
SocketsPooled ==
    /\ pc["server"] \in {"ended", "raised"} => "server" \notin pool \cup sock
    /\ sock \subseteq pool
=============================================================================
