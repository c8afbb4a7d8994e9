------------------------------- MODULE GateWs -------------------------------
(***************************************************************************)
(* The gate for websockets: src/lualib/snax/gateserver_ws.lua and          *)
(* src/service/gate_ws.lua.  A client sends the HTTP header of a           *)
(* handshake, which may be a wrong one, waits for the answer, and then     *)
(* sends frames.  The handler of gate_ws.lua never blocks.                 *)
(***************************************************************************)
EXTENDS Netpack, FiniteSets

(***************************************************************************)
(* The frames of a websocket: src/luaclib-src/lua-netpack_ws.cpp.  Until   *)
(* the handshake is done the stream is an HTTP header; then it is frames:  *)
(* two bytes, a longer length in more bytes, a mask, and the data with the *)
(* mask laid over it.  The ring is that of Netpack.                        *)
(*                                                                         *)
(* Scaled down: the length has a byte of its own up to ShortLen - 1, the   *)
(* `short' length is one byte and the 64-bit one two, data and masks are   *)
(* bits.  The first byte of a frame is 1 when it is whole and 0 for one    *)
(* that read_size does not take (a fragment).  Headers that do not fit     *)
(* HEADERSIZE are left out.                                                *)
(***************************************************************************)

CONSTANTS MaskLen,     \* WEBSOCKET_MASK_LEN
          MaxPackSize  \* MAX_PACKSIZE

ShortLen == 3
LongLen == 4
Masked == 8
End == <<60, 61>>      \* the empty line after an HTTP header

WsNone == [read |-> -2, header |-> <<>>, size |-> 0, data |-> <<>>, mask |-> <<>>]
WsNoHeader(bytes) == [WsNone EXCEPT !.read = -1, !.header = bytes]
WsPartial(size, data, mask) == [read |-> Len(data), header |-> <<>>, size |-> size, data |-> data, mask |-> mask]

-----------------------------------------------------------------------------
\* read_size: -1 when the header is uncomplete, -2 when it is to be dropped.
NoSize(n) == [size |-> n, head |-> 0, mask |-> <<>>]

ReadSizeWs(b) ==
    LET length == b[2] % Masked
        ext == CASE length < ShortLen -> 0 [] length = ShortLen -> 1 [] OTHER -> 2
        head == 2 + ext
        size == CASE ext = 0 -> length [] ext = 1 -> b[3] [] OTHER -> b[3] * 16 + b[4]
        masks == IF b[2] >= Masked THEN MaskLen ELSE 0 IN
    IF Len(b) < 2 THEN NoSize(-1)
    ELSE IF b[1] = 0 THEN NoSize(-2)
    ELSE IF Len(b) < head + masks THEN NoSize(-1)
    ELSE [size |-> size, head |-> head + masks, mask |-> SubSeq(b, head + 1, head + masks)]

\* get_http_header.
HttpHeader(b) ==
    LET ends == {n \in 2 .. Len(b) : SubSeq(b, n - 1, n) = End} IN
    IF ends = {} THEN NoSize(-1) ELSE NoSize(CHOOSE n \in ends : \A m \in ends : n <= m)

\* The size of what comes next, after frames that are dropped.
RECURSIVE Sized(_, _)
Sized(hs, b) ==
    LET s == IF hs THEN HttpHeader(b) ELSE ReadSizeWs(b) IN
    IF s.size = -2 THEN Sized(hs, Rest(b, 2))
    ELSE [s |-> [s EXCEPT !.size = IF @ > MaxPackSize /\ ~hs THEN MaxPackSize ELSE @], bytes |-> b]

\* decode_wsmask_data, for bytes that follow `done' others of the frame.
Unmask(bytes, mask, done) ==
    [i \in DOMAIN bytes |->
       IF mask = <<>> THEN bytes[i] ELSE (bytes[i] + mask[((i - 1 + done) % MaskLen) + 1]) % 2]

\* l_pack, and what a client does, who masks.
Length(n) ==
    IF n < ShortLen THEN <<n>> ELSE IF n < 16 THEN <<ShortLen, n>> ELSE <<LongLen, n \div 16, n % 16>>
Frame(data, mask) ==
    LET l == Length(Len(data)) IN
    <<1, IF mask = <<>> THEN l[1] ELSE l[1] + Masked>> \o Tail(l) \o mask \o Unmask(data, mask, 0)

-----------------------------------------------------------------------------
RECURSIVE PushMoreWs(_, _, _, _)
PushMoreWs(q, fd, hs, bytes) ==
    LET z == Sized(hs, bytes)
        body == Rest(z.bytes, z.s.head)
        rest == Rest(body, z.s.size)
        pushed == PushData(q, [fd |-> fd, data |-> Unmask(SubSeq(body, 1, z.s.size), z.s.mask, 0)]) IN
    IF z.s.size = -1 THEN [queue |-> q, uc |-> WsNoHeader(z.bytes)]
    ELSE IF Len(body) < z.s.size
    THEN [queue |-> q, uc |-> WsPartial(z.s.size, Unmask(body, z.s.mask, 0), z.s.mask)]
    ELSE IF rest = <<>> THEN [queue |-> pushed, uc |-> WsNone]
    ELSE PushMoreWs(pushed, fd, hs, rest)

TookWs(q, uc) == [type |-> "none", queue |-> q, uc |-> uc, data |-> <<>>]
OneWs(q, data) == [type |-> "data", queue |-> q, uc |-> WsNone, data |-> data]
MoreWs(q, fd, hs, data, rest) ==
    LET m == PushMoreWs(PushData(q, [fd |-> fd, data |-> data]), fd, hs, rest) IN
    [type |-> "more", queue |-> m.queue, uc |-> m.uc, data |-> <<>>]

FillWs(q, fd, hs, uc, bytes) ==
    LET need == uc.size - uc.read
        data == uc.data \o Unmask(SubSeq(bytes, 1, need), uc.mask, uc.read) IN
    IF Len(bytes) < need
    THEN TookWs(q, WsPartial(uc.size, uc.data \o Unmask(bytes, uc.mask, uc.read), uc.mask))
    ELSE IF Len(bytes) = need THEN OneWs(q, data)
    ELSE MoreWs(q, fd, hs, data, Rest(bytes, need))

\* The header is filled byte by byte until its size is known.
RECURSIVE FillHeaderWs(_, _, _, _, _)
FillHeaderWs(q, fd, hs, header, bytes) ==
    LET z == Sized(hs, Append(header, Head(bytes))) IN
    IF bytes = <<>> THEN TookWs(q, WsNoHeader(header))
    ELSE IF z.s.size = -1 THEN FillHeaderWs(q, fd, hs, z.bytes, Tail(bytes))
    ELSE FillWs(q, fd, hs, WsPartial(z.s.size, IF hs THEN z.bytes ELSE <<>>, z.s.mask), Tail(bytes))

FreshWs(q, fd, hs, bytes) ==
    LET z == Sized(hs, bytes)
        body == Rest(z.bytes, z.s.head)
        data == Unmask(SubSeq(body, 1, z.s.size), z.s.mask, 0) IN
    IF z.s.size = -1 THEN TookWs(q, WsNoHeader(z.bytes))
    ELSE IF Len(body) < z.s.size THEN TookWs(q, WsPartial(z.s.size, Unmask(body, z.s.mask, 0), z.s.mask))
    ELSE IF Len(body) = z.s.size THEN OneWs(q, data)
    ELSE MoreWs(q, fd, hs, data, Rest(body, z.s.size))

FilterDataWs(q, fd, hs, uc, bytes) ==
    IF uc = WsNone THEN FreshWs(q, fd, hs, bytes)
    ELSE IF uc.read < 0 THEN FillHeaderWs(q, fd, hs, uc.header, bytes)
    ELSE FillWs(q, fd, hs, uc, bytes)

-----------------------------------------------------------------------------

CONSTANTS Fd,         \* clients
          Frames,     \* the data of the frames each sends, with their masks; the
                      \* mask "fragment" is a frame that is not taken
          MaxClient,  \* max_client
          MaxPack,    \* max_packsize: longer frames close the client
          MaxOrders   \* bound: commands to the gate

VARIABLES net, rest, connection, client_number, queue, uc, looping, seen,
          answered,   \* fd -> the answer to its handshake
          orders

vars == <<net, rest, connection, client_number, queue, uc, looping, seen, answered, orders>>

Good == <<50>> \o End    \* an HTTP header that checkwebsocket_valid accepts
Bad == <<51>> \o End
Bytes(f) == IF f.mask = "fragment" THEN <<0, 0>> ELSE Frame(f.data, f.mask)
Stream == FlattenSeq([i \in DOMAIN Frames |-> Bytes(Frames[i])])
Taken == SelectSeq(Frames, LAMBDA f : f.mask # "fragment")

-----------------------------------------------------------------------------

\* gateserver.closeclient: the client is no longer counted from now on.
CloseClient(fd) ==
    /\ connection' = [connection EXCEPT ![fd] = "nil"]
    /\ client_number' = IF connection[fd] # "nil" THEN client_number - 1 ELSE client_number

\* dispatch_msg: the handshake, or a frame.
Accepted(data) == data[1] = 50

Handshake(fd, data) ==
    /\ answered' = [answered EXCEPT ![fd] = IF Accepted(data) THEN "101" ELSE "400"]
    /\ IF Accepted(data)
       THEN connection' = [connection EXCEPT ![fd] = "open"] /\ UNCHANGED client_number
       ELSE CloseClient(fd)
    /\ UNCHANGED seen

Message(fd, data) ==
    /\ IF Len(data) >= MaxPack THEN CloseClient(fd) /\ UNCHANGED seen
       ELSE seen' = [seen EXCEPT ![fd] = Append(@, data)] /\ UNCHANGED <<connection, client_number>>
    /\ UNCHANGED answered

DispatchMsg(fd, data) ==
    CASE connection[fd] = "handshake" -> Handshake(fd, data)
      [] connection[fd] = "open" -> Message(fd, data)
      [] OTHER -> UNCHANGED <<connection, client_number, seen, answered>>

\* The client sends its frames when it has the answer to its handshake.
Sendable(fd) == IF answered[fd] = "101" THEN Len(rest[fd]) ELSE Len(rest[fd]) - Len(Stream)

\* What filter_data has made of the bytes is taken.
Filtered(fd, f) ==
    /\ queue' = f.queue
    /\ uc' = [uc EXCEPT ![fd] = f.uc]
    /\ IF f.type = "data" THEN DispatchMsg(fd, f.data)
       ELSE UNCHANGED <<connection, client_number, seen, answered>>
    /\ looping' = (f.type = "more")

ReceiveData(fd, n) ==
    /\ ~looping /\ net[fd] = "started"
    /\ rest' = [rest EXCEPT ![fd] = Rest(@, n)]
    /\ Filtered(fd, FilterDataWs(queue, fd, connection[fd] # "open", uc[fd], SubSeq(rest[fd], 1, n)))
    /\ UNCHANGED <<net, orders>>

\* One turn of dispatch_queue.
DispatchQueue ==
    /\ looping
    /\ IF IsEmptyRing(queue)
       THEN looping' = FALSE /\ UNCHANGED <<queue, connection, client_number, seen, answered>>
       ELSE /\ queue' = Popped(queue)
            /\ DispatchMsg(RingHead(queue).fd, RingHead(queue).data)
            /\ UNCHANGED looping
    /\ UNCHANGED <<net, rest, uc, orders>>

\* MSG.open, MSG.close and MSG.error.
Open(fd) ==
    /\ ~looping /\ net[fd] = "new"
    /\ net' = [net EXCEPT ![fd] = "accepted"]
    /\ IF client_number >= MaxClient THEN UNCHANGED <<connection, client_number>>
       ELSE /\ connection' = [connection EXCEPT ![fd] = "handshake"]
            /\ client_number' = client_number + 1
    /\ UNCHANGED <<rest, queue, uc, looping, seen, answered, orders>>

Close(fd) ==
    /\ ~looping /\ net[fd] \in {"accepted", "started"}
    /\ net' = [net EXCEPT ![fd] = "gone"]
    /\ uc' = [uc EXCEPT ![fd] = WsNone]
    /\ CloseClient(fd)
    /\ UNCHANGED <<rest, queue, looping, seen, answered, orders>>

\* CMD.forward and CMD.accept of gate_ws, as far as gateserver.openclient goes,
\* and CMD.kick.
Start(fd) ==
    /\ ~looping /\ connection[fd] # "nil" /\ net[fd] = "accepted"
    /\ net' = [net EXCEPT ![fd] = "started"]
    /\ UNCHANGED <<rest, connection, client_number, queue, uc, looping, seen, answered, orders>>

Kick(fd) ==
    /\ ~looping /\ orders < MaxOrders /\ orders' = orders + 1
    /\ CloseClient(fd)
    /\ UNCHANGED <<net, rest, queue, uc, looping, seen, answered>>

Init ==
    /\ net = [fd \in Fd |-> "new"]
    /\ rest \in [Fd -> {Good \o Stream, Bad \o Stream}]
    /\ connection = [fd \in Fd |-> "nil"] /\ client_number = 0
    /\ queue = EmptyRing /\ uc = [fd \in Fd |-> WsNone] /\ looping = FALSE
    /\ seen = [fd \in Fd |-> <<>>] /\ answered = [fd \in Fd |-> "none"] /\ orders = 0

Next ==
    \/ \E fd \in Fd : \E n \in 1 .. Sendable(fd) : ReceiveData(fd, n)
    \/ \E fd \in Fd : Open(fd) \/ Close(fd) \/ Start(fd) \/ Kick(fd)
    \/ DispatchQueue

Spec == Init /\ [][Next]_vars

-----------------------------------------------------------------------------
\* Every variable keeps its type.
TypeOK ==
    /\ net \in [Fd -> {"new", "accepted", "started", "gone"}]
    /\ connection \in [Fd -> {"nil", "handshake", "open"}]
    /\ client_number \in 0 .. MaxClient /\ looping \in BOOLEAN

\* However the stream was cut into pieces, the frames of a client are handled
\* whole, unmasked and in order, and none before its handshake was accepted.
FramesInOrder ==
    \A fd \in Fd :
       /\ IsPrefix(seen[fd], [i \in DOMAIN Taken |-> Taken[i].data])
       /\ seen[fd] # <<>> => answered[fd] = "101"

\* client_number counts the clients; it never drifts, whoever closes them.
CountsClients == client_number = Cardinality({fd \in Fd : connection[fd] # "nil"})
=============================================================================
