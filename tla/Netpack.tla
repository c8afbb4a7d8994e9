------------------------------ MODULE Netpack ------------------------------
(***************************************************************************)
(* Packets of a byte stream: src/luaclib-src/lua-netpack.cpp, and          *)
(* lua-netpack_tcp.cpp, which differs in the length of the header and cuts *)
(* long packets.  A packet is its size, big-endian, and its data; the      *)
(* stream comes in pieces of any length.  What has come of a packet waits  *)
(* in a table under the socket; packets that come together wait in a ring  *)
(* that grows.                                                             *)
(***************************************************************************)
EXTENDS Integers, Sequences, SequencesExt

CONSTANTS HeaderSize,   \* bytes of the header: 2, or 4 for tcp
          Base,         \* the values of a byte
          SmallString,  \* longer packets are cut to this
          QueueSize     \* QUEUE_SIZE: slots the ring has at first and grows by

-----------------------------------------------------------------------------
(* The ring. *)

EmptyRing == [cap |-> QueueSize, head |-> 0, tail |-> 0, slot |-> [i \in 0 .. QueueSize - 1 |-> <<>>]]

\* expand_queue: the ring is full, its tail has come round to its head.
ExpandQueue(q) ==
    [cap |-> q.cap + QueueSize, head |-> 0, tail |-> q.cap,
     slot |-> [i \in 0 .. q.cap + QueueSize - 1 |->
                 IF i < q.cap THEN q.slot[(q.head + i) % q.cap] ELSE <<>>]]

PushData(q, item) ==
    LET tail == IF q.tail + 1 >= q.cap THEN q.tail + 1 - q.cap ELSE q.tail + 1
        r == [q EXCEPT !.slot[q.tail] = item, !.tail = tail] IN
    IF r.head = r.tail THEN ExpandQueue(r) ELSE r

\* l_pop.
IsEmptyRing(q) == q.head = q.tail
RingHead(q) == q.slot[q.head]
Popped(q) == [q EXCEPT !.head = IF q.head + 1 >= q.cap THEN 0 ELSE q.head + 1]

-----------------------------------------------------------------------------
(* Packets. *)

\* An uncomplete packet: read < 0 when its header is uncomplete.
None == [read |-> -2, header |-> <<>>, size |-> 0, data |-> <<>>]
NoHeader(bytes) == [read |-> -1, header |-> bytes, size |-> 0, data |-> <<>>]
Partial(size, bytes) == [read |-> Len(bytes), header |-> <<>>, size |-> size, data |-> bytes]

ReadSize(bytes) ==
    LET size == FoldLeft(LAMBDA n, b : n * Base + b, 0, SubSeq(bytes, 1, HeaderSize)) IN
    IF size > SmallString THEN SmallString ELSE size

\* l_pack.
Digit(n, i) == (n \div Base ^ (HeaderSize - i)) % Base
SizeBytes(n) == [i \in 1 .. HeaderSize |-> Digit(n, i)]
Pack(data) == SizeBytes(Len(data)) \o data

Rest(bytes, n) == SubSeq(bytes, n + 1, Len(bytes))

\* push_more: what is left of a packet, and the ring with the whole ones.
RECURSIVE PushMore(_, _, _)
PushMore(q, fd, bytes) ==
    LET size == ReadSize(bytes)
        body == Rest(bytes, HeaderSize)
        rest == Rest(body, size)
        pushed == PushData(q, [fd |-> fd, data |-> SubSeq(body, 1, size)]) IN
    IF Len(bytes) < HeaderSize THEN [queue |-> q, uc |-> NoHeader(bytes)]
    ELSE IF Len(body) < size THEN [queue |-> q, uc |-> Partial(size, body)]
    ELSE IF rest = <<>> THEN [queue |-> pushed, uc |-> None]
    ELSE PushMore(pushed, fd, rest)

Took(q, uc) == [type |-> "none", queue |-> q, uc |-> uc, data |-> <<>>]
One(q, data) == [type |-> "data", queue |-> q, uc |-> None, data |-> data]
More(q, fd, data, rest) ==
    LET m == PushMore(PushData(q, [fd |-> fd, data |-> data]), fd, rest) IN
    [type |-> "more", queue |-> m.queue, uc |-> m.uc, data |-> <<>>]

\* The part of filter_data_ that fills the packet uc.
Fill(q, fd, uc, bytes) ==
    LET need == uc.size - uc.read
        data == uc.data \o SubSeq(bytes, 1, need) IN
    IF Len(bytes) < need THEN Took(q, Partial(uc.size, uc.data \o bytes))
    ELSE IF Len(bytes) = need THEN One(q, data)
    ELSE More(q, fd, data, Rest(bytes, need))

FillHeader(q, fd, uc, bytes) ==
    LET n == HeaderSize - Len(uc.header)
        header == uc.header \o SubSeq(bytes, 1, n) IN
    IF Len(header) < HeaderSize THEN Took(q, NoHeader(header))
    ELSE Fill(q, fd, Partial(ReadSize(header), <<>>), Rest(bytes, n))

\* The part for a new packet.
Fresh(q, fd, bytes) ==
    LET size == ReadSize(bytes)
        body == Rest(bytes, HeaderSize) IN
    IF Len(bytes) < HeaderSize THEN Took(q, NoHeader(bytes))
    ELSE IF Len(body) < size THEN Took(q, Partial(size, body))
    ELSE IF Len(body) = size THEN One(q, body)
    ELSE More(q, fd, SubSeq(body, 1, size), Rest(body, size))

FilterData(q, fd, uc, bytes) ==
    IF uc = None THEN Fresh(q, fd, bytes)
    ELSE IF uc.read < 0 THEN FillHeader(q, fd, uc, bytes)
    ELSE Fill(q, fd, uc, bytes)
=============================================================================
