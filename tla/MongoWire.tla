------------------------------ MODULE MongoWire ------------------------------
(***************************************************************************)
(* The packages of the mongo driver (luaclib-src/lua-mongo.cpp): the six   *)
(* requests it builds in a buffer that grows, and the replies it takes     *)
(* apart.  An int32_t is Width bytes of base Base, lowest first; a         *)
(* document is a sequence of bytes that begins with its own length.        *)
(***************************************************************************)
EXTENDS Integers, Sequences, SequencesExt, FiniteSetsExt

CONSTANTS
    Base, Width,     \* 256 and 4 in the code
    DEFAULT_CAP,     \* the bytes of a buffer on the stack
    Names,           \* names of collections
    Docs,            \* documents
    Ints,            \* values of the numbers of a request
    Cursors,         \* ids of cursors, as two numbers
    MaxPackages,     \* bound: requests of a behaviour
    MaxReplies       \* bound: replies of a behaviour

VARIABLES
    wire,            \* bytes on the way to the server
    asked,           \* what the client meant
    read,            \* what the server has read
    back,            \* bytes on the way to the client
    replied,         \* what the server meant
    got,             \* what driver.reply has returned
    over             \* a buffer was written past its end

vars == <<wire, asked, read, back, replied, got, over>>

OP_UPDATE == 2001
OP_INSERT == 2002
OP_QUERY == 2004
OP_GET_MORE == 2005
OP_DELETE == 2006
OP_KILL_CURSORS == 2007
REPLY_CURSORNOTFOUND == 1
REPLY_QUERYFAILURE == 2

little_endian(s) == FoldRight(LAMBDA a, b : a + Base * b, s, 0)
int32(v) == [i \in 1 .. Width |-> (v \div Base ^ (i - 1)) % Base]
get_length(doc) == little_endian(SubSeq(doc, 1, Width))

buffer_create == [cap |-> DEFAULT_CAP, data |-> <<>>, over |-> FALSE]

\* do b->cap *= 2 while (b->cap <= b->size + sz)
Grown(cap, need) == Min({cap * 2 ^ k : k \in {j \in 1 .. 8 : cap * 2 ^ j > need}})

buffer_reserve(b, sz) ==
    IF Len(b.data) + sz <= b.cap THEN b ELSE [b EXCEPT !.cap = Grown(@, Len(b.data) + sz)]

\* write_int32, write_bytes and write_string, on the bytes they write.
write_bytes(b, s) ==
    LET r == buffer_reserve(b, Len(s))
    IN  [r EXCEPT !.data = @ \o s, !.over = @ \/ Len(r.data) + Len(s) > r.cap]

write_string(name) == name \o <<0>>

Total(size, docs) == size + FoldLeft(LAMBDA n, d : n + get_length(d), 0, docs)

\* reserve_length, the fields, write_length, and the documents behind them.
Package(fields, docs) ==
    LET b == FoldLeft(write_bytes, buffer_create, <<int32(0)>> \o fields)
        length == int32(Total(Len(b.data), docs))
        head == [i \in DOMAIN b.data |-> IF i <= Width THEN length[i] ELSE b.data[i]]
        added == [i \in DOMAIN docs |-> SubSeq(docs[i], 1, get_length(docs[i]))]
    IN  [bytes |-> head \o FlattenSeq(added), over |-> b.over]

op_query(r) ==
    Package(<<int32(r.id), int32(0), int32(OP_QUERY), int32(r.before[1]), write_string(r.name),
              int32(r.after[1]), int32(r.after[2])>>, r.docs)

op_insert(r) ==
    Package(<<int32(0), int32(0), int32(OP_INSERT), int32(r.before[1]), write_string(r.name)>>, r.docs)

op_update(r) ==
    Package(<<int32(0), int32(0), int32(OP_UPDATE), int32(0), write_string(r.name),
              int32(r.after[1])>>, r.docs)

op_delete(r) ==
    Package(<<int32(0), int32(0), int32(OP_DELETE), int32(0), write_string(r.name),
              int32(r.after[1])>>, r.docs)

\* The eight bytes of a cursor's id are two numbers.
op_get_more(r) ==
    Package(<<int32(r.id), int32(0), int32(OP_GET_MORE), int32(0), write_string(r.name),
              int32(r.after[1]), int32(r.after[2]) \o int32(r.after[3])>>, <<>>)

op_kill(r) ==
    Package(<<int32(0), int32(0), int32(OP_KILL_CURSORS), int32(0), int32(1),
              int32(r.after[2]) \o int32(r.after[3])>>, <<>>)

-----------------------------------------------------------------------------
\* What is asked: numbers before and after the name of the collection, documents.
Meant(op, id, name, before, after, docs) ==
    [op |-> op, id |-> id, name |-> name, before |-> before, after |-> after, docs |-> docs]

\* mongo_client:genId.
genId == Len(asked) + 1

Sent(r, p) ==
    /\ Len(asked) < MaxPackages
    /\ asked' = Append(asked, r)
    /\ wire' = wire \o p.bytes
    /\ over' = (over \/ p.over)
    /\ UNCHANGED <<read, back, replied, got>>

Query ==
    \E skip, number \in Ints, name \in Names, query \in Docs,
       selector \in {<<>>} \cup {<<d>> : d \in Docs} :
        LET r == Meant(OP_QUERY, genId, name, <<0>>, <<skip, number>>, <<query>> \o selector)
        IN  Sent(r, op_query(r))

Insert ==
    \E name \in Names, docs \in {<<d>> : d \in Docs} \cup {<<d, e>> : d, e \in Docs} :
        LET r == Meant(OP_INSERT, 0, name, <<0>>, <<>>, docs) IN Sent(r, op_insert(r))

Update ==
    \E name \in Names, flags \in 0 .. 3, selector, update \in Docs :
        LET r == Meant(OP_UPDATE, 0, name, <<0>>, <<flags>>, <<selector, update>>)
        IN  Sent(r, op_update(r))

Delete ==
    \E name \in Names, single \in {0, 1}, selector \in Docs :
        LET r == Meant(OP_DELETE, 0, name, <<0>>, <<single>>, <<selector>>) IN Sent(r, op_delete(r))

GetMore ==
    \E number \in Ints, name \in Names, c \in Cursors :
        LET r == Meant(OP_GET_MORE, genId, name, <<0>>, <<number>> \o c, <<>>)
        IN  Sent(r, op_get_more(r))

Kill ==
    \E c \in Cursors :
        LET r == Meant(OP_KILL_CURSORS, 0, <<>>, <<0>>, <<1>> \o c, <<>>) IN Sent(r, op_kill(r))

\* The server (external) reads a package as the protocol has it.
Number(s, p) == little_endian(SubSeq(s, p, p + Width - 1))

RECURSIVE DocsFrom(_)
DocsFrom(s) ==
    IF Len(s) < Width \/ get_length(s) \notin Width .. Len(s) THEN <<>>
    ELSE <<SubSeq(s, 1, get_length(s))>> \o DocsFrom(SubSeq(s, get_length(s) + 1, Len(s)))

NumbersAfter(op) ==
    CASE op = OP_QUERY -> 2 [] op = OP_INSERT -> 0 [] op \in {OP_UPDATE, OP_DELETE} -> 1
      [] op \in {OP_GET_MORE, OP_KILL_CURSORS} -> 3 [] OTHER -> 0

Parsed(s) ==
    LET op == Number(s, 3 * Width + 1)
        name == IF op = OP_KILL_CURSORS THEN <<>>
                ELSE SubSeq(s, 5 * Width + 1, Min({i \in 5 * Width + 1 .. Len(s) : s[i] = 0}) - 1)
        p == 5 * Width + (IF op = OP_KILL_CURSORS THEN 1 ELSE Len(name) + 2)
        n == NumbersAfter(op)
    IN  Meant(op, Number(s, Width + 1), name, <<Number(s, 4 * Width + 1)>>,
              [i \in 1 .. n |-> Number(s, p + (i - 1) * Width)],
              DocsFrom(SubSeq(s, p + n * Width, Len(s))))

ServerRead ==
    /\ Len(wire) >= Width /\ Len(wire) >= get_length(wire)
    /\ read' = Append(read, Parsed(SubSeq(wire, 1, get_length(wire))))
    /\ wire' = SubSeq(wire, get_length(wire) + 1, Len(wire))
    /\ UNCHANGED <<asked, back, replied, got, over>>

\* It replies to a query with documents and a cursor, and may count them wrong; or it breaks
\* off before the end of the reply's header.
Reply(flags, cursor, docs, number, whole) ==
    LET queries == SelectSeq(read, LAMBDA r : r.op \in {OP_QUERY, OP_GET_MORE})
        id == queries[Len(replied) + 1].id
        header == int32(0) \o int32(id) \o int32(1) \o int32(flags) \o int32(cursor[1]) \o int32(cursor[2])
                    \o int32(0) \o int32(number)
        body == IF whole THEN header \o FlattenSeq(docs) ELSE Front(header)
    IN  /\ Len(replied) < MaxReplies /\ Len(replied) < Len(queries)
        /\ replied' = Append(replied, [id |-> id, flags |-> flags, cursor |-> cursor, docs |-> docs,
                                       number |-> number, whole |-> whole])
        /\ back' = back \o int32(Len(body) + Width) \o body
        /\ UNCHANGED <<wire, asked, read, got, over>>

-----------------------------------------------------------------------------
\* reply_length: what is left to read behind the length.
reply_length(s) == little_endian(s) - Width

\* No document, no cursor.
Nil == <<>>

\* The loop of op_reply: the documents, and the bytes that are left over.
RECURSIVE Split(_, _)
Split(s, docs) ==
    IF Len(s) <= Width THEN [docs |-> docs, left |-> Len(s)]
    ELSE LET n == get_length(s)
         IN  IF n <= 0 \/ n > Len(s) THEN [docs |-> Append(docs, s), left |-> -1]
             ELSE Split(SubSeq(s, n + 1, Len(s)), Append(docs, SubSeq(s, 1, n)))

Closed(low, high) == low = 0 /\ high = 0

Counted(docs, number) == Len(docs) = number

\* The answer to no request: one that is too short, or that makes op_reply raise.
Failed(id) == [succ |-> FALSE, id |-> id, document |-> Nil, result |-> <<>>, cursor |-> Nil]

\* A reply whose header is there; REPLY_CURSORNOTFOUND is not looked at.
WholeReply(data) ==
    LET id == Number(data, Width + 1)
        flags == Number(data, 3 * Width + 1)
        low == Number(data, 4 * Width + 1)
        high == Number(data, 5 * Width + 1)
        number == Number(data, 7 * Width + 1)
        body == SubSeq(data, 8 * Width + 1, Len(data))
        split == Split(body, <<>>)
        failure == (flags \div REPLY_QUERYFAILURE) % 2 = 1
    IN  CASE failure -> [Failed(id) EXCEPT !.document = SubSeq(body, 1, get_length(body))]
          [] ~failure /\ ~Counted(split.docs, number) -> Failed(id)
          [] ~failure /\ Counted(split.docs, number) ->
                IF split.left # 0 THEN Failed(-1)
                ELSE [succ |-> TRUE, id |-> id,
                      document |-> IF number = 0 THEN Nil ELSE split.docs[1],
                      result |-> split.docs,
                      cursor |-> IF Closed(low, high) THEN Nil ELSE <<low, high>>]

op_reply(data) == IF Len(data) < 8 * Width THEN Failed(-1) ELSE WholeReply(data)

\* dispatch_reply: the length, then as many bytes.
dispatch_reply ==
    /\ Len(back) >= Width
    /\ Len(back) >= Width + reply_length(SubSeq(back, 1, Width))
    /\ LET n == reply_length(SubSeq(back, 1, Width))
       IN  /\ got' = Append(got, op_reply(SubSeq(back, Width + 1, Width + n)))
           /\ back' = SubSeq(back, Width + n + 1, Len(back))
    /\ UNCHANGED <<wire, asked, read, replied, over>>

Init ==
    wire = <<>> /\ asked = <<>> /\ read = <<>> /\ back = <<>> /\ replied = <<>> /\ got = <<>>
    /\ over = FALSE

Next ==
    \/ Query \/ Insert \/ Update \/ Delete \/ GetMore \/ Kill \/ ServerRead \/ dispatch_reply
    \/ \E c \in Cursors, docs \in {<<>>} \cup {<<d>> : d \in Docs} \cup {<<d, e>> : d, e \in Docs} :
        \/ \E number \in {Len(docs), Len(docs) + 1}, whole \in BOOLEAN : Reply(0, c, docs, number, whole)
        \/ Len(docs) = 1 /\ Reply(REPLY_QUERYFAILURE, <<0, 0>>, docs, 1, TRUE)
        \/ docs = <<>> /\ Reply(REPLY_CURSORNOTFOUND, c, docs, 0, TRUE)

Spec == Init /\ [][Next]_vars

-----------------------------------------------------------------------------
\* Every variable keeps its type.
TypeOK ==
    /\ \A s \in {wire, back} : \A i \in DOMAIN s : s[i] \in 0 .. Base - 1
    /\ over \in BOOLEAN

\* No write of lua-mongo.cpp goes past the buffer: buffer_reserve makes it large
\* enough, whatever the name is.
WithinCap == ~over

\* The server reads what the client meant, package after package: the length each
\* package begins with counts all of its documents.
ServerReads ==
    /\ Len(read) <= Len(asked) /\ \A i \in DOMAIN read : read[i] = asked[i]
    /\ wire = <<>> => Len(read) = Len(asked)

\* What a reply tells, and what the caller must not be told.
Told(r) ==
    CASE ~r.whole -> Failed(-1)
      [] r.whole /\ r.flags = REPLY_QUERYFAILURE -> [Failed(r.id) EXCEPT !.document = r.docs[1]]
      [] r.whole /\ r.flags # REPLY_QUERYFAILURE /\ r.number # Len(r.docs) -> Failed(r.id)
      [] r.whole /\ r.flags # REPLY_QUERYFAILURE /\ r.number = Len(r.docs) ->
            [succ |-> TRUE, id |-> r.id, document |-> IF r.docs = <<>> THEN Nil ELSE r.docs[1],
             result |-> r.docs, cursor |-> IF r.cursor = <<0, 0>> THEN Nil ELSE r.cursor]

\* op_reply gives the caller the documents, the cursor unless it is closed, and
\* the failure of a query or a wrong number of documents; nothing is taken from a reply
\* that is too short.  What it does not tell is that the server no longer has the cursor:
\* op_reply ignores REPLY_CURSORNOTFOUND, and such a reply reads as the end of the
\* documents, with success.
ReplyTold == \A i \in DOMAIN got : got[i] = Told(replied[i])
=============================================================================
