----------------------------- MODULE HttpMessage ----------------------------
(***************************************************************************)
(* One HTTP message on one connection: the server's reader (httpd.lua,     *)
(* read_all) or the client's (internal.lua, M.request), which take the     *)
(* header and the body from a socket whose bytes arrive in pieces of any   *)
(* size, and the writers of the other side (writeall, M.request).          *)
(*                                                                         *)
(* A token of the stream is a pair: CR, LF, a data byte, or a piece of a   *)
(* line without line end (a start line, a header field, the digits of a    *)
(* chunk size), whose parts no property tells apart.                       *)
(***************************************************************************)
EXTENDS Integers, Sequences, SequencesExt

CONSTANTS
    Messages,       \* the messages sent: to whom, by which writer, what it is given,
                    \* what another writer sends, how reading may end, whether the end
                    \* of the connection ends the body
    LIMIT,          \* bound of recvheader on a header without its end
    ChunkLimit,     \* bound of chunksize on a size without its end (128)
    BodyLimit       \* bodylimit of httpd.read_request

VARIABLES
    msg,            \* the message on its way
    wire,           \* bytes not delivered yet
    buf,            \* bytes in the socket's buffer
    closed,         \* the other side has closed the connection
    pc,             \* what the reader does next
    acc,            \* the reader's local "header" or "body": bytes read and not used
    lines,          \* lines of the header
    size,           \* size of the chunk being read
    total,          \* sum of the chunk sizes
    result          \* the body read so far

vars == <<msg, wire, buf, closed, pc, acc, lines, size, total, result>>
reader == <<acc, lines, size, total, result>>

CR == <<"cr", 0>>
LF == <<"lf", 0>>
CRLF == <<CR, LF>>

Nil == -1

-----------------------------------------------------------------------------
(* The writers. *)

Field(k, v) == <<<<k, v>>>> \o CRLF

Body(m) == FlattenSeq(m.pieces)

RECURSIVE Chunks(_)
Chunks(pieces) ==
    IF pieces = <<>> THEN CRLF \o <<<<"hex", 0>>>> \o CRLF \o CRLF
    ELSE (IF Head(pieces) = <<>> THEN <<>>
          ELSE CRLF \o <<<<"hex", Len(Head(pieces))>>>> \o CRLF \o Head(pieces))
         \o Chunks(Tail(pieces))

\* writeall of httpd.lua: the body is a string, a function giving pieces, or nil.
writeall(m, header) ==
    Field("status", m.code) \o header \o
    (CASE m.kind = "string" -> Field("content-length", Len(Body(m))) \o CRLF \o Body(m)
       [] m.kind = "function" -> Field("transfer-encoding", 1) \o Chunks(m.pieces)
       [] m.kind = "nil" -> CRLF \o Body(m))

\* The first half of M.request: the content or its absence as a length of zero.
request(m, header) ==
    Field("request", 1) \o header \o Field("content-length", Len(Body(m))) \o CRLF \o Body(m)

\* What is sent; another writer sends what the message says.
OnWire(m) ==
    LET header == FlattenSeq([i \in DOMAIN m.header |-> Field(m.header[i][1], m.header[i][2])])
    IN  CASE m.by = "writeall" -> writeall(m, header)
          [] m.by = "request" -> request(m, header)
          [] m.by = "other" -> Field("request", m.code) \o header \o m.raw

-----------------------------------------------------------------------------
(* Operators on what has been read. *)

Drop(s, n) == SubSeq(s, n + 1, Len(s))

Starts(s, p) == Len(s) >= Len(p) /\ SubSeq(s, 1, Len(p)) = p

\* s:find(p, from, true): the first position, or 0.
Find(s, p, from) ==
    LET at == {i \in from .. Len(s) - Len(p) + 1 : SubSeq(s, i, i + Len(p) - 1) = p}
    IN  IF at = {} THEN 0 ELSE CHOOSE i \in at : \A j \in at : i <= j

\* The position -#bytes - 3 of recvheader, which a too large count moves to the front.
From(header, bytes) ==
    LET p == Len(header) - Len(bytes) - 2 IN IF p < 1 THEN 1 ELSE p

\* header:gmatch("(.-)\r\n"), up to the empty line.
RECURSIVE Lines(_)
Lines(h) ==
    LET e == Find(h, CRLF, 1)
    IN  IF e <= 1 THEN <<>> ELSE <<SubSeq(h, 1, e - 1)>> \o Lines(Drop(h, e + 1))

\* parseheader from the second line: "no" for a line that is no field, "error" for the
\* concatenation of a line to a table of values, "ok" otherwise.
Name(ls, i) ==
    LET from == {j \in 1 .. i : ls[j][1][1] # "tab"}
    IN  IF from = {} THEN "none" ELSE ls[CHOOSE j \in from : \A k \in from : k <= j][1][1]

Count(ls, i, n) == Len(SelectSeq(SubSeq(ls, 1, i), LAMBDA l : l[1][1] = n))

parseheader(ls) ==
    LET bad == {i \in DOMAIN ls : \/ ls[i][1][1] = "junk"
                                  \/ ls[i][1][1] = "tab" /\ Name(ls, i) = "none"}
        many == {i \in DOMAIN ls : ls[i][1][1] = "tab" /\ Count(ls, i, Name(ls, i)) > 1}
        first == {i \in bad \cup many : \A j \in bad \cup many : i <= j}
    IN  IF first = {} THEN "ok" ELSE IF first \subseteq bad THEN "no" ELSE "error"

\* A field given once and not continued has its value, any other is no number and no
\* known encoding.
ValueOf(ls, n) ==
    LET at == {i \in DOMAIN ls : ls[i][1][1] = n}
    IN  IF /\ \E i \in at : at = {i}
           /\ \A i \in at : i = Len(ls) \/ ls[i + 1][1][1] # "tab"
        THEN ls[CHOOSE i \in at : TRUE][1][2] ELSE Nil

-----------------------------------------------------------------------------
(* The connection. *)

Deliver(n) ==
    /\ n <= Len(wire)
    /\ ~closed
    /\ buf' = buf \o SubSeq(wire, 1, n)
    /\ wire' = Drop(wire, n)
    /\ UNCHANGED <<msg, closed, pc, reader>>

Close ==
    /\ ~closed
    /\ closed' = TRUE
    /\ UNCHANGED <<msg, wire, buf, pc, reader>>

\* readbytes(): all that has arrived, at least one byte; readbytes(n): n bytes.
Can(n) == IF n = Nil THEN buf # <<>> ELSE Len(buf) >= n
Bytes(n) == IF n = Nil THEN buf ELSE SubSeq(buf, 1, n)
Take(n) == buf' = (IF n = Nil THEN <<>> ELSE Drop(buf, n))

-----------------------------------------------------------------------------
(* The reader. *)

\* nil from recvheader or recvchunkedbody: 413 to the client, an error in M.request.
Fail == IF msg.to = "server" THEN "413" ELSE "error"

\* recvheader has the bytes h and searches them from a position; w says what follows.
Headed(h, from, w) ==
    LET e == Find(h, CRLF \o CRLF, from)
    IN  CASE e > 0 -> /\ acc' = Drop(h, e + 3)
                      /\ lines' = Lines(h)
                      /\ pc' = w
          [] e = 0 /\ Starts(h, CRLF) -> acc' = Drop(h, 2) /\ lines' = <<>> /\ pc' = w
          [] OTHER -> /\ acc' = h
                      /\ pc' = (IF Len(h) > LIMIT THEN Fail ELSE pc)
                      /\ UNCHANGED lines

\* An iteration of the loop of recvheader.
RecvHeader ==
    /\ pc \in {"header", "trailer"} /\ Can(Nil)
    /\ Headed(acc \o buf, From(acc \o buf, buf), IF pc = "header" THEN "parse" ELSE "done")
    /\ Take(Nil)
    /\ UNCHANGED <<msg, wire, closed, size, total, result>>

\* bodylimit and length > bodylimit; M.request has no limit.
TooLong(n) == msg.to = "server" /\ n > BodyLimit

\* The header read, as far as the body: the code for the client, an error, or the way
\* the body is read.  The case of a websocket's 101 in M.request is never reached, as
\* a code below 200 has no body.
Checked ==
    LET start == lines[1][1]
        fields == Tail(lines)
        encoding == ValueOf(fields, "transfer-encoding")
        known == Count(fields, Len(fields), "transfer-encoding") = 0 \/ encoding \in {0, 1}
        length == ValueOf(fields, "content-length")
        server == msg.to = "server"
    IN  IF lines = <<>> THEN "error"
        ELSE CASE start[1] # (IF server THEN "request" ELSE "status") -> "error"
               [] server /\ start = <<"request", 2>> -> "505"
               [] parseheader(fields) = "error" -> "error"
               [] parseheader(fields) = "no" -> IF server THEN "400" ELSE "error"
               [] ~known -> IF server THEN "501" ELSE "error"
               [] encoding = 1 -> "chunksize"
               [] length # Nil /\ TooLong(length) -> "413"
               [] length # Nil -> "body"
               [] server -> "rest"
               [] start[2] \in {204, 304} \/ start[2] < 200 -> "none"
               [] OTHER -> "all"

\* read_all and the second half of M.request up to the first read of the body.
ParseHeader ==
    LET length == ValueOf(Tail(lines), "content-length")
        here == Checked = "body" /\ Len(acc) >= length
    IN  /\ pc = "parse"
        /\ pc' = (IF here \/ Checked \in {"rest", "none"} THEN "done" ELSE Checked)
        /\ size' = (IF Checked = "body" THEN length ELSE size)
        /\ result' = (CASE here -> SubSeq(acc, 1, length)
                        [] Checked = "rest" -> acc
                        [] OTHER -> result)
        /\ UNCHANGED <<msg, wire, buf, closed, acc, lines, total>>

\* read(length - #body)
ReadBody ==
    /\ pc = "body" /\ Can(size - Len(acc))
    /\ result' = acc \o Bytes(size - Len(acc))
    /\ Take(size - Len(acc))
    /\ pc' = "done"
    /\ UNCHANGED <<msg, wire, closed, acc, lines, size, total>>

\* interface.read_all() ends when the connection does.
ReadAll ==
    /\ pc = "all" /\ closed
    /\ result' = acc \o buf
    /\ Take(Nil)
    /\ pc' = "done"
    /\ UNCHANGED <<msg, wire, closed, acc, lines, size, total>>

SizeSeen == Find(acc, CRLF, 1) > 0

\* chunksize has no line yet.
ChunkSizeRead ==
    /\ pc = "chunksize" /\ ~SizeSeen
    /\ IF Len(acc) > ChunkLimit
       THEN pc' = Fail /\ UNCHANGED <<buf, acc>>
       ELSE Can(Nil) /\ acc' = acc \o buf /\ Take(Nil) /\ UNCHANGED pc
    /\ UNCHANGED <<msg, wire, closed, lines, size, total, result>>

\* chunksize has its line: the chunk is taken from what was read, or read.
ChunkSized ==
    LET f == Find(acc, CRLF, 1)
        rest == Drop(acc, f + 1)
        sz == acc[1][2]
        over == TooLong(total + sz)
    IN  /\ pc = "chunksize" /\ SizeSeen
        /\ IF f # 2 \/ acc[1][1] # "hex"
           THEN pc' = Fail /\ UNCHANGED reader
           ELSE IF sz = 0
           THEN pc' = "trailing" /\ acc' = rest /\ UNCHANGED <<lines, size, total, result>>
           ELSE /\ pc' = (IF over THEN Fail ELSE IF Len(rest) >= sz THEN "crln" ELSE "data")
                /\ size' = sz /\ total' = total + sz
                /\ IF ~over /\ Len(rest) >= sz
                   THEN result' = result \o SubSeq(rest, 1, sz) /\ acc' = Drop(rest, sz)
                   ELSE acc' = rest /\ UNCHANGED result
                /\ UNCHANGED lines
        /\ UNCHANGED <<msg, wire, buf, closed>>

ChunkData ==
    /\ pc = "data" /\ Can(size - Len(acc))
    /\ result' = result \o acc \o Bytes(size - Len(acc))
    /\ Take(size - Len(acc))
    /\ acc' = <<>>
    /\ pc' = "crln"
    /\ UNCHANGED <<msg, wire, closed, lines, size, total>>

\* What readcrln reads when it has less than a line end.
Missing(s) == IF Len(s) >= 2 THEN 0 ELSE 2 - Len(s)

readcrln ==
    LET s == acc \o Bytes(Missing(acc))
    IN  /\ pc = "crln" /\ Can(Missing(acc))
        /\ Take(Missing(acc))
        /\ IF Starts(s, CRLF)
           THEN acc' = Drop(s, 2) /\ pc' = "chunksize"
           ELSE pc' = Fail /\ UNCHANGED acc
        /\ UNCHANGED <<msg, wire, closed, lines, size, total, result>>

\* recvheader after the last chunk looks at what it was given before it reads.
RecvTrailer ==
    /\ pc = "trailing"
    /\ IF Starts(acc, CRLF) \/ Find(acc, CRLF \o CRLF, 1) > 0
       THEN pc' = "done" ELSE pc' = "trailer"
    /\ UNCHANGED <<msg, wire, buf, closed, reader>>

\* What the pending read asks for.
Asked ==
    CASE pc \in {"header", "trailer", "chunksize"} -> Nil
      [] pc \in {"data", "body"} -> size - Len(acc)
      [] pc = "crln" -> Missing(acc)

Waits ==
    /\ \/ pc \in {"header", "trailer", "data", "crln", "body"}
       \/ pc = "chunksize" /\ ~SizeSeen /\ Len(acc) <= ChunkLimit
    /\ ~Can(Asked)

\* The read gives false and the reader raises socket_error.
SocketError ==
    /\ closed /\ Waits
    /\ pc' = "error"
    /\ UNCHANGED <<msg, wire, buf, closed, reader>>

-----------------------------------------------------------------------------
Init ==
    /\ msg \in Messages
    /\ wire = OnWire(msg)
    /\ buf = <<>> /\ closed = FALSE
    /\ pc = "header" /\ acc = <<>> /\ lines = <<>>
    /\ size = 0 /\ total = 0 /\ result = <<>>

Next ==
    \/ \E n \in 1 .. Len(wire) : Deliver(n)
    \/ Close
    \/ RecvHeader
    \/ ParseHeader
    \/ ReadBody
    \/ ReadAll
    \/ ChunkSizeRead
    \/ ChunkSized
    \/ ChunkData
    \/ readcrln
    \/ RecvTrailer
    \/ SocketError

Spec == Init /\ [][Next]_vars

-----------------------------------------------------------------------------
Ended == {"done", "error", "413", "400", "501", "505"}

\* Every variable keeps its type.
TypeOK ==
    /\ msg \in Messages
    /\ IsSuffix(wire, OnWire(msg))
    /\ closed \in BOOLEAN
    /\ pc \in Ended \cup {"header", "parse", "body", "all", "chunksize", "data", "crln", "trailing", "trailer"}
    /\ size \in Nat /\ total \in Nat

\* However its bytes are cut into pieces, a message read to its end gives the body its
\* writer was given, or the code its defect calls for (a header over the limit that
\* arrives in one piece is accepted); a reader fails in another way,
\* or gives less of a body that the end of the connection ends, only when the
\* connection was closed before all of the message arrived.
ReadsMessage ==
    pc \in Ended =>
        \/ pc \in msg.ends /\ (pc = "done" => result = Body(msg))
        \/ /\ closed /\ wire # <<>>
           /\ \/ pc = "error"
              \/ pc = "done" /\ msg.toclose /\ IsPrefix(result, Body(msg))

\* Once all of a message has arrived its reader does not wait for more, but for the end
\* of the connection when that ends the body.
NotStuck == wire = <<>> => ~Waits /\ (pc = "all" => msg.toclose)
=============================================================================
