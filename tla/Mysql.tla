-------------------------------- MODULE Mysql -------------------------------
(***************************************************************************)
(* The mysql driver, lualib/skynet/db/mysql.lua, against a server that     *)
(* keeps to the protocol.  The login with its scrambled password, then     *)
(* requests written one after the other to a channel that hands the        *)
(* answers out in order: packets are byte sequences, read packet by        *)
(* packet.  A byte has four bits (Base 16) and the widest integer five     *)
(* bytes, so the codes of the length coded integers are scaled: 11 for a   *)
(* NULL, 12, 13 and 14 for two, three and "eight" bytes; the first byte of *)
(* a packet is 15 for an error and 14 for the end of a list.               *)
(***************************************************************************)
EXTENDS Integers, Sequences, SequencesExt, FiniteSetsExt, Bitwise

CONSTANTS
    Logins,         \* user, password, database; the password the server knows, its scramble
    Jobs,           \* sequences of commands
    compact         \* opts.compact_arrays

VARIABLES
    phase,          \* greet, login, auth, result; then up or refused; closed
    login,          \* the login at hand
    server_login,   \* what the server has read of it: user and database
    job,            \* the commands the client has still to send
    sent,           \* those it has sent
    served,         \* commands the server has read
    up, wire,       \* bytes to the server and to the client
    packet_no,
    queue,          \* commands whose answer the channel waits for
    r,              \* the locals of the response function at work
    answers         \* what the callers got

vars == <<phase, login, server_login, job, sent, served, up, wire, packet_no, queue, r, answers>>

Base == 16
Wide == 5
MORE == 8
COM == [query |-> 3, ping |-> 14, prepare |-> 6, execute |-> 7, close |-> 9, reset |-> 10]

-----------------------------------------------------------------------------
(* Integers and strings. *)

Le(n, w) == [i \in 1 .. w |-> (n \div Base ^ (i - 1)) % Base]
Get(d, p, w) == FoldLeft(LAMBDA a, i : a + d[p + i] * Base ^ i, 0, [i \in 1 .. w |-> i - 1])
GetSigned(d, p, w) ==
    LET n == Get(d, p, w) IN IF 2 * n >= Base ^ w THEN n - Base ^ w ELSE n
From(d, p) == SubSeq(d, p, Len(d))

_set_length_coded_bin(n) ==
    CASE n < 11 -> <<n>>
      [] n >= 11 /\ n < Base ^ 2 -> <<12>> \o Le(n, 2)
      [] n >= Base ^ 2 /\ n < Base ^ 3 -> <<13>> \o Le(n, 3)
      [] n >= Base ^ 3 -> <<14>> \o Le(n, Wide)

_from_length_coded_bin(d, p) ==
    IF p > Len(d) THEN [null |-> TRUE, n |-> 0, pos |-> p]
    ELSE CASE d[p] < 11 -> [null |-> FALSE, n |-> d[p], pos |-> p + 1]
           [] d[p] = 11 -> [null |-> TRUE, n |-> 0, pos |-> p + 1]
           [] d[p] = 12 -> [null |-> FALSE, n |-> Get(d, p + 1, 2), pos |-> p + 3]
           [] d[p] = 13 -> [null |-> FALSE, n |-> Get(d, p + 1, 3), pos |-> p + 4]
           [] d[p] = 14 -> [null |-> FALSE, n |-> Get(d, p + 1, Wide), pos |-> p + 1 + Wide]
           [] d[p] = 15 -> [null |-> FALSE, n |-> -1, pos |-> p + 1]

\* The string whose length l was read.
StrOf(d, l) ==
    IF l.null THEN [null |-> TRUE, s |-> <<>>, pos |-> l.pos]
    ELSE [null |-> FALSE, s |-> SubSeq(d, l.pos, l.pos + l.n - 1), pos |-> l.pos + l.n]

_from_length_coded_str(d, p) == StrOf(d, _from_length_coded_bin(d, p))

Str(s) == _set_length_coded_bin(Len(s)) \o s

\* A string up to its zero.
CString(d, p) == SubSeq(d, p, Min({i \in p .. Len(d) : d[i] = 0}) - 1)

Packet(no, body) == Le(Len(body), 3) \o <<no>> \o body

\* The packet a stream starts with, if it is there.
Arrived(s) == Len(s) >= 4 /\ Len(s) >= 4 + Get(s, 1, 3)
BodyOf(s) == SubSeq(s, 5, 4 + Get(s, 1, 3))
Rest(s) == From(s, 5 + Get(s, 1, 3))

Typ(d) == CASE d[1] = 0 -> "OK" [] d[1] = 15 -> "ERR" [] d[1] = 14 -> "EOF" [] OTHER -> "DATA"

-----------------------------------------------------------------------------
(* Values: NULL, an integer, a string, a date of 7 or fewer bytes. *)

Val(k, n, s) == [k |-> k, n |-> n, s |-> s]
Null == Val("null", 0, <<>>)
Size == [t \in {1, 2, 3, 8, 9} |-> CASE t = 1 -> 1 [] t = 2 -> 2 [] t = 9 -> 3 [] t = 3 -> 4 [] t = 8 -> Wide]
Minus == 13

\* tonumber of decimal digits with an optional sign.
tonumber(s) ==
    LET digits == IF s[1] = Minus THEN Tail(s) ELSE s
        n == FoldLeft(LAMBDA a, d : 10 * a + d, 0, digits)
    IN  IF s[1] = Minus THEN -n ELSE n

\* _binary_parser: the value of a column at a position, and the position after it.
Parsed(d, p, col) ==
    CASE col.type \in DOMAIN Size ->
            [v |-> Val("num", IF col.signed THEN GetSigned(d, p, Size[col.type]) ELSE Get(d, p, Size[col.type]), <<>>),
             pos |-> p + Size[col.type]]
      [] col.type \in {7, 12} ->
            LET l == _from_length_coded_bin(d, p)
            IN  [v |-> Val("date", 0, IF l.n = 7 THEN SubSeq(d, l.pos, l.pos + 6) ELSE <<>>), pos |-> l.pos + l.n]
      [] col.type = 15 ->
            LET s == _from_length_coded_str(d, p) IN [v |-> Val("str", 0, s.s), pos |-> s.pos]

Key(cols, i) == IF compact THEN <<i>> ELSE cols[i].name
Row(cols, values) == [k \in {Key(cols, i) : i \in DOMAIN cols} |->
                          values[Max({i \in DOMAIN cols : Key(cols, i) = k})]]

\* The value of a column that came as the string s.
TextValue(col, s) ==
    CASE s.null -> Null
      [] ~s.null /\ col.type \in DOMAIN Size -> Val("num", tonumber(s.s), <<>>)
      [] ~s.null /\ col.type \notin DOMAIN Size -> Val("str", 0, s.s)

TextAdded(a, col, s) == [pos |-> s.pos, values |-> Append(a.values, TextValue(col, s))]

_parse_row_data_packet(d, cols) ==
    Row(cols, FoldLeft(LAMBDA a, col : TextAdded(a, col, _from_length_coded_str(d, a.pos)),
                       [pos |-> 1, values |-> <<>>], cols).values)

\* The bit of column i; the first two bits are reserved.
NullAt(d, i) == (d[2 + ((i + 1) \div 4)] \div 2 ^ ((i + 1) % 4)) % 2 = 1

_parse_row_data_binary(d, cols) ==
    LET Column(a, i) ==
            LET x == Parsed(d, a.pos, cols[i])
            IN  IF NullAt(d, i) THEN [a EXCEPT !.values = Append(@, Null)]
                ELSE [pos |-> x.pos, values |-> Append(a.values, x.v)]
        start == [pos |-> 2 + (Len(cols) + 5) \div 4, values |-> <<>>]
    IN  Row(cols, FoldLeft(Column, start, [i \in DOMAIN cols |-> i]).values)

is_signed(flags) == (flags \div 32) % 2 = 0

\* The type and the flags of a field, at p.
FieldAt(d, name, p) == [name |-> name, type |-> d[p], signed |-> is_signed(Get(d, p + 1, 2))]

\* Behind the name are the original name, a filler, the charset and the length.
FieldNamed(d, name) == FieldAt(d, name.s, _from_length_coded_str(d, name.pos).pos + 1 + 2 + 4)

\* Four strings are before the name.
_parse_field_packet(d) ==
    FieldNamed(d, _from_length_coded_str(d, FoldLeft(LAMBDA p, n : _from_length_coded_str(d, p).pos, 1, <<1, 2, 3, 4>>)))

-----------------------------------------------------------------------------
(* What the server writes. *)

OkPacket(x, more) == <<0>> \o _set_length_coded_bin(x.n) \o _set_length_coded_bin(x.id) \o Le(IF more THEN MORE ELSE 0, 2) \o Le(0, 2)
ErrPacket(code) == <<15>> \o Le(code, 2) \o <<3, 0, 0, 0, 0, 0>>
EofPacket(more) == <<14>> \o Le(0, 2) \o Le(IF more THEN MORE ELSE 0, 2)
FieldPacket(c) ==
    Str(<<1, 2, 3>>) \o Str(<<>>) \o Str(<<1>>) \o Str(<<1>>) \o Str(c.name) \o Str(c.name)
    \o <<12>> \o Le(0, 2) \o Le(0, 4) \o <<c.type>> \o Le(IF c.signed THEN 0 ELSE 32, 2) \o <<0, 0, 0>>

Digits(n) == IF n < 10 THEN <<n>> ELSE <<n \div 10, n % 10>>
TextOf(v) ==
    CASE v.k = "null" -> <<11>>
      [] v.k = "num" -> Str(IF v.n < 0 THEN <<Minus>> \o Digits(-v.n) ELSE Digits(v.n))
      [] OTHER -> Str(v.s)

\* A map of n bits, four to a byte, of which those in bits are set.
Bitmap(n, bits) ==
    [b \in 1 .. (n + 3) \div 4 |-> SumSet({2 ^ j : j \in {j \in 0 .. 3 : 4 * (b - 1) + j + 1 \in bits}})]

BinaryOf(v, col) ==
    CASE v.k = "null" -> <<>>
      [] v.k = "num" -> Le(v.n, Size[col.type])
      [] OTHER -> Str(v.s)

RowPacket(row, cols, binary) ==
    IF binary
    THEN LET nulls == {i + 2 : i \in {j \in DOMAIN row : row[j].k = "null"}}
         IN  <<0>> \o Bitmap(Len(cols) + 2, nulls) \o FlattenSeq([i \in DOMAIN row |-> BinaryOf(row[i], cols[i])])
    ELSE FlattenSeq([i \in DOMAIN row |-> TextOf(row[i])])

\* The packets of one result, more says that another follows.  A result is cut when the
\* statement fails among the rows: an error comes in the place of the next row.
ResultPackets(x, more, binary) ==
    CASE x.t = "ok" -> <<OkPacket(x, more)>>
      [] x.t = "err" -> <<ErrPacket(x.n)>>
      [] x.t \in {"set", "cut"} ->
            <<<<Len(x.cols)>>>> \o [i \in DOMAIN x.cols |-> FieldPacket(x.cols[i])] \o <<EofPacket(FALSE)>>
            \o [i \in DOMAIN x.rows |-> RowPacket(x.rows[i], x.cols, binary)]
            \o <<IF x.t = "cut" THEN ErrPacket(x.n) ELSE EofPacket(more)>>

Fields(cols) == IF cols = <<>> THEN <<>> ELSE [i \in DOMAIN cols |-> FieldPacket(cols[i])] \o <<EofPacket(FALSE)>>

PrepareOk(c) == <<0>> \o Le(c.id, 4) \o Le(Len(c.fields), 2) \o Le(Len(c.params), 2) \o <<0>> \o Le(0, 2)

Response(c) ==
    LET packets ==
            CASE c.cmd = "close" -> <<>>
              [] c.cmd = "prepare" /\ c.err # 0 -> <<ErrPacket(c.err)>>
              [] c.cmd = "prepare" /\ c.err = 0 -> <<PrepareOk(c)>> \o Fields(c.params) \o Fields(c.fields)
              [] OTHER -> FlattenSeq([i \in DOMAIN c.results |->
                                          ResultPackets(c.results[i], i < Len(c.results), c.cmd = "execute")])
    IN  FlattenSeq([i \in DOMAIN packets |-> Packet(i % Base, packets[i])])

-----------------------------------------------------------------------------
(* What the client writes. *)

\* store_types: two bytes of type, and the value.
StoreType(v) == CASE v.k = "null" -> 6 [] v.k = "num" -> 8 [] v.k = "bool" -> 1 [] v.k = "str" -> 15
Stored(v) ==
    CASE v.k = "null" -> <<>>
      [] v.k = "num" -> Le(v.n, Wide)
      [] v.k = "bool" -> <<v.n>>
      [] v.k = "str" -> Str(v.s)

TypesOf(args) == <<1>> \o FlattenSeq([i \in DOMAIN args |-> Le(StoreType(args[i]), 2)])

\* The operator # on args: with a NULL at the end it is a border, a place before a NULL.
ArgNums(args) ==
    IF args = <<>> \/ Last(args).k # "null" THEN {Len(args)}
    ELSE {n \in 0 .. Len(args) - 1 : args[n + 1].k = "null" /\ (n > 0 => args[n].k # "null")}

\* The bit of the last parameter is never set; it is never NULL.
NullMap(args) == Bitmap(Len(args), {i \in DOMAIN args : i < Len(args) /\ args[i].k = "null"})

_compose_stmt_execute(c) ==
    <<COM.execute>> \o Le(c.id, 4) \o <<0>> \o Le(1, 4)
    \o (IF c.args = <<>> THEN <<>>
        ELSE NullMap(c.args) \o TypesOf(c.args) \o FlattenSeq([i \in DOMAIN c.args |-> Stored(c.args[i])]))

Compose(c) ==
    CASE c.cmd = "ping" -> <<COM.ping>>
      [] c.cmd \in {"query", "prepare"} -> <<COM[c.cmd]>> \o c.text
      [] c.cmd = "execute" -> _compose_stmt_execute(c)
      [] c.cmd \in {"reset", "close"} -> <<COM[c.cmd]>> \o Le(c.id, 4)

\* The parameters of an execute packet as the protocol has them; n is their number.
ArgsRead(d, n) ==
    LET map == (n + 3) \div 4
        types == 11 + map
        Null_(i) == (d[11 + (i - 1) \div 4] \div 2 ^ ((i - 1) % 4)) % 2 = 1
        Arg(a, i) ==
            LET t == Get(d, types + 1 + 2 * (i - 1), 2)
                s == _from_length_coded_str(d, a.pos)
                At(v, p) == [pos |-> p, values |-> Append(a.values, v)]
            IN  IF Null_(i) \/ t = 6 THEN At(Null, a.pos)
                ELSE CASE t = 8 -> At(Val("num", GetSigned(d, a.pos, Wide), <<>>), a.pos + Wide)
                       [] t = 1 -> At(Val("bool", d[a.pos], <<>>), a.pos + 1)
                       [] t = 15 -> At(Val("str", 0, s.s), s.pos)
                       [] OTHER -> At(Null, a.pos)
    IN  IF n = 0 THEN <<>>
        ELSE FoldLeft(Arg, [pos |-> types + 1 + 2 * n, values |-> <<>>], [i \in 1 .. n |-> i]).values

-----------------------------------------------------------------------------
(* Login. *)

\* Any function does for the hash.
sha1(s) == <<FoldLeft(LAMBDA a, b : (3 * a + b + 1) % Base, Len(s) % Base, s), FoldLeft(LAMBDA a, b : (a + 5 * b) % Base, 1, s)>>
XorSeq(s, t) == [i \in DOMAIN s |-> s[i] ^^ t[i]]

_compute_token(password, scramble) ==
    LET stage1 == sha1(password)
    IN  IF password = <<>> THEN <<>> ELSE XorSeq(sha1(scramble \o sha1(stage1)), stage1)

Zeros(n) == [i \in 1 .. n |-> 0]

Greeting(l) ==
    <<10>> \o <<8, 1, 0>> \o Le(7, 4) \o SubSeq(l.scramble, 1, 8) \o <<0>> \o Le(255, 2) \o <<8>> \o Le(2, 2)
    \o Le(255, 2) \o <<5>> \o Zeros(10) \o SubSeq(l.scramble, 9, 20) \o <<0>>

\* The scramble of a greeting, in two parts with fillers between them.
Scramble(d) ==
    LET p == 2 + Len(CString(d, 2)) + 1 + 4
        q == p + 9 + 2 + 1 + 2 + 2 + 11
    IN  SubSeq(d, p, p + 7) \o SubSeq(d, q, q + 11)

AuthPacket(l, scramble) ==
    Le(1, 4) \o Le(1, 4) \o <<8>> \o Zeros(23) \o l.user \o <<0>>
    \o (LET t == _compute_token(l.password, scramble) IN <<Len(t)>> \o t) \o l.database \o <<0>>

\* The server's check knows only the hash of the hash of the password.
TokenRight(l, token) ==
    LET stage2 == sha1(sha1(l.known))
    IN  IF token = <<>> \/ l.known = <<>> THEN token = <<>> /\ l.known = <<>>
        ELSE sha1(XorSeq(token, sha1(l.scramble \o stage2))) = stage2

Others == <<login, job, sent, served, queue, r, answers>>

Greet ==
    /\ phase = "greet"
    /\ phase' = "login"
    /\ wire' = wire \o Packet(0, Greeting(login))
    /\ UNCHANGED <<server_login, up, packet_no, Others>>

\* _mysql_login has the greeting.
SendAuth ==
    /\ phase = "login" /\ Arrived(wire)
    /\ phase' = "auth"
    /\ packet_no' = wire[4] + 1
    /\ up' = up \o Packet(wire[4] + 1, AuthPacket(login, Scramble(BodyOf(wire))))
    /\ wire' = Rest(wire)
    /\ UNCHANGED <<server_login, Others>>

Authenticate ==
    LET d == BodyOf(up)
        user == CString(d, 33)
        p == 33 + Len(user) + 1
        token == SubSeq(d, p + 1, p + d[p])
    IN  /\ phase = "auth" /\ Arrived(up)
        /\ phase' = "result"
        /\ server_login' = [user |-> user, database |-> CString(d, p + 1 + d[p]), no |-> up[4]]
        /\ up' = Rest(up)
        /\ wire' = wire \o Packet(2, IF TokenRight(login, token) THEN OkPacket([n |-> 0, id |-> 0], FALSE) ELSE ErrPacket(9))
        /\ UNCHANGED <<packet_no, Others>>

\* _recv_decode_packet_resp on the result of the login.
LoggedIn ==
    /\ phase = "result" /\ Arrived(wire)
    /\ phase' = (IF Typ(BodyOf(wire)) \in {"ERR", "EOF"} THEN "refused" ELSE "up")
    /\ packet_no' = wire[4]
    /\ wire' = Rest(wire)
    /\ UNCHANGED <<server_login, up, Others>>

-----------------------------------------------------------------------------
(* Requests. *)

NoAnswer == [results |-> <<>>, errno |-> 0, params |-> <<>>, fields |-> <<>>, id |-> 0]
Fresh == [pc |-> "first", left |-> 0, cols |-> <<>>, rows |-> <<>>, ans |-> NoAnswer]

\* query, prepare, execute, stmt_reset, stmt_close and ping; a close has no answer.
Request(c) ==
    /\ phase = "up"
    /\ job' = Tail(job) /\ sent' = Append(sent, c)
    /\ packet_no' = 0
    /\ up' = up \o Packet(0, Compose(c))
    /\ queue' = (IF c.cmd = "close" THEN queue ELSE Append(queue, c))
    /\ UNCHANGED <<phase, login, server_login, served, wire, r, answers>>

\* execute raises an error in its caller when the number of parameters is not right.
WrongNumber ==
    /\ phase = "up"
    /\ job' = Tail(job)
    /\ UNCHANGED <<phase, login, server_login, sent, served, up, wire, packet_no, queue, r, answers>>

Ask ==
    /\ job # <<>>
    /\ LET c == Head(job)
       IN  IF c.cmd # "execute" THEN Request(c)
           ELSE \E n \in ArgNums(c.args) :
                    IF n = c.param_count THEN Request([c EXCEPT !.args = SubSeq(@, 1, n)]) ELSE WrongNumber

Serve ==
    LET d == BodyOf(up)
        c == sent[Len(served) + 1]
        prepared == d[1] \in {COM.execute, COM.reset, COM.close}
    IN  /\ phase = "up" /\ Arrived(up)
        /\ served' = Append(served, [code |-> d[1], no |-> up[4],
                                     text |-> IF prepared THEN <<>> ELSE Tail(d),
                                     id |-> IF prepared THEN Get(d, 2, 4) ELSE 0,
                                     args |-> IF d[1] = COM.execute THEN ArgsRead(d, Len(c.args)) ELSE <<>>])
        /\ up' = Rest(up)
        /\ wire' = wire \o Response(c)
        /\ UNCHANGED <<phase, login, server_login, job, sent, packet_no, queue, r, answers>>

\* The response function ends with an answer, or goes on with other locals.
Done(ans) == answers' = Append(answers, ans) /\ queue' = Tail(queue) /\ r' = Fresh /\ UNCHANGED phase
GoOn(x) == r' = x /\ UNCHANGED <<answers, queue, phase>>

\* It raises an error: dispatch_by_order closes the socket and fails every request that waits.
SocketError == [NoAnswer EXCEPT !.errno = -2]
Raise ==
    /\ phase' = "closed"
    /\ answers' = answers \o [i \in DOMAIN queue |-> SocketError]
    /\ queue' = <<>> /\ r' = Fresh

Result(t, n, id, rows) == [t |-> t, n |-> n, id |-> id, rows |-> rows]

\* A result of the answer is complete; "again" reads another.
EndResult(x, more) ==
    LET ans == [r.ans EXCEPT !.results = Append(@, x)]
    IN  IF more THEN GoOn([Fresh EXCEPT !.ans = ans]) ELSE Done(ans)

Bad(errno) == Done([r.ans EXCEPT !.errno = errno])

More(status) == (status \div MORE) % 2 = 1

\* The first packet of read_result and read_execute_result.
FirstOfResult(d) ==
    CASE Typ(d) = "ERR" -> Bad(Get(d, 2, 2))
      [] Typ(d) = "OK" ->
            LET n == _from_length_coded_bin(d, 2)
                id == _from_length_coded_bin(d, n.pos)
            IN  EndResult(Result("ok", n.n, id.n, <<>>), More(Get(d, id.pos, 2)))
      [] Typ(d) = "EOF" -> Bad(-1)
      [] Typ(d) = "DATA" -> GoOn([r EXCEPT !.pc = "cols", !.left = _from_length_coded_bin(d, 1).n])

\* The fields of a result: read_result counts them and then wants the end of the list,
\* read_execute_result goes by the end of the list.
Cols(d) ==
    LET with == [r EXCEPT !.cols = Append(@, _parse_field_packet(d)), !.left = @ - 1]
    IN  IF Head(queue).cmd = "execute"
        THEN GoOn(IF Typ(d) = "EOF" THEN [r EXCEPT !.pc = "rows"] ELSE with)
        ELSE CASE r.left = 0 -> IF Typ(d) = "EOF" THEN GoOn([r EXCEPT !.pc = "rows"]) ELSE Bad(-1)
               [] r.left > 0 /\ Typ(d) = "DATA" -> GoOn(with)
               [] r.left > 0 /\ Typ(d) # "DATA" -> Bad(IF Typ(d) = "ERR" THEN Get(d, 2, 2) ELSE -1)

Rows(d) ==
    LET row == IF Head(queue).cmd = "execute" THEN _parse_row_data_binary(d, r.cols) ELSE _parse_row_data_packet(d, r.cols)
    IN  IF Typ(d) = "EOF" THEN EndResult(Result("set", 0, 0, r.rows), More(Get(d, 4, 2)))
        ELSE GoOn([r EXCEPT !.rows = Append(@, row)])

\* An error among the rows is read as a row.  In text the length of its first value is false
\* and computing with it raises; the bytes of a binary row may or may not do for the columns.
RowOfError ==
    \/ Raise
    \/ Head(queue).cmd = "execute" /\ GoOn([r EXCEPT !.pc = "astray"])

\* From there on what belongs to later commands is read as rows: another row, a packet that
\* does not do, or one that ends the answer, and the next answer begins anywhere.
Garbled == [NoAnswer EXCEPT !.errno = -3]
Astray ==
    \/ GoOn(r)
    \/ Raise
    \/ answers' = Append(answers, Garbled) /\ queue' = Tail(queue) /\ UNCHANGED <<r, phase>>

\* read_prepare_result: fields are read up to a packet that is none.
AfterParams(x) == IF x.left > 0 THEN GoOn([x EXCEPT !.pc = "fields"]) ELSE Done(x.ans)

FirstOfPrepare(d) ==
    LET x == [r EXCEPT !.ans.id = Get(d, 2, 4), !.left = Get(d, 6, 2)]
    IN  CASE Typ(d) = "ERR" -> Bad(Get(d, 2, 2))
          [] Typ(d) = "OK" -> IF Get(d, 8, 2) > 0 THEN GoOn([x EXCEPT !.pc = "params"]) ELSE AfterParams(x)
          [] Typ(d) \in {"EOF", "DATA"} -> Bad(-1)

Params(d) ==
    IF Typ(d) = "DATA" THEN GoOn([r EXCEPT !.ans.params = Append(@, _parse_field_packet(d))]) ELSE AfterParams(r)

PrepareFields(d) ==
    IF Typ(d) = "DATA" THEN GoOn([r EXCEPT !.ans.fields = Append(@, _parse_field_packet(d))]) ELSE Done(r.ans)

\* _recv_packet for the response function at work.
Recv ==
    LET d == BodyOf(wire)
    IN  /\ phase = "up" /\ queue # <<>> /\ Arrived(wire)
        /\ packet_no' = wire[4]
        /\ wire' = Rest(wire)
        /\ CASE r.pc = "first" /\ Head(queue).cmd = "prepare" -> FirstOfPrepare(d)
             [] r.pc = "first" /\ Head(queue).cmd # "prepare" -> FirstOfResult(d)
             [] r.pc = "cols" -> Cols(d)
             [] r.pc = "rows" /\ Typ(d) # "ERR" -> Rows(d)
             [] r.pc = "rows" /\ Typ(d) = "ERR" -> RowOfError
             [] r.pc = "astray" -> Astray
             [] r.pc = "params" -> Params(d)
             [] r.pc = "fields" -> PrepareFields(d)
        /\ UNCHANGED <<login, server_login, job, sent, served, up>>

Init ==
    /\ phase = "greet"
    /\ login \in Logins /\ job \in Jobs
    /\ server_login = [user |-> <<>>, database |-> <<>>, no |-> 0]
    /\ sent = <<>> /\ served = <<>>
    /\ up = <<>> /\ wire = <<>> /\ packet_no = 0
    /\ queue = <<>> /\ r = Fresh /\ answers = <<>>

Next ==
    \/ Greet
    \/ SendAuth
    \/ Authenticate
    \/ LoggedIn
    \/ Ask
    \/ Serve
    \/ Recv

Spec == Init /\ [][Next]_vars

-----------------------------------------------------------------------------
\* Every variable keeps its type.
TypeOK ==
    /\ phase \in {"greet", "login", "auth", "result", "up", "refused", "closed"}
    /\ packet_no \in 0 .. Base - 1
    /\ \A i \in DOMAIN wire : wire[i] \in 0 .. Base - 1
    /\ \A i \in DOMAIN up : up[i] \in 0 .. Base - 1
    /\ r.pc \in {"first", "cols", "rows", "params", "fields", "astray"} /\ r.left >= 0

\* A value as the driver shows it: a short date is not read.
Shown(v) == IF v.k = "date" /\ Len(v.s) # 7 THEN Val("date", 0, <<>>) ELSE v

Expected(c) ==
    LET good == SelectSeq(c.results, LAMBDA x : x.t # "err")
        Rows_(x) == [i \in DOMAIN x.rows |-> Row(x.cols, [j \in DOMAIN x.cols |-> Shown(x.rows[i][j])])]
    IN  IF c.cmd = "prepare"
        THEN IF c.err # 0 THEN [NoAnswer EXCEPT !.errno = c.err]
             ELSE [NoAnswer EXCEPT !.id = c.id, !.params = c.params, !.fields = c.fields]
        ELSE [NoAnswer EXCEPT
                !.results = [i \in DOMAIN good |-> Result(good[i].t, good[i].n, good[i].id, Rows_(good[i]))],
                !.errno = SumSet({c.results[i].n : i \in {i \in DOMAIN c.results : c.results[i].t = "err"}})]

\* The first of the requests that want an answer whose rows an error has cut off, or one
\* past the last.
asked == SelectSeq(sent, LAMBDA c : c.cmd # "close")
Cut(c) == \E i \in DOMAIN c.results : c.results[i].t = "cut"
FirstCut == Min({i \in DOMAIN asked : Cut(asked[i])} \cup {Len(asked) + 1})

\* Every caller gets the answer to its own request, whole and as the server meant it:
\* results of several statements, rows as text or binary with their NULLs and signs,
\* errors, and the fields of prepared statements, with requests sent before the answers
\* to earlier ones are read.  The exception is an error among the rows, which read_result
\* and read_execute_result do not look for: a query and all who wait behind it are told
\* that the socket failed, and from an execute on nothing is promised.
OwnAnswer ==
    \A i \in DOMAIN answers :
        /\ i < FirstCut => answers[i] = Expected(asked[i])
        /\ i >= FirstCut /\ asked[FirstCut].cmd # "execute" => answers[i] = SocketError

\* Nobody waits for an answer that has been read, and no byte of an answer is left to be
\* read as the answer to a later request, unless an execute has read an error as a row.
NothingLeft ==
    phase = "up" /\ r.pc # "astray" => /\ queue = <<>> => wire = <<>>
                                       /\ up = <<>> /\ wire = <<>> => queue = <<>>

\* The server reads every command that was sent as it was given, with the parameters of
\* an execute, as many as the statement has.
ReadAsMeant ==
    \A i \in DOMAIN served :
        /\ served[i].code = COM[sent[i].cmd] /\ served[i].no = 0
        /\ sent[i].cmd \in {"query", "prepare"} => served[i].text = sent[i].text
        /\ sent[i].cmd \in {"execute", "reset", "close"} => served[i].id = sent[i].id
        /\ sent[i].cmd = "execute" =>
              served[i].args = sent[i].args /\ Len(served[i].args) = sent[i].param_count

\* The login succeeds exactly with the password the server knows, for the user and the
\* database given.
LoginRight ==
    /\ phase \in {"up", "closed"} => login.password = login.known
    /\ phase = "refused" => login.password # login.known
    /\ phase \in {"result", "up", "refused", "closed"} =>
          server_login = [user |-> login.user, database |-> login.database, no |-> 1]
=============================================================================
