-------------------------------- MODULE Seri --------------------------------
(***************************************************************************)
(* lua-seri.cpp: skynet.pack and skynet.unpack.  Values are written to a   *)
(* chain of blocks, copied into one message, and read back from it, or     *)
(* from a part of it.  A byte is a digit of Base, and integers have 1, 2,  *)
(* 3 and 4 digits for the 1, 2, 4 and 8 bytes of the code.  A Lua value is *)
(* [t, v, array, hash, meta]: a type and its bytes or number, and for a    *)
(* table its array part and its other pairs in the order of lua_next or,   *)
(* with meta, of its __pairs.                                              *)
(***************************************************************************)
EXTENDS Integers, Sequences, SequencesExt

CONSTANTS
    Base,           \* values of a byte
    BLOCK_SIZE, MAX_COOKIE, MAX_DEPTH,
    Args            \* lists of values that are packed

VARIABLES
    args,           \* what skynet.pack was given
    wb,             \* the blocks, and the pushes still to come
    stream,         \* the message: [ok, bytes]
    out             \* what skynet.unpack returned: [ok, vs], for each cut

vars == <<args, wb, stream, out>>

TYPE_NIL == 0
TYPE_BOOLEAN == 1
TYPE_NUMBER == 2
TYPE_USERDATA == 3
TYPE_SHORT_STRING == 4
TYPE_LONG_STRING == 5
TYPE_TABLE == 6

COMBINE_TYPE(t, cookie) == t + 8 * cookie

Value(t, v) == [t |-> t, v |-> v, array |-> <<>>, hash |-> <<>>, meta |-> FALSE]

Table(array, hash, meta) ==
    [t |-> "table", v |-> <<>>, array |-> array, hash |-> hash, meta |-> meta]

-----------------------------------------------------------------------------
(* The blocks.                                                             *)

wb_init(pushes) == [todo |-> pushes, full |-> <<>>, buffer |-> <<>>]

RECURSIVE wb_push(_, _)
wb_push(b, buf) ==
    LET a == IF Len(b.buffer) = BLOCK_SIZE
             THEN [b EXCEPT !.full = Append(@, b.buffer), !.buffer = <<>>] ELSE b
        room == BLOCK_SIZE - Len(a.buffer)
    IN  IF Len(buf) <= room THEN [a EXCEPT !.buffer = @ \o buf]
        ELSE wb_push([a EXCEPT !.buffer = @ \o SubSeq(buf, 1, room)],
                     SubSeq(buf, room + 1, Len(buf)))

seri(b) == FlattenSeq(b.full) \o b.buffer

-----------------------------------------------------------------------------
(* pack: the pushes of a value, <<bytes, ...>>; the last one is Failed     *)
(* when the value cannot be packed.                                        *)

Failed == <<-1>>

Fill(n, w) == [i \in 1..w |-> (n \div Base^(i - 1)) % Base]

wb_integer(n) ==
    IF n = 0 THEN <<<<COMBINE_TYPE(TYPE_NUMBER, 0)>>>>
    ELSE IF n < -(Base^3 \div 2) \/ n >= Base^3 \div 2
    THEN <<<<COMBINE_TYPE(TYPE_NUMBER, 6)>>, Fill(n, 4)>>
    ELSE IF n < 0 THEN <<<<COMBINE_TYPE(TYPE_NUMBER, 4)>>, Fill(n, 3)>>
    ELSE IF n < Base THEN <<<<COMBINE_TYPE(TYPE_NUMBER, 1)>>, Fill(n, 1)>>
    ELSE IF n < Base^2 THEN <<<<COMBINE_TYPE(TYPE_NUMBER, 2)>>, Fill(n, 2)>>
    ELSE <<<<COMBINE_TYPE(TYPE_NUMBER, 4)>>, Fill(n, 3)>>

wb_string(s) ==
    LET n == Len(s)
    IN  IF n < MAX_COOKIE
        THEN <<<<COMBINE_TYPE(TYPE_SHORT_STRING, n)>>>> \o IF n > 0 THEN <<s>> ELSE <<>>
        ELSE IF n < Base^2 THEN <<<<COMBINE_TYPE(TYPE_LONG_STRING, 2)>>, Fill(n, 2), s>>
        ELSE <<<<COMBINE_TYPE(TYPE_LONG_STRING, 4)>>, Fill(n, 3), s>>

\* Mutant: an array of MAX_COOKIE - 1 elements is not told from a longer one.
ArrayHeadShort(n) ==
    IF n >= MAX_COOKIE
    THEN <<<<COMBINE_TYPE(TYPE_TABLE, MAX_COOKIE - 1)>>>> \o wb_integer(n)
    ELSE <<<<COMBINE_TYPE(TYPE_TABLE, n)>>>>

ArrayHead(n) ==
    IF n >= MAX_COOKIE - 1
    THEN <<<<COMBINE_TYPE(TYPE_TABLE, MAX_COOKIE - 1)>>>> \o wb_integer(n)
    ELSE <<<<COMBINE_TYPE(TYPE_TABLE, n)>>>>

\* The values of a table that are packed after its array part.
Entries(x) == FlattenSeq(x.hash)

RECURSIVE pack_one(_, _)
pack_one(x, depth) ==
    LET all(s) == FlattenSeq([i \in DOMAIN s |-> pack_one(s[i], depth + 1)])
        wb_table == (IF x.meta THEN ArrayHead(0) \o all(Entries(x))
                     ELSE ArrayHead(Len(x.array)) \o all(x.array) \o all(Entries(x)))
                    \o <<<<TYPE_NIL>>>>
    IN  IF depth > MAX_DEPTH THEN <<Failed>>
        ELSE CASE x.t = "nil" -> <<<<TYPE_NIL>>>>
               [] x.t = "boolean" -> <<<<COMBINE_TYPE(TYPE_BOOLEAN, x.v[1])>>>>
               [] x.t = "integer" -> wb_integer(x.v[1])
               [] x.t = "real" -> <<<<COMBINE_TYPE(TYPE_NUMBER, 8)>>, x.v>>
               [] x.t = "pointer" -> <<<<TYPE_USERDATA>>, x.v>>
               [] x.t = "string" -> wb_string(x.v)
               [] x.t = "table" -> wb_table
               [] OTHER -> <<Failed>>

pack_from(vs) == FlattenSeq([i \in DOMAIN vs |-> pack_one(vs[i], 0)])

-----------------------------------------------------------------------------
(* unpack: what is read, and the rest of the bytes. [ok, v, rest]          *)

Invalid == [ok |-> FALSE, v |-> Value("nil", <<>>), rest |-> <<>>]

Read(t, v, n, rest) == [ok |-> TRUE, v |-> Value(t, v), rest |-> SubSeq(rest, n + 1, Len(rest))]

Number(b) == FoldRight(LAMBDA d, n : d + Base * n, b, 0)

Signed(n, w) == IF n >= Base^w \div 2 THEN n - Base^w ELSE n

get_integer(cookie, rest) ==
    LET w == CASE cookie = 0 -> 0 [] cookie = 1 -> 1 [] cookie = 2 -> 2
               [] cookie = 4 -> 3 [] cookie = 6 -> 4 [] OTHER -> -1
        n == Number(SubSeq(rest, 1, w))
    IN  IF w < 0 \/ Len(rest) < w THEN Invalid
        ELSE Read("integer", <<IF w > 2 THEN Signed(n, w) ELSE n>>, w, rest)

get_buffer(n, rest) ==
    IF Len(rest) < n THEN Invalid ELSE Read("string", SubSeq(rest, 1, n), n, rest)

LongString(w, rest) ==
    IF Len(rest) < w THEN Invalid
    ELSE get_buffer(Number(SubSeq(rest, 1, w)), SubSeq(rest, w + 1, Len(rest)))

Raw(t, rest) == IF Len(rest) < 4 THEN Invalid ELSE Read(t, SubSeq(rest, 1, 4), 4, rest)

RECURSIVE unpack_one(_), unpack_array(_, _, _), unpack_hash(_, _)

\* n more elements of the array part, then the pairs up to nil.
unpack_array(n, rest, array) ==
    IF n <= 0 THEN LET h == unpack_hash(rest, <<>>)
                   IN  IF h.ok THEN [h EXCEPT !.v = Table(array, h.v, FALSE)] ELSE Invalid
    ELSE LET e == unpack_one(rest)
         IN  IF e.ok THEN unpack_array(n - 1, e.rest, Append(array, e.v)) ELSE Invalid

unpack_hash(rest, pairs) ==
    LET k == unpack_one(rest)
        e == unpack_one(k.rest)
    IN  IF k.ok /\ k.v.t = "nil" THEN [ok |-> TRUE, v |-> pairs, rest |-> k.rest]
        ELSE IF ~k.ok \/ ~e.ok THEN [ok |-> FALSE, v |-> <<>>, rest |-> <<>>]
        ELSE unpack_hash(e.rest, Append(pairs, <<k.v, e.v>>))

unpack_table(size, rest) ==
    LET h == rest[1]
        n == get_integer(h \div 8, Tail(rest))
    IN  IF size < MAX_COOKIE - 1 THEN unpack_array(size, rest, <<>>)
        ELSE IF rest = <<>> THEN Invalid
        ELSE IF h % 8 # TYPE_NUMBER \/ h \div 8 = 8 \/ ~n.ok THEN Invalid
        ELSE unpack_array(n.v.v[1], n.rest, <<>>)

push_value(type, cookie, rest) ==
    CASE type = TYPE_NIL -> Read("nil", <<>>, 0, rest)
      [] type = TYPE_BOOLEAN -> Read("boolean", <<cookie>>, 0, rest)
      [] type = TYPE_NUMBER /\ cookie = 8 -> Raw("real", rest)
      [] type = TYPE_NUMBER /\ cookie # 8 -> get_integer(cookie, rest)
      [] type = TYPE_USERDATA -> Raw("pointer", rest)
      [] type = TYPE_SHORT_STRING -> get_buffer(cookie, rest)
      [] type = TYPE_LONG_STRING /\ cookie \in {2, 4} -> LongString(IF cookie = 2 THEN 2 ELSE 3, rest)
      [] type = TYPE_TABLE -> unpack_table(cookie, rest)
      [] OTHER -> Invalid

unpack_one(rest) ==
    IF rest = <<>> THEN Invalid ELSE push_value(Head(rest) % 8, Head(rest) \div 8, Tail(rest))

RECURSIVE unpack(_, _)
unpack(rest, vs) ==
    LET e == unpack_one(rest)
    IN  IF rest = <<>> THEN [ok |-> TRUE, vs |-> vs]
        ELSE IF e.ok THEN unpack(e.rest, Append(vs, e.v)) ELSE [ok |-> FALSE, vs |-> <<>>]

-----------------------------------------------------------------------------
NoStream == [ok |-> FALSE, bytes |-> <<>>]

Init == args \in Args /\ wb = wb_init(pack_from(args)) /\ stream = NoStream /\ out = <<>>

Push ==
    /\ wb.todo # <<>> /\ Head(wb.todo) # Failed
    /\ wb' = [wb_push(wb, Head(wb.todo)) EXCEPT !.todo = Tail(@)]
    /\ UNCHANGED <<args, stream, out>>

Packed ==
    /\ wb.todo = <<>> /\ stream = NoStream
    /\ stream' = [ok |-> TRUE, bytes |-> seri(wb)]
    /\ UNCHANGED <<args, wb, out>>

\* The whole message, and every shorter part of it.
Unpack ==
    /\ stream.ok /\ out = <<>>
    /\ out' = [n \in 1..Len(stream.bytes) |-> unpack(SubSeq(stream.bytes, 1, n), <<>>)]
    /\ UNCHANGED <<args, wb, stream>>

Next == Push \/ Packed \/ Unpack

Spec == Init /\ [][Next]_vars

-----------------------------------------------------------------------------
\* A value as Lua sees it: a table is a set of pairs.
RECURSIVE Meaning(_)
Meaning(x) ==
    [t |-> x.t, v |-> x.v,
     pairs |-> {<<Meaning(e[1]), Meaning(e[2])>> : e \in Range(x.hash)} \cup
               {<<Meaning(Value("integer", <<i>>)), Meaning(x.array[i])>> :
                    i \in {j \in DOMAIN x.array : ~x.meta /\ x.array[j].t # "nil"}}]

Meanings(vs) == [i \in DOMAIN vs |-> Meaning(vs[i])]

\* The depth of a value, and whether a type in it cannot be packed.
RECURSIVE Packable(_, _)
Packable(x, depth) ==
    /\ x.t # "function" /\ depth <= MAX_DEPTH
    /\ \A y \in Range(x.array \o Entries(x)) : Packable(y, depth + 1)

\* Every variable keeps its type.
TypeOK ==
    /\ stream.bytes \in Seq(Nat) /\ stream.ok \in BOOLEAN
    /\ \A n \in DOMAIN out : out[n].ok \in BOOLEAN

\* skynet.unpack gives back what skynet.pack was given, for every type, every
\* width of integer and length, and wherever the blocks end; pack refuses what is
\* too deep or of another type, and nothing else.
RoundTrip ==
    /\ Failed \in Range(wb.todo) <=> \E i \in DOMAIN args : ~Packable(args[i], 0)
    /\ out # <<>> => /\ Last(out).ok
                     /\ Meanings(Last(out).vs) = Meanings(args)

\* Of a message that is cut off, unpack gives the first values, or it fails; it
\* never gives a value that was not packed.
CutOff ==
    \A n \in DOMAIN out :
        out[n].ok => IsPrefix(Meanings(out[n].vs), Meanings(args))
=============================================================================
