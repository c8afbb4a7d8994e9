------------------------------- MODULE Sproto -------------------------------
(***************************************************************************)
(* Messages of sproto (luaclib-src-3rd/sproto/sproto.c and lsproto.c): a   *)
(* message of a type is encoded into a buffer that is doubled until the    *)
(* message fits, and decoded by a reader whose type may be another version *)
(* of it.  Numbers have FIELD, LENGTH, INT32 or INT64 bytes of base Base.  *)
(* A message is a function of its tags.                                    *)
(***************************************************************************)
EXTENDS Integers, Sequences, SequencesExt, TLC, FiniteSets

CONSTANTS
    Base, FIELD, LENGTH, INT32, INT64,  \* 256, 2, 4, 4, 8 in the code
    BufferSize, MaxSize,                \* ENCODE_BUFFERSIZE, ENCODE_MAXSIZE
    Schemas,                            \* the fields of every type, by tag
    Inputs                              \* [write, read: types, msg: a message]

VARIABLES
    in,      \* the input
    sz,      \* the size of the buffer
    enc,     \* the last result of sproto_encode
    got,     \* the result of sproto_decode
    pc

vars == <<in, sz, enc, got, pc>>

Bytes(v, w) == [i \in 1 .. w |-> (v \div Base ^ (i - 1)) % Base]
Number(s, w) == FoldRight(LAMBDA a, b : a + Base * b, SubSeq(s, 1, w), 0)
Drop(s, n) == SubSeq(s, n + 1, Len(s))
Part(s, a, b) == SubSeq(s, a, IF b > Len(s) THEN Len(s) ELSE b)
Half(w) == (Base ^ w) \div 2

Bad == [ok |-> FALSE, bytes |-> <<>>, over |-> FALSE]
Good(b) == [ok |-> TRUE, bytes |-> b, over |-> FALSE]

\* import_type: room for the tags that are left out, and the first of tags in a row.
maxn(st) ==
    Len(st) + Cardinality({i \in DOMAIN st : st[i].tag > (IF i = 1 THEN 0 ELSE st[i - 1].tag + 1)})

base(st) ==
    IF st = <<>> THEN 0 ELSE IF Last(st).tag - st[1].tag + 1 = Len(st) THEN st[1].tag ELSE -1

\* findtag: by place if the tags are in a row, else by search.
findtag(st, tag) ==
    IF base(st) >= 0 THEN {st[i] : i \in {tag - base(st) + 1} \cap DOMAIN st}
    ELSE {st[i] : i \in {j \in DOMAIN st : st[j].tag = tag}}

-----------------------------------------------------------------------------
\* encode_one for an integer: four bytes if they hold it.
Wide(type, v) == type = "double" \/ v < -Half(INT32) \/ v >= Half(INT32)

\* uint32_to_uint64 for the numbers of an array.
Widened(b) ==
    FlattenSeq([i \in 1 .. Len(b) \div INT32 |->
        LET n == SubSeq(b, (i - 1) * INT32 + 1, i * INT32)
        IN  n \o [j \in 1 .. INT64 - INT32 |-> IF Last(n) >= Base \div 2 THEN Base - 1 ELSE 0]])

TooShort(room) == room < INT64

\* One number of encode_integer_array.  n: numbers so far, b: their bytes; wider: it is
\* the first that needs eight.
IntegerPut(r, v, wider, len, room, size) ==
    IF ~r.ok \/ r.room < INT64 \/ (wider /\ TooShort(room)) THEN [r EXCEPT !.ok = FALSE]
    ELSE LET b == (IF wider THEN Widened(r.b) ELSE r.b) \o Bytes(v, len)
         IN  [ok |-> TRUE, len |-> len, b |-> b, n |-> r.n + 1, room |-> room - len, over |-> r.over \/ Len(b) + 1 > size]

IntegerAdded(r, type, v, size) ==
    IF Wide(type, v) /\ r.len = INT32 THEN IntegerPut(r, v, TRUE, INT64, r.room - r.n * INT32, size)
    ELSE IntegerPut(r, v, FALSE, r.len, r.room, size)

encode_integer_array(type, vals, size) ==
    LET r == FoldLeft(LAMBDA a, v : IntegerAdded(a, type, v, size),
                      [ok |-> size >= 1, len |-> INT32, b |-> <<>>, n |-> 0, room |-> size - 1, over |-> FALSE], vals)
    IN  [ok |-> r.ok, bytes |-> IF vals = <<>> THEN <<>> ELSE <<r.len>> \o r.b, over |-> r.over]

Filled(r) == [r EXCEPT !.bytes = Bytes(Len(@), LENGTH) \o @]

RECURSIVE sproto_encode(_, _, _)

\* encode_one for a string and for a struct.
encode_one(f, v, size) ==
    IF f.type = "string" THEN (IF Len(v) > size THEN Bad ELSE Good(v)) ELSE sproto_encode(f.sub, v, size)

encode_object(f, v, size) ==
    IF size < LENGTH THEN Bad ELSE Filled(encode_one(f, v, size - LENGTH))

\* encode_array_object, which looks for room before it finds the end.
ObjectPut(r, o) ==
    IF r.ok /\ o.ok THEN [ok |-> TRUE, bytes |-> r.bytes \o o.bytes, over |-> r.over \/ o.over] ELSE [r EXCEPT !.ok = FALSE]

RoomLeft(r, size) == IF size - Len(r.bytes) < LENGTH THEN [r EXCEPT !.ok = FALSE] ELSE r

encode_array_object(f, vals, size) ==
    RoomLeft(FoldLeft(LAMBDA r, v : ObjectPut(r, encode_object(f, v, size - Len(r.bytes))), Good(<<>>), vals), size)

\* The elements of an array: with a main index they are in a table, in any order.
Elements(f, v) == IF f.key >= 0 THEN SetToSeq({v[k] : k \in DOMAIN v}) ELSE v

encode_array(f, vals, size) ==
    IF size < LENGTH THEN Bad
    ELSE CASE f.type \in {"integer", "double"} -> Filled(encode_integer_array(f.type, vals, size - LENGTH))
           [] f.type = "boolean" -> IF Len(vals) > size - LENGTH THEN Bad ELSE Filled(Good(vals))
           [] f.type \in {"string", "struct"} -> Filled(encode_array_object(f, vals, size - LENGTH))

\* A number is put into the header of its field if it is small enough.
InHeader(v) == v >= 0 /\ v < Half(FIELD) - 1

\* encode_integer and encode_uint64.
encode_number(f, v, size) ==
    LET w == IF Wide(f.type, v) THEN INT64 ELSE INT32
    IN  IF size < LENGTH + w THEN Bad ELSE Filled(Good(Bytes(v, w)))

\* The bytes of a field behind the header; those of a field that is nil are dropped.
FieldData(f, there, v, size) ==
    CASE f.array -> encode_array(f, IF there THEN Elements(f, v) ELSE <<>>, size)
      [] ~f.array /\ f.type \in {"string", "struct"} ->
            IF there THEN encode_object(f, v, size) ELSE IF size < LENGTH THEN Bad ELSE Good(<<>>)
      [] ~f.array /\ f.type \in {"integer", "double", "boolean"} ->
            IF ~there \/ (f.type # "double" /\ InHeader(v)) THEN Good(<<>>) ELSE encode_number(f, v, size)

\* One field of the loop in sproto_encode: its data d, a word for the gap before its
\* tag, and its own word.
FieldPut(r, f, there, v, d, gap) ==
    IF ~r.ok \/ ~d.ok \/ (there /\ (gap - 1) * 2 + 1 >= Base ^ FIELD) THEN [r EXCEPT !.ok = FALSE]
    ELSE IF ~there THEN r
    ELSE [ok |-> TRUE, data |-> r.data \o d.bytes, size |-> r.size - Len(d.bytes), last |-> f.tag,
          over |-> r.over \/ d.over,
          words |-> r.words \o (IF gap > 0 THEN <<(gap - 1) * 2 + 1>> ELSE <<>>)
                        \o <<IF ~f.array /\ d.bytes = <<>> THEN (v + 1) * 2 ELSE 0>>]

ValueOf(msg, tag) == IF tag \in DOMAIN msg THEN msg[tag] ELSE 0

FieldAdded(r, f, msg, v) ==
    FieldPut(r, f, f.tag \in DOMAIN msg, v, FieldData(f, f.tag \in DOMAIN msg, v, r.size), f.tag - r.last - 1)

Encoded(r, n) ==
    [ok |-> r.ok, over |-> r.over \/ Len(r.words) > n,
     bytes |-> Bytes(Len(r.words), FIELD) \o FlattenSeq([i \in DOMAIN r.words |-> Bytes(r.words[i], FIELD)]) \o r.data]

sproto_encode(t, msg, size) ==
    LET header == FIELD + maxn(Schemas[t]) * FIELD
    IN  Encoded(FoldLeft(LAMBDA r, f : FieldAdded(r, f, msg, ValueOf(msg, f.tag)),
                         [ok |-> size >= header, words |-> <<>>, data |-> <<>>, size |-> size - header, last |-> -1,
                          over |-> FALSE], Schemas[t]),
                maxn(Schemas[t]))

-----------------------------------------------------------------------------
expand64(v) == IF v >= Half(INT32) THEN v - Base ^ INT32 ELSE v

\* The eight bytes as a signed number.
Signed64(v) == IF v >= Half(INT64) THEN v - Base ^ INT64 ELSE v

Integer(s, w) == IF w = INT32 THEN expand64(Number(s, w)) ELSE Signed64(Number(s, w))

Wrong == [ok |-> FALSE, v |-> 0]
Right(v) == [ok |-> TRUE, v |-> v]

RECURSIVE sproto_decode(_, _)

\* The callback decode for a string or a struct, which must use all of its bytes.
decode_one(f, s) ==
    IF f.type = "string" THEN Right(s)
    ELSE LET r == sproto_decode(f.sub, s) IN IF r.ok /\ r.used = Len(s) THEN Right(r.msg) ELSE Wrong

Joined(first, rest) == IF first.ok /\ rest.ok THEN Right(<<first.v>> \o rest.v) ELSE Wrong

RECURSIVE decode_array_object(_, _)
decode_array_object(f, s) ==
    IF s = <<>> THEN Right(<<>>)
    ELSE IF Len(s) < LENGTH \/ Number(s, LENGTH) > Len(s) - LENGTH THEN Wrong
    ELSE Joined(decode_one(f, SubSeq(s, LENGTH + 1, LENGTH + Number(s, LENGTH))),
                decode_array_object(f, Drop(s, LENGTH + Number(s, LENGTH))))

\* A struct with a main index is put under it, and must have it.
Keyed(f, r) ==
    IF ~r.ok \/ f.key < 0 THEN r
    ELSE IF \E i \in DOMAIN r.v : f.key \notin DOMAIN r.v[i] THEN Wrong
    ELSE Right(FoldLeft(LAMBDA t, x : (x[f.key] :> x) @@ t, <<>>, r.v))

decode_array(f, s) ==
    CASE s = <<>> -> Right(<<>>)
      [] s # <<>> /\ f.type \in {"integer", "double"} ->
            IF s[1] \notin {INT32, INT64} \/ (Len(s) - 1) % s[1] # 0 THEN Wrong
            ELSE Right([i \in 1 .. (Len(s) - 1) \div s[1] |-> Integer(Drop(s, 1 + (i - 1) * s[1]), s[1])])
      [] s # <<>> /\ f.type = "boolean" -> Right(s)
      [] s # <<>> /\ f.type \in {"string", "struct"} -> Keyed(f, decode_array_object(f, s))

\* The value of a field: s is its data, or v the number in the header.
decode_field(f, s, v) ==
    CASE v >= 0 -> IF ~f.array /\ f.type \in {"integer", "boolean"} THEN Right(v) ELSE Wrong
      [] v < 0 /\ f.array -> decode_array(f, s)
      [] v < 0 /\ ~f.array /\ f.type \in {"integer", "double"} ->
            IF Len(s) \in {INT32, INT64} THEN Right(Integer(s, Len(s))) ELSE Wrong
      [] v < 0 /\ ~f.array /\ f.type \in {"string", "struct"} -> decode_one(f, s)
      [] v < 0 /\ ~f.array /\ f.type = "boolean" -> Wrong

\* The data to skip for a field, known or not.
Skipped(known, n) == n

\* The data ends before the field does.
Cut(data, n) == Len(data) < LENGTH + n

\* One word of the loop in sproto_decode, for the tag it is about.
FieldRead(r, tag, data, d) ==
    [ok |-> d.ok, tag |-> tag, data |-> data, msg |-> (tag :> d.v) @@ r.msg]

DataRead(r, tag, v, n, found) ==
    IF v < 0 /\ Cut(r.data, n) THEN [r EXCEPT !.ok = FALSE]
    ELSE LET data == Drop(r.data, IF v < 0 THEN Skipped(found # {}, LENGTH + n) ELSE 0)
         IN  IF found = {} THEN [r EXCEPT !.tag = tag, !.data = data]
             ELSE FieldRead(r, tag, data, decode_field(CHOOSE f \in found : TRUE, Part(r.data, LENGTH + 1, LENGTH + n), v))

WordRead(r, st, word) ==
    IF ~r.ok THEN r
    ELSE IF word % 2 = 1 THEN [r EXCEPT !.tag = @ + 1 + word \div 2]
    ELSE DataRead(r, r.tag + 1, word \div 2 - 1, IF Len(r.data) < LENGTH THEN 0 ELSE Number(r.data, LENGTH),
                  findtag(st, r.tag + 1))

Decoded(r, s) == [ok |-> r.ok, used |-> Len(s) - Len(r.data), msg |-> r.msg]

sproto_decode(t, s) ==
    LET fn == IF Len(s) < FIELD THEN 0 ELSE Number(s, FIELD)
    IN  IF Len(s) < FIELD + fn * FIELD THEN [ok |-> FALSE, used |-> 0, msg |-> <<>>]
        ELSE Decoded(FoldLeft(LAMBDA r, w : WordRead(r, Schemas[t], w),
                              [ok |-> TRUE, tag |-> -1, data |-> Drop(s, FIELD + fn * FIELD), msg |-> <<>>],
                              [i \in 1 .. fn |-> Number(Drop(s, i * FIELD), FIELD)]),
                     s)

-----------------------------------------------------------------------------
Init ==
    /\ in \in Inputs
    /\ sz = BufferSize /\ enc = Bad /\ got = [ok |-> FALSE, used |-> 0, msg |-> <<>>] /\ pc = "encode"

\* The loop in lencode, with expand_buffer.
Encode ==
    LET r == sproto_encode(in.write, in.msg, sz)
    IN  /\ pc = "encode"
        /\ enc' = r
        /\ sz' = IF r.ok THEN sz ELSE sz * 2
        /\ pc' = IF r.ok THEN "decode" ELSE IF sz * 2 > MaxSize THEN "too large" ELSE "encode"
        /\ UNCHANGED <<in, got>>

\* ldecode.
Decode ==
    /\ pc = "decode"
    /\ got' = sproto_decode(in.read, enc.bytes)
    /\ pc' = "done"
    /\ UNCHANGED <<in, sz, enc>>

Next == Encode \/ Decode

Spec == Init /\ [][Next]_vars

-----------------------------------------------------------------------------
\* Every variable keeps its type.
TypeOK ==
    /\ in \in Inputs /\ sz >= BufferSize /\ pc \in {"encode", "decode", "done", "too large"}
    /\ \A i \in DOMAIN enc.bytes : enc.bytes[i] \in 0 .. Base - 1

\* What a reader with type t should see of a message: the fields its type has.
RECURSIVE Known(_, _)
Known(t, msg) ==
    [g \in {x \in DOMAIN msg : \E i \in DOMAIN Schemas[t] : Schemas[t][i].tag = x} |->
        LET f == CHOOSE f \in ToSet(Schemas[t]) : f.tag = g
        IN  CASE f.type = "struct" /\ f.array -> [i \in DOMAIN msg[g] |-> Known(f.sub, msg[g][i])]
              [] f.type = "struct" /\ ~f.array -> Known(f.sub, msg[g])
              [] f.type # "struct" -> msg[g]]

\* A message is read as it was written, by a reader of the same type; a reader with an
\* older or newer version of the type gets the fields both have.
ReadByVersion == pc = "done" => got.ok /\ got.msg = Known(in.read, in.msg) /\ got.used = Len(enc.bytes)

\* No number of an array is written behind the buffer, and the header has room for a
\* word for every field and gap.
EncodeWithin == ~enc.over

\* A message that is cut off is not decoded to anything.
PrefixFails == pc = "done" => \A n \in 0 .. Len(enc.bytes) - 1 : ~sproto_decode(in.read, SubSeq(enc.bytes, 1, n)).ok

-----------------------------------------------------------------------------
(***************************************************************************)
(* The 0-packing of sproto (luaclib-src-3rd/sproto/sproto.c, with lpack    *)
(* and lunpack of lsproto.c): a text is cut into segments; a segment is    *)
(* written as a bit for every byte that is not 0 and these bytes, and a    *)
(* run of segments with hardly a 0 as it is.                               *)
(***************************************************************************)

CONSTANTS
    SEG,         \* bytes of a segment, 8 in the code
    RUN,         \* the most segments of a run, 256 in the code
    UnpackSize,  \* ENCODE_BUFFERSIZE: the buffer of lunpack
    Texts        \* the texts to pack

VARIABLES
    text, src,   \* the text, and the place sproto_pack has come to
    ff,          \* segments of the run at hand, ff_n
    packed,      \* what was written before this run
    size,        \* the size sproto_pack returns
    osz,         \* the buffer sproto_unpack is given
    back, stage     \* what lunpack returns

FF == 2 ^ SEG - 1
Zeros(n) == [i \in 1 .. n |-> 0]

PackInit ==
    /\ text \in Texts
    /\ src = 0 /\ ff = 0 /\ packed = <<>> /\ size = 0 /\ osz = UnpackSize /\ back = <<>> /\ stage = "pack"

\* The bytes of a text up to n, with zeros behind its end.
Padded(s, n) == s \o Zeros(IF n > Len(s) THEN n - Len(s) ELSE 0)

Segment(i) == SubSeq(Padded(text, i + SEG), i + 1, i + SEG)

NotZero(seg) == Cardinality({i \in DOMAIN seg : seg[i] # 0})

\* A run goes on over segments with at most two zeros.
InRun(seg, n) == NotZero(seg) = SEG \/ (n > 0 /\ NotZero(seg) >= SEG - 2)

\* pack_seg outside a run: the header, and the bytes that are not 0.
pack_seg(seg) ==
    <<FoldLeft(LAMBDA h, i : h + (IF seg[i] # 0 THEN 2 ^ (i - 1) ELSE 0), 0, [i \in 1 .. SEG |-> i])>>
        \o SelectSeq(seg, LAMBDA b : b # 0)

write_ff(start, n) == <<FF, n - 1>> \o SubSeq(Padded(text, start + n * SEG), start + 1, start + n * SEG)

\* The run at hand, written.
RunWritten(end) == IF ff > 0 THEN write_ff(end - ff * SEG, ff) ELSE <<>>

\* One segment of the loop in sproto_pack.
PackSegment ==
    LET seg == Segment(src)
    IN  /\ stage = "pack" /\ src < Len(text)
        /\ src' = src + SEG
        /\ IF InRun(seg, ff)
           THEN /\ size' = size + (IF ff = 0 THEN SEG + 2 ELSE SEG)
                /\ ff' = IF ff + 1 = RUN THEN 0 ELSE ff + 1
                /\ packed' = IF ff + 1 = RUN THEN packed \o write_ff(src' - RUN * SEG, RUN) ELSE packed
           ELSE /\ size' = size + 1 + NotZero(seg)
                /\ ff' = 0
                /\ packed' = packed \o RunWritten(src) \o pack_seg(seg)
        /\ UNCHANGED <<text, osz, back, stage>>

\* lpack's bound: two bytes for every run the text has room for, and two more.
PackMax(n) == ((n + SEG * RUN - 1) \div (SEG * RUN)) * 2 + n + 2

\* The rest of sproto_pack, and of lpack.
Packed ==
    /\ stage = "pack" /\ src >= Len(text)
    /\ packed' = packed \o RunWritten(src)
    /\ ff' = 0
    /\ stage' = IF size > PackMax(Len(text)) THEN "packing error" ELSE "unpack"
    /\ UNCHANGED <<text, src, size, osz, back>>

\* sproto_unpack: the size, or -1, and the bytes there is room for.
RECURSIVE Unpacked(_, _, _)
Unpacked(s, room, r) ==
    IF s = <<>> THEN r
    ELSE IF s[1] = FF
    THEN IF Len(s) < 2 \/ Len(s) < 2 + (s[2] + 1) * SEG THEN [r EXCEPT !.size = -1]
         ELSE LET n == (s[2] + 1) * SEG
              IN  Unpacked(SubSeq(s, n + 3, Len(s)), room - n,
                           [size |-> r.size + n,
                            bytes |-> IF room >= n THEN r.bytes \o SubSeq(s, 3, n + 2) ELSE r.bytes])
    ELSE LET bits == [i \in 1 .. SEG |-> (s[1] \div 2 ^ (i - 1)) % 2]
             place == [i \in 1 .. SEG |-> 1 + Cardinality({j \in 1 .. i : bits[j] = 1})]
             n == place[SEG]
             seg == [i \in 1 .. SEG |-> IF bits[i] = 1 THEN s[place[i]] ELSE 0]
         IN  IF Len(s) < n THEN [r EXCEPT !.size = -1]
             ELSE Unpacked(SubSeq(s, n + 1, Len(s)), IF room > SEG THEN room - SEG ELSE 0,
                           [size |-> r.size + SEG,
                            bytes |-> r.bytes \o SubSeq(seg, 1, IF room <= 0 THEN 0 ELSE IF room < SEG THEN room ELSE SEG)])

TooSmall(n, room) == n > room

\* lunpack: again with a buffer of the size it has got, if its own is too small.
Unpack ==
    LET r == Unpacked(packed, osz, [size |-> 0, bytes |-> <<>>])
    IN  /\ stage = "unpack"
        /\ IF r.size >= 0 /\ TooSmall(r.size, osz)
           THEN osz' = r.size /\ UNCHANGED <<back, stage>>
           ELSE back' = r.bytes /\ stage' = (IF r.size < 0 THEN "invalid" ELSE "done") /\ UNCHANGED osz
        /\ UNCHANGED <<text, src, ff, packed, size>>

PackNext == PackSegment \/ Packed \/ Unpack

-----------------------------------------------------------------------------
\* Every variable keeps its type.
PackTypeOK ==
    /\ ff \in 0 .. RUN - 1 /\ src \in 0 .. Len(text) + SEG - 1
    /\ \A i \in DOMAIN packed : packed[i] \in 0 .. FF
    /\ stage \in {"pack", "unpack", "done", "packing error", "invalid"}

\* sproto_pack returns the number of bytes it has written, and never more than the
\* buffer lpack gives it, two bytes above the text for every run of segments.
PackFits ==
    /\ stage # "packing error"
    /\ stage \in {"unpack", "done"} => Len(packed) = size /\ size <= PackMax(Len(text))

\* lunpack gives the text back, with zeros up to a whole segment, whatever the size
\* of the buffer it begins with.
PackRoundTrip ==
    /\ stage # "invalid"
    /\ stage = "done" => back = Padded(text, ((Len(text) + SEG - 1) \div SEG) * SEG)
=============================================================================
