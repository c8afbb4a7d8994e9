----------------------------- MODULE MCServices -----------------------------
(***************************************************************************)
(* The services, libraries and protocols above the runtime and the         *)
(* container below it, one small instance at a time: stm and the ring      *)
(* buffer of the message queues, whose modules it extends, shared data in  *)
(* its other three forms, launching services, the queue of the cluster     *)
(* client, the clients of redis clusters and dns, the message server; and  *)
(* the layouts and protocols: the packages of a cluster connection,        *)
(* serialised Lua values, http messages, websocket frames, the mysql and   *)
(* mongo protocols, sproto messages and their packing, and the codings of  *)
(* the crypt library. mode names the instance of a behaviour; the          *)
(* variables v1, v2, ... are those of its component, in the order of the   *)
(* component's declaration, and the stm object and the ring buffer rest    *)
(* while another component runs.                                           *)
(***************************************************************************)
EXTENDS Stm, RingQueue, Integers, Sequences, TLC

VARIABLES mode, v1, v2, v3, v4, v5, v6, v7, v8, v9, v10, v11, v12, v13

Shapes ==
    {{<<>>}, {<<>>, <<"a">>}, {<<>>, <<"b">>}, {<<>>, <<"a">>, <<"b">>}, {<<>>, <<"b">>, <<"b", "c">>}}

Requests ==
    <<[addr |-> [name |-> FALSE, v |-> <<3>>], msg |-> <<1, 2, 3>>, push |-> FALSE],
      [addr |-> [name |-> TRUE, v |-> <<0, 1>>], msg |-> <<3>>, push |-> FALSE],
      [addr |-> [name |-> TRUE, v |-> <<2>>], msg |-> <<1, 1, 2>>, push |-> TRUE],
      [addr |-> [name |-> FALSE, v |-> <<2>>], msg |-> <<3>>, push |-> TRUE]>>

SeriVal(t, v) == [t |-> t, v |-> v, array |-> <<>>, hash |-> <<>>, meta |-> FALSE]

Tab(array, hash, meta) ==
    [t |-> "table", v |-> <<>>, array |-> array, hash |-> hash, meta |-> meta]

I1 == SeriVal("integer", <<1>>)

I5 == SeriVal("integer", <<5>>)

S2 == SeriVal("string", <<1, 3>>)

Leaves ==
    {SeriVal("nil", <<>>), SeriVal("boolean", <<1>>), SeriVal("boolean", <<0>>), SeriVal("real", <<1, 2, 3, 0>>),
     SeriVal("pointer", <<0, 0, 3, 1>>), SeriVal("function", <<>>)}
    \cup {SeriVal("integer", <<n>>) : n \in {-128, -33, -32, -1, 0, 1, 3, 4, 15, 16, 31, 32, 127}}
    \cup {SeriVal("string", [i \in 1..n |-> (i * n) % 4]) : n \in {0, 1, 2, 3, 15, 16, 17}}

Flat ==
    {Tab(a, h, FALSE) :
        a \in {<<>>, <<I5>>, <<S2, SeriVal("nil", <<>>), I1>>, <<I1, I1, I1, I5>>, <<I1, I5>>},
        h \in {<<>>, <<<<S2, I5>>>>, <<<<I5, S2>>, <<S2, SeriVal("boolean", <<0>>)>>>>}}

Nested ==
    {Tab(<<t>>, <<<<S2, t>>>>, FALSE) : t \in Flat}
    \cup {Tab(<<>>, <<<<I1, t>>, <<S2, I5>>>>, TRUE) : t \in Flat}

Args ==
    {<<a>> : a \in Leaves \cup Flat \cup Nested \cup {Tab(<<>>, <<<<S2, t>>>>, FALSE) : t \in Nested}}
    \cup {<<a, b>> : a \in Leaves \cup Flat, b \in Leaves} \cup {<<>>}

Ends == <<<<"cr", 0>>, <<"lf", 0>>>>

HttpX == <<"x", 0>>

HttpTab == <<"tab", 0>>

HttpM(by, code, header, kind, pieces, raw, ends) ==
    [to |-> IF by = "writeall" THEN "client" ELSE "server", by |-> by, code |-> code, header |-> header,
     kind |-> kind, pieces |-> pieces, raw |-> raw, ends |-> ends, toclose |-> kind = "nil" /\ code = 200]

D(i) == <<"d", i>>

HttpChunked(raw, pieces, ends) ==
    HttpM("other", 1, <<<<"transfer-encoding", 1>>>>, "", pieces, Ends \o raw, ends)

HttpPlain(code, header, end) == HttpM("other", code, header, "", <<>>, Ends, {end})

HttpMessages ==
    {HttpM("writeall", 200, h, "string", b, <<>>, {"done"}) :
        h \in {<<>>, <<HttpX>>}, b \in {<<>>, <<<<D(1)>> \o Ends \o Ends \o <<D(2)>>>>}}
    \cup {HttpM("writeall", 200, <<>>, "function", b, <<>>, {"done"}) :
        b \in {<<>>, <<<<D(1), D(2)>>, <<>>, <<D(1)>>>>, <<Ends>>}}
    \cup {HttpM("writeall", c, <<HttpX>>, "nil", b, <<>>, {"done"}) : c \in {200}, b \in {<<>>, <<Ends>>}}
    \cup {HttpM("writeall", c, <<HttpX>>, "nil", <<>>, <<>>, {"done"}) : c \in {101, 204}}
    \cup {HttpM("request", 1, h, "", b, <<>>, {"done"}) :
        h \in {<<>>, <<HttpX, HttpTab>>}, b \in {<<>>, <<<<D(1), D(2), D(3)>>>>}}
    \cup {HttpM("request", 1, <<HttpX, HttpX, HttpTab>>, "", <<>>, <<>>, {"error"}),
          HttpM("request", 1, <<>>, "", <<<<D(1), D(2), D(3), D(4)>>>>, <<>>, {"413"}),
          HttpChunked(<<<<"hex", 1>>>> \o Ends \o <<D(1)>> \o Ends \o <<<<"hex", 0>>>> \o Ends \o <<HttpX>> \o Ends \o Ends,
                      <<<<D(1)>>>>, {"done"}),
          HttpChunked(<<<<"hex", 4>>>> \o Ends, <<>>, {"413"}),
          HttpChunked(<<<<"hex", 1>>>> \o Ends \o <<D(1), D(2), D(3)>>, <<>>, {"413"}),
          HttpChunked(<<<<"hex", 1>>, <<"hex", 1>>, <<"hex", 1>>, <<"hex", 1>>, <<"hex", 1>>>>, <<>>, {"413"}),
          HttpChunked(<<D(1)>> \o Ends, <<>>, {"413"}),
          HttpPlain(2, <<HttpX>>, "505"), HttpPlain(1, <<<<"junk", 0>>>>, "400"),
          HttpPlain(1, <<HttpTab>>, "400"), HttpPlain(1, <<<<"transfer-encoding", 2>>>>, "501"),
          HttpPlain(1, <<<<"transfer-encoding", 1>>, <<"transfer-encoding", 1>>>>, "501"),
          [HttpPlain(1, <<HttpX, HttpX, HttpX, HttpX, HttpX>>, "413") EXCEPT !.ends = {"413", "done"}]}

Bytes(set) == UNION {[1..n -> set] : n \in 0..3}

Schedule == [k \in {1, 2} |-> [i \in 1..16 |-> (k * i + i \div 3) % 3]]

SBox == [k \in 0..2 |-> [x \in 0..3 |-> (x * x + k * x + k) % 4]]

Permutation == [b \in [1..2 -> 0..3] |-> <<(b[2] * 3) % 4, b[1]>>]

Col(name, type, signed) == [name |-> name, type |-> type, signed |-> signed]

Num(n) == [k |-> "num", n |-> n, s |-> <<>>]

Txt(s) == [k |-> "str", n |-> 0, s |-> s]

NullValue == [k |-> "null", n |-> 0, s |-> <<>>]

Date(s) == [k |-> "date", n |-> 0, s |-> s]

SqlOk(n, id) == [t |-> "ok", n |-> n, id |-> id, cols |-> <<>>, rows |-> <<>>]

SqlErr(code) == [t |-> "err", n |-> code, id |-> 0, cols |-> <<>>, rows |-> <<>>]

SqlSet(cols, rows) == [t |-> "set", n |-> 0, id |-> 0, cols |-> cols, rows |-> rows]

SqlCut(set) == [set EXCEPT !.t = "cut", !.n = 200]

Command(cmd, text, id, args, results, params, fields, err) ==
    [cmd |-> cmd, text |-> text, id |-> id, args |-> args, results |-> results, params |-> params,
     fields |-> fields, err |-> err, param_count |-> Len(args)]

SqlQuery(results) == Command("query", <<2, 5>>, 0, <<>>, results, <<>>, <<>>, 0)

SqlExecute(args, results) == Command("execute", <<>>, 300, args, results, <<>>, <<>>, 0)

Prepare(params, fields, err) == Command("prepare", <<4>>, 300, <<>>, <<>>, params, fields, err)

TextCols == <<Col(<<1>>, 3, TRUE), Col(<<2, 2>>, 15, TRUE)>>

TextSet == SqlSet(TextCols, <<<<Num(12), Txt([i \in 1..11 |-> i])>>, <<Num(-3), NullValue>>, <<NullValue, Txt(<<>>)>>>>)

EmptyFirst == SqlSet(<<TextCols[2]>>, <<<<Txt(<<>>)>>, <<Txt(<<15>>)>>>>)

BinaryCols ==
    <<Col(<<1>>, 1, FALSE), Col(<<2>>, 2, TRUE), Col(<<3>>, 15, TRUE), Col(<<4>>, 12, TRUE), Col(<<5>>, 8, TRUE),
      Col(<<6>>, 9, FALSE)>>

BinarySet ==
    SqlSet(BinaryCols, <<<<Num(15), Num(-2), Txt([i \in 1..12 |-> 1]), Date(<<1, 2, 3, 4, 5, 6, 7>>), Num(-70000), Num(4095)>>,
                         <<NullValue, Num(127), NullValue, Date(<<1, 2, 3, 4>>), NullValue, NullValue>>,
                         <<Num(0), NullValue, Txt(<<>>), Date(<<>>), Num(500000), NullValue>>>>)

Results ==
    {<<SqlOk(3, 11)>>, <<SqlOk(300, 70000)>>, <<SqlErr(200)>>, <<TextSet>>, <<EmptyFirst>>, <<SqlSet(TextCols, <<>>)>>,
     <<SqlOk(15, 250), TextSet, SqlOk(0, 5000)>>, <<TextSet, SqlErr(200)>>, <<SqlCut(TextSet)>>}

Binary == {<<SqlOk(255, 256)>>, <<SqlErr(15)>>, <<BinarySet>>, <<BinarySet, SqlOk(1, 1)>>, <<SqlCut(BinarySet)>>}

SqlArgs ==
    {<<>>, <<Num(-1), Txt([i \in 1..11 |-> i])>>,
     <<NullValue, [k |-> "bool", n |-> 1, s |-> <<>>], NullValue, Num(70000), NullValue, Txt(<<>>)>>,
     <<Num(1), NullValue>>}

Simple(cmd) == Command(cmd, <<>>, 300, <<>>, IF cmd = "close" THEN <<>> ELSE <<SqlOk(0, 0)>>, <<>>, <<>>, 0)

SqlCommands ==
    {SqlQuery(x) : x \in Results} \cup {SqlExecute(a, <<SqlOk(1, 0)>>) : a \in SqlArgs} \cup {SqlExecute(<<>>, x) : x \in Binary}
    \cup {[SqlExecute(<<Num(7)>>, <<SqlOk(1, 0)>>) EXCEPT !.param_count = 2]} \cup {Prepare(p, f, 0) : p \in {<<>>, <<TextCols[1]>>}, f \in {<<>>, TextCols}} \cup {Prepare(<<>>, <<>>, 77)}
    \cup {Simple("ping"), Simple("reset"), Simple("close")}

SqlJobs == {<<a, b>> : a \in SqlCommands, b \in SqlCommands}

SqlLogins ==
    {[user |-> <<5, 6>>, password |-> p, known |-> <<1, 2, 3>>, database |-> d, scramble |-> [i \in 1..20 |-> ((i * i) % 15) + 1]] :
        p \in {<<1, 2, 3>>}, d \in {<<9>>}}

BadLogins ==
    {[user |-> <<5, 6>>, password |-> p, known |-> q, database |-> d, scramble |-> [i \in 1..20 |-> ((i * i) % 15) + 1]] :
        p \in {<<1, 2, 3>>, <<3, 2>>, <<>>}, q \in {<<1, 2, 3>>, <<>>}, d \in {<<>>, <<9>>}}

Field(tag, type, array) == [tag |-> tag, type |-> type, array |-> array, sub |-> "", key |-> -1]

Struct(tag, array, sub, key) == [tag |-> tag, type |-> "struct", array |-> array, sub |-> sub, key |-> key]

SprotoTypes ==
    [a |-> <<Field(0, "integer", FALSE), Field(1, "string", FALSE), Field(2, "boolean", FALSE), Field(5, "integer", TRUE)>>,
     b |-> <<Field(1, "string", FALSE), Field(4, "double", FALSE), Field(5, "integer", TRUE)>>,
     p |-> <<Field(0, "integer", FALSE), Field(1, "string", FALSE)>>,
     c |-> <<Struct(1, FALSE, "p", -1), Struct(3, TRUE, "p", 0), Field(4, "boolean", TRUE), Field(6, "string", TRUE),
             Field(8, "double", FALSE)>>,
     d |-> <<Field(2, "integer", FALSE), Struct(3, TRUE, "p", 0), Field(4, "boolean", TRUE), Field(6, "string", TRUE)>>,
     q |-> <<Field(1, "string", FALSE)>>,
     e |-> <<Struct(1, FALSE, "q", -1), Field(6, "string", TRUE)>>]

SprotoInputs ==
    {[write |-> "a", read |-> r, msg |-> (0 :> i) @@ m] :
            r \in {"a","b"}, i \in {-128,-9,-8,-1,0,6,7,8,127},
            m \in {<<>>, (1 :> <<>>), (2 :> 1) @@ (5 :> <<1,-1,100>>), (1 :> <<3,4>>) @@ (5 :> <<>>), (5 :> <<3,-3>>)}}
    \cup {[write |-> "c", read |-> r, msg |-> m @@ k] :
            r \in {"c","d","e"},
            m \in {<<>>, 1 :> <<>>, 1 :> ((0 :> 3) @@ (1 :> <<5>>)), (4 :> <<1, 0>>) @@ (8 :> (-2)), 6 :> <<<<>>, <<7>>>>,
                   (6 :> <<>>) @@ (8 :> 100)},
            k \in {<<>>, 3 :> (9 :> (0 :> 9)), 3 :> (((-1) :> ((0 :> (-1)) @@ (1 :> <<2>>))) @@ (2 :> (0 :> 2)))}}

PackTexts ==
    UNION {[1..n -> {0, 7}] : n \in 0..10}
    \cup {[i \in 1..n |-> IF i % z = 0 THEN 0 ELSE 1] : n \in 11..30, z \in {3, 8, 11, 40}}

CC == INSTANCE ClusterClient WITH sender <- v1, task_queue <- v2,
        requesting <- v3, sleeping <- v4, told <- v5, sends <- v6,
        pushed <- v7, refused <- v8, duplicative <- v9,
        Thread <- {"t1", "t2"}, MaxSends <- 4

SD == INSTANCE SharedData WITH obj <- v1, pool <- v2, watch <- v3, net <- v4,
        answer <- v5, view <- v6, cache <- v7, trash <- v8, lost <- v9,
        keys <- v1, sizearray <- v2, array <- v3, hash <- v4, emptyslot <- v5,
        pc <- v6, i <- v7, walked <- v8, Client <- {"c1", "c2"}, MaxAsk <- 1,
        MaxObj <- 2, Garbage <- {0}, INT_MAX <- 12, Replaced <- TRUE,
        LoadFails <- FALSE, IntKey <- {-1, 1, 2, 5}, StrKey <- {1, 2, 3},
        StrHash <- <<5, 4, 4>>, HashMod <- 8, MaxKeys <- 4

SG == INSTANCE SharedData WITH obj <- v1, pool <- v2, watch <- v3, net <- v4,
        answer <- v5, view <- v6, cache <- v7, trash <- v8, lost <- v9,
        keys <- v1, sizearray <- v2, array <- v3, hash <- v4, emptyslot <- v5,
        pc <- v6, i <- v7, walked <- v8, Client <- {"c1"}, MaxAsk <- 1,
        MaxObj <- 3, Garbage <- {-2, 0, 12}, INT_MAX <- 12, Replaced <- TRUE,
        LoadFails <- FALSE, IntKey <- {-1, 1, 2, 5}, StrKey <- {1, 2, 3},
        StrHash <- <<5, 4, 4>>, HashMod <- 8, MaxKeys <- 4

SF == INSTANCE SharedData WITH obj <- v1, pool <- v2, watch <- v3, net <- v4,
        answer <- v5, view <- v6, cache <- v7, trash <- v8, lost <- v9,
        keys <- v1, sizearray <- v2, array <- v3, hash <- v4, emptyslot <- v5,
        pc <- v6, i <- v7, walked <- v8, Client <- {"c1"}, MaxAsk <- 2,
        MaxObj <- 2, Garbage <- {0}, INT_MAX <- 12, Replaced <- TRUE,
        LoadFails <- TRUE, IntKey <- {-1, 1, 2, 5}, StrKey <- {1, 2, 3},
        StrHash <- <<5, 4, 4>>, HashMod <- 8, MaxKeys <- 4

DS == INSTANCE DataSheet WITH handle <- v1, handles <- v2, monitor <- v3,
        customers <- v4, net <- v5, answer <- v6, sheet <- v7, building <- v8,
        closed <- v9, docs <- v1, shown <- v2, proxies <- v3,
        Customer <- {"c", "d"}, Builder <- "b", MaxVersion <- 3,
        Shapes <- Shapes, MaxDocs <- 3, MaxProxies <- 4

DO == INSTANCE DataSheet WITH handle <- v1, handles <- v2, monitor <- v3,
        customers <- v4, net <- v5, answer <- v6, sheet <- v7, building <- v8,
        closed <- v9, docs <- v1, shown <- v2, proxies <- v3,
        Customer <- {"b", "c"}, Builder <- "b", MaxVersion <- 4,
        Shapes <- Shapes, MaxDocs <- 3, MaxProxies <- 4

TB == INSTANCE ShareTable WITH file <- v1, closed <- v2, made <- v3,
        refs <- v4, clients <- v5, asked <- v6, answer <- v7, held <- v8,
        gone <- v9, heap <- v1, before <- v2, replace_map <- v3,
        record_map <- v4, stack <- v5, Client <- {"c1", "c2"}, MaxMatrix <- 3,
        Object <- {"r", "f", "u"}, Root <- "r", Userdata <- {"u"},
        Slot <- {1, 2}, UserValue <- 1, OldPaths <- {<<>>, <<"a">>},
        NewPaths <- {<<>>}

LA == INSTANCE Launcher WITH result <- v1, life <- v2, owner <- v3, q <- v4,
        services <- v5, instance <- v6, Caller <- {"c1", "c2"},
        ByName <- FALSE, MaxService <- 2

LN == INSTANCE Launcher WITH result <- v1, life <- v2, owner <- v3, q <- v4,
        services <- v5, instance <- v6, Caller <- {"c1", "c2"},
        ByName <- TRUE, MaxService <- 2

RC == INSTANCE RedisCluster WITH owner <- v1, target <- v2, moved <- v3,
        flag <- v4, pending <- v5, down <- v6, slots <- v7, nodes <- v8,
        refresh <- v9, connections <- v10, call <- v11, count <- v12,
        Caller <- {"c"}, Node <- {"m", "n"}, Slot <- {1}, RequestTTL <- 6,
        MaxCalls <- 3, MaxMoves <- 3, MaxDown <- 2

RT == INSTANCE RedisCluster WITH owner <- v1, target <- v2, moved <- v3,
        flag <- v4, pending <- v5, down <- v6, slots <- v7, nodes <- v8,
        refresh <- v9, connections <- v10, call <- v11, count <- v12,
        Caller <- {"c", "d"}, Node <- {"m", "n"}, Slot <- {1},
        RequestTTL <- 4, MaxCalls <- 3, MaxMoves <- 1, MaxDown <- 0

RD == INSTANCE RedisCluster WITH owner <- v1, target <- v2, moved <- v3,
        flag <- v4, pending <- v5, down <- v6, slots <- v7, nodes <- v8,
        refresh <- v9, connections <- v10, call <- v11, count <- v12,
        Caller <- {"c", "d"}, Node <- {"m", "n"}, Slot <- {1},
        RequestTTL <- 3, MaxCalls <- 2, MaxMoves <- 1, MaxDown <- 1

MA == INSTANCE MsgServer WITH online <- v1, user <- v2, gate <- v3,
        handshake <- v4, connection <- v5, p <- v6, done <- v7, MaxLogin <- 1,
        MaxFd <- 2, Session <- {1, 2}, expired_number <- 1, MaxRequest <- 2

MB == INSTANCE MsgServer WITH online <- v1, user <- v2, gate <- v3,
        handshake <- v4, connection <- v5, p <- v6, done <- v7, MaxLogin <- 2,
        MaxFd <- 2, Session <- {1}, expired_number <- 1, MaxRequest <- 2

DN == INSTANCE Dns WITH now <- v1, pc <- v2, key <- v3, tid <- v4,
        result <- v5, request_pool <- v6, next_tid <- v7, cache <- v8,
        asked <- v9, open <- v10, retire <- v11, check <- v12, timers <- v13,
        Query <- {1, 2, 3}, Name <- {"a", "b"}, Hosts <- {}, Type <- {1},
        MaxTid <- 2, TIMEOUT <- 1, DNS_SERVER_RETIRE <- 2, TTL <- {1},
        MaxNow <- 4

DH == INSTANCE Dns WITH now <- v1, pc <- v2, key <- v3, tid <- v4,
        result <- v5, request_pool <- v6, next_tid <- v7, cache <- v8,
        asked <- v9, open <- v10, retire <- v11, check <- v12, timers <- v13,
        Query <- {1, 2}, Name <- {"a", "b"}, Hosts <- {<<"b", 1>>},
        Type <- {1, 28}, MaxTid <- 1, TIMEOUT <- 1, DNS_SERVER_RETIRE <- 2,
        TTL <- {1}, MaxNow <- 3

CX == INSTANCE ClusterClient WITH sender <- v1, task_queue <- v2,
        requesting <- v3, sleeping <- v4, told <- v5, sends <- v6,
        pushed <- v7, refused <- v8, duplicative <- v9,
        Thread <- {"t1", "t2"}, MaxSends <- 2

CW == INSTANCE ClusterWire WITH session <- v1, todo <- v2, thread <- v3,
        data <- v4, result <- v5, high <- v6, low <- v7, rhigh <- v8,
        rlow <- v9, large_request <- v10, work <- v11, calls <- v12,
        conn <- v13, MULTI_PART <- 2, Base <- 4, Width <- 2, INT32_MAX <- 6,
        MaxBreaks <- 1, Requests <- Requests

SE == INSTANCE Seri WITH args <- v1, wb <- v2, stream <- v3, out <- v4,
        Base <- 4, BLOCK_SIZE <- 3, MAX_COOKIE <- 4, MAX_DEPTH <- 2,
        Args <- Args

HM == INSTANCE HttpMessage WITH msg <- v1, wire <- v2, buf <- v3,
        closed <- v4, pc <- v5, acc <- v6, lines <- v7, size <- v8,
        total <- v9, result <- v10, Messages <- HttpMessages, LIMIT <- 16,
        ChunkLimit <- 3, BodyLimit <- 3

WS == INSTANCE WebSocket WITH out <- v1, pool <- v2, sock <- v3, link <- v4,
        pc <- v5, recv_buf <- v6, events <- v7, got <- v8, sent <- v9,
        writes <- v10, lost <- v11, Short <- 2, Medium <- 4, Base <- 4,
        MAX_FRAME_SIZE <- 4, Keys <- {<<>>, <<1, 0>>},
        Payloads <- {<<1, 1, 0, 1>>, <<1, 0, 1, 0, 1>>},
        Parts <- {<<<<1>>, <<0, 1, 1>>>>, <<<<1, 1>>, <<0, 1, 1>>>>},
        MaxWrites <- [client |-> 1, server |-> 1]

MY == INSTANCE Mysql WITH phase <- v1, login <- v2, server_login <- v3,
        job <- v4, sent <- v5, served <- v6, up <- v7, wire <- v8,
        packet_no <- v9, queue <- v10, r <- v11, answers <- v12,
        Logins <- SqlLogins, Jobs <- SqlJobs, compact <- TRUE

ML == INSTANCE Mysql WITH phase <- v1, login <- v2, server_login <- v3,
        job <- v4, sent <- v5, served <- v6, up <- v7, wire <- v8,
        packet_no <- v9, queue <- v10, r <- v11, answers <- v12,
        Logins <- BadLogins,
        Jobs <- {<<SqlQuery(<<TextSet>>)>>, <<SqlExecute(<<>>, <<BinarySet>>)>>},
        compact <- FALSE

MQ == INSTANCE MongoWire WITH wire <- v1, asked <- v2, read <- v3, back <- v4,
        replied <- v5, got <- v6, over <- v7, Base <- 16, Width <- 3,
        DEFAULT_CAP <- 10, Names <- {<<1>>, [i \in 1..30 |-> 1]},
        Docs <- {<<4, 0, 0, 9>>, <<6, 0, 0, 0, 1, 2>>}, Ints <- {0, 300},
        Cursors <- {<<0, 300>>, <<5, 0>>}, MaxPackages <- 2, MaxReplies <- 0

MR == INSTANCE MongoWire WITH wire <- v1, asked <- v2, read <- v3, back <- v4,
        replied <- v5, got <- v6, over <- v7, Base <- 16, Width <- 3,
        DEFAULT_CAP <- 10, Names <- {<<1>>}, Docs <- {<<6, 0, 0, 0, 1, 2>>},
        Ints <- {0}, Cursors <- {<<0, 0>>, <<0, 300>>}, MaxPackages <- 2,
        MaxReplies <- 2

SP == INSTANCE Sproto WITH in <- v1, sz <- v2, enc <- v3, got <- v4, pc <- v5,
        text <- v1, src <- v2, ff <- v3, packed <- v4, size <- v5, osz <- v6,
        back <- v7, stage <- v8, Base <- 16, FIELD <- 1, LENGTH <- 2,
        INT32 <- 1, INT64 <- 2, BufferSize <- 4, MaxSize <- 64,
        Schemas <- SprotoTypes, Inputs <- SprotoInputs, SEG <- 4, RUN <- 4,
        UnpackSize <- 5, Texts <- PackTexts

CR == INSTANCE Crypt WITH job <- v1, wire <- v2, back <- v3, pc <- v4,
        Texts <- Bytes({0, 77, 250, 255}), Blocks <- Bytes(0..3),
        Schedule <- Schedule, SBox <- SBox, Permutation <- Permutation,
        W <- 4, P <- 13, G <- 2

MCVars == <<mode, vars, ringVars, v1, v2, v3, v4, v5, v6, v7, v8, v9, v10,
           v11, v12, v13>>

MCInit ==
    \/ mode = "stm" /\ Init /\ RingInit
       /\ v1 = 0 /\ v2 = 0 /\ v3 = 0 /\ v4 = 0 /\ v5 = 0 /\ v6 = 0 /\
          v7 = 0 /\ v8 = 0 /\ v9 = 0 /\ v10 = 0 /\ v11 = 0 /\ v12 = 0 /\
          v13 = 0
    \/ mode = "ring" /\ Init /\ RingInit
       /\ v1 = 0 /\ v2 = 0 /\ v3 = 0 /\ v4 = 0 /\ v5 = 0 /\ v6 = 0 /\
          v7 = 0 /\ v8 = 0 /\ v9 = 0 /\ v10 = 0 /\ v11 = 0 /\ v12 = 0 /\
          v13 = 0
    \/ mode = "client" /\ CC!Init /\ Init /\ RingInit
       /\ v10 = 0 /\ v11 = 0 /\ v12 = 0 /\ v13 = 0
    \/ mode = "data" /\ SD!Init /\ Init /\ RingInit
       /\ v10 = 0 /\ v11 = 0 /\ v12 = 0 /\ v13 = 0
    \/ mode = "dirty" /\ SG!Init /\ Init /\ RingInit
       /\ v10 = 0 /\ v11 = 0 /\ v12 = 0 /\ v13 = 0
    \/ mode = "failing" /\ SF!Init /\ Init /\ RingInit
       /\ v10 = 0 /\ v11 = 0 /\ v12 = 0 /\ v13 = 0
    \/ mode = "conf" /\ SD!ConfInit /\ Init /\ RingInit
       /\ v9 = 0 /\ v10 = 0 /\ v11 = 0 /\ v12 = 0 /\ v13 = 0
    \/ mode = "sheet" /\ DS!Init /\ Init /\ RingInit
       /\ v10 = 0 /\ v11 = 0 /\ v12 = 0 /\ v13 = 0
    \/ mode = "own_sheet" /\ DO!Init /\ Init /\ RingInit
       /\ v10 = 0 /\ v11 = 0 /\ v12 = 0 /\ v13 = 0
    \/ mode = "tables" /\ DS!TableInit /\ Init /\ RingInit
       /\ v4 = 0 /\ v5 = 0 /\ v6 = 0 /\ v7 = 0 /\ v8 = 0 /\ v9 = 0 /\
          v10 = 0 /\ v11 = 0 /\ v12 = 0 /\ v13 = 0
    \/ mode = "table" /\ TB!Init /\ Init /\ RingInit
       /\ v10 = 0 /\ v11 = 0 /\ v12 = 0 /\ v13 = 0
    \/ mode = "update" /\ TB!UpdateInit /\ Init /\ RingInit
       /\ v6 = 0 /\ v7 = 0 /\ v8 = 0 /\ v9 = 0 /\ v10 = 0 /\ v11 = 0 /\
          v12 = 0 /\ v13 = 0
    \/ mode = "launcher" /\ LA!Init /\ Init /\ RingInit
       /\ v7 = 0 /\ v8 = 0 /\ v9 = 0 /\ v10 = 0 /\ v11 = 0 /\ v12 = 0 /\
          v13 = 0
    \/ mode = "named" /\ LN!Init /\ Init /\ RingInit
       /\ v7 = 0 /\ v8 = 0 /\ v9 = 0 /\ v10 = 0 /\ v11 = 0 /\ v12 = 0 /\
          v13 = 0
    \/ mode = "redis" /\ RC!Init /\ Init /\ RingInit
       /\ v13 = 0
    \/ mode = "redis_two" /\ RT!Init /\ Init /\ RingInit
       /\ v13 = 0
    \/ mode = "redis_down" /\ RD!Init /\ Init /\ RingInit
       /\ v13 = 0
    \/ mode = "msgserver" /\ MA!Init /\ Init /\ RingInit
       /\ v8 = 0 /\ v9 = 0 /\ v10 = 0 /\ v11 = 0 /\ v12 = 0 /\ v13 = 0
    \/ mode = "relogin" /\ MB!Init /\ Init /\ RingInit
       /\ v8 = 0 /\ v9 = 0 /\ v10 = 0 /\ v11 = 0 /\ v12 = 0 /\ v13 = 0
    \/ mode = "dns" /\ DN!Init /\ Init /\ RingInit
    \/ mode = "hosts" /\ DH!Init /\ Init /\ RingInit
    \/ mode = "cluster" /\ CW!Init /\ Init /\ RingInit
    \/ mode = "seri" /\ SE!Init /\ Init /\ RingInit
       /\ v5 = 0 /\ v6 = 0 /\ v7 = 0 /\ v8 = 0 /\ v9 = 0 /\ v10 = 0 /\
          v11 = 0 /\ v12 = 0 /\ v13 = 0
    \/ mode = "http" /\ HM!Init /\ Init /\ RingInit
       /\ v11 = 0 /\ v12 = 0 /\ v13 = 0
    \/ mode = "websocket" /\ WS!Init /\ Init /\ RingInit
       /\ v12 = 0 /\ v13 = 0
    \/ mode = "mysql" /\ MY!Init /\ Init /\ RingInit
       /\ v13 = 0
    \/ mode = "sqllogin" /\ ML!Init /\ Init /\ RingInit
       /\ v13 = 0
    \/ mode = "mongo" /\ MQ!Init /\ Init /\ RingInit
       /\ v8 = 0 /\ v9 = 0 /\ v10 = 0 /\ v11 = 0 /\ v12 = 0 /\ v13 = 0
    \/ mode = "mongoreply" /\ MR!Init /\ Init /\ RingInit
       /\ v8 = 0 /\ v9 = 0 /\ v10 = 0 /\ v11 = 0 /\ v12 = 0 /\ v13 = 0
    \/ mode = "sproto" /\ SP!Init /\ Init /\ RingInit
       /\ v6 = 0 /\ v7 = 0 /\ v8 = 0 /\ v9 = 0 /\ v10 = 0 /\ v11 = 0 /\
          v12 = 0 /\ v13 = 0
    \/ mode = "pack" /\ SP!PackInit /\ Init /\ RingInit
       /\ v9 = 0 /\ v10 = 0 /\ v11 = 0 /\ v12 = 0 /\ v13 = 0
    \/ mode = "crypt" /\ CR!Init /\ Init /\ RingInit
       /\ v5 = 0 /\ v6 = 0 /\ v7 = 0 /\ v8 = 0 /\ v9 = 0 /\ v10 = 0 /\
          v11 = 0 /\ v12 = 0 /\ v13 = 0

MCNext ==
    \/ mode = "stm" /\ Next
       /\ UNCHANGED <<mode, ringVars, v1, v2, v3, v4, v5, v6, v7, v8, v9, v10,
          v11, v12, v13>>
    \/ mode = "ring" /\ RingNext
       /\ UNCHANGED <<mode, vars, v1, v2, v3, v4, v5, v6, v7, v8, v9, v10,
          v11, v12, v13>>
    \/ mode = "client" /\ CC!Next
       /\ UNCHANGED <<mode, vars, ringVars, v10, v11, v12, v13>>
    \/ mode = "data" /\ SD!Next
       /\ UNCHANGED <<mode, vars, ringVars, v10, v11, v12, v13>>
    \/ mode = "dirty" /\ SG!Next
       /\ UNCHANGED <<mode, vars, ringVars, v10, v11, v12, v13>>
    \/ mode = "failing" /\ SF!Next
       /\ UNCHANGED <<mode, vars, ringVars, v10, v11, v12, v13>>
    \/ mode = "conf" /\ SD!ConfNext
       /\ UNCHANGED <<mode, vars, ringVars, v9, v10, v11, v12, v13>>
    \/ mode = "sheet" /\ DS!Next
       /\ UNCHANGED <<mode, vars, ringVars, v10, v11, v12, v13>>
    \/ mode = "own_sheet" /\ DO!Next
       /\ UNCHANGED <<mode, vars, ringVars, v10, v11, v12, v13>>
    \/ mode = "tables" /\ DS!TableNext
       /\ UNCHANGED <<mode, vars, ringVars, v4, v5, v6, v7, v8, v9, v10, v11,
          v12, v13>>
    \/ mode = "table" /\ TB!Next
       /\ UNCHANGED <<mode, vars, ringVars, v10, v11, v12, v13>>
    \/ mode = "update" /\ TB!UpdateNext
       /\ UNCHANGED <<mode, vars, ringVars, v6, v7, v8, v9, v10, v11, v12,
          v13>>
    \/ mode = "launcher" /\ LA!Next
       /\ UNCHANGED <<mode, vars, ringVars, v7, v8, v9, v10, v11, v12, v13>>
    \/ mode = "named" /\ LN!Next
       /\ UNCHANGED <<mode, vars, ringVars, v7, v8, v9, v10, v11, v12, v13>>
    \/ mode = "redis" /\ RC!Next /\ UNCHANGED <<mode, vars, ringVars, v13>>
    \/ mode = "redis_two" /\ RT!Next /\ UNCHANGED <<mode, vars, ringVars, v13>>
    \/ mode = "redis_down" /\ RD!Next /\ UNCHANGED <<mode, vars, ringVars, v13>>
    \/ mode = "msgserver" /\ MA!Next
       /\ UNCHANGED <<mode, vars, ringVars, v8, v9, v10, v11, v12, v13>>
    \/ mode = "relogin" /\ MB!Next
       /\ UNCHANGED <<mode, vars, ringVars, v8, v9, v10, v11, v12, v13>>
    \/ mode = "dns" /\ DN!Next /\ UNCHANGED <<mode, vars, ringVars>>
    \/ mode = "hosts" /\ DH!Next /\ UNCHANGED <<mode, vars, ringVars>>
    \/ mode = "cluster" /\ CW!Next /\ UNCHANGED <<mode, vars, ringVars>>
    \/ mode = "seri" /\ SE!Next
       /\ UNCHANGED <<mode, vars, ringVars, v5, v6, v7, v8, v9, v10, v11, v12,
          v13>>
    \/ mode = "http" /\ HM!Next
       /\ UNCHANGED <<mode, vars, ringVars, v11, v12, v13>>
    \/ mode = "websocket" /\ WS!Next
       /\ UNCHANGED <<mode, vars, ringVars, v12, v13>>
    \/ mode = "mysql" /\ MY!Next /\ UNCHANGED <<mode, vars, ringVars, v13>>
    \/ mode = "sqllogin" /\ ML!Next /\ UNCHANGED <<mode, vars, ringVars, v13>>
    \/ mode = "mongo" /\ MQ!Next
       /\ UNCHANGED <<mode, vars, ringVars, v8, v9, v10, v11, v12, v13>>
    \/ mode = "mongoreply" /\ MR!Next
       /\ UNCHANGED <<mode, vars, ringVars, v8, v9, v10, v11, v12, v13>>
    \/ mode = "sproto" /\ SP!Next
       /\ UNCHANGED <<mode, vars, ringVars, v6, v7, v8, v9, v10, v11, v12,
          v13>>
    \/ mode = "pack" /\ SP!PackNext
       /\ UNCHANGED <<mode, vars, ringVars, v9, v10, v11, v12, v13>>
    \/ mode = "crypt" /\ CR!Next
       /\ UNCHANGED <<mode, vars, ringVars, v5, v6, v7, v8, v9, v10, v11, v12,
          v13>>

MCSpec == MCInit /\ [][MCNext]_MCVars

\* The coroutines of a service that use a node for the first time.
TokenInit ==
    /\ mode = "token" /\ CX!Init /\ Init /\ RingInit
    /\ v10 = 0 /\ v11 = 0 /\ v12 = 0 /\ v13 = 0

TokenNext == CX!Next /\ UNCHANGED <<mode, vars, ringVars, v10, v11, v12, v13>>

TokenSpec == TokenInit /\ [][TokenNext]_MCVars

-----------------------------------------------------------------------------
(* Shared memory lives at least as long as it is used, and is given back:  *)
(* the counter of a sharedata object is the number of its users, of the    *)
(* references a failed assertion lost (corelib.lua:131), and what its      *)
(* memory held when it was made (lua-sharedata.cpp:437 does not set it),   *)
(* and an object in use is not deleted unless that was negative or near    *)
(* INT_MAX; a version of a datasheet in use is not given back to its       *)
(* builder, though one that a customer skipped may be kept for ever; a     *)
(* table of sharetable somebody has cloned is not closed and one nobody    *)
(* uses is; and in the layout of a sharedata table every key is found with *)
(* its value, and a walk visits it once.                                   *)
SharedAlive ==
    /\ (mode = "data" => SD!TypeOK /\ SD!RefsExact)
    /\ (mode = "dirty" => SG!TypeOK /\ SG!RefsExact)
    /\ (mode = "failing" => SF!TypeOK /\ SF!RefsExact)
    /\ (mode = "sheet" => DS!TypeOK /\ DS!HeldAlive)
    /\ (mode = "own_sheet" => DO!TypeOK /\ DO!HeldAlive)
    /\ (mode = "table" => TB!TypeOK /\ TB!MatrixAlive /\ TB!NoLeak)
    /\ (mode = "conf" => SD!ConfTypeOK /\ SD!FindsKeys /\ SD!WalksKeys)

(* No user of shared data misses an update: when nothing is on its way,    *)
(* who monitors a sharedata object has the current one, unless its monitor *)
(* has ended (the name was deleted, an assertion failed, or an update did  *)
(* not load and nobody answers); every customer of a datasheet but the     *)
(* builder itself, whose own release takes its monitor away                *)
(* (builder.lua:56), has the current version. The proxies of a datasheet   *)
(* show the version at hand and keep their place in it, and                *)
(* sharetable.update leaves no reference to the old version where it       *)
(* looks.                                                                  *)
SharedCurrent ==
    /\ (mode = "data" => SD!UpToDate)
    /\ (mode = "dirty" => SG!UpToDate)
    /\ (mode = "failing" => SF!UpToDate)
    /\ (mode = "sheet" => DS!UpToDate)
    /\ (mode = "own_sheet" => DO!UpToDate)
    /\ (mode = "tables" => DS!TableTypeOK /\ DS!SamePath /\ DS!CacheCurrent)
    /\ (mode = "update" => TB!UpdateTypeOK /\ TB!AllReplaced)

(* A caller gets the answer it has earned, once. launcher: a call of       *)
(* newservice is answered once and the list is that of the living. redis   *)
(* cluster: a call waits for exactly its own requests, and runs out of     *)
(* redirections only after a failure, or after more migrations and more of *)
(* its ASKINGs used up by other callers than it has turns for. msgserver:  *)
(* the last answers can be sent again, to who asked last, and no handshake *)
(* index is taken twice. dns: a waiting query has its transaction id, a    *)
(* timer and an open socket, and gets records of its own name.             *)
(* cluster.send keeps its order.                                           *)
AnswersEarned ==
    /\ (mode = "launcher" => LA!TypeOK /\ LA!OwedOnce /\ LA!ListsLiving)
    /\ (mode = "named" => LN!TypeOK /\ LN!OwedOnce)
    /\ (mode = "redis" => RC!TypeOK /\ RC!WaitsForOwn /\ RC!TooManyEarned)
    /\ (mode = "redis_two" => RT!TypeOK /\ RT!WaitsForOwn /\ RT!TooManyEarned)
    /\ (mode = "redis_down" => RD!TypeOK /\ RD!WaitsForOwn /\ RD!TooManyEarned)
    /\ (mode = "msgserver" =>
          MA!TypeOK /\ MA!RecentKept /\ MA!ToLastAsker /\ MA!IndexOnce)
    /\ (mode = "relogin" =>
          MB!TypeOK /\ MB!RecentKept /\ MB!ToLastAsker /\ MB!IndexOnce)
    /\ (mode = "dns" =>
          DN!TypeOK /\ DN!NobodyForgotten /\ DN!OpenWhileWaiting /\
          DN!OwnName)
    /\ (mode = "hosts" =>
          DH!TypeOK /\ DH!NobodyForgotten /\ DH!OpenWhileWaiting /\
          DH!OwnName)
    /\ (mode = "client" => CC!TypeOK /\ CC!SendsInOrder)

(* What one side writes the other reads, whole and as it was meant: the    *)
(* messages and responses of a cluster connection, serialised Lua values,  *)
(* http bodies however the stream is cut, the messages of a websocket in   *)
(* order, commands, answers and logins of the mysql and mongo protocols,   *)
(* sproto messages between two versions of a type and their packing, and   *)
(* what the crypt library encodes. Two answers are not what the server     *)
(* meant: an error packet among the rows of mysql, which raises in place   *)
(* of the error and closes the connection (a text row) or may be taken for *)
(* a row, after which the connection is out of step (mysql.lua:684); and a *)
(* mongo reply with CURSORNOTFOUND, a success without documents (lua-      *)
(* mongo.cpp:247).                                                         *)
ReadAsWritten ==
    /\ (mode = "cluster" => CW!TypeOK /\ CW!MessagesWhole /\ CW!OwnResponse)
    /\ (mode = "seri" => SE!TypeOK /\ SE!RoundTrip)
    /\ (mode = "http" => HM!TypeOK /\ HM!ReadsMessage)
    /\ (mode = "websocket" => WS!TypeOK /\ WS!InOrder)
    /\ (mode = "mysql" =>
          MY!TypeOK /\ MY!NothingLeft /\ MY!OwnAnswer /\ MY!ReadAsMeant /\
          MY!LoginRight)
    /\ (mode = "sqllogin" =>
          ML!TypeOK /\ ML!NothingLeft /\ ML!OwnAnswer /\ ML!ReadAsMeant /\
          ML!LoginRight)
    /\ (mode = "mongo" => MQ!TypeOK /\ MQ!ServerReads /\ MQ!ReplyTold)
    /\ (mode = "mongoreply" => MR!TypeOK /\ MR!ServerReads /\ MR!ReplyTold)
    /\ (mode = "sproto" => SP!TypeOK /\ SP!ReadByVersion)
    /\ (mode = "pack" => SP!PackTypeOK /\ SP!PackRoundTrip)
    /\ (mode = "crypt" => CR!TypeOK /\ CR!DecodesBack /\ CR!SameSecret)

(* No reader or writer goes past its end, and nobody waits for what cannot *)
(* come: a message cut off is not decoded, a package is not written past   *)
(* its buffer, who has got the whole of a message or lost the connection   *)
(* is told so, once. A websocket server's handler is not told of the end   *)
(* when the server itself ends the connection, on a payload too large or   *)
(* an unknown opcode (websocket.lua:226, 273).                             *)
EndsTold ==
    /\ (mode = "cluster" => CW!AllTold)
    /\ (mode = "seri" => SE!CutOff)
    /\ (mode = "http" => HM!NotStuck)
    /\ (mode = "websocket" => WS!EndToldOnce /\ WS!SocketsPooled)
    /\ (mode = "mongo" => MQ!WithinCap)
    /\ (mode = "mongoreply" => MR!WithinCap)
    /\ (mode = "sproto" => SP!EncodeWithin /\ SP!PrefixFails)
    /\ (mode = "pack" => SP!PackFits)

(* The assertion in suspend_sleep, token duplicative: a coroutine waits    *)
(* with a token nobody sleeps with.                                        *)
TokenOwn ==
    mode = "token" => CX!TokenOwn
=============================================================================
