----------------------------- MODULE MCNetwork ------------------------------
(***************************************************************************)
(* A Lua service and its network libraries, one small instance at a time:  *)
(* the coroutines of skynet.lua, whose module it extends (further          *)
(* instances have more of requests and answers, of sleepers and of the     *)
(* critical section), the gates with their package filters, the Lua socket *)
(* library (reading, closing, locking, accepting, datagrams) and the       *)
(* socket channel (by order with a backup host, by session, with           *)
(* authentication; by order with changed hosts and closes, and with        *)
(* authentication). mode names the instance of a behaviour; the variables  *)
(* v1, v2, ... are those of its component, in the order of the component's *)
(* declaration, and the Lua service rests while another component runs.    *)
(***************************************************************************)
EXTENDS LuaService

VARIABLES mode, v1, v2, v3, v4, v5, v6, v7, v8, v9, v10, v11, v12, v13, v14

WsFrames == <<[data |-> <<1, 0>>, mask |-> <<0, 1>>], [data |-> <<>>, mask |-> "fragment"],
              [data |-> <<0, 1, 1, 0>>, mask |-> <<>>]>>

GT == INSTANCE Gate WITH net <- v1, rest <- v2, connection <- v3,
        client_number <- v4, queue <- v5, uc <- v6, peer <- v7, pc <- v8,
        forks <- v9, blocked <- v10, seen <- v11, told <- v12, orders <- v13,
        HeaderSize <- 2, Base <- 4, SmallString <- 99, QueueSize <- 2,
        Fd <- {1, 2}, Lengths <- <<2, 0, 1>>, Agent <- {"a"}, MaxClient <- 1,
        MaxOrders <- 2, MaxBlock <- 1

GW == INSTANCE GateWs WITH net <- v1, rest <- v2, connection <- v3,
        client_number <- v4, queue <- v5, uc <- v6, looping <- v7, seen <- v8,
        answered <- v9, orders <- v10, HeaderSize <- 2, Base <- 4,
        SmallString <- 99, QueueSize <- 1, Fd <- {1, 2}, MaskLen <- 2,
        MaxPackSize <- 3, MaxPack <- 3, Frames <- WsFrames, MaxClient <- 1,
        MaxOrders <- 1

SR == INSTANCE LuaSocket WITH pool <- v1, obj <- v2, pc <- v3, ready <- v4,
        running <- v5, mq <- v6, cmds <- v7, srv <- v8, sent <- v9,
        got <- v10, lost <- v11, child <- v12, calls <- v13, failed <- v14,
        Kind <- "client",
        ReaderOps <- {"open", "read", "line", "all", "block"}, OtherOps <- {},
        MaxOps <- 4, Stream <- <<0, 1, 0, 1>>, Sizes <- {0, 2},
        LARGE_PAGE_NODE <- 4, BUFFER_LIMIT <- 2, BufferLimit <- 3,
        Sep <- <<1, 0>>, MaxBlock <- 2, MaxAccept <- 2

SC == INSTANCE LuaSocket WITH pool <- v1, obj <- v2, pc <- v3, ready <- v4,
        running <- v5, mq <- v6, cmds <- v7, srv <- v8, sent <- v9,
        got <- v10, lost <- v11, child <- v12, calls <- v13, failed <- v14,
        Kind <- "accepted", ReaderOps <- {"open", "read", "close"},
        OtherOps <- {"close", "abandon", "shutdown", "limit"}, MaxOps <- 4,
        Stream <- <<0, 1, 0>>, Sizes <- {0}, LARGE_PAGE_NODE <- 4,
        BUFFER_LIMIT <- 2, BufferLimit <- 1, Sep <- <<1, 0>>, MaxBlock <- 2,
        MaxAccept <- 2

SL == INSTANCE LuaSocket WITH pool <- v1, obj <- v2, pc <- v3, ready <- v4,
        running <- v5, mq <- v6, cmds <- v7, srv <- v8, sent <- v9,
        got <- v10, lost <- v11, child <- v12, calls <- v13, failed <- v14,
        Kind <- "accepted",
        ReaderOps <- {"open", "pause", "lock", "unlock", "close"},
        OtherOps <- {"lock", "unlock", "close"}, MaxOps <- 6, Stream <- <<>>,
        Sizes <- {0}, LARGE_PAGE_NODE <- 4, BUFFER_LIMIT <- 2,
        BufferLimit <- 3, Sep <- <<1, 0>>, MaxBlock <- 2, MaxAccept <- 2

SA == INSTANCE LuaSocket WITH pool <- v1, obj <- v2, pc <- v3, ready <- v4,
        running <- v5, mq <- v6, cmds <- v7, srv <- v8, sent <- v9,
        got <- v10, lost <- v11, child <- v12, calls <- v13, failed <- v14,
        Kind <- "listen", ReaderOps <- {"open", "close"},
        OtherOps <- {"close"}, MaxOps <- 3, Stream <- <<>>, Sizes <- {0},
        LARGE_PAGE_NODE <- 4, BUFFER_LIMIT <- 2, BufferLimit <- 3,
        Sep <- <<1, 0>>, MaxBlock <- 2, MaxAccept <- 2

SU == INSTANCE LuaSocket WITH pool <- v1, obj <- v2, pc <- v3, ready <- v4,
        running <- v5, mq <- v6, cmds <- v7, srv <- v8, sent <- v9,
        got <- v10, lost <- v11, child <- v12, calls <- v13, failed <- v14,
        Kind <- "udp", ReaderOps <- {"open", "close"}, OtherOps <- {"close"},
        MaxOps <- 3, Stream <- <<0, 1>>, Sizes <- {0}, LARGE_PAGE_NODE <- 4,
        BUFFER_LIMIT <- 2, BufferLimit <- 3, Sep <- <<1, 0>>, MaxBlock <- 2,
        MaxAccept <- 2

CO == INSTANCE SocketChannel WITH ch <- v1, mq <- v2, peer <- v3, asked <- v4,
        calls <- v5, Order <- TRUE, AuthRequests <- 0, Backups <- 1,
        Client <- {"c1", "c2"}, Ops <- {"request"}, MaxFd <- 3, MaxCalls <- 3

CS == INSTANCE SocketChannel WITH ch <- v1, mq <- v2, peer <- v3, asked <- v4,
        calls <- v5, Order <- FALSE, AuthRequests <- 0, Backups <- 0,
        Client <- {"c1", "c2"},
        Ops <- {"request", "changehost", "close", "connect"}, MaxFd <- 3,
        MaxCalls <- 3

CA == INSTANCE SocketChannel WITH ch <- v1, mq <- v2, peer <- v3, asked <- v4,
        calls <- v5, Order <- FALSE, AuthRequests <- 2, Backups <- 0,
        Client <- {"c1", "c2"}, Ops <- {"request"}, MaxFd <- 2, MaxCalls <- 3

CE == INSTANCE SocketChannel WITH ch <- v1, mq <- v2, peer <- v3, asked <- v4,
        calls <- v5, Order <- TRUE, AuthRequests <- 0, Backups <- 0,
        Client <- {"c1", "c2", "c3"},
        Ops <- {"request", "changehost", "close", "connect"}, MaxFd <- 3,
        MaxCalls <- 3

CB == INSTANCE SocketChannel WITH ch <- v1, mq <- v2, peer <- v3, asked <- v4,
        calls <- v5, Order <- TRUE, AuthRequests <- 1, Backups <- 0,
        Client <- {"c1", "c2"}, Ops <- {"request", "close"}, MaxFd <- 3,
        MaxCalls <- 3

LR == INSTANCE LuaService WITH run <- v1, at <- v2, tab <- v3, session <- v4,
        timers <- v5, owed <- v6, down <- v7, from <- v8, answers <- v9,
        section <- v10, forgot <- v11, told <- v12, exited <- v13,
        twice <- v14, Peer <- {7},
        Ops <- {"call", "ret", "response", "term", "fail", "exit"},
        MaxThread <- 3, MaxSession <- 3, MaxRequest <- 2, MaxWake <- 0

LS == INSTANCE LuaService WITH run <- v1, at <- v2, tab <- v3, session <- v4,
        timers <- v5, owed <- v6, down <- v7, from <- v8, answers <- v9,
        section <- v10, forgot <- v11, told <- v12, exited <- v13,
        twice <- v14, Peer <- {7},
        Ops <- {"sleep", "wait", "wakeup", "fork", "fail", "timeout"},
        MaxThread <- 3, MaxSession <- 3, MaxRequest <- 1, MaxWake <- 2

LQ == INSTANCE LuaService WITH run <- v1, at <- v2, tab <- v3, session <- v4,
        timers <- v5, owed <- v6, down <- v7, from <- v8, answers <- v9,
        section <- v10, forgot <- v11, told <- v12, exited <- v13,
        twice <- v14, Peer <- {7},
        Ops <- {"sleep", "fork", "queue", "wakeup"}, MaxThread <- 3,
        MaxSession <- 3, MaxRequest <- 1, MaxWake <- 2

MCVars == <<mode, vars, v1, v2, v3, v4, v5, v6, v7, v8, v9, v10, v11, v12,
           v13, v14>>

MCInit ==
    \/ mode = "lua" /\ Init
       /\ v1 = 0 /\ v2 = 0 /\ v3 = 0 /\ v4 = 0 /\ v5 = 0 /\ v6 = 0 /\
          v7 = 0 /\ v8 = 0 /\ v9 = 0 /\ v10 = 0 /\ v11 = 0 /\ v12 = 0 /\
          v13 = 0 /\ v14 = 0
    \/ mode = "gate" /\ GT!Init /\ Init
       /\ v14 = 0
    \/ mode = "gate_ws" /\ GW!Init /\ Init
       /\ v11 = 0 /\ v12 = 0 /\ v13 = 0 /\ v14 = 0
    \/ mode = "reads" /\ SR!Init /\ Init
    \/ mode = "closes" /\ SC!Init /\ Init
    \/ mode = "locks" /\ SL!Init /\ Init
    \/ mode = "accepts" /\ SA!Init /\ Init
    \/ mode = "udp" /\ SU!Init /\ Init
    \/ mode = "order" /\ CO!Init /\ Init
       /\ v6 = 0 /\ v7 = 0 /\ v8 = 0 /\ v9 = 0 /\ v10 = 0 /\ v11 = 0 /\
          v12 = 0 /\ v13 = 0 /\ v14 = 0
    \/ mode = "session" /\ CS!Init /\ Init
       /\ v6 = 0 /\ v7 = 0 /\ v8 = 0 /\ v9 = 0 /\ v10 = 0 /\ v11 = 0 /\
          v12 = 0 /\ v13 = 0 /\ v14 = 0
    \/ mode = "auth" /\ CA!Init /\ Init
       /\ v6 = 0 /\ v7 = 0 /\ v8 = 0 /\ v9 = 0 /\ v10 = 0 /\ v11 = 0 /\
          v12 = 0 /\ v13 = 0 /\ v14 = 0
    \/ mode = "ordered_ends" /\ CE!Init /\ Init
       /\ v6 = 0 /\ v7 = 0 /\ v8 = 0 /\ v9 = 0 /\ v10 = 0 /\ v11 = 0 /\
          v12 = 0 /\ v13 = 0 /\ v14 = 0
    \/ mode = "ordered_auth" /\ CB!Init /\ Init
       /\ v6 = 0 /\ v7 = 0 /\ v8 = 0 /\ v9 = 0 /\ v10 = 0 /\ v11 = 0 /\
          v12 = 0 /\ v13 = 0 /\ v14 = 0
    \/ mode = "requests" /\ LR!Init /\ Init
    \/ mode = "sleepers" /\ LS!Init /\ Init
    \/ mode = "section" /\ LQ!Init /\ Init

MCNext ==
    \/ mode = "lua" /\ Next
       /\ UNCHANGED <<mode, v1, v2, v3, v4, v5, v6, v7, v8, v9, v10, v11, v12,
          v13, v14>>
    \/ mode = "gate" /\ GT!Next /\ UNCHANGED <<mode, vars, v14>>
    \/ mode = "gate_ws" /\ GW!Next
       /\ UNCHANGED <<mode, vars, v11, v12, v13, v14>>
    \/ mode = "reads" /\ SR!Next /\ UNCHANGED <<mode, vars>>
    \/ mode = "closes" /\ SC!Next /\ UNCHANGED <<mode, vars>>
    \/ mode = "locks" /\ SL!Next /\ UNCHANGED <<mode, vars>>
    \/ mode = "accepts" /\ SA!Next /\ UNCHANGED <<mode, vars>>
    \/ mode = "udp" /\ SU!Next /\ UNCHANGED <<mode, vars>>
    \/ mode = "order" /\ CO!Next
       /\ UNCHANGED <<mode, vars, v6, v7, v8, v9, v10, v11, v12, v13, v14>>
    \/ mode = "session" /\ CS!Next
       /\ UNCHANGED <<mode, vars, v6, v7, v8, v9, v10, v11, v12, v13, v14>>
    \/ mode = "auth" /\ CA!Next
       /\ UNCHANGED <<mode, vars, v6, v7, v8, v9, v10, v11, v12, v13, v14>>
    \/ mode = "ordered_ends" /\ CE!Next
       /\ UNCHANGED <<mode, vars, v6, v7, v8, v9, v10, v11, v12, v13, v14>>
    \/ mode = "ordered_auth" /\ CB!Next
       /\ UNCHANGED <<mode, vars, v6, v7, v8, v9, v10, v11, v12, v13, v14>>
    \/ mode = "requests" /\ LR!Next /\ UNCHANGED <<mode, vars>>
    \/ mode = "sleepers" /\ LS!Next /\ UNCHANGED <<mode, vars>>
    \/ mode = "section" /\ LQ!Next /\ UNCHANGED <<mode, vars>>

MCSpec == MCInit /\ [][MCNext]_MCVars

-----------------------------------------------------------------------------
(* Who waits, waits for something that can still happen. A package is not  *)
(* left in the gate's queue; a reader of a Lua socket has not missed its   *)
(* bytes, a socket that is read is not left paused, and socket.close ends; *)
(* a request of a socket channel waits for a response that can come or for *)
(* somebody who connects, and no connection but the channel's own stays    *)
(* open; a coroutine of a Lua service is found by its event, a request by  *)
(* its coroutine, and nobody woken still sleeps when a message is done.    *)
(* The code has four exceptions, which the conjuncts leave out by name: on *)
(* a Lua socket who comes between the end of a close and its coroutine's   *)
(* turn, or waits for it to start when it is closed (socket.lua:223), and  *)
(* socket.read_all of more than BUFFER_LIMIT; on an order channel every    *)
(* request after a dispatch coroutine that left something in the queue     *)
(* (socket_channel.lua:179), and everybody when the auth function has lost *)
(* the connection and waits for itself (socket_channel.lua:422).           *)
NobodyStranded ==
    /\ (mode = "gate" => GT!TypeOK /\ GT!HandledAll /\ GT!SameClients)
    /\ (mode = "reads" =>
          SR!TypeOK /\ SR!NoLostWakeup /\ SR!CloseEnds /\
          SR!NotPausedForEver /\ SR!NoAssertion)
    /\ (mode = "closes" =>
          SC!TypeOK /\ SC!NoLostWakeup /\ SC!CloseEnds /\
          SC!NotPausedForEver /\ SC!NoAssertion)
    /\ (mode = "locks" =>
          SL!TypeOK /\ SL!NoLostWakeup /\ SL!CloseEnds /\
          SL!NotPausedForEver /\ SL!NoAssertion)
    /\ (mode = "accepts" =>
          SA!TypeOK /\ SA!NoLostWakeup /\ SA!CloseEnds /\
          SA!NotPausedForEver /\ SA!NoAssertion)
    /\ (mode = "udp" =>
          SU!TypeOK /\ SU!NoLostWakeup /\ SU!CloseEnds /\
          SU!NotPausedForEver /\ SU!NoAssertion)
    /\ (mode = "order" =>
          CO!TypeOK /\ CO!NoneStranded /\ CO!ConnectorAtWork /\ CO!NoLeak)
    /\ (mode = "session" =>
          CS!TypeOK /\ CS!NoneStranded /\ CS!ConnectorAtWork /\ CS!NoLeak)
    /\ (mode = "auth" =>
          CA!TypeOK /\ CA!NoneStranded /\ CA!ConnectorAtWork /\ CA!NoLeak)
    /\ (mode = "ordered_ends" =>
          CE!TypeOK /\ CE!NoneStranded /\ CE!ConnectorAtWork /\ CE!NoLeak)
    /\ (mode = "ordered_auth" =>
          CB!TypeOK /\ CB!NoneStranded /\ CB!ConnectorAtWork /\ CB!NoLeak)
    /\ (mode = "requests" =>
          LR!TypeOK /\ LR!WaitsOnce /\ LR!RequestKept /\ LR!Drained)
    /\ (mode = "sleepers" =>
          LS!TypeOK /\ LS!WaitsOnce /\ LS!RequestKept /\ LS!Drained)
    /\ (mode = "section" =>
          LQ!TypeOK /\ LQ!WaitsOnce /\ LQ!RequestKept /\ LQ!Drained)
    /\ (mode = "section" => LQ!SectionHeld /\ LQ!Mutex)
    /\ (mode = "lua" => TypeOK /\ Drained)

(* What arrives is handed on whole, once and in order: packages to the     *)
(* agent of a client while it is connected, frames of a websocket, bytes   *)
(* of a Lua socket that is in the pool, the lock of a socket and accepted  *)
(* connections to who asked first, and to each request of a channel its    *)
(* own response, on an order channel as long as no dispatch coroutine      *)
(* ended and left something in its queue (socket_channel.lua:179).         *)
BytesInOrder ==
    /\ [](mode = "gate" => GT!InOrder)
    /\ [][mode = "gate" => GT!HandedOn]_MCVars
    /\ [](mode = "gate_ws" =>
          GW!TypeOK /\ GW!FramesInOrder /\ GW!CountsClients)
    /\ [](mode = "reads" => SR!BytesInOrder)
    /\ [](mode = "closes" => SC!BytesInOrder)
    /\ [](mode = "locks" => SL!BytesInOrder /\ SL!LockHeld)
    /\ [](mode = "accepts" => SA!BytesInOrder /\ SA!NoOrphan)
    /\ [](mode = "udp" => SU!BytesInOrder)
    /\ [](mode = "order" => CO!AnswersMatch)
    /\ [](mode = "session" => CS!AnswersMatch)
    /\ [](mode = "auth" => CA!AnswersMatch)
    /\ [](mode = "ordered_ends" => CE!AnswersMatch)
    /\ [](mode = "ordered_auth" => CB!AnswersMatch)
    /\ [](mode = "requests" => LR!AnsweredOnce)
=============================================================================
