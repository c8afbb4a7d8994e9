------------------------------- MODULE MCCore -------------------------------
(***************************************************************************)
(* The shared tables of the runtime, one small instance at a time. The     *)
(* handle registry, which the module extends: a table that is doubled      *)
(* while services come and go; further instances have a name table that    *)
(* grows, and handles that run out and begin again. The socket server: two *)
(* workers and one slot used by one connection after another; two workers  *)
(* that only send to one connection; and every way of making a socket,     *)
(* with a poller that may refuse. The timer wheel: every delay at every    *)
(* moment of a small wheel. The message core with services that are        *)
(* created. mode names the instance of a behaviour; the variables v1, v2,  *)
(* ... are those of its component, in the order of the component's         *)
(* declaration, and the registry rests while another component runs.       *)
(***************************************************************************)
EXTENDS HandleRegistry, TLC

CONSTANTS w1, w2,  \* two workers, interchangeable
          s1, s2   \* two of the services

VARIABLES mode, v1, v2, v3, v4, v5, v6, v7, v8, v9, v10, v11, v12, v13, v14,
          v15, v16, v17, v18, v19, v20

S == INSTANCE SocketServer WITH sock <- v1, net <- v2, allocId <- v3,
        pipe <- v4, batch <- v5, needCheck <- v6, thr <- v7, loc <- v8,
        sent <- v9, wire <- v10, late <- v11, known <- v12, opened <- v13,
        closes <- v14, calls <- v15, fault <- v16, Worker <- {w1, w2},
        MaxSocket <- 1, MsgSize <- 2, WarningSize <- 3,
        Creates <- {"connect"}, Established <- TRUE, Orders <- {"K"},
        Nets <- {"rst"}, PollOk <- {TRUE}, MaxId <- 2, MaxCalls <- 4,
        MaxSend <- 2

B == INSTANCE SocketServer WITH sock <- v1, net <- v2, allocId <- v3,
        pipe <- v4, batch <- v5, needCheck <- v6, thr <- v7, loc <- v8,
        sent <- v9, wire <- v10, late <- v11, known <- v12, opened <- v13,
        closes <- v14, calls <- v15, fault <- v16, Worker <- {w1, w2},
        MaxSocket <- 1, MsgSize <- 2, WarningSize <- 3, Creates <- {},
        Established <- TRUE, Orders <- {}, Nets <- {}, PollOk <- {TRUE},
        MaxId <- 1, MaxCalls <- 3, MaxSend <- 3

K == INSTANCE SocketServer WITH sock <- v1, net <- v2, allocId <- v3,
        pipe <- v4, batch <- v5, needCheck <- v6, thr <- v7, loc <- v8,
        sent <- v9, wire <- v10, late <- v11, known <- v12, opened <- v13,
        closes <- v14, calls <- v15, fault <- v16, Worker <- {"w"},
        MaxSocket <- 2, MsgSize <- 2, WarningSize <- 3,
        Creates <- {"connect", "listen"}, Established <- FALSE,
        Orders <- {"R", "S", "K", "shutdown"}, Nets <- {"data", "fin", "rst"},
        PollOk <- BOOLEAN, MaxId <- 2, MaxCalls <- 3, MaxSend <- 2

U == INSTANCE SocketServer WITH sock <- v1, net <- v2, allocId <- v3,
        pipe <- v4, batch <- v5, needCheck <- v6, thr <- v7, loc <- v8,
        sent <- v9, wire <- v10, late <- v11, known <- v12, opened <- v13,
        closes <- v14, calls <- v15, fault <- v16, Worker <- {"w"},
        MaxSocket <- 2, MsgSize <- 2, WarningSize <- 3,
        Creates <- {"bind", "udp"}, Established <- FALSE,
        Orders <- {"R", "S", "K", "shutdown"}, Nets <- {"data", "fin", "rst"},
        PollOk <- BOOLEAN, MaxId <- 2, MaxCalls <- 3, MaxSend <- 2

N == INSTANCE HandleRegistry WITH size <- v1, slot <- v2, handle <- v3,
        seed <- v4, names <- v5, cap <- v6, writer <- v7, pc <- v8, ctx <- v9,
        got <- v10, idx <- v11, cnt <- v12, old <- v13, answer <- v14,
        halt <- v15, Svc <- {s1, s2}, Creator <- {"c1"}, Peer <- {"p1"},
        Name <- {1, 2, 3}, Mask <- 3, DefaultSize <- 4, MaxSeed <- 2

W == INSTANCE HandleRegistry WITH size <- v1, slot <- v2, handle <- v3,
        seed <- v4, names <- v5, cap <- v6, writer <- v7, pc <- v8, ctx <- v9,
        got <- v10, idx <- v11, cnt <- v12, old <- v13, answer <- v14,
        halt <- v15, Svc <- {s1, s2}, Creator <- {"c1"}, Peer <- {"p1"},
        Name <- {1}, Mask <- 3, DefaultSize <- 4, MaxSeed <- 4

A == INSTANCE TimerWheel WITH near <- v1, t <- v2, time <- v3, current <- v4,
        owed <- v5, pc <- v6, firing <- v7, inbox <- v8, NearShift <- 1,
        LevelShift <- 1, Levels <- 3, Event <- {"e1", "e2"}, MaxDelay <- 7,
        MaxJump <- 2, FirstTick <- 3

D == INSTANCE Dispatch WITH global <- v1, slot <- v2, ref <- v3, ctx <- v4,
        que <- v5, inGlobal <- v6, isRelease <- v7, msgs <- v8,
        svcCount <- v9, pc <- v10, q <- v11, nextq <- v12, dctx <- v13,
        i <- v14, n <- v15, cctx <- v16, sub <- v17, sctx <- v18, smsg <- v19,
        sent <- v20, Svc <- {"s1", "s2"}, Boot <- {"s1"},
        Worker <- {"d1", "d2"}, Other <- {},
        Weight <- ("d1" :> -1) @@ ("d2" :> 0), MaxMsg <- 1, MayFail <- {}

MCVars == <<mode, vars, v1, v2, v3, v4, v5, v6, v7, v8, v9, v10, v11, v12,
           v13, v14, v15, v16, v17, v18, v19, v20>>

MCInit ==
    \/ mode = "shared" /\ S!Init /\ Init
       /\ v17 = 0 /\ v18 = 0 /\ v19 = 0 /\ v20 = 0
    \/ mode = "busy" /\ B!Init /\ Init
       /\ v17 = 0 /\ v18 = 0 /\ v19 = 0 /\ v20 = 0
    \/ mode = "kinds" /\ K!Init /\ Init
       /\ v17 = 0 /\ v18 = 0 /\ v19 = 0 /\ v20 = 0
    \/ mode = "others" /\ U!Init /\ Init
       /\ v17 = 0 /\ v18 = 0 /\ v19 = 0 /\ v20 = 0
    \/ mode = "grow" /\ Init
       /\ v1 = 0 /\ v2 = 0 /\ v3 = 0 /\ v4 = 0 /\ v5 = 0 /\ v6 = 0 /\
          v7 = 0 /\ v8 = 0 /\ v9 = 0 /\ v10 = 0 /\ v11 = 0 /\ v12 = 0 /\
          v13 = 0 /\ v14 = 0 /\ v15 = 0 /\ v16 = 0 /\ v17 = 0 /\ v18 = 0 /\
          v19 = 0 /\ v20 = 0
    \/ mode = "names" /\ N!Init /\ Init
       /\ v16 = 0 /\ v17 = 0 /\ v18 = 0 /\ v19 = 0 /\ v20 = 0
    \/ mode = "wrap" /\ W!Init /\ Init
       /\ v16 = 0 /\ v17 = 0 /\ v18 = 0 /\ v19 = 0 /\ v20 = 0
    \/ mode = "timer" /\ A!Init /\ Init
       /\ v9 = 0 /\ v10 = 0 /\ v11 = 0 /\ v12 = 0 /\ v13 = 0 /\ v14 = 0 /\
          v15 = 0 /\ v16 = 0 /\ v17 = 0 /\ v18 = 0 /\ v19 = 0 /\ v20 = 0
    \/ mode = "created" /\ D!Init /\ Init

MCNext ==
    \/ mode = "shared" /\ S!Next /\ UNCHANGED <<mode, vars, v17, v18, v19, v20>>
    \/ mode = "busy" /\ B!Next /\ UNCHANGED <<mode, vars, v17, v18, v19, v20>>
    \/ mode = "kinds" /\ K!Next /\ UNCHANGED <<mode, vars, v17, v18, v19, v20>>
    \/ mode = "others" /\ U!Next /\ UNCHANGED <<mode, vars, v17, v18, v19, v20>>
    \/ mode = "grow" /\ Next
       /\ UNCHANGED <<mode, v1, v2, v3, v4, v5, v6, v7, v8, v9, v10, v11, v12,
          v13, v14, v15, v16, v17, v18, v19, v20>>
    \/ mode = "names" /\ N!Next
       /\ UNCHANGED <<mode, vars, v16, v17, v18, v19, v20>>
    \/ mode = "wrap" /\ W!Next
       /\ UNCHANGED <<mode, vars, v16, v17, v18, v19, v20>>
    \/ mode = "timer" /\ A!Next
       /\ UNCHANGED <<mode, vars, v9, v10, v11, v12, v13, v14, v15, v16, v17,
          v18, v19, v20>>
    \/ mode = "created" /\ D!Next /\ UNCHANGED <<mode, vars>>

MCSpec == MCInit /\ [][MCNext]_MCVars

Symmetry == Permutations({w1, w2})

-----------------------------------------------------------------------------
(* socket_server: a message is on the wire whole, not mixed with another   *)
(* one, and the messages of one sender get out in the order in which they  *)
(* were sent.                                                              *)
WireWhole ==
    /\ (mode = "shared" => S!WireWhole /\ S!WireOrder)
    /\ (mode = "busy" => B!WireWhole /\ B!WireOrder)
    /\ (mode = "kinds" => K!WireWhole /\ K!WireOrder)
    /\ (mode = "others" => U!WireWhole /\ U!WireOrder)

(* socket_server: nothing is read from a connection after its CLOSE, and   *)
(* no assertion fails before a slot is given to a second connection.       *)
SocketSound ==
    /\ (mode = "shared" => S!TypeOK /\ S!NoFault /\ S!NoDataAfterClose)
    /\ (mode = "busy" => B!TypeOK /\ B!NoFault /\ B!NoDataAfterClose)
    /\ (mode = "kinds" => K!TypeOK /\ K!NoFault /\ K!NoDataAfterClose)
    /\ (mode = "others" => U!TypeOK /\ U!NoFault /\ U!NoDataAfterClose)

(* create_service: the queue of a new service, which is flagged as listed  *)
(* long before it is, is not lost whatever is sent to the service or kills *)
(* it meanwhile.                                                           *)
CreatedFound ==
    mode = "created" => D!NoStranding

(* timer: what is left in the wheel when timer_update starts is not due    *)
(* yet, and now_ticks is ahead of the wheel by exactly what update_time    *)
(* still owes.                                                             *)
NothingOverdue ==
    mode = "timer" => A!TypeOK /\ A!NothingOverdue /\ A!NowIsAhead

(* service_manager: the hash table, its growth and the bisection answer    *)
(* like the maps of module Registry: handles are unique, grab finds a      *)
(* service under its handle and only there, a name is found until its      *)
(* service is unregistered. The names stay sorted, and growing meets no    *)
(* null pointer when one thread creates services.                          *)
ImplementsRegistry ==
    /\ (mode = "grow" => StartsAsRegistry)
    /\ (mode = "names" => N!StartsAsRegistry)
    /\ (mode = "wrap" => W!StartsAsRegistry)
    /\ [][mode = "grow" => StepsLikeRegistry]_MCVars
    /\ [][mode = "names" => N!StepsLikeRegistry]_MCVars
    /\ [][mode = "wrap" => W!StepsLikeRegistry]_MCVars
    /\ [](mode = "grow" => TypeOK /\ NoFault /\ NamesSorted)
    /\ [](mode = "names" => N!TypeOK /\ N!NamesSorted)
    /\ [](mode = "wrap" => W!TypeOK /\ W!NamesSorted)

(* timer: the wheel implements the alarms of module Alarms: every timeout  *)
(* fires at its tick, once, in the order of the calls.                     *)
ImplementsAlarms ==
    /\ (mode = "timer" => A!StartsAsAlarms)
    /\ [][mode = "timer" => A!StepsLikeAlarms]_MCVars
=============================================================================
