------------------------------- MODULE MCLive -------------------------------
(***************************************************************************)
(* What the runtime must do in the end, one small instance at a time: the  *)
(* threads of the node, whose module it extends, the message queues under  *)
(* two workers, the monitor of a worker, the timer wheel, one connection   *)
(* of the socket server, and the calls of a Lua service. mode names the    *)
(* instance of a behaviour; the variables v1, v2, ... are those of its     *)
(* component, in the order of the component's declaration, and the threads *)
(* of the node rest while another component runs.                          *)
(***************************************************************************)
EXTENDS NodeThreads, Sequences, TLC

VARIABLES mode, v1, v2, v3, v4, v5, v6, v7, v8, v9, v10, v11, v12, v13, v14,
          v15, v16, v17, v18, v19, v20

D == INSTANCE Dispatch WITH global <- v1, slot <- v2, ref <- v3, ctx <- v4,
        que <- v5, inGlobal <- v6, isRelease <- v7, msgs <- v8,
        svcCount <- v9, pc <- v10, q <- v11, nextq <- v12, dctx <- v13,
        i <- v14, n <- v15, cctx <- v16, sub <- v17, sctx <- v18, smsg <- v19,
        sent <- v20, Svc <- {"s1", "s2"}, Boot <- {"s1"},
        Worker <- {"w1", "w2"}, Other <- {},
        Weight <- ("w1" :> -1) @@ ("w2" :> 0), MaxMsg <- 2, MayFail <- {},
        None <- "none"

M == INSTANCE ServiceMonitor WITH last <- v1, check <- v2, dst <- v3,
        self <- v4, wpc <- v5, mpc <- v6, live <- v7, blocked <- v8,
        answer <- v9, touched <- v10, Svc <- {"s1", "s2"}, MaxVersion <- 4,
        None <- "none"

A == INSTANCE TimerWheel WITH near <- v1, t <- v2, time <- v3, current <- v4,
        owed <- v5, pc <- v6, firing <- v7, inbox <- v8, NearShift <- 1,
        LevelShift <- 1, Levels <- 2, Event <- {"e1", "e2"}, MaxDelay <- 3,
        MaxJump <- 2, FirstTick <- 3

S == INSTANCE SocketServer WITH sock <- v1, net <- v2, allocId <- v3,
        pipe <- v4, batch <- v5, needCheck <- v6, thr <- v7, loc <- v8,
        sent <- v9, wire <- v10, late <- v11, known <- v12, opened <- v13,
        closes <- v14, calls <- v15, fault <- v16, Worker <- {"w1"},
        MaxSocket <- 1, MsgSize <- 2, WarningSize <- 3, Creates <- {},
        Established <- TRUE, Orders <- {"K"}, Nets <- {"rst"},
        PollOk <- {TRUE}, MaxId <- 1, MaxCalls <- 3, MaxSend <- 2

L == INSTANCE LuaService WITH run <- v1, at <- v2, tab <- v3, session <- v4,
        timers <- v5, owed <- v6, down <- v7, from <- v8, answers <- v9,
        section <- v10, forgot <- v11, told <- v12, exited <- v13,
        twice <- v14, Peer <- {7}, Ops <- {"call", "ret", "response", "fail"},
        MaxThread <- 3, MaxSession <- 2, MaxRequest <- 2, MaxWake <- 0

MCVars == <<mode, vars, v1, v2, v3, v4, v5, v6, v7, v8, v9, v10, v11, v12,
           v13, v14, v15, v16, v17, v18, v19, v20>>

\* The threads of the node while another component runs.
Resting == Init /\ work = 1

MCInit ==
    \/ mode = "dispatch" /\ D!Init /\ Resting
    \/ mode = "threads" /\ Init
       /\ v1 = 0 /\ v2 = 0 /\ v3 = 0 /\ v4 = 0 /\ v5 = 0 /\ v6 = 0 /\
          v7 = 0 /\ v8 = 0 /\ v9 = 0 /\ v10 = 0 /\ v11 = 0 /\ v12 = 0 /\
          v13 = 0 /\ v14 = 0 /\ v15 = 0 /\ v16 = 0 /\ v17 = 0 /\ v18 = 0 /\
          v19 = 0 /\ v20 = 0
    \/ mode = "monitor" /\ M!Init /\ Resting
       /\ v11 = 0 /\ v12 = 0 /\ v13 = 0 /\ v14 = 0 /\ v15 = 0 /\ v16 = 0 /\
          v17 = 0 /\ v18 = 0 /\ v19 = 0 /\ v20 = 0
    \/ mode = "timer" /\ A!Init /\ Resting
       /\ v9 = 0 /\ v10 = 0 /\ v11 = 0 /\ v12 = 0 /\ v13 = 0 /\ v14 = 0 /\
          v15 = 0 /\ v16 = 0 /\ v17 = 0 /\ v18 = 0 /\ v19 = 0 /\ v20 = 0
    \/ mode = "sockets" /\ S!Init /\ Resting
       /\ v17 = 0 /\ v18 = 0 /\ v19 = 0 /\ v20 = 0
    \/ mode = "lua" /\ L!Init /\ Resting
       /\ v15 = 0 /\ v16 = 0 /\ v17 = 0 /\ v18 = 0 /\ v19 = 0 /\ v20 = 0

MCNext ==
    \/ mode = "dispatch" /\ D!Next /\ UNCHANGED <<mode, vars>>
    \/ mode = "threads" /\ Next
       /\ UNCHANGED <<mode, v1, v2, v3, v4, v5, v6, v7, v8, v9, v10, v11, v12,
          v13, v14, v15, v16, v17, v18, v19, v20>>
    \/ mode = "monitor" /\ M!Next
       /\ UNCHANGED <<mode, vars, v11, v12, v13, v14, v15, v16, v17, v18, v19,
          v20>>
    \/ mode = "timer" /\ A!Next
       /\ UNCHANGED <<mode, vars, v9, v10, v11, v12, v13, v14, v15, v16, v17,
          v18, v19, v20>>
    \/ mode = "sockets" /\ S!Next
       /\ UNCHANGED <<mode, vars, v17, v18, v19, v20>>
    \/ mode = "lua" /\ L!Next
       /\ UNCHANGED <<mode, vars, v15, v16, v17, v18, v19, v20>>

\* A step of one component; the fairness is that of its specification.
In_dispatch(a) == mode = "dispatch" /\ a /\ UNCHANGED <<mode, vars>>
In_threads(a) == mode = "threads" /\ a /\ UNCHANGED <<mode, v1, v2, v3, v4,
        v5, v6, v7, v8, v9, v10, v11, v12, v13, v14, v15, v16, v17, v18, v19,
        v20>>
In_monitor(a) == mode = "monitor" /\ a /\ UNCHANGED <<mode, vars, v11, v12,
        v13, v14, v15, v16, v17, v18, v19, v20>>
In_timer(a) == mode = "timer" /\ a /\ UNCHANGED <<mode, vars, v9, v10, v11,
        v12, v13, v14, v15, v16, v17, v18, v19, v20>>
In_sockets(a) == mode = "sockets" /\ a /\ UNCHANGED <<mode, vars, v17, v18,
        v19, v20>>
In_lua(a) == mode = "lua" /\ a /\ UNCHANGED <<mode, vars, v15, v16, v17, v18,
        v19, v20>>

MCSpec ==
    /\ MCInit /\ [][MCNext]_MCVars
    /\ \A t \in {"w1", "w2"} : WF_MCVars(In_dispatch(D!SubStep(t)))
    /\ \A w \in {"w1", "w2"} : WF_MCVars(In_dispatch(D!DispatchStep(w)))
    /\ \A w \in {"w1", "w2"} : WF_MCVars(In_dispatch(D!CreateStep(w)))
    /\ \A w \in Worker : WF_MCVars(In_threads(WorkerStep(w)))
    /\ WF_MCVars(In_threads(TimerStep))
    /\ WF_MCVars(In_threads(SocketStep))
    /\ WF_MCVars(In_threads(MonitorCheck))
    /\ WF_MCVars(In_monitor(M!Count))
    /\ WF_MCVars(In_monitor(M!MonitorStep))
    /\ WF_MCVars(In_timer(A!TimerThread))
    /\ WF_MCVars(In_timer(\E diff \in 1 .. 2 : A!update_time(diff)))
    /\ WF_MCVars(In_sockets(S!Finish("w1")))
    /\ WF_MCVars(In_sockets(S!SocketThread))
    /\ SF_MCVars(In_sockets(S!WriteOut))
    /\ WF_MCVars(In_lua(L!Boot))
    /\ WF_MCVars(In_lua(L!Scheduler))
    /\ WF_MCVars(In_lua(L!Coroutine))
    /\ \A s \in 1 .. 2 : WF_MCVars(In_lua(L!Answered(s)))

-----------------------------------------------------------------------------
(* service_monitor: only a service that was running is marked as blocked.  *)
MarksTheBusy ==
    /\ [](mode = "monitor" => M!TypeOK)
    /\ [][mode = "monitor" => M!MarkedWasBusy]_MCVars

(* thread_worker: a queue that is listed while workers are on their way to *)
(* sleep is not left there, a worker gets hold of a queue sooner or later. *)
WorkIsTaken ==
    mode = "threads" /\ Listed ~> (mode = "threads" => Taken)

(* thread_worker, thread_timer, thread_monitor: they come to their end     *)
(* when the last service is gone.                                          *)
WorkersStop ==
    mode = "threads" /\ Ending ~> (mode = "threads" => Ended)

(* service_monitor: a service stuck in its callback is marked as blocked.  *)
StuckIsMarked ==
    <>[](mode = "monitor" /\ M!Stuck) => <>(mode = "monitor" /\ M!Marked)

(* What was given to the runtime gets through: dispatch_message drains     *)
(* every queue again and again, every timeout is delivered (the two are    *)
(* interchangeable), what a connection has accepted gets out.              *)
SentArrives ==
    /\ []<>(mode = "dispatch" => D!AllIdle)
    /\ mode = "timer" /\ A!Pending("e1") ~> (mode = "timer" => A!Arrived("e1"))
    /\ mode = "sockets" /\ S!SomeAccepted ~> (mode = "sockets" => S!AllSettled)

(* skynet.call: a call returns or fails, also when its destination goes    *)
(* down.                                                                   *)
CallReturns ==
    mode = "lua" /\ L!SomeCall ~> (mode = "lua" => L!AllReturned)

(* mq_private::mark_release, force_close: the queue of a deleted service   *)
(* is freed, and so is a connection closed with data waiting.              *)
GoneIsFreed ==
    /\ mode = "dispatch" /\ D!SomeReleased ~> (mode = "dispatch" => D!AllFreed)
    /\ mode = "sockets" /\ S!Lingers(0) ~> (mode = "sockets" => S!Gone(0))
=============================================================================
