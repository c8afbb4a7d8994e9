----------------------------- MODULE NodeThreads ----------------------------
(***************************************************************************)
(* The threads of the node (node_thread.cpp): how workers sleep and are    *)
(* woken, and how everything stops when no service is left.  Messages are  *)
(* those of Dispatch; here only the number of queues in mq_global counts.  *)
(*                                                                         *)
(* A section under monitor_data::mutex is one step, since none blocks      *)
(* inside but cond.wait, which gives the mutex up.  The counters that the  *)
(* timer and the socket thread read without it are read in a step of their *)
(* own, before the notify that depends on them.                            *)
(***************************************************************************)
EXTENDS Integers, FiniteSetTheorems, TLAPS

CONSTANTS Worker,  \* the worker threads
          Queues   \* the number of service queues

ASSUME ThreadAssumption == IsFiniteSet(Worker) /\ Queues \in Nat

VARIABLES work,    \* the queues in mq_global
          hand,    \* hand[w]: worker w has a queue
          running, \* svc_count_ is not 0
          asleep,  \* work_thread_sleep_count
          quit,    \* is_work_thread_quit
          pc,      \* the worker threads
          timer,   \* the timer thread
          socket,  \* the socket thread
          monitor, \* the monitor thread
          pipe     \* the commands that the socket thread has not read

vars == <<work, hand, running, asleep, quit, pc, timer, socket, monitor, pipe>>
queueVars == <<work, hand, running>>
otherVars == <<timer, socket, monitor, pipe>>

\* node_thread::start; the services of the boot have their queues listed.
Init ==
    /\ work \in 1 .. Queues
    /\ hand = [w \in Worker |-> FALSE]
    /\ running = TRUE
    /\ asleep = 0
    /\ quit = FALSE
    /\ pc = [w \in Worker |-> "loop"]
    /\ timer = "update" /\ socket = "poll" /\ monitor = "check"
    /\ pipe = {}

Hands == {w \in Worker : hand[w]}

\* A message for an idle service lists its queue, or there is none such.
Pushed(p) ==
    /\ p \in {0, 1}
    /\ p = 1 => running /\ work + Cardinality(Hands) < Queues
    /\ work' = work + p

Sleepers == {w \in Worker : pc[w] = "wait"}

\* cond.notify_one: a waiting thread wakes up, or nobody hears of it.
NotifyOne ==
    \/ Sleepers = {} /\ UNCHANGED pc
    \/ \E w \in Sleepers : pc' = [pc EXCEPT ![w] = "woken"]

-----------------------------------------------------------------------------
(***************************************************************************)
(* thread_worker.                                                          *)
(***************************************************************************)

\* Mutant of Loop: the flag is only looked at before a wait.
LoopForever(w) ==
    /\ pc[w] = "loop"
    /\ pc' = [pc EXCEPT ![w] = "dispatch"]
    /\ UNCHANGED <<queueVars, asleep, quit, otherVars>>

\* The loop's condition, read without the mutex.
Loop(w) ==
    /\ pc[w] = "loop"
    /\ pc' = [pc EXCEPT ![w] = IF quit THEN "gone" ELSE "dispatch"]
    /\ UNCHANGED <<queueVars, asleep, quit, otherVars>>

\* dispatch_message starts with the queue in hand or takes one; there may be
\* none.
Begin(w) ==
    /\ pc[w] = "dispatch"
    /\ \/ /\ ~ hand[w] /\ work = 0
          /\ pc' = [pc EXCEPT ![w] = "lock"]
          /\ UNCHANGED <<work, hand>>
       \/ /\ hand[w] \/ work > 0
          /\ work' = IF hand[w] THEN work ELSE work - 1
          /\ hand' = [hand EXCEPT ![w] = TRUE]
          /\ pc' = [pc EXCEPT ![w] = "callback"]
    /\ UNCHANGED <<running, asleep, quit, otherVars>>

\* The callback sends, which wakes nobody, or it takes the last service away.
Callback(w) ==
    /\ pc[w] = "callback"
    /\ \/ \E p \in {0, 1} : Pushed(p) /\ UNCHANGED running
       \/ running' = FALSE /\ UNCHANGED work
    /\ pc' = [pc EXCEPT ![w] = "end"]
    /\ UNCHANGED <<hand, asleep, quit, otherVars>>

\* The end of dispatch_message: the next queue of mq_global, if any; the old
\* one is put back unless it is empty, and kept if there is no other.
End(w) ==
    /\ pc[w] = "end"
    /\ \E left \in BOOLEAN :
          LET n == work + IF left THEN 1 ELSE 0 IN
          /\ work' = IF n = 0 THEN 0 ELSE n - 1
          /\ hand' = [hand EXCEPT ![w] = n > 0]
          /\ pc' = [pc EXCEPT ![w] = IF n > 0 THEN "loop" ELSE "lock"]
    /\ UNCHANGED <<running, asleep, quit, otherVars>>

\* Mutant of Sleep: the flag is not looked at again under the mutex.
SleepBlind(w) ==
    /\ pc[w] = "lock"
    /\ asleep' = asleep + 1
    /\ pc' = [pc EXCEPT ![w] = "wait"]
    /\ UNCHANGED <<queueVars, quit, otherVars>>

\* Under the mutex: wait, unless the node quits meanwhile.
Sleep(w) ==
    /\ pc[w] = "lock"
    /\ asleep' = IF quit THEN asleep ELSE asleep + 1
    /\ pc' = [pc EXCEPT ![w] = IF quit THEN "loop" ELSE "wait"]
    /\ UNCHANGED <<queueVars, quit, otherVars>>

\* A condition variable may wake a thread that nobody has notified.
Spurious(w) ==
    /\ pc[w] = "wait"
    /\ pc' = [pc EXCEPT ![w] = "woken"]
    /\ UNCHANGED <<queueVars, asleep, quit, otherVars>>

\* Mutant of Wake: a thread that the end of the node wakes does not count.
WakeUncounted(w) ==
    /\ pc[w] = "woken"
    /\ asleep' = IF quit THEN asleep ELSE asleep - 1
    /\ pc' = [pc EXCEPT ![w] = "loop"]
    /\ UNCHANGED <<queueVars, quit, otherVars>>

\* The woken thread has the mutex again.
Wake(w) ==
    /\ pc[w] = "woken"
    /\ asleep' = asleep - 1
    /\ pc' = [pc EXCEPT ![w] = "loop"]
    /\ UNCHANGED <<queueVars, quit, otherVars>>

WorkerStep(w) == Loop(w) \/ Begin(w) \/ Callback(w) \/ End(w) \/ Sleep(w) \/ Wake(w)

-----------------------------------------------------------------------------
(***************************************************************************)
(* thread_timer.                                                           *)
(***************************************************************************)

\* update_time: timeouts that expire are pushed.
TimerUpdate ==
    /\ timer = "update"
    /\ \E p \in {0, 1} : Pushed(p)
    /\ timer' = "check"
    /\ UNCHANGED <<hand, running, asleep, quit, pc, socket, monitor, pipe>>

TimerCheck ==
    /\ timer = "check"
    /\ timer' = IF ~ running THEN "exit" ELSE IF asleep >= 1 THEN "notify" ELSE "nap"
    /\ UNCHANGED <<queueVars, asleep, quit, pc, socket, monitor, pipe>>

\* Mutant of TimerNotify: the call is left out.
TimerNotifyNobody ==
    /\ timer = "notify"
    /\ UNCHANGED pc
    /\ timer' = "nap"
    /\ UNCHANGED <<queueVars, asleep, quit, socket, monitor, pipe>>

TimerNotify ==
    /\ timer = "notify"
    /\ NotifyOne
    /\ timer' = "nap"
    /\ UNCHANGED <<queueVars, asleep, quit, socket, monitor, pipe>>

\* After the 2.5 ms: a SIGHUP is passed on to the logger.
TimerNap ==
    /\ timer = "nap"
    /\ \E p \in {0, 1} : Pushed(p)
    /\ timer' = "update"
    /\ UNCHANGED <<hand, running, asleep, quit, pc, socket, monitor, pipe>>

\* socket_server::exit sends a command package that it has not filled in.
SocketServerExit ==
    /\ timer = "exit"
    /\ pipe' = pipe \cup {"none"}
    /\ timer' = "quit"
    /\ UNCHANGED <<queueVars, asleep, quit, pc, socket, monitor>>

\* Under the mutex: the flag and notify_all.
TimerQuit ==
    /\ timer = "quit"
    /\ quit' = TRUE
    /\ pc' = [w \in Worker |-> IF pc[w] = "wait" THEN "woken" ELSE pc[w]]
    /\ timer' = "gone"
    /\ UNCHANGED <<queueVars, asleep, socket, monitor, pipe>>

TimerStep ==
    TimerUpdate \/ TimerCheck \/ TimerNotify \/ TimerNap \/ SocketServerExit \/ TimerQuit

-----------------------------------------------------------------------------
(***************************************************************************)
(* thread_socket and thread_monitor.                                       *)
(***************************************************************************)

\* poll_socket_event has an event for a service; with more to come the thread
\* only looks whether the node ends.
SocketEvent(more) ==
    /\ socket = "poll"
    /\ \E p \in {0, 1} : Pushed(p)
    /\ socket' = IF ~ more THEN "notify" ELSE IF running THEN "poll" ELSE "gone"
    /\ UNCHANGED <<hand, running, asleep, quit, pc, timer, monitor, pipe>>

\* It reads a command: 'X' ends the thread, one it does not know is logged.
SocketCommand ==
    /\ socket = "poll"
    /\ \E c \in pipe : /\ pipe' = pipe \ {c}
                       /\ socket' = IF c = "X" THEN "gone" ELSE "poll"
    /\ UNCHANGED <<queueVars, asleep, quit, pc, timer, monitor>>

\* One worker is woken if all of them sleep.
SocketNotify ==
    /\ socket = "notify"
    /\ \/ asleep >= Cardinality(Worker) /\ NotifyOne
       \/ asleep < Cardinality(Worker) /\ UNCHANGED pc
    /\ socket' = "poll"
    /\ UNCHANGED <<queueVars, asleep, quit, timer, monitor, pipe>>

SocketStep == SocketCommand \/ SocketNotify

\* The loop of thread_monitor: five looks at svc_count() to each check of the
\* workers.
MonitorCheck ==
    /\ monitor # "gone"
    /\ monitor' = IF ~ running THEN "gone" ELSE IF monitor = "check" THEN "nap" ELSE "check"
    /\ UNCHANGED <<queueVars, asleep, quit, pc, timer, socket, pipe>>

Next ==
    \/ \E w \in Worker : WorkerStep(w) \/ Spurious(w)
    \/ TimerStep
    \/ \E more \in BOOLEAN : SocketEvent(more)
    \/ SocketStep
    \/ MonitorCheck

\* Every thread goes on, callbacks return; the network may be silent.
Spec ==
    /\ Init /\ [][Next]_vars
    /\ \A w \in Worker : WF_vars(WorkerStep(w))
    /\ WF_vars(TimerStep) /\ WF_vars(SocketStep) /\ WF_vars(MonitorCheck)

-----------------------------------------------------------------------------
TypeOK ==
    /\ work \in 0 .. Queues
    /\ hand \in [Worker -> BOOLEAN]
    /\ running \in BOOLEAN /\ quit \in BOOLEAN
    /\ asleep \in 0 .. Cardinality(Worker)
    /\ pc \in [Worker -> {"loop", "dispatch", "callback", "end", "lock", "wait", "woken", "gone"}]
    /\ timer \in {"update", "check", "notify", "nap", "exit", "quit", "gone"}
    /\ socket \in {"poll", "notify", "gone"}
    /\ monitor \in {"check", "nap", "gone"}
    /\ pipe \subseteq {"X", "none"}

\* work_thread_sleep_count is the number of workers between the ++ and the --,
\* whoever wakes them.
InWait == {w \in Worker : pc[w] \in {"wait", "woken"}}

SleepersCounted == asleep = Cardinality(InWait)

\* Once the end of the node has been announced no worker waits any more: it
\* was waiting and has been woken, or it sees the flag before it waits.
NobodyWaitsAfterQuit == quit => Sleepers = {}

Listed == work > 0
Taken == quit \/ \E w \in Worker : hand[w]

Ending == ~ running
Ended == (\A w \in Worker : pc[w] = "gone") /\ timer = "gone" /\ monitor = "gone"

\* thread_timer exits the socket thread: so says the comment at the call.
SocketThreadExits == Ending ~> socket = "gone"

-----------------------------------------------------------------------------
(***************************************************************************)
(* Proofs, for any number of workers and queues.                           *)
(***************************************************************************)

\* No queue is in two places, and a worker that calls back has one.
HandsCounted ==
    /\ work + Cardinality(Hands) <= Queues
    /\ \A w \in Worker : pc[w] \in {"callback", "end"} => hand[w]

\* The inductive invariant. Its counters are bounded by what they count.
ThreadsInv == TypeOK /\ SleepersCounted /\ NobodyWaitsAfterQuit /\ HandsCounted

\* How many workers there are of a kind, and how that changes with one of
\* them: for work_thread_sleep_count and the queues in hand.
LEMMA SomeWorkers ==
    ASSUME NEW S \in SUBSET Worker
    PROVE  /\ IsFiniteSet(S)
           /\ Cardinality(S) \in 0 .. Cardinality(Worker)
           /\ Cardinality(S) \in Nat
<1>1. IsFiniteSet(Worker)
    BY ThreadAssumption
<1>2. IsFiniteSet(S) /\ Cardinality(S) <= Cardinality(Worker)
    BY <1>1, FS_Subset
<1>3. Cardinality(S) \in Nat /\ Cardinality(Worker) \in Nat
    BY <1>1, <1>2, FS_CardinalityType
<1> QED
    BY <1>2, <1>3

\* One worker more, or one less, of a kind.
LEMMA WorkersCount ==
    ASSUME NEW S \in SUBSET Worker, NEW w \in Worker
    PROVE  /\ w \notin S => Cardinality(S \cup {w}) = Cardinality(S) + 1
           /\ w \in S => Cardinality(S \ {w}) = Cardinality(S) - 1
BY SomeWorkers, FS_AddElement, FS_RemoveElement

\* A step of a thread that lists at most one queue and has none in hand
\* (timer, socket and callback) keeps the count of the queues.
LEMMA PushedKeeps ==
    ASSUME ThreadsInv, NEW p \in {0, 1}, Pushed(p), UNCHANGED hand
    PROVE  work' \in 0 .. Queues /\ work' + Cardinality(Hands') <= Queues
<1>1. Hands' = Hands /\ Cardinality(Hands) \in Nat
    BY SomeWorkers DEF Hands
<1>2. work \in 0 .. Queues /\ work + Cardinality(Hands) <= Queues /\ Queues \in Nat
    BY ThreadAssumption DEF ThreadsInv, TypeOK, HandsCounted
<1>3. work' = work + p /\ (p = 1 => work + Cardinality(Hands) < Queues)
    BY DEF Pushed
<1> HIDE DEF Hands
<1> QED
    BY <1>1, <1>2, <1>3

\* A notify moves a worker from its wait to the mutex: it stays counted.
LEMMA NotifyKeeps ==
    ASSUME ThreadsInv, NotifyOne
    PROVE  /\ pc' \in [Worker -> {"loop", "dispatch", "callback", "end", "lock", "wait", "woken", "gone"}]
           /\ InWait' = InWait
           /\ Sleepers' \subseteq Sleepers
           /\ \A w \in Worker : pc'[w] \in {"callback", "end"} => pc[w] \in {"callback", "end"}
<1>1. CASE UNCHANGED pc
    BY <1>1 DEF ThreadsInv, TypeOK, InWait, Sleepers
<1>2. ASSUME NEW w \in Sleepers, pc' = [pc EXCEPT ![w] = "woken"]
      PROVE  /\ pc' \in [Worker -> {"loop", "dispatch", "callback", "end", "lock", "wait", "woken", "gone"}]
             /\ InWait' = InWait
             /\ Sleepers' \subseteq Sleepers
             /\ \A v \in Worker : pc'[v] \in {"callback", "end"} => pc[v] \in {"callback", "end"}
    BY <1>2 DEF ThreadsInv, TypeOK, InWait, Sleepers
<1> QED
    BY <1>1, <1>2 DEF NotifyOne

\* The steps of one worker keep the invariant.
LEMMA WorkerKeeps ==
    ASSUME ThreadsInv, NEW w \in Worker, WorkerStep(w) \/ Spurious(w)
    PROVE  ThreadsInv'
<1> DEFINE PCs == {"loop", "dispatch", "callback", "end", "lock", "wait", "woken", "gone"}
<1>0. /\ pc \in [Worker -> PCs] /\ hand \in [Worker -> BOOLEAN]
      /\ work \in Nat /\ asleep \in Nat /\ Queues \in Nat
      /\ Hands \in SUBSET Worker /\ InWait \in SUBSET Worker
      /\ asleep = Cardinality(InWait)
      /\ work + Cardinality(Hands) <= Queues
      /\ Cardinality(Hands) \in Nat
      /\ quit => Sleepers = {}
    <2>1. Hands \in SUBSET Worker /\ InWait \in SUBSET Worker
        BY DEF Hands, InWait
    <2>2. Cardinality(Hands) \in Nat /\ Cardinality(InWait) \in Nat
        BY <2>1, SomeWorkers
    <2> QED
        BY <2>1, <2>2, ThreadAssumption DEF ThreadsInv, TypeOK, SleepersCounted,
            HandsCounted, NobodyWaitsAfterQuit
<1>1. CASE Loop(w)
    <2>1. InWait' = InWait /\ Hands' = Hands /\ Sleepers' = Sleepers
        BY <1>0, <1>1 DEF Loop, InWait, Hands, Sleepers, queueVars
    <2> QED
        BY <1>0, <1>1, <2>1 DEF Loop, queueVars, otherVars, ThreadsInv, TypeOK,
            SleepersCounted, NobodyWaitsAfterQuit, HandsCounted
<1>2. CASE Begin(w)
    <2>1. InWait' = InWait /\ Sleepers' = Sleepers
        BY <1>0, <1>2 DEF Begin, InWait, Sleepers
    <2>2. work' \in 0 .. Queues /\ work' + Cardinality(Hands') <= Queues
        <3>1. CASE UNCHANGED <<work, hand>>
            BY <1>0, <3>1 DEF Hands
        <3>2. CASE hand[w] /\ work' = work /\ hand' = [hand EXCEPT ![w] = TRUE]
            <4>1. Hands' = Hands
                BY <1>0, <3>2 DEF Hands
            <4> QED
                BY <1>0, <3>2, <4>1
        <3>3. CASE ~ hand[w] /\ work > 0 /\ work' = work - 1 /\ hand' = [hand EXCEPT ![w] = TRUE]
            <4>1. Hands' = Hands \cup {w} /\ w \notin Hands
                BY <1>0, <3>3 DEF Hands
            <4>2. Cardinality(Hands') = Cardinality(Hands) + 1
                BY <1>0, <4>1, WorkersCount
            <4> QED
                BY <1>0, <3>3, <4>2
        <3> QED
            BY <1>0, <1>2, <3>1, <3>2, <3>3 DEF Begin
    <2>3. \A v \in Worker : pc'[v] \in {"callback", "end"} => hand'[v]
        BY <1>0, <1>2 DEF Begin, ThreadsInv, HandsCounted
    <2>4. pc' \in [Worker -> PCs] /\ hand' \in [Worker -> BOOLEAN]
        BY <1>0, <1>2 DEF Begin
    <2> QED
        BY <1>0, <1>2, <2>1, <2>2, <2>3, <2>4 DEF Begin, otherVars, ThreadsInv, TypeOK,
            SleepersCounted, NobodyWaitsAfterQuit, HandsCounted
<1>3. CASE Callback(w)
    <2>1. InWait' = InWait /\ Sleepers' = Sleepers /\ Hands' = Hands
        BY <1>0, <1>3 DEF Callback, InWait, Sleepers, Hands
    <2>2. work' \in 0 .. Queues /\ work' + Cardinality(Hands') <= Queues
        <3>1. CASE UNCHANGED work
            BY <1>0, <2>1, <3>1
        <3>2. CASE \E p \in {0, 1} : Pushed(p)
            BY <1>3, <3>2, PushedKeeps DEF Callback
        <3> QED
            BY <1>3, <3>1, <3>2 DEF Callback
    <2>3. running' \in BOOLEAN
        BY <1>3 DEF Callback, ThreadsInv, TypeOK
    <2> QED
        BY <1>0, <1>3, <2>1, <2>2, <2>3 DEF Callback, otherVars, ThreadsInv, TypeOK,
            SleepersCounted, NobodyWaitsAfterQuit, HandsCounted
<1>4. CASE End(w)
    <2>1. InWait' = InWait /\ Sleepers' = Sleepers
        BY <1>0, <1>4 DEF End, InWait, Sleepers
    <2>2. w \in Hands
        BY <1>4 DEF End, ThreadsInv, HandsCounted, Hands
    <2>3. work' \in 0 .. Queues /\ work' + Cardinality(Hands') <= Queues
        <3>1. PICK left \in BOOLEAN :
                 LET n == work + IF left THEN 1 ELSE 0 IN
                 /\ work' = IF n = 0 THEN 0 ELSE n - 1
                 /\ hand' = [hand EXCEPT ![w] = n > 0]
            BY <1>4 DEF End
        <3>2. CASE work = 0 /\ ~ left
            <4>1. Hands' = Hands \ {w} /\ work' = 0
                BY <1>0, <3>1, <3>2 DEF Hands
            <4>2. Cardinality(Hands') = Cardinality(Hands) - 1
                BY <1>0, <2>2, <4>1, WorkersCount
            <4> QED
                BY <1>0, <3>2, <4>1, <4>2
        <3>3. CASE work > 0 \/ left
            <4>1. Hands' = Hands /\ work' <= work /\ work' \in Nat
                BY <1>0, <2>2, <3>1, <3>3 DEF Hands
            <4> QED
                BY <1>0, <4>1
        <3> QED
            BY <1>0, <3>2, <3>3
    <2>4. \A v \in Worker : pc'[v] \in {"callback", "end"} => hand'[v]
        BY <1>0, <1>4 DEF End, ThreadsInv, HandsCounted
    <2>5. pc' \in [Worker -> PCs] /\ hand' \in [Worker -> BOOLEAN]
        BY <1>0, <1>4 DEF End
    <2> QED
        BY <1>0, <1>4, <2>1, <2>3, <2>4, <2>5 DEF End, otherVars, ThreadsInv, TypeOK,
            SleepersCounted, NobodyWaitsAfterQuit, HandsCounted
<1>5. CASE Sleep(w)
    <2>1. Hands' = Hands /\ pc' \in [Worker -> PCs]
        BY <1>0, <1>5 DEF Sleep, queueVars, Hands
    <2>2. asleep' = Cardinality(InWait') /\ (quit' => Sleepers' = {})
        <3>1. CASE quit
            <4>1. InWait' = InWait /\ Sleepers' = Sleepers /\ asleep' = asleep
                BY <1>0, <1>5, <3>1 DEF Sleep, InWait, Sleepers
            <4> QED
                BY <1>0, <4>1, <3>1
        <3>2. CASE ~ quit
            <4>1. InWait' = InWait \cup {w} /\ w \notin InWait /\ asleep' = asleep + 1 /\ ~ quit'
                BY <1>0, <1>5, <3>2 DEF Sleep, InWait
            <4> QED
                BY <1>0, <4>1, WorkersCount
        <3> QED
            BY <3>1, <3>2
    <2>3. asleep' \in 0 .. Cardinality(Worker)
        BY <2>2, SomeWorkers DEF InWait
    <2> QED
        BY <1>0, <1>5, <2>1, <2>2, <2>3 DEF Sleep, queueVars, otherVars, ThreadsInv, TypeOK,
            SleepersCounted, NobodyWaitsAfterQuit, HandsCounted
<1>6. CASE Wake(w)
    <2>1. Hands' = Hands /\ pc' \in [Worker -> PCs] /\ Sleepers' = Sleepers
        BY <1>0, <1>6 DEF Wake, queueVars, Hands, Sleepers
    <2>2. asleep' = Cardinality(InWait')
        <3>1. InWait' = InWait \ {w} /\ w \in InWait
            BY <1>0, <1>6 DEF Wake, InWait
        <3> QED
            BY <1>0, <1>6, <3>1, WorkersCount DEF Wake
    <2>3. asleep' \in 0 .. Cardinality(Worker)
        BY <2>2, SomeWorkers DEF InWait
    <2> QED
        BY <1>0, <1>6, <2>1, <2>2, <2>3 DEF Wake, queueVars, otherVars, ThreadsInv, TypeOK,
            SleepersCounted, NobodyWaitsAfterQuit, HandsCounted
<1>7. CASE Spurious(w)
    <2>1. InWait' = InWait /\ Hands' = Hands /\ Sleepers' \subseteq Sleepers
        BY <1>0, <1>7 DEF Spurious, InWait, Hands, Sleepers, queueVars
    <2> QED
        BY <1>0, <1>7, <2>1 DEF Spurious, queueVars, otherVars, ThreadsInv, TypeOK,
            SleepersCounted, NobodyWaitsAfterQuit, HandsCounted
<1> QED
    BY <1>1, <1>2, <1>3, <1>4, <1>5, <1>6, <1>7 DEF WorkerStep

\* The steps of the timer, the socket and the monitor thread keep it.
LEMMA OthersKeep ==
    ASSUME ThreadsInv,
           TimerStep \/ (\E more \in BOOLEAN : SocketEvent(more)) \/ SocketStep \/ MonitorCheck
    PROVE  ThreadsInv'
<1>1. ASSUME UNCHANGED <<work, hand, pc, running, asleep, quit>>,
             /\ timer' \in {"update", "check", "notify", "nap", "exit", "quit", "gone"}
             /\ socket' \in {"poll", "notify", "gone"}
             /\ monitor' \in {"check", "nap", "gone"}
             /\ pipe' \subseteq {"X", "none"}
      PROVE  ThreadsInv'
    BY <1>1 DEF ThreadsInv, TypeOK, SleepersCounted, InWait, NobodyWaitsAfterQuit, Sleepers,
        HandsCounted, Hands
<1>2. ASSUME NEW p \in {0, 1}, Pushed(p), UNCHANGED <<hand, pc, running, asleep, quit, monitor, pipe>>,
             /\ timer' \in {"update", "check", "notify", "nap", "exit", "quit", "gone"}
             /\ socket' \in {"poll", "notify", "gone"}
      PROVE  ThreadsInv'
    <2>1. work' \in 0 .. Queues /\ work' + Cardinality(Hands') <= Queues
        BY <1>2, PushedKeeps
    <2> QED
        BY <1>2, <2>1 DEF ThreadsInv, TypeOK, SleepersCounted, InWait, NobodyWaitsAfterQuit,
            Sleepers, HandsCounted
<1>3. ASSUME NotifyOne, UNCHANGED <<work, hand, running, asleep, quit, monitor, pipe>>,
             /\ timer' \in {"update", "check", "notify", "nap", "exit", "quit", "gone"}
             /\ socket' \in {"poll", "notify", "gone"}
      PROVE  ThreadsInv'
    <2>1. Hands' = Hands
        BY <1>3 DEF Hands
    <2>2. NobodyWaitsAfterQuit'
        BY <1>3, NotifyKeeps DEF ThreadsInv, NobodyWaitsAfterQuit
    <2>3. SleepersCounted' /\ HandsCounted'
        BY <1>3, <2>1, NotifyKeeps DEF ThreadsInv, SleepersCounted, HandsCounted
    <2> QED
        BY <1>3, <2>2, <2>3, NotifyKeeps DEF ThreadsInv, TypeOK
<1>4. CASE TimerUpdate \/ TimerNap
    BY <1>2, <1>4 DEF TimerUpdate, TimerNap, ThreadsInv, TypeOK
<1>5. CASE TimerCheck
    BY <1>1, <1>5 DEF TimerCheck, queueVars, ThreadsInv, TypeOK
<1>6. CASE TimerNotify
    BY <1>3, <1>6 DEF TimerNotify, queueVars, ThreadsInv, TypeOK
<1>7. CASE SocketServerExit
    BY <1>1, <1>7 DEF SocketServerExit, queueVars, ThreadsInv, TypeOK
<1>8. CASE TimerQuit
    <2>1. InWait' = InWait /\ Hands' = Hands /\ Sleepers' = {}
        BY <1>8 DEF TimerQuit, queueVars, ThreadsInv, TypeOK, InWait, Hands, Sleepers
    <2> QED
        BY <1>8, <2>1 DEF TimerQuit, queueVars, ThreadsInv, TypeOK, SleepersCounted,
            NobodyWaitsAfterQuit, HandsCounted
<1>9. CASE \E more \in BOOLEAN : SocketEvent(more)
    BY <1>2, <1>9 DEF SocketEvent, ThreadsInv, TypeOK
<1>10. CASE SocketCommand
    BY <1>1, <1>10 DEF SocketCommand, queueVars, ThreadsInv, TypeOK
<1>11. CASE SocketNotify
    BY <1>1, <1>3, <1>11 DEF SocketNotify, queueVars, ThreadsInv, TypeOK
<1>12. CASE MonitorCheck
    BY <1>1, <1>12 DEF MonitorCheck, queueVars, ThreadsInv, TypeOK
<1> QED
    BY <1>4, <1>5, <1>6, <1>7, <1>8, <1>9, <1>10, <1>11, <1>12 DEF TimerStep, SocketStep

\* The invariant holds throughout.
THEOREM ThreadsInvariant == Spec => []ThreadsInv
<1>1. Init => ThreadsInv
    <2> SUFFICES ASSUME Init PROVE ThreadsInv
        OBVIOUS
    <2>1. InWait = {} /\ Hands = {} /\ Sleepers = {}
        BY DEF Init, InWait, Hands, Sleepers
    <2>2. Cardinality(InWait) = 0 /\ Cardinality(Hands) = 0
        BY <2>1, FS_EmptySet
    <2>3. Cardinality(Worker) \in Nat
        BY ThreadAssumption, FS_CardinalityType
    <2>4. TypeOK
        <3>1. work \in 0 .. Queues /\ asleep \in 0 .. Cardinality(Worker)
            BY <2>3, ThreadAssumption DEF Init
        <3> QED
            BY <3>1 DEF Init, TypeOK
    <2>5. HandsCounted
        BY <2>2, ThreadAssumption DEF Init, HandsCounted
    <2> QED
        BY <2>1, <2>2, <2>4, <2>5 DEF Init, ThreadsInv, SleepersCounted, NobodyWaitsAfterQuit
<1>2. ThreadsInv /\ [Next]_vars => ThreadsInv'
    <2> SUFFICES ASSUME ThreadsInv, [Next]_vars PROVE ThreadsInv'
        OBVIOUS
    <2>1. CASE UNCHANGED vars
        BY <2>1 DEF vars, ThreadsInv, TypeOK, SleepersCounted, InWait, NobodyWaitsAfterQuit,
            Sleepers, HandsCounted, Hands
    <2> QED
        BY <2>1, WorkerKeeps, OthersKeep DEF Next
<1> QED
    BY <1>1, <1>2, PTL DEF Spec

\* thread_worker: work_thread_sleep_count is the number of workers between
\* its ++ and its --, so that the timer's and the socket thread's decisions
\* to notify rest on a true number.
THEOREM SleepersAreCounted == Spec => []SleepersCounted
BY ThreadsInvariant, PTL DEF ThreadsInv

\* thread_timer: after is_work_thread_quit has been set no worker waits, so
\* the join of the workers waits for nobody who sleeps.
THEOREM QuitWakesAll == Spec => []NobodyWaitsAfterQuit
BY ThreadsInvariant, PTL DEF ThreadsInv

=============================================================================
