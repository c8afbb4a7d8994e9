---------------------------- MODULE ClusterClient ---------------------------
(***************************************************************************)
(* cluster.lua: how the coroutines of a service reach the sender service   *)
(* of another node.  The first use of the node forks request_sender, which *)
(* asks clusterd; calls and sends made meanwhile queue up behind it.       *)
(***************************************************************************)
EXTENDS Naturals, Sequences, SequencesExt

CONSTANTS
    Thread,         \* coroutines that use cluster.call
    MaxSends        \* bound on the uses of cluster.send

VARIABLES
    sender,         \* sender[node] is known
    task_queue,     \* callers and sends that wait, in order: [by, n]
    requesting,     \* task_queue[node] exists: request_sender was forked
    sleeping,       \* tokens in sleep_session_map of module skynet
    told,           \* what get_sender returned to each coroutine
    sends,          \* uses of cluster.send so far
    pushed,         \* sends handed to the sender service
    refused,        \* clusterd had no sender for a request_sender
    duplicative     \* the assertion in suspend_sleep failed

vars == <<sender, task_queue, requesting, sleeping, told, sends, pushed, refused, duplicative>>

-----------------------------------------------------------------------------
\* get_sender, as cluster.call and cluster.query use it
Call(t) ==
    /\ told[t] # "wait"
    /\ IF sender THEN /\ told' = [told EXCEPT ![t] = "sender"]
                      /\ UNCHANGED <<task_queue, requesting, sleeping>>
       ELSE /\ told' = [told EXCEPT ![t] = "wait"]
            /\ task_queue' = Append(task_queue, [by |-> t, n |-> 0])
            /\ requesting' = TRUE
            /\ sleeping' = sleeping \cup {t}
    /\ UNCHANGED <<sender, sends, pushed, refused, duplicative>>

Queued(n) == Append(task_queue, [by |-> "send", n |-> n])

Send ==
    /\ sends < MaxSends /\ sends' = sends + 1
    /\ IF sender THEN pushed' = Append(pushed, sends') /\ UNCHANGED <<task_queue, requesting>>
       ELSE task_queue' = Queued(sends') /\ requesting' = TRUE /\ UNCHANGED pushed
    /\ UNCHANGED <<sender, sleeping, told, refused, duplicative>>

\* clusterd answers, and request_sender runs the queue up to the first caller:
\* it wakes the caller and waits with the caller's token, which is still asleep
\* (the loop variable hides the coroutine's own token). Without callers in the
\* queue it ends.
RequestSender(ok) ==
    LET callers == {i \in DOMAIN task_queue : task_queue[i].by # "send"}
        first == CHOOSE i \in callers : \A j \in callers : i <= j
        run == IF callers = {} THEN task_queue ELSE SubSeq(task_queue, 1, first - 1)
    IN  /\ requesting /\ ~duplicative
        /\ refused' = (refused \/ ~ok)
        /\ pushed' = pushed \o IF ok THEN [i \in DOMAIN run |-> run[i].n] ELSE <<>>
        /\ IF callers = {}
           THEN /\ task_queue' = <<>> /\ requesting' = FALSE /\ sender' = ok
                /\ UNCHANGED <<sleeping, told, duplicative>>
           ELSE LET t == task_queue[first].by
                IN  /\ duplicative' = (t \in sleeping)
                    /\ sleeping' = sleeping \ {t}
                    /\ told' = [told EXCEPT ![t] = IF ok THEN "sender" ELSE "nil"]
                    /\ UNCHANGED <<task_queue, requesting, sender>>
        /\ UNCHANGED sends

-----------------------------------------------------------------------------
Init ==
    /\ sender = FALSE /\ task_queue = <<>> /\ requesting = FALSE /\ sleeping = {}
    /\ told = [t \in Thread |-> "none"]
    /\ sends = 0 /\ pushed = <<>> /\ refused = FALSE /\ duplicative = FALSE

Next ==
    \/ \E t \in Thread : Call(t)
    \/ Send
    \/ \E ok \in BOOLEAN : RequestSender(ok)

Spec == Init /\ [][Next]_vars

-----------------------------------------------------------------------------
\* Every variable keeps its type.
TypeOK ==
    /\ told \in [Thread -> {"none", "wait", "sender", "nil"}] /\ sleeping \subseteq Thread
    /\ pushed \in Seq(1..sends)

\* cluster.send keeps the order of the sends, queued or not, and while clusterd
\* has refused none, every send has been handed on when nobody asks clusterd.
SendsInOrder ==
    /\ \A i, j \in DOMAIN pushed : i < j => pushed[i] < pushed[j]
    /\ ~requesting /\ ~refused => pushed = [i \in 1..sends |-> i]

\* The assertion of suspend_sleep, "token duplicative": request_sender waits with
\* a token nobody else sleeps with.
TokenOwn == ~duplicative
=============================================================================
