------------------------------ MODULE Dispatch ------------------------------
(***************************************************************************)
(* The message core of a skynet node: the global queue of service queues   *)
(* (mq_global), the private queue of each service (mq_private), the        *)
(* reference-counted service contexts (service_manager), and the worker    *)
(* threads that run node::dispatch_message.                                *)
(*                                                                         *)
(* A member of Svc stands for one incarnation of a service: its handle,    *)
(* its service_context and its mq_private.  Handle arithmetic is in module *)
(* HandleRegistry, the ring buffer behind msgs in module RingQueue.        *)
(*                                                                         *)
(* Every action is one critical section or one atomic operation of the     *)
(* code.  A thread is at a point pc of dispatch_message or create_service  *)
(* and, inside it, at a point sub of push_service_message or               *)
(* release_service, which it runs to the end before it goes on.            *)
(***************************************************************************)
EXTENDS Integers, Sequences, FiniteSets

CONSTANTS Svc,        \* service incarnations
          Boot,       \* the ones node::start creates before any thread runs
          Worker,     \* worker threads
          Other,      \* threads that only post or inspect: timer, socket, monitor
          Weight,     \* weight of each worker
          MaxMsg,     \* bound: messages sent over a behaviour
          MayFail,    \* the services whose init may return false
          None        \* the null pointer

ASSUME DispatchAssumption ==
    /\ Boot \subseteq Svc /\ Boot # {}
    /\ IsFiniteSet(Svc) /\ IsFiniteSet(Worker) /\ IsFiniteSet(Other)
    /\ Worker \cap Other = {}
    /\ Weight \in [Worker -> -1 .. 3]
    /\ MaxMsg \in Nat
    /\ MayFail \subseteq Svc
    /\ None \notin Svc

Thread == Worker \cup Other

VARIABLES
    global,     \* mq_global: the linked list head_ .. tail_
    slot,       \* svc_ctx_slot_: the services that grab() finds
    ref,        \* service_context::ref_
    ctx,        \* service_context: not yet created, alive, deleted
    que,        \* mq_private: not yet created, alive, deleted
    inGlobal,   \* mq_private::is_in_global_
    isRelease,  \* mq_private::is_release_
    msgs,       \* mq_private: the messages between head_ and tail_
    svcCount,   \* service_manager::svc_count_
    pc,         \* where a thread is in dispatch_message / create_service
    q,          \* dispatch_message: the queue a worker holds
    nextq,      \* dispatch_message: next_q
    dctx,       \* dispatch_message: the context it has grabbed
    i, n,       \* dispatch_message: the loop index and bound
    cctx,       \* create_service: the context under construction
    sub,        \* where a thread is in push_service_message / release_service
    sctx,       \* the context those work on
    smsg,       \* the message to push
    sent        \* number of messages sent so far

regVars == <<slot, ref, ctx, svcCount>>
mqVars  == <<global, que, inGlobal, isRelease, msgs>>
runVars == <<pc, q, nextq, dctx, i, n, cctx>>
subVars == <<sub, sctx, smsg>>
vars    == <<regVars, mqVars, runVars, subVars, sent>>

\* A message: its number (which stands for session and contents), the service
\* it is from (None: a thread of the node) and its type.
Msg == [id : 0 .. MaxMsg, src : Svc \cup {None}, type : {"text", "error"}]

NoMsg == [id |-> 0, src |-> None, type |-> "text"]

-----------------------------------------------------------------------------
\* node::start has created the logger, and bootstrap, whose first message is
\* in its own queue and whose launch is logged; then the threads start.
Init ==
    /\ global \in [1 .. Cardinality(Boot) -> Boot]
    /\ \A a, b \in DOMAIN global : global[a] = global[b] => a = b
    /\ \E s \in Boot :
          msgs = [d \in Svc |-> IF d \in Boot
                                THEN <<[id |-> 0, src |-> s, type |-> "text"]>>
                                ELSE <<>>]
    /\ slot = Boot
    /\ ref = [s \in Svc |-> IF s \in Boot THEN 1 ELSE 0]
    /\ ctx = [s \in Svc |-> IF s \in Boot THEN "alive" ELSE "none"]
    /\ que = [s \in Svc |-> IF s \in Boot THEN "alive" ELSE "none"]
    /\ inGlobal = [s \in Svc |-> s \in Boot]
    /\ isRelease = [s \in Svc |-> FALSE]
    /\ svcCount = Cardinality(Boot)
    /\ pc = [t \in Thread |-> "idle"]
    /\ q = [t \in Thread |-> None]
    /\ nextq = [t \in Thread |-> None]
    /\ dctx = [t \in Thread |-> None]
    /\ i = [t \in Thread |-> 0]
    /\ n = [t \in Thread |-> 1]
    /\ cctx = [t \in Thread |-> None]
    /\ sub = [t \in Thread |-> "none"]
    /\ sctx = [t \in Thread |-> None]
    /\ smsg = [t \in Thread |-> NoMsg]
    /\ sent = 0

-----------------------------------------------------------------------------
(***************************************************************************)
(* push_service_message and release_service.                               *)
(***************************************************************************)

\* Thread t starts release_service(s).
BeginRelease(t, s) ==
    /\ sub' = [sub EXCEPT ![t] = "release"]
    /\ sctx' = [sctx EXCEPT ![t] = s]
    /\ UNCHANGED smsg

\* push_service_message(s, m): grab() succeeds, the push comes next.
BeginPush(t, s, m) ==
    /\ s \in slot
    /\ ref' = [ref EXCEPT ![s] = @ + 1]
    /\ sub' = [sub EXCEPT ![t] = "push"]
    /\ sctx' = [sctx EXCEPT ![t] = s]
    /\ smsg' = [smsg EXCEPT ![t] = m]

\* Mutant of QueuePush: the queue is flagged but not put into the global queue.
QueuePushUnlisted(t) ==
    LET s == sctx[t] IN
    /\ sub[t] = "push"
    /\ msgs' = [msgs EXCEPT ![s] = Append(@, smsg[t])]
    /\ inGlobal' = [inGlobal EXCEPT ![s] = TRUE]
    /\ sub' = [sub EXCEPT ![t] = "release"]
    /\ smsg' = [smsg EXCEPT ![t] = NoMsg]
    /\ UNCHANGED <<regVars, global, que, isRelease, runVars, sctx, sent>>

\* mq_private::push, under the mutex of the queue.
QueuePush(t) ==
    LET s == sctx[t] IN
    /\ sub[t] = "push"
    /\ msgs' = [msgs EXCEPT ![s] = Append(@, smsg[t])]
    /\ inGlobal' = [inGlobal EXCEPT ![s] = TRUE]
    /\ global' = IF inGlobal[s] THEN global ELSE Append(global, s)
    /\ sub' = [sub EXCEPT ![t] = "release"]
    /\ smsg' = [smsg EXCEPT ![t] = NoMsg]
    /\ UNCHANGED <<regVars, que, isRelease, runVars, sctx, sent>>

\* release_service: --ref_, and on to the destruction when it reaches 0.  It
\* returns null then, which create_service looks at.
Release(t) ==
    LET s == sctx[t] IN
    /\ sub[t] = "release"
    /\ ref' = [ref EXCEPT ![s] = @ - 1]
    /\ \/ /\ ref[s] = 1
          /\ sub' = [sub EXCEPT ![t] = "mark"]
          /\ pc' = [pc EXCEPT ![t] = IF @ = "publish" THEN "orphan" ELSE @]
          /\ UNCHANGED sctx
       \/ /\ ref[s] # 1
          /\ sub' = [sub EXCEPT ![t] = "none"]
          /\ sctx' = [sctx EXCEPT ![t] = None]
          /\ UNCHANGED pc
    /\ UNCHANGED <<slot, ctx, svcCount, mqVars, q, nextq, dctx, i, n, cctx,
                   smsg, sent>>

\* Mutant of MarkRelease: no test of is_in_global_.
MarkReleaseAlways(t) ==
    LET s == sctx[t] IN
    /\ sub[t] = "mark"
    /\ isRelease' = [isRelease EXCEPT ![s] = TRUE]
    /\ global' = Append(global, s)
    /\ sub' = [sub EXCEPT ![t] = "delete"]
    /\ UNCHANGED <<regVars, que, inGlobal, msgs, runVars, sctx, smsg, sent>>

\* mq_private::mark_release: an idle queue goes back to the global queue so
\* that a worker finds and drops it; is_in_global_ stays as it is.
MarkRelease(t) ==
    LET s == sctx[t] IN
    /\ sub[t] = "mark"
    /\ isRelease' = [isRelease EXCEPT ![s] = TRUE]
    /\ global' = IF inGlobal[s] THEN global ELSE Append(global, s)
    /\ sub' = [sub EXCEPT ![t] = "delete"]
    /\ UNCHANGED <<regVars, que, inGlobal, msgs, runVars, sctx, smsg, sent>>

\* Mutant of DeleteContext: svc_count_ is not decremented.
DeleteContextUncounted(t) ==
    /\ sub[t] = "delete"
    /\ ctx' = [ctx EXCEPT ![sctx[t]] = "deleted"]
    /\ sub' = [sub EXCEPT ![t] = "none"]
    /\ sctx' = [sctx EXCEPT ![t] = None]
    /\ UNCHANGED <<slot, ref, svcCount, mqVars, runVars, smsg, sent>>

\* release_service: delete svc_ctx, --svc_count_.
DeleteContext(t) ==
    /\ sub[t] = "delete"
    /\ ctx' = [ctx EXCEPT ![sctx[t]] = "deleted"]
    /\ svcCount' = svcCount - 1
    /\ sub' = [sub EXCEPT ![t] = "none"]
    /\ sctx' = [sctx EXCEPT ![t] = None]
    /\ UNCHANGED <<slot, ref, mqVars, runVars, smsg, sent>>

SubStep(t) == QueuePush(t) \/ Release(t) \/ MarkRelease(t) \/ DeleteContext(t)

-----------------------------------------------------------------------------
(***************************************************************************)
(* dispatch_message.                                                       *)
(***************************************************************************)

\* thread_worker has no queue: mq_global::pop.
PopGlobal(w) ==
    /\ pc[w] = "idle" /\ sub[w] = "none"
    /\ global # <<>>
    /\ q' = [q EXCEPT ![w] = Head(global)]
    /\ global' = Tail(global)
    /\ pc' = [pc EXCEPT ![w] = "grab"]
    /\ UNCHANGED <<regVars, que, inGlobal, isRelease, msgs, nextq, dctx, i, n,
                   cctx, subVars, sent>>

\* Mutant of GrabContext: the context is used without a reference to it.
GrabContextUncounted(w) ==
    /\ pc[w] = "grab" /\ sub[w] = "none"
    /\ \/ /\ q[w] \in slot
          /\ dctx' = [dctx EXCEPT ![w] = q[w]]
          /\ pc' = [pc EXCEPT ![w] = "pop"]
       \/ /\ q[w] \notin slot
          /\ pc' = [pc EXCEPT ![w] = "release"]
          /\ UNCHANGED dctx
    /\ UNCHANGED <<regVars, mqVars, q, nextq, i, n, cctx, subVars, sent>>

\* grab(q->svc_handle_).
GrabContext(w) ==
    /\ pc[w] = "grab" /\ sub[w] = "none"
    /\ \/ /\ q[w] \in slot
          /\ ref' = [ref EXCEPT ![q[w]] = @ + 1]
          /\ dctx' = [dctx EXCEPT ![w] = q[w]]
          /\ pc' = [pc EXCEPT ![w] = "pop"]
       \/ /\ q[w] \notin slot
          /\ pc' = [pc EXCEPT ![w] = "release"]
          /\ UNCHANGED <<ref, dctx>>
    /\ UNCHANGED <<slot, ctx, svcCount, mqVars, q, nextq, i, n, cctx, subVars,
                   sent>>

\* Mutant of ReleaseQueue: no test of is_release_.
ReleaseQueueEarly(w) ==
    /\ pc[w] = "release" /\ sub[w] = "none"
    /\ pc' = [pc EXCEPT ![w] = "drop"]
    /\ UNCHANGED <<regVars, mqVars, q, nextq, dctx, i, n, cctx, subVars, sent>>

\* Mutant of ReleaseQueue: the queue always waits its turn again.
ReleaseQueueBack(w) ==
    /\ pc[w] = "release" /\ sub[w] = "none"
    /\ global' = Append(global, q[w])
    /\ q' = [q EXCEPT ![w] = None]
    /\ pc' = [pc EXCEPT ![w] = "idle"]
    /\ UNCHANGED <<regVars, que, inGlobal, isRelease, msgs, nextq, dctx, i, n,
                   cctx, subVars, sent>>

\* mq_private::release: the queue of a service that is no longer registered
\* is dropped if its context has been deleted, else it waits its turn again.
ReleaseQueue(w) ==
    /\ pc[w] = "release" /\ sub[w] = "none"
    /\ \/ /\ isRelease[q[w]]
          /\ pc' = [pc EXCEPT ![w] = "drop"]
          /\ UNCHANGED <<global, q>>
       \/ /\ ~ isRelease[q[w]]
          /\ global' = Append(global, q[w])
          /\ q' = [q EXCEPT ![w] = None]
          /\ pc' = [pc EXCEPT ![w] = "idle"]
    /\ UNCHANGED <<regVars, que, inGlobal, isRelease, msgs, nextq, dctx, i, n,
                   cctx, subVars, sent>>

\* drop_message: the ERROR for a dropped message, in the name of the service
\* s that is gone; its session is 0 and it has no contents.
ErrorFor(s) == [id |-> 0, src |-> s, type |-> "error"]

\* _drop_queue takes one message and drop_message sends an ERROR to its
\* source, if that is still registered.
DropMessage(w) ==
    LET s == q[w]
        m == Head(msgs[s])
    IN  /\ pc[w] = "drop" /\ sub[w] = "none"
        /\ msgs[s] # <<>>
        /\ msgs' = [msgs EXCEPT ![s] = Tail(@)]
        /\ \/ BeginPush(w, m.src, ErrorFor(s))
           \/ m.src \notin slot /\ UNCHANGED <<ref, subVars>>
        /\ UNCHANGED <<slot, ctx, svcCount, global, que, inGlobal, isRelease,
                       runVars, sent>>

\* _drop_queue finds the queue empty and deletes it.
DeleteQueue(w) ==
    LET s == q[w] IN
    /\ pc[w] = "drop" /\ sub[w] = "none"
    /\ msgs[s] = <<>>
    /\ inGlobal' = [inGlobal EXCEPT ![s] = FALSE]
    /\ que' = [que EXCEPT ![s] = "deleted"]
    /\ q' = [q EXCEPT ![w] = None]
    /\ pc' = [pc EXCEPT ![w] = "idle"]
    /\ UNCHANGED <<regVars, global, isRelease, msgs, nextq, dctx, i, n, cctx,
                   subVars, sent>>

\* Mutant of PopMessage: the pop of the last message says that the queue is
\* no longer in the global queue.
PopMessageUnflag(w) ==
    LET s == q[w] IN
    /\ pc[w] = "pop" /\ sub[w] = "none"
    /\ msgs[s] # <<>>
    /\ msgs' = [msgs EXCEPT ![s] = Tail(@)]
    /\ inGlobal' = [inGlobal EXCEPT ![s] = Len(msgs[s]) > 1]
    /\ pc' = [pc EXCEPT ![w] = IF i[w] = 0 /\ Weight[w] >= 0 THEN "length"
                                                             ELSE "callback"]
    /\ UNCHANGED <<regVars, global, que, isRelease, q, nextq, dctx, i, n, cctx,
                   subVars, sent>>

\* mq_private::pop finds a message: the callback runs on it, after the loop
\* bound has been computed if this is the first one.
PopMessage(w) ==
    LET s == q[w] IN
    /\ pc[w] = "pop" /\ sub[w] = "none"
    /\ msgs[s] # <<>>
    /\ msgs' = [msgs EXCEPT ![s] = Tail(@)]
    /\ pc' = [pc EXCEPT ![w] = IF i[w] = 0 /\ Weight[w] >= 0 THEN "length"
                                                             ELSE "callback"]
    /\ UNCHANGED <<regVars, global, que, inGlobal, isRelease, q, nextq, dctx,
                   i, n, cctx, subVars, sent>>

\* mq_private::pop finds the queue empty; the context is released and the
\* worker looks for another queue.
PopEmpty(w) ==
    /\ pc[w] = "pop" /\ sub[w] = "none"
    /\ msgs[q[w]] = <<>>
    /\ inGlobal' = [inGlobal EXCEPT ![q[w]] = FALSE]
    /\ BeginRelease(w, dctx[w])
    /\ dctx' = [dctx EXCEPT ![w] = None]
    /\ q' = [q EXCEPT ![w] = None]
    /\ i' = [i EXCEPT ![w] = 0]
    /\ n' = [n EXCEPT ![w] = 1]
    /\ pc' = [pc EXCEPT ![w] = "idle"]
    /\ UNCHANGED <<regVars, global, que, isRelease, msgs, nextq, cctx, sent>>

\* 2 ^ weight, for the weights that node_thread gives to its workers.
Share == <<1, 2, 4, 8>>

\* Mutant of Length: n = (q->length() >> weight) - 1.
LengthLess(w) ==
    /\ pc[w] = "length"
    /\ n' = [n EXCEPT ![w] = (Len(msgs[q[w]]) \div Share[Weight[w] + 1]) - 1]
    /\ pc' = [pc EXCEPT ![w] = "callback"]
    /\ UNCHANGED <<regVars, mqVars, q, nextq, dctx, i, cctx, subVars, sent>>

\* n = q->length() >> weight.
Length(w) ==
    /\ pc[w] = "length"
    /\ n' = [n EXCEPT ![w] = Len(msgs[q[w]]) \div Share[Weight[w] + 1]]
    /\ pc' = [pc EXCEPT ![w] = "callback"]
    /\ UNCHANGED <<regVars, mqVars, q, nextq, dctx, i, cctx, subVars, sent>>

\* The callback returns: next message, or the end of the loop.
EndCallback(w) ==
    /\ pc[w] = "callback" /\ sub[w] = "none"
    /\ i' = [i EXCEPT ![w] = @ + 1]
    /\ pc' = [pc EXCEPT ![w] = IF i[w] + 1 < n[w] THEN "pop" ELSE "next"]
    /\ UNCHANGED <<regVars, mqVars, q, nextq, dctx, n, cctx, subVars, sent>>

\* The end of dispatch_message, with newq as the queue to go on with.
EndDispatch(w, newq) ==
    /\ q' = [q EXCEPT ![w] = newq]
    /\ BeginRelease(w, dctx[w])
    /\ dctx' = [dctx EXCEPT ![w] = None]
    /\ i' = [i EXCEPT ![w] = 0]
    /\ n' = [n EXCEPT ![w] = 1]
    /\ pc' = [pc EXCEPT ![w] = "grab"]

\* next_q = mq_global::pop: none, so the worker keeps its queue.
KeepQueue(w) ==
    /\ pc[w] = "next"
    /\ global = <<>>
    /\ EndDispatch(w, q[w])
    /\ UNCHANGED <<regVars, mqVars, nextq, cctx, sent>>

\* next_q = mq_global::pop: the worker is to go on with that one.
PopNext(w) ==
    /\ pc[w] = "next"
    /\ global # <<>>
    /\ nextq' = [nextq EXCEPT ![w] = Head(global)]
    /\ global' = Tail(global)
    /\ pc' = [pc EXCEPT ![w] = "back"]
    /\ UNCHANGED <<regVars, que, inGlobal, isRelease, msgs, q, dctx, i, n,
                   cctx, subVars, sent>>

\* Its own queue goes to the back of the global queue.
PushBack(w) ==
    /\ pc[w] = "back"
    /\ global' = Append(global, q[w])
    /\ EndDispatch(w, nextq[w])
    /\ nextq' = [nextq EXCEPT ![w] = None]
    /\ UNCHANGED <<regVars, que, inGlobal, isRelease, msgs, cctx, sent>>

DispatchStep(w) ==
    \/ PopGlobal(w) \/ GrabContext(w) \/ ReleaseQueue(w)
    \/ DropMessage(w) \/ DeleteQueue(w)
    \/ PopMessage(w) \/ PopEmpty(w) \/ Length(w) \/ EndCallback(w)
    \/ KeepQueue(w) \/ PopNext(w) \/ PushBack(w)

-----------------------------------------------------------------------------
(***************************************************************************)
(* What a callback, or the init of a service, does through the API.        *)
(***************************************************************************)

\* The service whose code thread t runs.
Self(t) == IF pc[t] = "init" THEN cctx[t] ELSE dctx[t]

\* send() to a service whose handle is known: its init has been reached.  A
\* destination that is no longer registered is reported by -1, with no effect.
Send(w, d) ==
    /\ pc[w] \in {"callback", "init"} /\ sub[w] = "none"
    /\ que[d] # "none"
    /\ sent < MaxMsg
    /\ BeginPush(w, d, [id |-> sent + 1, src |-> Self(w), type |-> "text"])
    /\ sent' = sent + 1
    /\ UNCHANGED <<slot, ctx, svcCount, mqVars, runVars>>

\* unregister_service (cmd_exit, cmd_kill, one turn of cmd_abort): the slot
\* is cleared under the write lock, the context released after it.
Unregister(w, d) ==
    /\ pc[w] = "callback" /\ sub[w] = "none"
    /\ d \in slot
    /\ slot' = slot \ {d}
    /\ BeginRelease(w, d)
    /\ UNCHANGED <<ref, ctx, svcCount, mqVars, runVars, sent>>

\* Mutant of CreateContext: the context starts with ref_ = 1.
CreateContextOneRef(w, s) ==
    /\ pc[w] = "callback" /\ sub[w] = "none"
    /\ ctx[s] = "none"
    /\ ctx' = [ctx EXCEPT ![s] = "alive"]
    /\ ref' = [ref EXCEPT ![s] = 1]
    /\ slot' = slot \cup {s}
    /\ cctx' = [cctx EXCEPT ![w] = s]
    /\ pc' = [pc EXCEPT ![w] = "create"]
    /\ UNCHANGED <<svcCount, mqVars, q, nextq, dctx, i, n, subVars, sent>>

\* create_service: a context with ref_ = 2 is registered.
CreateContext(w, s) ==
    /\ pc[w] = "callback" /\ sub[w] = "none"
    /\ ctx[s] = "none"
    /\ ctx' = [ctx EXCEPT ![s] = "alive"]
    /\ ref' = [ref EXCEPT ![s] = 2]
    /\ slot' = slot \cup {s}
    /\ cctx' = [cctx EXCEPT ![w] = s]
    /\ pc' = [pc EXCEPT ![w] = "create"]
    /\ UNCHANGED <<svcCount, mqVars, q, nextq, dctx, i, n, subVars, sent>>

\* mq_private::create, with is_in_global_ set although it is in no list;
\* ++svc_count_.
CreateQueue(w) ==
    /\ pc[w] = "create"
    /\ que' = [que EXCEPT ![cctx[w]] = "alive"]
    /\ inGlobal' = [inGlobal EXCEPT ![cctx[w]] = TRUE]
    /\ svcCount' = svcCount + 1
    /\ pc' = [pc EXCEPT ![w] = "init"]
    /\ UNCHANGED <<slot, ref, ctx, global, isRelease, msgs, q, nextq, dctx, i,
                   n, cctx, subVars, sent>>

\* init() returns true: the creator's reference is released ...
InitOk(w) ==
    /\ pc[w] = "init" /\ sub[w] = "none"
    /\ BeginRelease(w, cctx[w])
    /\ pc' = [pc EXCEPT ![w] = "publish"]
    /\ UNCHANGED <<regVars, mqVars, q, nextq, dctx, i, n, cctx, sent>>

\* Mutant of Publish: the queue is not put into the global queue.
PublishUnlisted(w) ==
    /\ pc[w] \in {"publish", "orphan"} /\ sub[w] = "none"
    /\ cctx' = [cctx EXCEPT ![w] = None]
    /\ pc' = [pc EXCEPT ![w] = "callback"]
    /\ UNCHANGED <<regVars, mqVars, q, nextq, dctx, i, n, subVars, sent>>

\* ... and the queue goes to the global queue, whether or not the context
\* has survived ("publish") or not ("orphan").
Publish(w) ==
    /\ pc[w] \in {"publish", "orphan"} /\ sub[w] = "none"
    /\ global' = Append(global, cctx[w])
    /\ cctx' = [cctx EXCEPT ![w] = None]
    /\ pc' = [pc EXCEPT ![w] = "callback"]
    /\ UNCHANGED <<regVars, que, inGlobal, isRelease, msgs, q, nextq, dctx, i,
                   n, subVars, sent>>

\* init() returns false: the creator's reference is released ...
InitFail(w) ==
    /\ pc[w] = "init" /\ sub[w] = "none" /\ cctx[w] \in MayFail
    /\ BeginRelease(w, cctx[w])
    /\ pc' = [pc EXCEPT ![w] = "failed"]
    /\ UNCHANGED <<regVars, mqVars, q, nextq, dctx, i, n, cctx, sent>>

\* ... and the service unregistered; its queue is left as it is.
UnregisterFailed(w) ==
    LET s == cctx[w] IN
    /\ pc[w] = "failed" /\ sub[w] = "none"
    /\ slot' = slot \ {s}
    /\ \/ s \in slot /\ BeginRelease(w, s)
       \/ s \notin slot /\ UNCHANGED subVars
    /\ cctx' = [cctx EXCEPT ![w] = None]
    /\ pc' = [pc EXCEPT ![w] = "callback"]
    /\ UNCHANGED <<ref, ctx, svcCount, mqVars, q, nextq, dctx, i, n, sent>>

CreateStep(w) ==
    CreateQueue(w) \/ InitOk(w) \/ Publish(w) \/ InitFail(w) \/ UnregisterFailed(w)

ServiceStep(w) ==
    \/ \E d \in Svc : Send(w, d) \/ Unregister(w, d) \/ CreateContext(w, d)
    \/ CreateStep(w)

-----------------------------------------------------------------------------
(***************************************************************************)
(* The other threads of the node.                                          *)
(***************************************************************************)

\* A timer expires or a socket has an event: push_service_message, source 0.
Post(t, d) ==
    /\ sub[t] = "none"
    /\ que[d] # "none"
    /\ sent < MaxMsg
    /\ BeginPush(t, d, [id |-> sent + 1, src |-> None, type |-> "text"])
    /\ sent' = sent + 1
    /\ UNCHANGED <<slot, ctx, svcCount, mqVars, runVars>>

\* process_blocked_service (monitor thread): grab, set a flag, release.
MarkBlocked(t, d) ==
    /\ sub[t] = "none"
    /\ d \in slot /\ que[d] # "none"
    /\ ref' = [ref EXCEPT ![d] = @ + 1]
    /\ BeginRelease(t, d)
    /\ UNCHANGED <<slot, ctx, svcCount, mqVars, runVars, sent>>

OtherStep(t) == \E d \in Svc : Post(t, d) \/ MarkBlocked(t, d)

-----------------------------------------------------------------------------
Next ==
    \/ \E t \in Thread : SubStep(t)
    \/ \E w \in Worker : DispatchStep(w) \/ ServiceStep(w)
    \/ \E t \in Other : OtherStep(t)

Spec == Init /\ [][Next]_vars

-----------------------------------------------------------------------------
TypeOK ==
    /\ global \in Seq(Svc)
    /\ slot \subseteq Svc
    /\ ref \in [Svc -> Nat]
    /\ ctx \in [Svc -> {"none", "alive", "deleted"}]
    /\ que \in [Svc -> {"none", "alive", "deleted"}]
    /\ inGlobal \in [Svc -> BOOLEAN]
    /\ isRelease \in [Svc -> BOOLEAN]
    /\ msgs \in [Svc -> Seq(Msg)]
    /\ svcCount \in Nat
    /\ pc \in [Thread -> {"idle", "grab", "release", "drop", "pop", "length",
                          "callback", "next", "back", "create", "init",
                          "publish", "orphan", "failed"}]
    /\ q \in [Thread -> Svc \cup {None}]
    /\ nextq \in [Thread -> Svc \cup {None}]
    /\ dctx \in [Thread -> Svc \cup {None}]
    /\ i \in [Thread -> Nat]
    /\ n \in [Thread -> Nat]
    /\ cctx \in [Thread -> Svc \cup {None}]
    /\ sub \in [Thread -> {"none", "push", "release", "mark", "delete"}]
    /\ sctx \in [Thread -> Svc \cup {None}]
    /\ smsg \in [Thread -> Msg]
    /\ sent \in Nat

InList(s) == \E k \in DOMAIN global : global[k] = s

\* Thread t has the queue of s in hand: it is the only one to know it, apart
\* from the context of s.
Holds(t, s) == q[t] = s \/ nextq[t] = s \/ cctx[t] = s

\* Thread t runs code of service s: its init or its callback.
Running(t, s) ==
    \/ dctx[t] = s /\ pc[t] \in {"length", "callback", "create", "init",
                                "publish", "orphan", "failed"}
    \/ cctx[t] = s /\ pc[t] = "init"

\* The global queue never has the same service queue twice, never one that a
\* thread has in hand, and no two threads have the same one in hand: what the
\* assertion on next_ in mq_global::push rests on.
OneOwner ==
    /\ \A a, b \in DOMAIN global : global[a] = global[b] => a = b
    /\ \A t \in Thread, s \in Svc : Holds(t, s) => ~ InList(s)
    /\ \A t1, t2 \in Thread, s \in Svc : Holds(t1, s) /\ Holds(t2, s) => t1 = t2
    /\ \A t \in Thread : q[t] # None => q[t] \notin {nextq[t], cctx[t]}

\* At most one thread runs the code of a service at any time: its init, in
\* create_service, or its message callback, in dispatch_message.
SingleThreaded ==
    \A s \in Svc : \A t1, t2 \in Thread :
        Running(t1, s) /\ Running(t2, s) => t1 = t2

\* Nothing deleted is ever used: contexts that are registered or that a
\* thread works on, queues that are listed, in hand or pushed to, are alive.
\* A queue is marked for release once (the assertion in mark_release), when
\* no reference to its context is left.
NoDangling ==
    /\ \A s \in slot : ctx[s] = "alive"
    /\ \A s \in Svc : InList(s) => que[s] = "alive"
    /\ \A t \in Thread :
          /\ q[t] # None => que[q[t]] = "alive"
          /\ nextq[t] # None => que[nextq[t]] = "alive"
          /\ dctx[t] # None => ctx[dctx[t]] = "alive"
          /\ sub[t] # "none" => ctx[sctx[t]] = "alive"
          /\ sub[t] = "push" => que[sctx[t]] = "alive" /\ ~ isRelease[sctx[t]]
          /\ sub[t] = "mark" => /\ que[sctx[t]] = "alive"
                                /\ ~ isRelease[sctx[t]]
                                /\ ref[sctx[t]] = 0

\* A queue with messages, or one that waits to be dropped, is always where a
\* worker will find it: in the global queue or in a thread's hand.  No
\* wakeup is lost between the pop that finds it empty and a push.  (The queue
\* of a service whose init fails is lost: see EveryQueueFreed.)
NoStranding ==
    \A s \in Svc \ MayFail :
        que[s] = "alive" /\ (msgs[s] # <<>> \/ isRelease[s])
            => InList(s) \/ \E t \in Thread : Holds(t, s)

\* svc_count_ counts the contexts that have a queue and are not deleted yet.
CountExact ==
    svcCount = Cardinality({s \in Svc : ctx[s] = "alive" /\ que[s] # "none"})

\* Once svc_count_ is 0 it stays 0: the timer thread, which reads it without
\* a lock to shut the node down, never does so while a service is yet to come.
ZeroIsFinal == [][svcCount = 0 => svcCount' = 0]_svcCount

-----------------------------------------------------------------------------
(***************************************************************************)
(* The message core implements the mailboxes of module Mailbox.            *)
(***************************************************************************)
Life(s) ==
    CASE que[s] = "none"    -> "absent"
      [] que[s] = "deleted" -> "removed"
      [] que[s] = "alive" /\ isRelease[s] -> "gone"
      [] que[s] = "alive" /\ ~ isRelease[s] ->
            IF \E t \in Thread : cctx[t] = s /\ pc[t] = "init"
            THEN "starting" ELSE "open"

MB == INSTANCE Mailbox
        WITH box <- msgs,
             life <- [s \in Svc |-> Life(s)],
             busy <- {s \in Svc : \E t \in Thread : Running(t, s)}

\* dispatch_message, create_service, release_service and the queues together
\* keep the promises of Mailbox, whatever the interleaving of the threads.
ImplementsMailbox == MB!Spec

\* The steps of a thread that the scheduler runs; a callback returns.
Fairness ==
    /\ \A t \in Thread : WF_vars(SubStep(t))
    /\ \A w \in Worker : WF_vars(DispatchStep(w)) /\ WF_vars(CreateStep(w))

FairSpec == Spec /\ Fairness

AllIdle == \A s \in Svc : msgs[s] = <<>>
SomeReleased == \E s \in Svc : isRelease[s]
AllFreed == \A s \in Svc : isRelease[s] => que[s] = "deleted"

\* The queue of a deleted context is deleted in the end: dispatch_message
\* does not put a released queue back into the global queue for ever.
EveryQueueFreed == SomeReleased ~> AllFreed

-----------------------------------------------------------------------------
(***************************************************************************)
(* What comments of the code say and the code does not do.                 *)
(***************************************************************************)

\* The context that create_service releases after a successful init is still
\* there when it sets is_init_, logs and returns it, says the comment on
\* ref_ = 2; another thread may have unregistered and deleted it by then.
CreatedStaysAlive ==
    \A t \in Thread :
        pc[t] = "publish" /\ sub[t] = "none" => ctx[cctx[t]] = "alive"

=============================================================================
