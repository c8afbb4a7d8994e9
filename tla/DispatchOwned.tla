---------------------------- MODULE DispatchOwned ----------------------------
(***************************************************************************)
(* The first layers of the invariant of the message core: types and        *)
(* program points, the lives of contexts and queues, and the owners of the *)
(* queues.  They rest on ref_ being positive as long as anyone refers to   *)
(* the context (Grounded); that it is exact is in module DispatchProofs.   *)
(***************************************************************************)
EXTENDS Dispatch, TLAPS

-----------------------------------------------------------------------------
(***************************************************************************)
(* First layer of the invariant of the message core: the types, with       *)
(* counters that might be negative as far as this layer knows, and what    *)
(* each program point says of the locals of a thread.                      *)
(***************************************************************************)

\* The points of dispatch_message at which a worker has grabbed a context.
Inside == {"pop", "length", "callback", "next", "back", "create", "init",
           "publish", "orphan", "failed"}

\* The points of create_service.
Creating == {"create", "init", "publish", "orphan", "failed"}

PC == {"idle", "grab", "release", "drop"} \cup Inside

\* The types of the shared state.
SharedTypes ==
    /\ global \in Seq(Svc)
    /\ slot \subseteq Svc
    /\ ref \in [Svc -> Int]
    /\ ctx \in [Svc -> {"none", "alive", "deleted"}]
    /\ que \in [Svc -> {"none", "alive", "deleted"}]
    /\ inGlobal \in [Svc -> BOOLEAN]
    /\ isRelease \in [Svc -> BOOLEAN]
    /\ msgs \in [Svc -> Seq(Msg)]
    /\ svcCount \in Int
    /\ sent \in 0 .. MaxMsg

\* The types of the locals of the threads.
LocalTypes ==
    /\ pc \in [Thread -> PC]
    /\ q \in [Thread -> Svc \cup {None}]
    /\ nextq \in [Thread -> Svc \cup {None}]
    /\ dctx \in [Thread -> Svc \cup {None}]
    /\ cctx \in [Thread -> Svc \cup {None}]
    /\ sub \in [Thread -> {"none", "push", "release", "mark", "delete"}]
    /\ sctx \in [Thread -> Svc \cup {None}]

\* The types of the loop of dispatch_message and of the message in flight.
LoopTypes ==
    /\ i \in [Thread -> Nat]
    /\ n \in [Thread -> Nat]
    /\ smsg \in [Thread -> Msg]

\* The locals of thread t.
ControlAt(t) ==
    /\ q[t] # None <=> pc[t] # "idle"
    /\ nextq[t] # None <=> pc[t] = "back"
    /\ pc[t] \in Inside => dctx[t] = q[t]
    /\ pc[t] \notin Inside => dctx[t] = None
    /\ cctx[t] # None <=> pc[t] \in Creating
    /\ sctx[t] # None <=> sub[t] # "none"
    /\ sub[t] # "none" => pc[t] \in {"idle", "grab", "drop", "callback",
                                     "init", "publish", "orphan", "failed"}
    /\ t \in Other => pc[t] = "idle"
    /\ t \in Worker /\ pc[t] = "length" => Weight[t] >= 0

Control == \A t \in Thread : ControlAt(t)

LocalInv == SharedTypes /\ LocalTypes /\ LoopTypes /\ Control

\* A step of thread t leaves the locals of the other threads alone.
OthersStay(t) ==
    \A u \in Thread \ {t} :
        /\ pc'[u] = pc[u] /\ q'[u] = q[u] /\ nextq'[u] = nextq[u]
        /\ dctx'[u] = dctx[u] /\ cctx'[u] = cctx[u]
        /\ sub'[u] = sub[u] /\ sctx'[u] = sctx[u]

\* So that what holds of the locals need only be shown for thread t.
LEMMA ControlMove ==
    ASSUME Control, NEW t \in Thread, OthersStay(t), ControlAt(t)'
    PROVE  Control'
  <1> SUFFICES ASSUME NEW u \in Thread PROVE ControlAt(u)'
    BY Zenon DEF Control
  <1>1. CASE u = t
    BY Zenon, <1>1
  <1>2. CASE u # t
    BY <1>2 DEF Control, ControlAt, OthersStay
  <1> QED BY Zenon, <1>1, <1>2

\* The locals that are set at a program point.
LEMMA Locals ==
    ASSUME LocalTypes, Control, NEW t \in Thread
    PROVE  /\ pc[t] # "idle" => q[t] \in Svc
           /\ pc[t] = "back" => nextq[t] \in Svc
           /\ pc[t] \in Inside => dctx[t] \in Svc /\ dctx[t] = q[t]
           /\ pc[t] \in Creating => cctx[t] \in Svc
           /\ sub[t] # "none" => sctx[t] \in Svc
  <1>1. ControlAt(t)
    BY Zenon DEF Control
  <1>2. /\ q[t] \in Svc \cup {None} /\ nextq[t] \in Svc \cup {None}
        /\ cctx[t] \in Svc \cup {None} /\ sctx[t] \in Svc \cup {None}
    BY Zenon DEF LocalTypes
  <1> QED BY Zenon, <1>1, <1>2 DEF ControlAt, Inside

\* Every step keeps what the program points say of the locals.
LEMMA ControlNext ==
    ASSUME SharedTypes, LocalTypes, Control, [Next]_vars
    PROVE  LocalTypes' /\ Control'
  <1> DEFINE Good(t) == LocalTypes' /\ OthersStay(t) /\ ControlAt(t)'
  <1>a. \A t \in Worker : t \in Thread /\ t \notin Other
    BY Zenon, DispatchAssumption DEF Thread
  <1>c. \A t \in Thread : ControlAt(t)
    BY Zenon DEF Control
  <1>g. global \in Seq(Svc) /\ slot \subseteq Svc
    BY Zenon DEF SharedTypes
  <1> USE <1>c, DispatchAssumption DEF LocalTypes, OthersStay, ControlAt, PC, Inside, Creating,
          regVars, mqVars, runVars, subVars
  <1>1. ASSUME NEW t \in Thread, QueuePush(t) PROVE Good(t)
    BY Zenon, <1>1 DEF QueuePush
  <1>2. ASSUME NEW t \in Thread, Release(t) PROVE Good(t)
    BY <1>2 DEF Release
  <1>3. ASSUME NEW t \in Thread, MarkRelease(t) PROVE Good(t)
    BY Zenon, <1>3 DEF MarkRelease
  <1>4. ASSUME NEW t \in Thread, DeleteContext(t) PROVE Good(t)
    BY Zenon, <1>4 DEF DeleteContext
  <1>5. ASSUME NEW w \in Worker, PopGlobal(w) PROVE Good(w)
    BY <1>5, <1>a, <1>g DEF PopGlobal
  <1>6. ASSUME NEW w \in Worker, GrabContext(w) PROVE Good(w)
    BY SMTT(30), <1>6, <1>a, <1>g DEF GrabContext
  <1>7. ASSUME NEW w \in Worker, ReleaseQueue(w) PROVE Good(w)
    <2>1. CASE isRelease[q[w]] /\ pc' = [pc EXCEPT ![w] = "drop"] /\ UNCHANGED q
      BY Zenon, <1>a, <1>7, <2>1 DEF ReleaseQueue
    <2>2. CASE /\ q' = [q EXCEPT ![w] = None]
               /\ pc' = [pc EXCEPT ![w] = "idle"]
      BY Zenon, <1>a, <1>7, <2>2 DEF ReleaseQueue
    <2> QED BY Zenon, <1>7, <2>1, <2>2 DEF ReleaseQueue
  <1>8. ASSUME NEW w \in Worker, DropMessage(w) PROVE Good(w)
    <2>1. pc[w] = "drop" /\ sub[w] = "none" /\ UNCHANGED <<pc, q, nextq, dctx, cctx>>
      BY Zenon, <1>8 DEF DropMessage
    <2>2. ASSUME NEW s \in slot,
                 sub' = [sub EXCEPT ![w] = "push"],
                 sctx' = [sctx EXCEPT ![w] = s]
          PROVE  Good(w)
      BY <1>a, <1>g, <2>1, <2>2
    <2>3. CASE UNCHANGED <<sub, sctx>>
      BY Zenon, <1>a, <2>1, <2>3
    <2> QED BY Zenon, <1>8, <2>2, <2>3 DEF DropMessage, BeginPush
  <1>9. ASSUME NEW w \in Worker, DeleteQueue(w) PROVE Good(w)
    BY Zenon, <1>9, <1>a, <1>g DEF DeleteQueue
  <1>10. ASSUME NEW w \in Worker, PopMessage(w) PROVE Good(w)
    BY Zenon, <1>10, <1>a, <1>g DEF PopMessage
  <1>11. ASSUME NEW w \in Worker, PopEmpty(w) PROVE Good(w)
    BY SMTT(30), <1>11, <1>a, <1>g DEF PopEmpty, BeginRelease
  <1>12. ASSUME NEW w \in Worker, Length(w) PROVE Good(w)
    BY Zenon, <1>12, <1>a, <1>g DEF Length
  <1>13. ASSUME NEW w \in Worker, EndCallback(w) PROVE Good(w)
    BY Zenon, <1>13, <1>a, <1>g DEF EndCallback
  <1>14. ASSUME NEW w \in Worker, KeepQueue(w) PROVE Good(w)
    BY <1>14, <1>a, <1>g DEF KeepQueue, EndDispatch, BeginRelease
  <1>15. ASSUME NEW w \in Worker, PopNext(w) PROVE Good(w)
    <2>1. Head(global) \in Svc
      BY <1>15, <1>g DEF PopNext
    <2>2. /\ pc[w] = "next" /\ pc' = [pc EXCEPT ![w] = "back"]
          /\ nextq' = [nextq EXCEPT ![w] = Head(global)]
          /\ UNCHANGED <<q, dctx, cctx, sub, sctx>>
      BY Zenon, <1>15 DEF PopNext
    <2> QED BY Zenon, <1>a, <2>1, <2>2
  <1>16. ASSUME NEW w \in Worker, PushBack(w) PROVE Good(w)
    BY SMTT(30), <1>16, <1>a, <1>g DEF PushBack, EndDispatch, BeginRelease
  <1>17. ASSUME NEW w \in Worker, CreateQueue(w) PROVE Good(w)
    BY Zenon, <1>17, <1>a, <1>g DEF CreateQueue
  <1>18. ASSUME NEW w \in Worker, InitOk(w) PROVE Good(w)
    BY Zenon, <1>18, <1>a, <1>g DEF InitOk, BeginRelease
  <1>19. ASSUME NEW w \in Worker, Publish(w) PROVE Good(w)
    BY Zenon, <1>19, <1>a, <1>g DEF Publish
  <1>20. ASSUME NEW w \in Worker, InitFail(w) PROVE Good(w)
    BY Zenon, <1>20, <1>a, <1>g DEF InitFail, BeginRelease
  <1>21. ASSUME NEW w \in Worker, UnregisterFailed(w) PROVE Good(w)
    <2>1. /\ pc[w] = "failed" /\ sub[w] = "none"
          /\ cctx' = [cctx EXCEPT ![w] = None]
          /\ pc' = [pc EXCEPT ![w] = "callback"]
          /\ UNCHANGED <<q, nextq, dctx>>
      BY Zenon, <1>21 DEF UnregisterFailed
    <2>2. CASE cctx[w] \in slot /\ BeginRelease(w, cctx[w])
      BY SMTT(30), <1>a, <1>g, <2>1, <2>2 DEF BeginRelease
    <2>3. CASE UNCHANGED subVars
      BY Zenon, <1>a, <2>1, <2>3
    <2> QED BY Zenon, <1>21, <2>2, <2>3 DEF UnregisterFailed
  <1>22. ASSUME NEW w \in Worker, NEW d \in Svc, Send(w, d) PROVE Good(w)
    BY Zenon, <1>22, <1>a DEF Send, BeginPush
  <1>23. ASSUME NEW w \in Worker, NEW d \in Svc, Unregister(w, d) PROVE Good(w)
    BY Zenon, <1>23, <1>a DEF Unregister, BeginRelease
  <1>24. ASSUME NEW w \in Worker, NEW d \in Svc, CreateContext(w, d) PROVE Good(w)
    BY Zenon, <1>24, <1>a DEF CreateContext
  <1>25. ASSUME NEW t \in Other, NEW d \in Svc, Post(t, d) PROVE Good(t)
    BY Zenon, <1>25 DEF Post, BeginPush, Thread
  <1>26. ASSUME NEW t \in Other, NEW d \in Svc, MarkBlocked(t, d) PROVE Good(t)
    BY Zenon, <1>26 DEF MarkBlocked, BeginRelease, Thread
  <1>27. CASE UNCHANGED vars
    BY Zenon, <1>27 DEF vars, Control
  <1> HIDE <1>c DEF LocalTypes, OthersStay, ControlAt
  <1>28. \/ \E t \in Thread : Good(t)
         \/ UNCHANGED vars
    BY Zenon, <1>a, <1>1, <1>2, <1>3, <1>4, <1>5, <1>6, <1>7, <1>8, <1>9, <1>10,
       <1>11, <1>12, <1>13, <1>14, <1>15, <1>16, <1>17, <1>18, <1>19, <1>20, <1>21, <1>22, <1>23, <1>24, <1>25, <1>26
       DEF Next, SubStep, DispatchStep, ServiceStep, CreateStep, OtherStep, Thread
  <1> QED BY Zenon, <1>27, <1>28, ControlMove

\* Every step keeps the types of what the threads share.
LEMMA SharedNext ==
    ASSUME SharedTypes, LocalTypes, LoopTypes, Control, [Next]_vars
    PROVE  SharedTypes'
  <1>l. \A t \in Thread :
           /\ pc[t] # "idle" => q[t] \in Svc
           /\ pc[t] \in Inside => dctx[t] \in Svc
           /\ pc[t] \in Creating => cctx[t] \in Svc
           /\ sub[t] # "none" => sctx[t] \in Svc
    BY Zenon, Locals
  <1>w. \A w \in Worker : w \in Thread
    BY Zenon DEF Thread
  <1>n. ASSUME UNCHANGED <<global, slot, ref, ctx, que, inGlobal, isRelease, msgs,
                           svcCount, sent>>
        PROVE  SharedTypes'
    BY Zenon, <1>n DEF SharedTypes
  <1> USE DEF regVars, mqVars
  <1>1. ASSUME NEW t \in Thread, QueuePush(t) PROVE SharedTypes'
    <2>1. sctx[t] \in Svc /\ smsg[t] \in Msg
      BY Zenon, <1>l, <1>1 DEF QueuePush, LoopTypes
    <2> QED BY <1>1, <2>1 DEF QueuePush, SharedTypes
  <1>2. ASSUME NEW t \in Thread, Release(t) PROVE SharedTypes'
    BY <1>l, <1>w, <1>2 DEF Release, SharedTypes, Inside, Creating
  <1>3. ASSUME NEW t \in Thread, MarkRelease(t) PROVE SharedTypes'
    BY <1>l, <1>w, <1>3 DEF MarkRelease, SharedTypes, Inside, Creating
  <1>4. ASSUME NEW t \in Thread, DeleteContext(t) PROVE SharedTypes'
    BY <1>l, <1>w, <1>4 DEF DeleteContext, SharedTypes, Inside, Creating
  <1>5. ASSUME NEW w \in Worker, PopGlobal(w) PROVE SharedTypes'
    BY <1>l, <1>w, <1>5 DEF PopGlobal, SharedTypes, Inside, Creating
  <1>6. ASSUME NEW w \in Worker, GrabContext(w) PROVE SharedTypes'
    BY <1>l, <1>w, <1>6 DEF GrabContext, SharedTypes, Inside, Creating
  <1>7. ASSUME NEW w \in Worker, ReleaseQueue(w) PROVE SharedTypes'
    <2>1. q[w] \in Svc
      BY Zenon, <1>l, <1>w, <1>7 DEF ReleaseQueue
    <2>2. global' = global \/ global' = Append(global, q[w])
      BY Zenon, <1>7 DEF ReleaseQueue
    <2>3. UNCHANGED <<slot, ref, ctx, que, inGlobal, isRelease, msgs, svcCount, sent>>
      BY Zenon, <1>7 DEF ReleaseQueue
    <2>4. global \in Seq(Svc)
      BY Zenon DEF SharedTypes
    <2>5. global' \in Seq(Svc)
      BY <2>1, <2>2, <2>4
    <2> QED BY Zenon, <2>3, <2>5 DEF SharedTypes
  <1>8. ASSUME NEW w \in Worker, DropMessage(w) PROVE SharedTypes'
    <2>1. q[w] \in Svc /\ msgs[q[w]] # <<>>
      BY Zenon, <1>l, <1>w, <1>8 DEF DropMessage
    <2>2. Tail(msgs[q[w]]) \in Seq(Msg)
      BY <2>1 DEF SharedTypes
    <2>3. /\ msgs' = [msgs EXCEPT ![q[w]] = Tail(@)]
          /\ UNCHANGED <<global, slot, ctx, que, inGlobal, isRelease, svcCount, sent>>
      BY Zenon, <1>8 DEF DropMessage
    <2>4. ref' = ref \/ \E s \in slot : ref' = [ref EXCEPT ![s] = @ + 1]
      BY Zenon, <1>8 DEF DropMessage, BeginPush
    <2> QED BY <2>1, <2>2, <2>3, <2>4 DEF SharedTypes
  <1>9. ASSUME NEW w \in Worker, DeleteQueue(w) PROVE SharedTypes'
    BY Zenon, <1>l, <1>w, <1>9 DEF DeleteQueue, SharedTypes, Inside, Creating
  <1>10. ASSUME NEW w \in Worker, PopMessage(w) PROVE SharedTypes'
    BY SMTT(30), <1>l, <1>w, <1>10 DEF PopMessage, SharedTypes, Inside, Creating
  <1>11. ASSUME NEW w \in Worker, PopEmpty(w) PROVE SharedTypes'
    BY Zenon, <1>l, <1>w, <1>11 DEF PopEmpty, SharedTypes, Inside, Creating
  <1>12. ASSUME NEW w \in Worker, Length(w) PROVE SharedTypes'
    BY Zenon, <1>n, <1>12 DEF Length
  <1>13. ASSUME NEW w \in Worker, EndCallback(w) PROVE SharedTypes'
    BY Zenon, <1>n, <1>13 DEF EndCallback
  <1>14. ASSUME NEW w \in Worker, KeepQueue(w) PROVE SharedTypes'
    BY Zenon, <1>n, <1>14 DEF KeepQueue
  <1>15. ASSUME NEW w \in Worker, PopNext(w) PROVE SharedTypes'
    BY <1>l, <1>w, <1>15 DEF PopNext, SharedTypes, Inside, Creating
  <1>16. ASSUME NEW w \in Worker, PushBack(w) PROVE SharedTypes'
    BY <1>l, <1>w, <1>16 DEF PushBack, SharedTypes, Inside, Creating
  <1>17. ASSUME NEW w \in Worker, CreateQueue(w) PROVE SharedTypes'
    BY <1>l, <1>w, <1>17 DEF CreateQueue, SharedTypes, Inside, Creating
  <1>18. ASSUME NEW w \in Worker, InitOk(w) PROVE SharedTypes'
    BY Zenon, <1>n, <1>18 DEF InitOk
  <1>19. ASSUME NEW w \in Worker, Publish(w) PROVE SharedTypes'
    BY <1>l, <1>w, <1>19 DEF Publish, SharedTypes, Inside, Creating
  <1>20. ASSUME NEW w \in Worker, InitFail(w) PROVE SharedTypes'
    BY Zenon, <1>n, <1>20 DEF InitFail
  <1>21. ASSUME NEW w \in Worker, UnregisterFailed(w) PROVE SharedTypes'
    BY Zenon, <1>l, <1>w, <1>21 DEF UnregisterFailed, SharedTypes, Inside, Creating
  <1>22. ASSUME NEW w \in Worker, NEW d \in Svc, Send(w, d) PROVE SharedTypes'
    <2>1. /\ d \in slot /\ ref' = [ref EXCEPT ![d] = @ + 1]
          /\ sent < MaxMsg /\ sent' = sent + 1
          /\ UNCHANGED <<global, slot, ctx, que, inGlobal, isRelease, msgs, svcCount>>
      BY Zenon, <1>22 DEF Send, BeginPush
    <2> QED BY <2>1, DispatchAssumption DEF SharedTypes
  <1>23. ASSUME NEW w \in Worker, NEW d \in Svc, Unregister(w, d) PROVE SharedTypes'
    BY Zenon, <1>l, <1>w, <1>23 DEF Unregister, SharedTypes, Inside, Creating
  <1>24. ASSUME NEW w \in Worker, NEW d \in Svc, CreateContext(w, d) PROVE SharedTypes'
    BY <1>l, <1>w, <1>24 DEF CreateContext, SharedTypes, Inside, Creating
  <1>25. ASSUME NEW t \in Other, NEW d \in Svc, Post(t, d) PROVE SharedTypes'
    <2>1. /\ d \in slot /\ ref' = [ref EXCEPT ![d] = @ + 1]
          /\ sent < MaxMsg /\ sent' = sent + 1
          /\ UNCHANGED <<global, slot, ctx, que, inGlobal, isRelease, msgs, svcCount>>
      BY Zenon, <1>25 DEF Post, BeginPush
    <2> QED BY <2>1, DispatchAssumption DEF SharedTypes
  <1>26. ASSUME NEW t \in Other, NEW d \in Svc, MarkBlocked(t, d) PROVE SharedTypes'
    BY <1>l, <1>w, <1>26 DEF MarkBlocked, SharedTypes, Inside, Creating
  <1>27. CASE UNCHANGED vars
    BY Zenon, <1>n, <1>27 DEF vars
  <1> QED BY Zenon, <1>1, <1>2, <1>3, <1>4, <1>5, <1>6, <1>7, <1>8, <1>9, <1>10,
             <1>11, <1>12, <1>13, <1>14, <1>15, <1>16, <1>17, <1>18, <1>19,
             <1>20, <1>21, <1>22, <1>23, <1>24, <1>25, <1>26, <1>27
       DEF Next, SubStep, DispatchStep, ServiceStep, CreateStep, OtherStep

\* Arithmetic of Length.
LEMMA ShareType == \A k \in {1, 2, 3, 4} : Share[k] \in Nat \ {0}
  BY DEF Share

\* The number of messages of a weight is a natural number.
LEMMA DivType ==
    ASSUME NEW a \in Nat, NEW b \in Nat \ {0}
    PROVE  a \div b \in Nat
  OBVIOUS

\* Every step keeps the types of the loop counters and of the message to push.
LEMMA LoopNext ==
    ASSUME SharedTypes, LocalTypes, LoopTypes, Control, [Next]_vars
    PROVE  LoopTypes'
  <1>w. \A w \in Worker : w \in Thread
    BY Zenon DEF Thread
  <1>n. ASSUME UNCHANGED <<i, n, smsg>> PROVE LoopTypes'
    BY Zenon, <1>n DEF LoopTypes
  <1>m. ASSUME NEW t \in Thread, NEW m \in Msg, UNCHANGED <<i, n>>,
               smsg' = [smsg EXCEPT ![t] = m]
        PROVE  LoopTypes'
    BY Zenon, <1>m DEF LoopTypes
  <1> USE DEF runVars, subVars
  <1>1. ASSUME NEW t \in Thread, SubStep(t) PROVE LoopTypes'
    <2>1. NoMsg \in Msg
      BY DispatchAssumption DEF NoMsg, Msg
    <2> QED BY Zenon, <1>1, <1>m, <1>n, <2>1
            DEF SubStep, QueuePush, Release, MarkRelease, DeleteContext
  <1>2. ASSUME NEW w \in Worker, CreateStep(w) PROVE LoopTypes'
    BY Zenon, <1>2, <1>n DEF CreateStep, CreateQueue, InitOk, Publish, InitFail,
       UnregisterFailed, BeginRelease
  <1>3. ASSUME NEW w \in Worker, PopGlobal(w) \/ GrabContext(w) \/ ReleaseQueue(w)
                                   \/ DeleteQueue(w) \/ PopMessage(w) \/ PopNext(w)
        PROVE  LoopTypes'
    BY Zenon, <1>3, <1>n DEF PopGlobal, GrabContext, ReleaseQueue, DeleteQueue,
       PopMessage,
       PopNext
  <1>4. ASSUME NEW w \in Worker, DropMessage(w) PROVE LoopTypes'
    <2>1. q[w] \in Svc
      BY Zenon, <1>4, <1>w, Locals DEF DropMessage
    <2>2. ErrorFor(q[w]) \in Msg
      BY <2>1, DispatchAssumption DEF ErrorFor, Msg
    <2> QED BY Zenon, <1>4, <1>w, <1>m, <1>n, <2>2 DEF DropMessage, BeginPush
  <1>5. ASSUME NEW w \in Worker, PopEmpty(w) \/ KeepQueue(w) \/ PushBack(w)
        PROVE  LoopTypes'
    BY <1>5 DEF PopEmpty, KeepQueue, PushBack, EndDispatch, BeginRelease, LoopTypes
  <1>6. ASSUME NEW w \in Worker, Length(w) PROVE LoopTypes'
    <2>1. q[w] \in Svc /\ Weight[w] \in 0 .. 3
      <3>1. ControlAt(w) /\ pc[w] = "length"
        BY Zenon, <1>6, <1>w DEF Length, Control
      <3>2. q[w] \in Svc
        BY Zenon, <1>w, <3>1, Locals
      <3> QED BY <3>1, <3>2, DispatchAssumption DEF ControlAt
    <2>2. Share[Weight[w] + 1] \in Nat \ {0}
      BY <2>1, ShareType
    <2>3. Len(msgs[q[w]]) \in Nat
      BY <2>1 DEF SharedTypes
    <2> DEFINE k == Len(msgs[q[w]]) \div Share[Weight[w] + 1]
    <2>4. k \in Nat
      BY Zenon, <2>2, <2>3, DivType
    <2>5. n' = [n EXCEPT ![w] = k] /\ UNCHANGED <<i, smsg>>
      BY Zenon, <1>6 DEF Length
    <2> HIDE DEF k
    <2> QED BY ZenonT(30), <2>4, <2>5 DEF LoopTypes
  <1>7. ASSUME NEW w \in Worker, EndCallback(w) PROVE LoopTypes'
    <2>1. i' = [i EXCEPT ![w] = @ + 1] /\ UNCHANGED <<n, smsg>>
      BY Zenon, <1>7 DEF EndCallback
    <2> QED BY <1>w, <2>1 DEF LoopTypes
  <1>8. ASSUME NEW w \in Worker, NEW d \in Svc, Send(w, d) PROVE LoopTypes'
    <2>1. Self(w) \in Svc /\ sent + 1 \in 0 .. MaxMsg
      BY <1>8, <1>w, Locals, DispatchAssumption DEF Send, Self, SharedTypes, Inside, Creating
    <2> DEFINE m == [id |-> sent + 1, src |-> Self(w), type |-> "text"]
    <2>2. m \in Msg
      BY Zenon, <2>1 DEF Msg
    <2>3. smsg' = [smsg EXCEPT ![w] = m] /\ UNCHANGED <<i, n>>
      BY Zenon, <1>8 DEF Send, BeginPush
    <2> HIDE DEF m
    <2> QED BY ZenonT(30), <1>w, <1>m, <2>2, <2>3, Zenon
  <1>9. ASSUME NEW w \in Worker, NEW d \in Svc, Unregister(w, d) \/ CreateContext(w, d)
        PROVE  LoopTypes'
    BY Zenon, <1>9, <1>n DEF Unregister, CreateContext, BeginRelease
  <1>10. ASSUME NEW t \in Other, NEW d \in Svc, Post(t, d) PROVE LoopTypes'
    <2>1. sent + 1 \in 0 .. MaxMsg
      BY <1>10, DispatchAssumption DEF Post, SharedTypes
    <2> DEFINE m == [id |-> sent + 1, src |-> None, type |-> "text"]
    <2>2. m \in Msg
      BY Zenon, <2>1 DEF Msg
    <2>3. smsg' = [smsg EXCEPT ![t] = m] /\ UNCHANGED <<i, n>>
      BY Zenon, <1>10 DEF Post, BeginPush
    <2> HIDE DEF m
    <2> QED BY <1>m, <2>2, <2>3, Zenon DEF Thread
  <1>11. ASSUME NEW t \in Other, NEW d \in Svc, MarkBlocked(t, d) PROVE LoopTypes'
    BY Zenon, <1>11, <1>n DEF MarkBlocked, BeginRelease
  <1>12. CASE UNCHANGED vars
    BY Zenon, <1>12, <1>n DEF vars
  <1> QED BY Zenon, <1>1, <1>2, <1>3, <1>4, <1>5, <1>6, <1>7, <1>8, <1>9, <1>10, <1>11, <1>12
       DEF Next, DispatchStep, ServiceStep, OtherStep

\* Every step keeps the first layer.
LEMMA LocalInvNext == LocalInv /\ [Next]_vars => LocalInv'
  BY Zenon, SharedNext, ControlNext, LoopNext DEF LocalInv

-----------------------------------------------------------------------------
(***************************************************************************)
(* Second layer of the invariant of the message core: the lives of         *)
(* contexts and queues.                                                    *)
(***************************************************************************)

\* ref_ is positive exactly when someone refers to the context: the slot,
\* dispatch_message, push_service_message or release_service under way, or
\* create_service before the release.
Grounded ==
    \A s \in Svc :
        /\ ref[s] \in Nat
        /\ ref[s] > 0 <=> \/ s \in slot
                          \/ \E t \in Thread :
                                \/ dctx[t] = s
                                \/ sctx[t] = s /\ sub[t] \in {"push", "release"}
                                \/ cctx[t] = s /\ pc[t] \in {"create", "init"}

\* What the counts and the program points say about the life of a service.
Lives ==
    /\ \A s \in Svc :
          /\ ref[s] > 0 => ctx[s] = "alive" /\ ~ isRelease[s]
          /\ ctx[s] = "none" => que[s] = "none"
          /\ ctx[s] = "deleted" => isRelease[s]
          /\ que[s] = "deleted" => isRelease[s]
          /\ isRelease[s] => que[s] # "none"
          /\ que[s] = "none" /\ ctx[s] # "none" =>
                \E t \in Thread : pc[t] = "create" /\ cctx[t] = s
    /\ \A t \in Thread :
          /\ cctx[t] # None => ctx[cctx[t]] # "none"
          /\ pc[t] = "create" => que[cctx[t]] = "none"
          /\ pc[t] = "drop" => isRelease[q[t]]
          /\ sub[t] \in {"mark", "delete"} =>
                /\ ref[sctx[t]] = 0
                /\ ctx[sctx[t]] = "alive"
                /\ isRelease[sctx[t]] <=> sub[t] = "delete"
    /\ \A t, u \in Thread :
          /\ cctx[t] # None /\ cctx[t] = cctx[u] => t = u
          /\ {sub[t], sub[u]} \subseteq {"mark", "delete"} /\ sctx[t] = sctx[u]
                => t = u

LifeInv == LocalInv /\ Grounded /\ Lives

\* A context has a positive count exactly when someone refers to it.
LEMMA RefPositive ==
    ASSUME Grounded, NEW s \in Svc
    PROVE  /\ ref[s] \in Nat
           /\ ref[s] > 0 <=> \/ s \in slot
                             \/ \E t \in Thread :
                                   \/ dctx[t] = s
                                   \/ sctx[t] = s /\ sub[t] \in {"push", "release"}
                                   \/ cctx[t] = s /\ pc[t] \in {"create", "init"}
  BY Zenon DEF Grounded

\* What the lemma on lives needs to know of the types.
LifeTypes ==
    /\ slot \subseteq Svc
    /\ ref \in [Svc -> Int]
    /\ ctx \in [Svc -> {"none", "alive", "deleted"}]
    /\ que \in [Svc -> {"none", "alive", "deleted"}]
    /\ isRelease \in [Svc -> BOOLEAN]
    /\ pc \in [Thread -> PC]
    /\ q \in [Thread -> Svc \cup {None}]
    /\ cctx \in [Thread -> Svc \cup {None}]
    /\ sub \in [Thread -> {"none", "push", "release", "mark", "delete"}]
    /\ sctx \in [Thread -> Svc \cup {None}]

\* A step that leaves alone all that Lives speaks of.
LivesStay ==
    /\ UNCHANGED <<ref, ctx, que, isRelease, cctx>>
    /\ \A t \in Thread :
          /\ pc'[t] = "create" <=> pc[t] = "create"
          /\ pc'[t] = "drop" => pc[t] = "drop" /\ q'[t] = q[t]
          /\ sub'[t] \in {"mark", "delete"} => sub'[t] = sub[t] /\ sctx'[t] = sctx[t]

\* The steps that are not like that.
LEMMA LivesFrame ==
    ASSUME LifeTypes, [Next]_vars
    PROVE  \/ LivesStay
           \/ \E t \in Thread : Release(t) \/ MarkRelease(t) \/ DeleteContext(t)
           \/ \E w \in Worker : GrabContext(w) \/ ReleaseQueue(w) \/ DropMessage(w)
                                  \/ DeleteQueue(w)
           \/ \E w \in Worker : CreateQueue(w) \/ UnregisterFailed(w) \/ Publish(w)
           \/ \E w \in Worker, d \in Svc : CreateContext(w, d) \/ Send(w, d)
           \/ \E t \in Other, d \in Svc : Post(t, d) \/ MarkBlocked(t, d)
  <1>t. /\ pc \in [Thread -> PC]
        /\ q \in [Thread -> Svc \cup {None}]
        /\ sub \in [Thread -> {"none", "push", "release", "mark", "delete"}]
        /\ sctx \in [Thread -> Svc \cup {None}]
    BY Zenon DEF LifeTypes
  <1> USE <1>t DEF regVars, mqVars, runVars, subVars
  <1>1. ASSUME NEW t \in Thread, QueuePush(t) PROVE LivesStay
    BY Zenon, <1>1 DEF QueuePush, LivesStay
  <1>2. ASSUME NEW w \in Worker, PopGlobal(w) \/ PopMessage(w) \/ PopNext(w)
        PROVE  LivesStay
    BY Zenon, <1>2 DEF PopGlobal, PopMessage, PopNext, Thread, LivesStay
  <1>3. ASSUME NEW w \in Worker, PopEmpty(w) \/ Length(w) \/ EndCallback(w)
        PROVE  LivesStay
    BY Zenon, <1>3 DEF PopEmpty, BeginRelease, Length, EndCallback, Thread, LivesStay
  <1>4. ASSUME NEW w \in Worker, KeepQueue(w) \/ PushBack(w) PROVE LivesStay
    BY Zenon, <1>4 DEF KeepQueue, PushBack, EndDispatch, BeginRelease, Thread, LivesStay
  <1>5. ASSUME NEW w \in Worker, InitOk(w) \/ InitFail(w) PROVE LivesStay
    BY Zenon, <1>5 DEF InitOk, InitFail, BeginRelease, Thread, LivesStay
  <1>6. ASSUME NEW w \in Worker, NEW d \in Svc, Unregister(w, d) PROVE LivesStay
    BY Zenon, <1>6 DEF Unregister, BeginRelease, Thread, LivesStay
  <1>7. CASE UNCHANGED vars
    BY Zenon, <1>7 DEF vars, LivesStay
  <1> HIDE <1>t DEF regVars, mqVars, runVars, subVars
  <1> QED BY Zenon, <1>1, <1>2, <1>3, <1>4, <1>5, <1>6, <1>7
       DEF Next, SubStep, DispatchStep, ServiceStep, CreateStep, OtherStep

\* The boot services are alive, and nothing else is there.
LEMMA LivesInit == Init => Lives
  BY DispatchAssumption DEF Init, Lives

\* Every step keeps what is said about the life of services.
LEMMA LivesNext == LifeInv /\ [Next]_vars => Lives'
  <1> SUFFICES ASSUME LifeInv, [Next]_vars PROVE Lives'
    OBVIOUS
  <1>t. LifeTypes /\ Lives
    BY Zenon DEF LifeInv, LocalInv, LifeTypes, SharedTypes, LocalTypes
  <1>p. /\ \A s \in slot : ref[s] > 0
        /\ \A t \in Thread : sub[t] \in {"push", "release"} => ref[sctx[t]] > 0
        /\ \A t \in Thread : pc[t] = "create" => ref[cctx[t]] > 0
        /\ \A t \in Thread : pc[t] \in Creating => cctx[t] \in Svc
        /\ \A t \in Thread : pc[t] \notin Creating => cctx[t] = None
        /\ \A t \in Thread : pc[t] # "idle" => q[t] \in Svc
        /\ \A t \in Thread : sub[t] # "none" => sctx[t] \in Svc
    <2>1. /\ \A t \in Thread : sub[t] # "none" => sctx[t] \in Svc
          /\ \A t \in Thread : pc[t] \in Creating => cctx[t] \in Svc
          /\ \A t \in Thread : pc[t] \notin Creating => cctx[t] = None
          /\ \A t \in Thread : pc[t] # "idle" => q[t] \in Svc
      BY Zenon, Locals DEF LifeInv, LocalInv, Control, ControlAt
    <2>2. /\ \A s \in Svc : s \in slot => ref[s] > 0
          /\ \A s \in Svc : \A t \in Thread :
                /\ sctx[t] = s /\ sub[t] \in {"push", "release"} => ref[s] > 0
                /\ cctx[t] = s /\ pc[t] \in {"create", "init"} => ref[s] > 0
      BY Zenon, RefPositive DEF LifeInv
    <2> QED BY Zenon, <1>t, <2>1, <2>2 DEF LifeTypes, Creating
  <1>w. \A w \in Worker : w \in Thread
    BY Zenon DEF Thread
  <1>o. \A t \in Other : t \in Thread
    BY Zenon DEF Thread
  <1> USE <1>t, <1>p DEF LifeTypes, Lives
  <1>1. CASE LivesStay
    BY SMTT(30), <1>1 DEF LivesStay
  <1>2. ASSUME NEW t \in Thread, Release(t) PROVE Lives'
    <2>1. PICK s \in Svc : s = sctx[t] /\ sub[t] = "release" /\ ref[s] > 0
      BY Zenon, <1>2 DEF Release
    <2>2. /\ ref' = [ref EXCEPT ![s] = @ - 1]
          /\ UNCHANGED <<ctx, que, isRelease, q, cctx>>
      BY Zenon, <1>2, <2>1 DEF Release, mqVars
    <2>3. CASE ref[s] = 1
      <3>1. /\ sub' = [sub EXCEPT ![t] = "mark"]
            /\ pc' = [pc EXCEPT ![t] = IF pc[t] = "publish" THEN "orphan" ELSE pc[t]]
            /\ UNCHANGED sctx
        BY Zenon, <1>2, <2>1, <2>3 DEF Release
      <3> QED BY SMTT(30), <2>1, <2>2, <2>3, <3>1
    <2>4. CASE ref[s] # 1
      <3>1. /\ sub' = [sub EXCEPT ![t] = "none"]
            /\ sctx' = [sctx EXCEPT ![t] = None]
            /\ UNCHANGED pc
        BY Zenon, <1>2, <2>1, <2>4 DEF Release
      <3> QED BY SMTT(30), <2>1, <2>2, <2>4, <3>1
    <2> QED BY Zenon, <2>3, <2>4
  <1>3. ASSUME NEW t \in Thread, MarkRelease(t) PROVE Lives'
    BY <1>3 DEF MarkRelease, regVars, runVars
  <1>4. ASSUME NEW t \in Thread, DeleteContext(t) PROVE Lives'
    BY SMTT(30), <1>4 DEF DeleteContext, mqVars, runVars
  <1>5. ASSUME NEW w \in Worker, GrabContext(w) PROVE Lives'
    <2>1. /\ q[w] \in Svc /\ pc[w] = "grab"
          /\ UNCHANGED <<ctx, que, isRelease, q, cctx, sub, sctx>>
      BY Zenon, <1>5, <1>w DEF GrabContext, mqVars, subVars
    <2>2. CASE q[w] \in slot
      <3>1. ref' = [ref EXCEPT ![q[w]] = @ + 1] /\ pc' = [pc EXCEPT ![w] = "pop"]
        BY Zenon, <1>5, <2>2 DEF GrabContext
      <3> QED BY SMTT(30), <1>w, <2>1, <2>2, <3>1
    <2>3. CASE q[w] \notin slot
      <3>1. pc' = [pc EXCEPT ![w] = "release"] /\ ref' = ref
        BY Zenon, <1>5, <2>3 DEF GrabContext
      <3> QED BY SMTT(30), <1>w, <2>1, <3>1
    <2> QED BY Zenon, <2>2, <2>3
  <1>6. ASSUME NEW w \in Worker, ReleaseQueue(w) PROVE Lives'
    <2>1. /\ pc[w] = "release"
          /\ UNCHANGED <<ref, ctx, que, isRelease, cctx, sub, sctx>>
      BY Zenon, <1>6 DEF ReleaseQueue, regVars, subVars
    <2>2. CASE isRelease[q[w]] /\ pc' = [pc EXCEPT ![w] = "drop"] /\ UNCHANGED q
      BY <1>w, <2>1, <2>2
    <2>3. CASE q' = [q EXCEPT ![w] = None] /\ pc' = [pc EXCEPT ![w] = "idle"]
      BY SMTT(30), <1>w, <2>1, <2>3
    <2> QED BY Zenon, <1>6, <2>2, <2>3 DEF ReleaseQueue
  <1>g. ASSUME NEW t \in Thread, NEW s \in slot, NEW p \in {"push", "release"},
               sub[t] = "none",
               sub' = [sub EXCEPT ![t] = p],
               sctx' = [sctx EXCEPT ![t] = s],
               ref' = [ref EXCEPT ![s] = @ + 1],
               UNCHANGED <<ctx, que, isRelease, cctx, pc, q>>
        PROVE  Lives'
    <2>1. \A x \in Svc : (ref'[x] > 0 => ref[x] > 0) /\ (ref[x] = 0 => ref'[x] = 0)
      BY <1>g
    <2>2. \A u \in Thread :
             sub'[u] \in {"mark", "delete"} => sub'[u] = sub[u] /\ sctx'[u] = sctx[u]
      BY <1>g
    <2>3. Lives /\ \A u \in Thread : sub[u] # "none" => sctx[u] \in Svc
      OBVIOUS
    <2>4. UNCHANGED <<ctx, que, isRelease, cctx, pc, q>>
      BY Zenon, <1>g
    <2> HIDE <1>t, <1>p DEF LifeTypes
    <2> QED BY SMTT(30), <2>1, <2>2, <2>3, <2>4
  <1>7. ASSUME NEW w \in Worker, DropMessage(w) PROVE Lives'
    <2>1. sub[w] = "none" /\ UNCHANGED <<ctx, que, isRelease, q, cctx, pc>>
      BY Zenon, <1>7 DEF DropMessage, runVars
    <2>2. CASE UNCHANGED <<ref, subVars>>
      BY <2>1, <2>2 DEF subVars
    <2> HIDE <1>t, <1>p DEF LifeTypes, Lives
    <2>3. ASSUME NEW x, NEW m, BeginPush(w, x, m) PROVE Lives'
      BY ZenonT(30), <1>g, <1>w, <2>1, <2>3 DEF BeginPush
    <2> QED BY Zenon, <1>7, <2>2, <2>3 DEF DropMessage
  <1>8. ASSUME NEW w \in Worker, DeleteQueue(w) PROVE Lives'
    BY <1>8, <1>w DEF DeleteQueue, regVars, subVars
  <1>9. ASSUME NEW w \in Worker, CreateQueue(w) PROVE Lives'
    <2>1. PICK c \in Svc : c = cctx[w] /\ pc[w] = "create"
      BY Zenon, <1>9, <1>w DEF CreateQueue, Creating
    <2>2. /\ que' = [que EXCEPT ![c] = "alive"]
          /\ pc' = [pc EXCEPT ![w] = "init"]
          /\ UNCHANGED <<ref, ctx, isRelease, q, cctx, sub, sctx>>
      BY Zenon, <1>9, <2>1 DEF CreateQueue, subVars
    <2>3. ctx[c] = "alive" /\ que[c] = "none" /\ \A u \in Thread : cctx[u] = c => u = w
      <3>1. ref[c] > 0 /\ que[c] = "none"
        BY Zenon, <1>w, <2>1
      <3>2. ctx[c] = "alive"
        BY Zenon, <3>1
      <3>3. ASSUME NEW u \in Thread, cctx[u] = c PROVE u = w
        <4>1. cctx[u] # None /\ cctx[u] = cctx[w]
          BY <2>1, <3>3, DispatchAssumption
        <4> QED BY Zenon, <1>w, <4>1
      <3> QED BY Zenon, <3>1, <3>2, <3>3
    <2>4. /\ \A s \in Svc \ {c} : que'[s] = que[s]
          /\ que'[c] = "alive"
          /\ \A u \in Thread \ {w} : pc'[u] = pc[u]
          /\ pc'[w] = "init"
      BY <1>w, <2>2
    <2>5. ~ isRelease[c]
      BY Zenon, <2>3
    <2> HIDE <1>t DEF LifeTypes
    <2> QED BY <1>t, <1>w, <2>1, <2>2, <2>3, <2>4, <2>5
  <1>10. ASSUME NEW w \in Worker, Publish(w) PROVE Lives'
    BY SMTT(30), <1>10, <1>w DEF Publish, regVars, subVars
  <1>11. ASSUME NEW w \in Worker, UnregisterFailed(w) PROVE Lives'
    <2>1. /\ pc[w] = "failed" /\ sub[w] = "none"
          /\ cctx' = [cctx EXCEPT ![w] = None]
          /\ pc' = [pc EXCEPT ![w] = "callback"]
          /\ UNCHANGED <<ref, ctx, que, isRelease, q>>
      BY Zenon, <1>11 DEF UnregisterFailed, mqVars
    <2>2. CASE UNCHANGED <<sub, sctx>>
      BY SMTT(30), <1>w, <2>1, <2>2
    <2>3. CASE BeginRelease(w, cctx[w])
      BY SMTT(30), <1>w, <2>1, <2>3 DEF BeginRelease
    <2> QED BY Zenon, <1>11, <2>2, <2>3 DEF UnregisterFailed, subVars
  <1>12. ASSUME NEW w \in Worker, NEW d \in Svc, CreateContext(w, d) PROVE Lives'
    BY <1>12, <1>w DEF CreateContext, mqVars, subVars, Creating
  <1> HIDE <1>t, <1>p DEF LifeTypes, Lives
  <1>13. ASSUME NEW w \in Worker, NEW d \in Svc, Send(w, d) PROVE Lives'
    BY ZenonT(30), <1>g, <1>w, <1>13 DEF Send, BeginPush, mqVars, runVars
  <1>14. ASSUME NEW t \in Other, NEW d \in Svc, Post(t, d) \/ MarkBlocked(t, d) PROVE Lives'
    BY Zenon, <1>g, <1>o, <1>14 DEF Post, MarkBlocked, BeginPush, BeginRelease, mqVars, runVars
  <1> QED BY Zenon, <1>t, <1>1, <1>2, <1>3, <1>4, <1>5, <1>6, <1>7, <1>8, <1>9, <1>10,
             <1>11, <1>12, <1>13, <1>14, LivesFrame

-----------------------------------------------------------------------------
(***************************************************************************)
(* Third layer of the invariant of the message core: who has a queue in    *)
(* hand, and that the source of every message has, or had, a queue.        *)
(***************************************************************************)

\* The global queue has each service queue once.
Once == \A a, b \in DOMAIN global : global[a] = global[b] => a = b

\* A queue is listed or in one thread's hand, and alive while it is; one that
\* is neither flagged nor marked is in nobody's hand, so that push may list it.
QueueOwned(s) ==
    /\ \A t \in Thread : Holds(t, s) => ~ InList(s)
    /\ \A t, u \in Thread : Holds(t, s) /\ Holds(u, s) => t = u
    /\ InList(s) => que[s] = "alive"
    /\ que[s] = "alive" /\ ~ inGlobal[s] /\ ~ isRelease[s] =>
          ~ InList(s) /\ \A t \in Thread : ~ Holds(t, s)

\* The queues in a thread's hand are different ones, and alive.
HandOwned(t) ==
    /\ q[t] # None => q[t] # nextq[t] /\ q[t] # cctx[t] /\ que[q[t]] = "alive"
    /\ nextq[t] # None => que[nextq[t]] = "alive"
    /\ pc[t] \in Creating \ {"create"} => que[cctx[t]] = "alive"

Owned ==
    /\ Once
    /\ \A s \in Svc : QueueOwned(s)
    /\ \A t \in Thread : HandOwned(t)

\* The source of a message has, or had, a queue, and so has the destination
\* of a push under way.
KnownSource(m) == m.src # None => que[m.src] # "none"

BoxOk(s) == \A k \in DOMAIN msgs[s] : KnownSource(msgs[s][k])

PushOk(t) == KnownSource(smsg[t]) /\ (sub[t] = "push" => que[sctx[t]] # "none")

Sources == (\A s \in Svc : BoxOk(s)) /\ (\A t \in Thread : PushOk(t))

OwnInv == LifeInv /\ Owned /\ Sources

\* mq_global::push of a queue that is not listed.
LEMMA ListAppend ==
    ASSUME global \in Seq(Svc), Once, NEW s \in Svc, ~ InList(s),
           global' = Append(global, s)
    PROVE  /\ Once'
           /\ \A x \in Svc : InList(x)' <=> InList(x) \/ x = s
  <1>1. /\ DOMAIN global = 1 .. Len(global) /\ Len(global) \in Nat
        /\ DOMAIN global' = 1 .. Len(global) + 1
        /\ \A k \in 1 .. Len(global) : global'[k] = global[k]
        /\ global'[Len(global) + 1] = s
    OBVIOUS
  <1>2. Once'
    BY <1>1 DEF Once, InList
  <1>3. ASSUME NEW x \in Svc PROVE InList(x)' <=> InList(x) \/ x = s
    BY <1>1 DEF InList
  <1> QED BY Zenon, <1>2, <1>3

\* mq_global::pop of the queue at the head.
LEMMA ListPop ==
    ASSUME global \in Seq(Svc), Once, global # <<>>, global' = Tail(global)
    PROVE  /\ Head(global) \in Svc /\ InList(Head(global))
           /\ Once'
           /\ \A x \in Svc : InList(x)' <=> InList(x) /\ x # Head(global)
  <1>1. /\ DOMAIN global = 1 .. Len(global) /\ Len(global) \in Nat \ {0}
        /\ DOMAIN global' = 1 .. Len(global) - 1
        /\ \A k \in 1 .. Len(global) - 1 : global'[k] = global[k + 1]
        /\ Head(global) = global[1] /\ global[1] \in Svc
    OBVIOUS
  <1>2. Once'
    BY <1>1 DEF Once
  <1>3. InList(Head(global))
    BY <1>1 DEF InList
  <1>4. ASSUME NEW x \in Svc PROVE InList(x)' <=> InList(x) /\ x # Head(global)
    <2>1. ASSUME NEW k \in DOMAIN global, global[k] = x, x # Head(global)
          PROVE  InList(x)'
      <3>1. k # 1 /\ k - 1 \in DOMAIN global' /\ global'[k - 1] = x
        BY <1>1, <2>1
      <3> QED BY Zenon, <3>1 DEF InList
    <2>2. ASSUME NEW k \in DOMAIN global', global'[k] = x
          PROVE  InList(x) /\ x # Head(global)
      <3>1. k + 1 \in DOMAIN global /\ global[k + 1] = x /\ k + 1 # 1 /\ 1 \in DOMAIN global
        BY <1>1, <2>2
      <3> QED BY Zenon, <1>1, <3>1 DEF InList, Once
    <2> QED BY Zenon, <2>1, <2>2 DEF InList
  <1> QED BY Zenon, <1>1, <1>2, <1>3, <1>4

\* A step that leaves the global queue alone.
LEMMA ListSame ==
    ASSUME global' = global, Once
    PROVE  Once' /\ \A x \in Svc : InList(x)' <=> InList(x)
  BY Zenon DEF Once, InList

\* Ownership holds at the start: the boot queues are listed once each.
LEMMA OwnedInit == Init => Owned /\ Sources
  <1> SUFFICES ASSUME Init PROVE Owned /\ Sources
    OBVIOUS
  <1>1. \A k \in DOMAIN global : global[k] \in Boot
    BY Zenon DEF Init
  <1>2. /\ Once
        /\ \A s \in Svc : InList(s) => s \in Boot
    BY <1>1 DEF Init, Once, InList
  <1>3. /\ \A s \in Boot : que[s] = "alive" /\ inGlobal[s]
        /\ \A s \in Svc \ Boot : que[s] = "none"
        /\ \A t \in Thread : /\ q[t] = None /\ nextq[t] = None /\ cctx[t] = None
                            /\ pc[t] = "idle"
    BY ZenonT(30), DispatchAssumption DEF Init
  <1>4. Owned
    BY <1>2, <1>3, DispatchAssumption DEF Owned, QueueOwned, HandOwned, Holds, Creating
  <1>5. Sources
    <2>1. PICK b \in Boot :
            msgs = [d \in Svc |-> IF d \in Boot
                                  THEN <<[id |-> 0, src |-> b, type |-> "text"]>>
                                  ELSE <<>>]
      BY Zenon DEF Init
    <2>2. b \in Svc /\ que[b] = "alive"
      BY Zenon, DispatchAssumption DEF Init
    <2>3. ASSUME NEW s \in Svc, NEW k \in DOMAIN msgs[s] PROVE KnownSource(msgs[s][k])
      BY <2>1, <2>2, <2>3 DEF KnownSource
    <2>4. \A t \in Thread : smsg[t].src = None /\ sub[t] = "none"
      BY Zenon DEF Init, NoMsg
    <2> QED BY Zenon, <2>3, <2>4 DEF Sources, BoxOk, PushOk, KnownSource
  <1> QED BY Zenon, <1>4, <1>5

\* What the lemma on ownership needs to know of types and program points.
OwnTypes ==
    /\ global \in Seq(Svc)
    /\ que \in [Svc -> {"none", "alive", "deleted"}]
    /\ inGlobal \in [Svc -> BOOLEAN]
    /\ isRelease \in [Svc -> BOOLEAN]
    /\ pc \in [Thread -> PC]
    /\ q \in [Thread -> Svc \cup {None}]
    /\ nextq \in [Thread -> Svc \cup {None}]
    /\ cctx \in [Thread -> Svc \cup {None}]
    /\ \A t \in Thread : /\ q[t] # None <=> pc[t] # "idle"
                         /\ nextq[t] # None <=> pc[t] = "back"
                         /\ cctx[t] # None <=> pc[t] \in Creating

\* A step that leaves alone all that Owned speaks of.
OwnedStay ==
    /\ UNCHANGED <<global, que, inGlobal, isRelease, q, nextq, cctx>>
    /\ \A t \in Thread :
          pc'[t] \in Creating \ {"create"} => pc[t] \in Creating \ {"create"}

\* The steps that are not like that.
LEMMA OwnedFrame ==
    ASSUME OwnTypes, [Next]_vars
    PROVE  \/ OwnedStay
           \/ \E t \in Thread : QueuePush(t) \/ MarkRelease(t)
           \/ \E w \in Worker : PopGlobal(w) \/ ReleaseQueue(w) \/ DeleteQueue(w)
                                  \/ PopEmpty(w) \/ PopNext(w) \/ PushBack(w)
           \/ \E w \in Worker : CreateQueue(w) \/ UnregisterFailed(w) \/ Publish(w)
           \/ \E w \in Worker, d \in Svc : CreateContext(w, d)
  <1>t. pc \in [Thread -> PC] /\ q \in [Thread -> Svc \cup {None}]
    BY Zenon DEF OwnTypes
  <1> USE <1>t DEF regVars, mqVars, runVars, subVars
  <1>1. ASSUME NEW t \in Thread, Release(t) \/ DeleteContext(t) PROVE OwnedStay
    BY Zenon, <1>1 DEF Release, DeleteContext, OwnedStay, Creating
  <1>2. ASSUME NEW w \in Worker, GrabContext(w) \/ DropMessage(w) \/ PopMessage(w)
        PROVE  OwnedStay
    BY Zenon, <1>2 DEF GrabContext, DropMessage, PopMessage, Thread, OwnedStay, Creating
  <1>3. ASSUME NEW w \in Worker, Length(w) \/ EndCallback(w) \/ KeepQueue(w)
        PROVE  OwnedStay
    BY Zenon, <1>3 DEF Length, EndCallback, KeepQueue, EndDispatch, Thread, OwnedStay, Creating
  <1>4. ASSUME NEW w \in Worker, InitOk(w) \/ InitFail(w) PROVE OwnedStay
    BY Zenon, <1>4 DEF InitOk, InitFail, Thread, OwnedStay, Creating
  <1>5. ASSUME NEW w \in Worker, NEW d \in Svc, Send(w, d) \/ Unregister(w, d)
        PROVE  OwnedStay
    BY Zenon, <1>5 DEF Send, Unregister, OwnedStay
  <1>6. ASSUME NEW t \in Other, OtherStep(t) PROVE OwnedStay
    BY Zenon, <1>6 DEF OtherStep, Post, MarkBlocked, OwnedStay
  <1>7. CASE UNCHANGED vars
    BY Zenon, <1>7 DEF vars, OwnedStay
  <1> HIDE <1>t DEF regVars, mqVars, runVars, subVars
  <1> QED BY Zenon, <1>1, <1>2, <1>3, <1>4, <1>5, <1>6, <1>7
       DEF Next, SubStep, DispatchStep, ServiceStep, CreateStep

\* A service that create_service has not begun with has no queue, and no
\* thread is creating it.
LEMMA NotBegun ==
    ASSUME OwnInv, NEW d \in Svc, ctx[d] = "none"
    PROVE  que[d] = "none" /\ \A t \in Thread : cctx[t] # d
  <1>1. /\ ctx[d] = "none" => que[d] = "none"
        /\ \A t \in Thread : cctx[t] # None => ctx[cctx[t]] # "none"
    BY Zenon DEF OwnInv, LifeInv, Lives
  <1> QED BY Zenon, <1>1, DispatchAssumption

\* A step in which one queue moves to or from the hand of one thread, and no
\* other thread has it in hand.
LEMMA QueueMoves ==
    ASSUME OwnTypes, Owned, NEW w \in Thread, NEW s \in Svc, Once',
           \A t \in Thread \ {w} :
              /\ ~ Holds(t, s)
              /\ q'[t] = q[t] /\ nextq'[t] = nextq[t] /\ cctx'[t] = cctx[t]
              /\ pc'[t] = pc[t],
           \A x \in Svc \ {s} :
              /\ InList(x)' => InList(x)
              /\ Holds(w, x)' => Holds(w, x)
              /\ que'[x] = que[x] /\ inGlobal'[x] = inGlobal[x]
              /\ isRelease'[x] = isRelease[x],
           InList(s)' => que'[s] = "alive" /\ ~ Holds(w, s)',
           que'[s] = "alive" /\ ~ inGlobal'[s] /\ ~ isRelease'[s]
              => ~ InList(s)' /\ ~ Holds(w, s)',
           HandOwned(w)'
    PROVE  Owned'
  <1>1. ASSUME NEW t \in Thread \ {w}, NEW x \in Svc PROVE Holds(t, x)' <=> Holds(t, x)
    BY Zenon DEF Holds
  <1>2. ASSUME NEW x \in Svc PROVE QueueOwned(x)'
    <2>1. CASE x = s
      <3>1. \A t \in Thread : Holds(t, s)' => t = w
        BY Zenon, <1>1
      <3> QED BY Zenon, <2>1, <3>1 DEF QueueOwned
    <2>2. CASE x # s
      <3>1. \A t \in Thread : Holds(t, x)' => Holds(t, x)
        BY Zenon, <1>1, <2>2
      <3>2. QueueOwned(x)
        BY Zenon DEF Owned
      <3> QED BY Zenon, <2>2, <3>1, <3>2 DEF QueueOwned
    <2> QED BY Zenon, <2>1, <2>2
  <1>3. ASSUME NEW t \in Thread, t # w PROVE HandOwned(t)'
    <2>1. HandOwned(t) /\ ~ Holds(t, s)
      BY Zenon, <1>3 DEF Owned
    <2>2. /\ q[t] \in Svc \cup {None} /\ nextq[t] \in Svc \cup {None}
          /\ cctx[t] \in Svc \cup {None}
          /\ pc[t] \in Creating => cctx[t] # None
      BY Zenon DEF OwnTypes
    <2>3. \A x \in Svc : Holds(t, x) => que'[x] = que[x]
      BY Zenon, <2>1
    <2> QED BY <1>3, <2>1, <2>2, <2>3 DEF HandOwned, Holds
  <1> QED BY Zenon, <1>2, <1>3 DEF Owned

\* Every step keeps ownership: a queue is listed only by the thread that has
\* it in hand, or by a push or mark_release that finds it in nobody's hand.
LEMMA OwnedNext == OwnInv /\ [Next]_vars => Owned'
  <1> SUFFICES ASSUME OwnInv, [Next]_vars PROVE Owned'
    OBVIOUS
  <1>t. OwnTypes /\ Owned
    BY Zenon DEF OwnInv, LifeInv, LocalInv, SharedTypes, LocalTypes, Control, ControlAt, OwnTypes
  <1>w. \A w \in Worker : w \in Thread
    BY Zenon DEF Thread
  <1>l. ASSUME global' = global
        PROVE  Once' /\ \A x \in Svc : InList(x)' <=> InList(x)
    BY Zenon, <1>t, <1>l, ListSame DEF Owned
  <1>e. \* a queue that is no longer, or not yet, in anyone's hand goes to the list
        ASSUME NEW s \in Svc, ~ InList(s), global' = Append(global, s)
        PROVE  Once' /\ \A x \in Svc : InList(x)' <=> InList(x) \/ x = s
    BY Zenon, <1>t, <1>e, ListAppend DEF Owned, OwnTypes
  <1>p. \* its head is taken
        ASSUME global # <<>>, global' = Tail(global)
        PROVE  \E s \in Svc : /\ s = Head(global) /\ InList(s) /\ Once'
                              /\ \A x \in Svc : InList(x)' <=> InList(x) /\ x # s
    BY Zenon, <1>t, <1>p, ListPop DEF Owned, OwnTypes
  <1>1. ASSUME NEW t \in Thread, QueuePush(t) PROVE Owned'
    <2>1. PICK s \in Svc : s = sctx[t] /\ que[s] = "alive" /\ ~ isRelease[s]
      <3>1. sctx[t] \in Svc /\ sub[t] = "push"
        BY Zenon, <1>1, Locals DEF QueuePush, OwnInv, LifeInv, LocalInv
      <3>2. ref[sctx[t]] > 0 /\ que[sctx[t]] # "none"
        BY Zenon, <3>1, RefPositive DEF OwnInv, LifeInv, Sources, PushOk
      <3>3. ~ isRelease[sctx[t]]
        BY Zenon, <3>1, <3>2 DEF OwnInv, LifeInv, Lives
      <3>4. que[sctx[t]] = "alive"
        BY SMTT(30), <1>t, <3>1, <3>2, <3>3 DEF OwnInv, LifeInv, Lives, OwnTypes
      <3> QED BY Zenon, <3>1, <3>3, <3>4
    <2>2. /\ inGlobal' = [inGlobal EXCEPT ![s] = TRUE]
          /\ global' = IF inGlobal[s] THEN global ELSE Append(global, s)
          /\ UNCHANGED <<que, isRelease, pc, q, nextq, cctx>>
      BY Zenon, <1>1, <2>1 DEF QueuePush, runVars
    <2>3. CASE inGlobal[s]
      BY SMTT(30), <1>t, <1>l, <2>1, <2>2, <2>3 DEF Owned, QueueOwned, HandOwned, OwnTypes, Holds
    <2>4. CASE ~ inGlobal[s]
      <3>1. ~ InList(s) /\ \A u \in Thread : ~ Holds(u, s)
        BY Zenon, <1>t, <2>1, <2>4 DEF Owned, QueueOwned
      <3>2. Once' /\ \A x \in Svc : InList(x)' <=> InList(x) \/ x = s
        BY Zenon, <1>e, <2>2, <2>4, <3>1
      <3> QED BY SMTT(30), <1>t, <2>1, <2>2, <3>1, <3>2 DEF Owned, QueueOwned, HandOwned, OwnTypes, Holds
    <2> QED BY Zenon, <2>3, <2>4
  <1>2. ASSUME NEW t \in Thread, MarkRelease(t) PROVE Owned'
    <2>1. PICK s \in Svc : s = sctx[t] /\ que[s] = "alive" /\ ~ isRelease[s]
      <3>1. sctx[t] \in Svc /\ sub[t] = "mark"
        BY Zenon, <1>2, Locals DEF MarkRelease, OwnInv, LifeInv, LocalInv
      <3>2. ref[sctx[t]] = 0 /\ ctx[sctx[t]] = "alive" /\ ~ isRelease[sctx[t]]
        BY Zenon, <3>1 DEF OwnInv, LifeInv, Lives
      <3>3. ASSUME que[sctx[t]] = "none" PROVE FALSE
        <4>1. ctx[sctx[t]] # "none"
          BY Zenon, <3>2
        <4>2. PICK u \in Thread : pc[u] = "create" /\ cctx[u] = sctx[t]
          BY Zenon, <3>1, <3>3, <4>1 DEF OwnInv, LifeInv, Lives
        <4>3. ref[sctx[t]] > 0
          BY Zenon, <3>1, <4>2, RefPositive DEF OwnInv, LifeInv
        <4> QED BY <3>2, <4>3
      <3>4. que[sctx[t]] = "alive"
        BY SMTT(30), <1>t, <3>1, <3>2, <3>3 DEF OwnInv, LifeInv, Lives, OwnTypes
      <3> QED BY Zenon, <3>1, <3>2, <3>4
    <2>2. /\ isRelease' = [isRelease EXCEPT ![s] = TRUE]
          /\ global' = IF inGlobal[s] THEN global ELSE Append(global, s)
          /\ UNCHANGED <<que, inGlobal, pc, q, nextq, cctx>>
      BY Zenon, <1>2, <2>1 DEF MarkRelease, runVars
    <2>3. CASE inGlobal[s]
      BY SMTT(30), <1>t, <1>l, <2>1, <2>2, <2>3 DEF Owned, QueueOwned, HandOwned, OwnTypes, Holds
    <2>4. CASE ~ inGlobal[s]
      <3>1. ~ InList(s) /\ \A u \in Thread : ~ Holds(u, s)
        BY Zenon, <1>t, <2>1, <2>4 DEF Owned, QueueOwned
      <3>2. Once' /\ \A x \in Svc : InList(x)' <=> InList(x) \/ x = s
        BY Zenon, <1>e, <2>2, <2>4, <3>1
      <3> QED BY SMTT(30), <1>t, <2>1, <2>2, <3>1, <3>2 DEF Owned, QueueOwned, HandOwned, OwnTypes, Holds
    <2> QED BY Zenon, <2>3, <2>4
  <1>3. CASE OwnedStay
    <2>1. /\ UNCHANGED <<que, inGlobal, isRelease, q, nextq, cctx>>
          /\ \A t \in Thread :
                pc'[t] \in Creating \ {"create"} => pc[t] \in Creating \ {"create"}
          /\ Once' /\ \A x \in Svc : InList(x)' <=> InList(x)
      BY Zenon, <1>3, <1>l DEF OwnedStay
    <2>2. ASSUME NEW x \in Svc PROVE QueueOwned(x)'
      BY Zenon, <1>t, <2>1 DEF Owned, QueueOwned, Holds
    <2>3. ASSUME NEW t \in Thread PROVE HandOwned(t)'
      BY Zenon, <1>t, <2>1 DEF Owned, HandOwned
    <2> QED BY Zenon, <2>1, <2>2, <2>3 DEF Owned
  <1>h. \* what is in hand when, and that a queue in hand is in no other hand
        ASSUME NEW w \in Worker
        PROVE  /\ w \in Thread
               /\ q[w] # None <=> pc[w] # "idle"
               /\ nextq[w] # None <=> pc[w] = "back"
               /\ cctx[w] # None <=> pc[w] \in Creating
               /\ {q[w], nextq[w], cctx[w]} \subseteq Svc \cup {None}
               /\ HandOwned(w)
               /\ \A s \in Svc : Holds(w, s) =>
                     /\ ~ InList(s)
                     /\ \A t \in Thread \ {w} : ~ Holds(t, s)
                     /\ que[s] = "alive" => inGlobal[s] \/ isRelease[s]
    BY Zenon, <1>t, <1>w DEF OwnTypes, Owned, QueueOwned
  <1>n. None \notin Svc
    BY Zenon, DispatchAssumption
  <1>f. pc \in [Thread -> PC] /\ q \in [Thread -> Svc \cup {None}]
        /\ nextq \in [Thread -> Svc \cup {None}] /\ cctx \in [Thread -> Svc \cup {None}]
        /\ que \in [Svc -> {"none", "alive", "deleted"}] /\ inGlobal \in [Svc -> BOOLEAN]
    BY Zenon, <1>t DEF OwnTypes
  <1>4. ASSUME NEW w \in Worker, PopGlobal(w) PROVE Owned'
    <2>1. PICK s \in Svc : /\ s = Head(global) /\ InList(s) /\ Once'
                           /\ \A x \in Svc : InList(x)' <=> InList(x) /\ x # s
      BY Zenon, <1>4, <1>p DEF PopGlobal
    <2>2. /\ pc[w] = "idle" /\ q' = [q EXCEPT ![w] = s] /\ pc' = [pc EXCEPT ![w] = "grab"]
          /\ UNCHANGED <<que, inGlobal, isRelease, nextq, cctx>>
      BY Zenon, <1>4, <2>1 DEF PopGlobal
    <2>3. /\ que[s] = "alive" /\ (inGlobal[s] \/ isRelease[s])
          /\ \A t \in Thread : ~ Holds(t, s)
      BY Zenon, <1>t, <2>1 DEF Owned, QueueOwned
    <2>4. HandOwned(w)' /\ \A x \in Svc : x # s => (Holds(w, x)' => Holds(w, x))
      BY Zenon, <1>f, <1>h, <1>n, <2>2, <2>3 DEF HandOwned, Holds, Creating
    <2> QED BY Zenon, <1>f, <1>h, <1>t, <2>1, <2>2, <2>3, <2>4, QueueMoves
  <1>5. ASSUME NEW w \in Worker, ReleaseQueue(w) PROVE Owned'
    <2>1. CASE UNCHANGED <<global, q>> /\ pc' = [pc EXCEPT ![w] = "drop"]
      <3>1. OwnedStay
        BY Zenon, <1>5, <1>f, <2>1 DEF ReleaseQueue, OwnedStay, Creating
      <3> QED BY Zenon, <1>3, <3>1
    <2>2. CASE /\ global' = Append(global, q[w])
               /\ q' = [q EXCEPT ![w] = None] /\ pc' = [pc EXCEPT ![w] = "idle"]
      <3>1. PICK s \in Svc : s = q[w] /\ Holds(w, s) /\ que[s] = "alive"
        BY Zenon, <1>5, <1>h DEF ReleaseQueue, HandOwned, Holds
      <3>2. pc[w] = "release" /\ UNCHANGED <<que, inGlobal, isRelease, nextq, cctx>>
        BY Zenon, <1>5 DEF ReleaseQueue
      <3>3. Once' /\ \A x \in Svc : InList(x)' <=> InList(x) \/ x = s
        BY Zenon, <1>e, <1>h, <2>2, <3>1
      <3>4. HandOwned(w)' /\ \A x \in Svc : Holds(w, x)' => Holds(w, x) /\ x # s
        BY <1>f, <1>h, <1>n, <2>2, <3>1, <3>2 DEF HandOwned, Holds, Creating
      <3> QED BY Zenon, <1>f, <1>h, <1>t, <2>2, <3>1, <3>2, <3>3, <3>4, QueueMoves
    <2> QED BY Zenon, <1>5, <2>1, <2>2 DEF ReleaseQueue
  <1>6. ASSUME NEW w \in Worker, DeleteQueue(w) PROVE Owned'
    <2>1. PICK s \in Svc : s = q[w] /\ Holds(w, s)
      BY Zenon, <1>6, <1>h DEF DeleteQueue, Holds
    <2>2. /\ pc[w] = "drop"
          /\ inGlobal' = [inGlobal EXCEPT ![s] = FALSE] /\ que' = [que EXCEPT ![s] = "deleted"]
          /\ q' = [q EXCEPT ![w] = None] /\ pc' = [pc EXCEPT ![w] = "idle"]
          /\ UNCHANGED <<global, isRelease, nextq, cctx>>
      BY Zenon, <1>6, <2>1 DEF DeleteQueue
    <2>3. HandOwned(w)' /\ \A x \in Svc : Holds(w, x)' => Holds(w, x) /\ x # s
      BY <1>f, <1>h, <1>n, <2>1, <2>2 DEF HandOwned, Holds, Creating
    <2> QED BY Zenon, <1>f, <1>h, <1>l, <1>t, <2>1, <2>2, <2>3, QueueMoves
  <1>7. ASSUME NEW w \in Worker, PopEmpty(w) PROVE Owned'
    <2>1. PICK s \in Svc : s = q[w] /\ Holds(w, s)
      BY Zenon, <1>7, <1>h DEF PopEmpty, Holds
    <2>2. /\ pc[w] = "pop" /\ inGlobal' = [inGlobal EXCEPT ![s] = FALSE]
          /\ q' = [q EXCEPT ![w] = None] /\ pc' = [pc EXCEPT ![w] = "idle"]
          /\ UNCHANGED <<global, que, isRelease, nextq, cctx>>
      BY Zenon, <1>7, <2>1 DEF PopEmpty
    <2>3. HandOwned(w)' /\ \A x \in Svc : Holds(w, x)' => Holds(w, x) /\ x # s
      BY <1>f, <1>h, <1>n, <2>1, <2>2 DEF HandOwned, Holds, Creating
    <2> QED BY Zenon, <1>f, <1>h, <1>l, <1>t, <2>1, <2>2, <2>3, QueueMoves
  <1>8. ASSUME NEW w \in Worker, PopNext(w) PROVE Owned'
    <2>1. PICK s \in Svc : /\ s = Head(global) /\ InList(s) /\ Once'
                           /\ \A x \in Svc : InList(x)' <=> InList(x) /\ x # s
      BY Zenon, <1>8, <1>p DEF PopNext
    <2>2. /\ pc[w] = "next" /\ nextq' = [nextq EXCEPT ![w] = s]
          /\ pc' = [pc EXCEPT ![w] = "back"]
          /\ UNCHANGED <<que, inGlobal, isRelease, q, cctx>>
      BY Zenon, <1>8, <2>1 DEF PopNext
    <2>3. /\ que[s] = "alive" /\ (inGlobal[s] \/ isRelease[s])
          /\ \A t \in Thread : ~ Holds(t, s)
      BY Zenon, <1>t, <2>1 DEF Owned, QueueOwned
    <2>4. HandOwned(w)' /\ \A x \in Svc : x # s => (Holds(w, x)' => Holds(w, x))
      BY Zenon, <1>f, <1>h, <1>n, <2>2, <2>3 DEF HandOwned, Holds, Creating
    <2> QED BY Zenon, <1>f, <1>h, <1>t, <2>1, <2>2, <2>3, <2>4, QueueMoves
  <1>9. ASSUME NEW w \in Worker, PushBack(w) PROVE Owned'
    <2>1. PICK s \in Svc : s = q[w] /\ Holds(w, s) /\ que[s] = "alive"
      BY Zenon, <1>9, <1>h DEF PushBack, HandOwned, Holds
    <2>2. /\ pc[w] = "back" /\ global' = Append(global, s)
          /\ q' = [q EXCEPT ![w] = nextq[w]] /\ nextq' = [nextq EXCEPT ![w] = None]
          /\ pc' = [pc EXCEPT ![w] = "grab"]
          /\ UNCHANGED <<que, inGlobal, isRelease, cctx>>
      BY Zenon, <1>9, <2>1 DEF PushBack, EndDispatch
    <2>3. Once' /\ \A x \in Svc : InList(x)' <=> InList(x) \/ x = s
      BY Zenon, <1>e, <1>h, <2>1, <2>2
    <2>4. HandOwned(w)' /\ \A x \in Svc : Holds(w, x)' => Holds(w, x) /\ x # s
      BY <1>f, <1>h, <1>n, <2>1, <2>2 DEF HandOwned, Holds, Creating
    <2> QED BY Zenon, <1>f, <1>h, <1>t, <2>1, <2>2, <2>3, <2>4, QueueMoves
  <1>10. ASSUME NEW w \in Worker, CreateQueue(w) PROVE Owned'
    <2>1. PICK s \in Svc : s = cctx[w] /\ Holds(w, s)
      BY Zenon, <1>10, <1>h DEF CreateQueue, Holds, Creating
    <2>2. /\ pc[w] = "create"
          /\ inGlobal' = [inGlobal EXCEPT ![s] = TRUE] /\ que' = [que EXCEPT ![s] = "alive"]
          /\ pc' = [pc EXCEPT ![w] = "init"]
          /\ UNCHANGED <<global, isRelease, q, nextq, cctx>>
      BY Zenon, <1>10, <2>1 DEF CreateQueue
    <2>3. HandOwned(w)' /\ \A x \in Svc : Holds(w, x)' => Holds(w, x)
      BY Zenon, <1>f, <1>h, <1>n, <2>1, <2>2 DEF HandOwned, Holds, Creating
    <2> QED BY Zenon, <1>f, <1>h, <1>l, <1>t, <2>1, <2>2, <2>3, QueueMoves
  <1>11. ASSUME NEW w \in Worker, Publish(w) PROVE Owned'
    <2>1. PICK s \in Svc : s = cctx[w] /\ Holds(w, s) /\ que[s] = "alive"
      BY <1>11, <1>h DEF Publish, HandOwned, Holds, Creating
    <2>2. /\ pc[w] \in Creating /\ global' = Append(global, s)
          /\ cctx' = [cctx EXCEPT ![w] = None] /\ pc' = [pc EXCEPT ![w] = "callback"]
          /\ UNCHANGED <<que, inGlobal, isRelease, q, nextq>>
      BY Zenon, <1>11, <2>1 DEF Publish, Creating
    <2>3. Once' /\ \A x \in Svc : InList(x)' <=> InList(x) \/ x = s
      BY Zenon, <1>e, <1>h, <2>1, <2>2
    <2>4. HandOwned(w)' /\ \A x \in Svc : Holds(w, x)' => Holds(w, x) /\ x # s
      BY <1>f, <1>h, <1>n, <2>1, <2>2 DEF HandOwned, Holds, Creating
    <2> QED BY Zenon, <1>f, <1>h, <1>t, <2>1, <2>2, <2>3, <2>4, QueueMoves
  <1>12. ASSUME NEW w \in Worker, UnregisterFailed(w) PROVE Owned'
    <2>1. PICK s \in Svc : s = cctx[w] /\ Holds(w, s)
      BY Zenon, <1>12, <1>h DEF UnregisterFailed, Holds, Creating
    <2>2. /\ pc[w] = "failed"
          /\ cctx' = [cctx EXCEPT ![w] = None] /\ pc' = [pc EXCEPT ![w] = "callback"]
          /\ UNCHANGED <<global, que, inGlobal, isRelease, q, nextq>>
      BY Zenon, <1>12 DEF UnregisterFailed, mqVars
    <2>3. HandOwned(w)' /\ \A x \in Svc : Holds(w, x)' => Holds(w, x) /\ x # s
      BY <1>f, <1>h, <1>n, <2>1, <2>2 DEF HandOwned, Holds, Creating
    <2> QED BY Zenon, <1>f, <1>h, <1>l, <1>t, <2>1, <2>2, <2>3, QueueMoves
  <1>13. ASSUME NEW w \in Worker, NEW d \in Svc, CreateContext(w, d) PROVE Owned'
    <2>1. /\ pc[w] = "callback" /\ ctx[d] = "none"
          /\ cctx' = [cctx EXCEPT ![w] = d] /\ pc' = [pc EXCEPT ![w] = "create"]
          /\ UNCHANGED <<global, que, inGlobal, isRelease, q, nextq>>
      BY Zenon, <1>13 DEF CreateContext, mqVars
    <2>2. que[d] = "none" /\ \A t \in Thread : cctx[t] # d
      BY Zenon, <2>1, NotBegun
    <2>3. ~ InList(d) /\ \A t \in Thread : ~ Holds(t, d)
      BY Zenon, <1>f, <1>n, <1>t, <2>2 DEF Owned, QueueOwned, HandOwned, Holds
    <2>4. HandOwned(w)' /\ \A x \in Svc : x # d => (Holds(w, x)' => Holds(w, x))
      BY Zenon, <1>f, <1>h, <1>n, <2>1, <2>3 DEF HandOwned, Holds, Creating
    <2> QED BY Zenon, <1>f, <1>h, <1>l, <1>t, <2>1, <2>2, <2>3, <2>4, QueueMoves
  <1> QED BY Zenon, <1>1, <1>2, <1>3, <1>4, <1>5, <1>6, <1>7, <1>8, <1>9, <1>10, <1>11,
             <1>12, <1>13, <1>t, OwnedFrame

=============================================================================
