---------------------------- MODULE DispatchProofs --------------------------
(***************************************************************************)
(* The theorems of the message core.  Its inductive invariant has layers,  *)
(* each proved from the ones before it: types, program points, the lives   *)
(* of contexts and queues and the owners of the queues (DispatchOwned),    *)
(* the counts (DispatchCounts), and here the sources of the messages.      *)
(* That a queue with messages is never lost needs one more, Found, which   *)
(* only holds when no init fails; and that the core implements Mailbox,    *)
(* what a mailbox sees of each step.                                       *)
(***************************************************************************)
EXTENDS DispatchCounts

-----------------------------------------------------------------------------
(***************************************************************************)
(* The source of every message has, or had, a queue.                       *)
(***************************************************************************)

\* The messages after an append.
LEMMA SeqAppend ==
    ASSUME NEW S, NEW z \in Seq(S), NEW e
    PROVE  \A k \in DOMAIN Append(z, e) :
              Append(z, e)[k] = e \/ \E j \in DOMAIN z : Append(z, e)[k] = z[j]
  OBVIOUS

\* The messages after the first has been taken.
LEMMA SeqTail ==
    ASSUME NEW S, NEW z \in Seq(S), z # <<>>
    PROVE  /\ 1 \in DOMAIN z /\ Head(z) = z[1]
           /\ \A k \in DOMAIN Tail(z) : k + 1 \in DOMAIN z /\ Tail(z)[k] = z[k + 1]
  OBVIOUS

\* What the lemma on sources needs to know of the types.
SourceTypes ==
    /\ slot \subseteq Svc
    /\ que \in [Svc -> {"none", "alive", "deleted"}]
    /\ sub \in [Thread -> {"none", "push", "release", "mark", "delete"}]
    /\ sctx \in [Thread -> Svc \cup {None}]
    /\ smsg \in [Thread -> Msg]

\* A step that leaves alone all that Sources speaks of.
SourcesStay ==
    /\ UNCHANGED <<msgs, que, smsg>>
    /\ \A t \in Thread : sub'[t] = "push" => sub[t] = "push" /\ sctx'[t] = sctx[t]

\* The steps that are not like that.
LEMMA SourcesFrame ==
    ASSUME SourceTypes, [Next]_vars
    PROVE  \/ SourcesStay
           \/ \E t \in Thread : QueuePush(t)
           \/ \E w \in Worker : DropMessage(w) \/ DeleteQueue(w) \/ PopMessage(w)
           \/ \E w \in Worker : CreateQueue(w)
           \/ \E w \in Worker, d \in Svc : Send(w, d)
           \/ \E t \in Other, d \in Svc : Post(t, d)
  <1>t. /\ sub \in [Thread -> {"none", "push", "release", "mark", "delete"}]
        /\ sctx \in [Thread -> Svc \cup {None}]
    BY Zenon DEF SourceTypes
  <1> USE <1>t DEF regVars, mqVars, runVars, subVars
  <1>1. ASSUME NEW t \in Thread, Release(t) \/ MarkRelease(t) \/ DeleteContext(t)
        PROVE  SourcesStay
    BY Zenon, <1>1 DEF Release, MarkRelease, DeleteContext, SourcesStay
  <1>2. ASSUME NEW w \in Worker, PopGlobal(w) \/ GrabContext(w) \/ ReleaseQueue(w)
                                   \/ Length(w) \/ EndCallback(w) \/ PopNext(w)
        PROVE  SourcesStay
    BY Zenon, <1>2 DEF PopGlobal, GrabContext, ReleaseQueue, Length, EndCallback, PopNext,
       SourcesStay
  <1>3. ASSUME NEW w \in Worker, PopEmpty(w) \/ KeepQueue(w) \/ PushBack(w)
        PROVE  SourcesStay
    BY Zenon, <1>3 DEF PopEmpty, KeepQueue, PushBack, EndDispatch, BeginRelease, Thread,
       SourcesStay
  <1>4. ASSUME NEW w \in Worker, InitOk(w) \/ Publish(w) \/ InitFail(w) PROVE SourcesStay
    BY Zenon, <1>4 DEF InitOk, Publish, InitFail, BeginRelease, Thread, SourcesStay
  <1>5. ASSUME NEW w \in Worker, UnregisterFailed(w) PROVE SourcesStay
    BY Zenon, <1>5 DEF UnregisterFailed, BeginRelease, Thread, SourcesStay
  <1>6. ASSUME NEW w \in Worker, NEW d \in Svc, Unregister(w, d) \/ CreateContext(w, d)
        PROVE  SourcesStay
    BY Zenon, <1>6 DEF Unregister, CreateContext, BeginRelease, Thread, SourcesStay
  <1>7. ASSUME NEW t \in Other, NEW d \in Svc, MarkBlocked(t, d) PROVE SourcesStay
    BY Zenon, <1>7 DEF MarkBlocked, BeginRelease, Thread, SourcesStay
  <1>8. CASE UNCHANGED vars
    BY Zenon, <1>8 DEF vars, SourcesStay
  <1> HIDE <1>t DEF regVars, mqVars, runVars, subVars
  <1> QED BY Zenon, <1>1, <1>2, <1>3, <1>4, <1>5, <1>6, <1>7, <1>8
       DEF Next, SubStep, DispatchStep, ServiceStep, CreateStep, OtherStep

\* Every step keeps the sources of messages known.
LEMMA SourcesNext == OwnInv /\ [Next]_vars => Sources'
  <1> SUFFICES ASSUME OwnInv, [Next]_vars PROVE Sources'
    OBVIOUS
  <1>t. SourceTypes /\ Sources
    BY Zenon DEF OwnInv, LifeInv, LocalInv, SharedTypes, LocalTypes, LoopTypes, SourceTypes
  <1>b. msgs \in [Svc -> Seq(Msg)]
    BY Zenon DEF OwnInv, LifeInv, LocalInv, SharedTypes
  <1>l. \A t \in Thread :
           /\ pc[t] # "idle" => q[t] \in Svc
           /\ pc[t] \in Creating => cctx[t] \in Svc
           /\ pc[t] \in Inside => dctx[t] = q[t]
           /\ sub[t] # "none" => sctx[t] \in Svc
    BY Zenon, Locals DEF OwnInv, LifeInv, LocalInv
  <1>w. \A w \in Worker : w \in Thread
    BY Zenon DEF Thread
  <1>m. \A t \in Thread : smsg[t].src \in Svc \cup {None}
    BY Zenon, <1>t DEF SourceTypes, Msg
  <1>q. ASSUME UNCHANGED msgs, \A s \in Svc : que[s] # "none" => que'[s] # "none"
        PROVE  \A s \in Svc : BoxOk(s)'
    <2>1. ASSUME NEW s \in Svc, NEW k \in DOMAIN msgs[s]
          PROVE  msgs[s][k].src # None => que'[msgs[s][k].src] # "none"
      <3>1. msgs[s] \in Seq(Msg) /\ msgs[s][k] \in Msg
        BY <1>b, <2>1
      <3>2. msgs[s][k].src \in Svc \cup {None} /\ KnownSource(msgs[s][k])
        BY Zenon, <1>t, <2>1, <3>1 DEF Msg, Sources, BoxOk
      <3> QED BY Zenon, <1>q, <3>2 DEF KnownSource
    <2> QED BY Zenon, <1>q, <2>1 DEF BoxOk, KnownSource
  <1>h. ASSUME NEW w \in Worker, q[w] \in Svc, msgs[q[w]] # <<>>, UNCHANGED que,
               msgs' = [msgs EXCEPT ![q[w]] = Tail(@)]
        PROVE  \A s \in Svc : BoxOk(s)'
    <2> SUFFICES ASSUME NEW s \in Svc, NEW k \in DOMAIN msgs'[s]
                 PROVE  msgs'[s][k].src # None => que'[msgs'[s][k].src] # "none"
      BY Zenon DEF BoxOk, KnownSource
    <2>1. \E j \in DOMAIN msgs[s] : msgs'[s][k] = msgs[s][j]
      <3>1. CASE s = q[w]
        <4>1. msgs[s] \in Seq(Msg) /\ msgs'[s] = Tail(msgs[s])
          BY Zenon, <1>b, <1>h, <3>1
        <4> QED BY <1>h, <3>1, <4>1, SeqTail
      <3>2. CASE s # q[w]
        BY Zenon, <1>b, <1>h, <3>2
      <3> QED BY Zenon, <3>1, <3>2
    <2> QED BY Zenon, <1>t, <1>h, <2>1 DEF Sources, BoxOk, KnownSource
  <1>p. ASSUME NEW t \in Thread, NEW d \in Svc, que[d] # "none", NEW m, KnownSource(m),
               UNCHANGED que,
               sub' = [sub EXCEPT ![t] = "push"],
               sctx' = [sctx EXCEPT ![t] = d],
               smsg' = [smsg EXCEPT ![t] = m]
        PROVE  \A u \in Thread : PushOk(u)'
    BY Zenon, <1>t, <1>m, <1>p DEF Sources, SourceTypes, PushOk, KnownSource
  <1>1. CASE SourcesStay
    <2>1. \A t \in Thread : PushOk(t)'
      BY Zenon, <1>t, <1>1 DEF SourcesStay, Sources, PushOk, KnownSource
    <2> QED BY Zenon, <1>q, <1>1, <2>1 DEF SourcesStay, Sources
  <1>2. ASSUME NEW t \in Thread, QueuePush(t) PROVE Sources'
    <2>1. PICK s \in Svc : s = sctx[t]
      BY Zenon, <1>l, <1>2 DEF QueuePush
    <2>2. /\ msgs' = [msgs EXCEPT ![s] = Append(@, smsg[t])]
          /\ sub' = [sub EXCEPT ![t] = "release"]
          /\ smsg' = [smsg EXCEPT ![t] = NoMsg]
          /\ UNCHANGED <<que, sctx>>
      BY Zenon, <1>2, <2>1 DEF QueuePush
    <2>3. ASSUME NEW x \in Svc PROVE BoxOk(x)'
      <3>1. CASE x = s
        <4>1. msgs[s] \in Seq(Msg) /\ msgs'[x] = Append(msgs[s], smsg[t])
          BY Zenon, <1>b, <2>2, <3>1
        <4>2. \A k \in DOMAIN msgs'[x] :
                 msgs'[x][k] = smsg[t] \/ \E j \in DOMAIN msgs[s] : msgs'[x][k] = msgs[s][j]
          BY <4>1, SeqAppend
        <4> QED BY <1>t, <2>2, <4>2 DEF Sources, BoxOk, PushOk, KnownSource
      <3>2. CASE x # s
        BY Zenon, <1>t, <1>b, <2>2, <3>2 DEF Sources, BoxOk, KnownSource
      <3> QED BY Zenon, <3>1, <3>2
    <2>4. NoMsg.src = None
      BY Zenon DEF NoMsg
    <2>5. \A u \in Thread : PushOk(u)'
      BY Zenon, <1>t, <1>m, <2>2, <2>4 DEF Sources, SourceTypes, PushOk, KnownSource
    <2> QED BY Zenon, <2>3, <2>5 DEF Sources
  <1>3. ASSUME NEW w \in Worker, DropMessage(w) PROVE Sources'
    <2>1. PICK s \in Svc : s = q[w]
      BY Zenon, <1>l, <1>w, <1>3 DEF DropMessage
    <2> DEFINE m == Head(msgs[s])
    <2>2. /\ msgs[s] # <<>> /\ UNCHANGED que
          /\ msgs' = [msgs EXCEPT ![q[w]] = Tail(@)]
      BY Zenon, <1>3, <2>1 DEF DropMessage
    <2>3. \A x \in Svc : BoxOk(x)'
      BY ZenonT(30), <1>h, <2>1, <2>2
    <2>4. KnownSource(m)
      <3>1. 1 \in DOMAIN msgs[s] /\ m = msgs[s][1]
        BY Zenon, <1>b, <2>2, SeqTail
      <3> QED BY Zenon, <1>t, <3>1 DEF Sources, BoxOk
    <2>5. que[s] = "alive"
      BY Zenon, <1>w, <2>1, DispatchAssumption DEF OwnInv, Owned, HandOwned
    <2>6. CASE UNCHANGED <<ref, subVars>>
      <3>1. \A t \in Thread : PushOk(t)'
        BY Zenon, <1>t, <2>2, <2>6 DEF subVars, Sources, PushOk, KnownSource
      <3> QED BY Zenon, <2>3, <3>1 DEF Sources
    <2>7. CASE BeginPush(w, m.src, ErrorFor(s))
      <3>1. /\ m.src \in Svc
            /\ sub' = [sub EXCEPT ![w] = "push"]
            /\ sctx' = [sctx EXCEPT ![w] = m.src]
            /\ smsg' = [smsg EXCEPT ![w] = ErrorFor(s)]
        BY Zenon, <1>t, <2>7 DEF BeginPush, SourceTypes
      <3>2. KnownSource(ErrorFor(s))
        BY Zenon, <2>5 DEF ErrorFor, KnownSource
      <3>3. que[m.src] # "none"
        BY Zenon, <2>4, <3>1, DispatchAssumption DEF KnownSource
      <3> HIDE DEF m
      <3>4. \A u \in Thread : PushOk(u)'
        BY ZenonT(30), <1>p, <1>w, <2>2, <3>1, <3>2, <3>3
      <3> QED BY Zenon, <2>3, <3>4 DEF Sources
    <2> QED BY Zenon, <1>3, <2>1, <2>6, <2>7 DEF DropMessage
  <1>4. ASSUME NEW w \in Worker, DeleteQueue(w) \/ CreateQueue(w) PROVE Sources'
    <2>1. /\ \A s \in Svc : que[s] # "none" => que'[s] # "none"
          /\ UNCHANGED <<msgs, sub, sctx, smsg>>
      BY Zenon, <1>t, <1>4 DEF DeleteQueue, CreateQueue, SourceTypes, subVars
    <2>2. \A u \in Thread : PushOk(u)'
      BY Zenon, <1>t, <1>l, <1>m, <2>1 DEF Sources, PushOk, KnownSource
    <2> QED BY Zenon, <1>q, <2>1, <2>2 DEF Sources
  <1>5. ASSUME NEW w \in Worker, PopMessage(w) PROVE Sources'
    <2>1. /\ q[w] \in Svc /\ msgs[q[w]] # <<>>
          /\ msgs' = [msgs EXCEPT ![q[w]] = Tail(@)]
          /\ UNCHANGED <<que, sub, sctx, smsg>>
      BY Zenon, <1>l, <1>w, <1>5 DEF PopMessage, subVars
    <2>2. \A s \in Svc : BoxOk(s)'
      BY ZenonT(30), <1>h, <2>1
    <2>3. \A t \in Thread : PushOk(t)'
      BY Zenon, <1>t, <2>1 DEF Sources, PushOk, KnownSource
    <2> QED BY Zenon, <2>2, <2>3 DEF Sources
  <1>6. ASSUME NEW w \in Worker, NEW d \in Svc, Send(w, d) PROVE Sources'
    <2> DEFINE m == [id |-> sent + 1, src |-> Self(w), type |-> "text"]
    <2>1. /\ UNCHANGED <<msgs, que>> /\ que[d] # "none"
          /\ sub' = [sub EXCEPT ![w] = "push"]
          /\ sctx' = [sctx EXCEPT ![w] = d]
          /\ smsg' = [smsg EXCEPT ![w] = m]
      BY Zenon, <1>6 DEF Send, BeginPush, mqVars
    <2>2. que[Self(w)] = "alive"
      <3>1. pc[w] \in {"callback", "init"}
        BY Zenon, <1>6 DEF Send
      <3>2. CASE pc[w] = "init"
        BY Zenon, <1>w, <3>2 DEF Self, Creating, OwnInv, Owned, HandOwned
      <3>3. CASE pc[w] = "callback"
        <4>1. q[w] \in Svc /\ Self(w) = q[w]
          BY Zenon, <1>l, <1>w, <3>3 DEF Self, Inside
        <4> QED BY Zenon, <1>w, <4>1, DispatchAssumption DEF OwnInv, Owned, HandOwned
      <3> QED BY Zenon, <3>1, <3>2, <3>3
    <2>3. KnownSource(m)
      BY Zenon, <2>2 DEF KnownSource
    <2> HIDE DEF m
    <2>4. \A u \in Thread : PushOk(u)'
      BY ZenonT(30), <1>p, <1>w, <2>1, <2>3
    <2> QED BY Zenon, <1>q, <2>1, <2>4 DEF Sources
  <1>7. ASSUME NEW t \in Other, NEW d \in Svc, Post(t, d) PROVE Sources'
    <2> DEFINE m == [id |-> sent + 1, src |-> None, type |-> "text"]
    <2>1. /\ UNCHANGED <<msgs, que>> /\ que[d] # "none"
          /\ sub' = [sub EXCEPT ![t] = "push"]
          /\ sctx' = [sctx EXCEPT ![t] = d]
          /\ smsg' = [smsg EXCEPT ![t] = m]
      BY Zenon, <1>7 DEF Post, BeginPush, mqVars
    <2>2. KnownSource(m) /\ t \in Thread
      BY Zenon DEF KnownSource, Thread
    <2> HIDE DEF m
    <2>3. \A u \in Thread : PushOk(u)'
      BY ZenonT(30), <1>p, <2>1, <2>2
    <2> QED BY Zenon, <1>q, <2>1, <2>3 DEF Sources
  <1> QED BY Zenon, <1>t, <1>1, <1>2, <1>3, <1>4, <1>5, <1>6, <1>7, SourcesFrame

-----------------------------------------------------------------------------
(***************************************************************************)
(* A queue with something in it is found, unless the init of its service   *)
(* has failed.                                                             *)
(***************************************************************************)

\* mq_global::push of any queue.
LEMMA ListAfter ==
    ASSUME global \in Seq(Svc), NEW s \in Svc, global' = Append(global, s)
    PROVE  \A x \in Svc : InList(x)' <=> InList(x) \/ x = s
  <1>1. /\ DOMAIN global = 1 .. Len(global) /\ Len(global) \in Nat
        /\ DOMAIN global' = 1 .. Len(global) + 1
        /\ \A k \in 1 .. Len(global) : global'[k] = global[k]
        /\ global'[Len(global) + 1] = s
    OBVIOUS
  <1> QED BY <1>1 DEF InList

\* A worker will come across the queue of s.
At(s) == InList(s) \/ \E t \in Thread : Holds(t, s)

\* Where a queue with something in it is, when the init of its service does
\* not fail.
Found ==
    /\ \A t \in Thread : pc[t] = "failed" => cctx[t] \in MayFail
    /\ \A s \in Svc \ MayFail :
          que[s] = "alive" /\ (inGlobal[s] \/ isRelease[s]) => At(s)
    /\ \A s \in Svc : ~ inGlobal[s] => msgs[s] = <<>>

\* create_service reaches its failure path with a service that may fail.
LEMMA MayHaveFailed ==
    ASSUME pc \in [Thread -> PC], cctx \in [Thread -> Svc \cup {None}], Found, [Next]_vars
    PROVE  \A t \in Thread : pc'[t] = "failed" => cctx'[t] \in MayFail
  <1> DEFINE Good == \A t \in Thread : pc'[t] = "failed" => cctx'[t] \in MayFail
  <1>a. \A t \in Thread : pc[t] = "failed" => cctx[t] \in MayFail
    BY Zenon DEF Found
  <1> USE <1>a DEF runVars
  <1>1. ASSUME NEW t \in Thread, SubStep(t) PROVE Good
    BY Zenon, <1>1 DEF SubStep, QueuePush, Release, MarkRelease, DeleteContext
  <1>2. ASSUME NEW w \in Worker, PopGlobal(w) \/ GrabContext(w) \/ ReleaseQueue(w)
                                   \/ DropMessage(w) \/ DeleteQueue(w) \/ PopMessage(w)
        PROVE  Good
    BY Zenon, <1>2 DEF PopGlobal, GrabContext, ReleaseQueue, DropMessage, DeleteQueue, PopMessage
  <1>3. ASSUME NEW w \in Worker, PopEmpty(w) \/ Length(w) \/ EndCallback(w) \/ KeepQueue(w)
                                   \/ PopNext(w) \/ PushBack(w)
        PROVE  Good
    BY Zenon, <1>3 DEF PopEmpty, Length, EndCallback, KeepQueue, PopNext, PushBack, EndDispatch
  <1>4. ASSUME NEW w \in Worker, CreateStep(w) PROVE Good
    BY Zenon, <1>4 DEF CreateStep, CreateQueue, InitOk, Publish, InitFail, UnregisterFailed
  <1>5. ASSUME NEW w \in Worker, NEW d \in Svc,
               Send(w, d) \/ Unregister(w, d) \/ CreateContext(w, d)
        PROVE  Good
    BY Zenon, <1>5 DEF Send, Unregister, CreateContext
  <1>6. ASSUME NEW t \in Other, OtherStep(t) PROVE Good
    BY Zenon, <1>6 DEF OtherStep, Post, MarkBlocked
  <1>7. ASSUME UNCHANGED vars PROVE Good
    BY Zenon, <1>7 DEF vars
  <1> HIDE <1>a DEF Good, runVars
  <1>8. ASSUME NEW w \in Worker, DispatchStep(w) PROVE Good
    BY Zenon, <1>2, <1>3, <1>8 DEF DispatchStep
  <1>9. ASSUME NEW w \in Worker, ServiceStep(w) PROVE Good
    BY Zenon, <1>4, <1>5, <1>9 DEF ServiceStep
  <1>10. Good
    BY Zenon, <1>1, <1>6, <1>7, <1>8, <1>9 DEF Next
  <1> QED BY Zenon, <1>10 DEF Good

\* A step that leaves alone all that Found speaks of, but for "failed".
FoundStay == UNCHANGED <<global, que, inGlobal, isRelease, msgs, q, nextq, cctx>>

\* The steps that are not like that.
LEMMA FoundFrame ==
    ASSUME OwnTypes, [Next]_vars
    PROVE  \/ FoundStay
           \/ \E t \in Thread : QueuePush(t) \/ MarkRelease(t)
           \/ \E w \in Worker : PopGlobal(w) \/ ReleaseQueue(w) \/ DropMessage(w)
                                  \/ DeleteQueue(w) \/ PopMessage(w) \/ PopEmpty(w)
                                  \/ PopNext(w) \/ PushBack(w)
           \/ \E w \in Worker : CreateQueue(w) \/ UnregisterFailed(w) \/ Publish(w)
           \/ \E w \in Worker, d \in Svc : CreateContext(w, d)
  <1>t. q \in [Thread -> Svc \cup {None}]
    BY Zenon DEF OwnTypes
  <1> USE DEF mqVars, runVars, FoundStay
  <1>1. ASSUME NEW t \in Thread, Release(t) \/ DeleteContext(t) PROVE FoundStay
    BY Zenon, <1>1 DEF Release, DeleteContext
  <1>2. ASSUME NEW w \in Worker, GrabContext(w) \/ Length(w) \/ EndCallback(w) PROVE FoundStay
    BY Zenon, <1>2 DEF GrabContext, Length, EndCallback
  <1>3. ASSUME NEW w \in Worker, KeepQueue(w) PROVE FoundStay
    BY Zenon, <1>t, <1>3 DEF KeepQueue, EndDispatch
  <1>4. ASSUME NEW w \in Worker, InitOk(w) \/ InitFail(w) PROVE FoundStay
    BY Zenon, <1>4 DEF InitOk, InitFail
  <1>5. ASSUME NEW w \in Worker, NEW d \in Svc, Send(w, d) \/ Unregister(w, d)
        PROVE  FoundStay
    BY Zenon, <1>5 DEF Send, Unregister
  <1>6. ASSUME NEW t \in Other, OtherStep(t) PROVE FoundStay
    BY Zenon, <1>6 DEF OtherStep, Post, MarkBlocked
  <1>7. CASE UNCHANGED vars
    BY Zenon, <1>7 DEF vars
  <1> HIDE DEF mqVars, runVars, FoundStay
  <1> QED BY Zenon, <1>1, <1>2, <1>3, <1>4, <1>5, <1>6, <1>7
       DEF Next, SubStep, DispatchStep, ServiceStep, CreateStep

\* Every step keeps a queue with something in it in the global queue or in
\* somebody's hand, unless the init of its service has failed.
LEMMA FoundNext == OwnInv /\ Found /\ [Next]_vars => Found'
  <1> SUFFICES ASSUME OwnInv, Found, [Next]_vars PROVE Found'
    OBVIOUS
  <1>t. OwnTypes /\ Owned /\ msgs \in [Svc -> Seq(Msg)]
    BY Zenon DEF OwnInv, LifeInv, LocalInv, SharedTypes, LocalTypes, Control, ControlAt, OwnTypes
  <1>b. /\ global \in Seq(Svc) /\ Once
        /\ inGlobal \in [Svc -> BOOLEAN] /\ isRelease \in [Svc -> BOOLEAN]
    BY Zenon, <1>t DEF OwnTypes, Owned, QueueOwned
  <1>w. \A w \in Worker : w \in Thread
    BY Zenon DEF Thread
  <1>k. \A t \in Thread :
           /\ pc[t] # "idle" => q[t] \in Svc
           /\ pc[t] \in Creating => cctx[t] \in Svc
           /\ sub[t] # "none" => sctx[t] \in Svc
    BY Zenon, Locals DEF OwnInv, LifeInv, LocalInv
  <1>f. \A t \in Thread : pc'[t] = "failed" => cctx'[t] \in MayFail
    BY Zenon, <1>t, MayHaveFailed DEF OwnTypes
  <1>g. /\ \A s \in Svc \ MayFail : que[s] = "alive" /\ (inGlobal[s] \/ isRelease[s]) => At(s)
        /\ \A s \in Svc : ~ inGlobal[s] => msgs[s] = <<>>
    BY Zenon DEF Found
  <1>s. \* the queues stay as they are and none gets lost
        ASSUME UNCHANGED <<que, inGlobal, isRelease, msgs>>,
               \A s \in Svc \ MayFail : At(s) => At(s)'
        PROVE  Found'
    BY Zenon, <1>f, <1>g, <1>s DEF Found
  <1>l. ASSUME global' = global PROVE \A x \in Svc : InList(x)' <=> InList(x)
    BY Zenon, <1>l DEF InList
  <1>h. ASSUME UNCHANGED <<global, q, nextq, cctx>> PROVE \A s \in Svc : At(s)' <=> At(s)
    BY Zenon, <1>h DEF At, InList, Holds
  <1>1. CASE FoundStay
    BY Zenon, <1>1, <1>h, <1>s DEF FoundStay
  <1>a. \* a queue goes from a thread's hand to the list
        ASSUME NEW s \in Svc, global' = Append(global, s),
               UNCHANGED <<que, inGlobal, isRelease, msgs>>,
               \A u \in Thread, x \in Svc : Holds(u, x) => Holds(u, x)' \/ x = s
        PROVE  Found'
    <2>1. \A x \in Svc : InList(x)' <=> InList(x) \/ x = s
      BY Zenon, <1>a, <1>b, ListAfter
    <2>2. \A x \in Svc : At(x) => At(x)'
      BY Zenon, <1>a, <2>1 DEF At
    <2> QED BY Zenon, <1>s, <1>a, <2>2
  <1>p. \* a queue goes from the list to a thread's hand
        ASSUME NEW w \in Thread, NEW h \in Svc, h = Head(global),
               global # <<>>, global' = Tail(global),
               UNCHANGED <<que, inGlobal, isRelease, msgs>>,
               Holds(w, h)',
               \A u \in Thread, x \in Svc : Holds(u, x) => Holds(u, x)'
        PROVE  Found'
    <2>1. \A x \in Svc : InList(x)' <=> InList(x) /\ x # h
      BY Zenon, <1>b, <1>p, ListPop
    <2>2. ASSUME NEW x \in Svc, At(x) PROVE At(x)'
      <3>1. CASE x = h
        BY Zenon, <1>p, <3>1 DEF At
      <3>2. CASE x # h
        BY Zenon, <1>p, <2>1, <2>2, <3>2 DEF At
      <3> QED BY Zenon, <3>1, <3>2
    <2> QED BY Zenon, <1>s, <1>p, <2>2
  <1>m. \* push or mark_release of s
        ASSUME NEW s \in Svc,
               global' = IF inGlobal[s] THEN global ELSE Append(global, s),
               UNCHANGED <<que, q, nextq, cctx>>,
               \A x \in Svc : /\ inGlobal'[x] \/ isRelease'[x]
                                    => inGlobal[x] \/ isRelease[x] \/ x = s
                              /\ ~ inGlobal'[x] => ~ inGlobal[x] /\ msgs'[x] = msgs[x]
        PROVE  Found'
    <2>1. /\ \A x \in Svc : InList(x) => InList(x)'
          /\ ~ inGlobal[s] => InList(s)'
      BY Zenon, <1>b, <1>l, <1>m, ListAfter
    <2>2. \A x \in Svc : At(x) => At(x)'
      BY Zenon, <1>m, <2>1 DEF At, Holds
    <2>3. que[s] = "alive" /\ s \notin MayFail => At(s)'
      BY Zenon, <1>g, <2>1, <2>2 DEF At
    <2> QED BY Zenon, <1>f, <1>g, <1>m, <2>2, <2>3 DEF Found
  <1>d. \* the worker lets go of its queue, which is empty
        ASSUME NEW w \in Worker, q[w] \in Svc, msgs[q[w]] = <<>>,
               inGlobal' = [inGlobal EXCEPT ![q[w]] = FALSE],
               q' = [q EXCEPT ![w] = None],
               UNCHANGED <<global, isRelease, msgs, nextq, cctx>>,
               \A x \in Svc \ {q[w]} : que'[x] = que[x],
               que'[q[w]] # "alive" \/ ~ isRelease[q[w]]
        PROVE  Found'
    <2>1. \A x \in Svc : InList(x)' <=> InList(x)
      BY Zenon, <1>d, <1>l
    <2>2. ASSUME NEW u \in Thread, NEW x \in Svc, Holds(u, x)
          PROVE  Holds(u, x)' \/ x = q[w]
      BY Zenon, <1>t, <1>d, <2>2 DEF Holds, OwnTypes
    <2>3. \A x \in Svc : At(x) => At(x)' \/ x = q[w]
      BY Zenon, <2>1, <2>2 DEF At
    <2>4. ~ inGlobal'[q[w]] /\ \A x \in Svc \ {q[w]} : inGlobal'[x] = inGlobal[x]
      BY ZenonT(30), <1>b, <1>d
    <2> QED BY Zenon, <1>f, <1>g, <1>d, <2>3, <2>4 DEF Found
  <1>2. ASSUME NEW t \in Thread, QueuePush(t) PROVE Found'
    <2>1. PICK s \in Svc : s = sctx[t]
      BY Zenon, <1>k, <1>2 DEF QueuePush
    <2>2. /\ global' = IF inGlobal[s] THEN global ELSE Append(global, s)
          /\ inGlobal' = [inGlobal EXCEPT ![s] = TRUE]
          /\ msgs' = [msgs EXCEPT ![s] = Append(@, smsg[t])]
          /\ UNCHANGED <<que, isRelease, q, nextq, cctx>>
      BY Zenon, <1>2, <2>1 DEF QueuePush, runVars
    <2>3. \A x \in Svc : /\ inGlobal'[x] \/ isRelease'[x]
                               => inGlobal[x] \/ isRelease[x] \/ x = s
                         /\ ~ inGlobal'[x] => ~ inGlobal[x] /\ msgs'[x] = msgs[x]
      BY Zenon, <1>t, <1>b, <2>2
    <2> QED BY Zenon, <1>m, <2>2, <2>3
  <1>3. ASSUME NEW t \in Thread, MarkRelease(t) PROVE Found'
    <2>1. PICK s \in Svc : s = sctx[t]
      BY Zenon, <1>k, <1>3 DEF MarkRelease
    <2>2. /\ global' = IF inGlobal[s] THEN global ELSE Append(global, s)
          /\ isRelease' = [isRelease EXCEPT ![s] = TRUE]
          /\ UNCHANGED <<que, inGlobal, msgs, q, nextq, cctx>>
      BY Zenon, <1>3, <2>1 DEF MarkRelease, runVars
    <2>3. \A x \in Svc : /\ inGlobal'[x] \/ isRelease'[x]
                               => inGlobal[x] \/ isRelease[x] \/ x = s
                         /\ ~ inGlobal'[x] => ~ inGlobal[x] /\ msgs'[x] = msgs[x]
      BY Zenon, <1>b, <2>2
    <2> QED BY Zenon, <1>m, <2>2, <2>3
  <1>4. ASSUME NEW w \in Worker, PopGlobal(w) PROVE Found'
    <2>1. /\ global # <<>> /\ global' = Tail(global) /\ pc[w] = "idle"
          /\ q' = [q EXCEPT ![w] = Head(global)]
          /\ UNCHANGED <<que, inGlobal, isRelease, msgs, nextq, cctx>>
      BY Zenon, <1>4 DEF PopGlobal
    <2>h. PICK h \in Svc : h = Head(global)
      BY <1>b, <2>1
    <2>2. /\ Holds(w, h)'
          /\ \A u \in Thread, x \in Svc : Holds(u, x) => Holds(u, x)'
      BY Zenon, <1>t, <1>w, <2>1, <2>h, DispatchAssumption DEF Holds, OwnTypes
    <2> QED BY Zenon, <1>p, <1>w, <2>1, <2>2, <2>h
  <1>5. ASSUME NEW w \in Worker, PopNext(w) PROVE Found'
    <2>1. /\ global # <<>> /\ global' = Tail(global) /\ pc[w] = "next"
          /\ nextq' = [nextq EXCEPT ![w] = Head(global)]
          /\ UNCHANGED <<que, inGlobal, isRelease, msgs, q, cctx>>
      BY Zenon, <1>5 DEF PopNext
    <2>h. PICK h \in Svc : h = Head(global)
      BY <1>b, <2>1
    <2>n. nextq[w] = None
      BY Zenon, <1>t, <1>w, <2>1 DEF OwnTypes
    <2>2. /\ Holds(w, h)'
          /\ \A u \in Thread, x \in Svc : Holds(u, x) => Holds(u, x)'
      BY Zenon, <1>t, <1>w, <2>1, <2>h, <2>n, DispatchAssumption DEF Holds, OwnTypes
    <2> QED BY Zenon, <1>p, <1>w, <2>1, <2>2, <2>h
  <1>6. ASSUME NEW w \in Worker, ReleaseQueue(w) PROVE Found'
    <2>1. CASE UNCHANGED <<global, q>>
      BY Zenon, <1>1, <1>6, <2>1 DEF ReleaseQueue, FoundStay
    <2>2. CASE global' = Append(global, q[w]) /\ q' = [q EXCEPT ![w] = None]
      <3>1. q[w] \in Svc /\ UNCHANGED <<que, inGlobal, isRelease, msgs, nextq, cctx>>
        BY Zenon, <1>k, <1>w, <1>6 DEF ReleaseQueue
      <3>2. \A u \in Thread, x \in Svc : Holds(u, x) => Holds(u, x)' \/ x = q[w]
        BY Zenon, <1>t, <1>w, <2>2, <3>1 DEF Holds, OwnTypes
      <3> QED BY Zenon, <1>a, <2>2, <3>1, <3>2
    <2> QED BY Zenon, <1>6, <2>1, <2>2 DEF ReleaseQueue
  <1>7. ASSUME NEW w \in Worker, PushBack(w) PROVE Found'
    <2>1. /\ q[w] \in Svc /\ global' = Append(global, q[w])
          /\ q' = [q EXCEPT ![w] = nextq[w]] /\ nextq' = [nextq EXCEPT ![w] = None]
          /\ UNCHANGED <<que, inGlobal, isRelease, msgs, cctx>>
      BY Zenon, <1>k, <1>w, <1>7 DEF PushBack, EndDispatch
    <2>2. \A u \in Thread, x \in Svc : Holds(u, x) => Holds(u, x)' \/ x = q[w]
      BY Zenon, <1>t, <1>w, <2>1 DEF Holds, OwnTypes
    <2> QED BY Zenon, <1>a, <2>1, <2>2
  <1>8. ASSUME NEW w \in Worker, Publish(w) PROVE Found'
    <2>1. /\ cctx[w] \in Svc /\ global' = Append(global, cctx[w])
          /\ cctx' = [cctx EXCEPT ![w] = None]
          /\ UNCHANGED <<que, inGlobal, isRelease, msgs, q, nextq>>
      BY Zenon, <1>k, <1>w, <1>8 DEF Publish, Creating
    <2>2. \A u \in Thread, x \in Svc : Holds(u, x) => Holds(u, x)' \/ x = cctx[w]
      BY Zenon, <1>t, <1>w, <2>1 DEF Holds, OwnTypes
    <2> QED BY Zenon, <1>a, <2>1, <2>2
  <1>9. ASSUME NEW w \in Worker, DropMessage(w) \/ PopMessage(w) PROVE Found'
    <2>1. /\ q[w] \in Svc /\ msgs[q[w]] # <<>>
          /\ msgs' = [msgs EXCEPT ![q[w]] = Tail(@)]
          /\ UNCHANGED <<global, que, inGlobal, isRelease, q, nextq, cctx>>
      BY Zenon, <1>k, <1>w, <1>9 DEF DropMessage, PopMessage, runVars
    <2>2. \A x \in Svc : At(x)' <=> At(x)
      BY Zenon, <1>h, <2>1
    <2>3. \A x \in Svc \ {q[w]} : msgs'[x] = msgs[x]
      BY Zenon, <1>t, <2>1
    <2> QED BY Zenon, <1>f, <1>g, <2>1, <2>2, <2>3 DEF Found
  <1>10. ASSUME NEW w \in Worker, DeleteQueue(w) PROVE Found'
    <2>1. /\ q[w] \in Svc /\ msgs[q[w]] = <<>>
          /\ inGlobal' = [inGlobal EXCEPT ![q[w]] = FALSE]
          /\ que' = [que EXCEPT ![q[w]] = "deleted"]
          /\ q' = [q EXCEPT ![w] = None]
          /\ UNCHANGED <<global, isRelease, msgs, nextq, cctx>>
      BY Zenon, <1>k, <1>w, <1>10 DEF DeleteQueue
    <2>2. que'[q[w]] # "alive" /\ \A x \in Svc \ {q[w]} : que'[x] = que[x]
      BY Zenon, <1>t, <2>1 DEF OwnTypes
    <2> QED BY ZenonT(30), <1>d, <2>1, <2>2
  <1>11. ASSUME NEW w \in Worker, PopEmpty(w) PROVE Found'
    <2>1. /\ q[w] \in Svc /\ msgs[q[w]] = <<>> /\ pc[w] = "pop"
          /\ inGlobal' = [inGlobal EXCEPT ![q[w]] = FALSE]
          /\ q' = [q EXCEPT ![w] = None]
          /\ UNCHANGED <<global, que, isRelease, msgs, nextq, cctx>>
      BY Zenon, <1>k, <1>w, <1>11 DEF PopEmpty
    <2>2. ~ isRelease[q[w]]
      <3>1. dctx[w] = q[w]
        BY Zenon, <1>w, <2>1, Locals DEF OwnInv, LifeInv, LocalInv, Inside
      <3>2. ref[q[w]] > 0
        BY Zenon, <1>w, <2>1, <3>1, RefPositive DEF OwnInv, LifeInv
      <3> QED BY Zenon, <2>1, <3>2 DEF OwnInv, LifeInv, Lives
    <2> QED BY ZenonT(30), <1>d, <2>1, <2>2
  <1>12. ASSUME NEW w \in Worker, CreateQueue(w) PROVE Found'
    <2>1. PICK s \in Svc : s = cctx[w]
      BY Zenon, <1>k, <1>w, <1>12 DEF CreateQueue, Creating
    <2>2. /\ inGlobal' = [inGlobal EXCEPT ![s] = TRUE]
          /\ que' = [que EXCEPT ![s] = "alive"]
          /\ UNCHANGED <<global, isRelease, msgs, q, nextq, cctx>>
      BY Zenon, <1>12, <2>1 DEF CreateQueue
    <2>3. At(s) /\ \A x \in Svc : At(x)' <=> At(x)
      BY Zenon, <1>h, <1>w, <2>1, <2>2 DEF At, Holds
    <2>4. /\ inGlobal'[s]
          /\ \A x \in Svc \ {s} : inGlobal'[x] = inGlobal[x] /\ que'[x] = que[x]
      BY Zenon, <1>t, <2>2 DEF OwnTypes
    <2> QED BY Zenon, <1>f, <1>g, <2>2, <2>3, <2>4 DEF Found
  <1>13. ASSUME NEW w \in Worker, UnregisterFailed(w) PROVE Found'
    <2>1. /\ pc[w] = "failed" /\ cctx[w] \in MayFail
          /\ cctx' = [cctx EXCEPT ![w] = None]
          /\ UNCHANGED <<global, que, inGlobal, isRelease, msgs, q, nextq>>
      BY Zenon, <1>w, <1>13 DEF UnregisterFailed, mqVars, Found
    <2>2. \A u \in Thread, x \in Svc \ MayFail : Holds(u, x) => Holds(u, x)'
      BY Zenon, <1>t, <1>w, <2>1 DEF Holds, OwnTypes
    <2>3. \A x \in Svc \ MayFail : At(x) => At(x)'
      BY Zenon, <1>l, <2>1, <2>2 DEF At
    <2> QED BY Zenon, <1>s, <2>1, <2>3
  <1>14. ASSUME NEW w \in Worker, NEW d \in Svc, CreateContext(w, d) PROVE Found'
    <2>1. /\ pc[w] = "callback" /\ cctx' = [cctx EXCEPT ![w] = d]
          /\ UNCHANGED <<global, que, inGlobal, isRelease, msgs, q, nextq>>
      BY Zenon, <1>14 DEF CreateContext, mqVars
    <2>2. \A u \in Thread, x \in Svc : Holds(u, x) => Holds(u, x)'
      BY ZenonT(30), <1>t, <1>w, <2>1, DispatchAssumption DEF Holds, OwnTypes, Creating
    <2>3. \A x \in Svc : At(x) => At(x)'
      BY Zenon, <1>l, <2>1, <2>2 DEF At
    <2> QED BY Zenon, <1>s, <2>1, <2>3
  <1> QED BY Zenon, <1>t, <1>1, <1>2, <1>3, <1>4, <1>5, <1>6, <1>7, <1>8, <1>9, <1>10,
             <1>11,
             <1>12, <1>13, <1>14, FoundFrame

\* The queue that a worker has in hand is alive, and not the one it creates.
LEMMA HandAlive ==
    ASSUME Owned, NEW t \in Thread, q[t] \in Svc
    PROVE  que[q[t]] = "alive" /\ q[t] # cctx[t]
BY Zenon, DispatchAssumption DEF Owned, HandOwned

-----------------------------------------------------------------------------
(***************************************************************************)
(* The message core implements Mailbox: what a mailbox sees of a state,    *)
(* which steps it does not see, and which of its actions each of the       *)
(* others is.                                                              *)
(***************************************************************************)

\* Thread t runs the init of s.
Starting(t, s) == cctx[t] = s /\ pc[t] = "init"

\* A step leaves alone what the life of s, and who runs its code, depend on.
LifeStays(s) ==
    /\ UNCHANGED <<que[s], isRelease[s]>>
    /\ \A t \in Thread : Starting(t, s)' <=> Starting(t, s)

BusyStays(s) == \A t \in Thread : Running(t, s)' <=> Running(t, s)

\* The life of a service by its queue and the threads that are in its init.
LEMMA LifeIs ==
    ASSUME NEW s \in Svc, que[s] \in {"none", "alive", "deleted"}, isRelease[s] \in BOOLEAN
    PROVE  /\ que[s] = "none" => Life(s) = "absent"
           /\ que[s] = "deleted" => Life(s) = "removed"
           /\ que[s] = "alive" /\ isRelease[s] => Life(s) = "gone"
           /\ que[s] = "alive" /\ ~ isRelease[s] /\ (\E t \in Thread : Starting(t, s))
                => Life(s) = "starting"
           /\ que[s] = "alive" /\ ~ isRelease[s] /\ (\A t \in Thread : ~ Starting(t, s))
                => Life(s) = "open"
BY Zenon DEF Life, Starting

\* One service at most changes its life in a step.
LEMMA LifeMoves ==
    ASSUME NEW s \in Svc, \A x \in Svc \ {s} : LifeStays(x)
    PROVE  [x \in Svc |-> Life(x)]' = [[x \in Svc |-> Life(x)] EXCEPT ![s] = Life(s)']
  <1>1. ASSUME NEW x \in Svc \ {s} PROVE Life(x)' = Life(x)
    <2>1. LifeStays(x)
      OBVIOUS
    <2> QED BY <2>1 DEF Life, LifeStays, Starting
  <1> QED BY Zenon, <1>1

\* The services whose code runs.
Busy == {s \in Svc : \E t \in Thread : Running(t, s)}

\* At most the code of one service begins or ends to run in a step.
LEMMA BusyMoves ==
    ASSUME NEW s \in Svc, \A x \in Svc \ {s} : BusyStays(x)
    PROVE  /\ (\E t \in Thread : Running(t, s)') => Busy' = Busy \cup {s}
           /\ (\A t \in Thread : ~ Running(t, s)') => Busy' = Busy \ {s}
  <1>1. \A x \in Svc \ {s} : x \in Busy' <=> x \in Busy
    BY Zenon DEF Busy, BusyStays
  <1>2. s \in Busy' <=> \E t \in Thread : Running(t, s)'
    BY Zenon DEF Busy
  <1>3. Busy' \subseteq Svc /\ Busy \subseteq Svc
    BY Zenon DEF Busy
  <1> QED BY Zenon, <1>1, <1>2, <1>3

\* A step that a mailbox does not see.
MailStays ==
    /\ UNCHANGED <<que, isRelease, msgs>>
    /\ \A s \in Svc, t \in Thread : /\ Starting(t, s)' <=> Starting(t, s)
                                    /\ Running(t, s)' <=> Running(t, s)

\* Such a step changes nothing of what Mailbox specifies.
LEMMA MailSame ==
    ASSUME MailStays
    PROVE  UNCHANGED <<msgs, [s \in Svc |-> Life(s)], Busy>>
  <1>1. ASSUME NEW s \in Svc PROVE Life(s)' = Life(s)
    BY Zenon DEF MailStays, Life, Starting
  <1>2. Busy' = Busy
    BY Zenon DEF MailStays, Busy
  <1> QED BY Zenon, <1>1, <1>2 DEF MailStays

\* The steps that it sees.
LEMMA MailFrame ==
    ASSUME LocalTypes, Control, [Next]_vars
    PROVE  \/ MailStays
           \/ \E t \in Thread : QueuePush(t) \/ MarkRelease(t)
           \/ \E w \in Worker : DropMessage(w) \/ DeleteQueue(w) \/ PopMessage(w) \/ EndCallback(w)
           \/ \E w \in Worker : CreateQueue(w) \/ InitOk(w) \/ InitFail(w)
  <1>t. /\ pc \in [Thread -> PC] /\ dctx \in [Thread -> Svc \cup {None}]
        /\ cctx \in [Thread -> Svc \cup {None}]
    BY Zenon DEF LocalTypes
  <1>w. \A w \in Worker : w \in Thread
    BY Zenon DEF Thread
  <1>c. \A t \in Thread : /\ pc[t] \notin Inside => dctx[t] = None
                          /\ cctx[t] # None => pc[t] \in Creating
    BY Zenon DEF Control, ControlAt
  <1> USE <1>t DEF regVars, mqVars, runVars, MailStays, Starting, Running
  <1>1. ASSUME NEW t \in Thread, Release(t) PROVE MailStays
    BY <1>1 DEF Release
  <1>2. ASSUME NEW t \in Thread, DeleteContext(t) PROVE MailStays
    BY Zenon, <1>2 DEF DeleteContext
  <1>3. ASSUME NEW w \in Worker, PopGlobal(w) PROVE MailStays
    BY Zenon, <1>3, <1>w, <1>c, DispatchAssumption DEF PopGlobal, Inside
  <1>4. ASSUME NEW w \in Worker, GrabContext(w) PROVE MailStays
    BY <1>4, <1>w, <1>c, DispatchAssumption DEF GrabContext, Inside
  <1>5. ASSUME NEW w \in Worker, ReleaseQueue(w) PROVE MailStays
    BY <1>5, <1>w, <1>c, DispatchAssumption DEF ReleaseQueue, Inside
  <1>6. ASSUME NEW w \in Worker, PopEmpty(w) PROVE MailStays
    BY Zenon, <1>6, <1>w, <1>c, DispatchAssumption DEF PopEmpty, BeginRelease
  <1>7. ASSUME NEW w \in Worker, Length(w) PROVE MailStays
    BY Zenon, <1>7, <1>w DEF Length
  <1>8. ASSUME NEW w \in Worker, KeepQueue(w) PROVE MailStays
    BY Zenon, <1>8, <1>w, DispatchAssumption DEF KeepQueue, EndDispatch, BeginRelease
  <1>9. ASSUME NEW w \in Worker, PopNext(w) PROVE MailStays
    BY Zenon, <1>9, <1>w DEF PopNext
  <1>10. ASSUME NEW w \in Worker, PushBack(w) PROVE MailStays
    BY Zenon, <1>10, <1>w, DispatchAssumption DEF PushBack, EndDispatch, BeginRelease
  <1>11. ASSUME NEW w \in Worker, Publish(w) PROVE MailStays
    BY Zenon, <1>11, <1>w, DispatchAssumption DEF Publish
  <1>12. ASSUME NEW w \in Worker, UnregisterFailed(w) PROVE MailStays
    BY Zenon, <1>12, <1>w, DispatchAssumption DEF UnregisterFailed
  <1>13. ASSUME NEW w \in Worker, NEW d \in Svc, Send(w, d) \/ Unregister(w, d) PROVE MailStays
    BY Zenon, <1>13 DEF Send, Unregister
  <1>14. ASSUME NEW w \in Worker, NEW d \in Svc, CreateContext(w, d) PROVE MailStays
    BY Zenon, <1>14, <1>w, <1>c DEF CreateContext, Creating
  <1>15. ASSUME NEW t \in Other, OtherStep(t) PROVE MailStays
    BY Zenon, <1>15 DEF OtherStep, Post, MarkBlocked
  <1>16. CASE UNCHANGED vars
    BY Zenon, <1>16 DEF vars
  <1> HIDE <1>t DEF regVars, mqVars, runVars, MailStays, Starting, Running
  <1> QED BY SMTT(30), <1>1, <1>2, <1>3, <1>4, <1>5, <1>6, <1>7, <1>8, <1>9, <1>10, <1>11, <1>12,
             <1>13, <1>14, <1>15, <1>16
          DEF Next, SubStep, DispatchStep, ServiceStep, CreateStep

\* A thread that runs code of a service has its queue in hand.
LEMMA RunHolds ==
    ASSUME Control, NEW t \in Thread, NEW s \in Svc
    PROVE  /\ Running(t, s) => Holds(t, s)
           /\ Starting(t, s) => Holds(t, s)
  <1>1. ControlAt(t)
    BY Zenon DEF Control
  <1> QED BY Zenon, <1>1 DEF ControlAt, Running, Starting, Holds, Inside

\* A grabbed context is of a service that is open and that nobody else runs.
LEMMA GrabbedOpen ==
    ASSUME OwnInv, NEW t \in Thread, pc[t] \in Inside
    PROVE  /\ q[t] \in Svc /\ dctx[t] = q[t] /\ cctx[t] # q[t]
           /\ que[q[t]] = "alive" /\ ~ isRelease[q[t]] /\ Life(q[t]) = "open"
           /\ \A u \in Thread \ {t} : ~ Running(u, q[t])
           /\ \A u \in Thread : ~ Starting(u, q[t])
  <1>1. q[t] \in Svc /\ dctx[t] = q[t]
    BY Zenon, Locals DEF OwnInv, LifeInv, LocalInv
  <1>2. cctx[t] # q[t] /\ que[q[t]] = "alive"
    BY Zenon, <1>1, HandAlive DEF OwnInv
  <1>3. ~ isRelease[q[t]]
    BY Zenon, <1>1, RefPositive DEF OwnInv, LifeInv, Lives
  <1>4. \A u \in Thread : Holds(u, q[t]) => u = t
    BY Zenon, <1>1 DEF OwnInv, Owned, QueueOwned, HandOwned, Holds
  <1>5. \A u \in Thread \ {t} : ~ Running(u, q[t]) /\ ~ Starting(u, q[t])
    BY Zenon, <1>1, <1>4, RunHolds DEF OwnInv, LifeInv, LocalInv
  <1>6. ~ Starting(t, q[t])
    BY Zenon, <1>2 DEF Starting
  <1>7. \A u \in Thread : ~ Starting(u, q[t])
    BY Zenon, <1>5, <1>6
  <1>8. isRelease[q[t]] \in BOOLEAN
    BY Zenon, <1>1 DEF OwnInv, LifeInv, LocalInv, SharedTypes
  <1>9. Life(q[t]) = "open"
    BY Zenon, <1>1, <1>2, <1>3, <1>7, <1>8, LifeIs
  <1> QED BY Zenon, <1>1, <1>2, <1>3, <1>5, <1>7, <1>9

\* A context under construction is of a service that its creator starts.
LEMMA CreatedStarting ==
    ASSUME OwnInv, NEW t \in Thread, pc[t] = "init"
    PROVE  /\ cctx[t] \in Svc /\ dctx[t] # cctx[t]
           /\ que[cctx[t]] = "alive" /\ ~ isRelease[cctx[t]] /\ Life(cctx[t]) = "starting"
           /\ \A u \in Thread \ {t} : ~ Running(u, cctx[t]) /\ ~ Starting(u, cctx[t])
  <1>1. cctx[t] \in Svc
    BY Zenon, Locals DEF OwnInv, LifeInv, LocalInv, Creating
  <1>2. dctx[t] # cctx[t]
    BY Zenon, GrabbedOpen DEF Inside
  <1>3. que[cctx[t]] = "alive"
    BY Zenon DEF OwnInv, Owned, HandOwned, Creating
  <1>4. ~ isRelease[cctx[t]]
    BY Zenon, <1>1, RefPositive DEF OwnInv, LifeInv, Lives
  <1>5. \A u \in Thread : Holds(u, cctx[t]) => u = t
    BY Zenon, <1>1 DEF OwnInv, Owned, QueueOwned, HandOwned, Holds
  <1>6. \A u \in Thread \ {t} : ~ Running(u, cctx[t]) /\ ~ Starting(u, cctx[t])
    BY Zenon, <1>1, <1>5, RunHolds DEF OwnInv, LifeInv, LocalInv
  <1>7. Starting(t, cctx[t])
    BY Zenon DEF Starting
  <1>8. isRelease[cctx[t]] \in BOOLEAN
    BY Zenon, <1>1 DEF OwnInv, LifeInv, LocalInv, SharedTypes
  <1>9. Life(cctx[t]) = "starting"
    BY Zenon, <1>1, <1>3, <1>4, <1>7, <1>8, LifeIs
  <1> QED BY Zenon, <1>1, <1>2, <1>3, <1>4, <1>6, <1>9

\* What a mailbox sees of the state.
Lifes == [s \in Svc |-> Life(s)]

\* The life of s changes, and no mailbox; or no life changes; or the oldest
\* message of s leaves its mailbox.
Moves(s, a, b) ==
    Life(s) = a /\ Lifes' = [Lifes EXCEPT ![s] = b] /\ UNCHANGED msgs

Keeps(s, a) == Life(s) = a /\ UNCHANGED Lifes

Shortens(s) == msgs[s] # <<>> /\ msgs' = [msgs EXCEPT ![s] = Tail(@)]

\* A step of Mailbox, in terms of these.
LEMMA MailStep ==
    ASSUME NEW s \in Svc
    PROVE  /\ Moves(s, "absent", "starting") /\ Busy' = Busy \cup {s} => MB!Start(s)
           /\ Moves(s, "starting", "open") /\ s \in Busy /\ Busy' = Busy \ {s} => MB!Started(s)
           /\ Moves(s, "open", "gone") /\ s \notin Busy /\ UNCHANGED Busy => MB!Vanish(s)
           /\ Moves(s, "gone", "removed") /\ msgs[s] = <<>> /\ UNCHANGED Busy => MB!Remove(s)
           /\ Keeps(s, "open") /\ s \notin Busy /\ Shortens(s) /\ Busy' = Busy \cup {s} => MB!Take(s)
           /\ Keeps(s, "gone") /\ Shortens(s) /\ UNCHANGED Busy => MB!Drop(s)
           /\ Keeps(s, "open") /\ s \in Busy /\ Busy' = Busy \ {s} /\ UNCHANGED msgs => MB!Finish(s)
           /\ \A m \in Msg :
                (Keeps(s, "starting") \/ Keeps(s, "open")) /\ UNCHANGED Busy
                  /\ msgs' = [msgs EXCEPT ![s] = Append(@, m)] => MB!Accept(s, m)
  <1>1. Lifes[s] = Life(s)
    BY Zenon DEF Lifes
  <1> USE <1>1 DEF Moves, Keeps, Shortens, Lifes, Busy
  <1>2. Moves(s, "absent", "starting") /\ Busy' = Busy \cup {s} => MB!Start(s)
    BY Zenon DEF MB!Start
  <1>3. Moves(s, "starting", "open") /\ s \in Busy /\ Busy' = Busy \ {s} => MB!Started(s)
    BY Zenon DEF MB!Started
  <1>4. Moves(s, "open", "gone") /\ s \notin Busy /\ UNCHANGED Busy => MB!Vanish(s)
    BY Zenon DEF MB!Vanish
  <1>5. Moves(s, "gone", "removed") /\ msgs[s] = <<>> /\ UNCHANGED Busy => MB!Remove(s)
    BY Zenon DEF MB!Remove
  <1>6. Keeps(s, "open") /\ s \notin Busy /\ Shortens(s) /\ Busy' = Busy \cup {s} => MB!Take(s)
    BY Zenon DEF MB!Take
  <1>7. Keeps(s, "gone") /\ Shortens(s) /\ UNCHANGED Busy => MB!Drop(s)
    BY Zenon DEF MB!Drop
  <1>8. Keeps(s, "open") /\ s \in Busy /\ Busy' = Busy \ {s} /\ UNCHANGED msgs => MB!Finish(s)
    BY Zenon DEF MB!Finish
  <1>9. ASSUME NEW m \in Msg
        PROVE  (Keeps(s, "starting") \/ Keeps(s, "open")) /\ UNCHANGED Busy
                 /\ msgs' = [msgs EXCEPT ![s] = Append(@, m)] => MB!Accept(s, m)
    BY Zenon DEF MB!Accept
  <1> HIDE <1>1 DEF Moves, Keeps, Shortens, Lifes, Busy
  <1> QED BY Zenon, <1>2, <1>3, <1>4, <1>5, <1>6, <1>7, <1>8, <1>9

\* mq_private::push: the mailbox accepts, as the reference that
\* push_service_message has grabbed keeps the service from vanishing.
LEMMA PushAccepts ==
    ASSUME OwnInv, NEW t \in Thread, NEW s \in Svc, s = sctx[t],
           NEW m \in Msg, m = smsg[t], QueuePush(t)
    PROVE  MB!Accept(s, m)
  <1>1. sub[t] = "push"
    BY Zenon DEF QueuePush
  <1>3. que[s] \in {"none", "alive", "deleted"} /\ isRelease[s] \in BOOLEAN
    BY Zenon, <1>1 DEF OwnInv, LifeInv, LocalInv, SharedTypes
  <1>4. ~ isRelease[s]
    BY <1>1, RefPositive DEF OwnInv, LifeInv, Lives
  <1>5. que[s] = "alive"
    BY Zenon, <1>1, <1>3, <1>4 DEF OwnInv, LifeInv, Lives, Sources, PushOk
  <1>6. Life(s) \in {"starting", "open"}
    BY Zenon, <1>1, <1>3, <1>4, <1>5, LifeIs
  <1>7. UNCHANGED <<Lifes, Busy>> /\ msgs' = [msgs EXCEPT ![s] = Append(@, m)]
    BY DEF QueuePush, runVars, Lifes, Busy, Life, Running
  <1> QED BY Zenon, <1>6, <1>7, MailStep DEF Keeps

\* mark_release, with no reference left, is where the service vanishes.
LEMMA MarkVanishes ==
    ASSUME OwnInv, NEW t \in Thread, NEW s \in Svc, s = sctx[t], MarkRelease(t)
    PROVE  MB!Vanish(s)
  <1>1. sub[t] = "mark"
    BY Zenon DEF MarkRelease
  <1>2. que \in [Svc -> {"none", "alive", "deleted"}] /\ isRelease \in [Svc -> BOOLEAN]
    BY Zenon DEF OwnInv, LifeInv, LocalInv, SharedTypes
  <1>3. ref[s] = 0 /\ ctx[s] = "alive" /\ ~ isRelease[s]
    BY Zenon, <1>1 DEF OwnInv, LifeInv, Lives
  <1>4. \A u \in Thread : dctx[u] # s /\ ~ (cctx[u] = s /\ pc[u] \in {"create", "init"})
    BY <1>1, <1>3, RefPositive DEF OwnInv, LifeInv
  <1>5. que[s] = "alive"
    BY <1>1, <1>2, <1>3, <1>4 DEF OwnInv, LifeInv, Lives
  <1>6. \A u \in Thread : ~ Starting(u, s) /\ ~ Running(u, s)
    BY Zenon, <1>4 DEF Starting, Running
  <1>7. Life(s) = "open" /\ s \notin Busy
    BY Zenon, <1>1, <1>2, <1>3, <1>5, <1>6, LifeIs DEF Busy
  <1>8. UNCHANGED <<msgs, que, pc, cctx, dctx>> /\ isRelease' = [isRelease EXCEPT ![s] = TRUE]
    BY Zenon DEF MarkRelease, runVars
  <1>9. UNCHANGED Busy
    BY Zenon, <1>8 DEF Busy, Running
  <1>10. Life(s)' = "gone"
    BY Zenon, <1>1, <1>2, <1>5, <1>8 DEF Life
  <1>11. \A x \in Svc \ {s} : LifeStays(x)
    BY Zenon, <1>2, <1>8 DEF LifeStays, Starting
  <1>12. Lifes' = [Lifes EXCEPT ![s] = Life(s)']
    BY Zenon, <1>1, <1>11, LifeMoves DEF Lifes
  <1> QED BY Zenon, <1>1, <1>7, <1>8, <1>9, <1>10, <1>12, MailStep DEF Moves

\* _drop_queue takes messages of a service that is gone only.
LEMMA DropDrops ==
    ASSUME OwnInv, NEW w \in Thread, NEW s \in Svc, s = q[w], DropMessage(w)
    PROVE  MB!Drop(s)
  <1>1. pc[w] = "drop"
    BY Zenon DEF DropMessage
  <1>2. que[s] = "alive" /\ isRelease[s]
    BY Zenon, <1>1, HandAlive DEF OwnInv, LifeInv, Lives
  <1>3. Life(s) = "gone"
    BY Zenon, <1>2 DEF Life
  <1>4. UNCHANGED <<Lifes, Busy>> /\ Shortens(s)
    BY DEF DropMessage, runVars, Lifes, Busy, Life, Running, Shortens
  <1> QED BY Zenon, <1>1, <1>3, <1>4, MailStep DEF Keeps

\* The queue that _drop_queue deletes is the emptied mailbox of a service that
\* is gone.
LEMMA DeleteRemoves ==
    ASSUME OwnInv, NEW w \in Thread, NEW s \in Svc, s = q[w], DeleteQueue(w)
    PROVE  MB!Remove(s)
  <1>1. pc[w] = "drop" /\ msgs[s] = <<>>
    BY Zenon DEF DeleteQueue
  <1>2. que[s] = "alive" /\ isRelease[s]
    BY Zenon, <1>1, HandAlive DEF OwnInv, LifeInv, Lives
  <1>3. Life(s) = "gone"
    BY Zenon, <1>2 DEF Life
  <1>4. que \in [Svc -> {"none", "alive", "deleted"}] /\ pc \in [Thread -> PC]
    BY Zenon DEF OwnInv, LifeInv, LocalInv, SharedTypes, LocalTypes
  <1>5. /\ UNCHANGED <<msgs, isRelease, cctx, dctx>> /\ que' = [que EXCEPT ![s] = "deleted"]
        /\ pc' = [pc EXCEPT ![w] = "idle"]
    BY Zenon DEF DeleteQueue
  <1>6. \A x \in Svc, u \in Thread : /\ Starting(u, x)' <=> Starting(u, x)
                                     /\ Running(u, x)' <=> Running(u, x)
    BY Zenon, <1>1, <1>4, <1>5 DEF Starting, Running
  <1>7. UNCHANGED Busy
    BY Zenon, <1>6 DEF Busy
  <1>8. Life(s)' = "removed"
    BY Zenon, <1>1, <1>4, <1>5 DEF Life
  <1>9. \A x \in Svc \ {s} : LifeStays(x)
    BY Zenon, <1>4, <1>5, <1>6 DEF LifeStays
  <1>10. Lifes' = [Lifes EXCEPT ![s] = Life(s)']
    BY Zenon, <1>1, <1>9, LifeMoves DEF Lifes
  <1> QED BY Zenon, <1>1, <1>3, <1>5, <1>7, <1>8, <1>10, MailStep DEF Moves

\* mq_private::pop by a worker with the context grabbed: the service is open
\* and nobody runs its code.
LEMMA PopTakes ==
    ASSUME OwnInv, NEW w \in Thread, NEW s \in Svc, s = q[w], PopMessage(w)
    PROVE  MB!Take(s)
  <1>1. pc[w] = "pop" /\ Shortens(s)
    BY Zenon DEF PopMessage, Shortens
  <1>2. /\ pc \in [Thread -> PC] /\ cctx[w] = None
        /\ dctx \in [Thread -> Svc \cup {None}] /\ cctx \in [Thread -> Svc \cup {None}]
    BY Zenon, <1>1 DEF OwnInv, LifeInv, LocalInv, LocalTypes, Control, ControlAt, Creating
  <1>3. Life(s) = "open" /\ dctx[w] = s /\ \A u \in Thread \ {w} : ~ Running(u, s)
    BY Zenon, <1>1, GrabbedOpen DEF Inside
  <1>4. s \notin Busy
    BY Zenon, <1>1, <1>2, <1>3, DispatchAssumption DEF Busy, Running
  <1>5. /\ UNCHANGED <<que, isRelease, dctx, cctx>>
        /\ pc' \in {[pc EXCEPT ![w] = "length"], [pc EXCEPT ![w] = "callback"]}
    BY Zenon DEF PopMessage
  <1>6. \A x \in Svc, u \in Thread : Starting(u, x)' <=> Starting(u, x)
    BY Zenon, <1>1, <1>2, <1>5 DEF Starting
  <1>7. UNCHANGED Lifes
    BY <1>5, <1>6 DEF Lifes, Life, Starting
  <1>8. \A x \in Svc \ {s} : BusyStays(x)
    BY Zenon, <1>1, <1>2, <1>3, <1>5, DispatchAssumption DEF BusyStays, Running
  <1>9. Running(w, s)'
    BY Zenon, <1>2, <1>3, <1>5 DEF Running
  <1>10. Busy' = Busy \cup {s}
    BY Zenon, <1>8, <1>9, BusyMoves
  <1> QED BY Zenon, <1>1, <1>3, <1>4, <1>7, <1>10, MailStep DEF Keeps

\* The callback returns to the worker that alone runs code of the service.
LEMMA ReturnFinishes ==
    ASSUME OwnInv, NEW w \in Thread, NEW s \in Svc, s = q[w], EndCallback(w)
    PROVE  MB!Finish(s)
  <1>1. pc[w] = "callback"
    BY Zenon DEF EndCallback
  <1>2. /\ pc \in [Thread -> PC] /\ cctx[w] = None
        /\ dctx \in [Thread -> Svc \cup {None}] /\ cctx \in [Thread -> Svc \cup {None}]
    BY Zenon, <1>1 DEF OwnInv, LifeInv, LocalInv, LocalTypes, Control, ControlAt, Creating
  <1>3. Life(s) = "open" /\ dctx[w] = s /\ \A u \in Thread \ {w} : ~ Running(u, s)
    BY Zenon, <1>1, GrabbedOpen DEF Inside
  <1>4. s \in Busy
    BY Zenon, <1>1, <1>3 DEF Busy, Running
  <1>5. /\ UNCHANGED <<que, isRelease, msgs, dctx, cctx>>
        /\ pc' \in {[pc EXCEPT ![w] = "pop"], [pc EXCEPT ![w] = "next"]}
    BY Zenon DEF EndCallback, mqVars
  <1>6. \A x \in Svc, u \in Thread : Starting(u, x)' <=> Starting(u, x)
    BY Zenon, <1>1, <1>2, <1>5 DEF Starting
  <1>7. UNCHANGED Lifes
    BY <1>5, <1>6 DEF Lifes, Life, Starting
  <1>8. \A x \in Svc \ {s} : BusyStays(x)
    BY Zenon, <1>1, <1>2, <1>3, <1>5, DispatchAssumption DEF BusyStays, Running
  <1>9. \A u \in Thread : ~ Running(u, s)'
    BY Zenon, <1>2, <1>3, <1>5, DispatchAssumption DEF Running
  <1>10. Busy' = Busy \ {s}
    BY Zenon, <1>8, <1>9, BusyMoves
  <1> QED BY Zenon, <1>3, <1>4, <1>5, <1>7, <1>10, MailStep DEF Keeps

\* mq_private::create: the service starts, and its init runs.
LEMMA CreateStarts ==
    ASSUME OwnInv, NEW w \in Thread, NEW s \in Svc, s = cctx[w], CreateQueue(w)
    PROVE  MB!Start(s)
  <1>1. pc[w] = "create"
    BY Zenon DEF CreateQueue
  <1>2. /\ pc \in [Thread -> PC]
        /\ que \in [Svc -> {"none", "alive", "deleted"}] /\ isRelease \in [Svc -> BOOLEAN]
    BY Zenon DEF OwnInv, LifeInv, LocalInv, SharedTypes, LocalTypes
  <1>3. que[s] = "none" /\ ~ isRelease[s]
    BY Zenon, <1>1 DEF OwnInv, LifeInv, Lives
  <1>4. Life(s) = "absent"
    BY Zenon, <1>3 DEF Life
  <1>5. /\ UNCHANGED <<isRelease, msgs, dctx, cctx>> /\ pc' = [pc EXCEPT ![w] = "init"]
        /\ que' = [que EXCEPT ![s] = "alive"]
    BY Zenon DEF CreateQueue
  <1>6. Starting(w, s)' /\ Running(w, s)'
    BY Zenon, <1>2, <1>5 DEF Starting, Running
  <1>7. \A x \in Svc \ {s} : LifeStays(x) /\ BusyStays(x)
    BY Zenon, <1>1, <1>2, <1>5 DEF LifeStays, BusyStays, Starting, Running
  <1>8. Life(s)' = "starting"
    BY Zenon, <1>2, <1>3, <1>5, <1>6 DEF Life, Starting
  <1>9. Lifes' = [Lifes EXCEPT ![s] = Life(s)']
    BY Zenon, <1>7, LifeMoves DEF Lifes
  <1>10. Busy' = Busy \cup {s}
    BY Zenon, <1>6, <1>7, BusyMoves
  <1> QED BY Zenon, <1>4, <1>5, <1>8, <1>9, <1>10, MailStep DEF Moves

\* init() returns, whatever it says: the service is open.
LEMMA InitStarted ==
    ASSUME OwnInv, NEW w \in Thread, NEW s \in Svc, s = cctx[w], InitOk(w) \/ InitFail(w)
    PROVE  MB!Started(s)
  <1>1. pc[w] = "init"
    BY Zenon DEF InitOk, InitFail
  <1>2. pc \in [Thread -> PC]
    BY Zenon DEF OwnInv, LifeInv, LocalInv, LocalTypes
  <1>3. /\ Life(s) = "starting" /\ que[s] = "alive" /\ ~ isRelease[s] /\ dctx[w] # s
        /\ \A u \in Thread \ {w} : ~ Running(u, s) /\ ~ Starting(u, s)
    BY Zenon, <1>1, CreatedStarting
  <1>4. s \in Busy
    BY Zenon, <1>1 DEF Busy, Running
  <1>5. /\ UNCHANGED <<que, isRelease, msgs, dctx, cctx>>
        /\ pc' \in {[pc EXCEPT ![w] = "publish"], [pc EXCEPT ![w] = "failed"]}
    BY Zenon DEF InitOk, InitFail, mqVars
  <1>6. \A u \in Thread : ~ Starting(u, s)' /\ ~ Running(u, s)'
    BY Zenon, <1>2, <1>3, <1>5 DEF Starting, Running
  <1>7. \A x \in Svc \ {s} : LifeStays(x) /\ BusyStays(x)
    BY Zenon, <1>1, <1>2, <1>5 DEF LifeStays, BusyStays, Starting, Running
  <1>8. Life(s)' = "open"
    BY Zenon, <1>3, <1>5, <1>6 DEF Life, Starting
  <1>9. Lifes' = [Lifes EXCEPT ![s] = Life(s)']
    BY Zenon, <1>7, LifeMoves DEF Lifes
  <1>10. Busy' = Busy \ {s}
    BY Zenon, <1>6, <1>7, BusyMoves
  <1> QED BY Zenon, <1>3, <1>4, <1>5, <1>8, <1>9, <1>10, MailStep DEF Moves

\* Every step of the message core is a step of the mailboxes or leaves them
\* alone, whatever the interleaving.
LEMMA MailboxStep == OwnInv /\ [Next]_vars => [MB!Next]_(MB!vars)
  <1> SUFFICES ASSUME OwnInv, [Next]_vars PROVE [MB!Next]_(MB!vars)
    OBVIOUS
  <1>w. LocalTypes /\ Control /\ \A w \in Worker : w \in Thread
    BY Zenon DEF OwnInv, LifeInv, LocalInv, Thread
  <1>1. CASE MailStays
    BY Zenon, <1>1, MailSame DEF MB!vars, Busy
  <1>2. ASSUME NEW t \in Thread, QueuePush(t) PROVE MB!Next
    <2>1. sctx[t] \in Svc /\ smsg[t] \in Msg
      BY Zenon, <1>2, <1>w, Locals DEF QueuePush, OwnInv, LifeInv, LocalInv, LoopTypes
    <2>2. PICK s \in Svc, m \in Msg : s = sctx[t] /\ m = smsg[t]
      BY Zenon, <2>1
    <2> QED BY Zenon, <1>2, <2>2, PushAccepts DEF MB!Next
  <1>3. ASSUME NEW t \in Thread, MarkRelease(t) PROVE MB!Next
    <2>1. PICK s \in Svc : s = sctx[t]
      BY Zenon, <1>3, <1>w, Locals DEF MarkRelease
    <2> QED BY Zenon, <1>3, <2>1, MarkVanishes DEF MB!Next
  <1>4. ASSUME NEW w \in Worker, DropMessage(w) \/ DeleteQueue(w) \/ PopMessage(w) \/ EndCallback(w)
        PROVE  MB!Next
    <2>1. pc[w] # "idle"
      BY Zenon, <1>4 DEF DropMessage, DeleteQueue, PopMessage, EndCallback
    <2>2. PICK s \in Svc : s = q[w]
      BY Zenon, <2>1, <1>w, Locals
    <2> QED BY Zenon, <1>4, <1>w, <2>2, DropDrops, DeleteRemoves, PopTakes, ReturnFinishes DEF MB!Next
  <1>5. ASSUME NEW w \in Worker, CreateQueue(w) \/ InitOk(w) \/ InitFail(w) PROVE MB!Next
    <2>1. pc[w] \in Creating
      BY Zenon, <1>5 DEF CreateQueue, InitOk, InitFail, Creating
    <2>2. PICK s \in Svc : s = cctx[w]
      BY Zenon, <2>1, <1>w, Locals
    <2> QED BY Zenon, <1>5, <1>w, <2>2, CreateStarts, InitStarted DEF MB!Next
  <1> QED BY Zenon, <1>1, <1>2, <1>3, <1>4, <1>5, <1>w, MailFrame

\* The boot queues are all listed.
LEMMA FoundInit == Init => Found
  <1> SUFFICES ASSUME Init PROVE Found
    OBVIOUS
  <1> DEFINE k == Cardinality(Boot)
  <1>1. k \in Nat
    BY DispatchAssumption, FS_CardinalityType, FS_Subset
  <1>2. \A s \in Boot : InList(s)
    <2>1. global \in Injection(1 .. k, Boot)
      BY Zenon DEF Init, Injection, IsInjective
    <2>2. IsFiniteSet(Boot) /\ Cardinality(1 .. k) = k
      <3> HIDE DEF k
      <3> QED BY <1>1, FS_Interval, DispatchAssumption, FS_Subset
    <2>3. global \in Surjection(1 .. k, Boot)
      BY Zenon, <2>1, <2>2, FS_Injection
    <2>4. DOMAIN global = 1 .. k
      BY Zenon DEF Init
    <2> QED BY <2>3, <2>4 DEF InList, Surjection
  <1> QED BY ZenonT(30), <1>2, DispatchAssumption DEF Init, Found, At, Thread

-----------------------------------------------------------------------------
(***************************************************************************)
(* The theorems.                                                           *)
(***************************************************************************)
\* What the steps preserve; that a positive ref_ is grounded in a reference
\* follows from the counts.
CountInv == LocalInv /\ RefCount /\ Lives /\ Owned /\ Sources /\ CountExact

DispatchInv == OwnInv /\ RefCount /\ CountExact

\* The inductive invariant holds of every behaviour of the message core.
THEOREM Invariance == Spec => []DispatchInv
  <1>1. Init => CountInv
    BY LocalInvInit, RefCountInit, LivesInit, OwnedInit, CountInit DEF CountInv
  <1>2. CountInv => DispatchInv
    BY Zenon, CountsGround DEF CountInv, Grounded, DispatchInv, OwnInv, LifeInv
  <1>3. CountInv /\ DispatchInv /\ [Next]_vars => CountInv'
    BY LocalInvNext, RefCountNext, LivesNext, OwnedNext, SourcesNext, CountNext
       DEF CountInv, DispatchInv, OwnInv, LifeInv
  <1> QED BY <1>1, <1>2, <1>3, PTL DEF Spec

\* Every variable of the message core keeps its type; in particular ref_ and
\* svc_count_ never go below zero, however the threads interleave.
THEOREM TypeCorrect == Spec => []TypeOK
  <1>1. DispatchInv => TypeOK
    <2> SUFFICES ASSUME DispatchInv PROVE TypeOK
      OBVIOUS
    <2>1. SharedTypes /\ LocalTypes /\ LoopTypes
      BY Zenon DEF DispatchInv, OwnInv, LifeInv, LocalInv
    <2>2. \A s \in Svc : ref[s] \in Nat
      BY RefPositive DEF DispatchInv, OwnInv, LifeInv
    <2>3. svcCount \in Nat
      <3>1. IsFiniteSet(Counted)
        BY Zenon, DispatchAssumption, FS_Subset DEF Counted
      <3> QED BY <3>1, FS_CardinalityType DEF DispatchInv, CountExact, Counted
    <2>4. sent \in Nat
      BY <2>1, DispatchAssumption DEF SharedTypes
    <2> QED BY SMTT(30), <2>1, <2>2, <2>3, <2>4
               DEF SharedTypes, LocalTypes, LoopTypes, TypeOK, PC, Inside
  <1> QED BY <1>1, Invariance, PTL

\* mq_global never holds a queue twice, nor one that a thread has in hand.
THEOREM QueuesHaveOneOwner == Spec => []OneOwner
  <1>1. DispatchInv => OneOwner
    BY Zenon DEF DispatchInv, OwnInv, Owned, QueueOwned, HandOwned, Once, OneOwner
  <1> QED BY <1>1, Invariance, PTL

\* No two threads run the code of one service at the same time.
THEOREM ServicesAreSingleThreaded == Spec => []SingleThreaded
  <1>1. DispatchInv => SingleThreaded
    <2> SUFFICES ASSUME DispatchInv PROVE SingleThreaded
      OBVIOUS
    <2>1. Owned /\ \A t \in Thread : ControlAt(t)
      BY Zenon DEF DispatchInv, OwnInv, LifeInv, LocalInv, Control
    <2>2. ASSUME NEW t \in Thread, NEW s \in Svc, Running(t, s) PROVE Holds(t, s)
      BY <2>1, <2>2 DEF Running, Holds, ControlAt, Inside
    <2> QED BY Zenon, <2>1, <2>2 DEF SingleThreaded, Owned, QueueOwned
  <1> QED BY <1>1, Invariance, PTL

\* No thread ever uses a context or a queue that has been deleted, and a queue
\* is marked for release once.
THEOREM NothingDangles == Spec => []NoDangling
  <1>1. DispatchInv => NoDangling
    <2> SUFFICES ASSUME DispatchInv PROVE NoDangling
      OBVIOUS
    <2>1. Lives /\ Owned /\ Sources /\ Grounded
      BY Zenon DEF DispatchInv, OwnInv, LifeInv
    <2>2. /\ slot \subseteq Svc /\ que \in [Svc -> {"none", "alive", "deleted"}]
          /\ \A t \in Thread : dctx[t] \in Svc \cup {None}
          /\ \A t \in Thread : sub[t] \in {"none", "push", "release", "mark", "delete"}
          /\ \A t \in Thread : sub[t] # "none" => sctx[t] \in Svc
      BY Zenon, Locals DEF DispatchInv, OwnInv, LifeInv, LocalInv, SharedTypes, LocalTypes
    <2>3. ASSUME NEW s \in Svc, ref[s] > 0
          PROVE  ctx[s] = "alive" /\ ~ isRelease[s] /\ (que[s] # "none" => que[s] = "alive")
      BY <2>1, <2>2, <2>3 DEF Lives
    <2>4. /\ \A s \in slot : ctx[s] = "alive"
          /\ \A s \in Svc : InList(s) => que[s] = "alive"
      BY Zenon, <2>1, <2>2, <2>3, RefPositive DEF Owned, QueueOwned, HandOwned
    <2>5. ASSUME NEW t \in Thread
          PROVE  /\ q[t] # None => que[q[t]] = "alive"
                 /\ nextq[t] # None => que[nextq[t]] = "alive"
                 /\ dctx[t] # None => ctx[dctx[t]] = "alive"
      BY SMTT(30), <2>1, <2>2, <2>3, RefPositive DEF Owned, QueueOwned, HandOwned
    <2>6. ASSUME NEW t \in Thread, sub[t] \in {"push", "release"}
          PROVE  /\ ctx[sctx[t]] = "alive"
                 /\ sub[t] = "push" => que[sctx[t]] = "alive" /\ ~ isRelease[sctx[t]]
      <3>1. sctx[t] \in Svc /\ ref[sctx[t]] > 0
        BY SMTT(30), <2>1, <2>2, <2>6, RefPositive
      <3> QED BY <2>1, <2>3, <3>1 DEF Sources, PushOk
    <2>7. ASSUME NEW t \in Thread, sub[t] \in {"mark", "delete"}
          PROVE  /\ ctx[sctx[t]] = "alive" /\ ref[sctx[t]] = 0
                 /\ sub[t] = "mark" => que[sctx[t]] = "alive" /\ ~ isRelease[sctx[t]]
      <3>1. /\ sctx[t] \in Svc /\ ref[sctx[t]] = 0 /\ ctx[sctx[t]] = "alive"
            /\ sub[t] = "mark" => ~ isRelease[sctx[t]]
        BY <2>1, <2>2, <2>7 DEF Lives
      <3>2. ASSUME que[sctx[t]] = "none" PROVE FALSE
        <4>1. PICK u \in Thread : pc[u] = "create" /\ cctx[u] = sctx[t]
          BY <2>1, <3>1, <3>2 DEF Lives
        <4>2. ref[sctx[t]] > 0
          BY SMTT(30), <2>1, <3>1, <4>1, RefPositive
        <4> QED BY <3>1, <4>2
      <3>3. que[sctx[t]] = "deleted" => isRelease[sctx[t]]
        BY Zenon, <2>1, <3>1 DEF Lives
      <3> QED BY SMTT(30), <2>2, <3>1, <3>2, <3>3
    <2> QED BY <2>2, <2>4, <2>5, <2>6, <2>7 DEF NoDangling
  <1> QED BY <1>1, Invariance, PTL

\* svc_count_ is exact.
THEOREM CountIsExact == Spec => []CountExact
  <1>1. DispatchInv => CountExact
    BY Zenon DEF DispatchInv
  <1> QED BY <1>1, Invariance, PTL

\* No wakeup is lost: a queue with messages or one to be dropped is always in
\* the global queue or in a thread's hand, unless the init of its service may
\* fail, whatever becomes of the others.
THEOREM NothingIsStranded == Spec => []NoStranding
  <1>1. Init => Found
    BY Zenon, FoundInit
  <1>2. DispatchInv /\ Found /\ [Next]_vars => Found'
    BY Zenon, FoundNext DEF DispatchInv
  <1>3. Found => NoStranding
    BY Zenon DEF Found, At, NoStranding
  <1> QED BY <1>1, <1>2, <1>3, Invariance, PTL DEF Spec

\* Once svc_count_ is 0 no step makes it positive: a service is created by a
\* service that is itself still counted.
THEOREM ShutdownIsFinal == Spec => ZeroIsFinal
  <1>1. DispatchInv /\ [Next]_vars => [svcCount = 0 => svcCount' = 0]_svcCount
    <2> SUFFICES ASSUME DispatchInv, [Next]_vars, svcCount = 0, svcCount' # svcCount
                 PROVE  FALSE
      OBVIOUS
    <2>1. Lives /\ Owned /\ Grounded
      BY Zenon DEF DispatchInv, OwnInv, LifeInv
    <2>2. Counted = {}
      <3>1. IsFiniteSet(Counted)
        BY Zenon, DispatchAssumption, FS_Subset DEF Counted
      <3> QED BY ZenonT(30), <3>1, FS_EmptySet DEF DispatchInv, CountExact, Counted
    <2>3. ASSUME NEW t \in Thread, DeleteContext(t) PROVE FALSE
      <3>1. sub[t] = "delete" /\ sctx[t] \in Svc
        BY Zenon, <2>3, Locals DEF DeleteContext, DispatchInv, OwnInv, LifeInv, LocalInv
      <3>2. ctx[sctx[t]] = "alive" /\ isRelease[sctx[t]]
        BY Zenon, <2>1, <3>1 DEF Lives
      <3>3. que[sctx[t]] # "none"
        BY <2>1, <3>1, <3>2 DEF Lives
      <3> QED BY <2>2, <3>1, <3>2, <3>3 DEF Counted
    <2>4. ASSUME NEW w \in Worker, CreateQueue(w) PROVE FALSE
      <3>1. w \in Thread /\ pc[w] = "create"
        BY Zenon, <2>4 DEF CreateQueue, Thread
      <3>2. dctx[w] \in Svc /\ dctx[w] = q[w]
        BY Zenon, <3>1, Locals DEF DispatchInv, OwnInv, LifeInv, LocalInv, Inside
      <3>3. ctx[dctx[w]] = "alive"
        BY <2>1, <3>1, <3>2, RefPositive DEF Lives
      <3>4. que[dctx[w]] = "alive"
        BY Zenon, <2>1, <3>1, <3>2, HandAlive
      <3> QED BY Zenon, <2>2, <3>2, <3>3, <3>4 DEF Counted
    <2>5. ASSUME NEW w \in Worker, DeleteQueue(w) PROVE FALSE
      BY Zenon, <2>5 DEF DeleteQueue, regVars
    <2>6. ASSUME NEW w \in Worker, NEW d \in Svc, CreateContext(w, d) PROVE FALSE
      BY Zenon, <2>6 DEF CreateContext
    <2> QED BY <2>3, <2>4, <2>5, <2>6, CountFrame
  <1> QED BY <1>1, Invariance, PTL DEF Spec, ZeroIsFinal

\* dispatch_message, create_service, release_service and the queues together
\* keep the promises of Mailbox: every step of the message core is a step of
\* the mailboxes or leaves them alone, whatever the interleaving.
THEOREM CoreImplementsMailbox == Spec => ImplementsMailbox
  <1>1. Init => MB!Init
    <2> SUFFICES ASSUME Init PROVE MB!Init
      OBVIOUS
    <2>1. /\ que = [s \in Svc |-> IF s \in Boot THEN "alive" ELSE "none"]
          /\ isRelease = [s \in Svc |-> FALSE]
          /\ pc = [t \in Thread |-> "idle"]
      BY Zenon DEF Init
    <2>2. \A s \in Svc : Life(s) = IF s \in Boot THEN "open" ELSE "absent"
      BY Zenon, <2>1 DEF Life
    <2>3. {s \in Svc : \E t \in Thread : Running(t, s)} = {}
      BY Zenon, <2>1 DEF Running
    <2>4. msgs \in [Svc -> Seq(Msg)]
      BY Zenon, LocalInvInit DEF LocalInv, SharedTypes
    <2>5. \A s \in Svc \ Boot : msgs[s] = <<>>
      BY Zenon DEF Init
    <2> QED BY <2>2, <2>3, <2>4, <2>5 DEF MB!Init
  <1>2. DispatchInv => OwnInv
    BY Zenon DEF DispatchInv
  <1> QED BY <1>1, <1>2, MailboxStep, Invariance, PTL DEF Spec, ImplementsMailbox, MB!Spec

=============================================================================
