---------------------------- MODULE DispatchCounts --------------------------
(***************************************************************************)
(* The counts of the message core: ref_ is the number of references there  *)
(* are to a context, svc_count_ that of services.                          *)
(***************************************************************************)
EXTENDS DispatchOwned, FiniteSetTheorems

\* What boot leaves behind has the types of this layer.
LEMMA LocalInvInit == Init => LocalInv
  <1> SUFFICES ASSUME Init PROVE LocalInv
    OBVIOUS
  <1>1. NoMsg \in Msg
    BY DispatchAssumption DEF NoMsg, Msg
  <1>2. Cardinality(Boot) \in Nat
    BY Zenon, DispatchAssumption, FS_CardinalityType, FS_Subset
  <1>3. global \in Seq(Svc)
    <2> DEFINE k == Cardinality(Boot)
    <2>1. global \in [1 .. k -> Svc]
      BY Zenon, DispatchAssumption DEF Init
    <2> HIDE DEF k
    <2> QED BY <1>2, <2>1 DEF k
  <1>4. msgs \in [Svc -> Seq(Msg)]
    <2>1. PICK b \in Boot :
            msgs = [d \in Svc |-> IF d \in Boot
                                  THEN <<[id |-> 0, src |-> b, type |-> "text"]>>
                                  ELSE <<>>]
      BY Zenon DEF Init
    <2>2. [id |-> 0, src |-> b, type |-> "text"] \in Msg
      BY DispatchAssumption DEF Msg
    <2> QED BY <2>1, <2>2
  <1>5. SharedTypes
    BY SMTT(30), <1>2, <1>3, <1>4, DispatchAssumption DEF Init, SharedTypes
  <1>6. LocalTypes /\ LoopTypes
    BY Zenon, <1>1 DEF Init, LocalTypes, LoopTypes, PC
  <1>7. Control
    BY Zenon DEF Init, Control, ControlAt, Inside, Creating
  <1> QED BY Zenon, <1>5, <1>6, <1>7 DEF LocalInv

-----------------------------------------------------------------------------
(***************************************************************************)
(* The counts.  ref_ is the number of references there are.                *)
(***************************************************************************)

\* What refers to a context: dispatch_message, push_service_message or
\* release_service under way, create_service before the release, the slot.
DispatchRefs(s) == {t \in Thread : dctx[t] = s}

CallRefs(s) == {t \in Thread : sctx[t] = s /\ sub[t] \in {"push", "release"}}

CreatorRefs(s) == {t \in Thread : cctx[t] = s /\ pc[t] \in {"create", "init"}}

SlotRef(s) == IF s \in slot THEN 1 ELSE 0

\* ref_ is exact: every grab and release is accounted for.
RefCount ==
    \A s \in Svc :
        ref[s] = Cardinality(DispatchRefs(s)) + Cardinality(CallRefs(s))
                   + Cardinality(CreatorRefs(s)) + SlotRef(s)

\* What the lemmas on references need to know of the types.
RefTypes ==
    /\ slot \subseteq Svc
    /\ ref \in [Svc -> Int]
    /\ pc \in [Thread -> PC]
    /\ dctx \in [Thread -> Svc \cup {None}]
    /\ cctx \in [Thread -> Svc \cup {None}]
    /\ sub \in [Thread -> {"none", "push", "release", "mark", "delete"}]
    /\ sctx \in [Thread -> Svc \cup {None}]

\* The sets of references are finite.
LEMMA RefSets ==
    ASSUME NEW s \in Svc
    PROVE  /\ IsFiniteSet(DispatchRefs(s)) /\ Cardinality(DispatchRefs(s)) \in Nat
           /\ IsFiniteSet(CallRefs(s)) /\ Cardinality(CallRefs(s)) \in Nat
           /\ IsFiniteSet(CreatorRefs(s)) /\ Cardinality(CreatorRefs(s)) \in Nat
           /\ SlotRef(s) \in {0, 1}
  <1>1. IsFiniteSet(Thread)
    BY ZenonT(30), DispatchAssumption, FS_Union DEF Thread
  <1>2. /\ DispatchRefs(s) \subseteq Thread
        /\ CallRefs(s) \subseteq Thread
        /\ CreatorRefs(s) \subseteq Thread
    BY Zenon DEF DispatchRefs, CallRefs, CreatorRefs
  <1>3. /\ IsFiniteSet(DispatchRefs(s))
        /\ IsFiniteSet(CallRefs(s))
        /\ IsFiniteSet(CreatorRefs(s))
    BY Zenon, <1>1, <1>2, FS_Subset
  <1> QED BY Zenon, <1>3, FS_CardinalityType DEF SlotRef

\* A context has a positive count exactly when someone refers to it.
LEMMA CountsGround ==
    ASSUME RefCount, NEW s \in Svc
    PROVE  /\ ref[s] \in Nat
           /\ ref[s] > 0 <=> \/ s \in slot
                             \/ \E t \in Thread :
                                   \/ dctx[t] = s
                                   \/ sctx[t] = s /\ sub[t] \in {"push", "release"}
                                   \/ cctx[t] = s /\ pc[t] \in {"create", "init"}
  <1>1. /\ Cardinality(DispatchRefs(s)) = 0 <=> DispatchRefs(s) = {}
        /\ Cardinality(CallRefs(s)) = 0 <=> CallRefs(s) = {}
        /\ Cardinality(CreatorRefs(s)) = 0 <=> CreatorRefs(s) = {}
    BY Zenon, RefSets, FS_EmptySet
  <1>2. /\ DispatchRefs(s) # {} <=> \E t \in Thread : dctx[t] = s
        /\ CallRefs(s) # {} <=> \E t \in Thread : sctx[t] = s /\ sub[t] \in {"push", "release"}
        /\ CreatorRefs(s) # {} <=> \E t \in Thread : cctx[t] = s /\ pc[t] \in {"create", "init"}
    BY Zenon DEF DispatchRefs, CallRefs, CreatorRefs
  <1>3. ref[s] \in Nat
    BY RefSets DEF RefCount
  <1>4. ref[s] > 0 <=> s \in slot \/ DispatchRefs(s) # {} \/ CallRefs(s) # {}
                       \/ CreatorRefs(s) # {}
    BY <1>1, RefSets DEF RefCount, SlotRef
  <1> QED BY Zenon, <1>2, <1>3, <1>4

\* Cardinality of a set that may have got one more element.
LEMMA CardAdd ==
    ASSUME NEW X, IsFiniteSet(X), NEW e, e \notin X, NEW b,
           NEW Y, Y = IF b THEN X \cup {e} ELSE X
    PROVE  Cardinality(Y) = Cardinality(X) + (IF b THEN 1 ELSE 0)
  <1>1. Cardinality(X) \in Nat
    BY Zenon, FS_CardinalityType
  <1>2. CASE b
    BY Zenon, <1>1, <1>2, FS_AddElement
  <1>3. CASE ~ b
    BY <1>1, <1>3
  <1> QED BY Zenon, <1>2, <1>3

\* Cardinality of a set that may have lost an element.
LEMMA CardRemove ==
    ASSUME NEW X, IsFiniteSet(X), NEW e, NEW b, b => e \in X,
           NEW Y, Y = IF b THEN X \ {e} ELSE X
    PROVE  Cardinality(Y) = Cardinality(X) - (IF b THEN 1 ELSE 0)
  <1>1. Cardinality(X) \in Nat
    BY Zenon, FS_CardinalityType
  <1>2. CASE b
    BY Zenon, <1>1, <1>2, FS_RemoveElement
  <1>3. CASE ~ b
    BY <1>1, <1>3
  <1> QED BY Zenon, <1>2, <1>3

\* A step that changes nothing in who refers to what.
RefsStay ==
    /\ UNCHANGED <<ref, slot, dctx>>
    /\ \A t \in Thread, s \in Svc :
          /\ (sctx'[t] = s /\ sub'[t] \in {"push", "release"})
                <=> (sctx[t] = s /\ sub[t] \in {"push", "release"})
          /\ (cctx'[t] = s /\ pc'[t] \in {"create", "init"})
                <=> (cctx[t] = s /\ pc[t] \in {"create", "init"})

\* Such a step keeps the counts exact.
LEMMA RefsSame ==
    ASSUME RefCount, RefsStay
    PROVE  RefCount'
  <1> SUFFICES ASSUME NEW s \in Svc
               PROVE  ref'[s] = Cardinality(DispatchRefs(s)') + Cardinality(CallRefs(s)')
                                  + Cardinality(CreatorRefs(s)') + SlotRef(s)'
    BY Zenon DEF RefCount
  <1>1. /\ DispatchRefs(s)' = DispatchRefs(s)
        /\ CallRefs(s)' = CallRefs(s)
        /\ CreatorRefs(s)' = CreatorRefs(s)
        /\ SlotRef(s)' = SlotRef(s)
    BY Zenon DEF RefsStay, DispatchRefs, CallRefs, CreatorRefs, SlotRef
  <1> QED BY Zenon, <1>1 DEF RefCount, RefsStay

\* grab() inside push_service_message or process_blocked_service:
LEMMA RefsCall ==
    ASSUME RefTypes, RefCount, NEW t \in Thread, NEW s \in Svc,
           NEW p \in {"push", "release"},
           sub[t] = "none",
           sub' = [sub EXCEPT ![t] = p],
           sctx' = [sctx EXCEPT ![t] = s],
           ref' = [ref EXCEPT ![s] = @ + 1],
           UNCHANGED <<slot, dctx, cctx, pc>>
    PROVE  RefCount'
  <1> USE DEF RefTypes
  <1> SUFFICES ASSUME NEW x \in Svc
               PROVE  ref'[x] = Cardinality(DispatchRefs(x)') + Cardinality(CallRefs(x)')
                                  + Cardinality(CreatorRefs(x)') + SlotRef(x)'
    BY Zenon DEF RefCount
  <1>1. /\ DispatchRefs(x)' = DispatchRefs(x)
        /\ CreatorRefs(x)' = CreatorRefs(x)
        /\ SlotRef(x)' = SlotRef(x)
    BY Zenon DEF DispatchRefs, CreatorRefs, SlotRef
  <1>2. CallRefs(x)' = IF x = s THEN CallRefs(x) \cup {t} ELSE CallRefs(x)
    BY Zenon DEF CallRefs
  <1>3. t \notin CallRefs(x)
    BY Zenon DEF CallRefs
  <1>4. Cardinality(CallRefs(x)') = Cardinality(CallRefs(x)) + (IF x = s THEN 1 ELSE 0)
    BY <1>2, <1>3, RefSets, CardAdd
  <1>5. ref'[x] = ref[x] + (IF x = s THEN 1 ELSE 0)
    OBVIOUS
  <1>6. ref[x] = Cardinality(DispatchRefs(x)) + Cardinality(CallRefs(x))
                   + Cardinality(CreatorRefs(x)) + SlotRef(x)
    BY Zenon DEF RefCount
  <1> HIDE DEF RefTypes
  <1> QED BY SMTT(30), <1>1, <1>4, <1>5, <1>6, RefSets

\* One reference passes from one kind to another:
LEMMA OneMoves ==
    ASSUME NEW a \in Int, NEW b \in Int, NEW c \in Int, NEW d \in Int, NEW one \in Int
    PROVE  /\ a + b + c + d = (a - one) + (b + one) + c + d
           /\ a + b + c + d = a + (b + one) + (c - one) + d
           /\ a + b + c + d = a + (b + one) + c + (d - one)
  OBVIOUS

\* The reference of a worker's dispatch_message, of a creator or of the slot
\* table is handed to release_service:
LEMMA RefsHandOver ==
    ASSUME RefTypes, RefCount, NEW t \in Thread, NEW s \in Svc,
           sub[t] = "none",
           sub' = [sub EXCEPT ![t] = "release"],
           sctx' = [sctx EXCEPT ![t] = s],
           ref' = ref,
           \/ /\ dctx[t] = s /\ dctx' = [dctx EXCEPT ![t] = None]
              /\ \A x \in Svc : CreatorRefs(x)' = CreatorRefs(x)
              /\ slot' = slot
           \/ /\ \A x \in Svc : CreatorRefs(x)' = CreatorRefs(x) \ (IF x = s THEN {t} ELSE {})
              /\ t \in CreatorRefs(s)
              /\ UNCHANGED <<slot, dctx>>
           \/ /\ s \in slot /\ slot' = slot \ {s}
              /\ \A x \in Svc : CreatorRefs(x)' = CreatorRefs(x)
              /\ dctx' = dctx
    PROVE  RefCount'
  <1> USE DispatchAssumption DEF RefTypes
  <1> SUFFICES ASSUME NEW x \in Svc
               PROVE  ref'[x] = Cardinality(DispatchRefs(x)') + Cardinality(CallRefs(x)')
                                  + Cardinality(CreatorRefs(x)') + SlotRef(x)'
    BY Zenon DEF RefCount
  <1> DEFINE one == IF x = s THEN 1 ELSE 0
  <1>1. CallRefs(x)' = IF x = s THEN CallRefs(x) \cup {t} ELSE CallRefs(x)
    BY DEF CallRefs
  <1>2. t \notin CallRefs(x)
    BY Zenon DEF CallRefs
  <1>3. Cardinality(CallRefs(x)') = Cardinality(CallRefs(x)) + one
    BY <1>1, <1>2, RefSets, CardAdd
  <1>7. ref[x] = Cardinality(DispatchRefs(x)) + Cardinality(CallRefs(x))
                   + Cardinality(CreatorRefs(x)) + SlotRef(x)
    BY Zenon DEF RefCount
  <1>8. /\ one \in Int
        /\ Cardinality(DispatchRefs(x)) \in Int
        /\ Cardinality(CallRefs(x)) \in Int
        /\ Cardinality(CreatorRefs(x)) \in Int
        /\ SlotRef(x) \in Int
    BY RefSets
  <1>9. ref'[x] = ref[x]
    OBVIOUS
  <1> DEFINE a == Cardinality(DispatchRefs(x))
             b == Cardinality(CallRefs(x))
             c == Cardinality(CreatorRefs(x))
             d == SlotRef(x)
  <1> HIDE DEF one, a, b, c, d
  <1>10. /\ ref'[x] = (a - one) + (b + one) + c + d
         /\ ref'[x] = a + (b + one) + (c - one) + d
         /\ ref'[x] = a + (b + one) + c + (d - one)
    <2> HIDE DEF RefTypes
    <2>1. /\ a \in Int /\ b \in Int /\ c \in Int /\ d \in Int /\ one \in Int
          /\ ref'[x] = a + b + c + d
      BY Zenon, <1>7, <1>8, <1>9 DEF a, b, c, d
    <2> QED BY <2>1, OneMoves
  <1> USE DEF a, b, c, d
  <1>4. CASE /\ dctx[t] = s /\ dctx' = [dctx EXCEPT ![t] = None]
             /\ CreatorRefs(x)' = CreatorRefs(x)
             /\ slot' = slot
    <2>1. DispatchRefs(x)' = IF x = s THEN DispatchRefs(x) \ {t} ELSE DispatchRefs(x)
      BY Zenon, <1>4 DEF DispatchRefs
    <2>2. x = s => t \in DispatchRefs(x)
      BY Zenon, <1>4 DEF DispatchRefs
    <2>3. Cardinality(DispatchRefs(x)') = Cardinality(DispatchRefs(x)) - one
      BY <2>1, <2>2, RefSets, CardRemove DEF one
    <2>4. SlotRef(x)' = SlotRef(x)
      BY Zenon, <1>4 DEF SlotRef
    <2> QED BY <1>3, <1>4, <1>10, <2>3, <2>4
  <1>5. CASE /\ CreatorRefs(x)' = CreatorRefs(x) \ (IF x = s THEN {t} ELSE {})
             /\ t \in CreatorRefs(s)
             /\ UNCHANGED <<slot, dctx>>
    <2>1. DispatchRefs(x)' = DispatchRefs(x) /\ SlotRef(x)' = SlotRef(x)
      BY Zenon, <1>5 DEF DispatchRefs, SlotRef
    <2>2. CreatorRefs(x)' = IF x = s THEN CreatorRefs(x) \ {t} ELSE CreatorRefs(x)
      BY Zenon, <1>5
    <2>3. Cardinality(CreatorRefs(x)') = Cardinality(CreatorRefs(x)) - one
      BY ZenonT(30), <1>5, <2>2, RefSets, CardRemove DEF one
    <2> QED BY <1>3, <1>10, <2>1, <2>3
  <1>6. CASE /\ s \in slot /\ slot' = slot \ {s}
             /\ CreatorRefs(x)' = CreatorRefs(x)
             /\ dctx' = dctx
    <2>1. DispatchRefs(x)' = DispatchRefs(x) /\ SlotRef(x)' = SlotRef(x) - one
      BY <1>6 DEF DispatchRefs, SlotRef, one
    <2> QED BY <1>3, <1>6, <1>10, <2>1
  <1> QED BY <1>4, <1>5, <1>6

\* The counts are exact at the start: a slot for each boot service.
LEMMA RefCountInit == Init => RefCount
  <1> SUFFICES ASSUME Init, NEW s \in Svc
               PROVE  ref[s] = Cardinality(DispatchRefs(s)) + Cardinality(CallRefs(s))
                                 + Cardinality(CreatorRefs(s)) + SlotRef(s)
    BY Zenon DEF RefCount
  <1>1. DispatchRefs(s) = {} /\ CallRefs(s) = {} /\ CreatorRefs(s) = {}
    BY Zenon, DispatchAssumption DEF Init, DispatchRefs, CallRefs, CreatorRefs
  <1>2. SlotRef(s) = ref[s] /\ ref[s] \in {0, 1}
    BY Zenon DEF Init, SlotRef
  <1> QED BY <1>1, <1>2, FS_EmptySet

\* Every step keeps the counts exact.
LEMMA RefCountNext == LifeInv /\ RefCount /\ [Next]_vars => RefCount'
  <1> SUFFICES ASSUME LifeInv, RefCount, [Next]_vars PROVE RefCount'
    OBVIOUS
  <1>r. RefCount /\ Grounded /\ RefTypes /\ LocalTypes /\ Control
    BY Zenon DEF LifeInv, LocalInv, RefTypes, SharedTypes, LocalTypes
  <1>w. \A w \in Worker : w \in Thread
    BY Zenon DEF Thread
  <1>o. \A t \in Other : t \in Thread
    BY Zenon DEF Thread
  <1>l. \A t \in Thread :
           /\ pc[t] = "grab" => q[t] \in Svc
           /\ pc[t] \in {"pop", "next", "back"} => dctx[t] \in Svc /\ sub[t] = "none"
           /\ pc[t] \in Creating => cctx[t] \in Svc
           /\ pc[t] \notin Inside => dctx[t] = None
           /\ pc[t] \notin Creating => cctx[t] = None
           /\ sub[t] # "none" => sctx[t] \in Svc
    <2> SUFFICES ASSUME NEW t \in Thread
                 PROVE  /\ pc[t] = "grab" => q[t] \in Svc
                        /\ pc[t] \in {"pop", "next", "back"} => dctx[t] \in Svc /\ sub[t] = "none"
                        /\ pc[t] \in Creating => cctx[t] \in Svc
                        /\ pc[t] \notin Inside => dctx[t] = None
                        /\ pc[t] \notin Creating => cctx[t] = None
                        /\ sub[t] # "none" => sctx[t] \in Svc
      OBVIOUS
    <2>1. ControlAt(t)
      BY Zenon, <1>r DEF Control
    <2> QED BY <1>r, <2>1, Locals DEF ControlAt, Inside
  <1> USE DEF regVars, mqVars, runVars, subVars
  <1>1. ASSUME NEW t \in Thread, QueuePush(t) \/ MarkRelease(t) \/ DeleteContext(t)
        PROVE  RefsStay
    BY <1>r, <1>1, DispatchAssumption DEF QueuePush, MarkRelease, DeleteContext, RefsStay, RefTypes
  <1>2. ASSUME NEW w \in Worker, PopGlobal(w) \/ ReleaseQueue(w) \/ DeleteQueue(w)
        PROVE  RefsStay
    BY <1>r, <1>w, <1>2 DEF PopGlobal, ReleaseQueue, DeleteQueue, RefsStay, RefTypes
  <1>3. ASSUME NEW w \in Worker, PopMessage(w) \/ Length(w) \/ EndCallback(w) \/ PopNext(w)
        PROVE  RefsStay
    BY <1>r, <1>w, <1>3 DEF PopMessage, Length, EndCallback, PopNext, RefsStay, RefTypes
  <1>4. ASSUME NEW w \in Worker, CreateQueue(w) \/ Publish(w)
        PROVE  RefsStay
    BY <1>r, <1>w, <1>4, DispatchAssumption DEF CreateQueue, Publish, RefsStay, RefTypes
  <1>5. CASE UNCHANGED vars
    BY <1>r, <1>5, RefsSame DEF vars, RefsStay
  <1>6. ASSUME NEW t \in Thread, NEW d \in slot, NEW p \in {"push", "release"},
               sub[t] = "none",
               sub' = [sub EXCEPT ![t] = p],
               sctx' = [sctx EXCEPT ![t] = d],
               ref' = [ref EXCEPT ![d] = @ + 1],
               UNCHANGED <<slot, dctx, cctx, pc>>
        PROVE  RefCount'
    <2>1. d \in Svc
      BY Zenon, <1>r DEF RefTypes
    <2> QED BY ZenonT(30), <1>r, <1>6, <2>1, RefsCall
  <1>7. ASSUME NEW t \in Thread, Release(t) PROVE RefCount'
    <2>1. PICK s \in Svc : s = sctx[t] /\ sub[t] = "release"
      BY Zenon, <1>l, <1>7 DEF Release
    <2>2. /\ t \in CallRefs(s)
          /\ ref' = [ref EXCEPT ![s] = @ - 1]
          /\ UNCHANGED <<slot, dctx, cctx>>
      BY Zenon, <1>7, <2>1 DEF Release, CallRefs
    <2> SUFFICES ASSUME NEW x \in Svc
                 PROVE  ref'[x] = Cardinality(DispatchRefs(x)') + Cardinality(CallRefs(x)')
                                    + Cardinality(CreatorRefs(x)') + SlotRef(x)'
      BY Zenon DEF RefCount
    <2>3. DispatchRefs(x)' = DispatchRefs(x) /\ SlotRef(x)' = SlotRef(x)
      BY Zenon, <2>2 DEF DispatchRefs, SlotRef
    <2>4. CreatorRefs(x)' = CreatorRefs(x)
      BY <1>r, <1>7, <2>2 DEF Release, CreatorRefs, RefTypes
    <2>5. CallRefs(x)' = IF x = s THEN CallRefs(x) \ {t} ELSE CallRefs(x)
      BY <1>r, <1>7, <2>1, DispatchAssumption DEF Release, CallRefs, RefTypes
    <2>6. Cardinality(CallRefs(x)') = Cardinality(CallRefs(x)) - (IF x = s THEN 1 ELSE 0)
      <3>1. IsFiniteSet(CallRefs(x)) /\ (x = s => t \in CallRefs(x))
        BY <2>2, RefSets
      <3> QED BY ZenonT(30), <2>5, <3>1, CardRemove
    <2>7. ref'[x] = ref[x] - (IF x = s THEN 1 ELSE 0)
      BY <1>r, <2>2 DEF RefTypes
    <2>8. ref[x] = Cardinality(DispatchRefs(x)) + Cardinality(CallRefs(x))
                     + Cardinality(CreatorRefs(x)) + SlotRef(x)
      BY Zenon, <1>r DEF RefCount
    <2> QED BY <2>3, <2>4, <2>6, <2>7, <2>8, RefSets
  <1>8. ASSUME NEW w \in Worker, GrabContext(w) PROVE RefCount'
    <2>1. PICK s \in Svc : s = q[w] /\ pc[w] = "grab" /\ dctx[w] = None /\ cctx[w] = None
      BY Zenon, <1>l, <1>w, <1>8 DEF GrabContext, Inside, Creating
    <2>2. CASE s \in slot
      <3>1. /\ ref' = [ref EXCEPT ![s] = @ + 1]
            /\ dctx' = [dctx EXCEPT ![w] = s]
            /\ pc' = [pc EXCEPT ![w] = "pop"]
            /\ UNCHANGED <<slot, cctx, sub, sctx>>
        BY <1>8, <2>1, <2>2 DEF GrabContext
      <3> SUFFICES ASSUME NEW x \in Svc
                   PROVE  ref'[x] = Cardinality(DispatchRefs(x)') + Cardinality(CallRefs(x)')
                                      + Cardinality(CreatorRefs(x)') + SlotRef(x)'
        BY Zenon DEF RefCount
      <3>2. /\ CallRefs(x)' = CallRefs(x)
            /\ CreatorRefs(x)' = CreatorRefs(x)
            /\ SlotRef(x)' = SlotRef(x)
        BY <1>r, <2>1, <3>1 DEF CallRefs, CreatorRefs, SlotRef, RefTypes
      <3>3. /\ DispatchRefs(x)' = IF x = s THEN DispatchRefs(x) \cup {w} ELSE DispatchRefs(x)
            /\ w \notin DispatchRefs(x)
        BY <1>r, <1>w, <2>1, <3>1, DispatchAssumption DEF DispatchRefs, RefTypes
      <3>4. Cardinality(DispatchRefs(x)')
              = Cardinality(DispatchRefs(x)) + (IF x = s THEN 1 ELSE 0)
        <4>1. IsFiniteSet(DispatchRefs(x))
          BY Zenon, RefSets
        <4> QED BY ZenonT(30), <3>3, <4>1, CardAdd
      <3>5. ref'[x] = ref[x] + (IF x = s THEN 1 ELSE 0)
        BY <1>r, <3>1 DEF RefTypes
      <3>6. ref[x] = Cardinality(DispatchRefs(x)) + Cardinality(CallRefs(x))
                       + Cardinality(CreatorRefs(x)) + SlotRef(x)
        BY Zenon, <1>r DEF RefCount
      <3> QED BY <3>2, <3>4, <3>5, <3>6, RefSets
    <2>3. CASE s \notin slot
      <3>1. /\ pc' = [pc EXCEPT ![w] = "release"]
            /\ UNCHANGED <<ref, slot, dctx, cctx, sub, sctx>>
        BY <1>8, <2>1, <2>3 DEF GrabContext
      <3>2. RefsStay
        BY <1>r, <1>w, <2>1, <3>1 DEF RefsStay, RefTypes
      <3> QED BY <1>r, <3>2, RefsSame
    <2> QED BY Zenon, <2>2, <2>3
  <1>9. ASSUME NEW w \in Worker, DropMessage(w) PROVE RefCount'
    <2>1. UNCHANGED <<slot, dctx, cctx, pc>> /\ sub[w] = "none"
      BY Zenon, <1>9 DEF DropMessage
    <2>2. CASE UNCHANGED <<ref, subVars>>
      <3>1. RefsStay
        BY Zenon, <2>1, <2>2 DEF RefsStay
      <3> QED BY SMTT(30), <1>r, <3>1, RefsSame
    <2>3. ASSUME NEW s, NEW m, BeginPush(w, s, m) PROVE RefCount'
      BY ZenonT(30), <1>w, <1>6, <2>1, <2>3 DEF BeginPush
    <2> QED BY SMTT(30), <1>9, <2>2, <2>3 DEF DropMessage
  <1>10. ASSUME NEW w \in Worker, PopEmpty(w) \/ KeepQueue(w) \/ PushBack(w) PROVE RefCount'
    <2>1. /\ pc[w] \in {"pop", "next", "back"}
          /\ dctx' = [dctx EXCEPT ![w] = None]
          /\ sub' = [sub EXCEPT ![w] = "release"]
          /\ sctx' = [sctx EXCEPT ![w] = dctx[w]]
          /\ UNCHANGED <<ref, slot, cctx>>
          /\ pc' = [pc EXCEPT ![w] = "idle"] \/ pc' = [pc EXCEPT ![w] = "grab"]
      BY Zenon, <1>10 DEF PopEmpty, KeepQueue, PushBack, EndDispatch, BeginRelease
    <2>2. dctx[w] \in Svc /\ sub[w] = "none"
      BY <1>l, <1>w, <2>1
    <2>3. \A x \in Svc : CreatorRefs(x)' = CreatorRefs(x)
      BY <1>r, <1>w, <2>1 DEF CreatorRefs, RefTypes
    <2> QED BY ZenonT(30), <1>r, <1>w, <2>1, <2>2, <2>3, RefsHandOver
  <1>11. ASSUME NEW w \in Worker, InitOk(w) \/ InitFail(w) PROVE RefCount'
    <2>1. /\ pc[w] = "init" /\ sub[w] = "none"
          /\ sub' = [sub EXCEPT ![w] = "release"]
          /\ sctx' = [sctx EXCEPT ![w] = cctx[w]]
          /\ pc' = [pc EXCEPT ![w] = "publish"] \/ pc' = [pc EXCEPT ![w] = "failed"]
          /\ UNCHANGED <<ref, slot, dctx, cctx>>
      BY Zenon, <1>11 DEF InitOk, InitFail, BeginRelease
    <2>2. cctx[w] \in Svc /\ w \in CreatorRefs(cctx[w])
      BY <1>l, <1>w, <2>1 DEF CreatorRefs, Creating
    <2>3. \A x \in Svc :
            CreatorRefs(x)' = CreatorRefs(x) \ (IF x = cctx[w] THEN {w} ELSE {})
      BY <1>r, <1>w, <2>1 DEF CreatorRefs, RefTypes
    <2> QED BY ZenonT(30), <1>r, <1>w, <2>1, <2>2, <2>3, RefsHandOver
  <1>12. ASSUME NEW w \in Worker, UnregisterFailed(w) PROVE RefCount'
    <2>1. /\ pc[w] = "failed" /\ sub[w] = "none"
          /\ UNCHANGED <<ref, dctx>>
          /\ slot' = slot \ {cctx[w]}
          /\ cctx' = [cctx EXCEPT ![w] = None]
          /\ pc' = [pc EXCEPT ![w] = "callback"]
      BY Zenon, <1>12 DEF UnregisterFailed
    <2>2. cctx[w] \in Svc
      BY SMTT(30), <1>l, <1>w, <2>1 DEF Creating
    <2>3. CASE cctx[w] \in slot /\ BeginRelease(w, cctx[w])
      <3>1. \A x \in Svc : CreatorRefs(x)' = CreatorRefs(x)
        BY <1>r, <1>w, <2>1, DispatchAssumption DEF CreatorRefs, RefTypes
      <3> QED BY ZenonT(30), <1>r, <1>w, <2>1, <2>2, <2>3, <3>1, RefsHandOver
                 DEF BeginRelease
    <2>4. CASE cctx[w] \notin slot /\ UNCHANGED subVars
      <3>1. RefsStay
        BY SMTT(30), <1>r, <1>w, <2>1, <2>4, DispatchAssumption DEF RefsStay, RefTypes
      <3> QED BY <1>r, <3>1, RefsSame
    <2> QED BY <1>12, <2>3, <2>4 DEF UnregisterFailed
  <1>13. ASSUME NEW w \in Worker, NEW d \in Svc, Send(w, d) PROVE RefCount'
    BY ZenonT(30), <1>6, <1>w, <1>13 DEF Send, BeginPush
  <1>14. ASSUME NEW w \in Worker, NEW d \in Svc, Unregister(w, d) PROVE RefCount'
    <2>1. /\ sub[w] = "none" /\ d \in slot /\ slot' = slot \ {d}
          /\ sub' = [sub EXCEPT ![w] = "release"]
          /\ sctx' = [sctx EXCEPT ![w] = d]
          /\ UNCHANGED <<ref, dctx, cctx, pc>>
      BY Zenon, <1>14 DEF Unregister, BeginRelease
    <2>2. \A x \in Svc : CreatorRefs(x)' = CreatorRefs(x)
      BY Zenon, <2>1 DEF CreatorRefs
    <2> QED BY ZenonT(30), <1>r, <1>w, <2>1, <2>2, RefsHandOver
  <1>15. ASSUME NEW w \in Worker, NEW d \in Svc, CreateContext(w, d) PROVE RefCount'
    <2>1. /\ pc[w] = "callback" /\ ctx[d] = "none"
          /\ ref' = [ref EXCEPT ![d] = 2]
          /\ slot' = slot \cup {d}
          /\ cctx' = [cctx EXCEPT ![w] = d]
          /\ pc' = [pc EXCEPT ![w] = "create"]
          /\ UNCHANGED <<dctx, sub, sctx>>
      BY Zenon, <1>15 DEF CreateContext
    <2>2. cctx[w] = None
      BY <1>l, <1>w, <2>1 DEF Creating
    <2>3. ~ (ref[d] > 0)
      BY <2>1 DEF LifeInv, Lives
    <2>4. /\ d \notin slot
          /\ DispatchRefs(d) = {} /\ CallRefs(d) = {} /\ CreatorRefs(d) = {}
      BY <1>r, <2>3, RefPositive DEF DispatchRefs, CallRefs, CreatorRefs
    <2> SUFFICES ASSUME NEW x \in Svc
                 PROVE  ref'[x] = Cardinality(DispatchRefs(x)') + Cardinality(CallRefs(x)')
                                    + Cardinality(CreatorRefs(x)') + SlotRef(x)'
      BY Zenon DEF RefCount
    <2>5. DispatchRefs(x)' = DispatchRefs(x) /\ CallRefs(x)' = CallRefs(x)
      BY Zenon, <2>1 DEF DispatchRefs, CallRefs
    <2>6. CASE x = d
      <3>1. CreatorRefs(x)' = {w} /\ SlotRef(x)' = 1 /\ ref'[x] = 2
        BY <1>r, <1>w, <2>1, <2>4, <2>6 DEF CreatorRefs, SlotRef, RefTypes
      <3>2. /\ Cardinality(DispatchRefs(x)') = 0
            /\ Cardinality(CallRefs(x)') = 0
            /\ Cardinality(CreatorRefs(x)') = 1
        BY ZenonT(30), <2>4, <2>5, <2>6, <3>1, FS_EmptySet, FS_Singleton
      <3> QED BY <3>1, <3>2
    <2>7. CASE x # d
      <3>1. /\ CreatorRefs(x)' = CreatorRefs(x) /\ SlotRef(x)' = SlotRef(x)
            /\ ref'[x] = ref[x]
        BY <1>r, <1>w, <2>1, <2>2, <2>7, DispatchAssumption DEF CreatorRefs, SlotRef, RefTypes
      <3> QED BY <1>r, <2>5, <3>1 DEF RefCount
    <2> QED BY Zenon, <2>6, <2>7
  <1>16. ASSUME NEW t \in Other, NEW d \in Svc, Post(t, d) \/ MarkBlocked(t, d) PROVE RefCount'
    BY Zenon, <1>6, <1>o, <1>16 DEF Post, MarkBlocked, BeginPush, BeginRelease
  <1> QED BY SMTT(30), <1>r, <1>1, <1>2, <1>3, <1>4, <1>5, <1>7, <1>8, <1>9, <1>10, <1>11,
             <1>12, <1>13, <1>14, <1>15, <1>16, RefsSame
       DEF Next, SubStep, DispatchStep, ServiceStep, CreateStep, OtherStep

\* What svc_count_ counts.
Counted == {s \in Svc : ctx[s] = "alive" /\ que[s] # "none"}

\* svc_count_ is exact at the start: the boot services.
LEMMA CountInit == Init => CountExact
  <1> SUFFICES ASSUME Init PROVE CountExact
    OBVIOUS
  <1>1. {s \in Svc : ctx[s] = "alive" /\ que[s] # "none"} = Boot
    BY Zenon, DispatchAssumption DEF Init
  <1> QED BY ZenonT(30), <1>1 DEF Init, CountExact

\* The steps that touch what svc_count_ counts.
LEMMA CountFrame ==
    ASSUME [Next]_vars
    PROVE  \/ UNCHANGED <<ctx, que, svcCount>>
           \/ \E t \in Thread : DeleteContext(t)
           \/ \E w \in Worker : DeleteQueue(w) \/ CreateQueue(w)
           \/ \E w \in Worker, d \in Svc : CreateContext(w, d)
  <1> USE DEF regVars, mqVars
  <1>1. ASSUME NEW t \in Thread, SubStep(t)
        PROVE  UNCHANGED <<ctx, que, svcCount>> \/ DeleteContext(t)
    BY Zenon, <1>1 DEF SubStep, QueuePush, Release, MarkRelease
  <1>2. ASSUME NEW w \in Worker, DispatchStep(w)
        PROVE  UNCHANGED <<ctx, que, svcCount>> \/ DeleteQueue(w)
    BY Zenon, <1>2 DEF DispatchStep, PopGlobal, GrabContext, ReleaseQueue, DropMessage,
       PopMessage, PopEmpty, Length, EndCallback, KeepQueue, PopNext, PushBack
  <1>3. ASSUME NEW w \in Worker, CreateStep(w)
        PROVE  UNCHANGED <<ctx, que, svcCount>> \/ CreateQueue(w)
    BY Zenon, <1>3 DEF CreateStep, InitOk, Publish, InitFail, UnregisterFailed
  <1>4. ASSUME NEW w \in Worker, NEW d \in Svc, Send(w, d) \/ Unregister(w, d)
        PROVE  UNCHANGED <<ctx, que, svcCount>>
    BY Zenon, <1>4 DEF Send, Unregister
  <1>5. ASSUME NEW t \in Other, OtherStep(t)
        PROVE  UNCHANGED <<ctx, que, svcCount>>
    BY Zenon, <1>5 DEF OtherStep, Post, MarkBlocked
  <1>6. CASE UNCHANGED vars
    BY Zenon, <1>6 DEF vars
  <1> QED BY <1>1, <1>2, <1>3, <1>4, <1>5, <1>6 DEF Next, ServiceStep

\* Every step that changes svc_count_ changes what it counts by one service.
LEMMA CountNext == LifeInv /\ CountExact /\ [Next]_vars => CountExact'
  <1> SUFFICES ASSUME LifeInv, CountExact, [Next]_vars PROVE CountExact'
    OBVIOUS
  <1>t. LifeTypes /\ Lives /\ svcCount \in Int
    BY Zenon DEF LifeInv, LocalInv, LifeTypes, SharedTypes, LocalTypes
  <1>l. \A t \in Thread :
           /\ pc[t] # "idle" => q[t] \in Svc
           /\ pc[t] = "create" => cctx[t] \in Svc
           /\ sub[t] # "none" => sctx[t] \in Svc
    BY Zenon, Locals DEF LifeInv, LocalInv, Creating
  <1>w. \A w \in Worker : w \in Thread
    BY Zenon DEF Thread
  <1>f. IsFiniteSet(Counted)
    BY DispatchAssumption, FS_Subset DEF Counted
  <1>e. svcCount = Cardinality(Counted)
    BY Zenon DEF CountExact, Counted
  <1>s. ASSUME Counted' = Counted, svcCount' = svcCount PROVE CountExact'
    BY Zenon, <1>s, <1>e DEF CountExact, Counted
  <1>1. CASE UNCHANGED <<ctx, que, svcCount>>
    BY Zenon, <1>1, <1>s DEF Counted
  <1>2. ASSUME NEW t \in Thread, DeleteContext(t) PROVE CountExact'
    <2>1. /\ sctx[t] \in Svc /\ ctx[sctx[t]] = "alive" /\ que[sctx[t]] # "none"
          /\ ctx' = [ctx EXCEPT ![sctx[t]] = "deleted"] /\ que' = que
          /\ svcCount' = svcCount - 1
      <3>1. /\ sub[t] = "delete" /\ svcCount' = svcCount - 1
            /\ ctx' = [ctx EXCEPT ![sctx[t]] = "deleted"] /\ que' = que
        BY Zenon, <1>2 DEF DeleteContext, mqVars
      <3>2. sctx[t] \in Svc /\ ctx[sctx[t]] = "alive" /\ isRelease[sctx[t]]
        BY <1>t, <1>l, <3>1 DEF Lives
      <3>3. que[sctx[t]] # "none"
        BY Zenon, <1>t, <3>2 DEF Lives
      <3> QED BY <3>1, <3>2, <3>3
    <2>2. sctx[t] \in Counted /\ Counted' = Counted \ {sctx[t]}
      BY Zenon, <1>t, <2>1 DEF Counted, LifeTypes
    <2>3. Cardinality(Counted') = Cardinality(Counted) - 1
      BY ZenonT(30), <1>f, <2>2, FS_RemoveElement
    <2> QED BY <1>e, <2>1, <2>3 DEF CountExact, Counted
  <1>3. ASSUME NEW w \in Worker, DeleteQueue(w) PROVE CountExact'
    <2>1. /\ q[w] \in Svc /\ isRelease[q[w]]
          /\ que' = [que EXCEPT ![q[w]] = "deleted"]
          /\ UNCHANGED <<ctx, svcCount>>
      BY <1>t, <1>l, <1>w, <1>3 DEF DeleteQueue, regVars, Lives
    <2>2. que[q[w]] # "none"
      BY Zenon, <1>t, <2>1 DEF Lives
    <2>3. Counted' = Counted
      BY <1>t, <2>1, <2>2 DEF Counted, LifeTypes
    <2> QED BY <1>s, <2>1, <2>3
  <1>4. ASSUME NEW w \in Worker, CreateQueue(w) PROVE CountExact'
    <2>1. /\ pc[w] = "create"
          /\ que' = [que EXCEPT ![cctx[w]] = "alive"] /\ ctx' = ctx
          /\ svcCount' = svcCount + 1
      BY Zenon, <1>4 DEF CreateQueue
    <2>2. cctx[w] \in Svc /\ que[cctx[w]] = "none"
      BY <1>t, <1>l, <1>w, <2>1 DEF Lives
    <2>3. ctx[cctx[w]] = "alive"
      <3>1. ref[cctx[w]] > 0
        BY <1>w, <2>1, <2>2, RefPositive DEF LifeInv
      <3> QED BY Zenon, <1>t, <2>2, <3>1 DEF Lives
    <2>4. cctx[w] \notin Counted /\ Counted' = Counted \cup {cctx[w]}
      BY <1>t, <2>1, <2>2, <2>3 DEF Counted, LifeTypes
    <2>5. Cardinality(Counted') = Cardinality(Counted) + 1
      BY Zenon, <1>f, <2>4, FS_AddElement
    <2> QED BY <1>e, <2>1, <2>5 DEF CountExact, Counted
  <1>5. ASSUME NEW w \in Worker, NEW d \in Svc, CreateContext(w, d) PROVE CountExact'
    <2>1. /\ ctx[d] = "none" /\ que[d] = "none"
          /\ ctx' = [ctx EXCEPT ![d] = "alive"] /\ UNCHANGED <<que, svcCount>>
      BY Zenon, <1>t, <1>5 DEF CreateContext, mqVars, Lives
    <2>2. Counted' = Counted
      BY Zenon, <1>t, <2>1 DEF Counted, LifeTypes
    <2> QED BY Zenon, <1>s, <2>1, <2>2
  <1> QED BY <1>1, <1>2, <1>3, <1>4, <1>5, CountFrame

=============================================================================
