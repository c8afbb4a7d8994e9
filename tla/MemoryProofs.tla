---------------------------- MODULE MemoryProofs ----------------------------
(***************************************************************************)
(* The theorems of three parts that keep memory, each for every value of   *)
(* its constants: the ring buffer of a message queue (module RingQueue)    *)
(* and shared objects (Stm), which this module extends, and shared tables  *)
(* (ShareTable), which are an instance here.  The parts do not depend on   *)
(* each other.                                                             *)
(***************************************************************************)
EXTENDS RingQueue, Stm, FiniteSetTheorems, TLAPS

-----------------------------------------------------------------------------
(***************************************************************************)
(* The ring buffer implements a queue, for every capacity.                 *)
(***************************************************************************)

\* What the proof needs of the state: the indices are inside the buffer.
RingInv ==
    /\ cap \in Nat \ {0, 1}
    /\ head \in 0 .. cap - 1
    /\ tail \in 0 .. cap - 1
    /\ buf \in [0 .. cap - 1 -> ServiceMessage \cup {NoMessage}]

\* Three facts about sequences: what Append adds, ...
LEMMA Appended ==
    ASSUME NEW S, NEW s \in Seq(S), NEW e \in S
    PROVE  /\ Append(s, e) \in Seq(S) /\ Len(Append(s, e)) = Len(s) + 1
           /\ \A k \in 1 .. Len(s) + 1 : Append(s, e)[k] = IF k = Len(s) + 1 THEN e ELSE s[k]
  OBVIOUS

\* ... what Tail leaves, ...
LEMMA TailShifts ==
    ASSUME NEW S, NEW s \in Seq(S), s # <<>>
    PROVE  /\ Tail(s) \in Seq(S) /\ Len(Tail(s)) = Len(s) - 1
           /\ \A k \in 1 .. Len(s) - 1 : Tail(s)[k] = s[k + 1]
  OBVIOUS

\* ... and that the elements make the sequence.
LEMMA SameElements ==
    ASSUME NEW S, NEW s \in Seq(S), NEW t \in Seq(S), Len(s) = Len(t),
           \A k \in 1 .. Len(s) : s[k] = t[k]
    PROVE  s = t
  OBVIOUS

\* (head_ + i) % cap_ is the slot of the i-th message.
LEMMA ModIsWrap ==
    ASSUME NEW c \in Nat \ {0, 1}, NEW h \in 0 .. c - 1, NEW k \in 0 .. c - 1
    PROVE  (h + k) % c = IF h + k < c THEN h + k ELSE h + k - c
  <1>1. CASE h + k < c
    BY <1>1
  <1>2. CASE h + k >= c
    BY <1>2
  <1> QED BY <1>1, <1>2

\* push, pop and _expand_queue keep the indices inside the buffer.
THEOREM RingInvariant == RingSpec => []RingInv
  <1>1. RingInit => RingInv
    BY RingAssumption DEF RingInit, RingInv
  <1>2. RingInv /\ [RingNext]_ringVars => RingInv'
    <2> SUFFICES ASSUME RingInv, [RingNext]_ringVars PROVE RingInv'
      OBVIOUS
    <2> USE DEF RingInv
    <2>1. ASSUME NEW v \in ServiceMessage, Push(v) PROVE RingInv'
      <3> DEFINE b == [buf EXCEPT ![tail] = v]
      <3>1. b \in [0 .. cap - 1 -> ServiceMessage \cup {NoMessage}]
        OBVIOUS
      <3>2. CASE Wrap(tail) = head /\ Expand(b)
        <4>1. \A k \in 0 .. cap - 1 : (head + k) % cap \in 0 .. cap - 1
          BY ModIsWrap
        <4>2. buf' \in [0 .. 2 * cap - 1 -> ServiceMessage \cup {NoMessage}]
          BY <3>1, <3>2, <4>1 DEF Expand
        <4> QED BY <3>2, <4>2 DEF Expand
      <3>3. CASE /\ Wrap(tail) # head
                 /\ buf' = b
                 /\ tail' = Wrap(tail)
                 /\ UNCHANGED <<head, cap>>
        BY <3>1, <3>3 DEF Wrap
      <3> QED BY <2>1, <3>2, <3>3 DEF Push
    <2>2. CASE PopMessage
      BY <2>2 DEF PopMessage, Wrap
    <2>3. CASE PopEmpty
      BY <2>3 DEF PopEmpty
    <2>4. CASE ReadOverload
      BY <2>4 DEF ReadOverload
    <2>5. CASE UNCHANGED ringVars
      BY <2>5 DEF ringVars
    <2> QED BY <2>1, <2>2, <2>3, <2>4, <2>5 DEF RingNext
  <1> QED BY <1>1, <1>2, PTL DEF RingSpec

\* The messages of the ring, in order, are a sequence of length Length.
LEMMA ContentsIsSeq ==
    ASSUME RingInv
    PROVE  /\ Length \in 0 .. cap - 1
           /\ Contents \in Seq(ServiceMessage \cup {NoMessage})
           /\ Len(Contents) = Length
           /\ \A k \in 1 .. Length : Contents[k] = buf[At(k - 1)]
  <1>1. Length \in 0 .. cap - 1
    BY DEF RingInv, Length
  <1>2. \A k \in 1 .. Length : At(k - 1) \in 0 .. cap - 1
    BY <1>1 DEF RingInv, At
  <1>3. \A k \in 1 .. Length : buf[At(k - 1)] \in ServiceMessage \cup {NoMessage}
    BY <1>2 DEF RingInv
  <1>4. Contents \in [1 .. Length -> ServiceMessage \cup {NoMessage}]
    BY <1>3 DEF Contents
  <1> QED BY <1>1, <1>4 DEF Contents

\* push appends: in place, or after the full ring has been copied.
LEMMA PushAppends ==
    ASSUME RingInv, RingInv', NEW v \in ServiceMessage, Push(v)
    PROVE  Contents' = Append(Contents, v)
  <1> DEFINE b == [buf EXCEPT ![tail] = v]
             S == ServiceMessage \cup {NoMessage}
  <1>b. \A x \in 0 .. cap - 1 : b[x] = IF x = tail THEN v ELSE buf[x]
    BY DEF RingInv
  <1> HIDE DEF b
  <1>1. /\ Length \in 0 .. cap - 1
        /\ Contents \in Seq(S) /\ Len(Contents) = Length
        /\ \A k \in 1 .. Length : Contents[k] = buf[At(k - 1)]
    BY ContentsIsSeq
  <1>2. /\ Contents' \in Seq(S) /\ Len(Contents') = Length'
        /\ \A k \in 1 .. Length' : Contents'[k] = buf'[At(k - 1)']
    <2>1. (RingInv => /\ Contents \in Seq(S) /\ Len(Contents) = Length
                      /\ \A k \in 1 .. Length : Contents[k] = buf[At(k - 1)])'
      BY ContentsIsSeq, PTL
    <2> QED BY <2>1
  <1>3. /\ Append(Contents, v) \in Seq(S)
        /\ Len(Append(Contents, v)) = Length + 1
        /\ \A k \in 1 .. Length + 1 :
              Append(Contents, v)[k] = IF k = Length + 1 THEN v ELSE buf[At(k - 1)]
    <2>1. Append(Contents, v) \in Seq(S) /\ Len(Append(Contents, v)) = Length + 1
      BY <1>1, Appended
    <2>2. \A k \in 1 .. Length + 1 :
             Append(Contents, v)[k] = IF k = Length + 1 THEN v ELSE Contents[k]
      BY <1>1, Appended
    <2> QED BY <1>1, <2>1, <2>2
  <1>4. CASE Wrap(tail) = head /\ Expand(b)
    <2>1. Length = cap - 1
      BY <1>4 DEF Wrap, Length, RingInv
    <2>2. Length' = cap /\ \A k \in 1 .. cap : At(k - 1)' = k - 1
      BY <1>4 DEF Expand, Length, At, RingInv
    <2>3. \A k \in 1 .. cap : buf'[k - 1] = b[(head + (k - 1)) % cap]
      BY <1>4 DEF Expand, RingInv
    <2>4. \A k \in 1 .. cap : (head + (k - 1)) % cap = At(k - 1)
      <3> TAKE k \in 1 .. cap
      <3>1. k - 1 \in 0 .. cap - 1 /\ cap \in Nat \ {0, 1} /\ head \in 0 .. cap - 1
        BY DEF RingInv
      <3> QED BY Zenon, <3>1, ModIsWrap DEF At
    <2>5. \A k \in 1 .. cap : At(k - 1) = tail <=> k = cap
      BY <1>4 DEF Wrap, At, RingInv
    <2>6. \A k \in 1 .. cap : b[At(k - 1)] = IF k = cap THEN v ELSE buf[At(k - 1)]
      <3>1. \A k \in 1 .. cap : At(k - 1) \in 0 .. cap - 1
        BY DEF At, RingInv
      <3> QED BY <1>b, <2>5, <3>1
    <2>7. \A k \in 1 .. cap : Contents'[k] = Append(Contents, v)[k]
      <3> TAKE k \in 1 .. cap
      <3>1. cap \in Nat /\ Length + 1 = cap
        BY <2>1 DEF RingInv
      <3>2. Contents'[k] = buf'[k - 1]
        BY <1>2, <2>2
      <3>3. buf'[k - 1] = b[At(k - 1)]
        BY <2>3, <2>4
      <3>4. Append(Contents, v)[k] = IF k = cap THEN v ELSE buf[At(k - 1)]
        BY <1>3, <3>1
      <3> QED BY <2>6, <3>2, <3>3, <3>4
    <2> QED BY <1>2, <1>3, <2>1, <2>2, <2>7, SameElements DEF RingInv
  <1>5. CASE /\ Wrap(tail) # head
             /\ buf' = b
             /\ tail' = Wrap(tail)
             /\ UNCHANGED <<head, cap>>
    <2>1. Length' = Length + 1
      BY <1>5 DEF Wrap, Length, RingInv
    <2>2. \A k \in 1 .. Length + 1 : At(k - 1)' = At(k - 1)
      BY <1>5 DEF At
    <2>3. \A k \in 1 .. Length + 1 : At(k - 1) = tail <=> k = Length + 1
      BY <1>5 DEF Wrap, At, Length, RingInv
    <2>4. \A k \in 1 .. Length + 1 :
             buf'[At(k - 1)] = IF k = Length + 1 THEN v ELSE buf[At(k - 1)]
      <3>1. \A k \in 1 .. Length + 1 : At(k - 1) \in 0 .. cap - 1
        BY <1>1 DEF At, RingInv
      <3> QED BY <1>b, <1>5, <2>3, <3>1
    <2>5. \A k \in 1 .. Length + 1 : Contents'[k] = Append(Contents, v)[k]
      BY <1>2, <1>3, <2>1, <2>2, <2>4
    <2> QED BY <1>2, <1>3, <2>1, <2>5, SameElements
  <1> QED BY <1>4, <1>5 DEF Push, b

\* pop takes the oldest message away.
LEMMA PopTakes ==
    ASSUME RingInv, RingInv', PopMessage
    PROVE  /\ Contents # <<>>
           /\ got' = Head(Contents)
           /\ Contents' = Tail(Contents)
  <1> DEFINE S == ServiceMessage \cup {NoMessage}
  <1>1. /\ Length \in 0 .. cap - 1
        /\ Contents \in Seq(S) /\ Len(Contents) = Length
        /\ \A k \in 1 .. Length : Contents[k] = buf[At(k - 1)]
    BY ContentsIsSeq
  <1>2. /\ Contents' \in Seq(S) /\ Len(Contents') = Length'
        /\ \A k \in 1 .. Length' : Contents'[k] = buf'[At(k - 1)']
    <2>1. (RingInv => /\ Contents \in Seq(S) /\ Len(Contents) = Length
                      /\ \A k \in 1 .. Length : Contents[k] = buf[At(k - 1)])'
      BY ContentsIsSeq, PTL
    <2> QED BY <2>1
  <1>3. Length \in Nat \ {0} /\ At(0) = head
    BY <1>1 DEF PopMessage, Length, At, RingInv
  <1>4. Contents # <<>>
    BY <1>1, <1>3
  <1>5. got' = Head(Contents)
    BY <1>1, <1>3, <1>4 DEF PopMessage
  <1>6. Length' = Length - 1
    BY DEF PopMessage, Wrap, Length, RingInv
  <1>7. \A k \in 1 .. Length - 1 : At(k - 1)' = At(k)
    BY <1>1 DEF PopMessage, Wrap, At, RingInv
  <1>8. \A k \in 1 .. Length - 1 : Contents'[k] = Contents[k + 1]
    <2> TAKE k \in 1 .. Length - 1
    <2>1. k + 1 \in 1 .. Length /\ (k + 1) - 1 = k
      BY <1>3
    <2>2. Contents[k + 1] = buf[At(k)]
      BY <1>1, <2>1
    <2> QED BY <1>2, <1>6, <1>7, <2>2 DEF PopMessage
  <1>9. /\ Tail(Contents) \in Seq(S) /\ Len(Tail(Contents)) = Length - 1
        /\ \A k \in 1 .. Length - 1 : Tail(Contents)[k] = Contents[k + 1]
    BY <1>1, <1>4, TailShifts
  <1>10. Contents' = Tail(Contents)
    BY <1>2, <1>6, <1>8, <1>9, SameElements
  <1> QED BY <1>4, <1>5, <1>10

\* The ring buffer of mq_private is a first-in first-out queue: every step of
\* push, pop and overload is a step of Fifo, for every capacity.
THEOREM RingImplementsFifo == RingSpec => ImplementsFifo
  <1>1. RingInit => FF!Init
    <2> SUFFICES ASSUME RingInit PROVE Contents = <<>> /\ got = NoMessage
      BY DEF FF!Init
    <2>1. RingInv
      BY RingAssumption DEF RingInit, RingInv
    <2>2. Length = 0
      BY DEF RingInit, Length
    <2>3. Contents \in Seq(ServiceMessage \cup {NoMessage}) /\ Len(Contents) = 0
      BY <2>1, <2>2, ContentsIsSeq
    <2> QED BY <2>3 DEF RingInit
  <1>2. RingInv /\ RingInv' /\ [RingNext]_ringVars => [FF!Next]_(FF!vars)
    <2> SUFFICES ASSUME RingInv, RingInv', [RingNext]_ringVars
                 PROVE  [FF!Next]_(FF!vars)
      OBVIOUS
    <2>1. ASSUME NEW v \in ServiceMessage, Push(v) PROVE FF!Push(v)
      BY <2>1, PushAppends DEF Push, FF!Push
    <2>2. CASE PopMessage
      BY <2>2, PopTakes DEF FF!Next, FF!Pop
    <2>3. CASE PopEmpty
      <3>1. Length = 0
        BY <2>3 DEF PopEmpty, Length, RingInv
      <3>2. Contents = <<>>
        BY <3>1, ContentsIsSeq
      <3>3. Contents' = Contents
        BY <2>3 DEF PopEmpty, Contents, At, Length
      <3> QED BY <2>3, <3>2, <3>3 DEF PopEmpty, FF!Next, FF!Pop
    <2>4. CASE ReadOverload
      BY <2>4 DEF ReadOverload, Contents, At, Length, FF!vars
    <2>5. CASE UNCHANGED ringVars
      BY <2>5 DEF ringVars, Contents, At, Length, FF!vars
    <2> QED BY <2>1, <2>2, <2>3, <2>4, <2>5 DEF RingNext, FF!Next
  <1> QED BY <1>1, <1>2, RingInvariant, PTL DEF RingSpec, ImplementsFifo, FF!Spec

-----------------------------------------------------------------------------
(***************************************************************************)
(* Shared objects, for any number of readers and copies: the two counters  *)
(* are the numbers of those who hold the object and of those who hold a    *)
(* copy.                                                                   *)
(***************************************************************************)

Holders == {r \in Reader : pc[r] \in {"sent", "idle", "took"}}

\* The copy that a reader has in hand inside l_read.
inHand == [r \in Reader |-> IF pc[r] = "took" THEN took[r] ELSE 0]

\* The number of readers to which f gives c.
Number(f, c) == Cardinality({r \in Reader : f[r] = c})

\* f and g differ at r at most.
OnlyMoves(f, g, r) == \A x \in Reader \ {r} : g[x] = f[x]

StmTypes ==
    /\ reference \in Int /\ deleted \in BOOLEAN
    /\ copies \in Seq(Int) /\ copy \in 0 .. Len(copies)
    /\ lastcopy \in [Reader -> 0 .. Len(copies)]
    /\ took \in [Reader -> 0 .. Len(copies)]
    /\ pc \in [Reader -> {"none", "sent", "idle", "took", "unlock", "last", "gone"}]
    /\ writer \in {"open", "unlock", "gone"} /\ (writer = "open" <=> copy # 0)

\* The writer is one of those who hold the object, as long as it has a copy.
ReferenceExact ==
    /\ reference = Cardinality(Holders) + IF copy = 0 THEN 0 ELSE 1
    /\ deleted <=> reference = 0

CopiesExact ==
    \A c \in 1 .. Len(copies) :
        copies[c] = (IF c = copy THEN 1 ELSE 0) + Number(lastcopy, c) + Number(inHand, c)

\* The inductive invariant.
StmInv == StmTypes /\ ReferenceExact /\ CopiesExact

\* How many readers there are of a kind, and how that changes with one.
LEMMA SomeReaders ==
    ASSUME NEW S \in SUBSET Reader
    PROVE  /\ Cardinality(S) \in Nat
           /\ Cardinality(S) = 0 <=> S = {}
           /\ \A r \in S : Cardinality(S \ {r}) = Cardinality(S) - 1
           /\ \A r : r \notin S => Cardinality(S \cup {r}) = Cardinality(S) + 1
<1>1. IsFiniteSet(S)
    BY ReaderAssumption, FS_Subset
<1> QED
    BY Zenon, <1>1, FS_CardinalityType, FS_EmptySet, FS_AddElement, FS_RemoveElement

\* The readers that f gives c are counted by a natural number, 0 if there are none.
LEMMA NumberNat ==
    ASSUME NEW f, NEW c
    PROVE  Number(f, c) \in Nat /\ (Number(f, c) > 0 <=> \E r \in Reader : f[r] = c)
<1> DEFINE S == {r \in Reader : f[r] = c}
<1>1. Cardinality(S) \in Nat /\ (Cardinality(S) = 0 <=> S = {})
    BY SomeReaders
<1>2. S = {} <=> ~ \E r \in Reader : f[r] = c
    OBVIOUS
<1> QED
    BY <1>1, <1>2 DEF Number

\* One reader goes from what f gives it to what g gives it.
LEMMA NumberMoves ==
    ASSUME NEW f, NEW g, NEW r \in Reader, NEW c, OnlyMoves(f, g, r)
    PROVE  Number(g, c) =
              Number(f, c) + (IF c = g[r] THEN 1 ELSE 0) - (IF c = f[r] THEN 1 ELSE 0)
<1> DEFINE S == {x \in Reader : f[x] = c}
           U == {x \in Reader : g[x] = c}
<1>1. Cardinality(S) \in Nat /\ S \in SUBSET Reader
    BY SomeReaders
<1>0. \A x \in Reader : x # r => g[x] = f[x]
    BY DEF OnlyMoves
<1>2. CASE c = g[r] /\ c = f[r]
    <2>1. U = S
        BY Zenon, <1>0, <1>2
    <2> QED
        BY <1>1, <1>2, <2>1 DEF Number
<1>3. CASE c = g[r] /\ c # f[r]
    <2>1. U = S \cup {r} /\ r \notin S
        BY <1>0, <1>3
    <2>2. Cardinality(U) = Cardinality(S) + 1
        BY <1>1, <2>1, SomeReaders
    <2> QED
        BY <1>1, <1>3, <2>2 DEF Number
<1>4. CASE c # g[r] /\ c = f[r]
    <2>1. U = S \ {r} /\ r \in S
        BY <1>0, <1>4
    <2>2. Cardinality(U) = Cardinality(S) - 1
        BY <1>1, <2>1, SomeReaders
    <2> QED
        BY <1>1, <1>4, <2>2 DEF Number
<1>5. CASE c # g[r] /\ c # f[r]
    <2>1. U = S
        BY <1>0, <1>5
    <2> QED
        BY <1>1, <1>5, <2>1 DEF Number
<1> QED
    BY <1>2, <1>3, <1>4, <1>5

\* stm_releasecopy takes one reference from the copy c.
LEMMA Released ==
    ASSUME NEW cs \in Seq(Int), NEW c \in 0 .. Len(cs)
    PROVE  /\ stm_releasecopy(cs, c) \in Seq(Int)
           /\ Len(stm_releasecopy(cs, c)) = Len(cs)
           /\ \A d \in 1 .. Len(cs) :
                 stm_releasecopy(cs, c)[d] = IF d = c THEN cs[d] - 1 ELSE cs[d]
<1>1. CASE c = 0
    BY <1>1 DEF stm_releasecopy
<1>2. CASE c # 0
    BY <1>2 DEF stm_releasecopy
<1> QED
    BY <1>1, <1>2

\* stm_copy gives one to the copy c.
LEMMA OneTaken ==
    ASSUME NEW cs \in Seq(Int), NEW c \in 0 .. Len(cs)
    PROVE  /\ Taken(cs, c) \in Seq(Int)
           /\ Len(Taken(cs, c)) = Len(cs)
           /\ \A d \in 1 .. Len(cs) : Taken(cs, c)[d] = IF d = c THEN cs[d] + 1 ELSE cs[d]
<1>1. CASE c = 0
    BY <1>1 DEF Taken
<1>2. CASE c # 0
    BY <1>2 DEF Taken
<1> QED
    BY <1>1, <1>2

\* The writer's steps keep the invariant.
LEMMA WriterKeeps ==
    ASSUME StmInv, stm_update \/ stm_release \/ WriterUnlock
    PROVE  StmInv'
<1>0. /\ Cardinality(Holders) \in Nat
      /\ copies \in Seq(Int) /\ copy \in 0 .. Len(copies) /\ Len(copies) \in Nat
    BY SomeReaders DEF Holders, StmInv, StmTypes
<1>1. Holders' = Holders /\ inHand' = inHand /\ lastcopy' = lastcopy
    BY DEF Holders, inHand, stm_update, stm_release, WriterUnlock
<1>2. CASE stm_update
    <2> DEFINE cs == stm_releasecopy(copies, copy)
    <2>1. /\ cs \in Seq(Int) /\ Len(cs) = Len(copies)
          /\ \A d \in 1 .. Len(copies) : cs[d] = IF d = copy THEN copies[d] - 1 ELSE copies[d]
        BY <1>0, Released
    <2>2. copies' = Append(cs, 1) /\ copy # 0
        BY <1>2 DEF stm_update, Updated, StmInv, StmTypes
    <2> HIDE DEF cs
    <2>3. /\ copies' \in Seq(Int) /\ Len(copies') = Len(copies) + 1
          /\ copies'[Len(copies) + 1] = 1
          /\ \A d \in 1 .. Len(copies) : copies'[d] = cs[d]
        BY <2>1, <2>2
    <2>4. copy' = Len(copies) + 1
        BY <1>2, <2>3 DEF stm_update
    <2>5. StmTypes'
        BY <1>0, <1>2, <2>3, <2>4 DEF stm_update, StmInv, StmTypes
    <2>6. ReferenceExact'
        BY <1>0, <1>1, <1>2, <2>2, <2>4 DEF stm_update, StmInv, ReferenceExact
    <2>7. ASSUME NEW c \in 1 .. Len(copies')
          PROVE  copies'[c] = (IF c = copy' THEN 1 ELSE 0) + Number(lastcopy, c) + Number(inHand, c)
        <3>1. Number(lastcopy, c) \in Nat /\ Number(inHand, c) \in Nat
            BY NumberNat
        <3>2. CASE c = Len(copies) + 1
            <4>1. \A r \in Reader : lastcopy[r] # c /\ inHand[r] # c
                BY <1>0, <3>2 DEF inHand, StmInv, StmTypes
            <4>2. Number(lastcopy, c) = 0 /\ Number(inHand, c) = 0
                BY <3>1, <4>1, NumberNat
            <4> QED
                BY <2>3, <2>4, <3>2, <4>2
        <3>3. CASE c # Len(copies) + 1
            <4>1. c \in 1 .. Len(copies)
                BY <1>0, <2>3, <3>3
            <4>2. copies[c] = (IF c = copy THEN 1 ELSE 0) + Number(lastcopy, c) + Number(inHand, c)
                BY <4>1 DEF StmInv, CopiesExact
            <4>3. copies'[c] = IF c = copy THEN copies[c] - 1 ELSE copies[c]
                BY <2>1, <2>3, <4>1
            <4> QED
                BY <2>4, <3>1, <3>3, <4>2, <4>3
        <3> QED
            BY <3>2, <3>3
    <2> QED
        BY <1>1, <2>5, <2>6, <2>7 DEF StmInv, CopiesExact
<1>3. CASE stm_release
    <2>1. /\ copies' \in Seq(Int) /\ Len(copies') = Len(copies)
          /\ \A d \in 1 .. Len(copies) : copies'[d] = IF d = copy THEN copies[d] - 1 ELSE copies[d]
        BY <1>0, <1>3, Released DEF stm_release
    <2>2. StmTypes'
        BY <1>3, <2>1 DEF stm_release, StmInv, StmTypes
    <2>3. ReferenceExact'
        <3>1. reference = Cardinality(Holders) + 1
            BY <1>3 DEF stm_release, StmInv, StmTypes, ReferenceExact
        <3>2. reference' = Cardinality(Holders) /\ copy' = 0
            BY <1>0, <1>3, <3>1 DEF stm_release
        <3>3. deleted' <=> reference <= 1
            BY Zenon, <1>3 DEF stm_release
        <3>4. reference <= 1 <=> reference' = 0
            BY <1>0, <3>1, <3>2
        <3> QED
            BY <1>0, <1>1, <3>2, <3>3, <3>4 DEF ReferenceExact
    <2>4. ASSUME NEW c \in 1 .. Len(copies')
          PROVE  copies'[c] = (IF c = copy' THEN 1 ELSE 0) + Number(lastcopy, c) + Number(inHand, c)
        <3>1. Number(lastcopy, c) \in Nat /\ Number(inHand, c) \in Nat
            BY NumberNat
        <3>2. copies[c] = (IF c = copy THEN 1 ELSE 0) + Number(lastcopy, c) + Number(inHand, c)
            BY <2>1 DEF StmInv, CopiesExact
        <3>3. copies'[c] = (IF c = copy THEN copies[c] - 1 ELSE copies[c]) /\ copy' = 0 /\ c # 0
            BY <1>3, <2>1 DEF stm_release
        <3> QED
            BY <3>1, <3>2, <3>3
    <2> QED
        BY <1>1, <2>2, <2>3, <2>4 DEF StmInv, CopiesExact
<1>4. CASE WriterUnlock
    <2>1. StmTypes'
        BY <1>4 DEF WriterUnlock, StmInv, StmTypes
    <2> QED
        BY <1>1, <1>4, <2>1 DEF WriterUnlock, StmInv, ReferenceExact, CopiesExact
<1> QED
    BY <1>2, <1>3, <1>4

\* A step after which the object has the same holders, and a copy one
\* reference more or less as the readers move from one to another.
LEMMA CopiesMove ==
    ASSUME StmInv, StmTypes', Holders' = Holders, UNCHANGED <<reference, copy, deleted>>,
           Len(copies') = Len(copies),
           \A c \in 1 .. Len(copies) :
              copies'[c] - copies[c] = Number(lastcopy', c) - Number(lastcopy, c)
                                         + Number(inHand', c) - Number(inHand, c)
    PROVE  StmInv'
<1>1. ASSUME NEW c \in 1 .. Len(copies')
      PROVE  copies'[c] = (IF c = copy' THEN 1 ELSE 0) + Number(lastcopy', c) + Number(inHand', c)
    <2>1. /\ Number(lastcopy, c) \in Nat /\ Number(inHand, c) \in Nat
          /\ Number(lastcopy', c) \in Nat /\ Number(inHand', c) \in Nat
        BY NumberNat
    <2>2. copies[c] = (IF c = copy THEN 1 ELSE 0) + Number(lastcopy, c) + Number(inHand, c)
        BY DEF StmInv, CopiesExact
    <2>3. copies[c] \in Int /\ copies'[c] \in Int
        BY DEF StmInv, StmTypes
    <2>4. copies'[c] - copies[c] = Number(lastcopy', c) - Number(lastcopy, c)
                                     + Number(inHand', c) - Number(inHand, c)
        OBVIOUS
    <2> DEFINE one == IF c = copy THEN 1 ELSE 0
               n == Number(lastcopy, c)
               h == Number(inHand, c)
               n2 == Number(lastcopy', c)
               h2 == Number(inHand', c)
    <2>5. one \in Int /\ copies'[c] - copies[c] = n2 - n + h2 - h /\ copies[c] = one + n + h
        BY <2>2, <2>4
    <2>6. n \in Nat /\ h \in Nat /\ n2 \in Nat /\ h2 \in Nat
        BY <2>1
    <2>7. one = IF c = copy' THEN 1 ELSE 0
        OBVIOUS
    <2>8. copies'[c] = one + n2 + h2
        <3> HIDE DEF one, n, h, n2, h2
        <3> QED
            BY <2>3, <2>5, <2>6
    <2> QED
        BY <2>7, <2>8
<1>2. ReferenceExact'
    BY DEF StmInv, ReferenceExact
<1> QED
    BY <1>1, <1>2 DEF StmInv, CopiesExact

\* The readers' steps keep it.
LEMMA ReaderKeeps ==
    ASSUME StmInv, NEW r \in Reader,
           \/ l_copy(r) \/ l_new_reader(r) \/ ReadTake(r) \/ ReadKeep(r)
           \/ ReleaseReader(r) \/ ReaderUnlock(r) \/ ReleaseLast(r)
    PROVE  StmInv'
<1>1. /\ pc \in [Reader -> {"none", "sent", "idle", "took", "unlock", "last", "gone"}]
      /\ writer \in {"open", "unlock", "gone"} /\ (writer = "open" <=> copy # 0)
      /\ lastcopy \in [Reader -> 0 .. Len(copies)] /\ took \in [Reader -> 0 .. Len(copies)]
      /\ inHand \in [Reader -> Nat] /\ lastcopy \in [Reader -> Nat]
      /\ copies \in Seq(Int) /\ copy \in 0 .. Len(copies) /\ Len(copies) \in Nat
      /\ reference \in Int /\ deleted \in BOOLEAN
    BY DEF StmInv, StmTypes, inHand
<1>2. Holders \in SUBSET Reader /\ Cardinality(Holders) \in Nat
    BY SomeReaders DEF Holders
<1>3. \A f, c : Number(f, c) \in Nat
    BY NumberNat
<1>4. CASE l_copy(r)
    <2>1. Holders' = Holders \cup {r} /\ r \notin Holders /\ inHand' = inHand
        BY <1>1, <1>4 DEF l_copy, Holders, inHand
    <2>2. StmTypes'
        BY <1>1, <1>4 DEF l_copy, StmTypes
    <2>3. ReferenceExact'
        <3>1. Cardinality(Holders') = Cardinality(Holders) + 1
            BY <1>2, <2>1, SomeReaders
        <3>2. reference = Cardinality(Holders) + 1 /\ (deleted <=> reference = 0)
            BY <1>4 DEF l_copy, StmInv, StmTypes, ReferenceExact
        <3>3. copy # 0 /\ reference' = reference + 1 /\ UNCHANGED <<deleted, copy>>
            BY <1>1, <1>4 DEF l_copy
        <3> QED
            BY <1>2, <3>1, <3>2, <3>3 DEF ReferenceExact
    <2> QED
        BY <1>4, <2>1, <2>2, <2>3 DEF l_copy, StmInv, CopiesExact
<1>5. CASE l_new_reader(r)
    <2>1. Holders' = Holders /\ inHand' = inHand
        BY <1>1, <1>5 DEF l_new_reader, Holders, inHand
    <2>2. StmTypes'
        BY <1>1, <1>5 DEF l_new_reader, StmTypes
    <2> QED
        BY <1>5, <2>1, <2>2 DEF l_new_reader, StmInv, ReferenceExact, CopiesExact
<1>6. CASE ReadTake(r)
    <2>1. /\ copies' \in Seq(Int) /\ Len(copies') = Len(copies)
          /\ \A d \in 1 .. Len(copies) : copies'[d] = IF d = copy THEN copies[d] + 1 ELSE copies[d]
        BY <1>1, <1>6, OneTaken DEF ReadTake
    <2>2. Holders' = Holders /\ inHand' = [inHand EXCEPT ![r] = copy] /\ inHand[r] = 0
        BY Zenon, <1>1, <1>6 DEF ReadTake, Holders, inHand
    <2>3. StmTypes'
        BY <1>1, <1>6, <2>1 DEF ReadTake, StmTypes
    <2>4. ASSUME NEW c \in 1 .. Len(copies)
          PROVE  copies'[c] - copies[c] = Number(lastcopy', c) - Number(lastcopy, c)
                                            + Number(inHand', c) - Number(inHand, c)
        <3>1. OnlyMoves(inHand, inHand', r) /\ inHand'[r] = copy /\ c # 0
            BY <1>1, <2>2 DEF OnlyMoves
        <3>2. Number(inHand', c) =
                 Number(inHand, c) + (IF c = inHand'[r] THEN 1 ELSE 0) - (IF c = inHand[r] THEN 1 ELSE 0)
            BY <3>1, NumberMoves
        <3>3. copies[c] \in Int /\ lastcopy' = lastcopy
            BY <1>1, <1>6 DEF ReadTake
        <3>4. CASE c = copy
            BY <1>3, <2>1, <2>2, <3>1, <3>2, <3>3, <3>4
        <3>5. CASE c # copy
            BY <1>3, <2>1, <2>2, <3>1, <3>2, <3>3, <3>5
        <3> QED
            BY <3>4, <3>5
    <2> QED
        BY Zenon, <1>6, <2>1, <2>2, <2>3, <2>4, CopiesMove DEF ReadTake
<1>7. CASE ReadKeep(r)
    <2> DEFINE t == took[r]
               l == lastcopy[r]
    <2>0. t \in 0 .. Len(copies) /\ l \in 0 .. Len(copies)
        BY <1>1
    <2>1. /\ copies' \in Seq(Int) /\ Len(copies') = Len(copies)
          /\ \A d \in 1 .. Len(copies) : copies'[d] = IF d = l THEN copies[d] - 1 ELSE copies[d]
        BY <1>1, <1>7, <2>0, Released DEF ReadKeep
    <2>2. /\ Holders' = Holders
          /\ inHand' = [inHand EXCEPT ![r] = 0] /\ inHand[r] = t
          /\ lastcopy' = [lastcopy EXCEPT ![r] = t]
        BY Zenon, <1>1, <1>7 DEF ReadKeep, Holders, inHand
    <2>3. StmTypes'
        BY <1>1, <1>7, <2>1 DEF ReadKeep, StmTypes
    <2>4. ASSUME NEW c \in 1 .. Len(copies)
          PROVE  copies'[c] - copies[c] = Number(lastcopy', c) - Number(lastcopy, c)
                                            + Number(inHand', c) - Number(inHand, c)
        <3>1. /\ OnlyMoves(inHand, inHand', r) /\ inHand'[r] = 0 /\ c # 0
              /\ OnlyMoves(lastcopy, lastcopy', r) /\ lastcopy'[r] = t
            BY <1>1, <2>2 DEF OnlyMoves
        <3>2. Number(inHand', c) =
                 Number(inHand, c) + (IF c = inHand'[r] THEN 1 ELSE 0) - (IF c = inHand[r] THEN 1 ELSE 0)
            BY <3>1, NumberMoves
        <3>3. Number(lastcopy', c) =
                 Number(lastcopy, c) + (IF c = lastcopy'[r] THEN 1 ELSE 0) - (IF c = lastcopy[r] THEN 1 ELSE 0)
            BY <3>1, NumberMoves
        <3>4. copies[c] \in Int
            BY <1>1
        <3>5. Number(inHand', c) = Number(inHand, c) - IF c = t THEN 1 ELSE 0
            BY <1>3, <2>2, <3>1, <3>2
        <3>6. Number(lastcopy', c) =
                 Number(lastcopy, c) + (IF c = t THEN 1 ELSE 0) - (IF c = l THEN 1 ELSE 0)
            BY <3>1, <3>3
        <3> HIDE DEF t, l
        <3>7. CASE c = t /\ c = l
            BY <1>3, <2>1, <3>4, <3>5, <3>6, <3>7
        <3>8. CASE c = t /\ c # l
            BY <1>3, <2>1, <3>4, <3>5, <3>6, <3>8
        <3>9. CASE c # t /\ c = l
            BY <1>3, <2>1, <3>4, <3>5, <3>6, <3>9
        <3>10. CASE c # t /\ c # l
            BY <1>3, <2>1, <3>4, <3>5, <3>6, <3>10
        <3> QED
            BY <3>7, <3>8, <3>9, <3>10
    <2> QED
        BY Zenon, <1>7, <2>1, <2>2, <2>3, <2>4, CopiesMove DEF ReadKeep
<1>8. CASE ReleaseReader(r)
    <2>1. Holders' = Holders \ {r} /\ r \in Holders /\ inHand' = inHand
        BY <1>1, <1>8 DEF ReleaseReader, Holders, inHand
    <2>2. StmTypes'
        BY <1>1, <1>8 DEF ReleaseReader, StmTypes
    <2>3. ReferenceExact'
        <3>1. Cardinality(Holders') = Cardinality(Holders) - 1
            BY <1>2, <2>1, SomeReaders
        <3>2. reference = Cardinality(Holders) + IF copy = 0 THEN 0 ELSE 1
            BY DEF StmInv, ReferenceExact
        <3>3. reference' = reference - 1 /\ copy' = copy
            BY <1>8 DEF ReleaseReader
        <3>4. reference' = Cardinality(Holders') + IF copy' = 0 THEN 0 ELSE 1
            BY <1>2, <3>1, <3>2, <3>3
        <3>5. deleted' <=> reference = 1
            BY Zenon, <1>8 DEF ReleaseReader
        <3>6. reference = 1 <=> reference' = 0
            BY <1>1, <3>3
        <3> QED
            BY <3>4, <3>5, <3>6 DEF ReferenceExact
    <2> QED
        BY <1>8, <2>1, <2>2, <2>3 DEF ReleaseReader, StmInv, CopiesExact
<1>9. CASE ReleaseLast(r)
    <2> DEFINE l == lastcopy[r]
    <2>0. l \in 0 .. Len(copies)
        BY <1>1
    <2>1. /\ copies' \in Seq(Int) /\ Len(copies') = Len(copies)
          /\ \A d \in 1 .. Len(copies) : copies'[d] = IF d = l THEN copies[d] - 1 ELSE copies[d]
        BY <1>1, <1>9, <2>0, Released DEF ReleaseLast
    <2>2. Holders' = Holders /\ inHand' = inHand /\ lastcopy' = [lastcopy EXCEPT ![r] = 0]
        BY <1>1, <1>9 DEF ReleaseLast, Holders, inHand
    <2>3. StmTypes'
        BY <1>1, <1>9, <2>1 DEF ReleaseLast, StmTypes
    <2>4. ASSUME NEW c \in 1 .. Len(copies)
          PROVE  copies'[c] - copies[c] = Number(lastcopy', c) - Number(lastcopy, c)
                                            + Number(inHand', c) - Number(inHand, c)
        <3>1. OnlyMoves(lastcopy, lastcopy', r) /\ lastcopy'[r] = 0 /\ c # 0
            BY <1>1, <2>2 DEF OnlyMoves
        <3>2. Number(lastcopy', c) =
                 Number(lastcopy, c) + (IF c = lastcopy'[r] THEN 1 ELSE 0) - (IF c = lastcopy[r] THEN 1 ELSE 0)
            BY <3>1, NumberMoves
        <3>3. copies[c] \in Int
            BY <1>1
        <3>4. CASE c = l
            BY <1>3, <2>1, <2>2, <3>1, <3>2, <3>3, <3>4
        <3>5. CASE c # l
            BY <1>3, <2>1, <2>2, <3>1, <3>2, <3>3, <3>5
        <3> QED
            BY <3>4, <3>5
    <2> QED
        BY Zenon, <1>9, <2>1, <2>2, <2>3, <2>4, CopiesMove DEF ReleaseLast
<1>10. CASE ReaderUnlock(r)
    <2>1. Holders' = Holders /\ inHand' = inHand
        BY <1>1, <1>10 DEF ReaderUnlock, Holders, inHand
    <2>2. StmTypes'
        BY <1>1, <1>10 DEF ReaderUnlock, StmTypes
    <2> QED
        BY <1>10, <2>1, <2>2 DEF ReaderUnlock, StmInv, ReferenceExact, CopiesExact
<1> QED
    BY <1>4, <1>5, <1>6, <1>7, <1>8, <1>9, <1>10

\* The counters of lua-stm are exact throughout.
THEOREM StmInvariant == Spec => []StmInv
<1>1. Init => StmInv
    <2> SUFFICES ASSUME Init PROVE StmInv
        OBVIOUS
    <2>1. Holders = {} /\ \A r \in Reader : lastcopy[r] # 1 /\ inHand[r] # 1
        BY DEF Init, Holders, inHand
    <2>2. Cardinality(Holders) = 0 /\ Number(lastcopy, 1) = 0 /\ Number(inHand, 1) = 0
        BY <2>1, FS_EmptySet, NumberNat
    <2>3. StmTypes
        <3>1. copies \in Seq(Int) /\ Len(copies) = 1
            BY DEF Init
        <3>2. reference \in Int /\ copy \in 0 .. Len(copies) /\ 0 \in 0 .. Len(copies)
            BY <3>1 DEF Init
        <3>3. deleted \in BOOLEAN
            BY Zenon DEF Init
        <3>4. /\ pc \in [Reader -> {"none", "sent", "idle", "took", "unlock", "last", "gone"}]
              /\ writer \in {"open", "unlock", "gone"} /\ writer = "open" /\ copy # 0
            BY DEF Init
        <3>5. lastcopy \in [Reader -> 0 .. Len(copies)] /\ took \in [Reader -> 0 .. Len(copies)]
            BY <3>2 DEF Init
        <3> QED
            BY <3>1, <3>2, <3>3, <3>4, <3>5 DEF StmTypes
    <2> QED
        BY <2>2, <2>3 DEF Init, StmInv, ReferenceExact, CopiesExact
<1>2. StmInv /\ [Next]_vars => StmInv'
    <2> SUFFICES ASSUME StmInv, [Next]_vars PROVE StmInv'
        OBVIOUS
    <2>1. CASE UNCHANGED vars
        <3>1. Holders' = Holders /\ inHand' = inHand
            BY <2>1 DEF vars, Holders, inHand
        <3> QED
            BY <2>1, <3>1 DEF vars, StmInv, StmTypes, ReferenceExact, CopiesExact
    <2> QED
        BY <2>1, WriterKeeps, ReaderKeeps DEF Next
<1> QED
    BY <1>1, <1>2, PTL DEF Spec

\* stm_release, stm_releasereader: the object is deleted exactly when its
\* writer and every reader it was handed to have given their reference up,
\* although the readers do so under a shared lock.  The unlock of a guard that
\* comes after that is a step of its own and is not claimed to find the object.
THEOREM ObjectIsAlive == Spec => []ObjectAlive
<1>1. StmInv => ObjectAlive
    <2> SUFFICES ASSUME StmInv PROVE ObjectAlive
        OBVIOUS
    <2>1. Cardinality(Holders) \in Nat /\ (Cardinality(Holders) = 0 <=> Holders = {})
        BY SomeReaders DEF Holders
    <2>2. reference = 0 <=> copy = 0 /\ Holders = {}
        BY <2>1 DEF StmInv, ReferenceExact
    <2>3. Holders = {} <=> \A r \in Reader : pc[r] \notin {"sent", "idle", "took"}
        BY DEF Holders
    <2>4. writer = "open" <=> copy # 0
        BY DEF StmInv, StmTypes
    <2> QED
        BY <2>2, <2>3, <2>4 DEF ObjectAlive, StmInv, ReferenceExact
<1> QED
    BY <1>1, StmInvariant, PTL

\* stm_copy, stm_releasecopy: a copy is freed exactly when it is not the
\* newest one and no reader has it, or is about to.
THEOREM CopiesAreAlive == Spec => []CopiesAlive
<1>1. StmInv => CopiesAlive
    <2> SUFFICES ASSUME StmInv, NEW c \in DOMAIN copies
                 PROVE  copies[c] > 0 <=>
                          c = copy \/ \E r \in Reader : lastcopy[r] = c \/ (pc[r] = "took" /\ took[r] = c)
        BY DEF CopiesAlive
    <2>1. c \in 1 .. Len(copies)
        BY DEF StmInv, StmTypes
    <2>2. copies[c] = (IF c = copy THEN 1 ELSE 0) + Number(lastcopy, c) + Number(inHand, c)
        BY <2>1 DEF StmInv, CopiesExact
    <2>3. Number(lastcopy, c) \in Nat /\ Number(inHand, c) \in Nat
        BY NumberNat
    <2>4. copies[c] > 0 <=> c = copy \/ Number(lastcopy, c) > 0 \/ Number(inHand, c) > 0
        BY <2>2, <2>3
    <2>5. Number(lastcopy, c) > 0 <=> \E r \in Reader : lastcopy[r] = c
        BY NumberNat
    <2>6. Number(inHand, c) > 0 <=> \E r \in Reader : pc[r] = "took" /\ took[r] = c
        <3>1. \A r \in Reader : inHand[r] = c <=> pc[r] = "took" /\ took[r] = c
            BY <2>1 DEF inHand, StmInv, StmTypes
        <3> QED
            BY <3>1, NumberNat
    <2> QED
        BY <2>4, <2>5, <2>6
<1> QED
    BY <1>1, StmInvariant, PTL

-----------------------------------------------------------------------------
(***************************************************************************)
(* Shared tables, whatever the number of services and of versions.         *)
(***************************************************************************)
CONSTANTS Client, MaxMatrix

VARIABLES file, closed, made, refs, clients, asked, answer, held, gone

\* The walk of sharetable.update, the second half of the module, is left alone.
ST == INSTANCE ShareTable WITH
        Object <- {}, Root <- 0, Userdata <- {}, Slot <- {}, UserValue <- 0, OldPaths <- {}, NewPaths <- {},
        heap <- 0, before <- 0, replace_map <- 0, record_map <- {}, stack <- {}

ShareTypes ==
    /\ made \in 0 .. MaxMatrix /\ file \in 0 .. made /\ closed \subseteq 1 .. made
    /\ refs \in [ST!Matrix -> [known : BOOLEAN, count : Nat, refs : SUBSET Client]]
    /\ clients \in [Client -> SUBSET ST!Matrix] /\ held \in [Client -> SUBSET ST!Matrix]
    /\ asked \in [Client -> {"no", "sent", "told"}] /\ answer \in [Client -> 0 .. made]
    /\ gone \in [Client -> {"no", "closing", "gone"}]

\* count is the number of services of a version; one that is closed, or not made
\* yet, has none.
RefsExact ==
    \A m \in ST!Matrix :
        /\ IsFiniteSet(refs[m].refs) /\ refs[m].count = Cardinality(refs[m].refs)
        /\ ~refs[m].known => refs[m].refs = {}
        /\ m \in closed \/ m > made => refs[m].refs = {}

\* A live service that has a version or is told of it is recorded for it.
HeldRecorded ==
    \A c \in Client : gone[c] = "no" =>
        /\ \A m \in held[c] : c \in refs[m].refs
        /\ asked[c] = "told" /\ answer[c] # 0 => c \in refs[answer[c]].refs

ShareInv == ShareTypes /\ RefsExact /\ HeldRecorded /\ ST!NoLeak

-----------------------------------------------------------------------------
\* A version nobody is recorded for is closed: replaced, or its file not read.
LEMMA VersionCloses ==
    ASSUME ShareInv, MaxMatrix \in Nat, file # 0, ST!Unused(file),
           closed' = closed \cup {file}, refs' = [refs EXCEPT ![file] = ST!NoRef],
           made' \in {made, made + 1}, made' \in 0 .. MaxMatrix, file' \in {file, made'},
           made' # made => file' = made',
           UNCHANGED <<clients, asked, answer, held, gone>>
    PROVE  ShareInv'
  <1> USE DEF ShareInv
  <1>1. /\ made \in Nat /\ file \in ST!Matrix /\ \A m \in ST!Matrix : m \in Nat
        /\ made' \in Nat /\ \A m \in 1 .. made' : m \in ST!Matrix
    BY DEF ShareTypes, ST!Matrix
  <1>2. refs[file].refs = {}
    <2>1. CASE ~refs[file].known
      BY <1>1, <2>1 DEF RefsExact
    <2>2. CASE refs[file].count = 0
      BY <1>1, <2>2, FS_EmptySet DEF RefsExact
    <2> QED BY Zenon, <2>1, <2>2 DEF ST!Unused
  <1>3. ST!NoRef \in [known : BOOLEAN, count : Nat, refs : SUBSET Client]
    BY DEF ST!NoRef
  <1>4. /\ refs' \in [ST!Matrix -> [known : BOOLEAN, count : Nat, refs : SUBSET Client]]
        /\ \A m \in ST!Matrix : m # file => refs'[m] = refs[m]
        /\ refs'[file].refs = {} /\ refs'[file].count = 0
    BY <1>1, <1>3 DEF ShareTypes, ST!NoRef
  <1>5. \A m \in ST!Matrix : refs'[m].refs = refs[m].refs
    BY Zenon, <1>2, <1>4
  <1>6. clients' = clients /\ asked' = asked /\ answer' = answer /\ held' = held /\ gone' = gone
    OBVIOUS
  <1>7. ShareTypes'
    <2>1. file' \in 0 .. made' /\ closed' \subseteq 1 .. made' /\ \A n \in 0 .. made : n \in 0 .. made'
      BY <1>1 DEF ShareTypes
    <2>2. answer' \in [Client -> 0 .. made']
      BY <1>6, <2>1 DEF ShareTypes
    <2> QED BY <1>4, <1>6, <2>1, <2>2 DEF ShareTypes
  <1>8. RefsExact'
    <2> SUFFICES ASSUME NEW m \in ST!Matrix
                 PROVE  /\ IsFiniteSet(refs'[m].refs) /\ refs'[m].count = Cardinality(refs'[m].refs)
                        /\ ~refs'[m].known => refs'[m].refs = {}
                        /\ m \in closed' \/ m > made' => refs'[m].refs = {}
      BY Zenon DEF RefsExact, ST!Matrix
    <2>1. CASE m = file
      BY Zenon, <2>1, <1>4, FS_EmptySet
    <2>2. CASE m # file
      <3>1. m > made' => m > made
        BY <1>1
      <3> QED BY <2>2, <3>1, <1>4 DEF RefsExact
    <2> QED BY <2>1, <2>2
  <1>9. HeldRecorded'
    <2>1. \A c \in Client : held[c] \subseteq ST!Matrix /\ (answer[c] # 0 => answer[c] \in ST!Matrix)
      BY <1>1 DEF ShareTypes, ST!Matrix
    <2> QED BY <1>5, <1>6, <2>1 DEF HeldRecorded
  <1>10. ST!NoLeak'
    <2> SUFFICES ASSUME NEW m \in 1 .. made', m # file', m \notin closed' PROVE refs'[m].count > 0
      BY DEF ST!NoLeak
    <2>1. m # file /\ m \in 1 .. made /\ m \notin closed /\ m \in ST!Matrix
      BY <1>1
    <2> QED BY <1>4, <2>1 DEF ST!NoLeak
  <1> QED BY Zenon, <1>7, <1>8, <1>9, <1>10

\* load: the version before stays as long as services are recorded for it.
LEMMA LoadKeeps ==
    ASSUME ShareInv, MaxMatrix \in Nat, ST!Load
    PROVE  ShareInv'
  <1> USE DEF ShareInv
  <1>1. /\ made' = made + 1 /\ file' = made + 1 /\ made < MaxMatrix /\ made \in Nat
        /\ UNCHANGED <<clients, asked, answer, held, gone>>
    BY DEF ST!Load, ShareTypes
  <1>2. made' \in {made, made + 1} /\ made' \in 0 .. MaxMatrix /\ file' \in {file, made'} /\ made' = file'
    BY <1>1
  <1>3. CASE file # 0 /\ ST!Unused(file)
    BY Zenon, <1>1, <1>2, <1>3, VersionCloses DEF ST!Load
  <1>4. CASE ~(file # 0 /\ ST!Unused(file))
    <2>1. /\ closed' = closed /\ refs' = refs
          /\ clients' = clients /\ asked' = asked /\ answer' = answer /\ held' = held /\ gone' = gone
      BY Zenon, <1>4 DEF ST!Load
    <2>2. ShareTypes'
      <3>1. \A n \in 0 .. made : n \in 0 .. made'
        BY <1>1
      <3>2. answer' \in [Client -> 0 .. made'] /\ file' \in 0 .. made' /\ closed' \subseteq 1 .. made'
        BY <1>1, <2>1, <3>1 DEF ShareTypes
      <3> QED BY <1>2, <2>1, <3>2 DEF ShareTypes
    <2>3. RefsExact' /\ HeldRecorded'
      <3>1. \A m \in ST!Matrix : m > made' => m > made
        BY <1>1 DEF ST!Matrix
      <3> QED BY <2>1, <3>1 DEF RefsExact, HeldRecorded, ST!Matrix
    <2>4. ST!NoLeak'
      <3> SUFFICES ASSUME NEW m \in 1 .. made', m # file', m \notin closed' PROVE refs'[m].count > 0
        BY DEF ST!NoLeak
      <3>1. m \in 1 .. made /\ m \in ST!Matrix /\ m # 0
        BY <1>1 DEF ST!Matrix
      <3>2. CASE m = file
        <4>1. refs[file].count # 0 /\ refs[file].count \in Nat
          BY <1>4, <3>1, <3>2 DEF ST!Unused, ShareTypes
        <4> QED BY <2>1, <3>2, <4>1
      <3>3. CASE m # file
        BY <2>1, <3>1, <3>3 DEF ST!NoLeak
      <3> QED BY <3>2, <3>3
    <2> QED BY Zenon, <2>2, <2>3, <2>4
  <1> QED BY Zenon, <1>3, <1>4

\* query: the version and the service are recorded before the answer is sent.
LEMMA QueryKeeps ==
    ASSUME ShareInv, MaxMatrix \in Nat, NEW c \in Client, ST!Query(c)
    PROVE  ShareInv'
  <1> USE DEF ShareInv
  <1>1. /\ asked' = [asked EXCEPT ![c] = "told"] /\ file' = file /\ closed' = closed /\ made' = made
        /\ held' = held /\ gone' = gone
    BY DEF ST!Query
  <1>2. /\ asked' \in [Client -> {"no", "sent", "told"}]
        /\ \A d \in Client : d # c => asked'[d] = asked[d]
    BY <1>1 DEF ShareTypes
  <1>3. /\ made \in Nat /\ \A m \in 1 .. made : m \in ST!Matrix
        /\ \A d \in Client : held[d] \subseteq ST!Matrix /\ (answer[d] # 0 => answer[d] \in ST!Matrix)
    BY DEF ShareTypes, ST!Matrix
  <1>4. CASE file = 0 \/ file \in closed
    <2>1. answer' = [answer EXCEPT ![c] = 0] /\ refs' = refs /\ clients' = clients
      BY Zenon, <1>4 DEF ST!Query
    <2>2. answer' \in [Client -> 0 .. made] /\ answer'[c] = 0 /\ \A d \in Client : d # c => answer'[d] = answer[d]
      BY <2>1, <1>3 DEF ShareTypes
    <2>3. ShareTypes'
      BY <1>1, <1>2, <2>1, <2>2 DEF ShareTypes
    <2>4. RefsExact' /\ ST!NoLeak'
      BY <1>1, <2>1 DEF RefsExact, ST!NoLeak, ST!Matrix
    <2>5. HeldRecorded'
      BY <1>1, <1>2, <2>1, <2>2 DEF HeldRecorded
    <2> QED BY Zenon, <2>3, <2>4, <2>5
  <1>5. CASE ~(file = 0 \/ file \in closed)
    <2> DEFINE r == refs[file]
               s == [known |-> TRUE, refs |-> r.refs \cup {c},
                     count |-> IF c \in r.refs THEN r.count ELSE r.count + 1]
    <2>1. /\ answer' = [answer EXCEPT ![c] = file] /\ refs' = [refs EXCEPT ![file] = s]
          /\ clients' = [clients EXCEPT ![c] = @ \cup {file}]
      BY Zenon, <1>5 DEF ST!Query
    <2>2. file \in ST!Matrix /\ file # 0 /\ file \in 1 .. made /\ file \notin closed
      BY <1>3, <1>5 DEF ShareTypes
    <2>3. /\ answer' \in [Client -> 0 .. made] /\ answer'[c] = file
          /\ \A d \in Client : d # c => answer'[d] = answer[d]
      BY <2>1, <1>3 DEF ShareTypes
    <2>4. s \in [known : BOOLEAN, count : Nat, refs : SUBSET Client] /\ s.refs = r.refs \cup {c} /\ s.known
      BY <2>2 DEF ShareTypes
    <2>5. IsFiniteSet(s.refs) /\ s.count = Cardinality(s.refs) /\ s.count > 0
      <3>1. IsFiniteSet(r.refs) /\ r.count = Cardinality(r.refs) /\ r.count \in Nat
        BY <2>2 DEF RefsExact, ShareTypes
      <3>2. /\ IsFiniteSet(r.refs \cup {c})
            /\ Cardinality(r.refs \cup {c}) = IF c \in r.refs THEN r.count ELSE r.count + 1
        BY Zenon, <3>1, FS_AddElement
      <3>3. s.refs # {}
        BY <2>4
      <3>4. Cardinality(s.refs) # 0 /\ Cardinality(s.refs) \in Nat
        BY Zenon, <2>4, <3>2, <3>3, FS_EmptySet, FS_CardinalityType
      <3>5. s.count = IF c \in r.refs THEN r.count ELSE r.count + 1
        BY Zenon
      <3>6. IsFiniteSet(s.refs) /\ s.count = Cardinality(s.refs)
        BY Zenon, <2>4, <3>2, <3>5
      <3>7. \A n \in Nat : n # 0 => n > 0
        OBVIOUS
      <3> QED BY Zenon, <3>4, <3>6, <3>7
    <2> HIDE DEF s
    <2>6. /\ refs' \in [ST!Matrix -> [known : BOOLEAN, count : Nat, refs : SUBSET Client]]
          /\ refs'[file] = s /\ \A m \in ST!Matrix : m # file => refs'[m] = refs[m]
      BY <2>1, <2>2, <2>4 DEF ShareTypes
    <2>7. clients' \in [Client -> SUBSET ST!Matrix]
      BY <2>1, <2>2 DEF ShareTypes
    <2>8. ShareTypes'
      BY <1>1, <1>2, <2>3, <2>6, <2>7 DEF ShareTypes
    <2>9. RefsExact'
      <3> SUFFICES ASSUME NEW m \in ST!Matrix
                   PROVE  /\ IsFiniteSet(refs'[m].refs) /\ refs'[m].count = Cardinality(refs'[m].refs)
                          /\ ~refs'[m].known => refs'[m].refs = {}
                          /\ m \in closed' \/ m > made' => refs'[m].refs = {}
        BY Zenon DEF RefsExact, ST!Matrix
      <3>1. CASE m = file
        <4>1. ~(m > made')
          BY <3>1, <1>1, <1>3, <2>2
        <4> QED BY <3>1, <4>1, <1>1, <2>2, <2>4, <2>5, <2>6
      <3>2. CASE m # file
        BY <3>2, <1>1, <2>6 DEF RefsExact
      <3> QED BY <3>1, <3>2
    <2>10. HeldRecorded'
      <3>1. \A m \in ST!Matrix : refs[m].refs \subseteq refs'[m].refs
        BY <2>4, <2>6
      <3>2. c \in refs'[file].refs
        BY <2>4, <2>6
      <3>3. \A d \in Client : gone[d] = "no" => \A m \in held[d] : d \in refs'[m].refs
        BY Zenon, <1>3, <3>1 DEF HeldRecorded
      <3>4. \A d \in Client : gone[d] = "no" /\ asked'[d] = "told" /\ answer'[d] # 0 =>
                                d \in refs'[answer'[d]].refs
        BY <1>2, <1>3, <2>3, <3>1, <3>2 DEF HeldRecorded
      <3> QED BY Zenon, <1>1, <3>3, <3>4 DEF HeldRecorded
    <2>11. ST!NoLeak'
      BY <1>1, <1>3, <2>6 DEF ST!NoLeak
    <2> QED BY Zenon, <2>8, <2>9, <2>10, <2>11
  <1> QED BY Zenon, <1>4, <1>5

\* The end of a service: its versions lose it, and those that are left to nobody
\* and are not the current one are closed.
LEMMA CloseKeeps ==
    ASSUME ShareInv, MaxMatrix \in Nat, NEW c \in Client, ST!Close(c)
    PROVE  ShareInv'
  <1> USE DEF ShareInv
  <1> DEFINE mine == {m \in clients[c] : refs[m].known /\ c \in refs[m].refs}
             dead == {m \in mine : ST!Dropped(m, refs[m])}
  <1>1. /\ gone[c] = "closing" /\ gone' = [gone EXCEPT ![c] = "gone"] /\ clients' = [clients EXCEPT ![c] = {}]
        /\ closed' = closed \cup dead
        /\ refs' = [m \in ST!Matrix |-> IF m \in dead THEN ST!NoRef
                                        ELSE IF m \in mine
                                        THEN [refs[m] EXCEPT !.refs = @ \ {c}, !.count = @ - 1]
                                        ELSE refs[m]]
        /\ file' = file /\ made' = made /\ asked' = asked /\ answer' = answer /\ held' = held
    BY Zenon DEF ST!Close
  <1>2. \A m \in dead : m \in mine /\ refs[m].count = 1 /\ m # file
    BY Zenon DEF ST!Dropped
  <1>3. \A m \in mine : m \in ST!Matrix /\ c \in refs[m].refs
    BY DEF ShareTypes
  <1> HIDE DEF mine, dead
  <1>4. /\ gone' \in [Client -> {"no", "closing", "gone"}] /\ clients' \in [Client -> SUBSET ST!Matrix]
        /\ gone'[c] = "gone" /\ \A d \in Client : d # c => gone'[d] = gone[d]
    BY Zenon, <1>1 DEF ShareTypes
  <1>5. /\ made \in Nat /\ \A m \in 1 .. made : m \in ST!Matrix
        /\ \A d \in Client : held[d] \subseteq ST!Matrix /\ (answer[d] # 0 => answer[d] \in ST!Matrix)
    BY DEF ShareTypes, ST!Matrix
  <1>6. ASSUME NEW m \in ST!Matrix
        PROVE  /\ refs'[m] \in [known : BOOLEAN, count : Nat, refs : SUBSET Client]
               /\ IsFiniteSet(refs'[m].refs) /\ refs'[m].count = Cardinality(refs'[m].refs)
               /\ ~refs'[m].known => refs'[m].refs = {}
               /\ \A d \in refs[m].refs : d # c => d \in refs'[m].refs
               /\ m \in closed' \/ m > made' => refs'[m].refs = {}
               /\ m # file /\ m \notin dead /\ refs[m].count > 0 => refs'[m].count > 0
    <2>1. /\ refs[m] \in [known : BOOLEAN, count : Nat, refs : SUBSET Client]
          /\ IsFiniteSet(refs[m].refs) /\ refs[m].count = Cardinality(refs[m].refs)
          /\ ~refs[m].known => refs[m].refs = {}
          /\ m \in closed \/ m > made => refs[m].refs = {}
      BY <1>6 DEF ShareTypes, RefsExact
    <2>2. /\ IsFiniteSet(refs[m].refs \ {c})
          /\ c \in refs[m].refs => Cardinality(refs[m].refs \ {c}) = refs[m].count - 1
      BY <2>1, FS_RemoveElement
    <2>3. CASE m \in dead
      <3>1. refs'[m] = ST!NoRef
        BY Zenon, <1>1, <2>3
      <3>2. c \in refs[m].refs /\ Cardinality(refs[m].refs \ {c}) = 0
        BY <1>2, <1>3, <2>2, <2>3
      <3>3. refs[m].refs \ {c} = {}
        BY <2>2, <3>2, FS_EmptySet
      <3> QED BY <2>3, <3>1, <3>3, FS_EmptySet DEF ST!NoRef
    <2>4. CASE m \notin dead /\ m \in mine
      <3>1. refs'[m] = [refs[m] EXCEPT !.refs = @ \ {c}, !.count = @ - 1]
        BY Zenon, <1>1, <2>4
      <3>2. c \in refs[m].refs /\ m \notin closed /\ m \notin closed' /\ ~(m > made)
        BY Zenon, <1>1, <1>3, <2>1, <2>4
      <3>3. refs[m].count - 1 \in Nat
        BY <2>2, <3>2, FS_CardinalityType
      <3>4. /\ refs'[m].refs = refs[m].refs \ {c} /\ refs'[m].count = refs[m].count - 1
            /\ refs'[m].known = refs[m].known
            /\ refs'[m] \in [known : BOOLEAN, count : Nat, refs : SUBSET Client]
        BY Zenon, <2>1, <3>1, <3>3
      <3>5. m # file => refs[m].count # 1
        BY <2>4 DEF dead, ST!Dropped
      <3>6. m # file /\ refs[m].count > 0 => refs'[m].count > 0
        BY <2>1, <3>3, <3>4, <3>5
      <3>7. IsFiniteSet(refs'[m].refs) /\ refs'[m].count = Cardinality(refs'[m].refs)
        BY Zenon, <2>2, <3>2, <3>4
      <3>8. ~(m > made')
        BY Zenon, <1>1, <3>2
      <3> QED BY Zenon, <2>1, <3>2, <3>4, <3>6, <3>7, <3>8
    <2>5. CASE m \notin dead /\ m \notin mine
      BY Zenon, <1>1, <2>1, <2>5
    <2> QED BY Zenon, <1>2, <2>3, <2>4, <2>5
  <1>7. ShareTypes'
    <2>1. refs' \in [ST!Matrix -> [known : BOOLEAN, count : Nat, refs : SUBSET Client]]
      BY Zenon, <1>1, <1>6
    <2>2. closed' \subseteq 1 .. made
      <3>1. dead \subseteq 1 .. made
        <4> SUFFICES ASSUME NEW m \in dead PROVE m \in 1 .. made
          BY Zenon
        <4>1. m \in ST!Matrix /\ ~(m > made)
          BY Zenon, <1>2, <1>3 DEF RefsExact
        <4> QED BY <4>1, <1>5 DEF ST!Matrix
      <3> QED BY Zenon, <1>1, <3>1 DEF ShareTypes
    <2> QED BY Zenon, <1>1, <1>4, <2>1, <2>2 DEF ShareTypes
  <1>8. RefsExact'
    BY Zenon, <1>6 DEF RefsExact, ST!Matrix
  <1>9. HeldRecorded'
    <2> SUFFICES ASSUME NEW d \in Client, gone'[d] = "no"
                 PROVE  /\ \A m \in held[d] : d \in refs'[m].refs
                        /\ asked[d] = "told" /\ answer[d] # 0 => d \in refs'[answer[d]].refs
      BY Zenon, <1>1 DEF HeldRecorded
    <2>1. d # c /\ gone[d] = "no"
      BY <1>4
    <2> QED BY Zenon, <1>5, <1>6, <2>1 DEF HeldRecorded
  <1>10. ST!NoLeak'
    <2> SUFFICES ASSUME NEW m \in 1 .. made, m # file, m \notin closed' PROVE refs'[m].count > 0
      BY Zenon, <1>1 DEF ST!NoLeak
    <2> QED BY Zenon, <1>1, <1>5, <1>6 DEF ST!NoLeak
  <1> QED BY Zenon, <1>7, <1>8, <1>9, <1>10

\* A service asks, takes the answer or begins to exit.
LEMMA ClientKeeps ==
    ASSUME ShareInv, MaxMatrix \in Nat, NEW c \in Client, ST!Ask(c) \/ ST!Clone(c) \/ ST!report_close(c)
    PROVE  ShareInv'
  <1> USE DEF ShareInv
  <1>1. file' = file /\ closed' = closed /\ made' = made /\ refs' = refs /\ clients' = clients /\ answer' = answer
    BY Zenon DEF ST!Ask, ST!Clone, ST!report_close
  <1>2. RefsExact' /\ ST!NoLeak'
    BY <1>1 DEF RefsExact, ST!NoLeak, ST!Matrix
  <1>3. CASE ST!Ask(c)
    BY <1>1, <1>2, <1>3 DEF ST!Ask, ShareTypes, HeldRecorded
  <1>4. CASE ST!Clone(c)
    <2>1. answer[c] # 0 => answer[c] \in ST!Matrix
      BY DEF ShareTypes, ST!Matrix
    <2>2. /\ asked' \in [Client -> {"no", "sent", "told"}] /\ asked[c] = "told" /\ asked'[c] = "no"
          /\ gone' = gone /\ \A d \in Client : d # c => asked'[d] = asked[d]
      BY <1>4 DEF ST!Clone, ShareTypes
    <2>3. /\ held' \in [Client -> SUBSET ST!Matrix]
          /\ \A d \in Client : d # c => held'[d] = held[d]
          /\ gone[c] = "no" => \A m \in held'[c] : m \in held[c] \/ (m = answer[c] /\ m # 0)
      BY <1>4, <2>1 DEF ST!Clone, ShareTypes
    <2>4. ShareTypes'
      BY <1>1, <2>2, <2>3 DEF ShareTypes
    <2>5. HeldRecorded'
      <3> SUFFICES ASSUME NEW d \in Client, gone[d] = "no"
                   PROVE  /\ \A m \in held'[d] : d \in refs[m].refs
                          /\ asked'[d] = "told" /\ answer[d] # 0 => d \in refs[answer[d]].refs
        BY Zenon, <1>1, <2>2 DEF HeldRecorded
      <3> QED BY Zenon, <2>2, <2>3 DEF HeldRecorded
    <2> QED BY Zenon, <1>2, <2>4, <2>5
  <1>5. CASE ST!report_close(c)
    BY <1>1, <1>2, <1>5 DEF ST!report_close, ShareTypes, HeldRecorded
  <1> QED BY Zenon, <1>3, <1>4, <1>5

\* Every step of the service and of those that use it.
LEMMA ShareInvariant ==
    ASSUME MaxMatrix \in Nat
    PROVE  ST!Spec => []ShareInv
  <1>1. ST!Init => ShareInv
    <2> SUFFICES ASSUME ST!Init PROVE ShareInv
      OBVIOUS
    <2>1. \A m \in ST!Matrix : refs[m] = ST!NoRef
      BY DEF ST!Init
    <2>2. ShareTypes
      BY DEF ST!Init, ShareTypes, ST!NoRef
    <2>3. RefsExact
      BY <2>1, FS_EmptySet DEF RefsExact, ST!NoRef
    <2>4. HeldRecorded /\ ST!NoLeak
      BY DEF ST!Init, HeldRecorded, ST!NoLeak
    <2> QED BY Zenon, <2>2, <2>3, <2>4 DEF ShareInv
  <1>2. ShareInv /\ [ST!Next]_ST!vars => ShareInv'
    <2> SUFFICES ASSUME ShareInv, [ST!Next]_ST!vars PROVE ShareInv'
      OBVIOUS
    <2>1. CASE ST!Load
      BY Zenon, <2>1, LoadKeeps
    <2>2. CASE ST!LoadFailed
      <3>1. made' = made /\ file' = file /\ made \in 0 .. MaxMatrix
        BY Zenon, <2>2 DEF ST!LoadFailed, ShareInv, ShareTypes
      <3> QED BY Zenon, <2>2, <3>1, VersionCloses DEF ST!LoadFailed
    <2>3. ASSUME NEW c \in Client, ST!Query(c) PROVE ShareInv'
      BY Zenon, <2>3, QueryKeeps
    <2>4. ASSUME NEW c \in Client, ST!Close(c) PROVE ShareInv'
      BY Zenon, <2>4, CloseKeeps
    <2>5. ASSUME NEW c \in Client, ST!Ask(c) \/ ST!Clone(c) \/ ST!report_close(c) PROVE ShareInv'
      BY Zenon, <2>5, ClientKeeps
    <2>6. CASE UNCHANGED ST!vars
      BY <2>6 DEF ST!vars, ShareInv, ShareTypes, RefsExact, HeldRecorded, ST!NoLeak, ST!Matrix
    <2> QED BY Zenon, <2>1, <2>2, <2>3, <2>4, <2>5, <2>6 DEF ST!Next
  <1> QED BY <1>1, <1>2, PTL DEF ST!Spec

\* The Lua state of a version that a live service has cloned, or is told to clone,
\* is open, whatever loads, failed loads, queries and exits there are.
THEOREM SharedMatrixIsAlive ==
    ASSUME MaxMatrix \in Nat
    PROVE  ST!Spec => []ST!MatrixAlive
  <1>1. ShareInv => ST!MatrixAlive
    <2> SUFFICES ASSUME ShareInv, NEW c \in Client, gone[c] = "no"
                 PROVE  /\ held[c] \cap closed = {}
                        /\ asked[c] = "told" => answer[c] \notin closed
      BY Zenon DEF ST!MatrixAlive
    <2>1. held[c] \subseteq ST!Matrix /\ \A m \in closed : m \in ST!Matrix /\ m # 0
      BY DEF ShareInv, ShareTypes, ST!Matrix
    <2> QED BY Zenon, <2>1 DEF ShareInv, RefsExact, HeldRecorded
  <1> QED BY <1>1, ShareInvariant, PTL

\* A version that is neither the current one nor recorded for a service is closed.
THEOREM SharedMatricesDoNotLeak ==
    ASSUME MaxMatrix \in Nat
    PROVE  ST!Spec => []ST!NoLeak
  <1>1. ShareInv => ST!NoLeak
    BY Zenon DEF ShareInv
  <1> QED BY <1>1, ShareInvariant, PTL
=============================================================================
