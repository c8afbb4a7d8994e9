----------------------------- MODULE RingQueue ------------------------------
(***************************************************************************)
(* The container inside mq_private: a ring buffer that doubles when it is  *)
(* full, and the overload mark that pop sets and dispatch_message reads.   *)
(* Each action is one critical section of the queue's mutex (overload()    *)
(* takes no lock, but only the worker that holds the queue calls it and    *)
(* pop).  Whether the queue is in the global queue is in module Dispatch.  *)
(***************************************************************************)
EXTENDS Integers, Sequences

CONSTANTS ServiceMessage, \* messages
          NoMessage,      \* the contents of a slot never written
          DefaultCap,     \* DEFAULT_QUEUE_CAPACITY
          DefaultThr,     \* DEFAULT_OVERLOAD_THRESHOLD
          MaxLen          \* bound: messages in the queue

ASSUME RingAssumption ==
    /\ NoMessage \notin ServiceMessage
    /\ DefaultCap \in Nat \ {0, 1}
    /\ DefaultThr \in Nat \ {0}
    /\ MaxLen \in Nat

VARIABLES buf,       \* queue_: the slots 0 .. cap_ - 1
          cap,       \* cap_
          head,      \* head_
          tail,      \* tail_
          overload,  \* overload_
          threshold, \* overload_threshold_
          got        \* *message after the last pop, NoMessage if it was empty

ringVars == <<buf, cap, head, tail, overload, threshold, got>>

\* mq_private::create.
RingInit ==
    /\ cap = DefaultCap
    /\ buf = [k \in 0 .. DefaultCap - 1 |-> NoMessage]
    /\ head = 0
    /\ tail = 0
    /\ overload = 0
    /\ threshold = DefaultThr
    /\ got = NoMessage

\* mq_private::length.
Length == IF head <= tail THEN tail - head ELSE tail + cap - head

\* The slot after k.
Wrap(k) == IF k + 1 >= cap THEN 0 ELSE k + 1

\* Mutant of Expand: the copy does not start at head_.
ExpandUnrotated(b) ==
    /\ buf' = [k \in 0 .. 2 * cap - 1 |-> IF k < cap THEN b[k] ELSE NoMessage]
    /\ head' = 0
    /\ tail' = cap
    /\ cap' = 2 * cap

\* _expand_queue, on the slots b of a full ring: the messages are copied to
\* the front of a buffer twice as large.
Expand(b) ==
    /\ buf' = [k \in 0 .. 2 * cap - 1 |->
                 IF k < cap THEN b[(head + k) % cap] ELSE NoMessage]
    /\ head' = 0
    /\ tail' = cap
    /\ cap' = 2 * cap

\* mq_private::push.
Push(v) ==
    LET b == [buf EXCEPT ![tail] = v] IN
    /\ Length < MaxLen
    /\ \/ /\ Wrap(tail) = head
          /\ Expand(b)
       \/ /\ Wrap(tail) # head
          /\ buf' = b
          /\ tail' = Wrap(tail)
          /\ UNCHANGED <<head, cap>>
    /\ UNCHANGED <<overload, threshold, got>>

\* Mutant of Doubled: an if in place of the while.
DoubledOnce(t, l) == IF l > t THEN 2 * t ELSE t

\* The loop of pop: threshold t is doubled until length l does not exceed it.
Doubled(t, l) ==
    LET D[u \in Nat \ {0}] == IF l > u THEN D[2 * u] ELSE u
    IN  D[t]

\* mq_private::pop on a queue with messages.
PopMessage ==
    LET h == Wrap(head)
        l == IF tail - h < 0 THEN tail - h + cap ELSE tail - h
    IN  /\ head # tail
        /\ got' = buf[head]
        /\ head' = h
        /\ threshold' = Doubled(threshold, l)
        /\ overload' = IF l > threshold THEN l ELSE overload
        /\ UNCHANGED <<buf, cap, tail>>

\* mq_private::pop on an empty queue.
PopEmpty ==
    /\ head = tail
    /\ got' = NoMessage
    /\ threshold' = DefaultThr
    /\ UNCHANGED <<buf, cap, head, tail, overload>>

\* mq_private::overload: reads the mark and clears it.
ReadOverload ==
    /\ overload # 0
    /\ overload' = 0
    /\ UNCHANGED <<buf, cap, head, tail, threshold, got>>

RingNext == (\E v \in ServiceMessage : Push(v)) \/ PopMessage \/ PopEmpty \/ ReadOverload

RingSpec == RingInit /\ [][RingNext]_ringVars

-----------------------------------------------------------------------------
\* The slot of the k-th oldest message, counted from 0.
At(k) == IF head + k < cap THEN head + k ELSE head + k - cap

Contents == [k \in 1 .. Length |-> buf[At(k - 1)]]

FF == INSTANCE Fifo WITH items <- Contents

\* push, pop and _expand_queue together behave as a queue: no message is
\* lost, duplicated or reordered, also when the ring is full, when head_ or
\* tail_ wraps and when the buffer doubles with its contents wrapped around.
ImplementsFifo == FF!Spec

\* After a pop that takes a message the queue is no longer than the
\* threshold, however far it grew since the last pop; and whenever pop raises
\* the threshold it marks the queue with the length that made it do so, and
\* raises it no further than that length needs.
Overloaded ==
    [][/\ head' # head /\ cap' = cap => Length' <= threshold'
       /\ threshold' > threshold =>
            /\ overload' = Length'
            /\ overload' > threshold
            /\ threshold' < 2 * overload']_ringVars
=============================================================================
