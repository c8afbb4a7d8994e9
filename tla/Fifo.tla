-------------------------------- MODULE Fifo --------------------------------
(***************************************************************************)
(* What mq_private promises as a container: an unbounded queue, first in   *)
(* first out, whose pop says whether it was empty.                         *)
(***************************************************************************)
EXTENDS Naturals, Sequences

CONSTANTS ServiceMessage, \* messages
          NoMessage       \* what pop yields when there is none

VARIABLES items,  \* the messages, oldest first
          got     \* what the last pop yielded

vars == <<items, got>>

Init == items = <<>> /\ got = NoMessage

Push(v) == items' = Append(items, v) /\ UNCHANGED got

Pop ==
    \/ items # <<>> /\ got' = Head(items) /\ items' = Tail(items)
    \/ items = <<>> /\ got' = NoMessage /\ UNCHANGED items

Next == (\E v \in ServiceMessage : Push(v)) \/ Pop

Spec == Init /\ [][Next]_vars

=============================================================================
