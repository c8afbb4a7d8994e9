------------------------------- MODULE Alarms -------------------------------
(***************************************************************************)
(* What the timer promises: a timeout of d ticks is delivered d ticks      *)
(* later, once, and timeouts due at the same tick in the order in which    *)
(* they were asked for.                                                    *)
(***************************************************************************)
EXTENDS Integers, Sequences

CONSTANTS Event,     \* a service and the session of its timeout
          MaxDelay   \* the longest timeout

VARIABLES due,     \* due[k]: what is delivered in k ticks, in order
          firing,  \* what the current tick still has to deliver
          inbox    \* what has been delivered and not yet handled

vars == <<due, firing, inbox>>

Init ==
    /\ due = [k \in 1 .. MaxDelay |-> <<>>]
    /\ firing = <<>>
    /\ inbox = {}

Elements(s) == {s[k] : k \in DOMAIN s}

\* A session is not used again while its timeout is on the way.
Unused(e) ==
    /\ e \notin inbox \cup Elements(firing)
    /\ \A k \in 1 .. MaxDelay : e \notin Elements(due[k])

\* A timeout of no ticks is delivered at once.
Set(e, d) ==
    /\ Unused(e)
    /\ \/ /\ d <= 0
          /\ inbox' = inbox \cup {e}
          /\ UNCHANGED due
       \/ /\ d > 0
          /\ due' = [due EXCEPT ![d] = Append(@, e)]
          /\ UNCHANGED inbox
    /\ UNCHANGED firing

Tick ==
    /\ firing = <<>>
    /\ firing' = due[1]
    /\ due' = [k \in 1 .. MaxDelay |-> IF k < MaxDelay THEN due[k + 1] ELSE <<>>]
    /\ UNCHANGED inbox

Deliver ==
    /\ firing # <<>>
    /\ inbox' = inbox \cup {Head(firing)}
    /\ firing' = Tail(firing)
    /\ UNCHANGED due

Handle(e) ==
    /\ e \in inbox
    /\ inbox' = inbox \ {e}
    /\ UNCHANGED <<due, firing>>

Next ==
    \/ \E e \in Event, d \in 0 .. MaxDelay : Set(e, d)
    \/ Tick \/ Deliver
    \/ \E e \in Event : Handle(e)

Spec == Init /\ [][Next]_vars

=============================================================================
