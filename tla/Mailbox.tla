------------------------------ MODULE Mailbox -------------------------------
(***************************************************************************)
(* What the message core of a node promises to its services: each has a    *)
(* mailbox, first in first out; at most one message of it is handled at a  *)
(* time, and none before the service is initialised; messages are taken    *)
(* away unhandled only after the service is gone, and from then on none is *)
(* accepted and none is handled.                                           *)
(***************************************************************************)
EXTENDS Naturals, Sequences

CONSTANTS Svc,    \* service incarnations
          Boot,   \* the ones that exist from the start
          Msg     \* messages

VARIABLES box,    \* the mailbox of each service
          life,   \* "absent", "starting", "open", "gone", "removed"
          busy    \* the services whose code runs now

vars == <<box, life, busy>>

Init ==
    /\ box \in [Svc -> Seq(Msg)]
    /\ \A s \in Svc \ Boot : box[s] = <<>>
    /\ life = [s \in Svc |-> IF s \in Boot THEN "open" ELSE "absent"]
    /\ busy = {}

\* Another service is being created; its initialisation runs.
Start(s) ==
    /\ life[s] = "absent"
    /\ life' = [life EXCEPT ![s] = "starting"]
    /\ busy' = busy \cup {s}
    /\ UNCHANGED box

\* Its initialisation ends: it can be handled.
Started(s) ==
    /\ life[s] = "starting"
    /\ s \in busy
    /\ life' = [life EXCEPT ![s] = "open"]
    /\ busy' = busy \ {s}
    /\ UNCHANGED box

\* A message is accepted; also while the service starts.
Accept(s, m) ==
    /\ life[s] \in {"starting", "open"}
    /\ box' = [box EXCEPT ![s] = Append(@, m)]
    /\ UNCHANGED <<life, busy>>

\* The service begins to handle its oldest message.
Take(s) ==
    /\ life[s] = "open"
    /\ s \notin busy
    /\ box[s] # <<>>
    /\ box' = [box EXCEPT ![s] = Tail(@)]
    /\ busy' = busy \cup {s}
    /\ UNCHANGED life

\* It has handled it.
Finish(s) ==
    /\ life[s] = "open"
    /\ s \in busy
    /\ busy' = busy \ {s}
    /\ UNCHANGED <<box, life>>

\* The service is gone for good; none of its code runs.
Vanish(s) ==
    /\ life[s] = "open"
    /\ s \notin busy
    /\ life' = [life EXCEPT ![s] = "gone"]
    /\ UNCHANGED <<box, busy>>

\* A message left in the mailbox of a service that is gone is dropped.
Drop(s) ==
    /\ life[s] = "gone"
    /\ box[s] # <<>>
    /\ box' = [box EXCEPT ![s] = Tail(@)]
    /\ UNCHANGED <<life, busy>>

\* The emptied mailbox is removed.
Remove(s) ==
    /\ life[s] = "gone"
    /\ box[s] = <<>>
    /\ life' = [life EXCEPT ![s] = "removed"]
    /\ UNCHANGED <<box, busy>>

Next ==
    \E s \in Svc :
        \/ Start(s) \/ Started(s) \/ Take(s) \/ Finish(s)
        \/ Vanish(s) \/ Drop(s) \/ Remove(s)
        \/ \E m \in Msg : Accept(s, m)

Spec == Init /\ [][Next]_vars

=============================================================================
