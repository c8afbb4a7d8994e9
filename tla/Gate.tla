-------------------------------- MODULE Gate --------------------------------
(***************************************************************************)
(* The gate: src/lualib/snax/gateserver.lua, which takes the packets of    *)
(* Netpack and hands them to a handler, and the handler of                 *)
(* src/service/gate.lua, which forwards them to an agent or the watchdog.  *)
(*                                                                         *)
(* The clients are an environment: each connects, sends the packets        *)
(* Packets(fd) once it was started, and goes.  Every message of the gate   *)
(* is one step up to the handler of one packet; that handler may block, as *)
(* those of other gates do, and the coroutine goes on with the ring later. *)
(***************************************************************************)
EXTENDS Netpack, FiniteSets

CONSTANTS Fd,            \* clients, in the order they come
          Lengths,       \* the lengths of the packets each sends
          Agent,         \* services that ask for a client
          MaxClient,     \* max_client
          MaxOrders,     \* bound: commands to the gate
          MaxBlock       \* bound: blocked handlers

VARIABLES net,         \* fd -> "new", "accepted", "started" or "gone"
          rest,        \* fd -> bytes on their way
          connection,  \* of gateserver: "nil", "true" or "false"
          client_number,
          queue, uc,   \* of netpack
          peer,        \* of gate: fd -> its agent, "none" without, "nil" when unknown
          pc, forks, blocked,
          seen,        \* fd -> packets handled, with who got each
          told,        \* fd -> what the watchdog was told
          orders

vars == <<net, rest, connection, client_number, queue, uc, peer, pc, forks,
          blocked, seen, told, orders>>
schedVars == <<pc, forks, blocked>>

Data(fd, i) == [j \in 1 .. Lengths[i] |-> fd * 100 + 10 * i + j]
Packets(fd) == [i \in 1 .. Len(Lengths) |-> Data(fd, i)]
Stream(packets) == FlattenSeq([i \in DOMAIN packets |-> Pack(packets[i])])

-----------------------------------------------------------------------------
(* The handler of gate.lua. *)

\* handler.message: to the agent, or else to the watchdog.
Receiver(fd) == IF peer[fd] = "none" THEN "watchdog" ELSE peer[fd]

Tell(fd, what) == told' = [told EXCEPT ![fd] = Append(@, what)]

-----------------------------------------------------------------------------
(* gateserver: packets. *)

\* dispatch_msg: a packet of a client that was closed meanwhile is dropped.
Handled(fd, data) ==
    Append(seen[fd], [data |-> data, to |-> IF connection[fd] = "true" THEN Receiver(fd) ELSE "dropped"])

DispatchMsg(fd, data) == seen' = [seen EXCEPT ![fd] = Handled(fd, data)]

\* The next n bytes of fd arrive: netpack.filter, and MSG.data or MSG.more.
ReceiveData(fd, n) ==
    LET f == FilterData(queue, fd, uc[fd], SubSeq(rest[fd], 1, n)) IN
    /\ pc = "idle" /\ net[fd] = "started"
    /\ rest' = [rest EXCEPT ![fd] = Rest(@, n)]
    /\ queue' = f.queue
    /\ uc' = [uc EXCEPT ![fd] = f.uc]
    /\ IF f.type = "data" THEN DispatchMsg(fd, f.data) ELSE UNCHANGED seen
    /\ pc' = IF f.type = "more" THEN "start" ELSE "idle"
    /\ UNCHANGED <<net, connection, client_number, peer, forks, blocked, told, orders>>

\* One turn of dispatch_queue: its first packet makes it fork another one of
\* its kind, which goes on when the handler of this packet blocks.
Forked == IF pc = "start" THEN forks + 1 ELSE forks

DispatchQueue ==
    /\ pc \in {"start", "loop"}
    /\ IF IsEmptyRing(queue)
       THEN pc' = "end" /\ UNCHANGED <<queue, seen, forks, blocked>>
       ELSE /\ queue' = Popped(queue)
            /\ DispatchMsg(RingHead(queue).fd, RingHead(queue).data)
            /\ forks' = Forked
            /\ \/ pc' = "loop" /\ UNCHANGED blocked
               \/ blocked < MaxBlock /\ blocked' = blocked + 1 /\ pc' = "end"
    /\ UNCHANGED <<net, rest, connection, client_number, uc, peer, told, orders>>

\* The forked ones run before the message is done; a blocked one goes on with
\* the ring.
RunForks ==
    /\ pc = "end"
    /\ IF forks > 0 THEN forks' = forks - 1 /\ pc' = "start"
       ELSE pc' = "idle" /\ UNCHANGED forks
    /\ UNCHANGED <<net, rest, connection, client_number, queue, uc, peer, blocked, seen, told, orders>>

Unblock ==
    /\ pc = "idle" /\ blocked > 0
    /\ blocked' = blocked - 1 /\ pc' = "loop"
    /\ UNCHANGED <<net, rest, connection, client_number, queue, uc, peer, forks, seen, told, orders>>

-----------------------------------------------------------------------------
(* gateserver: clients. *)

\* MSG.open: a client beyond max_client is closed again.
Open(fd) ==
    /\ pc = "idle" /\ net[fd] = "new"
    /\ net' = [net EXCEPT ![fd] = "accepted"]
    /\ IF client_number >= MaxClient
       THEN UNCHANGED <<connection, client_number, peer, told>>
       ELSE /\ connection' = [connection EXCEPT ![fd] = "true"]
            /\ client_number' = client_number + 1
            /\ peer' = [peer EXCEPT ![fd] = "none"]
            /\ Tell(fd, "open")
    /\ UNCHANGED <<rest, queue, uc, seen, orders>> /\ UNCHANGED schedVars

\* MSG.close and MSG.error, with handler.disconnect and handler.error: the
\* client is gone, or was closed by the gate.  netpack drops what it has of
\* a packet.
CountClosed(fd) == IF connection[fd] # "nil" THEN client_number - 1 ELSE client_number

Close(fd) ==
    /\ pc = "idle" /\ net[fd] \in {"accepted", "started"}
    /\ net' = [net EXCEPT ![fd] = "gone"]
    /\ uc' = [uc EXCEPT ![fd] = None]
    /\ peer' = [peer EXCEPT ![fd] = "nil"]
    /\ \E what \in {"close", "error"} : Tell(fd, what)
    /\ connection' = [connection EXCEPT ![fd] = "nil"]
    /\ client_number' = CountClosed(fd)
    /\ UNCHANGED <<rest, queue, seen, orders>> /\ UNCHANGED schedVars

\* gateserver.openclient: the socket server starts to read.
OpenClient(fd) ==
    net' = IF connection[fd] = "true" /\ net[fd] = "accepted" THEN [net EXCEPT ![fd] = "started"] ELSE net

Order == pc = "idle" /\ orders < MaxOrders /\ orders' = orders + 1

\* CMD.forward and CMD.accept; for an unknown client they fail.
Forward(fd, agent) ==
    /\ Order /\ peer[fd] # "nil"
    /\ peer' = [peer EXCEPT ![fd] = agent]
    /\ OpenClient(fd)
    /\ UNCHANGED <<rest, connection, client_number, queue, uc, seen, told>> /\ UNCHANGED schedVars

\* CMD.kick: until the socket server has closed it, data may still arrive.
Kick(fd) ==
    /\ Order
    /\ connection' = [connection EXCEPT ![fd] = IF @ = "true" THEN "false" ELSE @]
    /\ UNCHANGED <<net, rest, client_number, queue, uc, peer, seen, told>> /\ UNCHANGED schedVars

-----------------------------------------------------------------------------
Init ==
    /\ net = [fd \in Fd |-> "new"]
    /\ rest = [fd \in Fd |-> Stream(Packets(fd))]
    /\ connection = [fd \in Fd |-> "nil"] /\ client_number = 0
    /\ queue = EmptyRing /\ uc = [fd \in Fd |-> None]
    /\ peer = [fd \in Fd |-> "nil"]
    /\ pc = "idle" /\ forks = 0 /\ blocked = 0
    /\ seen = [fd \in Fd |-> <<>>] /\ told = [fd \in Fd |-> <<>>]
    /\ orders = 0

Next ==
    \/ \E fd \in Fd : \E n \in 1 .. Len(rest[fd]) : ReceiveData(fd, n)
    \/ DispatchQueue \/ RunForks \/ Unblock
    \/ \E fd \in Fd : Open(fd) \/ Close(fd) \/ Kick(fd)
    \/ \E fd \in Fd, agent \in Agent \cup {"none"} : Forward(fd, agent)

Spec == Init /\ [][Next]_vars

-----------------------------------------------------------------------------
\* Every variable keeps its type.
TypeOK ==
    /\ net \in [Fd -> {"new", "accepted", "started", "gone"}]
    /\ connection \in [Fd -> {"nil", "true", "false"}]
    /\ peer \in [Fd -> Agent \cup {"none", "nil"}]
    /\ client_number \in 0 .. MaxClient
    /\ pc \in {"idle", "start", "loop", "end"} /\ forks \in Nat /\ blocked \in 0 .. MaxBlock

SeenData(fd) == [i \in DOMAIN seen[fd] |-> seen[fd][i].data]

\* However the stream was cut into pieces and whichever handlers block, the
\* packets of a client are handled whole and in the order it sent them.
InOrder == \A fd \in Fd : IsPrefix(SeenData(fd), Packets(fd))

\* When a message is done every packet that has arrived whole was handled:
\* netpack has only the beginning of one.
Kept(u) == IF u.read >= 0 THEN SizeBytes(u.size) \o u.data ELSE u.header

HandledAll ==
    pc = "idle" => \A fd \in Fd : net[fd] # "gone" =>
       Stream(SeenData(fd)) \o Kept(uc[fd]) \o rest[fd] = Stream(Packets(fd))

\* The gate knows the clients gateserver counts, and no others: max_client
\* counts them, and handler.message finds every client it is called for.
SameClients ==
    /\ \A fd \in Fd : connection[fd] = "nil" <=> peer[fd] = "nil"
    /\ client_number = Cardinality({fd \in Fd : connection[fd] # "nil"})

\* A packet is handed on only while its connection is open and the watchdog has
\* been told nothing but its opening.
HandedOn ==
    \A fd \in Fd : seen'[fd] # seen[fd] /\ Last(seen'[fd]).to # "dropped" =>
        connection[fd] = "true" /\ Len(told[fd]) = 1

=============================================================================
