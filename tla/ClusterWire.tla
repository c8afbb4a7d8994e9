---------------------------- MODULE ClusterWire -----------------------------
(***************************************************************************)
(* One connection between two nodes of a cluster: the sender service of    *)
(* one node (cluster_sender.lua over a channel by session), the agent      *)
(* service of the other (cluster_agent.lua), and the packages of           *)
(* lua-cluster.cpp between them.  A large request or response is cut into  *)
(* parts that go over the low priority queue of the socket, so the parts   *)
(* of several messages and small messages mix.  The size word before each  *)
(* package is that of module Netpack.  Trace tags are left out.            *)
(***************************************************************************)
EXTENDS Naturals, Sequences, SequencesExt, FiniteSets

CONSTANTS
    MULTI_PART,     \* size of a part
    Base, Width,    \* an integer is Width digits, the lowest first
    INT32_MAX,      \* the last session
    Requests,       \* what is sent: [addr, msg, push], addr: [name, v]
    MaxBreaks       \* bound on the broken connections

VARIABLES
    session,        \* cluster_sender: the next session
    todo,           \* requests not made yet
    thread,         \* channel.__thread: session -> request
    data,           \* channel.__result_data: session -> parts so far
    result,         \* request -> what its caller was told
    high, low,      \* packages on their way to the agent
    rhigh, rlow,    \* packages on their way back
    large_request,  \* cluster_agent: session -> parts so far
    work,           \* requests the agent waits for
    calls,          \* messages the agent handed to services
    conn            \* connections made

vars == <<session, todo, thread, data, result, high, low, rhigh, rlow,
          large_request, work, calls, conn>>

sending == <<session, todo, thread, result>>

-----------------------------------------------------------------------------
(* The packages.                                                           *)

fill_uint32(n) == [i \in 1..Width |-> (n \div Base^(i - 1)) % Base]

unpack_uint32(b) == FoldRight(LAMBDA d, n : d + Base * n, b, 0)

Number(b, from) == unpack_uint32(SubSeq(b, from, from + Width - 1))

From(b, from) == SubSeq(b, from, Len(b))

Parts(msg) == ((Len(msg) - 1) \div MULTI_PART) + 1

Part(msg, i) ==
    SubSeq(msg, (i - 1) * MULTI_PART + 1,
           IF i < Parts(msg) THEN i * MULTI_PART ELSE Len(msg))

fill_address(a) == IF a.name THEN <<Len(a.v)>> \o a.v ELSE fill_uint32(a.v[1])

\* 0x80: the address is a name; 1: multi request; 0x41: multi push.
Code(a, multi) == (IF a.name THEN 128 ELSE 0) + multi

packreq_multi(s, msg) ==
    [i \in 1..Parts(msg) |->
        <<IF i < Parts(msg) THEN 2 ELSE 3>> \o fill_uint32(s) \o Part(msg, i)]

packrequest(a, s, msg, push) ==
    IF Len(msg) < MULTI_PART
    THEN [head |-> <<Code(a, 0)>> \o fill_address(a)
                     \o fill_uint32(IF push THEN 0 ELSE s) \o msg,
          parts |-> <<>>]
    ELSE [head |-> <<Code(a, IF push THEN 65 ELSE 1)>> \o fill_address(a)
                     \o fill_uint32(s) \o fill_uint32(Len(msg)),
          parts |-> packreq_multi(s, msg)]

NextSession(s) == IF s + 1 > INT32_MAX THEN 1 ELSE s + 1

NoAddress == [name |-> FALSE, v |-> <<>>]

unpackrequest(b) ==
    LET t == b[1]
        name == t >= 128
        addr == IF name THEN [name |-> TRUE, v |-> SubSeq(b, 3, 2 + b[2])]
                ELSE [name |-> FALSE, v |-> <<Number(b, 2)>>]
        at == IF name THEN 3 + b[2] ELSE 2 + Width
        multi == t % 128 \in {1, 65}
        s == Number(b, at)
    IN  IF t \in {2, 3}
        THEN [addr |-> NoAddress, session |-> Number(b, 2), first |-> FALSE, size |-> 0,
              msg |-> From(b, 2 + Width), padding |-> t = 2, push |-> FALSE]
        ELSE [addr |-> addr, session |-> s, first |-> multi, padding |-> multi,
              size |-> IF multi THEN Number(b, at + Width) ELSE 0,
              msg |-> IF multi THEN <<>> ELSE From(b, at + Width),
              push |-> IF multi THEN t % 128 = 65 ELSE s = 0]

packresponse(s, ok, msg) ==
    IF ok /\ Len(msg) > MULTI_PART
    THEN <<fill_uint32(s) \o <<2>> \o fill_uint32(Len(msg))>>
         \o [i \in 1..Parts(msg) |->
                fill_uint32(s) \o <<IF i < Parts(msg) THEN 3 ELSE 4>> \o Part(msg, i)]
    ELSE <<fill_uint32(s) \o <<IF ok THEN 1 ELSE 0>>
           \o (IF Len(msg) > MULTI_PART THEN SubSeq(msg, 1, MULTI_PART) ELSE msg)>>

\* Mutant: the last part announces another one.
MorePartsAlways(t) == t \in {2, 3, 4}

MoreParts(t) == t \in {2, 3}

unpackresponse(b) ==
    LET t == b[Width + 1]
    IN  [session |-> Number(b, 1), ok |-> t # 0, padding |-> MoreParts(t),
         size |-> IF t = 2 THEN Number(b, Width + 2) ELSE 0,
         msg |-> IF t = 2 THEN <<>> ELSE From(b, Width + 2)]

\* Parts collected in a table: the size first.
Collected(size) == [size |-> size, msg |-> <<>>]

append(c, msg) == [c EXCEPT !.msg = @ \o msg]

Complete(c) == Len(c.msg) = c.size

-----------------------------------------------------------------------------
(* cluster_sender: CMD.req and CMD.push.                                   *)

Send(p) ==
    IF p.parts = <<>> THEN high' = Append(high, p.head) /\ UNCHANGED low
    ELSE low' = low \o <<p.head>> \o p.parts /\ UNCHANGED high

SendRequest(i) ==
    LET r == Requests[i]
        p == packrequest(r.addr, session, r.msg, FALSE)
    IN  /\ i \in todo /\ ~r.push
        /\ todo' = todo \ {i}
        /\ session' = NextSession(session)
        /\ thread' = [thread EXCEPT ![session] = i]
        /\ Send(p)
        /\ UNCHANGED <<data, result, rhigh, rlow, large_request, work, calls, conn>>

\* A push takes a session only if it has several parts.
SendPush(i) ==
    LET r == Requests[i]
        p == packrequest(r.addr, session, r.msg, TRUE)
    IN  /\ i \in todo /\ r.push
        /\ todo' = todo \ {i}
        /\ session' = IF p.parts # <<>> THEN NextSession(session) ELSE session
        /\ Send(p)
        /\ UNCHANGED <<thread, data, result, rhigh, rlow, large_request, work, calls, conn>>

-----------------------------------------------------------------------------
(* cluster_agent: dispatch_request.                                        *)

Key(s) == s

HandTo(addr, s, msg, push) ==
    /\ calls' = Append(calls, [addr |-> addr, msg |-> msg, push |-> push])
    /\ work' = IF push THEN work
               ELSE work \cup {[session |-> s, msg |-> msg, conn |-> conn]}
    /\ UNCHANGED <<rhigh, rlow>>

Refuse(s) ==
    /\ rhigh' = rhigh \o packresponse(s, FALSE, <<>>)
    /\ UNCHANGED <<calls, work, rlow>>

\* A first part starts a table, unless there is one; other parts append to it.
DispatchRequest(q) ==
    LET k == Key(q.session)
        old == large_request[k]
        req == IF old = {} THEN [addr |-> q.addr, push |-> q.push,
                                 c |-> Collected(IF q.first THEN q.size ELSE INT32_MAX)]
               ELSE CHOOSE x \in old : TRUE
        c == append(req.c, q.msg)
    IN  IF q.padding
        THEN /\ large_request' = [large_request EXCEPT ![k] = {[req EXCEPT !.c = c]}]
             /\ UNCHANGED <<calls, work, rhigh, rlow>>
        ELSE /\ large_request' = [large_request EXCEPT ![k] = {}]
             /\ IF old = {} THEN HandTo(q.addr, q.session, q.msg, q.push)
                ELSE IF Complete(c) THEN HandTo(req.addr, q.session, c.msg, req.push)
                ELSE Refuse(q.session)

\* The low priority queue is sent when the high priority queue is empty.
Receive ==
    /\ high # <<>> \/ low # <<>>
    /\ IF high # <<>> THEN high' = Tail(high) /\ UNCHANGED low
       ELSE low' = Tail(low) /\ UNCHANGED high
    /\ DispatchRequest(unpackrequest(IF high # <<>> THEN Head(high) ELSE Head(low)))
    /\ UNCHANGED <<sending, data, conn>>

\* The service answers: it returns the message, or the call fails.
Reply(w, ok) ==
    LET p == packresponse(w.session, ok, w.msg)
    IN  /\ work' = work \ {w}
        /\ IF w.conn # conn THEN UNCHANGED <<rhigh, rlow>>
           ELSE IF Len(p) > 1 THEN rlow' = rlow \o p /\ UNCHANGED rhigh
           ELSE rhigh' = rhigh \o p /\ UNCHANGED rlow
        /\ UNCHANGED <<sending, data, high, low, large_request, calls, conn>>

-----------------------------------------------------------------------------
(* dispatch_by_session of the channel, and CMD.req after its wait.         *)

Told(i, ok, msg) == result' = [result EXCEPT ![i] = [ok |-> ok, msg |-> msg]]

DispatchResponse(r) ==
    LET s == r.session
        c == append(data[s], r.msg)
    IN  IF thread[s] = 0 THEN UNCHANGED <<thread, data, result>>
        ELSE IF r.padding
        THEN /\ data' = [data EXCEPT ![s] = IF r.size > 0 THEN Collected(r.size) ELSE c]
             /\ UNCHANGED <<thread, result>>
        ELSE /\ thread' = [thread EXCEPT ![s] = 0]
             /\ data' = [data EXCEPT ![s] = Collected(0)]
             /\ Told(thread[s], r.ok /\ (data[s].size = 0 \/ Complete(c)),
                     IF r.ok /\ data[s].size > 0 THEN c.msg ELSE r.msg)

ReadResponse ==
    /\ rhigh # <<>> \/ rlow # <<>>
    /\ IF rhigh # <<>> THEN rhigh' = Tail(rhigh) /\ UNCHANGED rlow
       ELSE rlow' = Tail(rlow) /\ UNCHANGED rhigh
    /\ DispatchResponse(unpackresponse(IF rhigh # <<>> THEN Head(rhigh) ELSE Head(rlow)))
    /\ UNCHANGED <<session, todo, high, low, large_request, work, calls, conn>>

\* The connection breaks: every request in flight fails (wakeup_all), the agent
\* exits, and the next connection has an agent of its own.
Break ==
    /\ conn < MaxBreaks /\ conn' = conn + 1
    /\ result' = [i \in DOMAIN Requests |->
                    IF \E s \in DOMAIN thread : thread[s] = i
                    THEN [ok |-> FALSE, msg |-> <<>>] ELSE result[i]]
    /\ thread' = [s \in DOMAIN thread |-> 0]
    /\ data' = [s \in DOMAIN data |-> Collected(0)]
    /\ high' = <<>> /\ low' = <<>> /\ rhigh' = <<>> /\ rlow' = <<>>
    /\ large_request' = [s \in DOMAIN large_request |-> {}]
    /\ UNCHANGED <<session, todo, work, calls>>

-----------------------------------------------------------------------------
Untold == [ok |-> FALSE, msg |-> <<Base>>]

Init ==
    /\ session \in {1, INT32_MAX}
    /\ todo = DOMAIN Requests
    /\ thread = [s \in 0..INT32_MAX |-> 0]
    /\ data = [s \in 0..INT32_MAX |-> Collected(0)]
    /\ result = [i \in DOMAIN Requests |-> Untold]
    /\ high = <<>> /\ low = <<>> /\ rhigh = <<>> /\ rlow = <<>>
    /\ large_request = [s \in 0..INT32_MAX |-> {}]
    /\ work = {} /\ calls = <<>> /\ conn = 0

Next ==
    \/ \E i \in DOMAIN Requests : SendRequest(i) \/ SendPush(i)
    \/ Receive \/ ReadResponse \/ Break
    \/ \E w \in work, ok \in BOOLEAN : Reply(w, ok)

Spec == Init /\ [][Next]_vars

-----------------------------------------------------------------------------
\* Every variable keeps its type; no request waits under session 0, that of a push.
TypeOK ==
    /\ session \in 1..INT32_MAX /\ thread[0] = 0
    /\ \A s \in 0..INT32_MAX : thread[s] \in 0..Len(Requests)

\* cluster.call and cluster.send: the services of the other node get the
\* messages that were sent to them, whole, each once, however the parts mixed.
MessagesWhole ==
    \A i \in DOMAIN calls :
        /\ calls[i] \in Range(Requests)
        /\ \A j \in DOMAIN calls : calls[j] = calls[i] => i = j

\* A caller is told the response to its own message, whole, or that the call
\* failed; never part of a response, over a broken connection too.
OwnResponse ==
    \A i \in DOMAIN Requests : result[i].ok => result[i].msg = Requests[i].msg

\* Nobody waits for ever: when nothing is on its way, every request that was
\* made has been told, and without a broken connection every push has arrived.
AllTold ==
    high = <<>> /\ low = <<>> /\ rhigh = <<>> /\ rlow = <<>> /\ work = {} =>
        \A i \in DOMAIN Requests \ todo :
            IF Requests[i].push THEN conn > 0 \/ Requests[i] \in Range(calls)
            ELSE result[i] # Untold
=============================================================================
