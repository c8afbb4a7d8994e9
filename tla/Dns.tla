-------------------------------- MODULE Dns ---------------------------------
(***************************************************************************)
(* The DNS client (lualib/skynet/dns.lua): coroutines of one service that  *)
(* resolve names through one UDP socket, matched to answers by transaction *)
(* id, with a timeout each, a cache whose tables are weak, and a timer     *)
(* that closes the socket when it has not been used.  Datagrams are lost,  *)
(* delayed and repeated.  A step runs a coroutine to its next wait; timers *)
(* are handled in the order they expire.                                   *)
(***************************************************************************)
EXTENDS Integers, Sequences, FiniteSets

CONSTANTS
    Query,          \* coroutines that call dns.resolve
    Name,           \* host names
    Hosts,          \* names and types the local table has addresses for
    Type,           \* QTYPE.A, QTYPE.AAAA
    MaxTid,         \* the largest transaction id (65535)
    TIMEOUT, DNS_SERVER_RETIRE,
    TTL,            \* life times of answers
    MaxNow          \* bound on time

VARIABLES
    now,            \* skynet.now()
    pc,             \* pc[q]: idle, wait or done
    key,            \* what a query asks for: name and type
    tid,            \* its transaction id while it waits
    result,         \* what it returned: name and type of the answers' records, <<>> for an error
    request_pool,   \* request_pool[t]: the query of a transaction id, 0 for none
    next_tid,
    cache,          \* CACHE: the name and type of the records, the time they expire
    asked,          \* queries the server has got on the open socket
    open, retire,   \* dns_server.fd is set; dns_server.retire
    check,          \* when check_alive runs, -1 for never
    timers          \* the forked coroutines of suspend: transaction id and time

vars == <<now, pc, key, tid, result, request_pool, next_tid, cache, asked, open, retire, check, timers>>

Tid == 1 .. MaxTid
Key == Name \X Type

gen_tid(free) ==
    IF next_tid \in free THEN next_tid ELSE CHOOSE t \in free : \A u \in free : t <= u

None == [of |-> <<>>, ttl |-> -1]

Fresh(k) == cache[k].ttl > now

-----------------------------------------------------------------------------
\* Queries are numbered in the order they start.
Starts(q) == pc[q] = "idle" /\ \A p \in Query : p < q => pc[p] # "idle"

Return(q, r) == pc' = [pc EXCEPT ![q] = "done"] /\ result' = [result EXCEPT ![q] = r]

\* resolve of a name with an address of the family in the local table, or with a fresh
\* entry in the cache.
ResolveHere(q, k) ==
    /\ Starts(q)
    /\ k \in Hosts \/ Fresh(k)
    /\ Return(q, IF k \in Hosts THEN k ELSE cache[k].of)
    /\ key' = [key EXCEPT ![q] = k]
    /\ UNCHANGED <<now, tid, request_pool, next_tid, cache, asked, open, retire, check, timers>>

\* remote_resolve: a free transaction id, the socket opened when there is none (fails
\* when ok is false), the datagram sent, and suspend.
remote_resolve(q, k, ok) ==
    LET free == {t \in Tid : request_pool[t] = 0}
        t == gen_tid(free)
    IN  /\ Starts(q)
        /\ k \notin Hosts /\ ~Fresh(k)
        /\ key' = [key EXCEPT ![q] = k]
        /\ IF free = {}
           THEN Return(q, <<>>) /\ UNCHANGED <<next_tid, retire, open, check, tid, request_pool, asked, timers>>
           ELSE /\ next_tid' = (IF t + 1 > MaxTid THEN 1 ELSE t + 1)
                /\ retire' = now
                /\ IF open \/ ok
                   THEN /\ open' = TRUE
                        /\ check' = (IF open THEN check ELSE now + 2 * DNS_SERVER_RETIRE)
                        /\ tid' = [tid EXCEPT ![q] = t]
                        /\ request_pool' = [request_pool EXCEPT ![t] = q]
                        /\ asked' = asked \cup {[tid |-> t, key |-> k]}
                        /\ timers' = timers \cup {[tid |-> t, at |-> now + TIMEOUT]}
                        /\ pc' = [pc EXCEPT ![q] = "wait"]
                        /\ UNCHANGED result
                   ELSE Return(q, <<>>) /\ UNCHANGED <<open, check, tid, request_pool, asked, timers>>
        /\ UNCHANGED <<now, cache>>

\* The coroutine of transaction t is woken and suspend returns: its answers, if it was
\* given any, or those of the cache c although they may have expired.
Woken(t, c, answers) ==
    LET q == request_pool[t]
    IN  /\ request_pool' = [request_pool EXCEPT ![t] = 0]
        /\ tid' = [tid EXCEPT ![q] = 0]
        /\ Return(q, IF answers # <<>> THEN answers ELSE c[key[q]].of)

\* CACHE[resp.qtype][resp.name]
AnswersOf(t, k, c) == c[key[request_pool[t]]].of

\* resolve(content): the answer to a query, for the types it has records of, with a
\* life time; gc is what the collector takes from the cache meanwhile.
Receive(a, types, ttl, gc) ==
    LET t == a.tid
        stored == [k \in Key |-> CASE k \in gc -> None
                                   [] k \notin gc /\ k[1] = a.key[1] /\ k[2] \in types -> [of |-> k, ttl |-> now + ttl]
                                   [] OTHER -> cache[k]]
    IN  /\ open /\ a \in asked
        /\ cache' = stored
        /\ IF request_pool[t] = 0 THEN UNCHANGED <<pc, result, request_pool, tid>>
           ELSE Woken(t, stored, AnswersOf(t, a.key, stored))
        /\ UNCHANGED <<now, key, next_tid, asked, open, retire, check, timers>>

\* The forked coroutine of suspend: whoever has the id now is cancelled.
Timeout(m) ==
    /\ m \in timers /\ m.at <= now
    /\ timers' = timers \ {m}
    /\ IF request_pool[m.tid] = 0 THEN UNCHANGED <<pc, result, request_pool, tid>>
       ELSE Woken(m.tid, cache, <<>>)
    /\ UNCHANGED <<now, key, next_tid, cache, asked, open, retire, check>>

\* skynet.now() > dns_server.retire + DNS_SERVER_RETIRE
Unused == now > retire + DNS_SERVER_RETIRE

check_alive ==
    /\ check >= 0 /\ check <= now /\ \A m \in timers : m.at > now
    /\ IF Unused
       THEN open' = FALSE /\ asked' = {} /\ check' = -1
       ELSE check' = now + 2 * DNS_SERVER_RETIRE /\ UNCHANGED <<open, asked>>
    /\ UNCHANGED <<now, pc, key, tid, result, request_pool, next_tid, cache, retire, timers>>

\* dns.flush, and what the collector takes from the weak tables.
Collect(ks) ==
    /\ ks # {} /\ \E k \in ks : cache[k] # None
    /\ cache' = [k \in Key |-> IF k \in ks THEN None ELSE cache[k]]
    /\ UNCHANGED <<now, pc, key, tid, result, request_pool, next_tid, asked, open, retire, check, timers>>

Tick ==
    /\ now < MaxNow
    /\ \A m \in timers : m.at > now
    /\ check < 0 \/ check > now
    /\ now' = now + 1
    /\ UNCHANGED <<pc, key, tid, result, request_pool, next_tid, cache, asked, open, retire, check, timers>>

Init ==
    /\ now = 0
    /\ pc = [q \in Query |-> "idle"]
    /\ key = [q \in Query |-> <<>>]
    /\ tid = [q \in Query |-> 0]
    /\ result = [q \in Query |-> <<>>]
    /\ request_pool = [t \in Tid |-> 0]
    /\ next_tid = 1
    /\ cache = [k \in Key |-> None]
    /\ asked = {}
    /\ open = FALSE /\ retire = 0 /\ check = -1
    /\ timers = {}

Next ==
    \/ \E q \in Query, k \in Key : ResolveHere(q, k) \/ \E ok \in BOOLEAN : remote_resolve(q, k, ok)
    \/ \E a \in asked, types \in SUBSET Type, ttl \in TTL, gc \in {{}, Key} : Receive(a, types, ttl, gc)
    \/ \E m \in timers : Timeout(m)
    \/ check_alive
    \/ Collect(Key)
    \/ Tick

Spec == Init /\ [][Next]_vars

-----------------------------------------------------------------------------
\* Every variable keeps its type.
TypeOK ==
    /\ pc \in [Query -> {"idle", "wait", "done"}]
    /\ tid \in [Query -> 0 .. MaxTid] /\ next_tid \in Tid
    /\ request_pool \in [Tid -> Query \cup {0}]
    /\ \A k \in Key : cache[k].of \in Key \cup {<<>>}
    /\ open \in BOOLEAN /\ check \in Int

\* A coroutine that waits for an answer is the one the pool has under its transaction
\* id, and a timer will wake it: however ids are used again, nobody waits for ever.
NobodyForgotten ==
    \A q \in Query : pc[q] = "wait" =>
        /\ request_pool[tid[q]] = q
        /\ \E m \in timers : m.tid = tid[q]

\* The socket is not closed while somebody waits for an answer on it.
OpenWhileWaiting == (\E q \in Query : pc[q] = "wait") => open

\* A query is given answers for its own name and type, although a late answer to an
\* earlier query may carry its transaction id.
OwnName == \A q \in Query : pc[q] = "done" /\ result[q] # <<>> => result[q] = key[q]
=============================================================================
