---------------------------- MODULE RedisCluster ----------------------------
(***************************************************************************)
(* The client of a redis cluster (lualib/skynet/db/redis/cluster.lua):     *)
(* commands are sent to the node that the cached map gives for the slot of *)
(* the key, and follow MOVED and ASK answers; coroutines of the service    *)
(* share one connection to each node, whose requests are answered in       *)
(* order.  The nodes are external: one key in each slot, which moves to    *)
(* another node while the slot migrates; they may answer with an error of  *)
(* their own at any time.  opt.read_slave, which is off unless asked for,  *)
(* is left out.                                                            *)
(***************************************************************************)
EXTENDS Integers, Sequences, FiniteSets, SequencesExt

CONSTANTS
    Caller,         \* coroutines that call commands
    Node,           \* nodes of the cluster, all of them startup nodes
    Slot,           \* slots with a key that is used
    RequestTTL,     \* RedisClusterRequestTTL
    MaxCalls,       \* bound on the calls
    MaxMoves,       \* bound on the migrations
    MaxDown         \* bound on the failures of nodes

VARIABLES
    owner,          \* nodes: the owner of each slot
    target,         \* nodes: the node a slot migrates to, NoNode
    moved,          \* nodes: slots whose key has moved to the target
    flag,           \* nodes: who has sent ASKING since the last command
    pending,        \* nodes: requests [caller, cmd] sent and not answered
    down,           \* nodes that cannot be reached
    slots,          \* client: the cached map
    nodes,          \* client: the nodes of the cached map
    refresh,        \* client: refresh_table_asap
    connections,    \* client: nodes with a connection object, broken or not
    call,           \* caller: [pc, slot, ttl, asking, random, conn, reply, to], and
                    \* how often another command has used its ASKING up, robbed
    count           \* [calls, moves, downs]: what the bounds count

servers == <<owner, target, moved>>
client == <<slots, nodes, refresh, connections>>
vars == <<servers, flag, pending, down, client, call, count>>

NoNode == "none"

Idle == [pc |-> "idle", slot |-> CHOOSE s \in Slot : TRUE, ttl |-> 0, asking |-> NoNode,
         random |-> FALSE, conn |-> NoNode, reply |-> "", to |-> NoNode, robbed |-> 0]

-----------------------------------------------------------------------------
(* The nodes.                                                              *)

Migrate(s, n) ==
    /\ count.moves < MaxMoves /\ target[s] = NoNode /\ n # owner[s]
    /\ target' = [target EXCEPT ![s] = n]
    /\ count' = [count EXCEPT !.moves = @ + 1]
    /\ UNCHANGED <<owner, moved, flag, pending, down, client, call>>

MoveKey(s) ==
    /\ target[s] # NoNode /\ s \notin moved
    /\ moved' = moved \cup {s}
    /\ UNCHANGED <<owner, target, flag, pending, down, client, call, count>>

EndMigration(s) ==
    /\ s \in moved
    /\ owner' = [owner EXCEPT ![s] = target[s]]
    /\ target' = [target EXCEPT ![s] = NoNode] /\ moved' = moved \ {s}
    /\ UNCHANGED <<flag, pending, down, client, call, count>>

\* The answer of node n to a command on slot s.
Reply(n, s) ==
    IF owner[s] = n /\ s \notin moved THEN <<"ok", n>>
    ELSE IF owner[s] = n THEN <<"ASK", target[s]>>
    ELSE IF target[s] = n /\ flag[n] # {} THEN <<"ok", n>>
    ELSE <<"MOVED", owner[s]>>

\* A node answers the first request of the connection; the first command after
\* ASKING uses it up, whoever sent it.
Serve(n) ==
    LET q == Head(pending[n])
        asking == q.cmd = "ASKING"
        a == IF asking THEN <<"ok", n>> ELSE Reply(n, call[q.caller].slot)
        others == IF asking THEN {} ELSE flag[n] \ {q.caller}
    IN  /\ pending[n] # <<>> /\ n \notin down
        /\ pending' = [pending EXCEPT ![n] = Tail(@)]
        /\ flag' = [flag EXCEPT ![n] = IF asking THEN @ \cup {q.caller} ELSE {}]
        /\ \E e \in {a, <<"error", n>>} :
              call' = [c \in Caller |->
                         IF c = q.caller THEN [call[c] EXCEPT !.reply = e[1], !.to = e[2]]
                         ELSE [call[c] EXCEPT !.robbed = IF c \in others THEN @ + 1 ELSE @]]
        /\ UNCHANGED <<servers, down, client, count>>

\* wakeup_all of the channel (SocketChannel has it in full).
Told(n) == {pending[n][i].caller : i \in DOMAIN pending[n]}

\* The node fails: its connection raises socket_error in all who wait for it.
Fail(n) ==
    /\ count.downs < MaxDown /\ n \notin down
    /\ down' = down \cup {n}
    /\ flag' = [flag EXCEPT ![n] = {}]
    /\ pending' = [pending EXCEPT ![n] = <<>>]
    /\ call' = [c \in Caller |-> IF c \in Told(n) THEN [call[c] EXCEPT !.reply = "socket"] ELSE call[c]]
    /\ count' = [count EXCEPT !.downs = @ + 1]
    /\ UNCHANGED <<servers, client>>

Recover(n) ==
    /\ n \in down
    /\ down' = down \ {n}
    /\ UNCHANGED <<servers, flag, pending, client, call, count>>

-----------------------------------------------------------------------------
(* rediscluster:call                                                       *)

Begin(c, s) ==
    /\ call[c].pc \in {"idle", "done"} /\ count.calls < MaxCalls
    /\ count' = [count EXCEPT !.calls = @ + 1]
    /\ call' = [call EXCEPT ![c] = [Idle EXCEPT !.pc = IF refresh THEN "refresh" ELSE "try",
                                                !.slot = s, !.ttl = RequestTTL]]
    /\ IF refresh
       THEN slots' = [x \in Slot |-> NoNode] /\ nodes' = {}
       ELSE UNCHANGED <<slots, nodes>>
    /\ UNCHANGED <<servers, flag, pending, down, refresh, connections>>

\* initialize_slots_cache: the answer of the first startup node that answers.
Refreshed(c) ==
    /\ call[c].pc = "refresh"
    /\ call' = [call EXCEPT ![c].pc = "try"]
    /\ IF down = Node
       THEN UNCHANGED client
       ELSE /\ slots' = owner /\ nodes' = {owner[s] : s \in Slot} /\ refresh' = FALSE
            /\ \E n \in Node \ down : connections' = connections \cup {n}
    /\ UNCHANGED <<servers, flag, pending, down, count>>

End(c, result) == call' = [call EXCEPT ![c].pc = "done", ![c].reply = result]

\* get_connection: a connection that is there, or a node that can be reached.
Linkable == connections \cup (Node \ down)

\* get_connection of asking, get_connection_by_slot, and get_random_connection,
\* which tries PING first: the nodes the call may get a connection to.
Links(k) ==
    IF k.asking # NoNode THEN {k.asking} \cap Linkable
    ELSE IF ~k.random /\ slots[k.slot] \in Linkable THEN {slots[k.slot]}
    ELSE nodes \ down

\* A request on the connection to n: sent, or the node cannot be reached again.
Sent(c, n, cmd) ==
    IF n \in down THEN UNCHANGED pending
    ELSE pending' = [pending EXCEPT ![n] = Append(@, [caller |-> c, cmd |-> cmd])]

SentReply(n) == IF n \in down THEN "socket" ELSE ""

\* One turn of the loop, up to the first request.
Try(c) ==
    LET k == call[c]
        ask == k.asking # NoNode
    IN  /\ k.pc = "try"
        /\ \/ /\ k.ttl = 0
              /\ End(c, "toomany") /\ UNCHANGED <<pending, connections>>
           \/ /\ k.ttl > 0 /\ Links(k) = {}
              /\ End(c, IF ask THEN "refused" ELSE "unreachable")
              /\ UNCHANGED <<pending, connections>>
           \/ /\ k.ttl > 0
              /\ \E n \in Links(k) :
                    /\ Sent(c, n, IF ask THEN "ASKING" ELSE "cmd")
                    /\ connections' = connections \cup {n}
                    /\ call' = [call EXCEPT ![c].pc = IF ask THEN "asking" ELSE "wait",
                                            ![c].ttl = @ - 1, ![c].conn = n,
                                            ![c].reply = SentReply(n),
                                            ![c].random = k.random /\ ask]
        /\ UNCHANGED <<servers, flag, down, slots, nodes, refresh, count>>

\* ASKING is answered: the command follows on the same connection.
Asked(c) ==
    /\ call[c].pc = "asking" /\ call[c].reply = "ok"
    /\ call' = [call EXCEPT ![c].pc = "wait", ![c].asking = NoNode,
                            ![c].reply = SentReply(call[c].conn)]
    /\ Sent(c, call[c].conn, "cmd")
    /\ UNCHANGED <<servers, flag, down, client, count>>

Remaps(reply) == reply = "MOVED"

Asks(reply) == reply = "ASK"

\* The command is answered, or its connection broke; an error that is no
\* redirection is raised again.
Answered(c) ==
    LET k == call[c]
    IN  /\ k.pc = "wait" \/ (k.pc = "asking" /\ k.reply \in {"socket", "error"})
        /\ k.reply # ""
        /\ slots' = IF Remaps(k.reply) THEN [slots EXCEPT ![k.slot] = k.to] ELSE slots
        /\ refresh' = (refresh \/ k.reply = "MOVED")
        /\ call' = [call EXCEPT ![c] =
                      IF k.reply \in {"ok", "error"} THEN [k EXCEPT !.pc = "done", !.conn = k.to]
                      ELSE [k EXCEPT !.pc = "try", !.random = k.random \/ k.reply = "socket",
                                     !.asking = IF Asks(k.reply) THEN k.to ELSE k.asking]]
        /\ UNCHANGED <<servers, flag, pending, down, nodes, connections, count>>

-----------------------------------------------------------------------------
Init ==
    /\ owner \in [Slot -> Node]
    /\ target = [s \in Slot |-> NoNode] /\ moved = {}
    /\ flag = [n \in Node |-> {}] /\ down = {} /\ pending = [n \in Node |-> <<>>]
    /\ slots = owner /\ nodes = {owner[s] : s \in Slot} /\ refresh = FALSE
    /\ connections = {}
    /\ call = [c \in Caller |-> Idle]
    /\ count = [calls |-> 0, moves |-> 0, downs |-> 0]

Next ==
    \/ \E s \in Slot : MoveKey(s) \/ EndMigration(s) \/ \E n \in Node : Migrate(s, n)
    \/ \E n \in Node : Serve(n) \/ Fail(n) \/ Recover(n)
    \/ \E c \in Caller : \/ \E s \in Slot : Begin(c, s)
                         \/ Refreshed(c) \/ Try(c) \/ Asked(c) \/ Answered(c)

Spec == Init /\ [][Next]_vars

-----------------------------------------------------------------------------
\* Every variable keeps its type.
TypeOK ==
    /\ owner \in [Slot -> Node] /\ slots \in [Slot -> Node \cup {NoNode}]
    /\ nodes \cup connections \subseteq Node /\ refresh \in BOOLEAN
    /\ \A c \in Caller : call[c].ttl \in 0 .. RequestTTL
    /\ \A n \in Node : \A c \in Caller :
          Cardinality({i \in DOMAIN pending[n] : pending[n][i].caller = c}) <= 1

\* A call is waiting for exactly the requests it has sent: no answer is taken by
\* another coroutine, none is waited for that will not come.
WaitsForOwn ==
    \A c \in Caller :
        LET waits == call[c].pc \in {"asking", "wait"} /\ call[c].reply = ""
        IN  waits <=> \E n \in Node : \E i \in DOMAIN pending[n] : pending[n][i].caller = c

\* A call ends with too many redirections only when a node failed, or when slots
\* moved and other coroutines of the service used its ASKING up often enough:
\* each migration, and each such command, costs a call two turns at most.
TooManyEarned ==
    \A c \in Caller : (call[c].pc = "done" /\ call[c].reply = "toomany") =>
        count.downs > 0 \/ 2 * (count.moves + call[c].robbed) + 2 > RequestTTL

=============================================================================
