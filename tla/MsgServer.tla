------------------------------ MODULE MsgServer -----------------------------
(***************************************************************************)
(* The message server (lualib/snax/msgserver.lua): a user logs in, opens   *)
(* connections one after the other or side by side, proves on each an      *)
(* index not used before, and sends requests by session; a request sent    *)
(* again after a reconnect is answered from the cache of responses.  A     *)
(* request's coroutine waits in the request handler while everything else  *)
(* goes on.  One user name; a login makes a new user object.               *)
(***************************************************************************)
EXTENDS Integers, Sequences, FiniteSets, FiniteSetsExt

CONSTANTS
    MaxLogin,       \* bound on logins
    MaxFd,          \* bound on connections
    Session,        \* session ids of requests
    expired_number, \* number of responses kept
    MaxRequest      \* bound on executed requests

VARIABLES
    online,         \* user_online: the current user object, 0 for none
    user,           \* the user objects, in order of login
    gate,           \* gate[fd]: idle, open, closing (closeclient) or gone
    handshake,      \* connections that have not sent their first package
    connection,     \* connection[fd]: the user object, 0 for none
    p,              \* the responses: user, session, fd, result, version, index; and, as
                    \* history, the last fd that asked, where it was sent, how many
                    \* answers had been made by then, and a conflict of its session
    done            \* done[u]: number of answers made for user object u

vars == <<online, user, gate, handshake, connection, p, done>>

Fd == 1 .. MaxFd
NoUser == [version |-> 0, index |-> 0, fd |-> 0, response |-> [s \in Session |-> 0]]

Init ==
    /\ online = 0 /\ user = <<>>
    /\ gate = [f \in Fd |-> "idle"]
    /\ handshake = {}
    /\ connection = [f \in Fd |-> 0]
    /\ p = <<>> /\ done = <<>>

-----------------------------------------------------------------------------
login ==
    /\ online = 0 /\ Len(user) < MaxLogin
    /\ user' = Append(user, NoUser)
    /\ online' = Len(user) + 1
    /\ done' = Append(done, 0)
    /\ UNCHANGED <<gate, handshake, connection, p>>

closeclient(f) == gate' = (IF f # 0 /\ gate[f] = "open" THEN [gate EXCEPT ![f] = "closing"] ELSE gate)

logout ==
    LET f == user[online].fd
    IN  /\ online # 0
        /\ online' = 0
        /\ closeclient(f)
        /\ connection' = (IF f # 0 THEN [connection EXCEPT ![f] = 0] ELSE connection)
        /\ UNCHANGED <<user, handshake, p, done>>

\* handler.connect; socket ids are not used again.
connect(f) ==
    /\ gate[f] = "idle" /\ \A g \in 1 .. f - 1 : gate[g] # "idle"
    /\ gate' = [gate EXCEPT ![f] = "open"]
    /\ handshake' = handshake \cup {f}
    /\ UNCHANGED <<online, user, connection, p, done>>

\* The close or error event of the gate, whoever closed the connection.
disconnect(f) ==
    LET u == connection[f]
    IN  /\ gate[f] \in {"open", "closing"}
        /\ gate' = [gate EXCEPT ![f] = "gone"]
        /\ handshake' = handshake \ {f}
        /\ connection' = [connection EXCEPT ![f] = 0]
        /\ user' = (IF u # 0 THEN [user EXCEPT ![u].fd = 0] ELSE user)
        /\ UNCHANGED <<online, p, done>>

\* idx <= u.version
IndexExpired(u, idx) == idx <= user[u].version

\* The first package: do_auth, "200 OK" or the end of the connection.  good: the index
\* is a number and the hmac matches.
auth(f, idx, good) ==
    LET ok == online # 0 /\ good /\ ~IndexExpired(online, idx)
    IN  /\ gate[f] = "open" /\ f \in handshake
        /\ handshake' = handshake \ {f}
        /\ IF ok
           THEN /\ user' = [user EXCEPT ![online].version = idx, ![online].fd = f]
                /\ connection' = [connection EXCEPT ![f] = online]
                /\ UNCHANGED gate
           ELSE closeclient(f) /\ UNCHANGED <<user, connection>>
        /\ UNCHANGED <<online, p, done>>

-----------------------------------------------------------------------------
(* Requests. *)

\* p[4] < expired_number is retired.
Kept(i) == i >= expired_number

\* retire_response on the responses q of user u whose object is w.
Retired(q, w) ==
    LET mine == {k \in DOMAIN q : \E s \in Session : w.response[s] = k /\ q[k].fd = 0}
        gone == {k \in mine : ~Kept(q[k].index)}
        left == {q[k].index - expired_number : k \in mine \ gone}
    IN  IF w.index < expired_number * 2 THEN [p |-> q, w |-> w]
        ELSE [p |-> [k \in DOMAIN q |-> IF k \in mine \ gone
                                        THEN [q[k] EXCEPT !.index = @ - expired_number] ELSE q[k]],
              w |-> [w EXCEPT !.index = Max(left \cup {0}) + 1,
                              !.response = [s \in Session |-> IF @[s] \in gone THEN 0 ELSE @[s]]]]

\* The end of do_request for response k of user u in the state q, w.
Sent(k, u, q, w) ==
    LET f == q[k].fd
        to == IF f # 0 /\ connection[f] # 0 THEN f ELSE 0
        r == Retired([q EXCEPT ![k].fd = 0, ![k].to = to, ![k].nth = done[u] + 1],
                     [w EXCEPT !.index = @ + 1])
    IN  /\ p' = r.p
        /\ user' = [user EXCEPT ![u] = r.w]
        /\ done' = [done EXCEPT ![u] = @ + 1]

\* Mutant: a request sent again is answered on the connection of the first one.
ReturnFdFirst(k, f) == p[k].fd

\* p[1] = fd
ReturnFd(k, f) == f

\* do_request of a session whose response is there and of another connection: sent
\* again, or sent when it is ready.
Again(f, u, k) ==
    LET q == [p EXCEPT ![k].fd = ReturnFd(k, f), ![k].last = f,
                       ![k].version = user[u].version, ![k].index = user[u].index]
    IN  IF p[k].result
        THEN Sent(k, u, q, user[u]) /\ UNCHANGED gate
        ELSE p' = q /\ UNCHANGED <<user, done, gate>>

\* do_request of a new session, up to the wait in the request handler.
Execute(f, u, s) ==
    /\ Len(p) < MaxRequest
    /\ p' = Append(p, [user |-> u, session |-> s, fd |-> f, result |-> FALSE, version |-> 0,
                       index |-> 0, last |-> f, to |-> 0, nth |-> 0, dropped |-> FALSE])
    /\ user' = [user EXCEPT ![u].response[s] = Len(p) + 1]
    /\ UNCHANGED <<done, gate>>

\* Another package: do_request; an error closes the connection.
request(f, s) ==
    LET u == connection[f]
        k == user[u].response[s]
        reused == k # 0 /\ p[k].version = user[u].version
    IN  /\ gate[f] = "open" /\ f \notin handshake
        /\ IF u = 0 THEN UNCHANGED <<user, p, done, gate>>
           ELSE IF reused /\ ~p[k].result
           THEN /\ user' = [user EXCEPT ![u].response[s] = 0]
                /\ p' = [p EXCEPT ![k].dropped = TRUE]
                /\ closeclient(f)
                /\ UNCHANGED done
           ELSE IF k = 0 \/ reused THEN Execute(f, u, s) ELSE Again(f, u, k)
        /\ UNCHANGED <<online, handshake, connection>>

\* The request handler returns or raises: do_request goes on in a state that may have
\* changed.
Handled(k) ==
    LET u == p[k].user
    IN  /\ ~p[k].result
        /\ Sent(k, u, [p EXCEPT ![k].result = TRUE, ![k].version = user[u].version,
                                ![k].index = user[u].index], user[u])
        /\ UNCHANGED <<online, gate, handshake, connection>>

Next ==
    \/ login \/ logout
    \/ \E f \in Fd : connect(f) \/ disconnect(f)
    \/ \E f \in Fd, idx \in 1 .. MaxFd, good \in BOOLEAN : auth(f, idx, good)
    \/ \E f \in Fd, s \in Session : request(f, s)
    \/ \E k \in DOMAIN p : Handled(k)

Spec == Init /\ [][Next]_vars

-----------------------------------------------------------------------------
\* Every variable keeps its type.
TypeOK ==
    /\ online \in 0 .. Len(user) /\ Len(user) <= MaxLogin /\ Len(done) = Len(user)
    /\ gate \in [Fd -> {"idle", "open", "closing", "gone"}]
    /\ handshake \subseteq Fd
    /\ connection \in [Fd -> 0 .. Len(user)]
    /\ \A k \in DOMAIN p : p[k].fd \in 0 .. MaxFd /\ p[k].index \in Nat
    /\ \A u \in DOMAIN user : /\ user[u].index \in 0 .. 2 * expired_number
                              /\ user[u].response \in [Session -> 0 .. Len(p)]

\* A response that has been made stays in the cache, for a client that reconnects and
\* asks again, until expired_number other answers have been made for the user; only a new
\* request with the same session takes its place, or a conflict of sessions (the same
\* one asked for a third time on a connection before its answer) drops it.
RecentKept ==
    \A k \in DOMAIN p :
        LET u == p[k].user IN
            p[k].result /\ ~p[k].dropped /\ done[u] - p[k].nth < expired_number =>
                \/ user[u].response[p[k].session] = k
                \/ \E j \in k + 1 .. Len(p) : p[j].user = u /\ p[j].session = p[k].session

\* An answer goes to the connection that asked for it last, whatever reconnects there
\* were while the request was handled, unless that connection has gone.
ToLastAsker ==
    \A k \in DOMAIN p : p[k].result => \/ p[k].to = p[k].last
                                       \/ connection[p[k].last] = 0

\* A package that proves an index opens one connection only: there are no more
\* connections of a user object than indices it has been given.
IndexOnce ==
    \A u \in DOMAIN user : Cardinality({f \in Fd : connection[f] = u}) <= user[u].version
=============================================================================
