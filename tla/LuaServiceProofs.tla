-------------------------- MODULE LuaServiceProofs --------------------------
(***************************************************************************)
(* Proofs about LuaService: every coroutine that waits is found in one     *)
(* place, the critical section has one owner, a request gets one answer    *)
(* and is not lost, for any number of coroutines, sessions and requests.   *)
(*                                                                         *)
(* The tables the scheduler finds coroutines by are passed to the parts of *)
(* the invariant as                                                        *)
(*   a  at                    f  fork_queue      e  error_queue            *)
(*   m  session_thread_map    w  watching_session_map                      *)
(*   z  sleep_session_map     p  thread_pool     n  session                *)
(***************************************************************************)
EXTENDS LuaService, TLAPS

Waiting == {"ready", "call", "sleep", "wait", "queue"}
Asleep == {"sleep", "wait", "queue"}

Types(a, m, z, w, f, e, p, n) ==
    /\ a \in [Thread -> Waiting \cup {"none", "pool", "run", "dead"}]
    /\ m \in [Session -> Thread \cup {None, Break}]
    /\ z \in [Thread -> Session \cup {None}]
    /\ w \in [Session -> Peer \cup {None}]
    /\ f \in Seq(Thread \cup {0}) /\ e \in Seq(Session) /\ p \in Seq(Thread)
    /\ n \in Nat

\* A coroutine that waits is under one session, or once in the fork queue.
Homes(a, m, f) ==
    /\ \A s \in Session : m[s] \in Thread => a[m[s]] \in Waiting
    /\ \A s, u \in Session : m[s] = m[u] /\ m[s] \in Thread => s = u
    /\ \A i \in 1 .. Len(f) : f[i] # 0 => a[f[i]] = "ready" /\ \A s \in Session : m[s] # f[i]
    /\ \A i, j \in 1 .. Len(f) : f[i] = f[j] /\ f[i] # 0 => i = j
    /\ \A t \in Thread : a[t] \in Waiting =>
          (\E s \in Session : m[s] = t) \/ \E i \in 1 .. Len(f) : f[i] = t

\* Those who sleep know the session they sleep under.
Sleepers(a, m, z) ==
    \A t \in Thread :
        /\ z[t] # None <=> a[t] \in Asleep
        /\ z[t] # None => m[z[t]] = t

\* A session that is watched or whose call has failed is that of a call, or over;
\* those to come are unused.
Calls(a, m, w, e, n) ==
    /\ \A s \in Session : w[s] # None => m[s] \in Thread /\ a[m[s]] = "call"
    /\ \A i \in 1 .. Len(e) :
          e[i] <= n /\ (m[e[i]] = None \/ (m[e[i]] \in Thread /\ a[m[e[i]]] = "call"))
    /\ \A s \in Session : s > n => m[s] = None /\ w[s] = None

\* The pool has coroutines that are over, each once.
Pool(a, p) ==
    /\ \A i \in 1 .. Len(p) : a[p[i]] = "pool"
    /\ \A i, j \in 1 .. Len(p) : p[i] = p[j] => i = j

Sched(a, m, z, w, f, e, p, n) ==
    /\ Types(a, m, z, w, f, e, p, n)
    /\ Homes(a, m, f) /\ Sleepers(a, m, z) /\ Calls(a, m, w, e, n) /\ Pool(a, p)

\* Threads and sessions are positive.
LEMMA Numbers ==
    /\ 0 \notin Thread /\ None \notin Thread /\ Break \notin Thread
    /\ 0 \notin Session /\ None \notin Session /\ None # Break
    /\ \A t \in Thread : t \in Nat
    /\ \A s \in Session : s \in Nat
    /\ None \notin Peer /\ Thread # {}
BY LuaAssumption DEF Thread, Session, None, Break

\* What the queues and the pool are made of.
LEMMA Elements ==
    ASSUME NEW a, NEW m, NEW z, NEW w, NEW f, NEW e, NEW p, NEW n,
           Types(a, m, z, w, f, e, p, n)
    PROVE  /\ Len(f) \in Nat /\ \A i \in 1 .. Len(f) : f[i] \in Thread \cup {0}
           /\ Len(e) \in Nat /\ \A i \in 1 .. Len(e) : e[i] \in Session
           /\ Len(p) \in Nat /\ \A i \in 1 .. Len(p) : p[i] \in Thread
BY DEF Types

\* What is in a sequence after Append.
LEMMA Appended ==
    ASSUME NEW S, NEW q \in Seq(S), NEW x \in S
    PROVE  /\ Append(q, x) \in Seq(S)
           /\ Len(q) \in Nat /\ Len(Append(q, x)) = Len(q) + 1
           /\ Append(q, x)[Len(q) + 1] = x /\ Len(q) + 1 \in 1 .. Len(Append(q, x))
           /\ \A i \in 1 .. Len(q) : i \in 1 .. Len(Append(q, x)) /\ Append(q, x)[i] = q[i]
           /\ \A i \in 1 .. Len(Append(q, x)) : i \in 1 .. Len(q) \/ i = Len(q) + 1
OBVIOUS

\* The tail of a sequence has only elements of it.
LEMMA TailElements ==
    ASSUME NEW S, NEW q \in Seq(S), q # <<>>
    PROVE  /\ Tail(q) \in Seq(S) /\ Head(q) \in S /\ Head(q) = q[1] /\ 1 \in 1 .. Len(q)
           /\ \A i \in 1 .. Len(Tail(q)) : \E j \in 1 .. Len(q) : Tail(q)[i] = q[j]
<1>1. /\ Tail(q) \in Seq(S) /\ Head(q) \in S /\ Head(q) = q[1] /\ 1 \in 1 .. Len(q)
      /\ \A i \in 1 .. Len(Tail(q)) : i + 1 \in 1 .. Len(q) /\ Tail(q)[i] = q[i + 1]
    OBVIOUS
<1> QED
    BY Zenon, <1>1

\* g is the fork queue f, or f with nothing more to go on.
NothingForked(f, g) ==
    /\ g \in Seq(Thread \cup {0})
    /\ \A i \in 1 .. Len(f) : i \in 1 .. Len(g) /\ g[i] = f[i]
    /\ \A i \in 1 .. Len(g) : i \in 1 .. Len(f) \/ g[i] = 0

\* suspend forks the empty function, or does not.
LEMMA ForkNothing ==
    ASSUME NEW f \in Seq(Thread \cup {0})
    PROVE  NothingForked(f, f) /\ NothingForked(f, Append(f, 0))
<1>1. NothingForked(f, f)
    BY Zenon DEF NothingForked
<1>2. NothingForked(f, Append(f, 0))
    BY Appended DEF NothingForked
<1> QED
    BY Zenon, <1>1, <1>2

\* A coroutine that does not wait is found nowhere.
LEMMA NoHome ==
    ASSUME NEW a, NEW m, NEW z, NEW w, NEW f, NEW e, NEW p, NEW n,
           Sched(a, m, z, w, f, e, p, n), NEW t \in Thread, a[t] \notin Waiting
    PROVE  (\A i \in 1 .. Len(f) : f[i] # t) /\ \A v \in Session : m[v] # t
<1>1. \A i \in 1 .. Len(f) : f[i] # t
    BY Numbers DEF Sched, Homes, Waiting
<1>2. \A v \in Session : m[v] # t
    BY Zenon DEF Sched, Homes
<1> QED
    BY Zenon, <1>1, <1>2

-----------------------------------------------------------------------------
\* The coroutine under session s goes on, and x is left in its place.
LEMMA ResumeMoves ==
    ASSUME NEW a, NEW m, NEW z, NEW w, NEW f, NEW e, NEW p, NEW n,
           Sched(a, m, z, w, f, e, p, n),
           NEW s \in Session, m[s] \in Thread,
           NEW x \in {None, Break}, x = Break => a[m[s]] \in Asleep
    PROVE  Sched([a EXCEPT ![m[s]] = "run"], [m EXCEPT ![s] = x], [z EXCEPT ![m[s]] = None],
                 [w EXCEPT ![s] = None], f, e, p, n)
<1> DEFINE t == m[s]
           a2 == [a EXCEPT ![t] = "run"]
           m2 == [m EXCEPT ![s] = x]
           z2 == [z EXCEPT ![t] = None]
           w2 == [w EXCEPT ![s] = None]
<1> USE Numbers DEF Sched, Waiting, Asleep
<1>1. Types(a2, m2, z2, w2, f, e, p, n)
    BY Zenon DEF Types
<1>a. /\ \A i \in 1 .. Len(f) : f[i] \in Thread \cup {0}
      /\ \A i \in 1 .. Len(p) : p[i] \in Thread
    BY Zenon, Elements
<1>b. /\ a[t] \in Waiting /\ \A i \in 1 .. Len(f) : f[i] # t
      /\ \A u \in Session : m[u] = t => u = s
    BY <1>a DEF Homes
<1>c. /\ a2[t] = "run" /\ \A u \in Thread : u # t => a2[u] = a[u]
      /\ m2[s] = x /\ x \notin Thread /\ \A u \in Session : u # s => m2[u] = m[u]
    BY Zenon DEF Types
<1>2. Homes(a2, m2, f)
    <2> HIDE DEF a2, m2, t
    <2>1. \A u \in Session : m2[u] \in Thread => a2[m2[u]] \in Waiting
        BY <1>b, <1>c DEF Homes
    <2>2. \A u, v \in Session : m2[u] = m2[v] /\ m2[u] \in Thread => u = v
        BY <1>c DEF Homes
    <2>3. /\ \A i \in 1 .. Len(f) : f[i] # 0 => a2[f[i]] = "ready" /\ \A u \in Session : m2[u] # f[i]
          /\ \A i, j \in 1 .. Len(f) : f[i] = f[j] /\ f[i] # 0 => i = j
        BY <1>a, <1>b, <1>c DEF Homes
    <2>4. \A u \in Thread : a2[u] \in Waiting =>
             (\E v \in Session : m2[v] = u) \/ \E i \in 1 .. Len(f) : f[i] = u
        BY SMTT(30), <1>b, <1>c DEF Homes, t
    <2> QED
        BY Zenon, <2>1, <2>2, <2>3, <2>4 DEF Homes
<1>3. Sleepers(a2, m2, z2)
    BY DEF Types, Homes, Sleepers
<1>4. Calls(a2, m2, w2, e, n)
    BY DEF Types, Homes, Calls
<1>5. Pool(a2, p)
    <2> HIDE DEF a2, t
    <2> QED
        BY SMTT(30), <1>a, <1>b, <1>c DEF Pool
<1> QED
    BY Zenon, <1>1, <1>2, <1>3, <1>4, <1>5

\* The first of the fork queue goes on, or there is nothing to go on.
LEMMA ForkRuns ==
    ASSUME NEW a, NEW m, NEW z, NEW w, NEW f, NEW e, NEW p, NEW n,
           Sched(a, m, z, w, f, e, p, n), f # <<>>
    PROVE  /\ Head(f) = 0 => Sched(a, m, z, w, Tail(f), e, p, n)
           /\ Head(f) # 0 => /\ Head(f) \in Thread /\ a[Head(f)] = "ready"
                             /\ Sched([a EXCEPT ![Head(f)] = "run"], m, z, w, Tail(f), e, p, n)
<1> DEFINE t == Head(f)
           g == Tail(f)
           a2 == [a EXCEPT ![t] = "run"]
<1> USE Numbers DEF Sched, Waiting, Asleep
<1>1. /\ g \in Seq(Thread \cup {0}) /\ Len(f) \in Nat \ {0} /\ Len(g) = Len(f) - 1
      /\ t = f[1] /\ \A i \in 1 .. Len(g) : g[i] = f[i + 1] /\ i + 1 \in 1 .. Len(f)
      /\ \A i \in 2 .. Len(f) : i - 1 \in 1 .. Len(g) /\ g[i - 1] = f[i]
    BY DEF Types
<1>2. /\ \A i \in 1 .. Len(f) : f[i] \in Thread \cup {0}
      /\ \A i \in 1 .. Len(p) : p[i] \in Thread
    BY Zenon, Elements
<1>3. CASE t = 0
    <2>1. Types(a, m, z, w, g, e, p, n)
        BY Zenon, <1>1 DEF Types
    <2>2. Homes(a, m, g)
        <3> HIDE DEF t, g
        <3>1. \A u \in Thread : a[u] \in Waiting =>
                 (\E v \in Session : m[v] = u) \/ \E i \in 1 .. Len(g) : g[i] = u
            <4> SUFFICES ASSUME NEW u \in Thread, NEW i \in 1 .. Len(f), f[i] = u
                         PROVE  \E j \in 1 .. Len(g) : g[j] = u
                BY Zenon DEF Homes
            <4>1. i # 1
                BY ZenonT(30), <1>1, <1>3
            <4>2. i \in 2 .. Len(f)
                BY <1>1, <4>1
            <4> QED
                BY ZenonT(30), <1>1, <4>2
        <3>2. /\ \A i \in 1 .. Len(g) : g[i] # 0 => a[g[i]] = "ready" /\ \A v \in Session : m[v] # g[i]
              /\ \A i, j \in 1 .. Len(g) : g[i] = g[j] /\ g[i] # 0 => i = j
            BY SMTT(30), <1>1 DEF Homes
        <3> QED
            BY Zenon, <3>1, <3>2 DEF Homes
    <2> QED
        BY Zenon, <1>3, <2>1, <2>2
<1>4. CASE t # 0
    <2>1. /\ t \in Thread /\ a[t] = "ready" /\ \A v \in Session : m[v] # t
          /\ \A i \in 1 .. Len(g) : g[i] # t
        <3> HIDE DEF t, g
        <3> QED
            BY <1>1, <1>2, <1>4 DEF Homes
    <2>2. a2[t] = "run" /\ \A u \in Thread : u # t => a2[u] = a[u]
        BY Zenon, <2>1 DEF Types
    <2>3. Types(a2, m, z, w, g, e, p, n)
        BY Zenon, <1>1, <2>1 DEF Types
    <2> HIDE DEF t, g, a2
    <2>4. Homes(a2, m, g)
        <3>1. \A u \in Thread : a2[u] \in Waiting =>
                 (\E v \in Session : m[v] = u) \/ \E i \in 1 .. Len(g) : g[i] = u
            <4> SUFFICES ASSUME NEW u \in Thread, u # t, NEW i \in 1 .. Len(f), f[i] = u
                         PROVE  \E j \in 1 .. Len(g) : g[j] = u
                BY Zenon, <2>2 DEF Homes
            <4>1. i \in 2 .. Len(f)
                BY <1>1
            <4> QED
                BY ZenonT(30), <1>1, <4>1
        <3>2. ASSUME NEW i \in 1 .. Len(g), g[i] # 0
              PROVE  a2[g[i]] = "ready" /\ \A v \in Session : m[v] # g[i]
            BY <1>1, <1>2, <2>1, <2>2, <3>2 DEF Homes
        <3>3. \A i, j \in 1 .. Len(g) : g[i] = g[j] /\ g[i] # 0 => i = j
            BY <1>1 DEF Homes
        <3>4. \A v \in Session : m[v] \in Thread => a2[m[v]] \in Waiting
            BY Zenon, <2>1, <2>2 DEF Homes
        <3> QED
            BY Zenon, <3>1, <3>2, <3>3, <3>4 DEF Homes
    <2>5. Sleepers(a2, m, z)
        BY Zenon, <2>1, <2>2 DEF Sleepers
    <2>6. Calls(a2, m, w, e, n)
        BY Zenon, <2>1, <2>2 DEF Calls
    <2>7. Pool(a2, p)
        BY Zenon, <1>2, <2>1, <2>2 DEF Pool
    <2> QED
        BY Zenon, <1>4, <2>1, <2>3, <2>4, <2>5, <2>6, <2>7 DEF t, g, a2
<1> QED
    BY Zenon, <1>3, <1>4

\* A coroutine nobody waits for starts to run, ends or dies; 0 is forked maybe.
LEMMA StateMoves ==
    ASSUME NEW a, NEW m, NEW z, NEW w, NEW f, NEW e, NEW p, NEW n,
           Sched(a, m, z, w, f, e, p, n),
           NEW t \in Thread, a[t] \notin Waiting, NEW y \in {"run", "pool", "dead"},
           NEW q \in Seq(Thread), Pool([a EXCEPT ![t] = y], q),
           NEW g, NothingForked(f, g)
    PROVE  Sched([a EXCEPT ![t] = y], m, z, w, g, e, q, n)
<1> DEFINE a2 == [a EXCEPT ![t] = y]
<1> USE Numbers DEF Sched, Waiting, Asleep
<1>0. f \in Seq(Thread \cup {0}) /\ \A i \in 1 .. Len(f) : f[i] \in Thread \cup {0}
    BY ZenonT(30), Elements DEF Types
<1>1. /\ g \in Seq(Thread \cup {0})
      /\ \A i \in 1 .. Len(f) : i \in 1 .. Len(g) /\ g[i] = f[i]
      /\ \A i \in 1 .. Len(g) : i \in 1 .. Len(f) \/ g[i] = 0
    BY Zenon DEF NothingForked
<1>2. a2[t] = y /\ \A u \in Thread : u # t => a2[u] = a[u]
    BY Zenon DEF Types
<1>3. Types(a2, m, z, w, g, e, q, n)
    BY Zenon, <1>1 DEF Types
<1> HIDE DEF a2
<1>4. Homes(a2, m, g)
    <2>1. \A u \in Thread : a2[u] \in Waiting =>
             (\E v \in Session : m[v] = u) \/ \E i \in 1 .. Len(g) : g[i] = u
        <3> SUFFICES ASSUME NEW u \in Thread, u # t, a[u] \in Waiting
                     PROVE  (\E v \in Session : m[v] = u) \/ \E i \in 1 .. Len(g) : g[i] = u
            BY Zenon, <1>2
        <3> QED
            BY SMTT(30), <1>1 DEF Homes
    <2>2. \A i \in 1 .. Len(g) : g[i] # 0 => a2[g[i]] = "ready" /\ \A v \in Session : m[v] # g[i]
        <3> SUFFICES ASSUME NEW i \in 1 .. Len(g), g[i] # 0
                     PROVE  a2[g[i]] = "ready" /\ \A v \in Session : m[v] # g[i]
            OBVIOUS
        <3>1. i \in 1 .. Len(f) /\ g[i] = f[i] /\ f[i] \in Thread
            BY Zenon, <1>0, <1>1
        <3>2. a[f[i]] = "ready" /\ \A v \in Session : m[v] # f[i]
            BY Zenon, <3>1 DEF Homes
        <3> QED
            BY Zenon, <1>2, <3>1, <3>2
    <2>3. ASSUME NEW i \in 1 .. Len(g), NEW j \in 1 .. Len(g), g[i] = g[j], g[i] # 0
          PROVE  i = j
        <3>1. /\ i \in 1 .. Len(f) /\ g[i] = f[i]
              /\ j \in 1 .. Len(f) /\ g[j] = f[j]
            BY Zenon, <1>1, <2>3
        <3>2. \A k, l \in 1 .. Len(f) : f[k] = f[l] /\ f[k] # 0 => k = l
            BY Zenon DEF Homes
        <3> QED
            BY ZenonT(30), <2>3, <3>1, <3>2
    <2>4. \A v \in Session : m[v] \in Thread => a2[m[v]] \in Waiting
        BY Zenon, <1>2 DEF Homes
    <2> QED
        BY Zenon, <2>1, <2>2, <2>3, <2>4 DEF Homes
<1>5. Sleepers(a2, m, z)
    BY Zenon, <1>2 DEF Sleepers
<1>6. Calls(a2, m, w, e, n)
    BY ZenonT(30), <1>2 DEF Calls
<1> QED
    BY Zenon, <1>3, <1>4, <1>5, <1>6 DEF a2

\* A new coroutine is forked.
LEMMA ForkMoves ==
    ASSUME NEW a, NEW m, NEW z, NEW w, NEW f, NEW e, NEW p, NEW n,
           Sched(a, m, z, w, f, e, p, n),
           NEW t \in Thread, a[t] \notin Waiting,
           NEW q \in Seq(Thread), Pool([a EXCEPT ![t] = "ready"], q)
    PROVE  Sched([a EXCEPT ![t] = "ready"], m, z, w, Append(f, t), e, q, n)
<1> DEFINE a2 == [a EXCEPT ![t] = "ready"]
           g == Append(f, t)
<1> USE Numbers DEF Sched, Waiting, Asleep
<1>0. f \in Seq(Thread \cup {0}) /\ \A i \in 1 .. Len(f) : f[i] \in Thread \cup {0}
    BY ZenonT(30), Elements DEF Types
<1>1. /\ g \in Seq(Thread \cup {0})
      /\ Len(f) \in Nat /\ Len(g) = Len(f) + 1 /\ g[Len(f) + 1] = t
      /\ Len(f) + 1 \in 1 .. Len(g)
      /\ \A i \in 1 .. Len(f) : i \in 1 .. Len(g) /\ g[i] = f[i]
      /\ \A i \in 1 .. Len(g) : i \in 1 .. Len(f) \/ i = Len(f) + 1
    <2> HIDE DEF Sched
    <2> QED
        BY <1>0, Appended
<1>2. a2[t] = "ready" /\ \A u \in Thread : u # t => a2[u] = a[u]
    BY Zenon DEF Types
<1>3. Types(a2, m, z, w, g, e, q, n)
    BY Zenon, <1>1 DEF Types
<1>7. (\A i \in 1 .. Len(f) : f[i] # t) /\ \A v \in Session : m[v] # t
    BY Zenon, NoHome
<1> HIDE DEF a2, g
<1>4. Homes(a2, m, g)
    <2>1. \A u \in Thread : a2[u] \in Waiting =>
             (\E v \in Session : m[v] = u) \/ \E i \in 1 .. Len(g) : g[i] = u
        BY <1>1, <1>2 DEF Homes
    <2>2. \A i \in 1 .. Len(g) : g[i] # 0 => a2[g[i]] = "ready" /\ \A v \in Session : m[v] # g[i]
        BY <1>0, <1>1, <1>2, <1>7 DEF Homes
    <2>3. ASSUME NEW i \in 1 .. Len(g), NEW j \in 1 .. Len(g), g[i] = g[j], g[i] # 0
          PROVE  i = j
        <3>1. CASE i \in 1 .. Len(f) /\ j \in 1 .. Len(f)
            BY <1>1, <2>3, <3>1 DEF Homes
        <3>2. CASE i \in 1 .. Len(f) /\ j = Len(f) + 1
            BY Zenon, <1>1, <1>7, <2>3, <3>2
        <3>3. CASE i = Len(f) + 1 /\ j \in 1 .. Len(f)
            BY Zenon, <1>1, <1>7, <2>3, <3>3
        <3> QED
            BY Zenon, <1>1, <3>1, <3>2, <3>3
    <2>4. \A v \in Session : m[v] \in Thread => a2[m[v]] \in Waiting
        BY Zenon, <1>2 DEF Homes
    <2> QED
        BY Zenon, <2>1, <2>2, <2>3, <2>4 DEF Homes
<1>5. Sleepers(a2, m, z)
    BY Zenon, <1>2 DEF Sleepers
<1>6. Calls(a2, m, w, e, n)
    <2>1. \A u \in Session : m[u] \in Thread => m[u] # t
        BY Zenon, <1>7
    <2>2. \A u \in Session : w[u] # None => m[u] \in Thread /\ a2[m[u]] = "call"
        BY Zenon, <1>2, <2>1 DEF Calls
    <2>3. ASSUME NEW i \in 1 .. Len(e)
          PROVE  e[i] <= n /\ (m[e[i]] = None \/ (m[e[i]] \in Thread /\ a2[m[e[i]]] = "call"))
        <3>1. e[i] \in Session
            BY Zenon, Elements
        <3> QED
            BY Zenon, <1>2, <2>1, <3>1 DEF Calls
    <2> QED
        BY Zenon, <2>2, <2>3 DEF Calls
<1> QED
    BY Zenon, <1>3, <1>4, <1>5, <1>6 DEF a2, g

\* A coroutine nobody waits for begins to wait under a new session.
LEMMA WaitMoves ==
    ASSUME NEW a, NEW m, NEW z, NEW w, NEW f, NEW e, NEW p, NEW n,
           Sched(a, m, z, w, f, e, p, n), n + 1 \in Session,
           NEW t \in Thread, a[t] \notin Waiting, NEW y \in Waiting,
           NEW z2, z2 = IF y \in Asleep THEN [z EXCEPT ![t] = n + 1] ELSE z,
           NEW w2 \in [Session -> Peer \cup {None}], y # "call" => w2 = w,
           \A u \in Session : u # n + 1 => w2[u] = w[u],
           NEW q \in Seq(Thread), Pool([a EXCEPT ![t] = y], q)
    PROVE  Sched([a EXCEPT ![t] = y], [m EXCEPT ![n + 1] = t], z2, w2, f, e, q, n + 1)
<1> DEFINE s == n + 1
           a2 == [a EXCEPT ![t] = y]
           m2 == [m EXCEPT ![s] = t]
<1> USE Numbers DEF Sched, Waiting, Asleep
<1>0. n \in Nat /\ s \in Session /\ s > n /\ \A u \in Session : u > s => u > n /\ u # s
    BY DEF Types
<1>1. Types(a2, m2, z2, w2, f, e, q, s)
    BY Zenon DEF Types
<1>2. /\ a2[t] = y /\ \A u \in Thread : u # t => a2[u] = a[u]
      /\ m2[s] = t /\ \A u \in Session : u # s => m2[u] = m[u]
    BY Zenon, <1>0 DEF Types
<1>3. /\ \A u \in Thread : u # t => z2[u] = z[u]
      /\ IF y \in Asleep THEN z2[t] = s ELSE z2[t] = None
    BY <1>0 DEF Types, Sleepers
<1>4. /\ \A u \in Session : u # s => w2[u] = w[u]
      /\ y # "call" => w2[s] = None
    BY Zenon, <1>0 DEF Types, Calls
<1>5. /\ \A i \in 1 .. Len(f) : f[i] \in Thread \cup {0}
      /\ \A i \in 1 .. Len(e) : e[i] \in Session
    BY Zenon, Elements
<1>6. (\A i \in 1 .. Len(f) : f[i] # t) /\ (\A v \in Session : m[v] # t) /\ m[s] = None
    BY NoHome, <1>0 DEF Calls
<1>7. \A i \in 1 .. Len(e) : e[i] # s /\ e[i] <= s
    BY <1>0, <1>5 DEF Calls
<1> HIDE DEF s, a2, m2
<1>8. Homes(a2, m2, f)
    <2>1. \A u \in Session : m2[u] \in Thread => a2[m2[u]] \in Waiting
        BY <1>2, <1>6 DEF Homes
    <2>2. \A u, v \in Session : m2[u] = m2[v] /\ m2[u] \in Thread => u = v
        BY <1>2, <1>6 DEF Homes
    <2>3. ASSUME NEW i \in 1 .. Len(f), f[i] # 0
          PROVE  a2[f[i]] = "ready" /\ \A u \in Session : m2[u] # f[i]
        <3>1. f[i] \in Thread /\ f[i] # t
            BY Zenon, <1>5, <1>6, <2>3
        <3>2. a[f[i]] = "ready" /\ \A u \in Session : m[u] # f[i]
            BY Zenon, <2>3 DEF Homes
        <3> QED
            BY Zenon, <1>2, <3>1, <3>2
    <2>4. \A i, j \in 1 .. Len(f) : f[i] = f[j] /\ f[i] # 0 => i = j
        BY Zenon DEF Homes
    <2>5. ASSUME NEW u \in Thread, a2[u] \in Waiting
          PROVE  (\E v \in Session : m2[v] = u) \/ \E i \in 1 .. Len(f) : f[i] = u
        <3>1. CASE u = t
            BY Zenon, <1>0, <1>2, <3>1
        <3>2. CASE u # t
            <4>1. a[u] \in Waiting
                BY Zenon, <1>2, <2>5, <3>2
            <4>2. \A v \in Session : m[v] = u => m2[v] = u
                BY <1>2, <1>6
            <4> QED
                BY Zenon, <4>1, <4>2 DEF Homes
        <3> QED
            BY Zenon, <3>1, <3>2
    <2> QED
        BY Zenon, <2>1, <2>2, <2>3, <2>4, <2>5 DEF Homes
<1>9. Sleepers(a2, m2, z2)
    <2>1. ASSUME NEW u \in Thread, u # t
          PROVE  /\ z2[u] # None <=> a2[u] \in Asleep
                 /\ z2[u] # None => m2[z2[u]] = u
        <3>1. z[u] \in Session \cup {None}
            BY Zenon DEF Types
        <3> QED
            BY <1>2, <1>3, <1>6, <2>1, <3>1 DEF Sleepers
    <2>2. /\ z2[t] # None <=> a2[t] \in Asleep
          /\ z2[t] # None => m2[z2[t]] = t
        BY <1>0, <1>2, <1>3
    <2> QED
        BY Zenon, <2>1, <2>2 DEF Sleepers
<1>10. Calls(a2, m2, w2, e, s)
    <2>1. \A u \in Session : w2[u] # None => m2[u] \in Thread /\ a2[m2[u]] = "call"
        BY <1>2, <1>4, <1>6 DEF Calls
    <2>2. ASSUME NEW i \in 1 .. Len(e)
          PROVE  e[i] <= s /\ (m2[e[i]] = None \/ (m2[e[i]] \in Thread /\ a2[m2[e[i]]] = "call"))
        <3>1. e[i] \in Session /\ e[i] <= s /\ m2[e[i]] = m[e[i]] /\ m[e[i]] # t
            BY Zenon, <1>2, <1>5, <1>6, <1>7
        <3>2. m[e[i]] = None \/ (m[e[i]] \in Thread /\ a[m[e[i]]] = "call")
            BY Zenon DEF Calls
        <3> QED
            BY Zenon, <1>2, <3>1, <3>2
    <2>3. \A u \in Session : u > s => m2[u] = None /\ w2[u] = None
        BY Zenon, <1>0, <1>2, <1>4 DEF Calls
    <2> QED
        BY Zenon, <2>1, <2>2, <2>3 DEF Calls
<1> QED
    BY Zenon, <1>1, <1>8, <1>9, <1>10 DEF s, a2, m2

\* The service exits: its running coroutine and those it has forked are over.
LEMMA ExitMoves ==
    ASSUME NEW a, NEW m, NEW z, NEW w, NEW f, NEW e, NEW p, NEW n,
           Sched(a, m, z, w, f, e, p, n), NEW c \in Thread, a[c] = "run",
           NEW a2, a2 = [t \in Thread |->
                           IF t = c \/ (\E i \in 1 .. Len(f) : f[i] = t) THEN "dead" ELSE a[t]]
    PROVE  Sched(a2, m, z, w, <<>>, e, p, n)
<1> USE Numbers DEF Sched, Waiting, Asleep
<1>1. Types(a2, m, z, w, <<>>, e, p, n)
    BY DEF Types
<1>2. \A t \in Thread : \/ a2[t] = a[t] /\ \A i \in 1 .. Len(f) : f[i] # t
                        \/ a2[t] = "dead" /\ a[t] \in {"run", "ready"} /\ \A v \in Session : m[v] # t
    <2> SUFFICES ASSUME NEW t \in Thread
                 PROVE  \/ a2[t] = a[t] /\ \A i \in 1 .. Len(f) : f[i] # t
                        \/ a2[t] = "dead" /\ a[t] \in {"run", "ready"} /\ \A v \in Session : m[v] # t
        OBVIOUS
    <2>1. CASE t = c
        BY Zenon, <2>1, NoHome
    <2>2. CASE \E i \in 1 .. Len(f) : f[i] = t
        BY <2>2 DEF Homes
    <2>3. CASE t # c /\ \A i \in 1 .. Len(f) : f[i] # t
        BY Zenon, <2>3
    <2> QED
        BY Zenon, <2>1, <2>2, <2>3
<1>3. Homes(a2, m, <<>>)
    BY <1>2 DEF Homes
<1>4. Sleepers(a2, m, z)
    BY Zenon, <1>2 DEF Sleepers
<1>5. Calls(a2, m, w, e, n)
    BY SMTT(30), <1>2 DEF Calls
<1>6. Pool(a2, p)
    <2>1. \A i \in 1 .. Len(p) : p[i] \in Thread
        BY Zenon, Elements
    <2> QED
        BY Zenon, <1>2, <2>1 DEF Pool
<1> QED
    BY Zenon, <1>1, <1>3, <1>4, <1>5, <1>6

\* The error queue has other failed calls than before, of sessions that are watched.
LEMMA ErrorsMove ==
    ASSUME NEW a, NEW m, NEW z, NEW w, NEW f, NEW e, NEW p, NEW n,
           Sched(a, m, z, w, f, e, p, n), NEW g \in Seq(Session),
           \A i \in 1 .. Len(g) : w[g[i]] # None \/ \E j \in 1 .. Len(e) : g[i] = e[j]
    PROVE  Sched(a, m, z, w, f, g, p, n)
<1> USE Numbers DEF Sched
<1>1. Types(a, m, z, w, f, g, p, n)
    BY Zenon DEF Types
<1>2. ASSUME NEW i \in 1 .. Len(g)
      PROVE  g[i] <= n /\ (m[g[i]] = None \/ (m[g[i]] \in Thread /\ a[m[g[i]]] = "call"))
    <2>1. n \in Nat /\ g[i] \in Session /\ g[i] \in Nat
        BY DEF Types
    <2>2. CASE w[g[i]] # None
        <3>1. ~ (g[i] > n)
            BY Zenon, <2>1, <2>2 DEF Calls
        <3> QED
            BY <2>1, <2>2, <3>1 DEF Calls
    <2>3. CASE \E j \in 1 .. Len(e) : g[i] = e[j]
        BY <2>3 DEF Calls
    <2> QED
        BY Zenon, <2>2, <2>3
<1> QED
    BY Zenon, <1>1, <1>2 DEF Calls

\* A session nobody waits for is over.
LEMMA OverMoves ==
    ASSUME NEW a, NEW m, NEW z, NEW w, NEW f, NEW e, NEW p, NEW n,
           Sched(a, m, z, w, f, e, p, n), NEW s \in Session, m[s] \notin Thread
    PROVE  Sched(a, [m EXCEPT ![s] = None], z, w, f, e, p, n)
<1> DEFINE m2 == [m EXCEPT ![s] = None]
<1> USE Numbers DEF Sched
<1>1. Types(a, m2, z, w, f, e, p, n)
    BY Zenon DEF Types
<1>2. m2[s] = None /\ \A u \in Session : u # s => m2[u] = m[u]
    BY Zenon DEF Types
<1>3. /\ \A i \in 1 .. Len(f) : f[i] \in Thread \cup {0}
      /\ \A i \in 1 .. Len(e) : e[i] \in Session
      /\ \A t \in Thread : z[t] \in Session \cup {None}
    BY ZenonT(30), Elements DEF Types
<1> HIDE DEF m2
<1>4. Homes(a, m2, f)
    BY <1>2, <1>3 DEF Homes
<1>5. Sleepers(a, m2, z)
    BY <1>2, <1>3 DEF Sleepers
<1>6. Calls(a, m2, w, e, n)
    BY Zenon, <1>2, <1>3 DEF Calls
<1> QED
    BY Zenon, <1>1, <1>4, <1>5, <1>6 DEF m2

-----------------------------------------------------------------------------
(* The pool. *)

\* A coroutine that is not in the pool may do as it likes, and may be put there.
LEMMA PoolKeeps ==
    ASSUME NEW a, NEW p \in Seq(Thread), NEW t \in Thread, NEW y, Pool(a, p),
           a \in [Thread -> Waiting \cup {"none", "pool", "run", "dead"}], a[t] # "pool"
    PROVE  /\ Pool([a EXCEPT ![t] = y], p)
           /\ Pool([a EXCEPT ![t] = "pool"], Append(p, t)) /\ Append(p, t) \in Seq(Thread)
<1>1. \A i \in 1 .. Len(p) : p[i] \in Thread /\ p[i] # t
    BY DEF Pool
<1>2. Pool([a EXCEPT ![t] = y], p)
    BY Zenon, <1>1 DEF Pool
<1>3. Pool([a EXCEPT ![t] = "pool"], Append(p, t))
    <2> DEFINE b == [a EXCEPT ![t] = "pool"]
               q == Append(p, t)
    <2>1. b[t] = "pool" /\ \A u \in Thread : u # t => b[u] = a[u]
        OBVIOUS
    <2>2. /\ Len(p) \in Nat /\ q[Len(p) + 1] = t
          /\ \A i \in 1 .. Len(p) : q[i] = p[i]
          /\ \A i \in 1 .. Len(q) : i \in 1 .. Len(p) \/ i = Len(p) + 1
        BY Appended
    <2> HIDE DEF b, q
    <2>3. \A i \in 1 .. Len(q) : b[q[i]] = "pool"
        BY <1>1, <2>1, <2>2 DEF Pool
    <2>4. ASSUME NEW i \in 1 .. Len(q), NEW j \in 1 .. Len(q), q[i] = q[j] PROVE i = j
        <3>1. CASE i \in 1 .. Len(p) /\ j \in 1 .. Len(p)
            BY Zenon, <2>2, <2>4, <3>1 DEF Pool
        <3>2. CASE i \in 1 .. Len(p) /\ j = Len(p) + 1
            BY Zenon, <1>1, <2>2, <2>4, <3>2
        <3>3. CASE i = Len(p) + 1 /\ j \in 1 .. Len(p)
            BY Zenon, <1>1, <2>2, <2>4, <3>3
        <3> QED
            BY Zenon, <2>2, <3>1, <3>2, <3>3
    <2> QED
        BY Zenon, <2>3, <2>4 DEF Pool, b, q
<1>4. Append(p, t) \in Seq(Thread)
    OBVIOUS
<1> QED
    BY Zenon, <1>2, <1>3, <1>4

\* A coroutine made by co_create is one nobody waits for, and no longer in the pool.
LEMMA CreateMoves ==
    ASSUME at \in [Thread -> Waiting \cup {"none", "pool", "run", "dead"}],
           tab.thread_pool \in Seq(Thread), Pool(at, tab.thread_pool), CanCreate, NEW y
    PROVE  /\ Created \in Thread /\ at[Created] \in {"none", "pool"}
           /\ Unpooled \in Seq(Thread) /\ Pool([at EXCEPT ![Created] = y], Unpooled)
<1> DEFINE p == tab.thread_pool
<1>1. CASE p # <<>>
    <2> DEFINE k == Len(p)
               t == p[k]
               q == SubSeq(p, 1, k - 1)
    <2>1. k \in Nat \ {0} /\ Created = t /\ Unpooled = q
        BY <1>1 DEF Created, Unpooled
    <2>2. /\ q \in Seq(Thread) /\ Len(q) = k - 1
          /\ \A i \in 1 .. Len(q) : q[i] = p[i] /\ i \in 1 .. Len(p) /\ i # k
        BY <2>1
    <2>3. t \in Thread /\ at[t] = "pool"
        BY <2>1 DEF Pool
    <2> HIDE DEF q, t
    <2>4. \A i \in 1 .. Len(q) : p[i] # t /\ p[i] \in Thread
        <3> SUFFICES ASSUME NEW i \in 1 .. Len(q) PROVE p[i] # t /\ p[i] \in Thread
            OBVIOUS
        <3>0. k \in 1 .. Len(p)
            BY <2>1
        <3>1. i \in 1 .. Len(p) /\ k \in 1 .. Len(p) /\ i # k
            BY Zenon, <2>2, <3>0
        <3>2. p[i] # p[k]
            BY Zenon, <3>1 DEF Pool
        <3>3. p[i] \in Thread
            BY <3>1
        <3> QED
            BY Zenon, <3>2, <3>3 DEF t
    <2>5. Pool([at EXCEPT ![t] = y], q)
        <3>1. \A i \in 1 .. Len(q) : [at EXCEPT ![t] = y][q[i]] = "pool"
            BY ZenonT(30), <2>2, <2>4 DEF Pool
        <3>2. \A i, j \in 1 .. Len(q) : q[i] = q[j] => i = j
            BY Zenon, <2>2 DEF Pool
        <3> QED
            BY Zenon, <3>1, <3>2 DEF Pool
    <2> QED
        BY Zenon, <2>1, <2>2, <2>3, <2>5
<1>2. CASE p = <<>>
    <2>1. Created \in Unused /\ Unpooled = <<>>
        BY Zenon, <1>2 DEF CanCreate, Created, Unpooled
    <2> QED
        BY <2>1 DEF Unused, Pool
<1> QED
    BY Zenon, <1>1, <1>2

-----------------------------------------------------------------------------
(* The invariant. *)

TabTypes ==
    tab \in [thread_pool : Seq(Thread), wakeup_queue : Seq(Thread),
             fork_queue : Seq(Thread \cup {0}), error_queue : Seq(Session),
             unresponse : SUBSET Request, init_thread : Thread \cup {0},
             session_thread_map : [Session -> Thread \cup {None, Break}],
             thread_session_map : [Thread -> Request \cup {None, 0}],
             sleep_session_map : [Thread -> Session \cup {None}],
             watching_session_map : [Session -> Peer \cup {None}]]

Tables == Sched(at, tab.session_thread_map, tab.sleep_session_map, tab.watching_session_map,
                tab.fork_queue, tab.error_queue, tab.thread_pool, session)

\* The running coroutine runs; before the first message there is nothing.
Control ==
    /\ run \in [pc : {"born", "idle", "run", "suspend", "errors", "forks"},
                cur : Thread \cup {0}, depth : Nat]
    /\ run.pc = "run" => run.cur \in Thread /\ at[run.cur] = "run"
    /\ run.pc = "born" => /\ at = [t \in Thread |-> "none"] /\ tab.thread_pool = <<>>
                          /\ from = <<>>

\* Only the owner of the critical section is inside, as often as ref says.
Section ==
    /\ section \in [current_thread : Thread \cup {0}, ref : Nat,
                    thread_queue : Seq(Thread), inside : [Thread -> Nat]]
    /\ \A t \in Thread : section.inside[t] = IF t = section.current_thread THEN section.ref ELSE 0
    /\ section.current_thread = 0 => section.ref = 0

\* The requests: T is thread_session_map, U is unresponse, A the answers, G those
\* forgotten and k how many there were.  One that a coroutine or a response has
\* is in no other hands and has no answer yet.
Idle == {"none", "pool", "dead"}

Requests(a, T, U, A, G, k) ==
    /\ \A t \in Thread : a[t] \in Idle => T[t] = None
    /\ \A t \in Thread : T[t] \in Request => A[T[t]] = 0 /\ T[t] <= k /\ T[t] \notin U
    /\ \A t, u \in Thread : T[t] = T[u] /\ T[t] \in Request => t = u
    /\ \A r \in U : A[r] = 0 /\ r <= k
    /\ \A r \in Request : A[r] <= 1 /\ (r > k => A[r] = 0)
    /\ \A r \in 1 .. k : A[r] > 0 \/ r \in G \/ r \in U \/ \E t \in Thread : T[t] = r

\* After the exit no request is open.
Settled(A, G, k) == \A r \in 1 .. k : A[r] > 0 \/ r \in G

Ledger ==
    /\ from \in Seq(Peer) /\ Len(from) <= MaxRequest /\ answers \in [Request -> Nat]
    /\ exited \in BOOLEAN
    /\ exited => Settled(answers, forgot, Len(from))
    /\ ~exited => Requests(at, tab.thread_session_map, tab.unresponse, answers, forgot, Len(from))

LuaInv == TabTypes /\ Tables /\ Control /\ Section /\ Ledger

-----------------------------------------------------------------------------
(* The requests. *)

RequestTypes(a, T, U, A, k) ==
    /\ a \in [Thread -> Waiting \cup {"none", "pool", "run", "dead"}]
    /\ T \in [Thread -> Request \cup {None, 0}] /\ U \in SUBSET Request
    /\ A \in [Request -> Nat] /\ k \in Nat /\ k <= MaxRequest

\* A with one answer more for each request of rs.
More(A, rs) == [r \in Request |-> A[r] + (IF r \in rs THEN 1 ELSE 0)]

\* Requests are positive.
LEMMA RequestNumbers ==
    /\ 0 \notin Request /\ None \notin Request
    /\ \A r \in Request : r \in Nat
    /\ \A k \in Nat : k <= MaxRequest => \A r \in 1 .. k : r \in Request
BY LuaAssumption DEF Request, None

\* Coroutines go on or wait.
LEMMA RequestsStay ==
    ASSUME NEW a, NEW T, NEW U, NEW A, NEW G, NEW k, Requests(a, T, U, A, G, k),
           NEW b, \A t \in Thread : b[t] \in Idle => a[t] \in Idle
    PROVE  Requests(b, T, U, A, G, k)
BY Zenon DEF Requests

\* A request is given to coroutine c, or wants no answer.
LEMMA RequestComes ==
    ASSUME NEW a, NEW T, NEW U, NEW A, NEW G, NEW k, Requests(a, T, U, A, G, k),
           RequestTypes(a, T, U, A, k), k + 1 <= MaxRequest,
           NEW c \in Thread, a[c] \in Idle, NEW q \in {0, k + 1}
    PROVE  Requests([a EXCEPT ![c] = "run"], [T EXCEPT ![c] = q], U, A,
                    IF q = 0 THEN G \cup {k + 1} ELSE G, k + 1)
<1> DEFINE b == [a EXCEPT ![c] = "run"]
           R == [T EXCEPT ![c] = q]
           H == IF q = 0 THEN G \cup {k + 1} ELSE G
           x == k + 1
<1> USE RequestNumbers DEF Idle
<1>1. /\ x \in Nat /\ k \in Nat /\ x \in Request /\ T[c] = None
      /\ \A t \in Thread : T[t] \in Request => T[t] # x /\ T[t] <= x
      /\ \A r \in U : r # x /\ r <= x
      /\ \A r \in Request : r > x => r > k
      /\ \A r \in 1 .. x : r = x \/ r \in 1 .. k
    BY LuaAssumption DEF Requests, RequestTypes, Request
<1>2. /\ b[c] = "run" /\ \A t \in Thread : t # c => b[t] = a[t]
      /\ R[c] = q /\ \A t \in Thread : t # c => R[t] = T[t]
    BY Zenon DEF RequestTypes
<1>3. A[x] = 0 /\ x \notin U /\ q \in {0, x} /\ (q = 0 => x \in H) /\ \A r \in G : r \in H
    BY <1>1 DEF Requests
<1> HIDE DEF b, R, H, x
<1>4. \A t \in Thread : b[t] \in Idle => R[t] = None
    BY Zenon, <1>2 DEF Requests
<1>5. \A t \in Thread : R[t] \in Request => A[R[t]] = 0 /\ R[t] <= x /\ R[t] \notin U
    BY <1>1, <1>2, <1>3 DEF Requests
<1>6. \A t, u \in Thread : R[t] = R[u] /\ R[t] \in Request => t = u
    BY <1>1, <1>2, <1>3 DEF Requests
<1>7. (\A r \in U : A[r] = 0 /\ r <= x) /\ \A r \in Request : A[r] <= 1 /\ (r > x => A[r] = 0)
    BY Zenon, <1>1 DEF Requests
<1>8. ASSUME NEW r \in 1 .. x
      PROVE  A[r] > 0 \/ r \in H \/ r \in U \/ \E t \in Thread : R[t] = r
    <2>1. CASE r = x
        BY Zenon, <1>2, <1>3, <2>1
    <2>2. CASE r \in 1 .. k
        <3>1. r # None
            BY <2>2 DEF None
        <3> QED
            BY <1>1, <1>2, <1>3, <2>2, <3>1 DEF Requests
    <2> QED
        BY Zenon, <1>1, <2>1, <2>2
<1> QED
    BY Zenon, <1>4, <1>5, <1>6, <1>7, <1>8 DEF Requests, b, R, H, x

\* A request is answered at once.
LEMMA RequestRefused ==
    ASSUME NEW a, NEW T, NEW U, NEW A, NEW G, NEW k, Requests(a, T, U, A, G, k),
           RequestTypes(a, T, U, A, k), k + 1 <= MaxRequest
    PROVE  Requests(a, T, U, More(A, {k + 1}), G, k + 1)
<1> DEFINE B == More(A, {k + 1})
           x == k + 1
<1> USE RequestNumbers DEF Idle
<1>1. /\ x \in Nat /\ k \in Nat /\ x \in Request
      /\ \A t \in Thread : T[t] \in Request => T[t] # x /\ T[t] <= x
      /\ \A r \in U : r # x /\ r <= x /\ r \in Request
      /\ \A r \in Request : r > x => r > k /\ r # x
      /\ \A r \in 1 .. x : r = x \/ (r \in 1 .. k /\ r \in Request /\ r # x)
    BY LuaAssumption DEF Requests, RequestTypes, Request
<1>2. B[x] = 1 /\ \A r \in Request : r # x => B[r] = A[r]
    <2>1. A[x] = 0
        BY <1>1 DEF Requests
    <2> QED
        BY <1>1, <2>1 DEF RequestTypes, More
<1> HIDE DEF B, x
<1>3. \A t \in Thread : T[t] \in Request => B[T[t]] = 0 /\ T[t] <= x /\ T[t] \notin U
    BY ZenonT(30), <1>1, <1>2 DEF Requests
<1>4. \A r \in U : B[r] = 0 /\ r <= x
    BY ZenonT(30), <1>1, <1>2 DEF Requests
<1>6. ASSUME NEW r \in Request PROVE B[r] <= 1 /\ (r > x => B[r] = 0)
    <2>1. CASE r = x
        BY <1>1, <1>2, <2>1
    <2>2. CASE r # x
        BY Zenon, <1>1, <1>2, <2>2 DEF Requests
    <2> QED
        BY Zenon, <2>1, <2>2
<1>5. \A r \in 1 .. x : B[r] > 0 \/ r \in G \/ r \in U \/ \E t \in Thread : T[t] = r
    BY <1>1, <1>2 DEF Requests
<1> QED
    BY ZenonT(30), <1>3, <1>4, <1>5, <1>6 DEF Requests, B, x

\* Coroutine c answers the request it has, if it has one.
LEMMA RequestAnswered ==
    ASSUME NEW a, NEW T, NEW U, NEW A, NEW G, NEW k, Requests(a, T, U, A, G, k),
           RequestTypes(a, T, U, A, k), NEW c \in Thread,
           NEW b, \A t \in Thread : t # c /\ b[t] \in Idle => a[t] \in Idle
    PROVE  Requests(b, [T EXCEPT ![c] = None], U, More(A, {T[c]}), G, k)
<1> DEFINE B == More(A, {T[c]})
           R == [T EXCEPT ![c] = None]
<1> USE RequestNumbers DEF Idle
<1>1. R[c] = None /\ \A t \in Thread : t # c => R[t] = T[t]
    BY Zenon DEF RequestTypes
<1>2. \A r \in Request : B[r] = IF r = T[c] THEN A[r] + 1 ELSE A[r]
    BY DEF RequestTypes, More
<1>3. /\ \A r \in Request : A[r] \in Nat
      /\ \A r \in U : r \in Request
      /\ \A r \in 1 .. k : r \in Request
    BY Zenon DEF RequestTypes
<1> HIDE DEF B, R
<1>4. \A t \in Thread : b[t] \in Idle => R[t] = None
    BY Zenon, <1>1 DEF Requests
<1>5. \A t \in Thread : R[t] \in Request => B[R[t]] = 0 /\ R[t] <= k /\ R[t] \notin U
    BY <1>1, <1>2 DEF Requests
<1>6. \A t, u \in Thread : R[t] = R[u] /\ R[t] \in Request => t = u
    BY Zenon, <1>1 DEF Requests
<1>7. \A r \in U : B[r] = 0 /\ r <= k
    BY <1>2, <1>3 DEF Requests
<1>8. ASSUME NEW r \in Request PROVE B[r] <= 1 /\ (r > k => B[r] = 0)
    <2>1. CASE r = T[c]
        <3>1. A[r] = 0 /\ r <= k /\ k \in Nat /\ r \in Nat
            BY Zenon, <2>1 DEF Requests, RequestTypes
        <3> QED
            BY <1>2, <2>1, <3>1
    <2>2. CASE r # T[c]
        BY Zenon, <1>2, <2>2 DEF Requests
    <2> QED
        BY Zenon, <2>1, <2>2
<1>9. ASSUME NEW r \in 1 .. k
      PROVE  B[r] > 0 \/ r \in G \/ r \in U \/ \E t \in Thread : R[t] = r
    <2>1. CASE r = T[c]
        BY <1>2, <1>3, <2>1
    <2>2. CASE r # T[c]
        BY <1>1, <1>2, <1>3, <2>2 DEF Requests
    <2> QED
        BY Zenon, <2>1, <2>2
<1> QED
    BY ZenonT(30), <1>4, <1>5, <1>6, <1>7, <1>8, <1>9 DEF Requests, B, R

\* Coroutine c makes a response of the request it has.
LEMMA RequestDelayed ==
    ASSUME NEW a, NEW T, NEW U, NEW A, NEW G, NEW k, Requests(a, T, U, A, G, k),
           RequestTypes(a, T, U, A, k), NEW c \in Thread, T[c] # None
    PROVE  Requests(a, [T EXCEPT ![c] = None], U \cup ({T[c]} \ {0}), A, G, k)
<1> DEFINE V == U \cup ({T[c]} \ {0})
           R == [T EXCEPT ![c] = None]
<1> USE RequestNumbers DEF Idle
<1>1. R[c] = None /\ \A t \in Thread : t # c => R[t] = T[t]
    BY Zenon DEF RequestTypes
<1>2. T[c] \in Request \cup {0} /\ \A r : r \in V <=> r \in U \/ (r = T[c] /\ r # 0)
    BY Zenon DEF RequestTypes
<1> HIDE DEF V, R
<1>3. /\ \A t \in Thread : a[t] \in Idle => R[t] = None
      /\ \A t, u \in Thread : R[t] = R[u] /\ R[t] \in Request => t = u
      /\ \A r \in V : A[r] = 0 /\ r <= k
    BY <1>1, <1>2 DEF Requests
<1>4. \A t \in Thread : R[t] \in Request => A[R[t]] = 0 /\ R[t] <= k /\ R[t] \notin V
    BY <1>1, <1>2 DEF Requests
<1>5. ASSUME NEW r \in 1 .. k
      PROVE  A[r] > 0 \/ r \in G \/ r \in V \/ \E t \in Thread : R[t] = r
    BY <1>1, <1>2 DEF Requests
<1> QED
    BY Zenon, <1>3, <1>4, <1>5 DEF Requests, V, R

\* Coroutine c, or none, and the responses K give up their requests.
LEMMA RequestForgotten ==
    ASSUME NEW a, NEW T, NEW U, NEW A, NEW G, NEW k, Requests(a, T, U, A, G, k),
           RequestTypes(a, T, U, A, k), NEW c \in Thread, NEW K \in SUBSET U,
           NEW b, \A t \in Thread : t # c /\ b[t] \in Idle => a[t] \in Idle,
           NEW H, G \subseteq H, K \subseteq H, {T[c]} \cap Request \subseteq H
    PROVE  Requests(b, [T EXCEPT ![c] = None], U \ K, A, H, k)
<1> DEFINE R == [T EXCEPT ![c] = None]
<1> USE RequestNumbers DEF Idle
<1>1. R[c] = None /\ \A t \in Thread : t # c => R[t] = T[t]
    BY Zenon DEF RequestTypes
<1>2. \A r \in 1 .. k : r \in Request
    BY Zenon DEF RequestTypes
<1> HIDE DEF R
<1>3. /\ \A t \in Thread : b[t] \in Idle => R[t] = None
      /\ \A t, u \in Thread : R[t] = R[u] /\ R[t] \in Request => t = u
      /\ \A r \in U \ K : A[r] = 0 /\ r <= k
    BY <1>1 DEF Requests
<1>4. \A t \in Thread : R[t] \in Request => A[R[t]] = 0 /\ R[t] <= k /\ R[t] \notin U \ K
    BY Zenon, <1>1 DEF Requests
<1>5. ASSUME NEW r \in 1 .. k
      PROVE  A[r] > 0 \/ r \in H \/ r \in U \ K \/ \E t \in Thread : R[t] = r
    BY Zenon, <1>1, <1>2 DEF Requests
<1> QED
    BY Zenon, <1>3, <1>4, <1>5 DEF Requests, R

\* Responses are dropped, without a coroutine.
LEMMA ResponsesDropped ==
    ASSUME NEW a, NEW T, NEW U, NEW A, NEW G, NEW k, Requests(a, T, U, A, G, k),
           NEW K \in SUBSET U
    PROVE  Requests(a, T, U \ K, A, G \cup K, k)
BY Zenon DEF Requests

\* A response is sent.
LEMMA ResponseSent ==
    ASSUME NEW a, NEW T, NEW U, NEW A, NEW G, NEW k, Requests(a, T, U, A, G, k),
           RequestTypes(a, T, U, A, k), NEW x \in U
    PROVE  Requests(a, T, U \ {x}, More(A, {x}), G, k)
<1> DEFINE B == More(A, {x})
<1> USE RequestNumbers DEF Idle
<1>1. \A r \in Request : B[r] = IF r = x THEN A[r] + 1 ELSE A[r]
    BY DEF RequestTypes, More
<1>2. /\ \A r \in U : r \in Request
      /\ \A r \in 1 .. k : r \in Request
      /\ \A r \in Request : A[r] \in Nat
      /\ A[x] = 0 /\ x <= k /\ k \in Nat /\ x \in Nat
    BY Zenon DEF RequestTypes, Requests
<1> HIDE DEF B
<1>3. \A t \in Thread : T[t] \in Request => B[T[t]] = 0 /\ T[t] <= k /\ T[t] \notin U \ {x}
    BY <1>1, <1>2 DEF Requests
<1>4. \A r \in U \ {x} : B[r] = 0 /\ r <= k
    BY Zenon, <1>1, <1>2 DEF Requests
<1>5. ASSUME NEW r \in Request PROVE B[r] <= 1 /\ (r > k => B[r] = 0)
    <2>1. CASE r = x
        BY <1>1, <1>2, <2>1
    <2>2. CASE r # x
        BY Zenon, <1>1, <2>2 DEF Requests
    <2> QED
        BY Zenon, <2>1, <2>2
<1>6. ASSUME NEW r \in 1 .. k
      PROVE  B[r] > 0 \/ r \in G \/ r \in U \ {x} \/ \E t \in Thread : T[t] = r
    <2>1. CASE r = x
        BY <1>1, <1>2, <2>1
    <2>2. CASE r # x
        BY Zenon, <1>1, <1>2, <2>2 DEF Requests
    <2> QED
        BY Zenon, <2>1, <2>2
<1> QED
    BY Zenon, <1>3, <1>4, <1>5, <1>6 DEF Requests, B

\* The requests that are still open at the exit are all answered then.
LEMMA RequestsSettled ==
    ASSUME NEW a, NEW T, NEW U, NEW A, NEW G, NEW k, Requests(a, T, U, A, G, k),
           RequestTypes(a, T, U, A, k)
    PROVE  Settled(More(A, ({T[t] : t \in Thread} \ {None, 0}) \cup U), G, k)
<1> DEFINE rs == ({T[t] : t \in Thread} \ {None, 0}) \cup U
<1> SUFFICES ASSUME NEW r \in 1 .. k PROVE More(A, rs)[r] > 0 \/ r \in G
    BY Zenon DEF Settled
<1>1. r \in Request /\ r # 0 /\ r # None /\ A[r] \in Nat
    BY Zenon, RequestNumbers DEF RequestTypes, None
<1>2. More(A, rs)[r] = IF r \in rs THEN A[r] + 1 ELSE A[r]
    <2> HIDE DEF rs
    <2> QED
        BY <1>1 DEF More
<1>3. CASE r \in rs
    BY <1>1, <1>2, <1>3
<1>4. CASE r \notin rs
    <2>1. A[r] > 0 \/ r \in G
        BY Zenon, <1>1, <1>4 DEF Requests
    <2> QED
        BY Zenon, <1>2, <1>4, <2>1
<1> QED
    BY Zenon, <1>3, <1>4

\* Answers are never taken back.
Grown(A, B) == B \in [Request -> Nat] /\ \A r \in Request : A[r] <= B[r]

\* An answer more is one.
LEMMA MoreGrows ==
    ASSUME NEW A \in [Request -> Nat], NEW rs
    PROVE  Grown(A, A) /\ Grown(A, More(A, rs)) /\ More(A, rs) \in [Request -> Nat]
<1>1. Grown(A, A)
    BY DEF Grown
<1>2. More(A, rs) \in [Request -> Nat] /\ \A r \in Request : A[r] <= More(A, rs)[r]
    BY DEF More
<1> QED
    BY Zenon, <1>1, <1>2 DEF Grown

\* What is settled stays so.
LEMMA SettledStays ==
    ASSUME NEW A \in [Request -> Nat], NEW B, Grown(A, B), NEW G, NEW H, G \subseteq H,
           NEW k \in Nat, k <= MaxRequest, Settled(A, G, k)
    PROVE  Settled(B, H, k)
<1> SUFFICES ASSUME NEW r \in 1 .. k PROVE B[r] > 0 \/ r \in H
    BY Zenon DEF Settled
<1>1. r \in Request /\ A[r] \in Nat /\ B[r] \in Nat /\ A[r] <= B[r]
    BY Zenon, RequestNumbers DEF Grown
<1>2. A[r] > 0 \/ r \in G
    BY Zenon DEF Settled
<1> QED
    BY <1>1, <1>2

-----------------------------------------------------------------------------
(* The scheduler's steps. *)

\* The parts of the invariant that the tables are typed by.
LEMMA Parts ==
    ASSUME TabTypes, Tables
    PROVE  /\ at \in [Thread -> Waiting \cup {"none", "pool", "run", "dead"}] /\ session \in Nat
           /\ tab.thread_pool \in Seq(Thread) /\ tab.wakeup_queue \in Seq(Thread)
           /\ tab.fork_queue \in Seq(Thread \cup {0}) /\ tab.error_queue \in Seq(Session)
           /\ tab.session_thread_map \in [Session -> Thread \cup {None, Break}]
           /\ tab.sleep_session_map \in [Thread -> Session \cup {None}]
           /\ tab.watching_session_map \in [Session -> Peer \cup {None}]
           /\ Pool(at, tab.thread_pool)
BY Zenon DEF TabTypes, Tables, Sched, Types

\* The token of a wakeup that is still asleep, with the session it sleeps under.
LEMMA WakeTarget ==
    ASSUME TabTypes, Tables, tab.wakeup_queue # <<>>, NEW token, token = Head(tab.wakeup_queue),
           NEW s, s = tab.sleep_session_map[token], s # None
    PROVE  /\ token \in Thread /\ s \in Session /\ tab.session_thread_map[s] = token
           /\ at[token] \in Asleep /\ tab.watching_session_map[s] = None
<1>1. token \in Thread
    BY Zenon, Parts, TailElements
<1>2. s \in Session
    BY Zenon, <1>1, Parts
<1>3. /\ Sleepers(at, tab.session_thread_map, tab.sleep_session_map)
      /\ Calls(at, tab.session_thread_map, tab.watching_session_map, tab.error_queue, session)
    BY Zenon DEF Tables, Sched
<1>4. at[token] \in Asleep /\ tab.session_thread_map[s] = token
    BY Zenon, <1>1, <1>3 DEF Sleepers
<1>5. tab.watching_session_map[s] = None
    BY Zenon, <1>2, <1>3, <1>4 DEF Calls, Asleep
<1> QED
    BY Zenon, <1>1, <1>2, <1>4, <1>5

\* The dispatch of a wakeup keeps every waiting coroutine in its place.
LEMMA WakeupTables ==
    ASSUME TabTypes, Tables, DispatchWakeup
    PROVE  TabTypes' /\ Tables'
<1> DEFINE m == tab.session_thread_map
           z == tab.sleep_session_map
           w == tab.watching_session_map
           f == tab.fork_queue
           e == tab.error_queue
           p == tab.thread_pool
           q == tab.wakeup_queue
           token == Head(q)
           s == z[token]
           x == IF at[token] = "sleep" THEN Break ELSE None
<1> USE Numbers, Parts
<1>1. CASE ~(q # <<>> /\ s # None)
    <2>1. /\ tab' = [tab EXCEPT !.wakeup_queue = IF q = <<>> THEN q ELSE Tail(q)]
          /\ UNCHANGED <<at, session>>
        BY Zenon, <1>1 DEF DispatchWakeup, envVars
    <2> DEFINE g == IF q = <<>> THEN q ELSE Tail(q)
    <2>2. g \in Seq(Thread)
        BY Zenon, TailElements
    <2> HIDE DEF g
    <2>3. TabTypes' /\ tab' = [tab EXCEPT !.wakeup_queue = g]
        BY ZenonT(30), <2>1, <2>2 DEF TabTypes, g
    <2> QED
        BY ZenonT(30), <2>1, <2>3 DEF TabTypes, Tables
<1>2. CASE q # <<>> /\ s # None
    <2>1. token \in Thread /\ s \in Session /\ m[s] = token /\ at[token] \in Asleep
        BY Zenon, <1>2, WakeTarget
    <2>2. w[s] = None
        BY Zenon, <1>2, WakeTarget
    <2>3. Sched([at EXCEPT ![m[s]] = "run"], [m EXCEPT ![s] = x], [z EXCEPT ![m[s]] = None],
                [w EXCEPT ![s] = None], f, e, p, session)
        BY ZenonT(30), <2>1, ResumeMoves DEF Tables
    <2>4. w = [w EXCEPT ![s] = None]
        BY ZenonT(30), <2>2
    <2>5. /\ tab' = [tab EXCEPT !.wakeup_queue = Tail(q), !.session_thread_map[s] = x,
                                !.sleep_session_map[token] = None]
          /\ at' = [at EXCEPT ![m[s]] = "run"] /\ session' = session
        BY ZenonT(30), <1>2 DEF DispatchWakeup, envVars, Resume
    <2> HIDE DEF x
    <2>6. Tail(q) \in Seq(Thread) /\ x \in {None, Break}
        BY SMTT(30), <1>2 DEF x
    <2>7. TabTypes'
        BY ZenonT(30), <2>1, <2>5, <2>6 DEF TabTypes
    <2>8. /\ tab'.session_thread_map = [m EXCEPT ![s] = x]
          /\ tab'.sleep_session_map = [z EXCEPT ![m[s]] = None]
          /\ tab'.watching_session_map = w /\ tab'.fork_queue = f /\ tab'.error_queue = e
          /\ tab'.thread_pool = p
        BY Zenon, <2>1, <2>5 DEF TabTypes
    <2> QED
        BY ZenonT(30), <2>3, <2>4, <2>5, <2>7, <2>8 DEF Tables
<1> QED
    BY Zenon, <1>1, <1>2

\* The dispatch of an error does.
LEMMA ErrorTables ==
    ASSUME TabTypes, Tables, DispatchErrorQueue
    PROVE  TabTypes' /\ Tables'
<1> DEFINE m == tab.session_thread_map
           z == tab.sleep_session_map
           w == tab.watching_session_map
           f == tab.fork_queue
           e == tab.error_queue
           p == tab.thread_pool
           s == Head(e)
           t == m[s]
<1> USE Numbers, Parts
<1>0. session' = session
    BY Zenon DEF DispatchErrorQueue, envVars
<1>1. CASE e = <<>>
    <2>1. UNCHANGED <<tab, at>>
        BY Zenon, <1>1 DEF DispatchErrorQueue
    <2> QED
        BY Zenon, <1>0, <2>1 DEF TabTypes, Tables
<1>2. CASE e # <<>>
    <2>0. /\ Tail(e) \in Seq(Session) /\ s \in Session /\ s = e[1] /\ 1 \in 1 .. Len(e)
          /\ \A i \in 1 .. Len(Tail(e)) : \E j \in 1 .. Len(e) : Tail(e)[i] = e[j]
        BY SMTT(30), <1>2, TailElements
    <2>1. t = None \/ (t \in Thread /\ at[t] = "call")
        BY Zenon, <2>0 DEF Tables, Sched, Calls
    <2>2. Sched(at, m, z, w, f, Tail(e), p, session)
        <3>1. Sched(at, m, z, w, f, e, p, session)
            BY Zenon DEF Tables
        <3>2. \A i \in 1 .. Len(Tail(e)) : w[Tail(e)[i]] # None \/ \E j \in 1 .. Len(e) : Tail(e)[i] = e[j]
            BY Zenon, <2>0
        <3> HIDE DEF m, z, w, f, e, p
        <3> QED
            BY ZenonT(30), <2>0, <3>1, <3>2, ErrorsMove
    <2> HIDE DEF s
    <2>3. CASE t = None
        <3>1. tab' = [tab EXCEPT !.error_queue = Tail(e)] /\ at' = at
            BY Zenon, <1>2, <2>3 DEF DispatchErrorQueue, s
        <3>2. TabTypes'
            BY ZenonT(30), <2>0, <3>1 DEF TabTypes
        <3> QED
            BY ZenonT(30), <1>0, <2>2, <3>1, <3>2 DEF TabTypes, Tables
    <2>4. CASE t # None
        <3>1. /\ tab' = [tab EXCEPT !.error_queue = Tail(e), !.session_thread_map[s] = None,
                                    !.watching_session_map[s] = None]
              /\ at' = [at EXCEPT ![t] = "run"]
            BY Zenon, <1>2, <2>4 DEF DispatchErrorQueue, Resume, s
        <3>2. TabTypes'
            BY ZenonT(30), <2>0, <3>1 DEF TabTypes
        <3>3. Sched([at EXCEPT ![m[s]] = "run"], [m EXCEPT ![s] = None],
                    [z EXCEPT ![m[s]] = None], [w EXCEPT ![s] = None], f, Tail(e), p, session)
            BY ZenonT(30), <2>0, <2>1, <2>2, <2>4, ResumeMoves
        <3>4. z = [z EXCEPT ![m[s]] = None]
            <4>1. z[t] = None
                BY ZenonT(30), <2>1, <2>4 DEF Tables, Sched, Sleepers, Asleep
            <4> QED
                BY Zenon, <2>1, <2>4, <4>1
        <3>5. /\ tab'.session_thread_map = [m EXCEPT ![s] = None]
              /\ tab'.sleep_session_map = z
              /\ tab'.watching_session_map = [w EXCEPT ![s] = None]
              /\ tab'.fork_queue = f /\ tab'.error_queue = Tail(e) /\ tab'.thread_pool = p
            BY Zenon, <2>0, <3>1 DEF TabTypes
        <3> QED
            BY <1>0, <3>1, <3>2, <3>3, <3>4, <3>5 DEF Tables
    <2> QED
        BY Zenon, <2>3, <2>4
<1> QED
    BY Zenon, <1>1, <1>2

\* The loop over the forked functions does.
LEMMA ForkTables ==
    ASSUME TabTypes, Tables, RunForks
    PROVE  TabTypes' /\ Tables'
<1> DEFINE m == tab.session_thread_map
           z == tab.sleep_session_map
           w == tab.watching_session_map
           f == tab.fork_queue
           e == tab.error_queue
           p == tab.thread_pool
<1> USE Parts
<1>0. session' = session
    BY Zenon DEF RunForks, envVars
<1>1. CASE f = <<>>
    <2>1. UNCHANGED <<tab, at>>
        BY Zenon, <1>1 DEF RunForks
    <2> QED
        BY Zenon, <1>0, <2>1 DEF TabTypes, Tables
<1>2. CASE f # <<>>
    <2>1. /\ tab' = [tab EXCEPT !.fork_queue = Tail(f)]
          /\ at' = IF Head(f) = 0 THEN at ELSE [at EXCEPT ![Head(f)] = "run"]
        BY Zenon, <1>2 DEF RunForks, Resume
    <2>2. TabTypes'
        BY ZenonT(30), <1>2, <2>1, TailElements DEF TabTypes
    <2>3. Sched(IF Head(f) = 0 THEN at ELSE [at EXCEPT ![Head(f)] = "run"],
                m, z, w, Tail(f), e, p, session)
        <3> HIDE DEF m, z, w, f, e, p
        <3>1. Sched(at, m, z, w, f, e, p, session)
            BY Zenon DEF Tables, m, z, w, f, e, p
        <3>2. /\ Head(f) = 0 => Sched(at, m, z, w, Tail(f), e, p, session)
              /\ Head(f) # 0 => Sched([at EXCEPT ![Head(f)] = "run"], m, z, w, Tail(f), e, p, session)
            BY ZenonT(30), <1>2, <3>1, ForkRuns
        <3> QED
            BY Zenon, <3>2
    <2>4. /\ tab'.session_thread_map = m /\ tab'.sleep_session_map = z
          /\ tab'.watching_session_map = w /\ tab'.fork_queue = Tail(f)
          /\ tab'.error_queue = e /\ tab'.thread_pool = p
        BY Zenon, <2>1 DEF TabTypes
    <2> QED
        BY Zenon, <1>0, <2>1, <2>2, <2>3, <2>4 DEF Tables
<1> QED
    BY Zenon, <1>1, <1>2

-----------------------------------------------------------------------------
(* The messages. *)

\* The first message does.
LEMMA BootTables ==
    ASSUME TabTypes, Tables, Control, Boot
    PROVE  TabTypes' /\ Tables'
<1> DEFINE m == tab.session_thread_map
           z == tab.sleep_session_map
           w == tab.watching_session_map
           f == tab.fork_queue
           e == tab.error_queue
           p == tab.thread_pool
           c == Created
<1> USE Numbers, Parts
<1>1. CASE UNCHANGED <<session, at, tab>>
    BY Zenon, <1>1 DEF TabTypes, Tables
<1>2. CASE /\ session < MaxSession /\ session' = session + 1
           /\ at' = [at EXCEPT ![Created] = "ready"]
           /\ tab' = [tab EXCEPT !.session_thread_map[session'] = Created, !.init_thread = Created]
    <2>1. CanCreate /\ p = <<>>
        <3>1. run.pc = "born" /\ p = <<>> /\ at = [t \in Thread |-> "none"]
            BY Zenon DEF Boot, Control
        <3> QED
            BY Zenon, <3>1 DEF CanCreate, Unused
    <2>2. /\ c \in Thread /\ at[c] \notin Waiting
          /\ p \in Seq(Thread) /\ Pool([at EXCEPT ![c] = "ready"], p)
        <3>1. Unpooled = p
            BY Zenon, <2>1 DEF Unpooled
        <3> QED
            BY ZenonT(30), <2>1, <3>1, CreateMoves DEF Waiting
    <2> HIDE DEF c
    <2>3. session + 1 \in Session
        BY <1>2, LuaAssumption DEF Session
    <2>4. Sched([at EXCEPT ![c] = "ready"], [m EXCEPT ![session + 1] = c], z, w, f, e, p, session + 1)
        BY ZenonT(30), <2>2, <2>3, WaitMoves DEF Tables, Waiting, Asleep
    <2>7. tab' = [tab EXCEPT !.session_thread_map[session + 1] = c, !.init_thread = c]
        BY Zenon, <1>2 DEF c
    <2>5. TabTypes'
        BY ZenonT(30), <2>2, <2>3, <2>7 DEF TabTypes
    <2>6. /\ tab'.session_thread_map = [m EXCEPT ![session + 1] = c]
          /\ tab'.sleep_session_map = z /\ tab'.watching_session_map = w /\ tab'.fork_queue = f
          /\ tab'.error_queue = e /\ tab'.thread_pool = p
        BY Zenon, <2>3, <2>7 DEF TabTypes
    <2> QED
        BY Zenon, <1>2, <2>4, <2>5, <2>6 DEF Tables, c
<1> QED
    BY Zenon, <1>1, <1>2 DEF Boot, NewSession

\* A request does.
LEMMA RequestTables ==
    ASSUME TabTypes, Tables, NEW p \in Peer, HandleRequest(p), from \in Seq(Peer)
    PROVE  TabTypes' /\ Tables'
<1> DEFINE c == Created
           g == Unpooled
<1> USE Numbers, Parts
<1>1. PICK req \in {0, Len(from) + 1} :
          /\ tab' = [tab EXCEPT !.thread_pool = Unpooled, !.thread_session_map[Created] = req]
          /\ CanCreate /\ at' = [at EXCEPT ![Created] = "run"] /\ session' = session
          /\ Len(from) + 1 <= MaxRequest
    BY ZenonT(30) DEF HandleRequest, Resume
<1>2. req \in Request \cup {None, 0}
    BY <1>1, LuaAssumption DEF Request
<1>3. c \in Thread /\ at[c] \notin Waiting /\ g \in Seq(Thread) /\ Pool([at EXCEPT ![c] = "run"], g)
    BY ZenonT(30), <1>1, CreateMoves DEF Waiting
<1> HIDE DEF c, g
<1>4. tab' = [tab EXCEPT !.thread_pool = g, !.thread_session_map[c] = req]
    BY Zenon, <1>1 DEF c, g
<1>5. TabTypes'
    BY ZenonT(30), <1>2, <1>3, <1>4 DEF TabTypes
<1>6. /\ tab'.session_thread_map = tab.session_thread_map
      /\ tab'.sleep_session_map = tab.sleep_session_map
      /\ tab'.watching_session_map = tab.watching_session_map
      /\ tab'.fork_queue = tab.fork_queue /\ tab'.error_queue = tab.error_queue
      /\ tab'.thread_pool = g
    BY Zenon, <1>4 DEF TabTypes
<1>7. NothingForked(tab.fork_queue, tab.fork_queue)
    BY Zenon, ForkNothing
<1>8. Sched([at EXCEPT ![c] = "run"], tab.session_thread_map, tab.sleep_session_map,
            tab.watching_session_map, tab.fork_queue, tab.error_queue, g, session)
    BY ZenonT(30), <1>3, <1>7, StateMoves DEF Tables
<1> QED
    BY Zenon, <1>1, <1>5, <1>6, <1>8 DEF Tables, c

\* A response does.
LEMMA ResponseTables ==
    ASSUME TabTypes, Tables, NEW s \in Session, HandleResponse(s)
    PROVE  TabTypes' /\ Tables'
<1> DEFINE m == tab.session_thread_map
           z == tab.sleep_session_map
           w == tab.watching_session_map
           f == tab.fork_queue
           e == tab.error_queue
           p == tab.thread_pool
           t == m[s]
<1> USE Numbers, Parts
<1>0. session' = session /\ Sched(at, m, z, w, f, e, p, session)
    BY Zenon DEF HandleResponse, Tables
<1>1. CASE t \in {None, Break}
    <2>1. tab' = [tab EXCEPT !.session_thread_map[s] = None] /\ at' = at
        BY Zenon, <1>1 DEF HandleResponse
    <2>2. TabTypes'
        BY ZenonT(30), <2>1 DEF TabTypes
    <2>3. Sched(at, [m EXCEPT ![s] = None], z, w, f, e, p, session)
        BY Zenon, <1>0, <1>1, OverMoves
    <2>4. /\ tab'.session_thread_map = [m EXCEPT ![s] = None]
          /\ tab'.sleep_session_map = z /\ tab'.watching_session_map = w /\ tab'.fork_queue = f
          /\ tab'.error_queue = e /\ tab'.thread_pool = p
        BY Zenon, <2>1 DEF TabTypes
    <2> QED
        BY Zenon, <1>0, <2>1, <2>2, <2>3, <2>4 DEF Tables
<1>2. CASE t \notin {None, Break}
    <2>0. t \in Thread
        BY Zenon, <1>2
    <2>1. /\ tab' = [tab EXCEPT !.session_thread_map[s] = None, !.watching_session_map[s] = None,
                                !.sleep_session_map[t] = None]
          /\ at' = [at EXCEPT ![t] = "run"]
        BY Zenon, <1>2 DEF HandleResponse, Resume
    <2>2. TabTypes'
        BY ZenonT(30), <2>0, <2>1 DEF TabTypes
    <2>3. Sched([at EXCEPT ![m[s]] = "run"], [m EXCEPT ![s] = None], [z EXCEPT ![m[s]] = None],
                [w EXCEPT ![s] = None], f, e, p, session)
        BY ZenonT(30), <1>0, <2>0, ResumeMoves
    <2>4. /\ tab'.session_thread_map = [m EXCEPT ![s] = None]
          /\ tab'.sleep_session_map = [z EXCEPT ![m[s]] = None]
          /\ tab'.watching_session_map = [w EXCEPT ![s] = None]
          /\ tab'.fork_queue = f /\ tab'.error_queue = e /\ tab'.thread_pool = p
        BY Zenon, <2>0, <2>1 DEF TabTypes
    <2> QED
        BY Zenon, <1>0, <2>1, <2>2, <2>3, <2>4 DEF Tables
<1> QED
    BY Zenon, <1>1, <1>2

\* The calls to a service, in some order.
LEMMA Orders ==
    ASSUME TabTypes, NEW p \in Peer, NEW order \in CallsTo(p)
    PROVE  /\ order \in Seq(Session)
           /\ \A i \in 1 .. Len(order) : tab.watching_session_map[order[i]] = p
<1> DEFINE S == {s \in Session : tab.watching_session_map[s] = p}
<1>1. PICK n \in 0 .. Cardinality(S) : order \in Bijection(1 .. n, S)
    BY Zenon DEF CallsTo
<1>2. n \in Nat /\ order \in [1 .. n -> S]
    <2> HIDE DEF S
    <2> QED
        BY <1>1 DEF Bijection, Injection
<1> HIDE DEF S
<1>3. order \in Seq(S) /\ Len(order) = n
    BY <1>2
<1> QED
    BY <1>2, <1>3 DEF S

MadeOf(r, q, o) ==
    \A i \in 1 .. Len(r) : (\E j \in 1 .. Len(q) : r[i] = q[j]) \/ \E j \in 1 .. Len(o) : r[i] = o[j]

\* What is in a sequence that another is put behind.
LEMMA Joined ==
    ASSUME NEW S, NEW q \in Seq(S), NEW o \in Seq(S)
    PROVE  q \o o \in Seq(S) /\ MadeOf(q \o o, q, o)
<1>1. /\ q \o o \in Seq(S) /\ Len(q) \in Nat /\ Len(o) \in Nat /\ Len(q \o o) = Len(q) + Len(o)
      /\ \A i \in 1 .. Len(q \o o) : (q \o o)[i] = IF i <= Len(q) THEN q[i] ELSE o[i - Len(q)]
    OBVIOUS
<1>2. ASSUME NEW i \in 1 .. Len(q \o o)
      PROVE  \/ \E j \in 1 .. Len(q) : (q \o o)[i] = q[j]
             \/ \E j \in 1 .. Len(o) : (q \o o)[i] = o[j]
    <2>1. CASE i <= Len(q)
        BY <1>1, <2>1
    <2>2. CASE ~(i <= Len(q))
        <3>1. i - Len(q) \in 1 .. Len(o)
            BY <1>1, <2>2
        <3> QED
            BY Zenon, <1>1, <2>2, <3>1
    <2> QED
        BY Zenon, <2>1, <2>2
<1> QED
    BY Zenon, <1>1, <1>2 DEF MadeOf

\* Calls that fail change the error queue, and nothing else that the scheduler
\* finds coroutines by.
LEMMA FailedTables ==
    ASSUME TabTypes, Tables, NEW q \in Seq(Session), UNCHANGED <<at, session>>, TabTypes',
           \A i \in 1 .. Len(q) : \/ tab.watching_session_map[q[i]] # None
                                  \/ \E j \in 1 .. Len(tab.error_queue) : q[i] = tab.error_queue[j],
           /\ tab'.session_thread_map = tab.session_thread_map
           /\ tab'.sleep_session_map = tab.sleep_session_map
           /\ tab'.watching_session_map = tab.watching_session_map
           /\ tab'.fork_queue = tab.fork_queue /\ tab'.error_queue = q
           /\ tab'.thread_pool = tab.thread_pool
    PROVE  Tables'
<1> DEFINE m == tab.session_thread_map
           z == tab.sleep_session_map
           w == tab.watching_session_map
           f == tab.fork_queue
           e == tab.error_queue
           p == tab.thread_pool
<1>1. Sched(at, m, z, w, f, e, p, session)
    BY Zenon DEF Tables
<1>2. \A i \in 1 .. Len(q) : w[q[i]] # None \/ \E j \in 1 .. Len(e) : q[i] = e[j]
    OBVIOUS
<1>3. Sched(at, m, z, w, f, q, p, session)
    <2> HIDE DEF m, z, w, f, e, p
    <2> QED
        BY SMTT(30), <1>1, <1>2, ErrorsMove
<1> QED
    BY Zenon, <1>3 DEF Tables

\* What is dropped with a service.
LEMMA DropTables ==
    ASSUME TabTypes, Tables, NEW p \in Peer, NEW order \in CallsTo(p), UNCHANGED <<at, session>>,
           NEW T \in [Thread -> Request \cup {None, 0}],
           tab' = [Dropped(p, order) EXCEPT !.thread_session_map = T]
    PROVE  /\ TabTypes' /\ Tables'
           /\ tab'.unresponse = tab.unresponse \ KeptFor(p) /\ tab'.thread_session_map = T
           /\ tab'.thread_pool = tab.thread_pool /\ tab'.fork_queue = tab.fork_queue
<1> DEFINE e == tab.error_queue
           q == e \o order
           U == tab.unresponse \ KeptFor(p)
<1>1. /\ order \in Seq(Session) /\ e \in Seq(Session)
      /\ \A i \in 1 .. Len(order) : tab.watching_session_map[order[i]] = p
    BY Zenon, Orders, Parts
<1>2. q \in Seq(Session) /\ U \in SUBSET Request
    BY Zenon, <1>1, Joined DEF TabTypes
<1>3. \A i \in 1 .. Len(q) : \/ tab.watching_session_map[q[i]] # None
                             \/ \E j \in 1 .. Len(e) : q[i] = e[j]
    <2>1. p # None
        BY Zenon, Numbers
    <2>2. MadeOf(q, e, order)
        BY Zenon, <1>1, Joined
    <2> HIDE DEF q
    <2> QED
        BY Zenon, <1>1, <2>1, <2>2 DEF MadeOf
<1> HIDE DEF q, U
<1>4. tab' = [tab EXCEPT !.unresponse = U, !.error_queue = q, !.thread_session_map = T]
    BY Zenon DEF Dropped, q, U, TabTypes
<1>5. /\ TabTypes' /\ tab'.unresponse = U /\ tab'.error_queue = q /\ tab'.thread_session_map = T
      /\ tab'.session_thread_map = tab.session_thread_map
      /\ tab'.sleep_session_map = tab.sleep_session_map
      /\ tab'.watching_session_map = tab.watching_session_map
      /\ tab'.fork_queue = tab.fork_queue /\ tab'.thread_pool = tab.thread_pool
    BY ZenonT(30), <1>2, <1>4 DEF TabTypes
<1> QED
    BY Zenon, <1>2, <1>3, <1>5, FailedTables DEF U

\* An error message does.
LEMMA CallFails ==
    ASSUME TabTypes, Tables, NEW s \in Session, HandleError(s)
    PROVE  TabTypes' /\ Tables'
<1> USE Parts
<1>0. UNCHANGED <<at, session>>
    BY Zenon DEF HandleError
<1>1. CASE tab.watching_session_map[s] = None
    <2>1. tab' = tab
        BY Zenon, <1>1 DEF HandleError
    <2> QED
        BY Zenon, <1>0, <2>1 DEF TabTypes, Tables
<1>2. CASE tab.watching_session_map[s] # None
    <2> DEFINE e == tab.error_queue
               q == Append(e, s)
    <2>1. tab' = [tab EXCEPT !.error_queue = q]
        BY Zenon, <1>2 DEF HandleError
    <2>2. q \in Seq(Session) /\ \A i \in 1 .. Len(q) : \/ tab.watching_session_map[q[i]] # None
                                                       \/ \E j \in 1 .. Len(e) : q[i] = e[j]
        <3>1. /\ q \in Seq(Session) /\ q[Len(e) + 1] = s
              /\ \A i \in 1 .. Len(e) : q[i] = e[i]
              /\ \A i \in 1 .. Len(q) : i \in 1 .. Len(e) \/ i = Len(e) + 1
            BY Appended
        <3> HIDE DEF q
        <3> QED
            BY ZenonT(30), <1>2, <3>1
    <2> HIDE DEF q
    <2>3. /\ TabTypes' /\ tab'.error_queue = q
          /\ tab'.session_thread_map = tab.session_thread_map
          /\ tab'.sleep_session_map = tab.sleep_session_map
          /\ tab'.watching_session_map = tab.watching_session_map
          /\ tab'.fork_queue = tab.fork_queue /\ tab'.thread_pool = tab.thread_pool
        BY ZenonT(30), <2>1, <2>2 DEF TabTypes
    <2> QED
        BY Zenon, <1>0, <2>2, <2>3, FailedTables
<1> QED
    BY Zenon, <1>1, <1>2

\* The news that a service is down do.
LEMMA DownTables ==
    ASSUME TabTypes, Tables, NEW p \in Peer, HandleDown(p)
    PROVE  /\ TabTypes' /\ Tables' /\ tab'.unresponse = tab.unresponse \ KeptFor(p)
           /\ tab'.thread_session_map = tab.thread_session_map
           /\ tab'.thread_pool = tab.thread_pool
<1>1. PICK order \in CallsTo(p) : tab' = Dropped(p, order)
    BY Zenon DEF HandleDown
<1>2. UNCHANGED <<at, session>>
    BY Zenon DEF HandleDown
<1> DEFINE T == tab.thread_session_map
<1>3. T \in [Thread -> Request \cup {None, 0}]
    BY Zenon DEF TabTypes
<1>4. tab' = [Dropped(p, order) EXCEPT !.thread_session_map = T]
    BY ZenonT(30), <1>1 DEF Dropped, TabTypes
<1> QED
    BY Zenon, <1>2, <1>3, <1>4, DropTables

-----------------------------------------------------------------------------
(* The running coroutine's steps. *)

\* A coroutine runs.
LEMMA Running ==
    ASSUME Control, TabTypes, Tables, run.pc = "run"
    PROVE  /\ run.cur \in Thread /\ at[run.cur] = "run" /\ at[run.cur] \notin Waiting
           /\ \A y : Pool([at EXCEPT ![run.cur] = y], tab.thread_pool)
           /\ Pool([at EXCEPT ![run.cur] = "pool"], Append(tab.thread_pool, run.cur))
           /\ Append(tab.thread_pool, run.cur) \in Seq(Thread)
<1>1. run.cur \in Thread /\ at[run.cur] = "run"
    BY Zenon DEF Control
<1> QED
    BY ZenonT(30), <1>1, Parts, PoolKeeps DEF Waiting

\* A session that is given out is a new one.
LEMMA NewNumber ==
    ASSUME NewSession, session \in Nat
    PROVE  session' = session + 1 /\ session' \in Session
BY LuaAssumption DEF NewSession, Session

\* A call does.
LEMMA CallTables ==
    ASSUME TabTypes, Tables, Control, NEW p \in Peer, Call(p)
    PROVE  TabTypes' /\ Tables'
<1> DEFINE c == run.cur
           n == session'
           w == tab.watching_session_map
<1> USE Numbers, Parts
<1>1. /\ n = session + 1 /\ n \in Session /\ at' = [at EXCEPT ![c] = "call"]
      /\ tab' = [tab EXCEPT !.watching_session_map[n] = p, !.session_thread_map[n] = c]
    BY Zenon, NewNumber DEF Call, Yield
<1>2. /\ c \in Thread /\ at[c] \notin Waiting /\ Pool([at EXCEPT ![c] = "call"], tab.thread_pool)
    BY ZenonT(30), Running DEF Call, Does
<1> HIDE DEF c
<1>3. /\ TabTypes' /\ tab'.session_thread_map = [tab.session_thread_map EXCEPT ![session + 1] = c]
      /\ tab'.sleep_session_map = tab.sleep_session_map
      /\ tab'.watching_session_map = [w EXCEPT ![session + 1] = p]
      /\ tab'.fork_queue = tab.fork_queue /\ tab'.error_queue = tab.error_queue
      /\ tab'.thread_pool = tab.thread_pool
    BY ZenonT(30), <1>1, <1>2 DEF TabTypes
<1>4. Sched([at EXCEPT ![c] = "call"], [tab.session_thread_map EXCEPT ![session + 1] = c],
            tab.sleep_session_map, [w EXCEPT ![session + 1] = p], tab.fork_queue,
            tab.error_queue, tab.thread_pool, session + 1)
    <2> DEFINE v == [w EXCEPT ![session + 1] = p]
    <2>1. v \in [Session -> Peer \cup {None}] /\ \A u \in Session : u # session + 1 => v[u] = w[u]
        BY ZenonT(30)
    <2>2. "call" \in Waiting /\ "call" \notin Asleep
        BY Zenon DEF Waiting, Asleep
    <2> HIDE DEF v
    <2>3. Sched([at EXCEPT ![c] = "call"], [tab.session_thread_map EXCEPT ![session + 1] = c],
                tab.sleep_session_map, v, tab.fork_queue, tab.error_queue, tab.thread_pool, session + 1)
        BY ZenonT(30), <1>1, <1>2, <2>1, <2>2, WaitMoves DEF Tables
    <2> QED
        BY Zenon, <2>3 DEF v
<1> QED
    BY Zenon, <1>1, <1>3, <1>4 DEF Tables

\* A sleep does.
LEMMA SuspendTables ==
    ASSUME TabTypes, Tables, Control, run.pc = "run", NEW y \in Asleep, Suspend(y)
    PROVE  TabTypes' /\ Tables' /\ tab'.thread_session_map = tab.thread_session_map
           /\ tab'.unresponse = tab.unresponse /\ tab'.thread_pool = tab.thread_pool
<1> DEFINE c == run.cur
           n == session'
           z == tab.sleep_session_map
<1> USE Numbers, Parts
<1>1. /\ n = session + 1 /\ n \in Session /\ at' = [at EXCEPT ![c] = y]
      /\ tab' = [tab EXCEPT !.session_thread_map[n] = c, !.sleep_session_map[c] = n]
    BY Zenon, NewNumber DEF Suspend, Yield
<1>2. /\ c \in Thread /\ at[c] \notin Waiting /\ Pool([at EXCEPT ![c] = y], tab.thread_pool)
    BY ZenonT(30), Running
<1> HIDE DEF c
<1>3. /\ TabTypes' /\ tab'.session_thread_map = [tab.session_thread_map EXCEPT ![session + 1] = c]
      /\ tab'.sleep_session_map = [z EXCEPT ![c] = session + 1]
      /\ tab'.watching_session_map = tab.watching_session_map
      /\ tab'.fork_queue = tab.fork_queue /\ tab'.error_queue = tab.error_queue
      /\ tab'.thread_pool = tab.thread_pool
      /\ tab'.thread_session_map = tab.thread_session_map /\ tab'.unresponse = tab.unresponse
    BY ZenonT(30), <1>1, <1>2 DEF TabTypes
<1>4. Sched([at EXCEPT ![c] = y], [tab.session_thread_map EXCEPT ![session + 1] = c],
            [z EXCEPT ![c] = session + 1], tab.watching_session_map, tab.fork_queue,
            tab.error_queue, tab.thread_pool, session + 1)
    <2>1. y \in Waiting /\ y # "call"
        BY Zenon DEF Waiting, Asleep
    <2> QED
        BY ZenonT(30), <1>1, <1>2, <2>1, WaitMoves DEF Tables
<1> QED
    BY Zenon, <1>1, <1>3, <1>4 DEF Tables

\* A fork does.
LEMMA ForkedTables ==
    ASSUME TabTypes, Tables, Fork
    PROVE  TabTypes' /\ Tables'
<1> DEFINE c == Created
           g == Unpooled
           h == Append(tab.fork_queue, c)
<1> USE Numbers, Parts
<1>1. /\ tab' = [tab EXCEPT !.thread_pool = Unpooled, !.fork_queue = Append(tab.fork_queue, Created)]
      /\ CanCreate /\ at' = [at EXCEPT ![Created] = "ready"] /\ session' = session
    BY Zenon DEF Fork, envVars
<1>2. c \in Thread /\ at[c] \notin Waiting /\ g \in Seq(Thread) /\ Pool([at EXCEPT ![c] = "ready"], g)
    BY ZenonT(30), <1>1, CreateMoves DEF Waiting
<1> HIDE DEF c, g
<1>3. Sched([at EXCEPT ![c] = "ready"], tab.session_thread_map, tab.sleep_session_map,
            tab.watching_session_map, h, tab.error_queue, g, session)
    BY ZenonT(30), <1>2, ForkMoves DEF Tables
<1>4. tab' = [tab EXCEPT !.thread_pool = g, !.fork_queue = h] /\ h \in Seq(Thread \cup {0})
    BY <1>1, <1>2 DEF c, g
<1> HIDE DEF h
<1>5. /\ TabTypes' /\ tab'.session_thread_map = tab.session_thread_map
      /\ tab'.sleep_session_map = tab.sleep_session_map
      /\ tab'.watching_session_map = tab.watching_session_map
      /\ tab'.fork_queue = h /\ tab'.error_queue = tab.error_queue /\ tab'.thread_pool = g
    BY ZenonT(30), <1>2, <1>4 DEF TabTypes
<1> QED
    BY ZenonT(30), <1>1, <1>3, <1>5 DEF Tables, c

\* A timeout does.
LEMMA TimeoutTables ==
    ASSUME TabTypes, Tables, Timeout
    PROVE  TabTypes' /\ Tables'
<1> DEFINE c == Created
           g == Unpooled
<1> USE Numbers, Parts
<1>1. /\ tab' = [tab EXCEPT !.thread_pool = Unpooled, !.session_thread_map[session'] = Created]
      /\ CanCreate /\ at' = [at EXCEPT ![Created] = "ready"]
      /\ session' = session + 1 /\ session + 1 \in Session
    BY Zenon, NewNumber DEF Timeout
<1>2. c \in Thread /\ at[c] \notin Waiting /\ g \in Seq(Thread) /\ Pool([at EXCEPT ![c] = "ready"], g)
    BY ZenonT(30), <1>1, CreateMoves DEF Waiting
<1> HIDE DEF c, g
<1>3. Sched([at EXCEPT ![c] = "ready"], [tab.session_thread_map EXCEPT ![session + 1] = c],
            tab.sleep_session_map, tab.watching_session_map, tab.fork_queue, tab.error_queue, g,
            session + 1)
    BY ZenonT(30), <1>1, <1>2, WaitMoves DEF Tables, Waiting, Asleep
<1>4. tab' = [tab EXCEPT !.thread_pool = g, !.session_thread_map[session + 1] = c]
    BY Zenon, <1>1 DEF c, g
<1>5. /\ TabTypes' /\ tab'.session_thread_map = [tab.session_thread_map EXCEPT ![session + 1] = c]
      /\ tab'.sleep_session_map = tab.sleep_session_map
      /\ tab'.watching_session_map = tab.watching_session_map
      /\ tab'.fork_queue = tab.fork_queue /\ tab'.error_queue = tab.error_queue
      /\ tab'.thread_pool = g
    <2> DEFINE k == session + 1
    <2>1. k \in Session
        BY Zenon, <1>1
    <2> HIDE DEF k
    <2>2. tab' = [tab EXCEPT !.thread_pool = g, !.session_thread_map[k] = c]
        BY Zenon, <1>4 DEF k
    <2> QED
        BY ZenonT(30), <1>2, <2>1, <2>2 DEF TabTypes, k
<1> QED
    BY Zenon, <1>1, <1>3, <1>5 DEF Tables, c

\* The end of a coroutine does.
LEMMA FinishTables ==
    ASSUME TabTypes, Tables, Control, Finish
    PROVE  /\ TabTypes' /\ Tables' /\ tab'.unresponse = tab.unresponse
           /\ tab'.thread_session_map = [tab.thread_session_map EXCEPT ![run.cur] = None]
<1> DEFINE c == run.cur
           q == Append(tab.thread_pool, c)
           h == IF tab.init_thread = c THEN 0 ELSE tab.init_thread
<1> USE Numbers, Parts
<1>1. /\ tab' = [tab EXCEPT !.thread_session_map[c] = None, !.thread_pool = q, !.init_thread = h]
      /\ at' = [at EXCEPT ![c] = "pool"] /\ session' = session /\ run.pc = "run"
    BY Zenon DEF Finish, Yield
<1>2. /\ c \in Thread /\ at[c] \notin Waiting
      /\ Pool([at EXCEPT ![c] = "pool"], q) /\ q \in Seq(Thread)
    BY Zenon, <1>1, Running
<1>3. NothingForked(tab.fork_queue, tab.fork_queue) /\ h \in Thread \cup {0}
    BY Zenon, ForkNothing DEF TabTypes
<1> HIDE DEF c, q, h
<1>4. Sched([at EXCEPT ![c] = "pool"], tab.session_thread_map, tab.sleep_session_map,
            tab.watching_session_map, tab.fork_queue, tab.error_queue, q, session)
    BY ZenonT(30), <1>2, <1>3, StateMoves DEF Tables
<1>5. /\ TabTypes' /\ tab'.unresponse = tab.unresponse
      /\ tab'.thread_session_map = [tab.thread_session_map EXCEPT ![c] = None]
      /\ tab'.session_thread_map = tab.session_thread_map
      /\ tab'.sleep_session_map = tab.sleep_session_map
      /\ tab'.watching_session_map = tab.watching_session_map
      /\ tab'.fork_queue = tab.fork_queue /\ tab'.error_queue = tab.error_queue
      /\ tab'.thread_pool = q
    BY ZenonT(30), <1>1, <1>2, <1>3 DEF TabTypes
<1> QED
    BY Zenon, <1>1, <1>4, <1>5 DEF Tables, c

\* The exit does.
LEMMA ExitTables ==
    ASSUME TabTypes, Tables, Control, run.pc = "run", NEW report, Exiting(report)
    PROVE  /\ TabTypes' /\ Tables' /\ tab'.thread_session_map = tab.thread_session_map
           /\ tab'.thread_pool = tab.thread_pool
<1> DEFINE f == tab.fork_queue
           a2 == [t \in Thread |->
                    IF t = run.cur \/ (\E i \in 1 .. Len(f) : f[i] = t) THEN "dead" ELSE at[t]]
<1>1. /\ tab' = [tab EXCEPT !.fork_queue = <<>>, !.unresponse = {}]
      /\ at' = a2 /\ session' = session
    BY DEF Exiting, Range
<1>2. Sched(a2, tab.session_thread_map, tab.sleep_session_map, tab.watching_session_map,
            <<>>, tab.error_queue, tab.thread_pool, session)
    <2>1. run.cur \in Thread /\ at[run.cur] = "run"
        BY Zenon DEF Control
    <2>2. a2 = [t \in Thread |->
                  IF t = run.cur \/ (\E i \in 1 .. Len(f) : f[i] = t) THEN "dead" ELSE at[t]]
        OBVIOUS
    <2>3. Sched(at, tab.session_thread_map, tab.sleep_session_map, tab.watching_session_map,
                f, tab.error_queue, tab.thread_pool, session)
        BY Zenon DEF Tables
    <2> HIDE DEF a2, f
    <2> QED
        BY <2>1, <2>2, <2>3, ExitMoves
<1> HIDE DEF a2
<1>3. /\ TabTypes' /\ tab'.thread_session_map = tab.thread_session_map
      /\ tab'.session_thread_map = tab.session_thread_map
      /\ tab'.sleep_session_map = tab.sleep_session_map
      /\ tab'.watching_session_map = tab.watching_session_map
      /\ tab'.fork_queue = <<>> /\ tab'.error_queue = tab.error_queue
      /\ tab'.thread_pool = tab.thread_pool
    <2> DEFINE g == <<>>
               V == {}
    <2>1. g \in Seq(Thread \cup {0}) /\ V \in SUBSET Request
        OBVIOUS
    <2>2. tab' = [tab EXCEPT !.fork_queue = g, !.unresponse = V]
        BY Zenon, <1>1
    <2> HIDE DEF g, V
    <2> QED
        BY ZenonT(30), <2>1, <2>2 DEF TabTypes, g
<1> QED
    BY Zenon, <1>1, <1>2, <1>3 DEF Tables

\* A coroutine that fails, and not the first one, does.
LEMMA FailTables ==
    ASSUME TabTypes, Tables, Control, run.pc = "run", tab' = Failed, session' = session,
           at' = [at EXCEPT ![run.cur] = "dead"]
    PROVE  /\ TabTypes' /\ Tables' /\ tab'.unresponse = tab.unresponse
           /\ tab'.thread_session_map = [tab.thread_session_map EXCEPT ![run.cur] = None]
           /\ tab'.thread_pool = tab.thread_pool
<1> DEFINE c == run.cur
           g == Append(tab.fork_queue, 0)
<1> USE Numbers, Parts
<1>1. /\ tab' = [tab EXCEPT !.thread_session_map[c] = None, !.fork_queue = g]
      /\ at' = [at EXCEPT ![c] = "dead"]
    BY Zenon DEF Failed
<1>2. c \in Thread /\ at[c] \notin Waiting /\ Pool([at EXCEPT ![c] = "dead"], tab.thread_pool)
    BY ZenonT(30), Running
<1>3. NothingForked(tab.fork_queue, g) /\ g \in Seq(Thread \cup {0})
    BY ForkNothing
<1> HIDE DEF c, g
<1>4. Sched([at EXCEPT ![c] = "dead"], tab.session_thread_map, tab.sleep_session_map,
            tab.watching_session_map, g, tab.error_queue, tab.thread_pool, session)
    BY ZenonT(30), <1>2, <1>3, StateMoves DEF Tables
<1>5. /\ TabTypes' /\ tab'.unresponse = tab.unresponse
      /\ tab'.thread_session_map = [tab.thread_session_map EXCEPT ![c] = None]
      /\ tab'.session_thread_map = tab.session_thread_map
      /\ tab'.sleep_session_map = tab.sleep_session_map
      /\ tab'.watching_session_map = tab.watching_session_map
      /\ tab'.fork_queue = g /\ tab'.error_queue = tab.error_queue
      /\ tab'.thread_pool = tab.thread_pool
    <2>1. tab' = [tab EXCEPT !.thread_session_map[c] = None, !.fork_queue = g]
        BY Zenon, <1>1
    <2>2. c \in Thread /\ g \in Seq(Thread \cup {0})
        BY Zenon, <1>2, <1>3
    <2>3. TabTypes'
        <3> DEFINE T == [tab.thread_session_map EXCEPT ![c] = None]
        <3>1. T \in [Thread -> Request \cup {None, 0}]
            BY Zenon, <2>2 DEF TabTypes
        <3>2. tab' = [tab EXCEPT !.thread_session_map = T, !.fork_queue = g]
            BY Zenon, <2>1 DEF TabTypes
        <3> HIDE DEF T
        <3> QED
            BY ZenonT(30), <2>2, <3>1, <3>2 DEF TabTypes
    <2> QED
        BY Zenon, <2>1, <2>2, <2>3 DEF TabTypes
<1> QED
    BY Zenon, <1>1, <1>4, <1>5 DEF Tables, c

\* Steps that change none of the tables the scheduler finds coroutines by.
LEMMA QuietTables ==
    ASSUME TabTypes, Tables, UNCHANGED <<at, session>>,
           NEW q \in Seq(Thread), NEW T \in [Thread -> Request \cup {None, 0}],
           NEW U \in SUBSET Request,
           tab' = [tab EXCEPT !.wakeup_queue = q, !.thread_session_map = T, !.unresponse = U]
    PROVE  /\ TabTypes' /\ Tables' /\ tab'.thread_session_map = T /\ tab'.unresponse = U
           /\ tab'.thread_pool = tab.thread_pool
<1>1. /\ TabTypes' /\ tab'.thread_session_map = T /\ tab'.unresponse = U
      /\ tab'.session_thread_map = tab.session_thread_map
      /\ tab'.sleep_session_map = tab.sleep_session_map
      /\ tab'.watching_session_map = tab.watching_session_map
      /\ tab'.fork_queue = tab.fork_queue /\ tab'.error_queue = tab.error_queue
      /\ tab'.thread_pool = tab.thread_pool
    BY ZenonT(30) DEF TabTypes
<1> QED
    BY Zenon, <1>1 DEF Tables

\* A wakeup is one.
LEMMA WokenTables ==
    ASSUME TabTypes, Tables, UNCHANGED <<at, session>>, NEW t \in Thread, tab' \in {tab, Woken(t)}
    PROVE  /\ TabTypes' /\ Tables' /\ tab'.thread_session_map = tab.thread_session_map
           /\ tab'.unresponse = tab.unresponse /\ tab'.thread_pool = tab.thread_pool
<1> DEFINE T == tab.thread_session_map
           U == tab.unresponse
<1>1. T \in [Thread -> Request \cup {None, 0}] /\ U \in SUBSET Request
    BY Zenon DEF TabTypes
<1>2. CASE tab' = tab
    BY Zenon, <1>2 DEF TabTypes, Tables
<1>3. CASE tab' = Woken(t)
    <2> DEFINE q == Append(tab.wakeup_queue, t)
    <2>1. q \in Seq(Thread)
        BY Parts
    <2>2. tab' = [tab EXCEPT !.wakeup_queue = q, !.thread_session_map = T, !.unresponse = U]
        BY ZenonT(30), <1>3 DEF Woken, TabTypes
    <2> HIDE DEF q, T, U
    <2>3. TabTypes' /\ Tables' /\ tab'.thread_session_map = T /\ tab'.unresponse = U
          /\ tab'.thread_pool = tab.thread_pool
        BY ZenonT(30), <1>1, <2>1, <2>2, QuietTables
    <2> QED
        BY Zenon, <2>3 DEF T, U
<1> QED
    BY Zenon, <1>2, <1>3

\* The running coroutine lets go of its request, or the responses change.
LEMMA AnswerTables ==
    ASSUME TabTypes, Tables, Control, UNCHANGED <<at, session>>,
           NEW T \in [Thread -> Request \cup {None, 0}], NEW U \in SUBSET Request,
           tab' = [tab EXCEPT !.thread_session_map = T, !.unresponse = U]
    PROVE  /\ TabTypes' /\ Tables' /\ tab'.thread_session_map = T /\ tab'.unresponse = U
           /\ tab'.thread_pool = tab.thread_pool
<1> DEFINE q == tab.wakeup_queue
<1>1. q \in Seq(Thread)
    BY Zenon, Parts
<1>2. tab' = [tab EXCEPT !.wakeup_queue = q, !.thread_session_map = T, !.unresponse = U]
    BY ZenonT(30) DEF TabTypes
<1> HIDE DEF q
<1> QED
    BY ZenonT(30), <1>1, <1>2, QuietTables

\* Ret, Response and Respond are three.
LEMMA ReplyTables ==
    ASSUME TabTypes, Tables, Control
    PROVE  /\ Ret => /\ TabTypes' /\ Tables' /\ tab'.unresponse = tab.unresponse
                     /\ tab'.thread_session_map = [tab.thread_session_map EXCEPT ![run.cur] = None]
                     /\ tab'.thread_pool = tab.thread_pool
           /\ Response => /\ TabTypes' /\ Tables'
                          /\ tab'.unresponse = tab.unresponse \cup ({Mine} \ {0})
                          /\ tab'.thread_session_map = [tab.thread_session_map EXCEPT ![run.cur] = None]
                          /\ tab'.thread_pool = tab.thread_pool
           /\ \A r \in Request : Respond(r) =>
                     /\ TabTypes' /\ Tables' /\ tab'.unresponse = tab.unresponse \ {r}
                     /\ tab'.thread_session_map = tab.thread_session_map
                     /\ tab'.thread_pool = tab.thread_pool
<1> DEFINE c == run.cur
           S == tab.thread_session_map
           T == [S EXCEPT ![c] = None]
           U == tab.unresponse
<1> USE Numbers
<1>0. S \in [Thread -> Request \cup {None, 0}] /\ U \in SUBSET Request
    BY Zenon DEF TabTypes
<1>1. T \in [Thread -> Request \cup {None, 0}]
    BY ZenonT(30), <1>0
<1>2. ASSUME Ret
      PROVE  TabTypes' /\ Tables' /\ tab'.unresponse = U /\ tab'.thread_session_map = T
             /\ tab'.thread_pool = tab.thread_pool
    <2>1. tab' = [tab EXCEPT !.thread_session_map = T, !.unresponse = U] /\ UNCHANGED <<at, session>>
        BY ZenonT(30), <1>2 DEF Ret, TabTypes
    <2> HIDE DEF T, U
    <2> QED
        BY ZenonT(30), <1>0, <1>1, <2>1, AnswerTables
<1>3. ASSUME Response
      PROVE  TabTypes' /\ Tables' /\ tab'.unresponse = U \cup ({Mine} \ {0}) /\ tab'.thread_session_map = T
             /\ tab'.thread_pool = tab.thread_pool
    <2> DEFINE V == U \cup ({Mine} \ {0})
    <2>1. tab' = [tab EXCEPT !.thread_session_map = T, !.unresponse = V] /\ UNCHANGED <<at, session>>
        BY Zenon, <1>3 DEF Response, envVars, TabTypes
    <2>2. V \in SUBSET Request
        <3>1. c \in Thread /\ Mine # None
            BY Zenon, <1>3 DEF Response, Does, Control
        <3> QED
            BY Zenon, <1>0, <3>1 DEF Mine
    <2> HIDE DEF T, V
    <2>3. TabTypes' /\ Tables' /\ tab'.unresponse = V /\ tab'.thread_session_map = T
          /\ tab'.thread_pool = tab.thread_pool
        BY ZenonT(30), <1>1, <2>1, <2>2, AnswerTables
    <2> QED
        BY Zenon, <2>3 DEF V
<1>4. ASSUME NEW r \in Request, Respond(r)
      PROVE  TabTypes' /\ Tables' /\ tab'.unresponse = U \ {r} /\ tab'.thread_session_map = S
             /\ tab'.thread_pool = tab.thread_pool
    <2> DEFINE V == U \ {r}
    <2>1. tab' = [tab EXCEPT !.thread_session_map = S, !.unresponse = V] /\ UNCHANGED <<at, session>>
        BY ZenonT(30), <1>4 DEF Respond, TabTypes
    <2>2. V \in SUBSET Request
        BY Zenon, <1>0
    <2> HIDE DEF S, V
    <2>3. TabTypes' /\ Tables' /\ tab'.unresponse = V /\ tab'.thread_session_map = S
          /\ tab'.thread_pool = tab.thread_pool
        BY ZenonT(30), <1>0, <2>1, <2>2, AnswerTables
    <2> QED
        BY Zenon, <2>3 DEF V
<1> QED
    BY Zenon, <1>2, <1>3, <1>4

\* Term does, too.
LEMMA TermTables ==
    ASSUME TabTypes, Tables, Control, NEW p \in Peer, Term(p)
    PROVE  /\ TabTypes' /\ Tables' /\ tab'.unresponse = tab.unresponse \ KeptFor(p)
           /\ tab'.thread_session_map = [tab.thread_session_map EXCEPT ![run.cur] = None]
           /\ tab'.thread_pool = tab.thread_pool
<1>1. PICK order \in CallsTo(p) :
          tab' = [Dropped(p, order) EXCEPT !.thread_session_map[run.cur] = None]
    BY Zenon DEF Term
<1>2. UNCHANGED <<at, session>>
    BY Zenon DEF Term
<1> DEFINE T == [tab.thread_session_map EXCEPT ![run.cur] = None]
<1>3. T \in [Thread -> Request \cup {None, 0}]
    BY ZenonT(30) DEF TabTypes
<1>4. tab' = [Dropped(p, order) EXCEPT !.thread_session_map = T]
    BY Zenon, <1>1 DEF Dropped, TabTypes
<1> HIDE DEF T
<1>5. TabTypes' /\ Tables' /\ tab'.unresponse = tab.unresponse \ KeptFor(p)
      /\ tab'.thread_session_map = T /\ tab'.thread_pool = tab.thread_pool
    BY Zenon, <1>2, <1>3, <1>4, DropTables
<1> QED
    BY Zenon, <1>5 DEF T

\* The critical section is entered or left.
LEMMA SectionTables ==
    ASSUME TabTypes, Tables, Control, Section, Enter \/ Leave
    PROVE  /\ TabTypes' /\ Tables' /\ tab'.thread_session_map = tab.thread_session_map
           /\ tab'.unresponse = tab.unresponse /\ tab'.thread_pool = tab.thread_pool
<1>1. CASE Enter
    <2>1. CASE UNCHANGED <<run, at, tab>> /\ UNCHANGED envVars
        BY Zenon, <2>1 DEF TabTypes, Tables, envVars
    <2>2. CASE Suspend("queue")
        BY Zenon, <1>1, <2>2, SuspendTables DEF Enter, Does, Asleep
    <2> QED
        BY Zenon, <1>1, <2>1, <2>2 DEF Enter
<1>2. CASE Leave
    <2>1. UNCHANGED <<at, session>>
        BY Zenon, <1>2 DEF Leave, envVars
    <2>2. CASE tab' = tab
        BY Zenon, <2>1, <2>2 DEF TabTypes, Tables
    <2>3. CASE section.thread_queue # <<>> /\ tab' = NextWoken(Head(section.thread_queue))
        <3> DEFINE t == Head(section.thread_queue)
        <3>1. t \in Thread
            BY Zenon, <2>3, TailElements DEF Section
        <3>2. tab' \in {tab, Woken(t)}
            BY Zenon, <2>3 DEF NextWoken
        <3> HIDE DEF t
        <3> QED
            BY Zenon, <2>1, <3>1, <3>2, WokenTables
    <2> QED
        BY Zenon, <1>2, <2>2, <2>3 DEF Leave
<1> QED
    BY Zenon, <1>1, <1>2

-----------------------------------------------------------------------------
(* Control and the critical section. *)

\* A coroutine goes on, inside the critical section if it waited for that.
LEMMA ResumeKeeps ==
    ASSUME TabTypes, Tables, Section, NEW t \in Thread, NEW d \in Nat, Resume(t, d)
    PROVE  Control' /\ Section'
<1>1. Control'
    BY Zenon, Parts DEF Control, Resume, Run
<1>2. Section'
    <2>1. CASE at[t] = "queue" /\ section.ref = 0
        <3>1. section' = [section EXCEPT !.current_thread = t, !.ref = 1, !.inside[t] = 1]
            BY Zenon, <2>1 DEF Resume, Entered
        <3>2. /\ section'.current_thread = t /\ section'.ref = 1
              /\ section'.inside = [section.inside EXCEPT ![t] = 1]
              /\ section' \in [current_thread : Thread \cup {0}, ref : Nat,
                               thread_queue : Seq(Thread), inside : [Thread -> Nat]]
            BY ZenonT(30), <3>1 DEF Section
        <3>3. \A u \in Thread : section.inside[u] = 0
            BY Zenon, <2>1 DEF Section
        <3> QED
            BY Zenon, <3>2, <3>3, Numbers DEF Section
    <2>2. CASE section' = section
        BY Zenon, <2>2 DEF Section
    <2> QED
        BY Zenon, <2>1, <2>2 DEF Resume, Entered
<1> QED
    BY Zenon, <1>1, <1>2

\* The scheduler runs, or the message is done.
LEMMA Stopped ==
    ASSUME NEW pc \in {"idle", "suspend", "errors", "forks"}, NEW d \in Nat, Run(pc, 0, d)
    PROVE  Control'
BY Zenon DEF Control, Run

\* A call of suspend returns, or all do.
LEMMA Returned ==
    ASSUME Control, Return \/ Unwind
    PROVE  Control'
<1>1. run.depth \in Nat
    BY Zenon DEF Control
<1>2. CASE Run("errors", 0, run.depth - 1) /\ run.depth > 0
    <2>1. run.depth - 1 \in Nat
        BY <1>1, <1>2
    <2> QED
        BY Zenon, <1>2, <2>1, Stopped
<1>3. CASE Run("forks", 0, 0)
    BY Zenon, <1>3, Stopped
<1> QED
    BY Zenon, <1>2, <1>3 DEF Return, Unwind

\* The section does not change.
LEMMA SameSection ==
    ASSUME Section, section' = section
    PROVE  Section'
BY Zenon DEF Section

\* Those that the scheduler resumes are coroutines.
LEMMA SchedulerFrame ==
    ASSUME TabTypes, Tables, Control, Section, Scheduler
    PROVE  Control' /\ Section'
<1> USE Numbers, Parts
<1>0. run.depth \in Nat /\ run.depth + 1 \in Nat
    BY SMTT(30) DEF Control
<1>1. CASE DispatchWakeup
    <2> DEFINE q == tab.wakeup_queue
               token == Head(q)
               s == tab.sleep_session_map[token]
               t == tab.session_thread_map[s]
    <2>1. CASE Run("errors", 0, run.depth) /\ section' = section
        BY Zenon, <1>0, <2>1, Stopped, SameSection
    <2>2. CASE q # <<>> /\ s # None /\ Resume(t, run.depth + 1)
        <3>1. t \in Thread
            BY Zenon, <2>2, WakeTarget
        <3> HIDE DEF t
        <3> QED
            BY Zenon, <1>0, <2>2, <3>1, ResumeKeeps
    <2> QED
        BY Zenon, <1>1, <2>1, <2>2 DEF DispatchWakeup
<1>2. CASE DispatchErrorQueue
    <2> DEFINE q == tab.error_queue
               t == tab.session_thread_map[Head(q)]
    <2>1. CASE (Return \/ Unwind) /\ section' = section
        BY Zenon, <2>1, Returned, SameSection
    <2>2. CASE q # <<>> /\ t # None /\ Resume(t, run.depth)
        <3>1. t \in Thread
            <4>1. Head(q) = q[1] /\ 1 \in 1 .. Len(q)
                BY Zenon, <2>2, TailElements
            <4> QED
                BY Zenon, <2>2, <4>1 DEF Tables, Sched, Calls
        <3> HIDE DEF t
        <3> QED
            BY Zenon, <1>0, <2>2, <3>1, ResumeKeeps
    <2> QED
        BY Zenon, <1>2, <2>1, <2>2 DEF DispatchErrorQueue
<1>3. CASE RunForks
    <2> DEFINE q == tab.fork_queue
               t == Head(q)
    <2>1. CASE (Run("idle", 0, 0) \/ Run("suspend", 0, 0)) /\ section' = section
        BY Zenon, <2>1, Stopped, SameSection
    <2>2. CASE q # <<>> /\ t # 0 /\ Resume(t, 0)
        <3>1. t \in Thread
            BY SMTT(30), <2>2, TailElements
        <3> HIDE DEF t
        <3> QED
            BY Zenon, <2>2, <3>1, ResumeKeeps
    <2> QED
        BY Zenon, <1>3, <2>1, <2>2 DEF RunForks
<1> QED
    BY Zenon, <1>1, <1>2, <1>3 DEF Scheduler

\* So are those that a message starts or resumes.
LEMMA MessageFrame ==
    ASSUME TabTypes, Tables, Control, Section, Boot \/ Receive
    PROVE  Control' /\ Section'
<1> USE Parts
<1>1. CASE Boot
    BY Zenon, <1>1, Stopped, SameSection DEF Boot
<1>2. ASSUME NEW p \in Peer, HandleRequest(p) PROVE Control' /\ Section'
    <2>1. Created \in Thread
        BY Zenon, <1>2, CreateMoves DEF HandleRequest
    <2> QED
        BY ZenonT(30), <1>2, <2>1, ResumeKeeps DEF HandleRequest
<1>3. ASSUME NEW p \in Peer, HandleUnknown(p) PROVE Control' /\ Section'
    <2>1. UNCHANGED <<run, at, tab, section>> /\ run.pc = "idle"
        BY Zenon, <1>3 DEF HandleUnknown, Message
    <2> QED
        BY Zenon, <2>1, SameSection DEF Control
<1>4. ASSUME NEW p \in Peer, HandleDown(p) PROVE Control' /\ Section'
    BY Zenon, <1>4, Stopped, SameSection DEF HandleDown
<1>5. ASSUME NEW s \in Session, HandleError(s) PROVE Control' /\ Section'
    BY Zenon, <1>5, Stopped, SameSection DEF HandleError
<1>6. ASSUME NEW s \in Session, HandleResponse(s) PROVE Control' /\ Section'
    <2> DEFINE t == tab.session_thread_map[s]
    <2>1. CASE UNCHANGED <<run, at, section>>
        <3>1. run.pc = "idle"
            BY Zenon, <1>6 DEF HandleResponse, Message
        <3> QED
            BY Zenon, <2>1, <3>1, SameSection DEF Control
    <2>2. CASE t \notin {None, Break} /\ Resume(t, 0)
        <3>1. t \in Thread
            BY Zenon, <2>2
        <3> HIDE DEF t
        <3> QED
            BY Zenon, <2>2, <3>1, ResumeKeeps
    <2> QED
        BY Zenon, <1>6, <2>1, <2>2 DEF HandleResponse
<1> QED
    BY Zenon, <1>1, <1>2, <1>3, <1>4, <1>5, <1>6 DEF Receive

\* The running coroutine enters the section.
LEMMA EnterFrame ==
    ASSUME TabTypes, Tables, Control, Section, Enter
    PROVE  Control' /\ Section'
<1> DEFINE c == run.cur
<1> USE Numbers
<1>0. c \in Thread /\ run.pc = "run" /\ run.depth \in Nat
    BY Zenon DEF Enter, Does, Control
<1>1. CASE /\ section.current_thread \in {0, c}
           /\ section' = [section EXCEPT !.current_thread = c, !.ref = @ + 1, !.inside[c] = @ + 1]
           /\ UNCHANGED <<run, at, tab>>
    <2> DEFINE k == section.ref + 1
               I == [section.inside EXCEPT ![c] = section.inside[c] + 1]
    <2>a. section.ref \in Nat /\ section.inside \in [Thread -> Nat] /\ section.inside[c] \in Nat
        BY Zenon, <1>0 DEF Section
    <2>b. k \in Nat /\ I \in [Thread -> Nat]
        BY <1>0, <2>a
    <2>c. section' = [section EXCEPT !.current_thread = c, !.ref = k, !.inside = I]
        BY Zenon, <1>1 DEF Section
    <2>1. /\ section' \in [current_thread : Thread \cup {0}, ref : Nat,
                           thread_queue : Seq(Thread), inside : [Thread -> Nat]]
          /\ section'.current_thread = c /\ section'.ref = k /\ section'.inside = I
        <3> HIDE DEF k, I
        <3> QED
            BY ZenonT(30), <1>0, <2>b, <2>c DEF Section
    <2>2. section.inside[c] = section.ref
        BY Zenon, <1>0, <1>1 DEF Section
    <2>3. \A u \in Thread : u # c => section.inside[u] = 0
        BY Zenon, <1>1 DEF Section
    <2>5. \A u \in Thread : section'.inside[u] = IF u = section'.current_thread THEN section'.ref ELSE 0
        <3> HIDE DEF c
        <3> QED
            BY Zenon, <1>0, <2>1, <2>2, <2>3, <2>a
    <2>6. Section'
        BY SMTT(30), <1>0, <2>1, <2>5 DEF Section
    <2> QED
        BY Zenon, <1>0, <1>1, <2>6 DEF Control
<1>2. CASE /\ section' = [section EXCEPT !.thread_queue = Append(@, c)]
           /\ Suspend("queue")
    <2>1. Control'
        BY Zenon, <1>0, <1>2, Stopped DEF Suspend, Yield
    <2> DEFINE g == Append(section.thread_queue, c)
    <2>a. g \in Seq(Thread) /\ section' = [section EXCEPT !.thread_queue = g]
        BY <1>0, <1>2 DEF Section
    <2> HIDE DEF g
    <2>2. /\ section' \in [current_thread : Thread \cup {0}, ref : Nat,
                           thread_queue : Seq(Thread), inside : [Thread -> Nat]]
          /\ section'.current_thread = section.current_thread /\ section'.ref = section.ref
          /\ section'.inside = section.inside
        BY ZenonT(30), <2>a DEF Section
    <2> QED
        BY Zenon, <2>1, <2>2 DEF Section
<1> QED
    BY Zenon, <1>1, <1>2 DEF Enter

\* It leaves the section, which is passed on only when nobody is inside any more.
LEMMA LeaveFrame ==
    ASSUME TabTypes, Tables, Control, Section, Leave
    PROVE  Control' /\ Section'
<1> DEFINE c == run.cur
           q == section.thread_queue
<1> USE Numbers
<1>0. c \in Thread /\ run.pc = "run" /\ UNCHANGED <<run, at>>
    BY Zenon DEF Leave, Does, Control
<1>1. /\ section.ref \in Nat \ {0} /\ section.current_thread = c
      /\ section.inside \in [Thread -> Nat] /\ section.inside[c] = section.ref
      /\ \A u \in Thread : u # c => section.inside[u] = 0
    BY SMTT(30), <1>0 DEF Leave, Section
<1> DEFINE k == section.ref - 1
           I == [section.inside EXCEPT ![c] = section.inside[c] - 1]
<1>2. k \in Nat /\ I \in [Thread -> Nat] /\ q \in Seq(Thread)
    BY <1>0, <1>1 DEF Section
<1>3. \A u \in Thread : I[u] = IF u = c THEN k ELSE 0
    BY Zenon, <1>0, <1>1
<1>4. LeftOnce = [section EXCEPT !.ref = k, !.inside = I]
    BY Zenon DEF LeftOnce, Section
<1> HIDE DEF k, I
<1>5. /\ LeftOnce \in [current_thread : Thread \cup {0}, ref : Nat,
                       thread_queue : Seq(Thread), inside : [Thread -> Nat]]
      /\ LeftOnce.ref = k /\ LeftOnce.inside = I /\ LeftOnce.current_thread = c
    BY ZenonT(30), <1>1, <1>2, <1>4 DEF Section
<1>6. Control'
    BY Zenon, <1>0 DEF Control
<1> HIDE DEF c, q
<1>7. CASE section' = LeftOnce
    <2>1. /\ section'.current_thread = c /\ section'.ref = k /\ section'.inside = I
          /\ section' \in [current_thread : Thread \cup {0}, ref : Nat,
                           thread_queue : Seq(Thread), inside : [Thread -> Nat]]
        BY Zenon, <1>5, <1>7
    <2> QED
        BY Zenon, <1>0, <1>3, <1>6, <2>1 DEF Section
<1>8. k = 0 => \A u \in Thread : I[u] = 0
    BY Zenon, <1>3
<1>9. CASE ~(k > 0) /\ section' = [LeftOnce EXCEPT !.current_thread = 0]
    <2>1. k = 0
        BY <1>2, <1>9
    <2>2. /\ section' \in [current_thread : Thread \cup {0}, ref : Nat,
                           thread_queue : Seq(Thread), inside : [Thread -> Nat]]
          /\ section'.current_thread = 0 /\ section'.ref = 0 /\ section'.inside = I
        BY ZenonT(30), <1>5, <1>9, <2>1
    <2> QED
        BY Zenon, <1>6, <1>8, <2>1, <2>2 DEF Section
<1>10. CASE /\ ~(k > 0) /\ q # <<>>
            /\ section' = [LeftOnce EXCEPT !.current_thread = Head(q), !.thread_queue = Tail(q)]
    <2>1. k = 0
        BY <1>2, <1>10
    <2>2. Head(q) \in Thread /\ Tail(q) \in Seq(Thread)
        BY Zenon, <1>2, <1>10, TailElements
    <2>3. /\ section' \in [current_thread : Thread \cup {0}, ref : Nat,
                           thread_queue : Seq(Thread), inside : [Thread -> Nat]]
          /\ section'.ref = 0 /\ section'.inside = I
        BY ZenonT(30), <1>5, <1>10, <2>1, <2>2
    <2> QED
        BY Zenon, <1>6, <1>8, <2>1, <2>3 DEF Section
<1> QED
    BY Zenon, <1>5, <1>6, <1>7, <1>9, <1>10 DEF Leave, q

\* The other steps of a coroutine.
LEMMA CoroutineFrame ==
    ASSUME TabTypes, Tables, Control, Section, Coroutine
    PROVE  Control' /\ Section'
<1> USE Parts
<1>0. run.depth \in Nat /\ (run.pc = "run" => run.cur \in Thread /\ at[run.cur] = "run")
    BY Zenon DEF Control
<1>1. ASSUME UNCHANGED <<run, section>>, run.pc = "run", at' = at \/ (CanCreate /\ at' = [at EXCEPT ![Created] = "ready"])
      PROVE  Control' /\ Section'
    <2>1. CASE at' = at
        BY Zenon, <1>1, <2>1, SameSection DEF Control
    <2>2. CASE CanCreate /\ at' = [at EXCEPT ![Created] = "ready"]
        <3>1. Created \in Thread /\ at[Created] \in {"none", "pool"}
            BY ZenonT(30), <2>2, CreateMoves
        <3>2. at'[run.cur] = "run"
            BY Zenon, <1>0, <1>1, <2>2, <3>1
        <3> QED
            BY Zenon, <1>1, <3>2, SameSection DEF Control
    <2> QED
        BY Zenon, <1>1, <2>1, <2>2
<1>2. ASSUME NEW y, Yield(y), section' = section
      PROVE  Control' /\ Section'
    BY Zenon, <1>0, <1>2, Stopped, SameSection DEF Yield
<1>3. ASSUME NEW p \in Peer, Call(p) PROVE Control' /\ Section'
    BY Zenon, <1>2, <1>3 DEF Call
<1>4. ASSUME NEW p \in Peer, Term(p) PROVE Control' /\ Section'
    BY Zenon, <1>1, <1>4 DEF Term, Does
<1>5. ASSUME NEW y \in {"sleep", "wait"}, Sleep(y) PROVE Control' /\ Section'
    BY Zenon, <1>2, <1>5 DEF Sleep, Suspend
<1>6. ASSUME NEW t \in Thread, Wakeup(t) PROVE Control' /\ Section'
    BY Zenon, <1>1, <1>6 DEF Wakeup, Does
<1>7. ASSUME NEW r \in Request, Respond(r) PROVE Control' /\ Section'
    BY Zenon, <1>1, <1>7 DEF Respond, Does
<1>8. CASE Fork
    BY Zenon, <1>1, <1>8 DEF Fork, Does
<1>9. CASE Timeout
    BY Zenon, <1>1, <1>9 DEF Timeout, Does
<1>10. CASE Ret
    BY Zenon, <1>1, <1>10 DEF Ret, Does
<1>11. CASE Response
    BY Zenon, <1>1, <1>11 DEF Response, Does
<1>12. CASE Finish
    BY Zenon, <1>2, <1>12 DEF Finish
<1>13. ASSUME NEW report, Exiting(report) PROVE Control' /\ Section'
    BY Zenon, <1>13, Returned, SameSection DEF Exiting
<1>14. CASE Exit
    BY Zenon, <1>13, <1>14 DEF Exit
<1>15. CASE Fail
    <2>1. CASE Exiting({"ERROR", "REMOVE"})
        BY Zenon, <1>13, <2>1
    <2>2. CASE Unwind /\ section' = section
        BY Zenon, <2>2, Returned, SameSection
    <2> QED
        BY Zenon, <1>15, <2>1, <2>2 DEF Fail
<1> QED
    BY <1>3, <1>4, <1>5, <1>6, <1>7, <1>8, <1>9, <1>10, <1>11, <1>12, <1>14, <1>15,
       EnterFrame, LeaveFrame DEF Coroutine

-----------------------------------------------------------------------------
(* What becomes of the requests. *)

\* The types of what the requests are kept in.
LEMMA LedgerTypes ==
    ASSUME TabTypes, Tables, Ledger
    PROVE  /\ RequestTypes(at, tab.thread_session_map, tab.unresponse, answers, Len(from))
           /\ Len(from) \in Nat /\ Len(from) <= MaxRequest /\ answers \in [Request -> Nat]
<1>1. Len(from) \in Nat /\ Len(from) <= MaxRequest /\ answers \in [Request -> Nat]
    BY DEF Ledger
<1> QED
    BY Zenon, <1>1, Parts DEF RequestTypes, TabTypes

\* A step that only moves coroutines, or lets them go on, keeps the requests.
LEMMA LedgerStays ==
    ASSUME Ledger, UNCHANGED <<from, answers, forgot, exited>>,
           tab'.thread_session_map = tab.thread_session_map, tab'.unresponse = tab.unresponse,
           \A t \in Thread : at'[t] \in Idle => at[t] \in Idle
    PROVE  Ledger'
<1>1. CASE exited
    BY Zenon, <1>1 DEF Ledger
<1>2. CASE ~exited
    <2>1. Requests(at, tab.thread_session_map, tab.unresponse, answers, forgot, Len(from))
        BY Zenon, <1>2 DEF Ledger
    <2>2. Requests(at', tab.thread_session_map, tab.unresponse, answers, forgot, Len(from))
        BY Zenon, <2>1, RequestsStay
    <2> QED
        BY Zenon, <1>2, <2>2 DEF Ledger
<1> QED
    BY Zenon, <1>1, <1>2 DEF Ledger

\* Requests change hands while the service is there; after that only more answers
\* may come.
LEMMA LedgerMoves ==
    ASSUME TabTypes, Tables, Ledger, Grown(answers, answers'),
           UNCHANGED <<from, exited>>, forgot \subseteq forgot',
           ~exited => Requests(at', tab'.thread_session_map, tab'.unresponse, answers', forgot', Len(from))
    PROVE  Ledger'
<1>1. /\ Len(from) \in Nat /\ Len(from) <= MaxRequest /\ answers \in [Request -> Nat]
      /\ answers' \in [Request -> Nat] /\ from \in Seq(Peer) /\ exited \in BOOLEAN
    BY Zenon, LedgerTypes DEF Ledger, Grown
<1>2. exited => Settled(answers, forgot, Len(from))
    BY Zenon DEF Ledger
<1>3. exited => Settled(answers', forgot', Len(from))
    BY Zenon, <1>1, <1>2, SettledStays
<1> QED
    BY Zenon, <1>1, <1>3 DEF Ledger

\* The scheduler keeps the requests.
LEMMA SchedulerLedger ==
    ASSUME TabTypes, Tables, Ledger, Scheduler
    PROVE  Ledger'
<1>1. UNCHANGED <<from, answers, forgot, exited>>
    BY Zenon DEF Scheduler, DispatchWakeup, DispatchErrorQueue, RunForks, envVars, endVars
<1>2. tab'.thread_session_map = tab.thread_session_map /\ tab'.unresponse = tab.unresponse
    <2>1. CASE DispatchWakeup
        BY ZenonT(30), <2>1 DEF DispatchWakeup, TabTypes
    <2>2. CASE DispatchErrorQueue
        BY ZenonT(30), <2>2 DEF DispatchErrorQueue, TabTypes
    <2>3. CASE RunForks
        BY Zenon, <2>3 DEF RunForks, TabTypes
    <2> QED
        BY Zenon, <2>1, <2>2, <2>3 DEF Scheduler
<1>3. at' = at \/ \E t : at' = [at EXCEPT ![t] = "run"]
    BY ZenonT(30) DEF Scheduler, DispatchWakeup, DispatchErrorQueue, RunForks, Resume
<1>4. \A t \in Thread : at'[t] \in Idle => at[t] \in Idle
    BY Zenon, <1>3, Parts DEF Idle
<1> QED
    BY Zenon, <1>1, <1>2, <1>4, LedgerStays

\* So do the messages, which give a request to a coroutine or answer it.
LEMMA MessageLedger ==
    ASSUME TabTypes, Tables, Control, Ledger, Boot \/ Receive
    PROVE  Ledger'
<1> DEFINE k == Len(from)
           T == tab.thread_session_map
           U == tab.unresponse
<1>0. /\ RequestTypes(at, T, U, answers, k) /\ k \in Nat /\ k <= MaxRequest
      /\ answers \in [Request -> Nat] /\ from \in Seq(Peer) /\ exited \in BOOLEAN
    BY Zenon, LedgerTypes DEF Ledger
<1>1. CASE Boot
    <2>1. UNCHANGED <<from, answers, forgot>> /\ from = <<>>
        BY Zenon, <1>1 DEF Boot, Control
    <2>2. CASE exited'
        BY <1>0, <2>1, <2>2 DEF Ledger, Settled
    <2>3. CASE ~exited'
        <3>1. /\ exited' = exited /\ at' = [at EXCEPT ![Created] = "ready"]
              /\ tab' = [tab EXCEPT !.session_thread_map[session'] = Created, !.init_thread = Created]
            BY Zenon, <1>1, <2>3 DEF Boot
        <3>2. tab'.thread_session_map = T /\ tab'.unresponse = U
            BY Zenon, <3>1 DEF TabTypes
        <3>3. \A t \in Thread : at'[t] \in Idle => at[t] \in Idle
            BY Zenon, <3>1, Parts DEF Idle
        <3> QED
            BY Zenon, <2>1, <3>1, <3>2, <3>3, LedgerStays
    <2> QED
        BY Zenon, <2>2, <2>3
<1>2. ASSUME NEW p \in Peer, HandleRequest(p) PROVE Ledger'
    <2> DEFINE c == Created
    <2>1. PICK req \in {0, k + 1} :
              /\ tab' = [tab EXCEPT !.thread_pool = Unpooled, !.thread_session_map[Created] = req]
              /\ forgot' = IF req = 0 THEN forgot \cup {k + 1} ELSE forgot
        BY ZenonT(30), <1>2 DEF HandleRequest
    <2>2. /\ ~exited /\ k + 1 <= MaxRequest /\ from' = Append(from, p) /\ CanCreate
          /\ at' = [at EXCEPT ![Created] = "run"] /\ UNCHANGED <<answers, exited>>
        BY Zenon, <1>2 DEF HandleRequest, Message, Resume, endVars
    <2>3. c \in Thread /\ at[c] \in Idle
        BY ZenonT(30), <2>2, Parts, CreateMoves DEF Idle
    <2>4. Requests(at, T, U, answers, forgot, k)
        BY Zenon, <2>2 DEF Ledger
    <2>5. tab'.thread_session_map = [T EXCEPT ![c] = req] /\ tab'.unresponse = U
        BY Zenon, <2>1 DEF TabTypes
    <2> HIDE DEF c
    <2>6. Requests([at EXCEPT ![c] = "run"], [T EXCEPT ![c] = req], U, answers,
                   IF req = 0 THEN forgot \cup {k + 1} ELSE forgot, k + 1)
        BY ZenonT(30), <1>0, <2>2, <2>3, <2>4, RequestComes
    <2>7. from' \in Seq(Peer) /\ Len(from') = k + 1
        BY <1>0, <2>2
    <2>8. Requests(at', tab'.thread_session_map, tab'.unresponse, answers', forgot', Len(from'))
        BY Zenon, <2>1, <2>2, <2>5, <2>6, <2>7 DEF c
    <2> QED
        BY Zenon, <1>0, <2>2, <2>7, <2>8 DEF Ledger
<1>3. ASSUME NEW p \in Peer, HandleUnknown(p) PROVE Ledger'
    <2>1. /\ ~exited /\ k + 1 <= MaxRequest /\ from' = Append(from, p)
          /\ UNCHANGED <<at, tab, forgot, exited>> /\ answers' = More(answers, {k + 1})
        BY Zenon, <1>3 DEF HandleUnknown, Message, Answer, More, endVars
    <2>2. Requests(at, T, U, answers, forgot, k)
        BY Zenon, <2>1 DEF Ledger
    <2>3. Requests(at, T, U, answers', forgot, k + 1)
        BY ZenonT(30), <1>0, <2>1, <2>2, RequestRefused
    <2>4. from' \in Seq(Peer) /\ Len(from') = k + 1 /\ answers' \in [Request -> Nat]
        BY <1>0, <2>1, MoreGrows
    <2> QED
        BY ZenonT(30), <1>0, <2>1, <2>3, <2>4 DEF Ledger
<1>4. ASSUME NEW p \in Peer, HandleDown(p) PROVE Ledger'
    <2>1. /\ ~exited /\ UNCHANGED <<at, from, answers, exited>> /\ forgot' = forgot \cup KeptFor(p)
        BY Zenon, <1>4 DEF HandleDown, Message, endVars
    <2>2. tab'.unresponse = U \ KeptFor(p) /\ tab'.thread_session_map = T
        BY Zenon, <1>4, DownTables
    <2>3. Requests(at, T, U, answers, forgot, k) /\ KeptFor(p) \in SUBSET U
        BY Zenon, <2>1 DEF Ledger, KeptFor
    <2>4. Requests(at, T, U \ KeptFor(p), answers, forgot \cup KeptFor(p), k)
        BY ZenonT(30), <2>3, ResponsesDropped
    <2> QED
        BY Zenon, <1>0, <2>1, <2>2, <2>4 DEF Ledger
<1>5. ASSUME NEW s \in Session, HandleError(s) \/ HandleResponse(s) PROVE Ledger'
    <2>1. UNCHANGED <<from, answers, forgot, exited>>
        BY Zenon, <1>5 DEF HandleError, HandleResponse, endVars
    <2>2. tab'.thread_session_map = T /\ tab'.unresponse = U
        BY ZenonT(30), <1>5 DEF HandleError, HandleResponse, TabTypes
    <2>3. at' = at \/ \E t : at' = [at EXCEPT ![t] = "run"]
        BY Zenon, <1>5 DEF HandleError, HandleResponse, Resume
    <2>4. \A t \in Thread : at'[t] \in Idle => at[t] \in Idle
        BY Zenon, <2>3, Parts DEF Idle
    <2> QED
        BY Zenon, <2>1, <2>2, <2>4, LedgerStays
<1> QED
    BY Zenon, <1>1, <1>2, <1>3, <1>4, <1>5 DEF Receive

\* The exit answers what is open.
LEMMA ExitLedger ==
    ASSUME TabTypes, Tables, Ledger, NEW report, Exiting(report)
    PROVE  Ledger'
<1> DEFINE k == Len(from)
           T == tab.thread_session_map
           U == tab.unresponse
           rs == ({T[t] : t \in Thread} \ {None, 0}) \cup U
<1>0. /\ RequestTypes(at, T, U, answers, k) /\ k \in Nat /\ k <= MaxRequest
      /\ answers \in [Request -> Nat] /\ from \in Seq(Peer)
    BY Zenon, LedgerTypes DEF Ledger
<1>1. answers' = More(answers, rs) /\ exited' /\ exited' = TRUE /\ UNCHANGED <<from, forgot>>
    BY Zenon DEF Exiting, Answer, More, Unanswered
<1>2. answers' \in [Request -> Nat] /\ Grown(answers, answers')
    BY Zenon, <1>0, <1>1, MoreGrows
<1>3. Settled(answers', forgot, k)
    <2>1. CASE exited
        <3>1. Settled(answers, forgot, k)
            BY Zenon, <2>1 DEF Ledger
        <3> QED
            BY Zenon, <1>0, <1>2, <3>1, SettledStays
    <2>2. CASE ~exited
        <3>1. Requests(at, T, U, answers, forgot, k)
            BY Zenon, <2>2 DEF Ledger
        <3>2. Settled(More(answers, rs), forgot, k)
            BY SMTT(30), <1>0, <3>1, RequestsSettled
        <3> QED
            BY Zenon, <1>1, <3>2
    <2> QED
        BY Zenon, <2>1, <2>2
<1> QED
    BY Zenon, <1>0, <1>1, <1>2, <1>3 DEF Ledger

\* The running coroutine answers its request, passes it on, or gives it up.
LEMMA CoroutineLedger ==
    ASSUME TabTypes, Tables, Control, Section, Ledger, Coroutine
    PROVE  Ledger'
<1> DEFINE k == Len(from)
           T == tab.thread_session_map
           U == tab.unresponse
           c == run.cur
<1> USE Parts
<1>0. /\ answers \in [Request -> Nat] /\ Grown(answers, answers)
      /\ RequestTypes(at, T, U, answers, k) /\ (run.pc = "run" => c \in Thread)
    BY ZenonT(30), LedgerTypes, MoreGrows DEF Control
<1>1. ~exited => Requests(at, T, U, answers, forgot, k)
    BY Zenon DEF Ledger
<1>2. ASSUME UNCHANGED <<from, answers, forgot, exited>>, tab'.thread_session_map = T,
             tab'.unresponse = U, NEW t, NEW y, y \notin Idle, at' \in {at, [at EXCEPT ![t] = y]}
      PROVE  Ledger'
    <2>1. \A u \in Thread : at'[u] \in Idle => at[u] \in Idle
        BY ZenonT(30), <1>2
    <2> QED
        BY Zenon, <1>2, <2>1, LedgerStays
<1>3. ASSUME NEW p \in Peer, Call(p) PROVE Ledger'
    <2>1. UNCHANGED <<from, answers, forgot, exited>> /\ at' = [at EXCEPT ![c] = "call"]
        BY Zenon, <1>3 DEF Call, endVars, Yield
    <2>2. tab'.thread_session_map = T /\ tab'.unresponse = U
        BY Zenon, <1>3 DEF Call, TabTypes
    <2>3. "call" \notin Idle
        BY Zenon DEF Idle
    <2> QED
        BY ZenonT(30), <1>2, <2>1, <2>2, <2>3
<1>4. ASSUME NEW y \in {"sleep", "wait"}, Sleep(y) PROVE Ledger'
    <2>1. UNCHANGED <<from, answers, forgot, exited>> /\ at' = [at EXCEPT ![c] = y]
        BY Zenon, <1>4 DEF Sleep, Suspend, endVars, Yield
    <2>2. tab'.thread_session_map = T /\ tab'.unresponse = U
        BY Zenon, <1>4, SuspendTables DEF Sleep, Does, Asleep
    <2>3. y \notin Idle
        BY Zenon DEF Idle
    <2> QED
        BY ZenonT(30), <1>2, <2>1, <2>2, <2>3
<1>5. ASSUME Enter \/ Leave PROVE Ledger'
    <2>1. /\ UNCHANGED <<from, answers, forgot, exited>> /\ at' \in {at, [at EXCEPT ![c] = "queue"]}
        BY Zenon, <1>5 DEF Enter, Leave, Suspend, envVars, endVars, Yield
    <2>2. tab'.thread_session_map = T /\ tab'.unresponse = U
        BY Zenon, <1>5, SectionTables
    <2>3. "queue" \notin Idle
        BY Zenon DEF Idle
    <2> QED
        BY Zenon, <1>2, <2>1, <2>2, <2>3
<1>6. ASSUME Fork \/ Timeout \/ \E t \in Thread : Wakeup(t) PROVE Ledger'
    <2>1. UNCHANGED <<from, answers, forgot, exited>> /\ at' \in {at, [at EXCEPT ![Created] = "ready"]}
        BY Zenon, <1>6 DEF Fork, Timeout, Wakeup, envVars, endVars
    <2>2. tab'.thread_session_map = T /\ tab'.unresponse = U
        BY ZenonT(30), <1>6 DEF Fork, Timeout, Wakeup, Woken, TabTypes
    <2>3. "ready" \notin Idle
        BY Zenon DEF Idle
    <2> QED
        BY Zenon, <1>2, <2>1, <2>2, <2>3
<1>7. CASE Ret
    <2>1. /\ UNCHANGED <<at, from, forgot, exited>> /\ answers' = More(answers, {T[c]}) /\ c \in Thread
        BY Zenon, <1>0, <1>7 DEF Ret, Does, Mine, Answer, More, endVars
    <2>2. tab'.unresponse = U /\ tab'.thread_session_map = [T EXCEPT ![c] = None]
        BY Zenon, <1>7, ReplyTables
    <2>3. ~exited => Requests(at', [T EXCEPT ![c] = None], U, answers', forgot, k)
        BY ZenonT(30), <1>0, <1>1, <2>1, RequestAnswered
    <2>9. Grown(answers, answers')
        BY Zenon, <1>0, <2>1, MoreGrows
    <2> QED
        BY Zenon, <2>1, <2>2, <2>3, <2>9, LedgerMoves
<1>8. CASE Response
    <2>1. UNCHANGED <<at, from, answers, forgot, exited>> /\ c \in Thread /\ T[c] # None
        BY Zenon, <1>0, <1>8 DEF Response, Does, Mine, envVars, endVars
    <2>2. /\ tab'.unresponse = U \cup ({T[c]} \ {0})
          /\ tab'.thread_session_map = [T EXCEPT ![c] = None]
        BY Zenon, <1>8, ReplyTables DEF Mine
    <2>3. ~exited => Requests(at, [T EXCEPT ![c] = None], U \cup ({T[c]} \ {0}), answers, forgot, k)
        BY ZenonT(30), <1>0, <1>1, <2>1, RequestDelayed
    <2> QED
        BY Zenon, <1>0, <2>1, <2>2, <2>3, LedgerMoves
<1>9. ASSUME NEW r \in Request, Respond(r) PROVE Ledger'
    <2>1. /\ UNCHANGED <<at, from, forgot, exited>> /\ answers' = More(answers, {r}) /\ r \in U
        BY Zenon, <1>9 DEF Respond, Answer, More, endVars
    <2>2. tab'.unresponse = U \ {r} /\ tab'.thread_session_map = T
        BY Zenon, <1>9, ReplyTables
    <2>3. ~exited => Requests(at, T, U \ {r}, answers', forgot, k)
        BY ZenonT(30), <1>0, <1>1, <2>1, ResponseSent
    <2>9. Grown(answers, answers')
        BY Zenon, <1>0, <2>1, MoreGrows
    <2> QED
        BY Zenon, <2>1, <2>2, <2>3, <2>9, LedgerMoves
<1>10. ASSUME NEW p \in Peer, Term(p) PROVE Ledger'
    <2>1. /\ UNCHANGED <<at, from, answers, exited>> /\ c \in Thread
          /\ forgot' = forgot \cup KeptFor(p) \cup ({T[c]} \cap Request) /\ KeptFor(p) \in SUBSET U
        BY Zenon, <1>0, <1>10 DEF Term, Does, Mine, KeptFor
    <2>2. /\ tab'.unresponse = U \ KeptFor(p)
          /\ tab'.thread_session_map = [T EXCEPT ![c] = None]
        BY ZenonT(30), <1>10, TermTables
    <2>3. ~exited => Requests(at', [T EXCEPT ![c] = None], U \ KeptFor(p), answers, forgot', k)
        BY ZenonT(30), <1>0, <1>1, <2>1, RequestForgotten
    <2> QED
        BY Zenon, <1>0, <2>1, <2>2, <2>3, LedgerMoves
<1>11. CASE Finish
    <2>1. /\ UNCHANGED <<from, answers, exited>> /\ c \in Thread
          /\ at' = [at EXCEPT ![c] = "pool"] /\ forgot' = forgot \cup ({T[c]} \cap Request)
        BY Zenon, <1>0, <1>11 DEF Finish, Yield, Mine
    <2>2. tab'.unresponse = U /\ tab'.thread_session_map = [T EXCEPT ![c] = None]
        BY Zenon, <1>11, FinishTables
    <2>3. \A t \in Thread : t # c /\ at'[t] \in Idle => at[t] \in Idle
        BY Zenon, <2>1
    <2>4. ~exited => Requests(at', [T EXCEPT ![c] = None], U \ {}, answers, forgot', k)
        BY ZenonT(30), <1>0, <1>1, <2>1, <2>3, RequestForgotten
    <2>5. U \ {} = U
        OBVIOUS
    <2> QED
        BY Zenon, <1>0, <2>1, <2>2, <2>4, <2>5, LedgerMoves
<1>12. CASE Exit
    BY Zenon, <1>12, ExitLedger DEF Exit
<1>13. CASE Fail
    <2>1. CASE Exiting({"ERROR", "REMOVE"})
        BY Zenon, <2>1, ExitLedger
    <2>2. CASE ~Exiting({"ERROR", "REMOVE"})
        <3>1. /\ UNCHANGED <<from, forgot, exited, session>> /\ answers' = More(answers, {T[c]})
              /\ at' = [at EXCEPT ![c] = "dead"] /\ tab' = Failed /\ run.pc = "run" /\ c \in Thread
            BY Zenon, <1>0, <1>13, <2>2 DEF Fail, Does, Mine, Answer, More, endVars
        <3>2. tab'.unresponse = U /\ tab'.thread_session_map = [T EXCEPT ![c] = None]
            BY Zenon, <3>1, FailTables
        <3>3. \A t \in Thread : t # c /\ at'[t] \in Idle => at[t] \in Idle
            BY Zenon, <3>1
        <3>4. ~exited => Requests(at', [T EXCEPT ![c] = None], U, answers', forgot, k)
            BY ZenonT(30), <1>0, <1>1, <3>1, <3>3, RequestAnswered
        <3>9. Grown(answers, answers')
            BY Zenon, <1>0, <3>1, MoreGrows
        <3> QED
            BY Zenon, <3>1, <3>2, <3>4, <3>9, LedgerMoves
    <2> QED
        BY Zenon, <2>1, <2>2
<1> QED
    BY Zenon, <1>3, <1>4, <1>5, <1>6, <1>7, <1>8, <1>9, <1>10, <1>11, <1>12, <1>13
       DEF Coroutine

-----------------------------------------------------------------------------
(* The theorems. *)

\* Every step keeps the tables.
LEMMA TablesNext ==
    ASSUME LuaInv, Next
    PROVE  TabTypes' /\ Tables'
<1> USE DEF LuaInv
<1>1. CASE Boot
    BY Zenon, <1>1, BootTables
<1>2. ASSUME NEW p \in Peer, HandleRequest(p) \/ HandleUnknown(p) \/ HandleDown(p)
      PROVE  TabTypes' /\ Tables'
    <2>1. CASE HandleRequest(p)
        BY Zenon, <2>1, RequestTables DEF Ledger
    <2>2. CASE HandleUnknown(p)
        BY Zenon, <2>2 DEF HandleUnknown, TabTypes, Tables
    <2>3. CASE HandleDown(p)
        BY Zenon, <2>3, DownTables
    <2> QED
        BY Zenon, <1>2, <2>1, <2>2, <2>3
<1>3. ASSUME NEW s \in Session, HandleResponse(s) \/ HandleError(s)
      PROVE  TabTypes' /\ Tables'
    BY Zenon, <1>3, ResponseTables, CallFails
<1>4. CASE Scheduler
    BY Zenon, <1>4, WakeupTables, ErrorTables, ForkTables DEF Scheduler
<1>5. ASSUME NEW p \in Peer, Call(p) \/ Term(p) PROVE TabTypes' /\ Tables'
    BY Zenon, <1>5, CallTables, TermTables
<1>6. ASSUME NEW y \in {"sleep", "wait"}, Sleep(y) PROVE TabTypes' /\ Tables'
    <2>1. y \in Asleep /\ run.pc = "run" /\ Suspend(y)
        BY Zenon, <1>6 DEF Asleep, Sleep, Does
    <2> QED
        BY Zenon, <2>1, SuspendTables
<1>7. ASSUME NEW t \in Thread, Wakeup(t) PROVE TabTypes' /\ Tables'
    <2>1. tab' \in {tab, Woken(t)} /\ UNCHANGED <<at, session>>
        BY Zenon, <1>7 DEF Wakeup, envVars
    <2> QED
        BY Zenon, <2>1, WokenTables
<1>8. CASE Ret \/ Response \/ \E r \in Request : Respond(r)
    BY Zenon, <1>8, ReplyTables
<1>9. CASE Fork \/ Timeout
    BY Zenon, <1>9, ForkedTables, TimeoutTables
<1>10. CASE Enter \/ Leave
    BY Zenon, <1>10, SectionTables
<1>11. CASE Finish
    BY Zenon, <1>11, FinishTables
<1>12. CASE Exit
    BY Zenon, <1>12, ExitTables DEF Exit, Does
<1>13. CASE Fail
    <2>1. CASE Exiting({"ERROR", "REMOVE"})
        BY Zenon, <1>13, <2>1, ExitTables DEF Fail, Does
    <2>2. CASE tab' = Failed /\ session' = session /\ at' = [at EXCEPT ![run.cur] = "dead"]
        BY Zenon, <1>13, <2>2, FailTables DEF Fail, Does
    <2> QED
        BY Zenon, <1>13, <2>1, <2>2 DEF Fail
<1> HIDE DEF LuaInv
<1> QED
    BY <1>1, <1>2, <1>3, <1>4, <1>5, <1>6, <1>7, <1>8, <1>9, <1>10, <1>11, <1>12, <1>13
       DEF Next, Receive, Coroutine

\* At the start nobody waits and nothing was asked.
LEMMA InitKeeps ==
    ASSUME Init
    PROVE  LuaInv
<1> USE LuaAssumption, Numbers
<1>1. TabTypes
    <2> DEFINE g == <<>>
               V == {}
               m == [s \in Session |-> None]
               T == [t \in Thread |-> None]
    <2>1. /\ g \in Seq(Thread) /\ g \in Seq(Thread \cup {0}) /\ g \in Seq(Session)
          /\ V \in SUBSET Request /\ m \in [Session -> Thread \cup {None, Break}]
          /\ m \in [Session -> Peer \cup {None}] /\ T \in [Thread -> Request \cup {None, 0}]
          /\ T \in [Thread -> Session \cup {None}]
        OBVIOUS
    <2>2. tab = [thread_pool |-> g, wakeup_queue |-> g, fork_queue |-> g, error_queue |-> g,
                 unresponse |-> V, init_thread |-> 0, session_thread_map |-> m,
                 thread_session_map |-> T, sleep_session_map |-> T, watching_session_map |-> m]
        BY Zenon DEF Init
    <2> HIDE DEF g, V, m, T
    <2> QED
        BY Zenon, <2>1, <2>2 DEF TabTypes
<1>2. /\ at = [t \in Thread |-> "none"] /\ session = 0 /\ tab.fork_queue = <<>>
      /\ tab.error_queue = <<>> /\ tab.thread_pool = <<>>
      /\ tab.session_thread_map = [s \in Session |-> None]
      /\ tab.sleep_session_map = [t \in Thread |-> None]
      /\ tab.watching_session_map = [s \in Session |-> None]
      /\ tab.thread_session_map = [t \in Thread |-> None] /\ tab.unresponse = {}
    BY Zenon DEF Init
<1>3. Tables
    <2>1. Types(at, tab.session_thread_map, tab.sleep_session_map, tab.watching_session_map,
                tab.fork_queue, tab.error_queue, tab.thread_pool, session)
        BY <1>2 DEF Types
    <2>2. /\ Homes(at, tab.session_thread_map, tab.fork_queue)
          /\ Sleepers(at, tab.session_thread_map, tab.sleep_session_map)
        BY <1>2 DEF Homes, Sleepers, Waiting, Asleep
    <2>3. Len(tab.error_queue) = 0 /\ Len(tab.thread_pool) = 0
        BY Zenon, <1>2
    <2>4. Calls(at, tab.session_thread_map, tab.watching_session_map, tab.error_queue, session)
        BY <1>2, <2>3 DEF Calls
    <2>5. Pool(at, tab.thread_pool)
        BY <2>3 DEF Pool
    <2> QED
        BY Zenon, <2>1, <2>2, <2>4, <2>5 DEF Tables, Sched
<1>4. Control
    BY Zenon, <1>2 DEF Control, Init
<1>5. Section
    <2> DEFINE g == <<>>
               I == [t \in Thread |-> 0]
    <2>1. g \in Seq(Thread) /\ I \in [Thread -> Nat] /\ \A t \in Thread : I[t] = 0
        OBVIOUS
    <2>2. section = [current_thread |-> 0, ref |-> 0, thread_queue |-> g, inside |-> I]
        BY Zenon DEF Init
    <2> HIDE DEF g, I
    <2> QED
        BY Zenon, <2>1, <2>2 DEF Section
<1>6. Ledger
    <2>1. from = <<>> /\ answers = [r \in Request |-> 0] /\ exited = FALSE
        BY Zenon DEF Init
    <2>2. Requests(at, tab.thread_session_map, tab.unresponse, answers, forgot, Len(from))
        BY <1>2, <2>1, RequestNumbers DEF Requests
    <2>3. from \in Seq(Peer) /\ Len(from) <= MaxRequest
        BY <2>1
    <2>4. answers \in [Request -> Nat]
        BY Zenon, <2>1
    <2> QED
        BY ZenonT(30), <2>1, <2>2, <2>3, <2>4 DEF Ledger
<1> QED
    BY Zenon, <1>1, <1>3, <1>4, <1>5, <1>6 DEF LuaInv

\* The scheduler's tables, its control, the critical section and the requests stay
\* as LuaInv says: coroutines that wait have one home each, the section one owner,
\* a request without an answer one holder.
THEOREM LuaInvariant == Spec => []LuaInv
<1>1. Init => LuaInv
    BY Zenon, InitKeeps
<1>2. LuaInv /\ [Next]_vars => LuaInv'
    <2> SUFFICES ASSUME LuaInv, [Next]_vars PROVE LuaInv'
        OBVIOUS
    <2>1. CASE Next
        <3>1. TabTypes' /\ Tables'
            BY Zenon, <2>1, TablesNext
        <3>2. Control' /\ Section'
            BY Zenon, <2>1, SchedulerFrame, MessageFrame, CoroutineFrame DEF Next, LuaInv
        <3>3. Ledger'
            BY Zenon, <2>1, SchedulerLedger, MessageLedger, CoroutineLedger
               DEF Next, LuaInv
        <3> QED
            BY Zenon, <3>1, <3>2, <3>3 DEF LuaInv
    <2>2. CASE UNCHANGED vars
        BY Zenon, <2>2 DEF vars, LuaInv, TabTypes, Tables, Control, Section, Ledger
    <2> QED
        BY Zenon, <2>1, <2>2
<1> QED
    BY <1>1, <1>2, PTL DEF Spec

\* A coroutine that yields in call, sleep, wait, queue, fork or timeout is found
\* under exactly one session or in the fork queue once, others nowhere: whatever
\* happens, nobody is lost and nobody is resumed twice.
THEOREM EveryWaiterFound == Spec => []WaitsOnce
<1>1. LuaInv => WaitsOnce
    <2> SUFFICES ASSUME LuaInv, NEW t \in Thread
                 PROVE  /\ IF at[t] \in Waiting
                           THEN \/ Forks(t) = {} /\ \E s \in Session : Under(t) = {s}
                                \/ /\ Under(t) = {}
                                   /\ \E i \in DOMAIN tab.fork_queue : Forks(t) = {i}
                           ELSE Under(t) = {} /\ Forks(t) = {}
                        /\ tab.sleep_session_map[t] # None <=> at[t] \in Asleep
        BY Zenon DEF WaitsOnce, Waiting, Asleep
    <2> DEFINE m == tab.session_thread_map
               f == tab.fork_queue
    <2>a. Sched(at, m, tab.sleep_session_map, tab.watching_session_map, f, tab.error_queue,
                tab.thread_pool, session)
        BY Zenon DEF LuaInv, Tables
    <2>0. Homes(at, m, f) /\ Sleepers(at, m, tab.sleep_session_map) /\ t # 0
        BY Zenon, <2>a, Numbers DEF Sched
    <2>1. DOMAIN f = 1 .. Len(f)
        <3>1. f \in Seq(Thread \cup {0})
            BY Zenon DEF LuaInv, TabTypes
        <3> HIDE DEF f
        <3> QED
            BY <3>1
    <2>2. tab.sleep_session_map[t] # None <=> at[t] \in Asleep
        BY Zenon, <2>0 DEF Sleepers
    <2>3. ASSUME at[t] \notin Waiting
          PROVE  Under(t) = {} /\ Forks(t) = {}
        <3>0. (\A i \in 1 .. Len(f) : f[i] # t) /\ \A v \in Session : m[v] # t
            BY Zenon, <2>a, <2>3, NoHome
        <3> QED
            BY Zenon, <2>1, <3>0 DEF Under, Forks
    <2>4. ASSUME NEW s \in Session, m[s] = t
          PROVE  Under(t) = {s} /\ Forks(t) = {}
        <3>1. (\A u \in Session : m[u] = t => u = s) /\ \A i \in 1 .. Len(f) : f[i] # t
            BY Zenon, <2>0, <2>4 DEF Homes
        <3> QED
            BY Zenon, <2>1, <2>4, <3>1 DEF Under, Forks
    <2>5. ASSUME NEW i \in DOMAIN f, f[i] = t
          PROVE  Under(t) = {} /\ Forks(t) = {i}
        <3>1. (\A u \in Session : m[u] # t) /\ \A j \in DOMAIN f : f[j] = t => j = i
            BY Zenon, <2>0, <2>1, <2>5 DEF Homes
        <3> QED
            BY Zenon, <2>5, <3>1 DEF Under, Forks
    <2>6. ASSUME at[t] \in Waiting
          PROVE  (\E s \in Session : m[s] = t) \/ \E i \in DOMAIN f : f[i] = t
        BY Zenon, <2>0, <2>1, <2>6 DEF Homes
    <2> HIDE DEF m, f
    <2> QED
        BY Zenon, <2>2, <2>3, <2>4, <2>5, <2>6 DEF f
<1> QED
    BY <1>1, LuaInvariant, PTL

\* The function that skynet.queue makes runs one coroutine at a time, as often
\* nested as its ref says.
THEOREM OneAtATime == Spec => []Mutex
<1>1. LuaInv => Mutex
    BY DEF LuaInv, Section, Mutex
<1> QED
    BY <1>1, LuaInvariant, PTL

\* Until the service exits no request is answered twice, by ret, by a response, by
\* the error of a coroutine that fails, or by two of these.
THEOREM OneAnswer == Spec => []AnsweredOnce
<1>1. LuaInv => AnsweredOnce
    BY Zenon DEF LuaInv, Ledger, Requests, AnsweredOnce
<1> QED
    BY <1>1, LuaInvariant, PTL

\* A request is answered, given up in one of the ways the library knows, or held
\* by a coroutine or a response; when the service has exited it is not held.
THEOREM NoRequestLost == Spec => []RequestKept
<1>1. LuaInv => RequestKept
    <2> SUFFICES ASSUME LuaInv, NEW r \in DOMAIN from
                 PROVE  answers[r] > 0 \/ r \in forgot \/ (Held(r) /\ ~exited)
        BY Zenon DEF RequestKept
    <2>1. r \in 1 .. Len(from) /\ r \in Request /\ r # None
        <3>1. from \in Seq(Peer) /\ Len(from) \in Nat /\ Len(from) <= MaxRequest
            BY DEF LuaInv, Ledger
        <3> QED
            BY <3>1, RequestNumbers
    <2>2. CASE exited
        BY Zenon, <2>1, <2>2 DEF LuaInv, Ledger, Settled
    <2>3. CASE ~exited
        <3>1. Requests(at, tab.thread_session_map, tab.unresponse, answers, forgot, Len(from))
            BY Zenon, <2>3 DEF LuaInv, Ledger
        <3>2. \A t \in Thread : tab.thread_session_map[t] = r => at[t] # "dead"
            BY Zenon, <2>1, <3>1 DEF Requests, Idle
        <3> QED
            BY Zenon, <2>1, <2>3, <3>1, <3>2 DEF Requests, Held
    <2> QED
        BY Zenon, <2>2, <2>3
<1> QED
    BY <1>1, LuaInvariant, PTL
=============================================================================
