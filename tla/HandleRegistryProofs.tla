------------------------ MODULE HandleRegistryProofs ------------------------
(***************************************************************************)
(* Proofs about HandleRegistry: as long as one thread at a time creates    *)
(* services, the growth of the table meets no collision, every service     *)
(* that knows its handle is found under it, and unregister_service_all     *)
(* overlooks none.                                                         *)
(***************************************************************************)
EXTENDS HandleRegistry, TLAPS

\* No two threads are in create_service.
OneCreator == \A t, u \in Creator : t = u

\* The slot of handle h among n of them.
Place(h, n) == h % n

\* The table sl of n slots has a context with handle h, by the handles in hd.
Found(sl, hd, n, h) == sl[Place(h, n)] # None /\ hd[sl[Place(h, n)]] = h

RegTypes ==
    /\ size \in Nat \ {0}
    /\ slot \in [0 .. size - 1 -> Svc \cup {None}]
    /\ handle \in [Svc -> Nat]
    /\ seed \in Nat \ {0}
    /\ pc \in [Thread -> {"idle", "scan", "assign", "pass", "remove"}]
    /\ ctx \in [Thread -> Svc \cup {None}]
    /\ got \in [Thread -> Nat]
    /\ idx \in [Thread -> Nat]
    /\ old \in [Thread -> SUBSET Nat]

\* Where create_service is, and with what.
Creating ==
    \A t \in Thread :
        /\ got[t] # 0 <=> pc[t] \in {"assign", "remove"}
        /\ pc[t] \in {"scan", "assign"} => t \in Creator /\ ctx[t] \in Svc /\ handle[ctx[t]] = 0
        /\ pc[t] = "scan" => \A k \in 0 .. size - 1 : slot[k] # ctx[t]
        /\ pc[t] = "assign" => slot[Place(got[t], size)] = ctx[t]

\* A slot is that of its service's handle, or of the handle it is to get.
Placed ==
    \A k \in 0 .. size - 1 : slot[k] # None =>
        \/ handle[slot[k]] # 0 /\ Place(handle[slot[k]], size) = k
        \/ /\ handle[slot[k]] = 0
           /\ \E t \in Creator : pc[t] = "assign" /\ ctx[t] = slot[k] /\ Place(got[t], size) = k

\* What is left of those there when a pass began is found, and yet to come.
Passing ==
    \A t \in Thread : \A h \in old[t] :
        /\ h # 0 /\ Found(slot, handle, size, h)
        /\ pc[t] \in {"pass", "remove"} => Place(h, size) >= idx[t] \/ got[t] = h

\* The inductive invariant.
RegInv == RegTypes /\ Creating /\ Placed /\ Passing

-----------------------------------------------------------------------------
\* What division leaves is less than the divisor.
LEMMA ModRange ==
    ASSUME NEW a \in Int, NEW n \in Nat \ {0}
    PROVE  a % n \in 0 .. n - 1 /\ a \div n \in Int /\ a = n * (a \div n) + (a % n)
OBVIOUS

\* There is one such remainder.
LEMMA ModUnique ==
    ASSUME NEW a \in Int, NEW n \in Nat \ {0}, NEW q \in Int, NEW r \in 0 .. n - 1,
           a = n * q + r
    PROVE  a % n = r
<1> DEFINE p == a \div n
           m == a % n
<1>1. p \in Int /\ m \in 0 .. n - 1 /\ a = n * p + m
    BY ModRange
<1> HIDE DEF p, m
<1>2. n * (q - p) = m - r
    BY <1>1
<1>3. CASE q - p >= 1
    <2>1. n * (q - p) >= n
        BY <1>1, <1>3
    <2> QED
        BY <1>1, <1>2, <2>1
<1>4. CASE p - q >= 1
    <2>1. n * (p - q) >= n
        BY <1>1, <1>4
    <2>2. n * (q - p) = -(n * (p - q))
        BY <1>1
    <2> QED
        BY <1>1, <1>2, <2>1, <2>2
<1>5. CASE q = p
    BY <1>1, <1>5 DEF m
<1> QED
    BY <1>1, <1>3, <1>4, <1>5

\* When the table is doubled a handle's slot keeps its place, or moves by the
\* old size.
LEMMA Doubled ==
    ASSUME NEW a \in Nat, NEW n \in Nat \ {0}
    PROVE  a % (2 * n) \in {a % n, (a % n) + n}
<1> DEFINE w == 2 * n
           r == a % w
           q == a \div w
<1>1. w \in Nat \ {0} /\ a \in Int
    OBVIOUS
<1>2. w = 2 * n
    OBVIOUS
<1> HIDE DEF w
<1>3. q \in Int /\ r \in 0 .. w - 1 /\ a = w * q + r
    BY <1>1, ModRange
<1> HIDE DEF q, r
<1>4. CASE r < n
    <2> DEFINE k == 2 * q
    <2>1. a = n * k + r /\ r \in 0 .. n - 1 /\ k \in Int
        BY <1>1, <1>2, <1>3, <1>4
    <2> HIDE DEF k
    <2>2. a % n = r
        BY <2>1, ModUnique
    <2> QED
        BY <2>2 DEF r, w
<1>5. CASE r >= n
    <2> DEFINE k == 2 * q + 1
               d == r - n
    <2>1. a = n * k + d /\ d \in 0 .. n - 1 /\ k \in Int
        BY <1>1, <1>2, <1>3, <1>5
    <2>2. r = d + n
        BY <1>1, <1>3
    <2> HIDE DEF k, d
    <2>3. a % n = d
        BY <2>1, ModUnique
    <2> QED
        BY <2>2, <2>3 DEF r, w
<1> QED
    BY <1>1, <1>3, <1>4, <1>5

\* The slot of a handle is one of the table, and doubling keeps it or moves it
\* by the old size, so that two that meet afterwards had met before.
LEMMA Places ==
    ASSUME NEW n \in Nat \ {0}
    PROVE  /\ \A a \in Nat : Place(a, n) \in 0 .. n - 1
           /\ \A a \in Nat : Place(a, 2 * n) \in 0 .. 2 * n - 1 /\ Place(a, 2 * n) >= Place(a, n)
           /\ \A a, b \in Nat : Place(a, 2 * n) = Place(b, 2 * n) => Place(a, n) = Place(b, n)
<1>1. ASSUME NEW a \in Nat
      PROVE  Place(a, n) \in 0 .. n - 1 /\ Place(a, 2 * n) \in {Place(a, n), Place(a, n) + n}
    <2>1. a \in Int /\ a % n \in 0 .. n - 1
        BY ModRange
    <2>2. a % (2 * n) \in {a % n, (a % n) + n}
        BY Doubled
    <2> QED
        BY <2>1, <2>2 DEF Place
<1>2. ASSUME NEW a \in Nat, NEW b \in Nat, Place(a, 2 * n) = Place(b, 2 * n)
      PROVE  Place(a, n) = Place(b, n)
    BY <1>1, <1>2
<1> QED
    BY <1>1, <1>2

\* Steps that leave the table and the threads as they are.
LEMMA SameKeeps ==
    ASSUME RegInv, UNCHANGED <<size, slot, handle, seed, pc, ctx, got, idx, old>>
    PROVE  RegInv'
BY DEF RegInv, RegTypes, Creating, Placed, Passing

\* create_service keeps it, but for the growth of the table.
LEMMA BeginKeeps ==
    ASSUME RegInv, NEW t \in Creator, NEW s \in Svc, BeginRegister(t, s)
    PROVE  RegInv'
<1>1. /\ t \in Thread /\ pc[t] = "idle" /\ \A k \in 0 .. size - 1 : slot[k] # s
      /\ \A u \in Thread : ctx[u] # s
      /\ handle' = [handle EXCEPT ![s] = 0] /\ ctx' = [ctx EXCEPT ![t] = s]
      /\ pc' = [pc EXCEPT ![t] = "scan"]
      /\ UNCHANGED <<size, slot, seed, got, idx, old>>
    BY RegistryAssumption DEF BeginRegister, Free, Thread, Listed, RegInv, RegTypes
<1>2. RegTypes'
    BY <1>1 DEF RegInv, RegTypes
<1>3. Creating'
    BY <1>1 DEF RegInv, RegTypes, Creating
<1>4. Placed'
    BY <1>1, RegistryAssumption DEF RegInv, RegTypes, Placed, Thread
<1>5. Passing'
    <2>1. \A h \in Nat : Found(slot, handle, size, h) => Found(slot', handle', size', h)
        BY <1>1, Places, RegistryAssumption DEF Found, RegInv, RegTypes
    <2> QED
        BY <1>1, <2>1 DEF RegInv, RegTypes, Passing
<1> QED
    BY <1>2, <1>3, <1>4, <1>5 DEF RegInv

\* register_service keeps it when a slot is free: nobody else has that slot.
LEMMA FoundKeeps ==
    ASSUME OneCreator, RegInv, NEW t \in Creator, RegisterFound(t)
    PROVE  RegInv'
<1>1. PICK k \in Hits :
        /\ slot' = [slot EXCEPT ![Hash(Candidate(k))] = ctx[t]]
        /\ seed' = Candidate(k) + 1
        /\ got' = [got EXCEPT ![t] = Candidate(k)]
    BY DEF RegisterFound
<1> DEFINE h == Candidate(k)
           p == Place(h, size)
<1>2. h \in Nat \ {0} /\ Hash(h) = p /\ slot[p] = None
    <2>1. seed + k - 1 \in Int
        BY DEF RegInv, RegTypes, Hits
    <2>2. (seed + k - 1) % Mask \in 0 .. Mask - 1
        BY <2>1, ModRange, RegistryAssumption
    <2> QED
        BY <2>2, RegistryAssumption DEF Candidate, Hits, Hash, Place
<1>3. /\ t \in Thread /\ pc[t] = "scan" /\ pc' = [pc EXCEPT ![t] = "assign"]
      /\ UNCHANGED <<size, handle, ctx, idx, old>>
    BY DEF RegisterFound, Thread
<1>4. /\ ctx[t] \in Svc /\ handle[ctx[t]] = 0 /\ \A j \in 0 .. size - 1 : slot[j] # ctx[t]
      /\ p \in 0 .. size - 1
    BY <1>2, <1>3, Places DEF RegInv, RegTypes, Creating
<1>5. /\ slot' = [slot EXCEPT ![p] = ctx[t]] /\ seed' = h + 1
      /\ got' = [got EXCEPT ![t] = h]
    BY <1>1, <1>2
<1> HIDE DEF h
<1>6. RegTypes'
    BY <1>2, <1>3, <1>4, <1>5 DEF RegInv, RegTypes
<1>7. Creating'
    <2>1. \A u \in Thread : u # t => pc[u] \notin {"scan", "assign"}
        BY DEF OneCreator, RegInv, Creating
    <2>2. slot'[Place(got'[t], size')] = ctx'[t] /\ got'[t] # 0
        BY <1>2, <1>3, <1>4, <1>5 DEF RegInv, RegTypes
    <2> QED
        BY <1>2, <1>3, <1>4, <1>5, <2>1, <2>2 DEF RegInv, RegTypes, Creating
<1>8. Placed'
    <2>1. \A j \in 0 .. size - 1 : slot[j] # None =>
             handle[slot[j]] # 0 /\ Place(handle[slot[j]], size) = j
        BY <1>3 DEF OneCreator, RegInv, Placed
    <2>2. got'[t] = h /\ pc'[t] = "assign"
        BY <1>3, <1>5 DEF RegInv, RegTypes
    <2>3. /\ size' = size /\ slot'[p] = ctx[t] /\ handle'[slot'[p]] = 0
          /\ pc'[t] = "assign" /\ ctx'[t] = slot'[p] /\ Place(got'[t], size') = p
        BY <1>3, <1>4, <1>5, <2>2 DEF RegInv, RegTypes
    <2>4. ASSUME NEW j \in 0 .. size - 1, j # p, slot'[j] # None
          PROVE  handle'[slot'[j]] # 0 /\ Place(handle'[slot'[j]], size') = j
        BY <1>3, <1>5, <2>1, <2>4 DEF RegInv, RegTypes
    <2> QED
        BY <2>3, <2>4 DEF Placed
<1>9. Passing'
    <2>1. \A x \in Nat : Found(slot, handle, size, x) => Found(slot', handle', size', x)
        BY <1>2, <1>3, <1>4, <1>5, Places DEF Found, RegInv, RegTypes
    <2> QED
        BY <1>3, <1>5, <2>1 DEF RegInv, RegTypes, Passing
<1> QED
    BY <1>6, <1>7, <1>8, <1>9 DEF RegInv

\* create_service keeps it when it stores the handle that its slot is for.
LEMMA AssignKeeps ==
    ASSUME OneCreator, RegInv, NEW t \in Creator, Assign(t)
    PROVE  RegInv'
<1>1. /\ t \in Thread /\ pc[t] = "assign"
      /\ handle' = [handle EXCEPT ![ctx[t]] = got[t]]
      /\ ctx' = [ctx EXCEPT ![t] = None] /\ got' = [got EXCEPT ![t] = 0]
      /\ pc' = [pc EXCEPT ![t] = "idle"]
      /\ UNCHANGED <<size, slot, seed, idx, old>>
    BY DEF Assign, Thread
<1>2. /\ ctx[t] \in Svc /\ handle[ctx[t]] = 0 /\ got[t] \in Nat \ {0}
      /\ slot[Place(got[t], size)] = ctx[t]
    BY <1>1 DEF RegInv, RegTypes, Creating
<1>3. RegTypes'
    BY <1>1, <1>2 DEF RegInv, RegTypes
<1>7. \A u \in Thread : u # t => pc[u] \notin {"scan", "assign"}
    BY DEF OneCreator, RegInv, Creating
<1>4. Creating'
    BY <1>1, <1>2, <1>7, RegistryAssumption DEF RegInv, RegTypes, Creating
<1>5. Placed'
    <2>1. ASSUME NEW j \in 0 .. size - 1, slot[j] # None
          PROVE  handle'[slot[j]] # 0 /\ Place(handle'[slot[j]], size) = j
        <3>1. CASE slot[j] = ctx[t]
            <4>1. handle[slot[j]] = 0
                BY <1>2, <3>1
            <4>2. Place(got[t], size) = j
                BY <2>1, <4>1 DEF RegInv, Placed, OneCreator
            <4> QED
                BY <1>1, <1>2, <3>1, <4>2 DEF RegInv, RegTypes
        <3>2. CASE slot[j] # ctx[t]
            <4>1. handle[slot[j]] # 0 /\ Place(handle[slot[j]], size) = j
                BY <2>1, <3>2 DEF RegInv, Placed, OneCreator
            <4> QED
                BY <1>1, <1>2, <2>1, <3>2, <4>1 DEF RegInv, RegTypes
        <3> QED
            BY <3>1, <3>2
    <2> QED
        BY <1>1, <2>1 DEF Placed
<1>6. Passing'
    <2>1. \A x \in Nat \ {0} : Found(slot, handle, size, x) => Found(slot', handle', size', x)
        BY <1>1, <1>2, Places DEF Found, RegInv, RegTypes
    <2> QED
        BY <1>1, <2>1 DEF RegInv, RegTypes, Passing
<1> QED
    BY <1>3, <1>4, <1>5, <1>6 DEF RegInv

\* The growth of the table keeps it, and finds every new slot free.
LEMMA GrowKeeps ==
    ASSUME OneCreator, RegInv, NEW t \in Creator, RegisterGrow(t)
    PROVE  RegInv' /\ halt' # "assert"
<1>1. /\ t \in Thread /\ pc[t] = "scan"
      /\ UNCHANGED <<handle, seed, pc, ctx, got, idx, old>>
      /\ halt' = IF 2 * size - 1 > Mask THEN "full" ELSE MoveFault
      /\ IF halt' = "no" THEN slot' = Moved /\ size' = 2 * size ELSE UNCHANGED <<slot, size>>
    BY DEF RegisterGrow, thrVars, Thread
<1>2. /\ size \in Nat \ {0} /\ slot \in [0 .. size - 1 -> Svc \cup {None}]
      /\ handle \in [Svc -> Nat]
    BY DEF RegInv, RegTypes
<1>3. \A u \in Thread : pc[u] = "assign" => FALSE
    BY <1>1 DEF OneCreator, RegInv, Creating
<1>4. ASSUME NEW j \in 0 .. size - 1, slot[j] # None
      PROVE  /\ slot[j] \in Svc /\ handle[slot[j]] \in Nat \ {0}
             /\ Place(handle[slot[j]], size) = j
    BY <1>1, <1>2, <1>4 DEF OneCreator, RegInv, Placed
<1>5. ASSUME NEW j \in 0 .. size - 1, NEW k \in 0 .. size - 1,
             slot[j] # None, slot[k] # None, NewHash(j) = NewHash(k)
      PROVE  j = k
    <2>1. Place(handle[slot[j]], 2 * size) = Place(handle[slot[k]], 2 * size)
        BY <1>5 DEF NewHash, Place
    <2> QED
        BY <1>2, <1>4, <1>5, <2>1, Places
<1>6. halt' # "assert"
    BY <1>1, <1>2, <1>5 DEF MoveFault, Collisions, Nulls
<1>7. CASE halt' # "no"
    <2>1. UNCHANGED <<size, slot, handle, seed, pc, ctx, got, idx, old>>
        BY <1>1, <1>7
    <2> QED
        BY <1>6, <2>1, SameKeeps
<1>8. CASE halt' = "no"
    <2>1. /\ slot' = Moved /\ size' = 2 * size
          /\ \A j \in 0 .. size - 1 : slot[j] # None
        BY <1>1, <1>2, <1>8 DEF MoveFault, Nulls
    <2>2. \A j \in 0 .. size - 1 :
             /\ NewHash(j) = Place(handle[slot[j]], 2 * size)
             /\ NewHash(j) \in 0 .. 2 * size - 1
        BY <1>2, <1>4, <2>1, Places DEF NewHash, Place
    <2>3. ASSUME NEW j \in 0 .. size - 1
          PROVE  slot'[NewHash(j)] = slot[j]
        <3>1. \A i \in 0 .. size - 1 : NewHash(i) = NewHash(j) <=> i = j
            BY <1>5, <2>1
        <3>2. slot'[NewHash(j)] =
                 IF \E i \in 0 .. size - 1 : NewHash(i) = NewHash(j)
                 THEN slot[CHOOSE i \in 0 .. size - 1 : NewHash(i) = NewHash(j)]
                 ELSE None
            BY <1>2, <2>1, <2>2 DEF Moved
        <3> QED
            BY <3>1, <3>2
    <2>4. ASSUME NEW k \in 0 .. size' - 1
          PROVE  slot'[k] = None \/ \E j \in 0 .. size - 1 : slot'[k] = slot[j] /\ NewHash(j) = k
        <3>1. slot'[k] = IF \E i \in 0 .. size - 1 : NewHash(i) = k
                         THEN slot[CHOOSE i \in 0 .. size - 1 : NewHash(i) = k]
                         ELSE None
            BY <1>2, <2>1 DEF Moved
        <3> QED
            BY <3>1
    <2>5. RegTypes'
        <3>1. size' \in Nat \ {0}
            BY <1>2, <2>1
        <3>2. DOMAIN slot' = 0 .. size' - 1 /\ slot' = [k \in 0 .. size' - 1 |-> slot'[k]]
            BY <2>1 DEF Moved
        <3>3. slot' \in [0 .. size' - 1 -> Svc \cup {None}]
            BY <1>2, <2>4, <3>2
        <3> QED
            BY <1>1, <3>1, <3>3 DEF RegInv, RegTypes
    <2>6. Creating'
        <3>1. \A u \in Thread : pc[u] = "scan" => \A k \in 0 .. size' - 1 : slot'[k] # ctx[u]
            BY <2>4, RegistryAssumption DEF RegInv, Creating
        <3> QED
            BY <1>1, <1>3, <3>1 DEF RegInv, Creating
    <2>7. Placed'
        <3>1. ASSUME NEW k \in 0 .. size' - 1, slot'[k] # None
              PROVE  handle[slot'[k]] # 0 /\ Place(handle[slot'[k]], size') = k
            BY <1>4, <2>1, <2>2, <2>4, <3>1
        <3> QED
            BY <1>1, <3>1 DEF Placed
    <2>8. Passing'
        <3>1. ASSUME NEW x \in Nat \ {0}, Found(slot, handle, size, x)
              PROVE  Found(slot', handle', size', x) /\ Place(x, size') >= Place(x, size)
            <4> DEFINE j == Place(x, size)
            <4>1. j \in 0 .. size - 1 /\ slot[j] # None /\ handle[slot[j]] = x
                BY <1>2, <3>1, Places DEF Found
            <4>2. Place(x, size') = NewHash(j)
                BY <2>1, <2>2, <4>1
            <4>3. slot'[Place(x, size')] = slot[j]
                BY <2>3, <4>1, <4>2
            <4> QED
                BY <1>1, <1>2, <2>1, <4>1, <4>3, Places DEF Found
        <3>2. \A u \in Thread : \A x \in old[u] : x \in Nat \ {0} /\ idx[u] \in Nat
            BY DEF RegInv, RegTypes, Passing
        <3>3. \A x \in Nat : Place(x, size) \in Nat /\ Place(x, size') \in Nat
            <4>1. \A x \in Nat : Place(x, size) \in 0 .. size - 1
                                /\ Place(x, 2 * size) \in 0 .. 2 * size - 1
                BY <1>2, Places
            <4>2. \A i \in 0 .. size - 1 : i \in Nat
                BY <1>2
            <4>3. \A i \in 0 .. 2 * size - 1 : i \in Nat
                BY <1>2
            <4> QED
                BY <2>1, <4>1, <4>2, <4>3
        <3> QED
            BY <1>1, <3>1, <3>2, <3>3 DEF RegInv, Passing
    <2> QED
        BY <1>6, <2>5, <2>6, <2>7, <2>8 DEF RegInv
<1> QED
    BY <1>6, <1>7, <1>8

\* A handle is removed: what unregister_service does, and a thread that was
\* about to do it in a pass has done it.
LEMMA RemoveKeeps ==
    ASSUME RegInv, NEW h \in Nat \ {0}, RemoveHandle(h),
           UNCHANGED <<size, handle, seed, ctx, idx>>,
           \/ UNCHANGED <<pc, got>>
           \/ \E t \in Thread : /\ pc[t] = "remove" /\ got[t] = h
                                /\ got' = [got EXCEPT ![t] = 0]
                                /\ pc' = [pc EXCEPT ![t] = "pass"]
    PROVE  RegInv'
<1> DEFINE p == Place(h, size)
<1>1. /\ size \in Nat \ {0} /\ slot \in [0 .. size - 1 -> Svc \cup {None}]
      /\ handle \in [Svc -> Nat] /\ p \in 0 .. size - 1
      /\ got \in [Thread -> Nat] /\ old \in [Thread -> SUBSET Nat]
      /\ pc \in [Thread -> {"idle", "scan", "assign", "pass", "remove"}]
    BY Places DEF RegInv, RegTypes
<1>2. /\ old' = [u \in Thread |-> old[u] \ {h}]
      /\ \/ slot' = slot /\ ~ Found(slot, handle, size, h)
         \/ slot' = [slot EXCEPT ![p] = None] /\ slot[p] # None /\ handle[slot[p]] = h
    BY RegistryAssumption DEF RemoveHandle, Lookup, Found, Hash, Place
<1>3. /\ slot' \in [0 .. size - 1 -> Svc \cup {None}]
      /\ \A k \in 0 .. size - 1 : slot'[k] # None => slot'[k] = slot[k]
      /\ \A k \in 0 .. size - 1 : slot'[k] # slot[k] =>
            k = p /\ slot[k] # None /\ handle[slot[k]] = h
    BY <1>1, <1>2
<1> DEFINE Locals ==
              /\ pc' \in [Thread -> {"idle", "scan", "assign", "pass", "remove"}]
              /\ got' \in [Thread -> Nat]
              /\ \A u \in Thread : pc'[u] \in {"idle", "scan", "assign"} => pc'[u] = pc[u] /\ got'[u] = got[u]
              /\ \A u \in Thread : pc[u] \in {"idle", "scan", "assign"} => pc'[u] = pc[u] /\ got'[u] = got[u]
              /\ \A u \in Thread : pc'[u] \in {"pass", "remove"} => pc[u] \in {"pass", "remove"}
              /\ \A u \in Thread : got'[u] = got[u] \/ got[u] = h
              /\ \A u \in Thread : got'[u] # 0 <=> pc'[u] \in {"assign", "remove"}
<1>4. Locals
    <2>1. CASE UNCHANGED <<pc, got>>
        BY <1>1, <2>1 DEF RegInv, Creating
    <2>2. ASSUME NEW t \in Thread, pc[t] = "remove", got[t] = h,
                 got' = [got EXCEPT ![t] = 0], pc' = [pc EXCEPT ![t] = "pass"]
          PROVE  Locals
        <3>1. pc'[t] = "pass" /\ got'[t] = 0 /\ \A u \in Thread : u # t => pc'[u] = pc[u] /\ got'[u] = got[u]
            BY <1>1, <2>2
        <3> QED
            BY <1>1, <2>2, <3>1 DEF RegInv, Creating
    <2> QED
        BY <2>1, <2>2
<1>5. RegTypes'
    BY <1>1, <1>2, <1>3, <1>4 DEF RegInv, RegTypes
<1>6. Creating'
    <2>1. ASSUME NEW u \in Thread, pc[u] = "assign"
          PROVE  slot'[Place(got[u], size)] = ctx[u]
        <3>1. /\ Place(got[u], size) \in 0 .. size - 1
              /\ slot[Place(got[u], size)] = ctx[u] /\ handle[ctx[u]] = 0
            BY <1>1, <2>1, Places DEF RegInv, Creating
        <3> QED
            BY <1>3, <3>1
    <2>2. ASSUME NEW u \in Thread, pc[u] = "scan"
          PROVE  \A k \in 0 .. size - 1 : slot'[k] # ctx[u]
        BY <1>3, <2>2, RegistryAssumption DEF RegInv, Creating
    <2> QED
        BY <1>4, <2>1, <2>2 DEF RegInv, Creating
<1>7. Placed'
    <2>1. ASSUME NEW k \in 0 .. size - 1, slot'[k] # None, handle[slot'[k]] = 0
          PROVE  \E t \in Creator : pc'[t] = "assign" /\ ctx[t] = slot'[k] /\ Place(got'[t], size) = k
        BY <1>3, <1>4, <2>1 DEF RegInv, Placed, Thread
    <2>2. ASSUME NEW k \in 0 .. size - 1, slot'[k] # None, handle[slot'[k]] # 0
          PROVE  Place(handle[slot'[k]], size) = k
        BY <1>3, <2>2 DEF RegInv, Placed
    <2> QED
        BY <2>1, <2>2 DEF Placed
<1>8. Passing'
    <2>1. ASSUME NEW x \in Nat, x # h, Found(slot, handle, size, x)
          PROVE  Found(slot', handle', size', x)
        BY <1>1, <1>3, <2>1, Places DEF Found
    <2>2. \A u \in Thread : \A x \in old'[u] : x \in old[u] /\ x # h /\ x \in Nat
        BY <1>1, <1>2
    <2> QED
        BY <1>4, <2>1, <2>2 DEF RegInv, Passing
<1> QED
    BY <1>5, <1>6, <1>7, <1>8 DEF RegInv

\* A pass begins, with the services that are there.
LEMMA PassKeeps ==
    ASSUME RegInv, NEW t \in Thread, pc[t] \in {"idle", "pass"},
           UNCHANGED <<size, slot, handle, seed, ctx, got>>,
           idx' = [idx EXCEPT ![t] = 0],
           \/ pc' = [pc EXCEPT ![t] = "pass"] /\ old' = [old EXCEPT ![t] = InUse]
           \/ pc' = [pc EXCEPT ![t] = "idle"] /\ old' = [old EXCEPT ![t] = {}]
    PROVE  RegInv'
<1>1. /\ size \in Nat \ {0} /\ slot \in [0 .. size - 1 -> Svc \cup {None}]
      /\ handle \in [Svc -> Nat] /\ old \in [Thread -> SUBSET Nat]
      /\ idx \in [Thread -> Nat] /\ got \in [Thread -> Nat]
      /\ pc \in [Thread -> {"idle", "scan", "assign", "pass", "remove"}]
    BY DEF RegInv, RegTypes
<1>2. ASSUME NEW h \in InUse
      PROVE  h \in Nat \ {0} /\ Found(slot, handle, size, h)
    <2>1. PICK k \in 0 .. size - 1 : slot[k] # None /\ handle[slot[k]] = h /\ h # 0
        BY <1>1 DEF InUse, Listed
    <2>2. slot[k] \in Svc /\ Place(h, size) = k
        BY <1>1, <2>1 DEF RegInv, Placed
    <2> QED
        BY <1>1, <2>1, <2>2 DEF Found
<1>3. RegTypes'
    BY <1>1, <1>2 DEF RegInv, RegTypes
<1>4. /\ pc'[t] \in {"idle", "pass"} /\ idx'[t] = 0 /\ old'[t] \in {InUse, {}}
      /\ \A u \in Thread : u # t => pc'[u] = pc[u] /\ idx'[u] = idx[u] /\ old'[u] = old[u]
    BY <1>1
<1>5. Creating'
    BY <1>4 DEF RegInv, Creating
<1>6. Placed'
    BY <1>4 DEF RegInv, Placed, Thread
<1>7. Passing'
    <2>1. \A h \in Nat : Place(h, size) >= 0
        BY <1>1, Places
    <2> QED
        BY <1>2, <1>4, <2>1 DEF RegInv, Passing
<1> QED
    BY <1>3, <1>5, <1>6, <1>7 DEF RegInv

\* A pass comes to the next slot.
LEMMA ReadKeeps ==
    ASSUME RegInv, NEW t \in Thread, AbortRead(t)
    PROVE  RegInv'
<1>1. /\ size \in Nat \ {0} /\ slot \in [0 .. size - 1 -> Svc \cup {None}]
      /\ handle \in [Svc -> Nat] /\ old \in [Thread -> SUBSET Nat]
      /\ idx \in [Thread -> Nat] /\ got \in [Thread -> Nat]
      /\ pc \in [Thread -> {"idle", "scan", "assign", "pass", "remove"}]
    BY DEF RegInv, RegTypes
<1> DEFINE s == slot[idx[t]]
           h == IF s = None THEN 0 ELSE handle[s]
<1>2. /\ pc[t] = "pass" /\ idx[t] \in 0 .. size - 1
      /\ got' = [got EXCEPT ![t] = h]
      /\ pc' = [pc EXCEPT ![t] = IF h = 0 THEN "pass" ELSE "remove"]
      /\ idx' = [idx EXCEPT ![t] = idx[t] + 1]
      /\ UNCHANGED <<size, slot, handle, seed, ctx, old>>
    BY <1>1 DEF AbortRead, Free, tabVars
<1>3. h \in Nat /\ s \in Svc \cup {None}
    BY <1>1, <1>2
<1>4. \A x \in old[t] : x \in Nat \ {0} /\ Place(x, size) >= idx[t] /\ Found(slot, handle, size, x)
    BY <1>1, <1>2 DEF RegInv, Creating, Passing
<1>5. \A x \in old[t] : Place(x, size) = idx[t] => h = x
    BY <1>4 DEF Found
<1>6. \A x \in old[t] : Place(x, size) \in Nat
    <2>1. \A x \in Nat : Place(x, size) \in 0 .. size - 1
        BY <1>1, Places
    <2> QED
        BY <1>1, <1>4, <2>1
<1> HIDE DEF h, s
<1>7. /\ got'[t] = h /\ pc'[t] = (IF h = 0 THEN "pass" ELSE "remove") /\ idx'[t] = idx[t] + 1
      /\ \A u \in Thread : u # t => pc'[u] = pc[u] /\ idx'[u] = idx[u] /\ got'[u] = got[u]
    BY <1>1, <1>2
<1>8. RegTypes'
    BY <1>1, <1>2, <1>3 DEF RegInv, RegTypes
<1>9. Creating'
    BY <1>2, <1>7 DEF RegInv, Creating
<1>10. Placed'
    <2>1. \A u \in Creator : pc[u] = "assign" => pc'[u] = "assign" /\ got'[u] = got[u]
        BY <1>2, <1>7 DEF Thread
    <2> QED
        BY <1>2, <2>1 DEF RegInv, Placed
<1>11. Passing'
    <2>1. \A x \in old[t] : Place(x, size) >= idx[t] + 1 \/ h = x
        BY <1>1, <1>4, <1>5, <1>6
    <2> QED
        BY <1>2, <1>7, <2>1 DEF RegInv, Passing
<1> QED
    BY <1>8, <1>9, <1>10, <1>11 DEF RegInv

-----------------------------------------------------------------------------
\* Every step keeps the invariant.
LEMMA NextKeeps ==
    ASSUME OneCreator, RegInv, GrowthAssertion, [Next]_vars
    PROVE  RegInv' /\ GrowthAssertion'
<1> USE DEF GrowthAssertion
<1>1. CASE UNCHANGED vars
    BY <1>1, SameKeeps DEF vars, tabVars, thrVars
<1>2. ASSUME NEW t \in Creator, CreateStep(t)
      PROVE  RegInv' /\ GrowthAssertion'
    <2>1. CASE RegisterGrow(t)
        BY <2>1, GrowKeeps
    <2>2. ASSUME NEW s \in Svc, BeginRegister(t, s)
          PROVE  RegInv' /\ GrowthAssertion'
        BY <2>2, BeginKeeps DEF BeginRegister
    <2>3. CASE RegisterFound(t)
        BY <2>3, FoundKeeps DEF RegisterFound
    <2>4. CASE Assign(t)
        BY <2>4, AssignKeeps DEF Assign
    <2> QED
        BY <1>2, <2>1, <2>2, <2>3, <2>4 DEF CreateStep
<1>3. ASSUME NEW t \in Peer, PeerStep(t)
      PROVE  RegInv' /\ GrowthAssertion'
    <2>1. ASSUME NEW h \in Known, UnregisterService(t, h)
          PROVE  RegInv' /\ GrowthAssertion'
        <3>1. h \in Nat \ {0}
            BY DEF Known, RegInv, RegTypes
        <3>2. RemoveHandle(h) /\ UNCHANGED <<size, handle, seed, ctx, idx, pc, got, halt>>
            BY <2>1 DEF UnregisterService
        <3> QED
            BY <3>1, <3>2, RemoveKeeps
    <2>2. CASE UNCHANGED <<size, slot, handle, seed, pc, ctx, got, idx, old, halt>>
        BY <2>2, SameKeeps
    <2> QED
        BY <1>3, <2>1, <2>2 DEF PeerStep, Grab, SetHandleByName, FindByName, tabVars, thrVars
<1>4. ASSUME NEW t \in Peer, AbortStep(t)
      PROVE  RegInv' /\ GrowthAssertion'
    <2>1. t \in Thread
        BY DEF Thread
    <2>2. CASE BeginAbort(t)
        <3>1. /\ pc[t] \in {"idle", "pass"} /\ UNCHANGED <<size, slot, handle, seed, ctx, got, halt>>
              /\ idx' = [idx EXCEPT ![t] = 0]
              /\ pc' = [pc EXCEPT ![t] = "pass"] /\ old' = [old EXCEPT ![t] = InUse]
            BY <2>2 DEF BeginAbort, Free, tabVars
        <3> QED
            BY <2>1, <3>1, PassKeeps
    <2>3. CASE AbortRead(t)
        BY <2>1, <2>3, ReadKeeps DEF AbortRead
    <2>4. CASE AbortRemove(t)
        <3>1. /\ pc[t] = "remove" /\ RemoveHandle(got[t])
              /\ UNCHANGED <<size, handle, seed, ctx, idx, halt>>
              /\ got' = [got EXCEPT ![t] = 0] /\ pc' = [pc EXCEPT ![t] = "pass"]
            BY <2>4 DEF AbortRemove, Free
        <3>2. got[t] \in Nat \ {0}
            BY <2>1, <3>1 DEF RegInv, RegTypes, Creating
        <3> QED
            BY <2>1, <3>1, <3>2, RemoveKeeps
    <2>5. CASE AbortEnd(t)
        <3>1. /\ pc[t] \in {"idle", "pass"} /\ UNCHANGED <<size, slot, handle, seed, ctx, got, halt>>
              /\ idx' = [idx EXCEPT ![t] = 0]
              /\ \/ pc' = [pc EXCEPT ![t] = "pass"] /\ old' = [old EXCEPT ![t] = InUse]
                 \/ pc' = [pc EXCEPT ![t] = "idle"] /\ old' = [old EXCEPT ![t] = {}]
            BY <2>5 DEF AbortEnd, Free, tabVars
        <3> QED
            BY <2>1, <3>1, PassKeeps
    <2> QED
        BY <1>4, <2>2, <2>3, <2>4, <2>5 DEF AbortStep
<1> QED
    BY <1>1, <1>2, <1>3, <1>4 DEF Next

\* While one thread at a time creates services, every slot is that of its
\* service's handle and a pass of unregister_service_all misses nothing.
THEOREM RegistryInvariant == OneCreator => (Spec => [](RegInv /\ GrowthAssertion))
<1> SUFFICES ASSUME OneCreator PROVE Spec => [](RegInv /\ GrowthAssertion)
    OBVIOUS
<1>1. Init => RegInv /\ GrowthAssertion
    <2> SUFFICES ASSUME Init PROVE RegInv /\ GrowthAssertion
        OBVIOUS
    <2>1. RegTypes
        BY RegistryAssumption DEF Init, RegTypes
    <2>2. Creating /\ Placed /\ Passing /\ GrowthAssertion
        BY DEF Init, Creating, Placed, Passing, GrowthAssertion
    <2> QED
        BY <2>1, <2>2 DEF RegInv
<1>2. RegInv /\ GrowthAssertion /\ [Next]_vars => (RegInv /\ GrowthAssertion)'
    BY NextKeeps
<1> QED
    BY <1>1, <1>2, PTL DEF Spec

\* register_service, "assert(new_slot[hash] == nullptr)": with one creator the
\* services of a full table go to different slots of the doubled one.
THEOREM GrowthIsFree == OneCreator => (Spec => []GrowthAssertion)
<1> SUFFICES ASSUME OneCreator PROVE Spec => []GrowthAssertion
    OBVIOUS
<1> QED
    BY RegistryInvariant, PTL

\* unregister_service_all: no pass overlooks a service that was there when it
\* began and has not been unregistered since, though the table may be doubled,
\* handles wrap around and other threads create and remove services meanwhile.
THEOREM AbortMissesNobody == OneCreator => (Spec => []AbortMissesNone)
<1> SUFFICES ASSUME OneCreator PROVE Spec => []AbortMissesNone
    OBVIOUS
<1>1. RegInv => AbortMissesNone
    BY DEF RegInv, Passing, AbortMissesNone, Hash, Place, Thread
<1> QED
    BY <1>1, RegistryInvariant, PTL

\* grab: a registered service that has been told its handle is what the table
\* gives for that handle, so that no two services share one.
EveryServiceFound ==
    \A k \in DOMAIN slot : slot[k] # None /\ handle[slot[k]] # 0 =>
        Lookup(handle[slot[k]]) = slot[k]

\* grab finds every registered service, with one creator at a time.
THEOREM ServicesAreFound == OneCreator => (Spec => []EveryServiceFound)
<1> SUFFICES ASSUME OneCreator PROVE Spec => []EveryServiceFound
    OBVIOUS
<1>1. RegInv => EveryServiceFound
    BY DEF RegInv, RegTypes, Placed, EveryServiceFound, Lookup, Hash, Place
<1> QED
    BY <1>1, RegistryInvariant, PTL

=============================================================================
