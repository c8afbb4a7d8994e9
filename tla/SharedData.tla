----------------------------- MODULE SharedData -----------------------------
(***************************************************************************)
(* Shared data: sharedatad.lua keeps the current object of a name (one     *)
(* name here) and counts the references to every object; the services that *)
(* use it (sharedata.lua, corelib.lua) read it in place, are told of an    *)
(* update by a call that stays open (monitor), and switch over when they   *)
(* next look.  The objects and their counters are those of                 *)
(* lua-sharedata.cpp.  Messages of one service to the other keep their     *)
(* order.                                                                  *)
(***************************************************************************)
EXTENDS Integers, Sequences, SequencesExt, FiniteSets

CONSTANTS
    Client,         \* services that use the data
    MaxAsk,         \* bound on the queries and objects of a service at a time
    Garbage,        \* what the memory of a new counter may hold: it is not set
    Replaced,       \* the name may be made again after it was deleted
    INT_MAX,        \* the largest value of a counter; more wraps around
    LoadFails,      \* the data of an update may fail to load
    MaxObj          \* bound on the objects made

VARIABLES
    obj,            \* the objects made, in order: [ref, dirty, first, state]
    pool,           \* the object of the name, 0 if there is none
    watch,          \* <<service, view>>: whose monitor call is open
    net,            \* messages of each service to sharedatad, in order
    answer,         \* answers under way to each service
    view,           \* per service: the tables sd.box made, [pc, root, update, monitor]
    cache,          \* per service: the view that the name's cache holds, 0 for none
    trash,          \* per service: boxes that are garbage
    lost            \* objects whose confirm went down with a failed assertion

vars == <<obj, pool, watch, net, answer, view, cache, trash, lost>>

View == 1..MaxAsk

NoView == [pc |-> "none", root |-> 0, update |-> 0, monitor |-> "none"]

Msg(cmd, o, v) == [cmd |-> cmd, o |-> o, v |-> v]

-----------------------------------------------------------------------------
(* The counters: lincref, ldecref, lboxconf, releaseobj.                   *)

\* std::atomic<int>
Wrap(n) == ((n + INT_MAX + 1) % (2 * (INT_MAX + 1))) - (INT_MAX + 1)

incref(s, o) == [s EXCEPT ![o].ref = Wrap(@ + 1)]

decref(s, o) == [s EXCEPT ![o].ref = Wrap(@ - 1)]

-----------------------------------------------------------------------------
(* sharedatad                                                              *)

newobj(s, first) ==
    Append(s, [ref |-> Wrap(first + 1), dirty |-> FALSE, first |-> first, state |-> "pool"])

Retire(s, o) == decref([s EXCEPT ![o].state = "old"], o)

New(first) ==
    /\ pool = 0 /\ Len(obj) < MaxObj
    /\ Replaced \/ obj = <<>>
    /\ obj' = newobj(obj, first)
    /\ pool' = Len(obj')
    /\ UNCHANGED <<watch, net, answer, view, cache, trash, lost>>

\* Who watches is told of the object o, 0 for the end of the name.
TellWatchers(o) ==
    /\ watch' = {}
    /\ answer' = [c \in Client |->
                    answer[c] \o SetToSeq({Msg("monitor", o, w[2]) : w \in {x \in watch : x[1] = c}})]

Delete ==
    /\ pool # 0
    /\ obj' = Retire(obj, pool)
    /\ pool' = 0
    /\ TellWatchers(0)
    /\ UNCHANGED <<net, view, cache, trash, lost>>

Watched(s, o, n) == [s EXCEPT ![o].ref = Wrap(@ + n)]

Update(first) ==
    LET s == newobj(IF pool # 0 THEN [Retire(obj, pool) EXCEPT ![pool].dirty = TRUE] ELSE obj, first)
        o == Len(s)
    IN  /\ Len(obj) < MaxObj
        /\ pool # 0 \/ Replaced \/ obj = <<>>
        /\ obj' = Watched(s, o, Cardinality(watch))
        /\ pool' = o
        /\ TellWatchers(o)
        /\ UNCHANGED <<net, view, cache, trash, lost>>

\* CMD.new fails in CMD.update: the name is gone, and nobody answers the
\* watchers ("deaf"), although the name may be made again.
UpdateFails ==
    /\ LoadFails /\ pool # 0
    /\ obj' = Retire(obj, pool)
    /\ pool' = 0
    /\ watch' = {}
    /\ view' = [c \in Client |-> [v \in View |->
                  IF <<c, v>> \in watch THEN [view[c][v] EXCEPT !.monitor = "deaf"] ELSE view[c][v]]]
    /\ UNCHANGED <<net, answer, cache, trash, lost>>

Answer(c, m) == answer' = [answer EXCEPT ![c] = Append(@, m)]

MustWatch(m) == m.cmd = "monitor" /\ m.o = pool

\* CMD.query, CMD.confirm and CMD.monitor; an assertion answers with an error (-1).
Serve(c) ==
    LET m == Head(net[c])
        given == IF pool = 0 THEN -1 ELSE pool
    IN  /\ net[c] # <<>>
        /\ net' = [net EXCEPT ![c] = Tail(@)]
        /\ IF m.cmd = "confirm"
           THEN /\ obj' = IF obj[m.o].state # "freed" THEN decref(obj, m.o) ELSE obj
                /\ UNCHANGED <<answer, watch>>
           ELSE IF MustWatch(m)
           THEN watch' = watch \cup {<<c, m.v>>} /\ UNCHANGED <<answer, obj>>
           ELSE /\ obj' = IF pool # 0 THEN incref(obj, pool) ELSE obj
                /\ Answer(c, Msg(m.cmd, given, m.v))
                /\ UNCHANGED watch
        /\ UNCHANGED <<pool, view, cache, trash, lost>>

Freeable(o) == o.state = "old" /\ o.ref <= 0

\* collectobj: every retired object without references is deleted.
Collect ==
    /\ \E i \in DOMAIN obj : Freeable(obj[i])
    /\ obj' = [i \in DOMAIN obj |-> IF Freeable(obj[i]) THEN [obj[i] EXCEPT !.state = "freed"] ELSE obj[i]]
    /\ UNCHANGED <<pool, watch, net, answer, view, cache, trash, lost>>

-----------------------------------------------------------------------------
(* sharedata.lua and corelib.lua in a service                              *)

Send(c, ms) == net' = [net EXCEPT ![c] = @ \o ms]

\* sharedata.query or deepcopy without a cached object, also while another
\* coroutine of the service asks.
Query(c, v, how) ==
    /\ cache[c] = 0 /\ view[c][v].pc = "none"
    /\ view' = [view EXCEPT ![c][v].pc = how]
    /\ Send(c, <<Msg("query", 0, v)>>)
    /\ UNCHANGED <<obj, pool, watch, answer, cache, trash, lost>>

\* The answer to deepcopy, or to a query that another one has overtaken (the
\* cached table shows the same object): it is only confirmed.  Otherwise box the
\* object, confirm, fork monitor.
Queried(c, v, o) ==
    LET shown == cache[c] # 0 /\ view[c][cache[c]].root = o
    IN  /\ IF o = -1 THEN /\ view' = [view EXCEPT ![c][v].pc = "none"]
                          /\ UNCHANGED <<obj, net, cache>>
           ELSE IF view[c][v].pc = "deepcopy" \/ shown
           THEN /\ view' = [view EXCEPT ![c][v].pc = "none"]
                /\ Send(c, <<Msg("confirm", o, v)>>)
                /\ UNCHANGED <<obj, cache>>
           ELSE /\ obj' = incref(obj, o)
                /\ view' = [view EXCEPT ![c][v] = [pc |-> "data", root |-> o, update |-> 0, monitor |-> "on"]]
                /\ cache' = [cache EXCEPT ![c] = v]
                /\ Send(c, <<Msg("confirm", o, v), Msg("monitor", o, v)>>)
        /\ UNCHANGED <<trash, lost>>

\* The answer to monitor: conf.update asserts that the old object is dirty and
\* keeps a box of the new one beside it; nil ends the coroutine, which takes
\* the table out of the cache, and an error just ends it.
Monitored(c, v, o) ==
    LET d == view[c][v]
    IN  \/ /\ o = 0
           /\ view' = [view EXCEPT ![c][v].monitor = "ended"]
           /\ cache' = [cache EXCEPT ![c] = IF @ = v THEN 0 ELSE @]
           /\ UNCHANGED <<obj, net, trash, lost>>
        \/ /\ o = -1 \/ (o > 0 /\ ~obj[d.root].dirty)
           /\ view' = [view EXCEPT ![c][v].monitor = "failed"]
           /\ lost' = IF o = -1 THEN lost ELSE Append(lost, o)
           /\ UNCHANGED <<obj, net, cache, trash>>
        \/ /\ o > 0 /\ obj[d.root].dirty
           /\ obj' = incref(obj, o)
           /\ view' = [view EXCEPT ![c][v].update = o]
           /\ trash' = [trash EXCEPT ![c] = IF d.update = 0 THEN @ ELSE Append(@, d.update)]
           /\ Send(c, <<Msg("confirm", o, v), Msg("monitor", o, v)>>)
           /\ UNCHANGED <<cache, lost>>

Answered(c) ==
    LET m == Head(answer[c])
    IN  /\ answer[c] # <<>>
        /\ answer' = [answer EXCEPT ![c] = Tail(@)]
        /\ IF m.cmd = "query" THEN Queried(c, m.v, m.o) ELSE Monitored(c, m.v, m.o)
        /\ UNCHANGED <<pool, watch>>

\* getcobj: switch to the new object; the old box is garbage.
Look(c, v) ==
    LET d == view[c][v]
    IN  /\ d.pc = "data" /\ obj[d.root].dirty /\ d.update # 0
        /\ view' = [view EXCEPT ![c][v].root = d.update, ![c][v].update = 0]
        /\ trash' = [trash EXCEPT ![c] = Append(@, d.root)]
        /\ UNCHANGED <<obj, pool, watch, net, answer, cache, lost>>

\* The garbage collector runs: the boxes that are garbage are released.
CollectGarbage(c) ==
    /\ trash[c] # <<>>
    /\ obj' = decref(obj, Head(trash[c]))
    /\ trash' = [trash EXCEPT ![c] = Tail(@)]
    /\ UNCHANGED <<pool, watch, net, answer, view, cache, lost>>

\* The service drops a table whose monitor, which holds it too, is over; the
\* cache is weak.
Drop(c, v) ==
    LET d == view[c][v]
    IN  /\ d.pc = "data" /\ d.monitor \in {"ended", "failed"}
        /\ view' = [view EXCEPT ![c][v] = NoView]
        /\ cache' = [cache EXCEPT ![c] = IF @ = v THEN 0 ELSE @]
        /\ trash' = [trash EXCEPT ![c] = @ \o IF d.update = 0 THEN <<d.root>> ELSE <<d.root, d.update>>]
        /\ UNCHANGED <<obj, pool, watch, net, answer, lost>>

-----------------------------------------------------------------------------
(* Who uses an object.                                                     *)

Count(s, x) == Cardinality({j \in DOMAIN s : s[j] = x})

\* A service's boxes of an object, and its references under way: an object in
\* an answer, or not yet confirmed.
Uses(c, o) ==
    Cardinality({v \in View : view[c][v].root = o}) + Cardinality({v \in View : view[c][v].update = o})
        + Count(trash[c], o)
        + Cardinality({j \in DOMAIN answer[c] : answer[c][j].o = o})
        + Cardinality({j \in DOMAIN net[c] : net[c][j].cmd = "confirm" /\ net[c][j].o = o})

Users(o) == (IF pool = o THEN 1 ELSE 0) + MapThenSumSet(LAMBDA c : Uses(c, o), Client)

\* An object was deleted under who uses it: what follows is undefined.
UsedAfterDelete == \E o \in DOMAIN obj : obj[o].state = "freed" /\ Users(o) > 0

-----------------------------------------------------------------------------
Init ==
    /\ obj = <<>> /\ pool = 0 /\ watch = {}
    /\ net = [c \in Client |-> <<>>] /\ answer = [c \in Client |-> <<>>]
    /\ view = [c \in Client |-> [v \in View |-> NoView]]
    /\ cache = [c \in Client |-> 0] /\ trash = [c \in Client |-> <<>>]
    /\ lost = <<>>

Next ==
    /\ ~UsedAfterDelete
    /\ \/ \E first \in Garbage : New(first) \/ Update(first)
       \/ Delete \/ UpdateFails \/ Collect
       \/ \E c \in Client : Serve(c) \/ Answered(c) \/ CollectGarbage(c)
       \/ \E c \in Client, v \in View :
             Query(c, v, "query") \/ Query(c, v, "deepcopy") \/ Look(c, v) \/ Drop(c, v)

Spec == Init /\ [][Next]_vars

-----------------------------------------------------------------------------
\* Every variable keeps its type.
TypeOK ==
    /\ pool \in 0..Len(obj) /\ watch \subseteq Client \X View
    /\ \A c \in Client : /\ cache[c] \in 0..MaxAsk
                         /\ \A v \in View : view[c][v].root \in 0..Len(obj) /\ view[c][v].update \in 0..Len(obj)

\* The counter of an object counts the pool, the boxes in the services, the
\* references under way and those a failed assertion of conf.update leaves
\* behind for ever, on top of what its memory held at first: convert_stringmap
\* does not set it.  So collectobj deletes no object that a service reads, or is
\* about to, unless that was negative or so large that the count wraps around.
RefsExact ==
    \A o \in DOMAIN obj :
        LET count == obj[o].first + Users(o) + Count(lost, o)
        IN  /\ obj[o].ref = Wrap(count)
            /\ obj[o].state = "freed" /\ obj[o].first >= 0 /\ count <= INT_MAX => Users(o) = 0

\* A view whose monitor is at work is not left on an old object: when nothing of
\* its service is under way it is in watch, and holds the object of the pool.
\* There are three other ends of a monitor, and after each the view stays as it
\* is: the name was deleted ("ended"), the call or the assertion in conf.update
\* failed since the name was deleted and made again ("failed"), or an update did
\* not load, and nobody will answer ("deaf").
UpToDate ==
    \A c \in Client, v \in View :
        view[c][v].monitor = "on" /\ net[c] = <<>> /\ answer[c] = <<>> =>
            /\ <<c, v>> \in watch
            /\ pool = IF view[c][v].update # 0 THEN view[c][v].update ELSE view[c][v].root

-----------------------------------------------------------------------------
(***************************************************************************)
(* lua-sharedata.cpp: how lnewconf lays a Lua table out for readers in     *)
(* other threads, an array and a hash table without spare slots, and how   *)
(* lindexconf and lnextkey find their way in it.  A key is [int, k]; k of  *)
(* a string is its number in the string table, and its hash is given.  A   *)
(* value is a number, 0 for nil.  A table inside is a value.               *)
(***************************************************************************)

CONSTANTS
    IntKey, StrKey, \* the keys of tables and of lookups
    StrHash,        \* calchash: StrKey -> hash
    HashMod,        \* 2^32: a hash is less
    MaxKeys         \* bound on the keys of a table

VARIABLES
    keys,           \* the keys of the Lua table, in the order of lua_next
    sizearray,      \* its length, lua_rawlen
    array, hash,    \* the layout
    emptyslot,      \* where fillcolliding looks for an empty slot
    pc, i,          \* the loop at work and its position
    walked          \* keys lnextkey has returned

Key == [int : {TRUE}, k : IntKey] \cup [int : {FALSE}, k : StrKey]

IntegerKey(n) == [int |-> TRUE, k |-> n]

\* The value of a key: any number that tells the keys apart.
ValueOf(key) == IF key.int THEN 100 + key.k ELSE 200 + key.k

InArray(key) == key.int /\ key.k > 0 /\ key.k <= sizearray

keyhash(key) == IF key.int THEN key.k % HashMod ELSE StrHash[key.k]

\* Slots are numbered from 1; next is 0 for the end of a chain.
MainPos(key) == (keyhash(key) % Len(hash)) + 1

Nothing == [key |-> IntegerKey(0), hash |-> 0, next |-> 0, nocolliding |-> FALSE, v |-> 0]

-----------------------------------------------------------------------------
(* convtable                                                               *)

countsize(ks, n) == Cardinality({j \in DOMAIN ks : ~(ks[j].int /\ ks[j].k > 0 /\ ks[j].k <= n)})

Border(ks, n) ==
    /\ n = 0 \/ IntegerKey(n) \in Range(ks)
    /\ IntegerKey(n + 1) \notin Range(ks)

ConfInit ==
    /\ \E S \in SUBSET Key : Cardinality(S) <= MaxKeys /\ keys \in SetToSeqs(S)
    /\ sizearray \in {n \in 0..MaxKeys : Border(keys, n)}
    /\ array = [j \in 1..sizearray |-> 0]
    /\ hash = [j \in 1..countsize(keys, sizearray) |-> Nothing]
    /\ emptyslot = 1
    /\ pc = (IF keys = <<>> THEN "walk" ELSE "nocolliding") /\ i = 1
    /\ walked = <<>>

Loop == IF i < Len(keys) THEN i' = i + 1 /\ UNCHANGED pc
        ELSE i' = 1 /\ pc' = IF pc = "nocolliding" THEN "colliding" ELSE "walk"

Node(key, next, nocolliding) ==
    [key |-> key, hash |-> keyhash(key), next |-> next, nocolliding |-> nocolliding, v |-> ValueOf(key)]

\* A key whose main position is free gets it; elements of the array get theirs.
fillnocolliding ==
    /\ pc = "nocolliding"
    /\ LET key == keys[i]
       IN  IF InArray(key)
           THEN array' = [array EXCEPT ![key.k] = ValueOf(key)] /\ UNCHANGED hash
           ELSE /\ hash' = IF hash[MainPos(key)].v = 0
                           THEN [hash EXCEPT ![MainPos(key)] = Node(key, 0, TRUE)] ELSE hash
                /\ UNCHANGED array
    /\ Loop
    /\ UNCHANGED <<keys, sizearray, emptyslot, walked>>

Linked(h, main, slot, key) ==
    [h EXCEPT ![main].next = slot, ![main].nocolliding = FALSE,
              ![slot] = Node(key, h[main].next, FALSE)]

\* The others go to the empty slots, linked behind their main position.
fillcolliding ==
    /\ pc = "colliding"
    /\ LET key == keys[i]
           free == {j \in emptyslot..Len(hash) : hash[j].v = 0}
           slot == CHOOSE j \in free : \A k \in free : j <= k
       IN  IF InArray(key) \/ hash[MainPos(key)].key = key
           THEN UNCHANGED <<hash, emptyslot>>
           ELSE /\ hash' = Linked(hash, MainPos(key), slot, key)
                /\ emptyslot' = slot + 1
    /\ Loop
    /\ UNCHANGED <<keys, sizearray, array, walked>>

-----------------------------------------------------------------------------
(* The readers.                                                            *)

\* The slots from slot j on along its chain.
RECURSIVE Chain(_)
Chain(j) == IF j = 0 THEN {} ELSE {j} \cup Chain(hash[j].next)

\* The slot of a key, 0 if it has none.
lookup_key(key) ==
    LET main == hash[MainPos(key)]
        found == {j \in Chain(MainPos(key)) : hash[j].hash = keyhash(key) /\ hash[j].key = key}
    IN  IF hash = <<>> THEN 0
        ELSE IF keyhash(key) # main.hash /\ main.nocolliding THEN 0
        ELSE IF found = {} THEN 0 ELSE CHOOSE j \in found : TRUE

indexconf(key) ==
    IF InArray(key) THEN array[key.k]
    ELSE IF lookup_key(key) = 0 THEN 0 ELSE hash[lookup_key(key)].v

\* The key after key in the array part from slot n on, then the first of the hash.
NextInArray(n) ==
    LET rest == {j \in n..sizearray : array[j] # 0}
    IN  IF rest # {} THEN <<IntegerKey(CHOOSE j \in rest : \A k \in rest : j <= k)>>
        ELSE IF hash # <<>> THEN <<hash[1].key>> ELSE <<>>

\* lnextkey after the last of ks, or at the start: <<key>>, or <<>> at the end.
nextkey(ks) ==
    IF ks = <<>> THEN NextInArray(1)
    ELSE IF InArray(Last(ks)) THEN NextInArray(Last(ks).k + 1)
    ELSE LET j == lookup_key(Last(ks))
         IN  IF j = 0 \/ j = Len(hash) THEN <<>> ELSE <<hash[j + 1].key>>

Walk ==
    /\ pc = "walk"
    /\ walked' = walked \o nextkey(walked)
    /\ pc' = IF nextkey(walked) = <<>> THEN "done" ELSE "walk"
    /\ UNCHANGED <<keys, sizearray, array, hash, emptyslot, i>>

-----------------------------------------------------------------------------
ConfNext == fillnocolliding \/ fillcolliding \/ Walk

-----------------------------------------------------------------------------
\* Every variable keeps its type.
ConfTypeOK ==
    /\ emptyslot \in 1..(Len(hash) + 1) /\ i \in 1..(MaxKeys + 1)
    /\ \A j \in DOMAIN hash : hash[j].next \in 0..Len(hash)

\* lindexconf finds every key of the Lua table with its value, and no other key,
\* however the keys collide and in whatever order they came.
FindsKeys ==
    pc \in {"walk", "done"} =>
        \A key \in Key : indexconf(key) = IF key \in Range(keys) THEN ValueOf(key) ELSE 0

\* lnextkey goes through every key once.
WalksKeys ==
    pc = "done" => Len(walked) = Len(keys) /\ Range(walked) = Range(keys)
=============================================================================
