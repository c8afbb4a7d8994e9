----------------------------- MODULE DataSheet ------------------------------
(***************************************************************************)
(* Data sheets: the service of datasheet/builder.lua keeps the current     *)
(* version (a handle) of a sheet and counts the references to each         *)
(* version; customers (datasheet/init.lua) query it and wait for the next  *)
(* one; the builder keeps the memory of a version until it is told that    *)
(* nobody uses it (collect).  One sheet; messages of one service to        *)
(* another keep their order.                                               *)
(***************************************************************************)
EXTENDS Integers, Sequences, FiniteSets, FiniteSetsExt, Functions

CONSTANTS
    Customer,       \* services that use the sheet
    Builder,        \* the service that builds it; it may be a customer too
    MaxVersion      \* bound on the versions

VARIABLES
    handle,         \* the current version, 0 before the first
    handles,        \* versions: [ref, collect: "no", "wait", "done"]
    monitor,        \* services that wait for the next version
    customers,      \* versions each service is known to hold
    net,            \* messages of each service to the datasheet service
    answer,         \* answers on their way: a version, -1 error, 0 to update
    sheet,          \* customer: the version its object shows, 0 none, -1 error
    building,       \* the builder waits for the answer to update
    closed          \* customers that are gone

vars == <<handle, handles, monitor, customers, net, answer, sheet, building, closed>>

Service == Customer \cup {Builder}

Msg(cmd, h) == [cmd |-> cmd, h |-> h]

Send(s, ms) == net' = [net EXCEPT ![s] = @ \o ms]

-----------------------------------------------------------------------------
(* The datasheet service.                                                  *)

\* Mutant: the last reference but one frees the version.
ReleasedSoon(hs, h) ==
    [hs EXCEPT ![h] = [ref |-> @.ref - 1,
                       collect |-> IF @.ref <= 2 /\ @.collect = "wait" THEN "done" ELSE @.collect]]

\* releasehandle
Released(hs, h) ==
    [hs EXCEPT ![h] = [ref |-> @.ref - 1,
                       collect |-> IF @.ref = 1 /\ @.collect = "wait" THEN "done" ELSE @.collect]]

\* A new version is referenced by all who referenced the one before.
FirstRef == IF handle = 0 THEN 1 ELSE handles[handle].ref

update(s, h) ==
    /\ handles' = Append(handles, [ref |-> FirstRef, collect |-> "no"])
    /\ handle' = h
    /\ monitor' = {}
    /\ customers' = [c \in Service |-> customers[c] \cup (IF c \in monitor THEN {h} ELSE {})]
    /\ answer' = [c \in Service |-> answer[c]
                    \o (IF c \in monitor \ closed THEN <<h>> ELSE <<>>)
                    \o (IF c = Builder THEN <<0>> ELSE <<>>)]

query(s) ==
    /\ IF handle = 0
       THEN UNCHANGED <<handles, customers>>
       ELSE /\ handles' = [handles EXCEPT ![handle].ref = @ + 1]
            /\ customers' = [customers EXCEPT ![s] = @ \cup {handle}]
    /\ answer' = IF s \in closed THEN answer
                 ELSE [answer EXCEPT ![s] = Append(@, IF handle = 0 THEN -1 ELSE handle)]
    /\ UNCHANGED <<handle, monitor>>

\* Mutant: a customer waits even when the version has changed already.
monitor_always(s, h) ==
    /\ monitor' = monitor \cup {s}
    /\ UNCHANGED <<handle, handles, customers, answer>>

monitor_(s, h) ==
    /\ \/ /\ h # handle
          /\ customers' = [customers EXCEPT ![s] = @ \cup {handle}]
          /\ answer' = IF s \in closed THEN answer ELSE [answer EXCEPT ![s] = Append(@, handle)]
          /\ UNCHANGED monitor
       \/ /\ h = handle
          /\ monitor' = monitor \cup {s}
          /\ UNCHANGED <<customers, answer>>
    /\ UNCHANGED <<handle, handles>>

release(s, h) ==
    /\ handles' = Released(handles, h)
    /\ customers' = [customers EXCEPT ![s] = @ \ {h}]
    /\ monitor' = monitor \ {s}
    /\ UNCHANGED <<handle, answer>>

close(s) ==
    /\ handles' = FoldSet(LAMBDA h, hs : Released(hs, h), handles, customers[s])
    /\ monitor' = IF customers[s] = {} THEN monitor ELSE monitor \ {s}
    /\ customers' = [customers EXCEPT ![s] = {}]
    /\ UNCHANGED <<handle, answer>>

collect(h) ==
    /\ handles' = [handles EXCEPT ![h].collect = IF handles[h].ref = 0 THEN "done" ELSE "wait"]
    /\ UNCHANGED <<handle, monitor, customers, answer>>

Serve(s) ==
    LET m == Head(net[s])
    IN  /\ net[s] # <<>>
        /\ net' = [net EXCEPT ![s] = Tail(@)]
        /\ \/ m.cmd = "update" /\ update(s, m.h)
           \/ m.cmd = "query" /\ query(s)
           \/ m.cmd = "monitor" /\ monitor_(s, m.h)
           \/ m.cmd = "release" /\ release(s, m.h)
           \/ m.cmd = "close" /\ close(s)
           \/ m.cmd = "collect" /\ collect(m.h)
        /\ UNCHANGED <<sheet, building, closed>>

-----------------------------------------------------------------------------
(* The builder: builder.new, builder.update.                               *)

Update ==
    /\ ~building /\ Len(handles) < MaxVersion
    /\ building' = TRUE
    /\ Send(Builder, <<Msg("update", Len(handles) + 1)>>)
    /\ UNCHANGED <<handle, handles, monitor, customers, answer, sheet, closed>>

\* The call of update returns: release the version before, wait for the end of
\* this one.
Updated ==
    LET h == Len(handles)
    IN  /\ answer[Builder] # <<>> /\ Head(answer[Builder]) = 0
        /\ answer' = [answer EXCEPT ![Builder] = Tail(@)]
        /\ Send(Builder, (IF h > 1 THEN <<Msg("release", h - 1)>> ELSE <<>>) \o <<Msg("collect", h)>>)
        /\ building' = FALSE
        /\ UNCHANGED <<handle, handles, monitor, customers, sheet, closed>>

-----------------------------------------------------------------------------
(* The customers: datasheet.query and its monitor.                         *)

Query(c) ==
    /\ sheet[c] = 0 /\ c \notin closed
    /\ net[c] = <<>> /\ answer[c] = <<>>
    /\ Send(c, <<Msg("query", 0)>>)
    /\ UNCHANGED <<handle, handles, monitor, customers, answer, sheet, building, closed>>

\* The answer to query, or to monitor: then the version before is released.
Shows(c) ==
    LET h == Head(answer[c])
    IN  /\ answer[c] # <<>> /\ h # 0
        /\ answer' = [answer EXCEPT ![c] = Tail(@)]
        /\ sheet' = [sheet EXCEPT ![c] = h]
        /\ Send(c, (IF sheet[c] # 0 THEN <<Msg("release", sheet[c])>> ELSE <<>>)
                   \o (IF h > 0 THEN <<Msg("monitor", h)>> ELSE <<>>))
        /\ UNCHANGED <<handle, handles, monitor, customers, building, closed>>

\* The customer exits: the finalizer of its sheets.
Close(c) ==
    /\ c \notin closed \cup {Builder}
    /\ closed' = closed \cup {c}
    /\ answer' = [answer EXCEPT ![c] = <<>>]
    /\ sheet' = [sheet EXCEPT ![c] = 0]
    /\ Send(c, <<Msg("close", 0)>>)
    /\ UNCHANGED <<handle, handles, monitor, customers, building>>

-----------------------------------------------------------------------------
Init ==
    /\ handle = 0 /\ handles = <<>> /\ monitor = {}
    /\ customers = [s \in Service |-> {}]
    /\ net = [s \in Service |-> <<>>]
    /\ answer = [s \in Service |-> <<>>]
    /\ sheet = [c \in Customer |-> 0]
    /\ building = FALSE /\ closed = {}

Next ==
    \/ Update \/ Updated
    \/ \E s \in Service : Serve(s)
    \/ \E c \in Customer : Query(c) \/ Shows(c) \/ Close(c)

Spec == Init /\ [][Next]_vars

-----------------------------------------------------------------------------
Version == 1 .. MaxVersion

\* Every variable keeps its type; the numbers of references stay natural.
TypeOK ==
    /\ handle \in 0 .. MaxVersion
    /\ \A h \in DOMAIN handles : /\ handles[h].ref \in 0 .. 2 + 2 * Cardinality(Customer)
                                 /\ handles[h].collect \in {"no", "wait", "done"}
    /\ monitor \subseteq Customer /\ closed \subseteq Customer
    /\ customers \in [Service -> SUBSET Version]
    /\ \A s \in Service : Len(answer[s]) <= 2
    /\ sheet \in [Customer -> -1 .. MaxVersion]
    /\ building \in BOOLEAN

\* A version is not given back to its builder (collect answered, the string
\* dropped from cache) while an object shows it, an answer on its way names it,
\* it is named by a message of a customer, or it is the current version.  It may
\* be kept for longer, even for ever: update counts every customer as a user of
\* the new version, and one that is told of a later version never releases those
\* it has skipped.
HeldAlive ==
    \A h \in DOMAIN handles : handles[h].collect = "done" =>
        /\ handle # h
        /\ \A c \in Customer : /\ sheet[c] # h /\ h \notin Range(answer[c])
                               /\ \A j \in DOMAIN net[c] :
                                     net[c][j].h = h => net[c][j].cmd = "collect"

\* When nothing is on its way every customer shows the current version and waits
\* for the next one: no update is missed, except by an object in the builder's
\* own service.  There builder.update releases the version before in the name of
\* the service, after the object has begun to wait for the next one, and
\* releasehandle forgets whom of that service to tell.
UpToDate ==
    (~building /\ \A s \in Service : net[s] = <<>>) =>
        \A c \in Customer \ {Builder} : (answer[c] = <<>> /\ sheet[c] > 0) =>
                                          sheet[c] = handle /\ c \in monitor

-----------------------------------------------------------------------------
(***************************************************************************)
(* The documents of data sheets and the Lua tables that stand for their    *)
(* parts.  A document (datasheet/dump.lua) numbers the tables of a value;  *)
(* diff renumbers a new version so that a table at the same path keeps its *)
(* number.  A proxy (lua-datasheet.cpp) is a Lua table of a customer that  *)
(* reads table number index of the document data, and follows updates by   *)
(* keeping its number.  A value is the set of the paths of its tables; the *)
(* plain values in the tables and the byte layout are left out.            *)
(***************************************************************************)

CONSTANTS
    Shapes,         \* values: sets of paths, closed under prefixes
    MaxDocs,     \* bound on the versions
    MaxProxies      \* bound on the proxies a customer ever has

VARIABLES
    docs,           \* versions built: document, the path of each table number
    shown,          \* the version the customer's object was updated to
    proxies         \* sequence of [path, index, data, cached: in NODECACHE]

NoTable == <<"INVALID_OFFSET">>

Size(doc) == Cardinality(DOMAIN doc)

-----------------------------------------------------------------------------
(* dump.lua                                                                *)

\* A numbering of the tables: the root is 0, pairs visits the others in any order.
dump(shape) ==
    {d \in Bijection(0 .. Cardinality(shape) - 1, shape) : d[0] = <<>>}

\* diffmap, and numbers past the last document for the tables that are new.
Diff(last, cur) ==
    LET New == {i \in DOMAIN cur : cur[i] \notin Range(last)}
    IN  [i \in DOMAIN cur |->
            IF i \in New
            THEN Size(last) + Cardinality({j \in New : j < i})
            ELSE CHOOSE o \in DOMAIN last : last[o] = cur[i]]

\* ctd.diff: the index table of the new version.
Remapped(last, cur) ==
    LET map == Diff(last, cur)
        newn == Size(last) + Cardinality({i \in DOMAIN cur : cur[i] \notin Range(last)})
    IN  [o \in 0 .. newn - 1 |->
            IF \E i \in DOMAIN cur : map[i] = o
            THEN cur[CHOOSE i \in DOMAIN cur : map[i] = o]
            ELSE NoTable]

Build ==
    /\ Len(docs) < MaxDocs
    /\ \E shape \in Shapes : \E cur \in dump(shape) :
          docs' = Append(docs, IF docs = <<>> THEN cur ELSE Remapped(docs[Len(docs)], cur))
    /\ UNCHANGED <<shown, proxies>>

-----------------------------------------------------------------------------
(* lua-datasheet.cpp                                                       *)

Cached(d, i) == {k \in DOMAIN proxies : /\ proxies[k].cached
                                         /\ proxies[k].data = d /\ proxies[k].index = i}

Proxy(d, i) == [path |-> docs[d][i], index |-> i, data |-> d, cached |-> TRUE]

\* lnew
New ==
    /\ shown = 0 /\ docs # <<>>
    /\ \E d \in DOMAIN docs : shown' = d /\ proxies' = <<Proxy(d, 0)>>
    /\ UNCHANGED docs

\* copytable: a proxy for each table in the table that is read; a proxy whose
\* table is gone raises an error.
Read(k) ==
    LET p == proxies[k]
        doc == docs[p.data]
        Inner == {i \in DOMAIN doc : /\ doc[i] # NoTable
                                     /\ Len(doc[i]) = Len(p.path) + 1
                                     /\ SubSeq(doc[i], 1, Len(p.path)) = p.path}
    IN  /\ doc[p.index] # NoTable
        /\ \E i \in Inner :
              /\ Cached(p.data, i) = {} /\ Len(proxies) < MaxProxies
              /\ proxies' = Append(proxies, Proxy(p.data, i))
        /\ UNCHANGED <<docs, shown>>

\* One entry of update_cache.
Follows(p, d) == [p EXCEPT !.data = d, !.cached = docs[d][p.index] # NoTable]

update_cache ==
    \E d \in shown + 1 .. Len(docs) :
        /\ shown > 0
        /\ shown' = d
        /\ proxies' = [k \in DOMAIN proxies |->
                         IF proxies[k].cached THEN Follows(proxies[k], d) ELSE proxies[k]]
        /\ UNCHANGED docs

-----------------------------------------------------------------------------
TableInit == docs = <<>> /\ shown = 0 /\ proxies = <<>>

TableNext == Build \/ New \/ update_cache \/ \E k \in DOMAIN proxies : Read(k)

-----------------------------------------------------------------------------
\* Documents number tables, proxies point into documents.
TableTypeOK ==
    /\ Len(docs) <= MaxDocs /\ shown \in 0 .. Len(docs)
    /\ \A v \in DOMAIN docs : docs[v][0] = <<>>
    /\ \A k \in DOMAIN proxies : /\ proxies[k].data \in DOMAIN docs
                                 /\ proxies[k].index \in DOMAIN docs[proxies[k].data]

\* However many versions a customer skips, a proxy reads the table at the path
\* it was made for, or raises an error (copytable): never another table.
SamePath ==
    \A k \in DOMAIN proxies :
        docs[proxies[k].data][proxies[k].index] \in {proxies[k].path, NoTable}

\* The proxies of NODECACHE read the version the object was updated to, and there
\* is one for each table.
CacheCurrent ==
    \A k, l \in DOMAIN proxies :
        proxies[k].cached =>
            /\ proxies[k].data = shown
            /\ docs[shown][proxies[k].index] = proxies[k].path
            /\ (proxies[l].cached /\ proxies[l].path = proxies[k].path) => k = l
=============================================================================
