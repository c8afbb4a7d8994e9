--------------------------- MODULE HandleRegistry ---------------------------
(***************************************************************************)
(* service_manager: the handles of the services and their names.           *)
(*                                                                         *)
(* svc_ctx_slot_ is a hash table indexed by the low bits of the handle,    *)
(* doubled when a scan from the seed finds no free slot.  create_service   *)
(* puts a context into it while its svc_handle_ is still 0 and stores the  *)
(* handle only after the lock has been given back.                         *)
(*                                                                         *)
(* A member of Svc is a service_context; its address may be used again     *)
(* after it has been deleted.  Reference counts are in module Dispatch.    *)
(***************************************************************************)
EXTENDS Integers, Sequences, FiniteSets

(***************************************************************************)
(* The alias table of service_manager: the array name_, sorted by svc_name *)
(* and searched by bisection.  A name is a number (names are compared, and *)
(* nothing else), a table the sequence of its name_count_ entries.         *)
(***************************************************************************)

\* The loop of find_by_name and _insert_name on table: where the search for nm
\* ends, with the index mid of its entry, or the begin to insert it at.
Search(table, nm) ==
    LET at[r \in (0 .. Len(table)) \X (-1 .. Len(table) - 1)] ==
          LET mid  == (r[1] + r[2]) \div 2
              here == table[mid + 1].name
          IN  CASE r[1] > r[2] -> [found |-> FALSE, index |-> r[1]]
                [] r[1] <= r[2] /\ here = nm -> [found |-> TRUE, index |-> mid]
                [] r[1] <= r[2] /\ here < nm -> at[<<mid + 1, r[2]>>]
                [] OTHER -> at[<<r[1], mid - 1>>]
    IN  at[<<0, Len(table) - 1>>]

\* find_by_name: the handle, or 0.
Find(table, nm) ==
    LET r == Search(table, nm) IN IF r.found THEN table[r.index + 1].handle ELSE 0

\* _insert_name_before: the entries from before on move up by one.
InsertBefore(table, nm, h, before) ==
    SubSeq(table, 1, before) \o <<[name |-> nm, handle |-> h]>> \o SubSeq(table, before + 1, Len(table))

\* The compaction in unregister_service: the entries of other handles, in order.
WithoutHandle(table, h) == SelectSeq(table, LAMBDA e : e.handle # h)

-----------------------------------------------------------------------------

CONSTANTS Svc,          \* service contexts
          Creator,      \* the threads that may be in create_service
          Peer,         \* the threads that may be in any other operation
          Name,         \* names, ordered like the integers that stand for them
          Mask,         \* HANDLE_MASK
          DefaultSize,  \* DEFAULT_SLOT_SIZE
          MaxSeed,      \* bound: no handle is given out once the seed is larger
          None

ASSUME RegistryAssumption ==
    None \notin Svc /\ Mask \in Nat \ {0} /\ DefaultSize \in Nat \ {0}

Thread == Creator \cup Peer

PowersOfTwo == {1, 2, 4, 8, 16, 32}

VARIABLES
    size,     \* svc_ctx_slot_size_
    slot,     \* svc_ctx_slot_
    handle,   \* service_context::svc_handle_
    seed,     \* alloc_svc_handle_seed_
    names,    \* name_[0 .. name_count_ - 1]
    cap,      \* name_cap_
    writer,   \* the thread that holds rw_mutex_ over more than one step
    pc,       \* where a thread is in create_service / unregister_service_all
    ctx,      \* create_service: svc_ctx
    got,      \* the handle register_service returned, or the one to unregister
    idx, cnt, \* unregister_service_all: i and n
    old,      \* auxiliary: the handles in use when the current pass began, and since
    answer,   \* what the last operation returned, if it was a lookup or a naming
    halt      \* how the process ended, if it did: by an assertion or a null pointer

tabVars == <<size, slot, handle, seed, names, cap>>
thrVars == <<pc, ctx, got, idx, cnt, old>>
vars    == <<tabVars, thrVars, writer, answer, halt>>

Init ==
    /\ size = DefaultSize
    /\ slot = [k \in 0 .. DefaultSize - 1 |-> None]
    /\ handle = [s \in Svc |-> 0]
    /\ seed = 1
    /\ names = <<>>
    /\ cap = 2
    /\ writer = None
    /\ pc = [t \in Thread |-> "idle"]
    /\ ctx = [t \in Thread |-> None]
    /\ got = [t \in Thread |-> 0]
    /\ idx = [t \in Thread |-> 0]
    /\ cnt = [t \in Thread |-> 0]
    /\ old = [t \in Thread |-> {}]
    /\ answer = None
    /\ halt = "no"

Hash(h) == h % size

\* The thread runs, and nobody is in the middle of register_service.
Free(t, p) == halt = "no" /\ writer = None /\ pc[t] = p

Listed == {slot[k] : k \in DOMAIN slot} \ {None}

\* The handles of the services that are registered and know it.
InUse == {handle[s] : s \in Listed} \ {0}

-----------------------------------------------------------------------------
\* create_service: a new context, svc_handle_ = 0; register_service locks.
BeginRegister(t, s) ==
    /\ Free(t, "idle")
    /\ s \notin Listed /\ \A u \in Thread : ctx[u] # s
    /\ handle' = [handle EXCEPT ![s] = 0]
    /\ ctx' = [ctx EXCEPT ![t] = s]
    /\ writer' = t
    /\ pc' = [pc EXCEPT ![t] = "scan"]
    /\ answer' = None
    /\ UNCHANGED <<size, slot, seed, names, cap, got, idx, cnt, old, halt>>

\* The handles that the scan tries, in order: 0 is reserved, so that the one
\* after the largest is 1.
Candidate(k) == ((seed + k - 1) % Mask) + 1

\* The steps of the scan that find a free slot.
Hits == {k \in 0 .. size - 1 : slot[Hash(Candidate(k))] = None}

\* register_service: the first candidate whose slot is free.
RegisterFound(t) ==
    /\ halt = "no" /\ pc[t] = "scan"
    /\ seed <= MaxSeed
    /\ \E k \in Hits :
          LET h == Candidate(k) IN
          /\ \A j \in Hits : k <= j
          /\ slot' = [slot EXCEPT ![Hash(h)] = ctx[t]]
          /\ seed' = h + 1
          /\ got' = [got EXCEPT ![t] = h]
    /\ writer' = None
    /\ pc' = [pc EXCEPT ![t] = "assign"]
    /\ answer' = None
    /\ UNCHANGED <<size, handle, names, cap, ctx, idx, cnt, old, halt>>

\* Where an old slot goes when the table is doubled.
NewHash(k) == handle[slot[k]] % (2 * size)

\* Mutant of Moved: a slot keeps its index.
MovedInPlace == [k \in 0 .. 2 * size - 1 |-> IF k < size THEN slot[k] ELSE None]

\* The table after doubling.
Moved ==
    [k \in 0 .. 2 * size - 1 |->
        IF \E j \in DOMAIN slot : NewHash(j) = k
        THEN slot[CHOOSE j \in DOMAIN slot : NewHash(j) = k]
        ELSE None]

\* The slots at which the loop that moves them reads through no pointer, or
\* meets a new slot that is not free.
Nulls == {k \in DOMAIN slot : slot[k] = None}
Collisions ==
    {k \in DOMAIN slot \ Nulls : \E j \in DOMAIN slot \ Nulls : j < k /\ NewHash(j) = NewHash(k)}

\* How that loop ends: the first of them stops it.
MoveFault ==
    IF \E k \in Collisions : \A j \in Nulls : k < j THEN "assert"
    ELSE IF Nulls # {} THEN "null" ELSE "no"

\* register_service: every candidate is taken, the table is doubled.
RegisterGrow(t) ==
    /\ halt = "no" /\ pc[t] = "scan"
    /\ Hits = {}
    /\ halt' = IF 2 * size - 1 > Mask THEN "full" ELSE MoveFault
    /\ IF halt' = "no" THEN slot' = Moved /\ size' = 2 * size
                       ELSE UNCHANGED <<slot, size>>
    /\ answer' = None
    /\ UNCHANGED <<handle, seed, names, cap, thrVars, writer>>

\* Mutant of Assign: the context does not learn its handle.
AssignNothing(t) ==
    /\ halt = "no" /\ pc[t] = "assign"
    /\ ctx' = [ctx EXCEPT ![t] = None]
    /\ got' = [got EXCEPT ![t] = 0]
    /\ pc' = [pc EXCEPT ![t] = "idle"]
    /\ answer' = None
    /\ UNCHANGED <<tabVars, writer, idx, cnt, old, halt>>

\* create_service stores the handle that register_service returned.
Assign(t) ==
    /\ halt = "no" /\ pc[t] = "assign"
    /\ handle' = [handle EXCEPT ![ctx[t]] = got[t]]
    /\ ctx' = [ctx EXCEPT ![t] = None]
    /\ got' = [got EXCEPT ![t] = 0]
    /\ pc' = [pc EXCEPT ![t] = "idle"]
    /\ answer' = None
    /\ UNCHANGED <<size, slot, seed, names, cap, writer, idx, cnt, old, halt>>

-----------------------------------------------------------------------------
\* The context that the table has for handle h.
Lookup(h) ==
    LET s == slot[Hash(h)] IN IF s # None /\ handle[s] = h THEN s ELSE None

\* What unregister_service does under the lock.
RemoveHandle(h) ==
    /\ slot' = IF Lookup(h) = None THEN slot ELSE [slot EXCEPT ![Hash(h)] = None]
    /\ names' = IF Lookup(h) = None THEN names ELSE WithoutHandle(names, h)
    /\ old' = [u \in Thread |-> old[u] \ {h}]

\* unregister_service, from cmd_exit and cmd_kill.
UnregisterService(t, h) ==
    /\ Free(t, "idle")
    /\ RemoveHandle(h)
    /\ answer' = None
    /\ UNCHANGED <<size, handle, seed, cap, pc, ctx, got, idx, cnt, writer, halt>>

\* grab.
Grab(t, h) ==
    /\ Free(t, "idle")
    /\ answer' = Lookup(h)
    /\ UNCHANGED <<tabVars, thrVars, writer, halt>>

\* set_handle_by_name, from cmd_register and cmd_name.
SetHandleByName(t, nm, h) ==
    LET r == Search(names, nm) IN
    /\ Free(t, "idle")
    /\ names' = IF r.found THEN names ELSE InsertBefore(names, nm, h, r.index)
    /\ cap' = IF ~ r.found /\ Len(names) >= cap THEN 2 * cap ELSE cap
    /\ answer' = IF r.found THEN 0 ELSE 1
    /\ UNCHANGED <<size, slot, handle, seed, thrVars, writer, halt>>

\* find_by_name.
FindByName(t, nm) ==
    /\ Free(t, "idle")
    /\ answer' = Find(names, nm)
    /\ UNCHANGED <<tabVars, thrVars, writer, halt>>

-----------------------------------------------------------------------------
\* unregister_service_all (cmd_abort): a pass over the table begins.
BeginAbort(t) ==
    /\ Free(t, "idle")
    /\ pc' = [pc EXCEPT ![t] = "pass"]
    /\ idx' = [idx EXCEPT ![t] = 0]
    /\ cnt' = [cnt EXCEPT ![t] = 0]
    /\ old' = [old EXCEPT ![t] = InUse]
    /\ answer' = None
    /\ UNCHANGED <<tabVars, ctx, got, writer, halt>>

\* It reads the handle in slot i, under the read lock; i++ comes in advance.
AbortRead(t) ==
    /\ Free(t, "pass") /\ idx[t] < size
    /\ LET s == slot[idx[t]]
           h == IF s = None THEN 0 ELSE handle[s]
       IN  /\ got' = [got EXCEPT ![t] = h]
           /\ pc' = [pc EXCEPT ![t] = IF h = 0 THEN "pass" ELSE "remove"]
           /\ idx' = [idx EXCEPT ![t] = @ + 1]
    /\ answer' = None
    /\ UNCHANGED <<tabVars, ctx, cnt, old, writer, halt>>

\* Mutant of AbortRemove: it moves on to the next slot once more.
AbortRemoveSkips(t) ==
    /\ Free(t, "remove")
    /\ RemoveHandle(got[t])
    /\ cnt' = [cnt EXCEPT ![t] = IF Lookup(got[t]) = None THEN @ ELSE @ + 1]
    /\ idx' = [idx EXCEPT ![t] = @ + 1]
    /\ got' = [got EXCEPT ![t] = 0]
    /\ pc' = [pc EXCEPT ![t] = "pass"]
    /\ answer' = None
    /\ UNCHANGED <<size, handle, seed, cap, ctx, writer, halt>>

\* It unregisters that handle, which may be gone by now.
AbortRemove(t) ==
    /\ Free(t, "remove")
    /\ RemoveHandle(got[t])
    /\ cnt' = [cnt EXCEPT ![t] = IF Lookup(got[t]) = None THEN @ ELSE @ + 1]
    /\ got' = [got EXCEPT ![t] = 0]
    /\ pc' = [pc EXCEPT ![t] = "pass"]
    /\ answer' = None
    /\ UNCHANGED <<size, handle, seed, cap, ctx, idx, writer, halt>>

\* The end of a pass: another one, unless this one has found nothing.
AbortEnd(t) ==
    /\ Free(t, "pass") /\ idx[t] >= size
    /\ pc' = [pc EXCEPT ![t] = IF cnt[t] = 0 THEN "idle" ELSE "pass"]
    /\ idx' = [idx EXCEPT ![t] = 0]
    /\ cnt' = [cnt EXCEPT ![t] = 0]
    /\ old' = [old EXCEPT ![t] = IF cnt[t] = 0 THEN {} ELSE InUse]
    /\ answer' = None
    /\ UNCHANGED <<tabVars, ctx, got, writer, halt>>

-----------------------------------------------------------------------------
\* The handles that code can have: those that were given to a context.
Known == {handle[s] : s \in Svc} \ {0}

CreateStep(t) ==
    (\E s \in Svc : BeginRegister(t, s)) \/ RegisterFound(t) \/ RegisterGrow(t) \/ Assign(t)

PeerStep(t) ==
    \/ \E h \in Known : UnregisterService(t, h) \/ Grab(t, h)
                            \/ \E nm \in Name : SetHandleByName(t, nm, h)
    \/ \E nm \in Name : FindByName(t, nm)

AbortStep(t) == BeginAbort(t) \/ AbortRead(t) \/ AbortRemove(t) \/ AbortEnd(t)

Next ==
    \/ \E t \in Creator : CreateStep(t)
    \/ \E t \in Peer : PeerStep(t) \/ AbortStep(t)

Spec == Init /\ [][Next]_vars

-----------------------------------------------------------------------------
TypeOK ==
    /\ size \in PowersOfTwo
    /\ slot \in [0 .. size - 1 -> Svc \cup {None}]
    /\ handle \in [Svc -> 0 .. Mask]
    /\ seed \in 1 .. Mask + 1
    /\ names \in Seq([name : Name, handle : 1 .. Mask])
    /\ Len(names) <= cap
    /\ writer \in Thread \cup {None}
    /\ pc \in [Thread -> {"idle", "scan", "assign", "pass", "remove"}]
    /\ ctx \in [Thread -> Svc \cup {None}]
    /\ got \in [Thread -> 0 .. Mask]
    /\ idx \in [Thread -> Nat] /\ cnt \in [Thread -> Nat]
    /\ old \in [Thread -> SUBSET (1 .. Mask)]
    /\ halt \in {"no", "full", "assert", "null"}

\* No assertion of register_service fails and its growth loop reads no null
\* pointer: when the table is doubled, every slot of it holds a context.
NoFault == halt = "no"

\* A pass of unregister_service_all overlooks no service that was there when
\* it began: what is left of those is in a slot yet to come or about to be
\* unregistered, even if the table is doubled on the way.
AbortMissesNone ==
    \A t \in Peer : pc[t] \in {"pass", "remove"} =>
        \A h \in old[t] : Hash(h) >= idx[t] \/ got[t] = h

\* The names are in strictly ascending order, as bisection needs them.
NamesSorted ==
    \A a, b \in DOMAIN names : a < b => names[a].name < names[b].name

RG == INSTANCE Registry
        WITH owner <- [h \in InUse |-> Lookup(h)],
             alias <- [nm \in {names[k].name : k \in DOMAIN names} |->
                          names[CHOOSE k \in DOMAIN names : names[k].name = nm].handle]

\* The first state and a step of module Registry.
StartsAsRegistry == RG!Init
StepsLikeRegistry == RG!Next \/ UNCHANGED RG!vars

-----------------------------------------------------------------------------
\* The moves of the growth loop go to free slots, says the assertion on
\* new_slot[hash] in register_service.
GrowthAssertion == halt # "assert"

=============================================================================
