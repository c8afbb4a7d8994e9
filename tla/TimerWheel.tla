----------------------------- MODULE TimerWheel -----------------------------
(***************************************************************************)
(* The timer of the node (timer.cpp, timer_manager.cpp): a wheel of lists, *)
(* near for the ticks that share all but the low bits with the present     *)
(* one and Levels coarser ones, each list of which timer_shift hands down  *)
(* when its turn comes.  The code has 8 low bits and 4 levels of 6 bits,   *)
(* 32 together, the width of time and expire: Size = 2^32.  The model has  *)
(* the same shape with fewer bits, and the counters wrap as the code's do. *)
(*                                                                         *)
(* Every step is one section of code under the timer's mutex, or one push  *)
(* of dispatch_list, which runs without it.  Of the wall clock only the    *)
(* difference to current_tick matters, so the model keeps neither.         *)
(***************************************************************************)
EXTENDS Integers, Sequences, SequencesExt

CONSTANTS NearShift, LevelShift, Levels,  \* 8, 6 and 4 in the code
          Event,     \* a service and the session of its timeout
          MaxDelay,  \* the longest timeout, INT_MAX in the code: less than Size \div 2
          MaxJump,   \* the most ticks between two calls of update_time
          FirstTick  \* the hundredths of the second in which the node starts

NearSize == 2 ^ NearShift

LevelSize == 2 ^ LevelShift

\* The range of a uint32_t.
Size == NearSize * LevelSize ^ Levels

VARIABLES near,     \* near[k]: the list of low bits k
          t,        \* t[i][k]: the list of index k of level i
          time,     \* the ticks of the wheel, uint32_t
          current,  \* what now_ticks returns
          owed,     \* the calls of timer_update that update_time still makes
          pc,       \* which timer_execute of timer_update comes next
          firing,   \* the list that dispatch_list goes through
          inbox     \* the timeouts delivered and not yet handled

wheelVars == <<near, t, time>>
vars == <<near, t, time, current, owed, pc, firing, inbox>>

Node == [event : Event, expire : 0 .. Size - 1]

\* create_timer and timer_manager::init.
Init ==
    /\ near = [k \in 0 .. NearSize - 1 |-> <<>>]
    /\ t = [i \in 0 .. Levels - 1 |-> [k \in 0 .. LevelSize - 1 |-> <<>>]]
    /\ time = 0
    /\ current = FirstTick
    /\ owed = 0
    /\ pc = "idle"
    /\ firing = <<>>
    /\ inbox = {}

-----------------------------------------------------------------------------
(***************************************************************************)
(* timer.cpp.  A wheel is the record of its lists and its time.            *)
(***************************************************************************)
Wheel == [near |-> near, t |-> t, time |-> time]

\* The ticks that a list of level i covers.
Span(i) == NearSize * LevelSize ^ i

\* Mutant of LevelOf: the comparison is one level too fine.
LevelOfFine(now, expire) ==
    CHOOSE i \in 0 .. Levels - 1 :
        /\ i = Levels - 1 \/ expire \div Span(i) = now \div Span(i)
        /\ \A j \in 0 .. i - 1 : expire \div Span(j) # now \div Span(j)

\* The first level whose bits tell expire from now; the last one also takes
\* what lies beyond the wrap.
LevelOf(now, expire) ==
    CHOOSE i \in 0 .. Levels - 1 :
        /\ i = Levels - 1 \/ expire \div Span(i + 1) = now \div Span(i + 1)
        /\ \A j \in 0 .. i - 1 : expire \div Span(j + 1) # now \div Span(j + 1)

\* Mutant of add_node: link puts the node in front of the list.
add_node_front(wh, node) ==
    LET e == node.expire
        i == LevelOf(wh.time, e)
    IN  IF e \div NearSize = wh.time \div NearSize
        THEN [wh EXCEPT !.near[e % NearSize] = <<node>> \o @]
        ELSE [wh EXCEPT !.t[i][(e \div Span(i)) % LevelSize] = <<node>> \o @]

add_node(wh, node) ==
    LET e == node.expire
        i == LevelOf(wh.time, e)
    IN  IF e \div NearSize = wh.time \div NearSize
        THEN [wh EXCEPT !.near[e % NearSize] = Append(@, node)]
        ELSE [wh EXCEPT !.t[i][(e \div Span(i)) % LevelSize] = Append(@, node)]

\* The list is cleared, then its nodes are added again, in order.
move_list(wh, level, idx) ==
    FoldLeft(add_node, [wh EXCEPT !.t[level][idx] = <<>>], wh.t[level][idx])

\* Mutant of timer_shift: nothing is moved when time wraps.
timer_shift_nowrap(wh) ==
    LET ct == (wh.time + 1) % Size
        ticked == [wh EXCEPT !.time = ct]
        turned == {i \in 0 .. Levels - 1 : ct % Span(i) = 0 /\ (ct \div Span(i)) % LevelSize # 0}
        i == CHOOSE x \in turned : \A y \in turned : x <= y
    IN  IF turned = {} THEN ticked
        ELSE move_list(ticked, i, (ct \div Span(i)) % LevelSize)

\* At most one list is moved: that of the first level whose index is not 0,
\* if all the bits below that level are 0; at the wrap, list 0 of the last.
timer_shift(wh) ==
    LET ct == (wh.time + 1) % Size
        ticked == [wh EXCEPT !.time = ct]
        turned == {i \in 0 .. Levels - 1 : ct % Span(i) = 0 /\ (ct \div Span(i)) % LevelSize # 0}
        i == CHOOSE x \in turned : \A y \in turned : x <= y
    IN  IF ct = 0 THEN move_list(ticked, Levels - 1, 0)
        ELSE IF turned = {} THEN ticked
        ELSE move_list(ticked, i, (ct \div Span(i)) % LevelSize)

-----------------------------------------------------------------------------
(***************************************************************************)
(* timer_manager.cpp.                                                      *)
(***************************************************************************)
Lists == {near[k] : k \in DOMAIN near} \cup UNION {Range(t[i]) : i \in DOMAIN t}

Nodes == UNION {Range(l) : l \in Lists}

\* A service does not use a session again while its timeout is on the way.
Unused(e) == e \notin inbox \cup {nd.event : nd \in Nodes \cup Range(firing)}

\* timeout() of any thread, with timer_add under the mutex.
timeout(e, d) ==
    /\ Unused(e)
    /\ \/ /\ d <= 0
          /\ inbox' = inbox \cup {e}
          /\ UNCHANGED wheelVars
       \/ /\ d > 0
          /\ LET wh == add_node(Wheel, [event |-> e, expire |-> (time + d) % Size])
             IN  near' = wh.near /\ t' = wh.t
          /\ UNCHANGED <<time, inbox>>
    /\ UNCHANGED <<current, owed, pc, firing>>

\* update_time finds that the clock has advanced by diff.  When it stands
\* still, or has been set back, there is nothing to do.
update_time(diff) ==
    /\ pc = "idle"
    /\ owed' = diff
    /\ current' = (current + diff) % Size
    /\ pc' = "before"
    /\ UNCHANGED <<wheelVars, firing, inbox>>

\* The end of timer_update.
Done ==
    /\ owed' = owed - 1
    /\ pc' = IF owed = 1 THEN "idle" ELSE "before"

\* timer_execute: the list of the present tick is taken, or there is none.
Take(wh, point) ==
    LET idx == wh.time % NearSize IN
    /\ firing' = wh.near[idx]
    /\ near' = [wh.near EXCEPT ![idx] = <<>>]
    /\ t' = wh.t
    /\ time' = wh.time
    /\ IF wh.near[idx] = <<>> THEN Done ELSE pc' = point /\ UNCHANGED owed

\* timer_update takes the mutex, or takes it again after a list: what the
\* present tick still has, else the shift and the list of the next tick.
timer_update ==
    /\ pc = "before" /\ firing = <<>>
    /\ IF near[time % NearSize] # <<>>
       THEN Take(Wheel, "before")
       ELSE Take(timer_shift(Wheel), "after")
    /\ UNCHANGED <<current, inbox>>

\* The loop of the second timer_execute, with the mutex again.
timer_execute ==
    /\ pc = "after" /\ firing = <<>>
    /\ Take(Wheel, "after")
    /\ UNCHANGED <<current, inbox>>

\* One round of dispatch_list.
dispatch_list ==
    /\ firing # <<>>
    /\ inbox' = inbox \cup {Head(firing).event}
    /\ firing' = Tail(firing)
    /\ UNCHANGED <<wheelVars, current, owed, pc>>

\* The service handles the response.
Handle(e) ==
    /\ e \in inbox
    /\ inbox' = inbox \ {e}
    /\ UNCHANGED <<wheelVars, current, owed, pc, firing>>

TimerThread == timer_update \/ timer_execute \/ dispatch_list

Next ==
    \/ \E e \in Event, d \in 0 .. MaxDelay : timeout(e, d)
    \/ \E diff \in 1 .. MaxJump : update_time(diff)
    \/ TimerThread
    \/ \E e \in Event : Handle(e)

\* thread_timer calls update_time for as long as the node lives, and the
\* clock advances.
Spec ==
    /\ Init /\ [][Next]_vars
    /\ WF_vars(TimerThread)
    /\ WF_vars(\E diff \in 1 .. MaxJump : update_time(diff))

-----------------------------------------------------------------------------
TypeOK ==
    /\ near \in [0 .. NearSize - 1 -> Seq(Node)]
    /\ t \in [0 .. Levels - 1 -> [0 .. LevelSize - 1 -> Seq(Node)]]
    /\ time \in 0 .. Size - 1 /\ current \in 0 .. Size - 1
    /\ owed \in 0 .. MaxJump
    /\ pc \in {"idle", "before", "after"}
    /\ firing \in Seq(Node)
    /\ inbox \subseteq Event

\* Ticks until the node's turn.
Left(node) == (node.expire - time) % Size

\* The timeouts that are due in k ticks, as they stand in the list that has
\* them.
DueIn(k, lists) ==
    LET expire == (time + k) % Size
        on == {l \in lists : \E x \in DOMAIN l : l[x].expire = expire}
        hits == IF on = {} THEN <<>>
                ELSE SelectSeq(CHOOSE l \in on : TRUE, LAMBDA nd : nd.expire = expire)
    IN  [x \in DOMAIN hits |-> hits[x].event]

Due == LET lists == Lists IN [k \in 1 .. MaxDelay |-> DueIn(k, lists)]

Fired == [x \in DOMAIN firing |-> firing[x].event]

A == INSTANCE Alarms WITH due <- Due, firing <- Fired

\* A timeout fires exactly at the tick it was set for, also across the wrap
\* of time, while other threads add timers during the dispatch.
ImplementsAlarms == A!Spec

\* The same, of the first state and of a step.
StartsAsAlarms == A!Init
StepsLikeAlarms == A!Next \/ UNCHANGED A!vars

\* timer_update finds the list of the present tick empty when it starts: a
\* timeout of 0 never enters the wheel, so what is left in it is not due.
NothingOverdue == pc # "after" => \A nd \in Nodes : Left(nd) \in 1 .. MaxDelay

\* now_ticks has run ahead of the wheel by what update_time still owes, and
\* the two are in step again when it returns.
NowIsAhead == (current - FirstTick - time) % Size
                = IF pc = "after" THEN owed - 1 ELSE owed

Pending(e) == \E nd \in Nodes \cup Range(firing) : nd.event = e
Arrived(e) == e \in inbox

=============================================================================
