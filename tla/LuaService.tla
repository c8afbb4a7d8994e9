----------------------------- MODULE LuaService -----------------------------
(***************************************************************************)
(* The scheduler of a Lua service: src/lualib/skynet.lua, the critical     *)
(* section of src/lualib/skynet/queue.lua, and what starts them            *)
(* (src/service-src/snlua).                                                *)
(*                                                                         *)
(* A service handles one message at a time.  A message starts a coroutine  *)
(* or resumes the one that waits for its session; when a coroutine yields, *)
(* the scheduler first resumes one that was woken, then one whose call     *)
(* failed, then the forked ones, and only then is the message done.        *)
(* What the coroutines do is left open: a running one makes any call of    *)
(* the library.  The other services are an environment that sends requests *)
(* and answers each call once, by a response or an error, or goes down.    *)
(*                                                                         *)
(* Wakeup tokens are the coroutines themselves.  Payloads, traces and the  *)
(* log are left out.  The pool of coroutines is a weak table; that the     *)
(* collector may empty it is left out too.                                 *)
(***************************************************************************)
EXTENDS Integers, Sequences, FiniteSets, Functions

CONSTANTS Peer,        \* other services
          Ops,         \* the calls the coroutines of this instance make
          MaxThread,   \* bound: coroutines
          MaxSession,  \* bound: sessions of this service
          MaxRequest,  \* bound: requests to this service
          MaxWake      \* bound: length of the wakeup queue

VARIABLES run,       \* the scheduler: pc, the running coroutine, and depth, the
                     \* calls of suspend that wait for a nested one
          at,        \* coroutine -> where it is
          tab,       \* the tables of skynet.lua, under their names
          session,   \* the last session given
          timers,    \* sessions the timer still answers
          owed,      \* sessions a peer still answers -> the peer
          down,      \* peers that have gone down
          from,      \* who sent each request so far
          answers,   \* request -> answers sent for it
          section,   \* a critical section: current_thread, ref, thread_queue, and
                     \* how often each thread is inside
          forgot,    \* requests that want no answer, or that were let go without one
          told,      \* what the launcher has been told
          exited,    \* the service has exited
          twice      \* a thread was woken, or its call failed, again before it ran

ASSUME LuaAssumption ==
    MaxThread \in Nat \ {0} /\ MaxSession \in Nat /\ MaxRequest \in Nat /\ -1 \notin Peer

Thread == 1 .. MaxThread
Session == 1 .. MaxSession
Request == 1 .. MaxRequest
None == -1
Break == -2

envVars == <<session, timers, owed, down, from, answers, forgot>>
endVars == <<told, exited, twice>>
vars == <<run, at, tab, session, timers, owed, down, from, answers, forgot,
          section, told, exited, twice>>

-----------------------------------------------------------------------------
(* Control. *)

Run(pc, cur, depth) == run' = [pc |-> pc, cur |-> cur, depth |-> depth]

\* The running coroutine yields and waits in `state'.
Yield(state) == Run("suspend", 0, run.depth) /\ at' = [at EXCEPT ![run.cur] = state]

\* A call of suspend returns: the next outer one goes on with its error queue.
Return == IF run.depth > 0 THEN Run("errors", 0, run.depth - 1) ELSE Run("forks", 0, 0)

\* A Lua error unwinds all calls of suspend, up to the pcall of
\* handle_service_message.
Unwind == Run("forks", 0, 0)

\* co_create: the coroutine put into the pool last, or a new one.
Unused == {t \in Thread : at[t] = "none"}
CanCreate == tab.thread_pool # <<>> \/ Unused # {}
Created == IF tab.thread_pool # <<>> THEN tab.thread_pool[Len(tab.thread_pool)]
           ELSE CHOOSE t \in Unused : TRUE

\* Mutant: a coroutine that is used again stays in the pool.
UnpooledNone == tab.thread_pool

Unpooled == IF tab.thread_pool # <<>> THEN SubSeq(tab.thread_pool, 1, Len(tab.thread_pool) - 1)
            ELSE <<>>

\* service_context::new_session.
NewSession == session < MaxSession /\ session' = session + 1

\* An answer is sent for each request of rs.
Answer(rs) == answers' = [r \in Request |-> answers[r] + (IF r \in rs THEN 1 ELSE 0)]

\* What a coroutine does first when it goes on: call, sleep and wait take it
\* out of the tables; `queue' enters the critical section, or fails there.
Entered(t) ==
    IF at[t] = "queue" /\ section.ref = 0
    THEN [section EXCEPT !.current_thread = t, !.ref = 1, !.inside[t] = 1]
    ELSE section

Resume(t, depth) ==
    /\ Run("run", t, depth)
    /\ at' = [at EXCEPT ![t] = "run"]
    /\ section' = Entered(t)

-----------------------------------------------------------------------------
(* suspend and the loop around it. *)

\* dispatch_wakeup: one token; if it still sleeps its coroutine goes on.
DispatchWakeup ==
    LET q == tab.wakeup_queue
        token == Head(q)
        s == tab.sleep_session_map[token]
        asleep == q # <<>> /\ s # None IN
    /\ run.pc = "suspend"
    /\ \/ /\ ~asleep
          /\ Run("errors", 0, run.depth)
          /\ tab' = [tab EXCEPT !.wakeup_queue = IF q = <<>> THEN q ELSE Tail(q)]
          /\ UNCHANGED <<at, section>>
       \/ /\ asleep
          /\ tab' = [tab EXCEPT !.wakeup_queue = Tail(q),
                       !.session_thread_map[s] = IF at[token] = "sleep" THEN Break ELSE None,
                       !.sleep_session_map[token] = None]
          /\ Resume(tab.session_thread_map[s], run.depth + 1)
    /\ UNCHANGED envVars /\ UNCHANGED endVars

\* dispatch_error_queue: the call of one session fails.  A session nobody
\* waits for any more cannot be resumed.
DispatchErrorQueue ==
    LET q == tab.error_queue
        s == Head(q)
        t == tab.session_thread_map[s] IN
    /\ run.pc = "errors"
    /\ \/ q = <<>> /\ Return /\ UNCHANGED <<tab, at, section>>
       \/ /\ q # <<>> /\ t = None
          /\ Unwind
          /\ tab' = [tab EXCEPT !.error_queue = Tail(q)]
          /\ UNCHANGED <<at, section>>
       \/ /\ q # <<>> /\ t # None
          /\ tab' = [tab EXCEPT !.error_queue = Tail(q), !.session_thread_map[s] = None,
                                !.watching_session_map[s] = None]
          /\ Resume(t, run.depth)
    /\ UNCHANGED envVars /\ UNCHANGED endVars

\* The loop over fork_queue in handle_service_message; 0 is the empty function
\* that suspend forks after an error.
RunForks ==
    LET q == tab.fork_queue IN
    /\ run.pc = "forks"
    /\ \/ q = <<>> /\ Run("idle", 0, 0) /\ UNCHANGED <<tab, at, section>>
       \/ /\ q # <<>>
          /\ tab' = [tab EXCEPT !.fork_queue = Tail(q)]
          /\ IF Head(q) = 0 THEN Run("suspend", 0, 0) /\ UNCHANGED <<at, section>>
             ELSE Resume(Head(q), 0)
    /\ UNCHANGED envVars /\ UNCHANGED endVars

Scheduler == DispatchWakeup \/ DispatchErrorQueue \/ RunForks

-----------------------------------------------------------------------------
(* Messages (raw_dispatch_message). *)

Message == run.pc = "idle" /\ ~exited

\* The first message: snlua loads the script, whose start makes a timer for
\* the coroutine of init_service; or the script fails.
Boot ==
    /\ run.pc = "born"
    /\ \/ /\ NewSession
          /\ timers' = {session'}
          /\ at' = [at EXCEPT ![Created] = "ready"]
          /\ tab' = [tab EXCEPT !.session_thread_map[session'] = Created, !.init_thread = Created]
          /\ UNCHANGED <<told, exited>>
       \/ /\ told' = {"ERROR"} /\ exited' = TRUE
          /\ UNCHANGED <<session, timers, at, tab>>
    /\ Run("idle", 0, 0)
    /\ UNCHANGED <<owed, down, from, answers, forgot, section, twice>>

\* A request, or a message that wants no answer, starts a coroutine.
HandleRequest(p) ==
    LET r == Len(from) + 1 IN
    /\ Message /\ p \notin down /\ r <= MaxRequest /\ CanCreate
    /\ from' = Append(from, p)
    /\ \E req \in {0, r} :
          /\ forgot' = IF req = 0 THEN forgot \cup {r} ELSE forgot
          /\ tab' = [tab EXCEPT !.thread_pool = Unpooled, !.thread_session_map[Created] = req]
    /\ Resume(Created, 0)
    /\ UNCHANGED <<session, timers, owed, down, answers>> /\ UNCHANGED endVars

\* A request of a type without a handler is answered by an error.
HandleUnknown(p) ==
    LET r == Len(from) + 1 IN
    /\ Message /\ p \notin down /\ r <= MaxRequest
    /\ from' = Append(from, p)
    /\ Answer({r})
    /\ UNCHANGED <<run, at, tab, session, timers, owed, down, forgot, section>> /\ UNCHANGED endVars

\* The answer of the timer or of a peer.  After a wakeup it only ends the
\* session; for an unknown session it is an error.
HandleResponse(s) ==
    LET t == tab.session_thread_map[s] IN
    /\ Message
    /\ s \in timers \/ (s \in DOMAIN owed /\ owed[s] \notin down)
    /\ timers' = timers \ {s}
    /\ owed' = [u \in DOMAIN owed \ {s} |-> owed[u]]
    /\ IF t \in {None, Break}
       THEN /\ tab' = [tab EXCEPT !.session_thread_map[s] = None]
            /\ UNCHANGED <<run, at, section>>
       ELSE /\ tab' = [tab EXCEPT !.session_thread_map[s] = None,
                                  !.watching_session_map[s] = None,
                                  !.sleep_session_map[t] = None]
            /\ Resume(t, 0)
    /\ UNCHANGED <<session, down, from, answers, forgot>> /\ UNCHANGED endVars

\* _error_dispatch, in a coroutine of its own that ends at once.
HandleError(s) ==
    /\ Message
    /\ s \in DOMAIN owed
    /\ owed' = [u \in DOMAIN owed \ {s} |-> owed[u]]
    /\ tab' = IF tab.watching_session_map[s] = None THEN tab
              ELSE [tab EXCEPT !.error_queue = Append(@, s)]
    /\ Run("suspend", 0, 0)
    /\ UNCHANGED <<at, section, session, timers, down, from, answers, forgot>> /\ UNCHANGED endVars

\* Its other half: p is down.  Answers kept for p are dropped and calls to p
\* fail, in the order of the table.
KeptFor(p) == {r \in tab.unresponse : from[r] = p}

\* Mutant: calls to a service that is down do not fail.
DroppedQuietly(p, order) == [tab EXCEPT !.unresponse = @ \ KeptFor(p)]

Dropped(p, order) ==
    [tab EXCEPT !.unresponse = @ \ KeptFor(p),
                !.error_queue = @ \o order]
CallsTo(p) ==
    LET calls == {s \in Session : tab.watching_session_map[s] = p}
    IN  UNION {Bijection(1 .. n, calls) : n \in 0 .. Cardinality(calls)}

HandleDown(p) ==
    /\ Message /\ p \notin down
    /\ down' = down \cup {p}
    /\ \E order \in CallsTo(p) : tab' = Dropped(p, order)
    /\ forgot' = forgot \cup KeptFor(p)
    /\ Run("suspend", 0, 0)
    /\ UNCHANGED <<at, section, session, timers, owed, from, answers>> /\ UNCHANGED endVars

Receive ==
    \/ \E p \in Peer : HandleRequest(p) \/ HandleUnknown(p) \/ HandleDown(p)
    \/ \E s \in Session : HandleResponse(s) \/ HandleError(s)

-----------------------------------------------------------------------------
(* What the running coroutine does. *)

Does(op) == run.pc = "run" /\ op \in Ops

\* skynet.call, up to the yield of yield_call.
Call(p) ==
    /\ Does("call") /\ p \notin down
    /\ NewSession
    /\ owed' = [u \in DOMAIN owed \cup {session'} |-> IF u = session' THEN p ELSE owed[u]]
    /\ tab' = [tab EXCEPT !.watching_session_map[session'] = p,
                          !.session_thread_map[session'] = run.cur]
    /\ Yield("call")
    /\ UNCHANGED <<timers, down, from, answers, forgot, section>> /\ UNCHANGED endVars

\* suspend_sleep, for skynet.sleep and skynet.wait.
Suspend(state) ==
    /\ NewSession
    /\ timers' = IF state = "sleep" THEN timers \cup {session'} ELSE timers
    /\ tab' = [tab EXCEPT !.session_thread_map[session'] = run.cur,
                          !.sleep_session_map[run.cur] = session']
    /\ Yield(state)
    /\ UNCHANGED <<owed, down, from, answers, forgot>> /\ UNCHANGED endVars

Sleep(state) == Does(state) /\ Suspend(state) /\ UNCHANGED section

\* skynet.wakeup of a coroutine that sleeps.
Woken(t) == [tab EXCEPT !.wakeup_queue = Append(@, t)]

Wakeup(t) ==
    /\ Does("wakeup") /\ Len(tab.wakeup_queue) < MaxWake
    /\ at[t] \in {"sleep", "wait"}
    /\ tab' = Woken(t)
    /\ twice' = (twice \/ t \in Range(tab.wakeup_queue))
    /\ UNCHANGED <<run, at, section, told, exited>> /\ UNCHANGED envVars

\* skynet.fork and skynet.timeout.
Fork ==
    /\ Does("fork") /\ CanCreate
    /\ at' = [at EXCEPT ![Created] = "ready"]
    /\ tab' = [tab EXCEPT !.thread_pool = Unpooled, !.fork_queue = Append(@, Created)]
    /\ UNCHANGED <<run, section>> /\ UNCHANGED envVars /\ UNCHANGED endVars

Timeout ==
    /\ Does("timeout") /\ CanCreate
    /\ NewSession
    /\ timers' = timers \cup {session'}
    /\ at' = [at EXCEPT ![Created] = "ready"]
    /\ tab' = [tab EXCEPT !.thread_pool = Unpooled, !.session_thread_map[session'] = Created]
    /\ UNCHANGED <<run, section, owed, down, from, answers, forgot>> /\ UNCHANGED endVars

\* skynet.ret; without a session it is an error (Fail).
Mine == tab.thread_session_map[run.cur]

Ret ==
    /\ Does("ret") /\ Mine # None
    /\ Answer({Mine})
    /\ tab' = [tab EXCEPT !.thread_session_map[run.cur] = None]
    /\ UNCHANGED <<run, at, section, session, timers, owed, down, from, forgot>> /\ UNCHANGED endVars

\* skynet.response, and a later call of what it returned.
Response ==
    /\ Does("response") /\ Mine # None
    /\ tab' = [tab EXCEPT !.thread_session_map[run.cur] = None,
                          !.unresponse = @ \cup ({Mine} \ {0})]
    /\ UNCHANGED <<run, at, section>> /\ UNCHANGED envVars /\ UNCHANGED endVars

\* Mutant: a response may be sent again.
RespondAgain(r) ==
    /\ Does("response") /\ r \in tab.unresponse
    /\ answers[r] < 2
    /\ Answer({r})
    /\ UNCHANGED <<run, at, tab, section, session, timers, owed, down, from, forgot>> /\ UNCHANGED endVars

Respond(r) ==
    /\ Does("response") /\ r \in tab.unresponse
    /\ Answer({r})
    /\ tab' = [tab EXCEPT !.unresponse = @ \ {r}]
    /\ UNCHANGED <<run, at, section, session, timers, owed, down, from, forgot>> /\ UNCHANGED endVars

\* skynet.term: _error_dispatch inside the caller, whose own session it ends.
Term(p) ==
    /\ Does("term")
    /\ \E order \in CallsTo(p) :
          /\ tab' = [Dropped(p, order) EXCEPT !.thread_session_map[run.cur] = None]
          /\ twice' = (twice \/ Range(order) \cap Range(tab.error_queue) # {})
    /\ Len(tab'.error_queue) <= MaxSession
    /\ forgot' = forgot \cup KeptFor(p) \cup ({Mine} \cap Request)
    /\ UNCHANGED <<run, at, section, session, timers, owed, down, from, answers, told, exited>>

\* The function of skynet.queue, entered, and left through xpcall_ret.
Enter ==
    LET c == run.cur  free == section.current_thread \in {0, c} IN
    /\ Does("queue")
    /\ \/ /\ free /\ section.ref < 2
          /\ section' = [section EXCEPT !.current_thread = c, !.ref = @ + 1, !.inside[c] = @ + 1]
          /\ UNCHANGED <<run, at, tab>> /\ UNCHANGED envVars /\ UNCHANGED endVars
       \/ /\ ~free
          /\ section' = [section EXCEPT !.thread_queue = Append(@, c)]
          /\ Suspend("queue")

\* Mutant: the section is free when its inner call returns.
LeftOnceNow == [section EXCEPT !.ref = 0, !.inside[run.cur] = @ - 1]

LeftOnce == [section EXCEPT !.ref = @ - 1, !.inside[run.cur] = @ - 1]

NextWoken(t) == IF tab.sleep_session_map[t] = None THEN tab ELSE Woken(t)

Leave ==
    LET q == section.thread_queue
        left == LeftOnce IN
    /\ Does("queue") /\ section.inside[run.cur] > 0
    /\ IF left.ref > 0 THEN section' = left /\ UNCHANGED tab
       ELSE IF q = <<>> THEN section' = [left EXCEPT !.current_thread = 0] /\ UNCHANGED tab
       ELSE /\ section' = [left EXCEPT !.current_thread = Head(q), !.thread_queue = Tail(q)]
            /\ tab' = NextWoken(Head(q))
    /\ UNCHANGED <<run, at>> /\ UNCHANGED envVars /\ UNCHANGED endVars

-----------------------------------------------------------------------------
(* How a coroutine ends. *)

\* Its function returns: the coroutine goes into the pool and yields.  The one
\* of init_service reports to the launcher.
Finish ==
    /\ run.pc = "run" /\ section.inside[run.cur] = 0
    /\ tab' = [tab EXCEPT !.thread_session_map[run.cur] = None,
                          !.thread_pool = Append(@, run.cur),
                          !.init_thread = IF @ = run.cur THEN 0 ELSE @]
    /\ told' = IF tab.init_thread = run.cur THEN told \cup {"LAUNCH_OK"} ELSE told
    /\ forgot' = forgot \cup ({Mine} \cap Request)
    /\ Yield("pool")
    /\ UNCHANGED <<section, exited, twice, session, timers, owed, down, from, answers>>

\* Mutant: requests that are open at the exit get no error.
UnansweredNone == {}

\* skynet.exit, as far as others are told: requests that coroutines or
\* responses still have get an error, services it waits for learn that it is
\* down.  The last step of the coroutine is a yield that suspend only returns
\* from.
Unanswered == {tab.thread_session_map[t] : t \in Thread} \ {None, 0}

Exiting(report) ==
    /\ tab' = [tab EXCEPT !.fork_queue = <<>>, !.unresponse = {}]
    /\ Answer(Unanswered \cup tab.unresponse)
    /\ told' = told \cup report
    /\ exited' = TRUE
    /\ at' = [t \in Thread |-> IF t = run.cur \/ t \in Range(tab.fork_queue) THEN "dead" ELSE at[t]]
    /\ Return
    /\ UNCHANGED <<section, session, timers, owed, down, from, forgot, twice>>

Exit == Does("exit") /\ Exiting({"REMOVE"})

\* An error nobody caught.  suspend answers the request, forks the empty
\* function so that the queues are looked at again, and raises it once more;
\* init_service catches it and exits.
Failed == [tab EXCEPT !.thread_session_map[run.cur] = None, !.fork_queue = Append(@, 0)]

Fail ==
    /\ Does("fail") /\ section.inside[run.cur] = 0
    /\ IF tab.init_thread = run.cur
       THEN Exiting({"ERROR", "REMOVE"})
       ELSE /\ Answer({Mine})
            /\ tab' = Failed
            /\ at' = [at EXCEPT ![run.cur] = "dead"]
            /\ Unwind
            /\ UNCHANGED <<section, session, timers, owed, down, from, forgot>> /\ UNCHANGED endVars

Coroutine ==
    \/ \E p \in Peer : Call(p) \/ Term(p)
    \/ \E state \in {"sleep", "wait"} : Sleep(state)
    \/ \E t \in Thread : Wakeup(t)
    \/ \E r \in Request : Respond(r)
    \/ Fork \/ Timeout \/ Ret \/ Response \/ Enter \/ Leave \/ Finish \/ Exit \/ Fail

-----------------------------------------------------------------------------
Init ==
    /\ run = [pc |-> "born", cur |-> 0, depth |-> 0]
    /\ at = [t \in Thread |-> "none"]
    /\ tab = [thread_pool |-> <<>>, wakeup_queue |-> <<>>, fork_queue |-> <<>>,
              error_queue |-> <<>>, unresponse |-> {}, init_thread |-> 0,
              session_thread_map |-> [s \in Session |-> None],
              thread_session_map |-> [t \in Thread |-> None],
              sleep_session_map |-> [t \in Thread |-> None],
              watching_session_map |-> [s \in Session |-> None]]
    /\ session = 0 /\ timers = {} /\ owed = <<>> /\ down = {} /\ from = <<>>
    /\ answers = [r \in Request |-> 0]
    /\ section = [current_thread |-> 0, ref |-> 0, thread_queue |-> <<>>,
                  inside |-> [t \in Thread |-> 0]]
    /\ forgot = {} /\ told = {} /\ exited = FALSE /\ twice = FALSE

Next == Boot \/ Receive \/ Scheduler \/ Coroutine

\* The service handles its messages, coroutines that can end do not run on for
\* ever, and the timer and the peers that are not down answer.
Answered(s) ==
    HandleResponse(s) \/ (s \in DOMAIN owed /\ owed[s] \notin down /\ HandleError(s))

Fairness ==
    /\ WF_vars(Boot) /\ WF_vars(Scheduler) /\ WF_vars(Coroutine)
    /\ \A s \in Session : WF_vars(Answered(s))

Spec == Init /\ [][Next]_vars
FairSpec == Spec /\ Fairness

-----------------------------------------------------------------------------
\* Every variable keeps its type.
TypeOK ==
    /\ run.pc \in {"born", "idle", "run", "suspend", "errors", "forks"}
    /\ run.cur \in Thread \cup {0} /\ run.depth \in 0 .. MaxThread
    /\ run.pc = "run" <=> run.cur # 0
    /\ at \in [Thread -> {"none", "pool", "ready", "run", "call", "sleep", "wait", "queue", "dead"}]
    /\ tab.session_thread_map \in [Session -> Thread \cup {None, Break}]
    /\ tab.thread_session_map \in [Thread -> Request \cup {None, 0}]
    /\ tab.sleep_session_map \in [Thread -> Session \cup {None}]
    /\ tab.watching_session_map \in [Session -> Peer \cup {None}]

Under(t) == {s \in Session : tab.session_thread_map[s] = t}
Forks(t) == {i \in DOMAIN tab.fork_queue : tab.fork_queue[i] = t}

\* A coroutine that waits is found under exactly one session or in the fork
\* queue once, and one that does not wait is found nowhere: no coroutine is
\* lost, and none is resumed by an event meant for another.
WaitsOnce ==
    \A t \in Thread :
       /\ IF at[t] \in {"ready", "call", "sleep", "wait", "queue"}
          THEN \/ Forks(t) = {} /\ \E s \in Session : Under(t) = {s}
               \/ Under(t) = {} /\ \E i \in DOMAIN tab.fork_queue : Forks(t) = {i}
          ELSE Under(t) = {} /\ Forks(t) = {}
       /\ tab.sleep_session_map[t] # None <=> at[t] \in {"sleep", "wait", "queue"}

\* A request gets at most one answer, as long as the service has not exited.
AnsweredOnce == ~exited => \A r \in Request : answers[r] <= 1

\* A request is answered, or given up in the ways the library knows of, or in
\* the hands of a coroutine that still can answer; after the exit it is not
\* even that: whoever waits for this service learns of the exit.
Held(r) == r \in tab.unresponse \/ \E t \in Thread : tab.thread_session_map[t] = r /\ at[t] # "dead"

RequestKept ==
    \A r \in DOMAIN from : answers[r] > 0 \/ r \in forgot \/ (Held(r) /\ ~exited)

\* Between two messages nobody who was woken still sleeps and no call that
\* failed still waits, also after errors in the middle of it; unless a
\* coroutine was woken a second time before it ran.
Drained ==
    run.pc = "idle" /\ ~exited /\ ~twice => tab.wakeup_queue = <<>> /\ tab.error_queue = <<>>

\* One coroutine at a time is in the critical section, as often as ref says.
Mutex ==
    \A t \in Thread : section.inside[t] > 0 =>
       section.current_thread = t /\ section.ref = section.inside[t]

\* Between two messages the section belongs to a coroutine inside it or to
\* nobody: its owner is never one that waits for it.
SectionHeld ==
    run.pc = "idle" /\ ~exited /\ ~twice /\ section.current_thread # 0
    => section.inside[section.current_thread] > 0

SomeCall == \E t \in Thread : at[t] = "call"
AllReturned == exited \/ ~SomeCall

\* Of the MaxSession calls each returns or fails, also when its destination goes down.
CallReturns == SomeCall ~> AllReturned
=============================================================================
