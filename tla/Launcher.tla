------------------------------ MODULE Launcher ------------------------------
(***************************************************************************)
(* The launcher service (service/launcher.lua) and the services it starts: *)
(* skynet.newservice, the report of their initialisation, skynet.exit and  *)
(* skynet.kill.                                                            *)
(***************************************************************************)
EXTENDS Integers, Sequences, FiniteSets

CONSTANTS
    Caller,         \* coroutines that call skynet.newservice
    ByName,         \* services may be killed by their name
    MaxService      \* bound on the services

VARIABLES
    result,         \* caller: "idle", "waiting", "ok", "nil", "error"
    life,           \* services launched: "boot", "run", "dead"
    owner,          \* services launched: the caller
    q,              \* messages to the launcher
    services,       \* services the launcher lists
    instance        \* those of them whose caller waits for the answer

vars == <<result, life, owner, q, services, instance>>

Msg(cmd, who) == [cmd |-> cmd, caller |-> who, svc |-> 0]

Report(cmd, i) == [cmd |-> cmd, caller |-> "", svc |-> i]

Alive(i) == life[i] # "dead"

-----------------------------------------------------------------------------
(* The launcher.  The message it handles is the first one.                 *)

\* The first report on a service answers its caller.
Answer(i, r) ==
    /\ result' = IF i \in instance THEN [result EXCEPT ![owner[i]] = r] ELSE result
    /\ instance' = instance \ {i}

LAUNCH(c) ==
    \/ /\ Len(life) < MaxService
       /\ life' = Append(life, "boot") /\ owner' = Append(owner, c)
       /\ services' = services \cup {Len(life) + 1}
       /\ instance' = instance \cup {Len(life) + 1}
       /\ q' = Tail(q)
       /\ UNCHANGED result
    \/ /\ result' = [result EXCEPT ![c] = "error"]    \* no context was made
       /\ q' = Tail(q)
       /\ UNCHANGED <<life, owner, services, instance>>

LAUNCH_OK(i) ==
    /\ Answer(i, "ok")
    /\ q' = Tail(q)
    /\ UNCHANGED <<life, owner, services>>

Unlisted(i) == services \ {i}

ERROR(i) ==
    /\ Answer(i, "error")
    /\ services' = Unlisted(i)
    /\ q' = Tail(q)
    /\ UNCHANGED <<life, owner>>

REMOVE(i, kill) ==
    /\ Answer(i, IF kill THEN "error" ELSE "nil")
    /\ services' = services \ {i}
    /\ q' = Tail(q)
    /\ UNCHANGED <<life, owner>>

\* The console's kill: the launcher sends REMOVE to itself.
KILL(i) ==
    /\ life' = [life EXCEPT ![i] = "dead"]
    /\ services' = services \ {i}
    /\ q' = Append(Tail(q), Report("REMOVE_KILLED", i))
    /\ UNCHANGED <<result, owner, instance>>

Handle ==
    LET m == Head(q)
    IN  /\ q # <<>>
        /\ \/ m.cmd = "LAUNCH" /\ LAUNCH(m.caller)
           \/ m.cmd = "LAUNCH_OK" /\ LAUNCH_OK(m.svc)
           \/ m.cmd = "ERROR" /\ ERROR(m.svc)
           \/ m.cmd = "REMOVE" /\ REMOVE(m.svc, FALSE)
           \/ m.cmd = "REMOVE_KILLED" /\ REMOVE(m.svc, TRUE)
           \/ m.cmd = "KILL" /\ KILL(m.svc)

-----------------------------------------------------------------------------
(* Callers and services.                                                   *)

newservice(c) ==
    /\ result[c] = "idle"
    /\ result' = [result EXCEPT ![c] = "waiting"]
    /\ q' = Append(q, Msg("LAUNCH", c))
    /\ UNCHANGED <<life, owner, services, instance>>

Becomes(i, l, ms) ==
    /\ Alive(i)
    /\ life' = [life EXCEPT ![i] = l]
    /\ q' = q \o ms
    /\ UNCHANGED <<result, owner, services, instance>>

\* init_service: the start function returned.
InitOk(i) == life[i] = "boot" /\ Becomes(i, "run", <<Report("LAUNCH_OK", i)>>)

\* init_service: it failed; ERROR, then skynet.exit.
InitFailed(i) ==
    life[i] = "boot" /\ Becomes(i, "dead", <<Report("ERROR", i), Report("REMOVE", i)>>)

\* snlua: the loader could not run the script.
LoadFailed(i) == life[i] = "boot" /\ Becomes(i, "dead", <<Report("ERROR", i)>>)

\* skynet.exit, in the start function or later.
Exit(i) == Becomes(i, "dead", <<Report("REMOVE", i)>>)

\* skynet.kill with an address, by any service.
Kill(i) == Becomes(i, "dead", <<Report("REMOVE_KILLED", i)>>)

\* skynet.kill with a name tells the launcher nothing.
KillNamed(i) == ByName /\ Becomes(i, "dead", <<>>)

\* kill of the console, for a service it lists.
ConsoleKill(i) ==
    /\ i \in services /\ ~\E k \in DOMAIN q : q[k].cmd = "KILL"
    /\ q' = Append(q, Report("KILL", i))
    /\ UNCHANGED <<result, life, owner, services, instance>>

-----------------------------------------------------------------------------
Init ==
    /\ result = [c \in Caller |-> "idle"]
    /\ life = <<>> /\ owner = <<>> /\ q = <<>>
    /\ services = {} /\ instance = {}

Next ==
    \/ Handle
    \/ \E c \in Caller : newservice(c)
    \/ \E i \in DOMAIN life :
          \/ InitOk(i) \/ InitFailed(i) \/ LoadFailed(i) \/ Exit(i)
          \/ Kill(i) \/ KillNamed(i) \/ ConsoleKill(i)

Spec == Init /\ [][Next]_vars

-----------------------------------------------------------------------------
\* Every variable keeps its type.
TypeOK ==
    /\ result \in [Caller -> {"idle", "waiting", "ok", "nil", "error"}]
    /\ life \in [DOMAIN owner -> {"boot", "run", "dead"}]
    /\ services \subseteq DOMAIN life /\ instance \subseteq DOMAIN life

\* The launcher answers a call of newservice once: a caller it still owes an answer
\* has had none, whatever exits, kills and reports of failure came in between.
OwedOnce == \A i \in instance : result[owner[i]] = "waiting"

\* When no message is left the launcher lists the services that are alive, and a
\* caller still waits only for a service that is initialising (a kill by name
\* breaks both).
ListsLiving ==
    q = <<>> =>
        /\ services = {i \in DOMAIN life : Alive(i)}
        /\ \A c \in Caller : result[c] = "waiting" =>
               \E i \in DOMAIN life : owner[i] = c /\ life[i] = "boot"
=============================================================================
