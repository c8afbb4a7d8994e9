--------------------------- MODULE ServiceMonitor ---------------------------
(***************************************************************************)
(* The watch on one worker thread (service_monitor.cpp): the worker notes  *)
(* which service it runs and counts its messages, the monitor thread       *)
(* compares the count with that of its last visit.  The fields are read    *)
(* and written without a lock; every step is one access to a field.        *)
(***************************************************************************)
EXTENDS Integers

CONSTANTS Svc,        \* the services the worker runs
          MaxVersion, \* bound: no message starts beyond it
          None        \* handle 0

VARIABLES last,    \* last_version_
          check,   \* check_version_
          dst,     \* dst_svc_handle_
          self,    \* the service whose message the worker has
          wpc,     \* the worker: idle, begin, callback, end
          mpc,     \* the monitor: idle, compare, copy, look, mark
          live,    \* the registered services
          blocked, \* the services with is_blocked_
          answer,  \* what the service was told about itself
          touched  \* history: the services that ran since the check began

vars == <<last, check, dst, self, wpc, mpc, live, blocked, answer, touched>>
workerVars == <<last, dst, self, wpc>>
monitorVars == <<check, mpc>>
serviceVars == <<live, blocked, answer>>

Init ==
    /\ last = 0 /\ check = 0 /\ dst = None
    /\ self = None /\ wpc = "idle" /\ mpc = "idle"
    /\ live = Svc /\ blocked = {} /\ answer = "none"
    /\ touched = {}

-----------------------------------------------------------------------------
(***************************************************************************)
(* The worker.                                                             *)
(***************************************************************************)

\* process_begin: the service first, then the count.
ProcessBegin(s) ==
    /\ wpc = "idle" /\ s \in live /\ last < MaxVersion
    /\ self' = s /\ dst' = s
    /\ wpc' = "begin"
    /\ touched' = touched \cup {s}
    /\ UNCHANGED <<last, monitorVars, serviceVars>>

Count ==
    /\ wpc \in {"begin", "end"}
    /\ last' = last + 1
    /\ wpc' = IF wpc = "begin" THEN "callback" ELSE "idle"
    /\ UNCHANGED <<dst, self, monitorVars, serviceVars, touched>>

\* Mutant of ProcessEnd: the service is not reset.
ProcessEndKeeps ==
    /\ wpc = "callback"
    /\ self' = None /\ UNCHANGED dst
    /\ wpc' = "end"
    /\ UNCHANGED <<last, monitorVars, serviceVars, touched>>

\* The callback returns: process_end, again the service first.
ProcessEnd ==
    /\ wpc = "callback"
    /\ self' = None /\ dst' = None
    /\ wpc' = "end"
    /\ UNCHANGED <<last, monitorVars, serviceVars, touched>>

\* cmd_stat: what is known of the service that asks; unknown words get "".
Stat(param) ==
    /\ wpc = "callback"
    /\ \/ /\ param = "is_blocked"
          /\ answer' = IF self \in blocked THEN "yes" ELSE "no"
          /\ blocked' = blocked \ {self}
       \/ /\ param # "is_blocked"
          /\ answer' = "no"
          /\ UNCHANGED blocked
    /\ UNCHANGED <<workerVars, monitorVars, live, touched>>

\* skynet.endless() of lualib asks for another word.
Endless == Stat("endless")

\* Somebody kills the service.
Kill(s) ==
    /\ s \in live
    /\ live' = live \ {s}
    /\ UNCHANGED <<workerVars, monitorVars, blocked, answer, touched>>

-----------------------------------------------------------------------------
(***************************************************************************)
(* check(), called by the monitor thread.                                  *)
(***************************************************************************)
BeginCheck ==
    /\ mpc = "idle"
    /\ mpc' = "compare"
    /\ touched' = IF self = None THEN {} ELSE {self}
    /\ UNCHANGED <<workerVars, check, serviceVars>>

\* Mutant of Compare: a count that has moved is not remembered.
CompareOnly ==
    /\ mpc = "compare"
    /\ mpc' = IF check = last THEN "look" ELSE "idle"
    /\ UNCHANGED <<workerVars, check, serviceVars, touched>>

Compare ==
    /\ mpc = "compare"
    /\ mpc' = IF check = last THEN "look" ELSE "copy"
    /\ UNCHANGED <<workerVars, check, serviceVars, touched>>

EndCheck ==
    /\ mpc' = "idle"
    /\ UNCHANGED touched

\* The count is read once more.
Copy ==
    /\ mpc = "copy"
    /\ check' = last
    /\ EndCheck
    /\ UNCHANGED <<workerVars, serviceVars>>

Look ==
    /\ mpc = "look"
    /\ \/ dst = None /\ EndCheck
       \/ dst # None /\ mpc' = "mark" /\ UNCHANGED touched
    /\ UNCHANGED <<workerVars, check, serviceVars>>

\* process_blocked_service; dst_svc_handle_ may be read once more.
Mark ==
    /\ mpc = "mark"
    /\ blocked' = blocked \cup ({dst} \cap live)
    /\ EndCheck
    /\ UNCHANGED <<workerVars, check, live, answer>>

MonitorStep == BeginCheck \/ Compare \/ Copy \/ Look \/ Mark

Next ==
    \/ \E s \in Svc : ProcessBegin(s) \/ Kill(s)
    \/ Count \/ ProcessEnd
    \/ Stat("is_blocked") \/ Endless
    \/ MonitorStep

\* The monitor thread goes on; a callback need not return.
Spec ==
    /\ Init /\ [][Next]_vars
    /\ WF_vars(Count) /\ WF_vars(MonitorStep)

-----------------------------------------------------------------------------
TypeOK ==
    /\ last \in 0 .. MaxVersion + 2 /\ check \in 0 .. MaxVersion + 2
    /\ dst \in Svc \cup {None} /\ self \in Svc \cup {None}
    /\ wpc \in {"idle", "begin", "callback", "end"}
    /\ mpc \in {"idle", "compare", "copy", "look", "mark"}
    /\ live \subseteq Svc /\ blocked \subseteq Svc /\ touched \subseteq Svc
    /\ answer \in {"none", "yes", "no"}

\* A service is marked only if the worker ran it at some time of the check,
\* however the two threads interleave.
MarkedWasBusy == blocked' \subseteq blocked \cup touched'
MarksTheBusy == [][MarkedWasBusy]_vars

Stuck == wpc = "callback" /\ self \in live
Marked == Stuck /\ self \in blocked

\* A service that stays in its callback for ever is marked, unless killed.
StuckIsMarked == <>[]Stuck => <>Marked

=============================================================================
