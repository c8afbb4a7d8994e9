---------------------------- MODULE ServiceProofs ---------------------------
(***************************************************************************)
(* The theorems of two services, each for every value of its constants:    *)
(* the launcher (module Launcher, which this one extends) and the DNS      *)
(* client (Dns), which is an instance here.  The parts do not depend on    *)
(* each other.                                                             *)
(***************************************************************************)
EXTENDS Launcher, WellFoundedInduction, TLAPS

-----------------------------------------------------------------------------
(***************************************************************************)
(* The launcher, whatever the number of callers and of services.           *)
(***************************************************************************)

Launch(c) == Msg("LAUNCH", c)

\* Reports of the end of a service, and those that answer its caller.
Ends == {"ERROR", "REMOVE", "REMOVE_KILLED"}
Answers == Ends \cup {"LAUNCH_OK"}

\* The messages of a queue, and that one is there once.
Msgs(s) == {s[k] : k \in DOMAIN s}
Single(s, m) == \A k, l \in DOMAIN s : s[k] = m /\ s[l] = m => k = l

\* One of these reports on service i is queued.
Told(i, cmds) == \E cmd \in cmds : Report(cmd, i) \in Msgs(q)

\* A message for the launcher when D are the services launched.
Proper(m, D) == \/ \E c \in Caller : m = Launch(c)
                \/ \E cmd \in Answers \cup {"KILL"}, i \in D : m = Report(cmd, i)

LauncherTypes ==
    /\ result \in [Caller -> {"idle", "waiting", "ok", "nil", "error"}]
    /\ life \in Seq({"boot", "run", "dead"})
    /\ owner \in Seq(Caller) /\ Len(owner) = Len(life)
    /\ services \subseteq DOMAIN life /\ instance \subseteq DOMAIN life
    /\ q \in Seq(Msgs(q))
    /\ \A m \in Msgs(q) : Proper(m, DOMAIN life)

\* A caller waits for a LAUNCH that is queued, once, or for one service, never both.
LauncherOwes ==
    /\ \A i \in instance : result[owner[i]] = "waiting" /\ Launch(owner[i]) \notin Msgs(q)
    /\ \A i, j \in instance : owner[i] = owner[j] => i = j
    /\ \A c \in Caller : Launch(c) \in Msgs(q) => result[c] = "waiting"
    /\ \A c \in Caller : result[c] = "waiting" => \/ Launch(c) \in Msgs(q)
                                                  \/ \E i \in instance : owner[i] = c
    /\ \A c \in Caller : Single(q, Launch(c))

\* What the launcher does not know yet is on its way to it.
LauncherLists ==
    /\ \A i \in DOMAIN life : life[i] # "dead" => i \in services /\ ~Told(i, Ends)
    /\ \A i \in services : life[i] = "dead" => Told(i, Ends)
    /\ \A i \in instance : life[i] # "boot" => Told(i, Answers)

LauncherInv == LauncherTypes /\ LauncherOwes

-----------------------------------------------------------------------------
\* The launcher takes the first message of its queue.
LEMMA FirstTaken ==
    ASSUME NEW s, s \in Seq(Msgs(s)), s # <<>>
    PROVE  /\ Tail(s) \in Seq(Msgs(Tail(s)))
           /\ \A m : m \in Msgs(s) <=> m \in Msgs(Tail(s)) \/ m = Head(s)
           /\ \A m : Single(s, m) => /\ Single(Tail(s), m)
                                     /\ m = Head(s) => m \notin Msgs(Tail(s))
  <1> DEFINE r == Tail(s)
  <1>1. /\ r \in Seq(Msgs(s)) /\ DOMAIN r = 1 .. Len(s) - 1 /\ DOMAIN s = 1 .. Len(s)
        /\ Len(s) \in Nat /\ Len(s) >= 1 /\ Head(s) = s[1] /\ \A k \in DOMAIN r : r[k] = s[k + 1]
    OBVIOUS
  <1>2. Len(r) = Len(s) - 1
    OBVIOUS
  <1> HIDE DEF r
  <1>3. \A k \in DOMAIN r : k + 1 \in DOMAIN s /\ k \in Int /\ k + 1 # 1
    BY <1>1
  <1>4. \A k \in DOMAIN s : k = 1 \/ \E j \in DOMAIN r : k = j + 1
    <2> SUFFICES ASSUME NEW k \in DOMAIN s, k # 1 PROVE \E j \in DOMAIN r : k = j + 1
      OBVIOUS
    <2>1. k - 1 \in DOMAIN r /\ k = (k - 1) + 1
      BY <1>1
    <2> QED BY Zenon, <2>1
  <1>5. 1 \in DOMAIN s
    BY <1>1
  <1>6. \A m : m \in Msgs(s) <=> m \in Msgs(r) \/ m = Head(s)
    <2>1. ASSUME NEW k \in DOMAIN s PROVE s[k] \in Msgs(r) \/ s[k] = Head(s)
      BY Zenon, <1>1, <1>4 DEF Msgs
    <2>2. ASSUME NEW k \in DOMAIN r PROVE r[k] \in Msgs(s)
      BY Zenon, <1>1, <1>3 DEF Msgs
    <2>3. Head(s) \in Msgs(s)
      BY Zenon, <1>1, <1>5 DEF Msgs
    <2>4. ASSUME NEW m, m \in Msgs(s) PROVE m \in Msgs(r) \/ m = Head(s)
      <3>1. PICK k \in DOMAIN s : m = s[k]
        BY Zenon, <2>4 DEF Msgs
      <3> QED BY Zenon, <2>1, <3>1
    <2>5. ASSUME NEW m, m \in Msgs(r) PROVE m \in Msgs(s)
      <3>1. PICK k \in DOMAIN r : m = r[k]
        BY Zenon, <2>5 DEF Msgs
      <3> QED BY Zenon, <2>2, <3>1
    <2> QED BY Zenon, <2>3, <2>4, <2>5
  <1>7. r \in Seq(Msgs(r))
    <2>1. \A k \in 1 .. Len(r) : r[k] \in Msgs(r)
      BY <1>1, <1>2 DEF Msgs
    <2> QED BY <2>1, <1>1
  <1>8. ASSUME NEW m, Single(s, m) PROVE Single(r, m)
    <2> SUFFICES ASSUME NEW k \in DOMAIN r, NEW l \in DOMAIN r, r[k] = m, r[l] = m PROVE k = l
      BY Zenon DEF Single
    <2>1. k + 1 = l + 1
      BY Zenon, <1>1, <1>3, <1>8 DEF Single
    <2> QED BY <2>1, <1>3
  <1>9. ASSUME NEW m, Single(s, m), m = Head(s), m \in Msgs(r) PROVE FALSE
    <2>1. PICK k \in DOMAIN r : r[k] = m
      BY Zenon, <1>9 DEF Msgs
    <2>2. s[k + 1] = m /\ s[1] = m
      BY Zenon, <2>1, <1>1, <1>9
    <2> QED BY Zenon, <1>3, <1>5, <1>9, <2>2 DEF Single
  <1> QED BY Zenon, <1>6, <1>7, <1>8, <1>9 DEF r

\* A message is queued.
LEMMA Added ==
    ASSUME NEW s, s \in Seq(Msgs(s)), NEW m
    PROVE  /\ Append(s, m) \in Seq(Msgs(Append(s, m)))
           /\ \A x : x \in Msgs(Append(s, m)) <=> x \in Msgs(s) \/ x = m
           /\ \A x : Single(s, x) /\ (x = m => x \notin Msgs(s)) => Single(Append(s, m), x)
  <1> DEFINE t == Append(s, m)
  <1>1. t \in Seq(Msgs(s) \cup {m})
    OBVIOUS
  <1>2. /\ DOMAIN s = 1 .. Len(s) /\ Len(s) \in Nat /\ DOMAIN t = 1 .. Len(s) + 1
        /\ t[Len(s) + 1] = m /\ \A k \in DOMAIN s : t[k] = s[k]
    OBVIOUS
  <1>3. \A k \in DOMAIN t : k \in DOMAIN s \/ k = Len(s) + 1
    BY <1>2
  <1>4. Len(s) + 1 \in DOMAIN t /\ \A k \in DOMAIN s : k \in DOMAIN t
    BY <1>2
  <1> HIDE DEF t
  <1>5. Msgs(t) = Msgs(s) \cup {m}
    BY Zenon, <1>2, <1>3, <1>4 DEF Msgs
  <1>6. t \in Seq(Msgs(t))
    BY <1>1, <1>5
  <1>8. \A x : x \in Msgs(t) <=> x \in Msgs(s) \/ x = m
    BY Zenon, <1>5
  <1>7. ASSUME NEW x, Single(s, x), x = m => x \notin Msgs(s),
               NEW k \in DOMAIN t, NEW l \in DOMAIN t, t[k] = x, t[l] = x
        PROVE  k = l
    <2>1. \A n \in DOMAIN s : x = m => s[n] # x
      BY Zenon, <1>7 DEF Msgs
    <2> QED BY Zenon, <2>1, <1>2, <1>3, <1>7 DEF Single
  <1> QED BY Zenon, <1>6, <1>7, <1>8 DEF t, Single

\* The messages of a service that changes its life.
LEMMA Sent ==
    ASSUME NEW s, s \in Seq(Msgs(s)), NEW a, NEW b
    PROVE  /\ s \o <<>> = s
           /\ s \o <<a>> = Append(s, a)
           /\ s \o <<a, b>> = Append(Append(s, a), b)
  OBVIOUS

\* Messages that differ in command, service or caller differ.
LEMMA MessagesDiffer ==
    /\ \A c, d : Launch(c) = Launch(d) => c = d
    /\ \A c, i : \A cmd \in Answers \cup {"KILL"} : Launch(c) # Report(cmd, i)
    /\ \A cmd, com, i, j : Report(cmd, i) = Report(com, j) => cmd = com /\ i = j
    /\ \A c : Launch(c).cmd = "LAUNCH" /\ Launch(c).caller = c
    /\ \A cmd, i : Report(cmd, i).cmd = cmd /\ Report(cmd, i).svc = i
  BY DEF Launch, Msg, Report, Answers, Ends

\* A report on a service answers its caller.
LEMMA AnswerKeeps ==
    ASSUME LauncherInv, q # <<>>, q' = Tail(q), UNCHANGED <<life, owner>>,
           NEW cmd \in Answers, NEW i \in DOMAIN life, Head(q) = Report(cmd, i),
           NEW r \in {"ok", "nil", "error"}, Answer(i, r),
           services' = IF cmd = "LAUNCH_OK" THEN services ELSE services \ {i}
    PROVE  LauncherInv' /\ (LauncherLists => LauncherLists')
  <1> USE DEF LauncherInv
  <1>1. /\ q' \in Seq(Msgs(q')) /\ \A m : m \in Msgs(q) <=> m \in Msgs(q') \/ m = Head(q)
        /\ \A m : Single(q, m) => Single(q', m)
    BY Zenon, FirstTaken DEF LauncherTypes
  <1>2. \A c \in Caller : Launch(c) \in Msgs(q) <=> Launch(c) \in Msgs(q')
    <2>1. cmd \in Answers \cup {"KILL"}
      OBVIOUS
    <2>2. \A c : Launch(c) # Head(q)
      BY <2>1, MessagesDiffer
    <2> QED BY Zenon, <1>1, <2>2
  <1>3. \A com \in Answers, j \in DOMAIN life :
           Report(com, j) \in Msgs(q) /\ Report(com, j) \notin Msgs(q') => com = cmd /\ j = i
    <2> SUFFICES ASSUME NEW com \in Answers, NEW j \in DOMAIN life,
                        Report(com, j) \in Msgs(q), Report(com, j) \notin Msgs(q')
                 PROVE  com = cmd /\ j = i
      BY Zenon
    <2>1. Report(com, j) = Report(cmd, i)
      BY Zenon, <1>1
    <2> QED BY <2>1, MessagesDiffer
  <1>4. DOMAIN owner = DOMAIN life /\ \A j \in DOMAIN life : owner[j] \in Caller
    BY DEF LauncherTypes
  <1>5. /\ instance' = instance \ {i}
        /\ result' = IF i \in instance THEN [result EXCEPT ![owner[i]] = r] ELSE result
    BY Zenon DEF Answer
  <1>6. /\ DOMAIN result = Caller
        /\ \A c \in Caller : result'[c] = IF i \in instance /\ c = owner[i] THEN r ELSE result[c]
        /\ result' \in [Caller -> {"idle", "waiting", "ok", "nil", "error"}]
    BY <1>4, <1>5 DEF LauncherTypes
  <1>0. life' = life /\ owner' = owner
    BY Zenon
  <1>7. LauncherTypes'
    <2>1. services' \subseteq DOMAIN life /\ instance' \subseteq DOMAIN life
      BY Zenon, <1>5 DEF LauncherTypes
    <2>2. \A m \in Msgs(q') : m \in Msgs(q)
      BY Zenon, <1>1
    <2>3. \A m \in Msgs(q') : Proper(m, DOMAIN life)
      BY Zenon, <2>2 DEF LauncherTypes
    <2>4. /\ life' \in Seq({"boot", "run", "dead"}) /\ owner' \in Seq(Caller) /\ Len(owner') = Len(life')
          /\ services' \subseteq DOMAIN life' /\ instance' \subseteq DOMAIN life'
      BY Zenon, <1>0, <2>1 DEF LauncherTypes
    <2>5. \A m \in Msgs(q') : Proper(m, DOMAIN life')
      BY Zenon, <1>0, <2>3
    <2> QED BY Zenon, <1>1, <1>6, <2>4, <2>5 DEF LauncherTypes
  <1>8. LauncherOwes'
    <2>1. \A c \in Caller : result'[c] = "waiting" <=> result[c] = "waiting" /\ ~(i \in instance /\ c = owner[i])
      BY <1>6 DEF LauncherOwes
    <2>2. instance \subseteq DOMAIN life
      BY Zenon DEF LauncherTypes
    <2>3. \A j \in instance' : result'[owner'[j]] = "waiting" /\ Launch(owner'[j]) \notin Msgs(q')
      BY <1>0, <1>2, <1>4, <1>5, <2>1, <2>2 DEF LauncherOwes
    <2>4. \A j, k \in instance' : owner'[j] = owner'[k] => j = k
      BY <1>0, <1>5 DEF LauncherOwes
    <2>5. \A c \in Caller : Launch(c) \in Msgs(q') => result'[c] = "waiting"
      BY Zenon, <1>2, <2>1 DEF LauncherOwes
    <2>6. \A c \in Caller : result'[c] = "waiting" => \/ Launch(c) \in Msgs(q')
                                                      \/ \E j \in instance' : owner'[j] = c
      BY <1>0, <1>2, <1>5, <2>1 DEF LauncherOwes
    <2>7. \A c \in Caller : Single(q', Launch(c))
      BY Zenon, <1>1 DEF LauncherOwes
    <2> QED BY Zenon, <2>3, <2>4, <2>5, <2>6, <2>7 DEF LauncherOwes
  <1>9. ASSUME LauncherLists PROVE LauncherLists'
    <2>1. services \subseteq DOMAIN life /\ instance \subseteq DOMAIN life /\ Ends \subseteq Answers
      BY Zenon DEF LauncherTypes, Answers
    <2>2. cmd = "LAUNCH_OK" \/ cmd \in Ends
      BY Zenon DEF Answers
    <2>3. "LAUNCH_OK" \notin Ends
      BY DEF Ends
    <2>4. Head(q) \in Msgs(q) /\ \A m : m \in Msgs(q') => m \in Msgs(q)
      BY Zenon, <1>1
    <2>5. \A j \in DOMAIN life : life'[j] # "dead" => j \in services' /\ ~Told(j, Ends)'
      BY Zenon, <1>9, <2>1, <2>2, <2>4 DEF LauncherLists, Told
    <2>6. \A j \in services' : life'[j] = "dead" => Told(j, Ends)'
      <3> SUFFICES ASSUME NEW j \in services', life'[j] = "dead" PROVE Told(j, Ends)'
        BY Zenon
      <3>1. j \in services /\ (j = i => cmd \notin Ends)
        BY Zenon, <2>2, <2>3
      <3>2. PICK com \in Ends : Report(com, j) \in Msgs(q)
        BY Zenon, <1>0, <1>9, <3>1 DEF LauncherLists, Told
      <3>3. Report(com, j) \in Msgs(q')
        BY Zenon, <1>3, <2>1, <3>1, <3>2
      <3> QED BY Zenon, <3>3 DEF Told
    <2>7. \A j \in instance' : life'[j] # "boot" => Told(j, Answers)'
      BY Zenon, <1>3, <1>5, <1>9, <2>1 DEF LauncherLists, Told
    <2> QED BY Zenon, <2>5, <2>6, <2>7 DEF LauncherLists
  <1> QED BY Zenon, <1>7, <1>8, <1>9

\* A service changes its life and reports it; news are its messages.
LEMMA BecomesKeeps ==
    ASSUME LauncherInv, NEW i \in DOMAIN life, NEW l \in {"run", "dead"}, life[i] # "dead",
           NEW cmds \in SUBSET Answers,
           life' = [life EXCEPT ![i] = l], UNCHANGED <<result, owner, services, instance>>,
           q' \in Seq(Msgs(q')),
           \A m : m \in Msgs(q') <=> m \in Msgs(q) \/ \E cmd \in cmds : m = Report(cmd, i),
           \A c \in Caller : Single(q', Launch(c)),
           l = "run" => life[i] = "boot" /\ cmds = {"LAUNCH_OK"}
    PROVE  /\ LauncherInv'
           /\ LauncherLists /\ (l = "dead" => \E cmd \in Ends : cmd \in cmds) => LauncherLists'
  <1> USE DEF LauncherInv
  <1>1. /\ life' \in Seq({"boot", "run", "dead"}) /\ Len(life') = Len(life) /\ DOMAIN life' = DOMAIN life
        /\ \A j \in DOMAIN life : life'[j] = IF j = i THEN l ELSE life[j]
    BY DEF LauncherTypes
  <1>2. result' = result /\ owner' = owner /\ services' = services /\ instance' = instance
    OBVIOUS
  <1>3. \A cmd \in cmds : cmd \in Answers \cup {"KILL"}
    BY Zenon
  <1>4. \A c \in Caller : Launch(c) \in Msgs(q') <=> Launch(c) \in Msgs(q)
    BY <1>3, MessagesDiffer
  <1>5. LauncherTypes'
    <2>1. \A m \in Msgs(q') : Proper(m, DOMAIN life')
      <3> SUFFICES ASSUME NEW m \in Msgs(q') PROVE Proper(m, DOMAIN life)
        BY Zenon, <1>1
      <3>1. CASE m \in Msgs(q)
        BY Zenon, <3>1 DEF LauncherTypes
      <3>2. CASE \E cmd \in cmds : m = Report(cmd, i)
        BY Zenon, <3>2, <1>3 DEF Proper
      <3> QED BY Zenon, <3>1, <3>2
    <2>2. /\ result' \in [Caller -> {"idle", "waiting", "ok", "nil", "error"}]
          /\ owner' \in Seq(Caller) /\ Len(owner') = Len(life')
          /\ services' \subseteq DOMAIN life' /\ instance' \subseteq DOMAIN life'
      BY Zenon, <1>1, <1>2 DEF LauncherTypes
    <2> QED BY Zenon, <1>1, <2>1, <2>2 DEF LauncherTypes
  <1>6. LauncherOwes'
    <2>1. \A j \in instance : owner[j] \in Caller
      BY DEF LauncherTypes
    <2> QED BY <1>2, <1>4, <2>1 DEF LauncherOwes
  <1>7. ASSUME LauncherLists, l = "dead" => \E cmd \in Ends : cmd \in cmds PROVE LauncherLists'
    <2>1. services \subseteq DOMAIN life /\ instance \subseteq DOMAIN life
      BY Zenon DEF LauncherTypes
    <2>2. \A cmd, j : Report(cmd, j) \in Msgs(q) => Report(cmd, j) \in Msgs(q')
      BY Zenon
    <2>3. \A cmd, j : Report(cmd, j) \in Msgs(q') =>
                        Report(cmd, j) \in Msgs(q) \/ (cmd \in cmds /\ j = i)
      BY MessagesDiffer
    <2>4. "LAUNCH_OK" \in Answers /\ "LAUNCH_OK" \notin Ends /\ Ends \subseteq Answers
      BY DEF Ends, Answers
    <2>5. \A j \in DOMAIN life' : life'[j] # "dead" => j \in services' /\ ~Told(j, Ends)'
      <3> SUFFICES ASSUME NEW j \in DOMAIN life, life'[j] # "dead"
                   PROVE  j \in services /\ ~\E cmd \in Ends : Report(cmd, j) \in Msgs(q')
        BY Zenon, <1>1, <1>2 DEF Told
      <3>1. life[j] # "dead" /\ (j = i => cmds = {"LAUNCH_OK"})
        BY <1>1
      <3> QED BY Zenon, <3>1, <1>7, <2>3, <2>4 DEF LauncherLists, Told
    <2>6. \A j \in services' : life'[j] = "dead" => Told(j, Ends)'
      <3> SUFFICES ASSUME NEW j \in services, life'[j] = "dead"
                   PROVE  \E cmd \in Ends : Report(cmd, j) \in Msgs(q')
        BY Zenon, <1>2 DEF Told
      <3>1. CASE j = i
        BY Zenon, <3>1, <1>1, <1>7
      <3>2. CASE j # i
        <4>1. life[j] = "dead"
          BY Zenon, <3>2, <1>1, <2>1
        <4> QED BY Zenon, <4>1, <1>7, <2>2 DEF LauncherLists, Told
      <3> QED BY Zenon, <3>1, <3>2
    <2>7. \A j \in instance' : life'[j] # "boot" => Told(j, Answers)'
      <3> SUFFICES ASSUME NEW j \in instance, life'[j] # "boot"
                   PROVE  \E cmd \in Answers : Report(cmd, j) \in Msgs(q')
        BY Zenon, <1>2 DEF Told
      <3>1. CASE j = i
        <4>1. \E cmd \in Answers : cmd \in cmds
          BY Zenon, <1>7, <2>4
        <4> QED BY Zenon, <3>1, <4>1
      <3>2. CASE j # i
        <4>1. life[j] # "boot"
          BY Zenon, <3>2, <1>1, <2>1
        <4> QED BY Zenon, <4>1, <1>7, <2>2 DEF LauncherLists, Told
      <3> QED BY Zenon, <3>1, <3>2
    <2> QED BY Zenon, <2>5, <2>6, <2>7 DEF LauncherLists
  <1> QED BY Zenon, <1>5, <1>6, <1>7

\* LAUNCH takes its caller's message and starts a service.
LEMMA LaunchKeeps ==
    ASSUME LauncherInv, q # <<>>, q' = Tail(q), NEW c \in Caller, Head(q) = Launch(c), LAUNCH(c)
    PROVE  LauncherInv' /\ (LauncherLists => LauncherLists')
  <1> USE DEF LauncherInv
  <1>1. /\ q' \in Seq(Msgs(q')) /\ \A m : m \in Msgs(q) <=> m \in Msgs(q') \/ m = Head(q)
        /\ \A m : Single(q, m) => Single(q', m) /\ (m = Head(q) => m \notin Msgs(q'))
    BY Zenon, FirstTaken DEF LauncherTypes
  <1>2. /\ Launch(c) \in Msgs(q) /\ Launch(c) \notin Msgs(q') /\ result[c] = "waiting"
        /\ \A i \in instance : owner[i] # c
    BY Zenon, <1>1 DEF LauncherOwes
  <1>3. \A d \in Caller : d # c => (Launch(d) \in Msgs(q) <=> Launch(d) \in Msgs(q'))
    BY <1>1, MessagesDiffer
  <1>4. \A cmd \in Answers, j \in Nat : Report(cmd, j) \in Msgs(q) <=> Report(cmd, j) \in Msgs(q')
    BY <1>1, MessagesDiffer
  <1>5. \A d \in Caller : Single(q', Launch(d))
    BY Zenon, <1>1 DEF LauncherOwes
  <1>6. \A m \in Msgs(q') : Proper(m, DOMAIN life)
    BY Zenon, <1>1 DEF LauncherTypes
  <1>7. \A j \in DOMAIN life : owner[j] \in Caller /\ j \in Nat
    BY DEF LauncherTypes
  <1>8. services \subseteq DOMAIN life /\ instance \subseteq DOMAIN life /\ Ends \subseteq Answers
    BY Zenon DEF LauncherTypes, Answers
  <1>9. CASE result' = [result EXCEPT ![c] = "error"] /\ UNCHANGED <<life, owner, services, instance>>
    <2>1. life' = life /\ owner' = owner /\ services' = services /\ instance' = instance
      BY Zenon, <1>9
    <2>2. /\ result' \in [Caller -> {"idle", "waiting", "ok", "nil", "error"}]
          /\ \A d \in Caller : result'[d] = IF d = c THEN "error" ELSE result[d]
      BY <1>9 DEF LauncherTypes
    <2>3. LauncherTypes'
      BY <1>1, <1>6, <2>1, <2>2 DEF LauncherTypes
    <2>4. LauncherOwes'
      BY <1>2, <1>3, <1>5, <1>7, <1>8, <2>1, <2>2 DEF LauncherOwes
    <2>5. ASSUME LauncherLists PROVE LauncherLists'
      BY <1>4, <1>7, <1>8, <2>1, <2>5 DEF LauncherLists, Told
    <2> QED BY Zenon, <2>3, <2>4, <2>5
  <1>10. CASE /\ life' = Append(life, "boot") /\ owner' = Append(owner, c)
              /\ services' = services \cup {Len(life) + 1}
              /\ instance' = instance \cup {Len(life) + 1}
              /\ UNCHANGED result
    <2> DEFINE n == Len(life) + 1
    <2>1. /\ life' \in Seq({"boot", "run", "dead"}) /\ owner' \in Seq(Caller) /\ Len(owner') = Len(life')
          /\ DOMAIN life' = DOMAIN life \cup {n} /\ n \notin DOMAIN life /\ n \in Nat
          /\ life'[n] = "boot" /\ owner'[n] = c
          /\ \A j \in DOMAIN life : life'[j] = life[j] /\ owner'[j] = owner[j]
      BY <1>10 DEF LauncherTypes
    <2>2. services' = services \cup {n} /\ instance' = instance \cup {n} /\ result' = result
      BY <1>10
    <2> HIDE DEF n
    <2>3. \A m \in Msgs(q') : Proper(m, DOMAIN life')
      <3>1. \A j \in DOMAIN life : j \in DOMAIN life'
        BY Zenon, <2>1
      <3> QED BY Zenon, <1>6, <3>1 DEF Proper
    <2>4. LauncherTypes'
      BY Zenon, <1>1, <1>8, <2>1, <2>2, <2>3 DEF LauncherTypes
    <2>5. LauncherOwes'
      BY <1>2, <1>3, <1>5, <1>7, <1>8, <2>1, <2>2 DEF LauncherOwes
    <2>6. ASSUME LauncherLists PROVE LauncherLists'
      <3>1. \A cmd \in Answers : Report(cmd, n) \notin Msgs(q')
        BY <1>6, <2>1, MessagesDiffer DEF Proper
      <3> QED BY <1>4, <1>7, <1>8, <2>1, <2>2, <2>6, <3>1 DEF LauncherLists, Told
    <2> QED BY Zenon, <2>4, <2>5, <2>6
  <1> QED BY Zenon, <1>9, <1>10 DEF LAUNCH

\* KILL ends a service and sends the launcher the report of it.
LEMMA KillKeeps ==
    ASSUME LauncherInv, q # <<>>, NEW i \in DOMAIN life, Head(q) = Report("KILL", i), KILL(i)
    PROVE  LauncherInv' /\ (LauncherLists => LauncherLists')
  <1> USE DEF LauncherInv
  <1>1. /\ Tail(q) \in Seq(Msgs(Tail(q)))
        /\ \A m : m \in Msgs(q) <=> m \in Msgs(Tail(q)) \/ m = Head(q)
        /\ \A m : Single(q, m) => Single(Tail(q), m)
    BY Zenon, FirstTaken DEF LauncherTypes
  <1>2. q' = Append(Tail(q), Report("REMOVE_KILLED", i))
    BY Zenon DEF KILL
  <1>3. /\ q' \in Seq(Msgs(q'))
        /\ \A m : m \in Msgs(q') <=> m \in Msgs(Tail(q)) \/ m = Report("REMOVE_KILLED", i)
        /\ \A m : Single(Tail(q), m) /\ m # Report("REMOVE_KILLED", i) => Single(q', m)
    BY Zenon, <1>1, <1>2, Added
  <1>4. /\ "REMOVE_KILLED" \in Ends /\ "REMOVE_KILLED" \in Answers \cup {"KILL"}
        /\ "KILL" \in Answers \cup {"KILL"} /\ "KILL" \notin Answers /\ Ends \subseteq Answers
    BY DEF Ends, Answers
  <1>5. \A c \in Caller : Launch(c) # Report("REMOVE_KILLED", i) /\ Launch(c) # Head(q)
    BY <1>4, MessagesDiffer
  <1>6. \A c \in Caller : (Launch(c) \in Msgs(q') <=> Launch(c) \in Msgs(q)) /\ Single(q', Launch(c))
    BY Zenon, <1>1, <1>3, <1>5 DEF LauncherOwes
  <1>7. \A cmd \in Answers, j \in DOMAIN life :
           Report(cmd, j) \in Msgs(q') <=> \/ Report(cmd, j) \in Msgs(q)
                                             \/ (cmd = "REMOVE_KILLED" /\ j = i)
    <2>1. \A cmd \in Answers, j \in DOMAIN life : Report(cmd, j) # Head(q)
      BY <1>4, MessagesDiffer
    <2>2. \A cmd \in Answers, j \in DOMAIN life :
             Report(cmd, j) = Report("REMOVE_KILLED", i) <=> cmd = "REMOVE_KILLED" /\ j = i
      BY MessagesDiffer
    <2> SUFFICES ASSUME NEW cmd \in Answers, NEW j \in DOMAIN life
                 PROVE  Report(cmd, j) \in Msgs(q') <=> \/ Report(cmd, j) \in Msgs(q)
                                                          \/ (cmd = "REMOVE_KILLED" /\ j = i)
      BY Zenon
    <2>3. Report(cmd, j) \in Msgs(q) <=> Report(cmd, j) \in Msgs(Tail(q))
      BY Zenon, <1>1, <2>1
    <2>4. Report(cmd, j) \in Msgs(q') <=> \/ Report(cmd, j) \in Msgs(Tail(q))
                                            \/ Report(cmd, j) = Report("REMOVE_KILLED", i)
      BY Zenon, <1>3
    <2> QED BY <2>2, <2>3, <2>4
  <1>8. /\ life' \in Seq({"boot", "run", "dead"}) /\ Len(life') = Len(life) /\ DOMAIN life' = DOMAIN life
        /\ \A j \in DOMAIN life : life'[j] = IF j = i THEN "dead" ELSE life[j]
    BY DEF LauncherTypes, KILL
  <1>9. services' = services \ {i} /\ result' = result /\ owner' = owner /\ instance' = instance
    BY DEF KILL
  <1>10. services \subseteq DOMAIN life /\ instance \subseteq DOMAIN life
    BY Zenon DEF LauncherTypes
  <1>11. \A j \in DOMAIN life : owner[j] \in Caller
    BY DEF LauncherTypes
  <1>12. LauncherTypes'
    <2>1. \A m \in Msgs(q') : Proper(m, DOMAIN life')
      <3>1. Proper(Report("REMOVE_KILLED", i), DOMAIN life)
        BY Zenon, <1>4 DEF Proper
      <3> QED BY Zenon, <3>1, <1>1, <1>3, <1>8 DEF LauncherTypes
    <2> QED BY <2>1, <1>3, <1>8, <1>9, <1>10 DEF LauncherTypes
  <1>13. LauncherOwes'
    BY <1>6, <1>9, <1>10, <1>11 DEF LauncherOwes
  <1>14. ASSUME LauncherLists PROVE LauncherLists'
    <2>1. \A j \in DOMAIN life' : life'[j] # "dead" => j \in services' /\ ~Told(j, Ends)'
      BY <1>4, <1>7, <1>8, <1>9, <1>14 DEF LauncherLists, Told
    <2>2. \A j \in services' : life'[j] = "dead" => Told(j, Ends)'
      <3> SUFFICES ASSUME NEW j \in services, j # i, life'[j] = "dead"
                   PROVE  \E cmd \in Ends : Report(cmd, j) \in Msgs(q')
        BY Zenon, <1>9 DEF Told
      <3>1. life[j] = "dead" /\ j \in DOMAIN life
        BY Zenon, <1>8, <1>10
      <3>2. PICK cmd \in Ends : Report(cmd, j) \in Msgs(q)
        BY Zenon, <3>1, <1>14 DEF LauncherLists, Told
      <3> QED BY <3>1, <3>2, <1>4, <1>7
    <2>3. \A j \in instance' : life'[j] # "boot" => Told(j, Answers)'
      <3> SUFFICES ASSUME NEW j \in instance, life'[j] # "boot"
                   PROVE  \E cmd \in Answers : Report(cmd, j) \in Msgs(q')
        BY Zenon, <1>9 DEF Told
      <3>1. j \in DOMAIN life /\ (j # i => life[j] # "boot")
        BY Zenon, <1>8, <1>10
      <3>2. CASE j = i
        BY Zenon, <3>1, <3>2, <1>4, <1>7
      <3>3. CASE j # i
        <4>1. PICK cmd \in Answers : Report(cmd, j) \in Msgs(q)
          BY Zenon, <3>1, <3>3, <1>14 DEF LauncherLists, Told
        <4> QED BY <3>1, <4>1, <1>7
      <3> QED BY Zenon, <3>2, <3>3
    <2> QED BY Zenon, <2>1, <2>2, <2>3 DEF LauncherLists
  <1> QED BY Zenon, <1>12, <1>13, <1>14

\* A message that changes nothing else is queued: the console's KILL.
LEMMA AskKillKeeps ==
    ASSUME LauncherInv, NEW i \in DOMAIN life, ConsoleKill(i)
    PROVE  LauncherInv' /\ (LauncherLists => LauncherLists')
  <1> USE DEF LauncherInv
  <1>1. /\ q' = Append(q, Report("KILL", i)) /\ result' = result /\ life' = life
        /\ owner' = owner /\ services' = services /\ instance' = instance
    BY Zenon DEF ConsoleKill
  <1>2. "KILL" \in Answers \cup {"KILL"} /\ "KILL" \notin Answers /\ Ends \subseteq Answers
    BY DEF Ends, Answers
  <1>3. /\ q' \in Seq(Msgs(q')) /\ \A m : m \in Msgs(q') <=> m \in Msgs(q) \/ m = Report("KILL", i)
        /\ \A m : Single(q, m) /\ m # Report("KILL", i) => Single(q', m)
    BY Zenon, <1>1, Added DEF LauncherTypes
  <1>4. \A c \in Caller : Launch(c) # Report("KILL", i)
    BY <1>2, MessagesDiffer
  <1>5. \A j : \A cmd \in Answers : Report(cmd, j) \in Msgs(q') <=> Report(cmd, j) \in Msgs(q)
    BY <1>2, <1>3, MessagesDiffer
  <1>6. LauncherTypes'
    <2>1. Proper(Report("KILL", i), DOMAIN life)
      BY Zenon, <1>2 DEF Proper
    <2>2. \A m \in Msgs(q') : Proper(m, DOMAIN life')
      BY Zenon, <2>1, <1>1, <1>3 DEF LauncherTypes
    <2> QED BY <2>2, <1>1, <1>3 DEF LauncherTypes
  <1>7. LauncherOwes'
    <2>1. \A j \in instance : owner[j] \in Caller
      BY DEF LauncherTypes
    <2> QED BY <2>1, <1>1, <1>3, <1>4 DEF LauncherOwes
  <1>8. ASSUME LauncherLists PROVE LauncherLists'
    BY <1>1, <1>2, <1>5, <1>8 DEF LauncherLists, Told
  <1> QED BY Zenon, <1>6, <1>7, <1>8

\* A caller sends LAUNCH and waits.
LEMMA NewserviceKeeps ==
    ASSUME LauncherInv, NEW c \in Caller, newservice(c)
    PROVE  LauncherInv' /\ (LauncherLists => LauncherLists')
  <1> USE DEF LauncherInv
  <1>1. /\ q' = Append(q, Launch(c)) /\ life' = life /\ result[c] = "idle"
        /\ owner' = owner /\ services' = services /\ instance' = instance
    BY Zenon DEF newservice, Launch
  <1>2. /\ result' \in [Caller -> {"idle", "waiting", "ok", "nil", "error"}]
        /\ \A d \in Caller : result'[d] = IF d = c THEN "waiting" ELSE result[d]
    BY DEF newservice, LauncherTypes
  <1>3. /\ q' \in Seq(Msgs(q')) /\ \A m : m \in Msgs(q') <=> m \in Msgs(q) \/ m = Launch(c)
        /\ \A m : Single(q, m) /\ (m = Launch(c) => m \notin Msgs(q)) => Single(q', m)
    BY Zenon, <1>1, Added DEF LauncherTypes
  <1>4. Launch(c) \notin Msgs(q) /\ \A i \in instance : owner[i] # c
    BY <1>1 DEF LauncherOwes
  <1>5. \A d \in Caller : Launch(d) \in Msgs(q') <=> Launch(d) \in Msgs(q) \/ d = c
    BY <1>3, MessagesDiffer
  <1>6. \A j : \A cmd \in Answers : Report(cmd, j) \in Msgs(q') <=> Report(cmd, j) \in Msgs(q)
    BY <1>3, MessagesDiffer
  <1>7. \A d \in Caller : Single(q', Launch(d))
    BY Zenon, <1>3, <1>4 DEF LauncherOwes
  <1>8. LauncherTypes'
    <2>1. Proper(Launch(c), DOMAIN life)
      BY Zenon DEF Proper
    <2>2. \A m \in Msgs(q') : Proper(m, DOMAIN life')
      BY Zenon, <2>1, <1>1, <1>3 DEF LauncherTypes
    <2> QED BY <2>2, <1>1, <1>2, <1>3 DEF LauncherTypes
  <1>9. LauncherOwes'
    <2>1. \A j \in instance : owner[j] \in Caller
      BY DEF LauncherTypes
    <2> QED BY <2>1, <1>1, <1>2, <1>4, <1>5, <1>7 DEF LauncherOwes
  <1>10. ASSUME LauncherLists PROVE LauncherLists'
    <2>1. Ends \subseteq Answers
      BY Zenon DEF Answers
    <2> QED BY <2>1, <1>1, <1>6, <1>10 DEF LauncherLists, Told
  <1> QED BY Zenon, <1>8, <1>9, <1>10

\* A service that reports a change of its life.
LEMMA LifeKeeps ==
    ASSUME LauncherInv, NEW i \in DOMAIN life, \/ InitOk(i) \/ InitFailed(i) \/ LoadFailed(i)
                                              \/ Exit(i) \/ Kill(i) \/ KillNamed(i)
    PROVE  LauncherInv' /\ (~ByName /\ LauncherLists => LauncherLists')
  <1> DEFINE R(cmd) == Report(cmd, i)
  <1>1. q \in Seq(Msgs(q)) /\ \A c \in Caller : Single(q, Launch(c))
    BY Zenon DEF LauncherInv, LauncherTypes, LauncherOwes
  <1>2. /\ "LAUNCH_OK" \in Answers /\ "ERROR" \in Ends /\ "REMOVE" \in Ends /\ "REMOVE_KILLED" \in Ends
        /\ Ends \subseteq Answers
    BY DEF Ends, Answers
  <1>3. \A c \in Caller, cmd \in Answers : Launch(c) # R(cmd)
    BY MessagesDiffer
  <1> HIDE DEF R
  <1>4. ASSUME NEW l \in {"run", "dead"}, NEW cmd \in Answers, Becomes(i, l, <<R(cmd)>>),
               l = "run" => life[i] = "boot" /\ cmd = "LAUNCH_OK", l = "dead" => cmd \in Ends
        PROVE  LauncherInv' /\ (LauncherLists => LauncherLists')
    <2>1. q' = Append(q, R(cmd))
      BY Zenon, <1>1, <1>4, Sent DEF Becomes
    <2>2. /\ q' \in Seq(Msgs(q')) /\ \A m : m \in Msgs(q') <=> m \in Msgs(q) \/ m = R(cmd)
          /\ \A c \in Caller : Single(q', Launch(c))
      BY Zenon, <1>1, <1>3, <2>1, Added
    <2>3. \A m : m \in Msgs(q') <=> m \in Msgs(q) \/ \E com \in {cmd} : m = Report(com, i)
      BY Zenon, <2>2 DEF R
    <2>4. /\ life[i] # "dead" /\ life' = [life EXCEPT ![i] = l]
          /\ UNCHANGED <<result, owner, services, instance>>
      BY Zenon, <1>4 DEF Becomes, Alive
    <2>5. {cmd} \in SUBSET Answers /\ cmd \in {cmd}
      BY Zenon, <1>4
    <2>6. l = "run" => life[i] = "boot" /\ {cmd} = {"LAUNCH_OK"}
      BY Zenon, <1>4
    <2> HIDE DEF R
    <2>7. LauncherInv' /\ (LauncherLists /\ (l = "dead" => \E com \in Ends : com \in {cmd}) => LauncherLists')
      BY Zenon, <1>4, <2>2, <2>3, <2>4, <2>5, <2>6, BecomesKeeps
    <2> QED BY Zenon, <1>4, <2>5, <2>7
  <1>5. ASSUME Becomes(i, "dead", <<R("ERROR"), R("REMOVE")>>)
        PROVE  LauncherInv' /\ (LauncherLists => LauncherLists')
    <2> DEFINE p == Append(q, R("ERROR"))
    <2>1. q' = Append(p, R("REMOVE"))
      <3>1. q' = q \o <<R("ERROR"), R("REMOVE")>>
        BY Zenon, <1>5 DEF Becomes
      <3> QED BY <1>1, <3>1
    <2>2. /\ p \in Seq(Msgs(p)) /\ \A m : m \in Msgs(p) <=> m \in Msgs(q) \/ m = R("ERROR")
          /\ \A c \in Caller : Single(p, Launch(c))
      BY Zenon, <1>1, <1>2, <1>3, Added
    <2> HIDE DEF p
    <2>3. /\ q' \in Seq(Msgs(q')) /\ \A m : m \in Msgs(q') <=> m \in Msgs(p) \/ m = R("REMOVE")
          /\ \A c \in Caller : Single(q', Launch(c))
      BY Zenon, <1>2, <1>3, <2>1, <2>2, Added
    <2>4. \A m : m \in Msgs(q') <=> m \in Msgs(q) \/ \E com \in {"ERROR", "REMOVE"} : m = Report(com, i)
      BY Zenon, <2>2, <2>3 DEF R
    <2>5. /\ life[i] # "dead" /\ life' = [life EXCEPT ![i] = "dead"]
          /\ UNCHANGED <<result, owner, services, instance>>
      BY Zenon, <1>5 DEF Becomes, Alive
    <2>6. {"ERROR", "REMOVE"} \in SUBSET Answers
      BY Zenon, <1>2
    <2> QED BY <1>2, <2>3, <2>4, <2>5, <2>6, BecomesKeeps
  <1>6. ASSUME Becomes(i, "dead", <<>>) PROVE LauncherInv'
    <2>1. q' = q
      BY Zenon, <1>1, <1>6, Sent DEF Becomes
    <2>2. /\ life[i] # "dead" /\ life' = [life EXCEPT ![i] = "dead"]
          /\ UNCHANGED <<result, owner, services, instance>>
      BY Zenon, <1>6 DEF Becomes, Alive
    <2>3. \A m : m \in Msgs(q') <=> m \in Msgs(q) \/ \E com \in {} : m = Report(com, i)
      BY Zenon, <2>1
    <2>4. q' \in Seq(Msgs(q')) /\ \A c \in Caller : Single(q', Launch(c))
      BY Zenon, <1>1, <2>1
    <2>5. {} \in SUBSET Answers /\ "dead" \in {"run", "dead"} /\ "dead" # "run"
      OBVIOUS
    <2> QED BY Zenon, <2>2, <2>3, <2>4, <2>5, BecomesKeeps
  <1>7. CASE InitOk(i)
    BY <1>2, <1>4, <1>7 DEF InitOk, R
  <1>8. CASE InitFailed(i)
    BY Zenon, <1>5, <1>8 DEF InitFailed, R
  <1>9. CASE LoadFailed(i)
    BY <1>2, <1>4, <1>9 DEF LoadFailed, R
  <1>10. CASE Exit(i)
    BY <1>2, <1>4, <1>10 DEF Exit, R
  <1>11. CASE Kill(i)
    BY <1>2, <1>4, <1>11 DEF Kill, R
  <1>12. CASE KillNamed(i)
    BY Zenon, <1>6, <1>12 DEF KillNamed
  <1> QED BY Zenon, <1>7, <1>8, <1>9, <1>10, <1>11, <1>12

\* Every step of the launcher, its callers and its services.
LEMMA LauncherStep ==
    ASSUME LauncherInv, [Next]_vars
    PROVE  LauncherInv' /\ (~ByName /\ LauncherLists => LauncherLists')
  <1>1. CASE Handle
    <2>1. q # <<>> /\ q \in Seq(Msgs(q)) /\ \A m \in Msgs(q) : Proper(m, DOMAIN life)
      BY Zenon, <1>1 DEF Handle, LauncherInv, LauncherTypes
    <2>2. Head(q) \in Msgs(q)
      BY Zenon, <2>1, FirstTaken
    <2>3. CASE \E c \in Caller : Head(q) = Launch(c)
      <3>1. PICK c \in Caller : Head(q) = Launch(c)
        BY Zenon, <2>3
      <3>2. Head(q).cmd = "LAUNCH" /\ Head(q).caller = c
        BY <3>1, MessagesDiffer
      <3>3. LAUNCH(c) /\ q' = Tail(q)
        BY <1>1, <3>2 DEF Handle, LAUNCH
      <3> QED BY Zenon, <2>1, <3>1, <3>3, LaunchKeeps
    <2>4. CASE \E cmd \in Answers \cup {"KILL"}, i \in DOMAIN life : Head(q) = Report(cmd, i)
      <3>1. PICK cmd \in Answers \cup {"KILL"}, i \in DOMAIN life : Head(q) = Report(cmd, i)
        BY Zenon, <2>4
      <3>2. Head(q).cmd = cmd /\ Head(q).svc = i
        BY <3>1, MessagesDiffer
      <3>3. CASE cmd = "KILL"
        <4>1. KILL(i)
          BY <1>1, <3>2, <3>3 DEF Handle
        <4> QED BY Zenon, <2>1, <3>1, <3>3, <4>1, KillKeeps
      <3>4. CASE cmd \in Answers
        <4>1. /\ q' = Tail(q) /\ UNCHANGED <<life, owner>>
              /\ services' = IF cmd = "LAUNCH_OK" THEN services ELSE services \ {i}
              /\ \E r \in {"ok", "nil", "error"} : Answer(i, r)
          <5>1. CASE cmd = "LAUNCH_OK"
            BY <1>1, <3>2, <5>1 DEF Handle, LAUNCH_OK
          <5>2. CASE cmd = "ERROR"
            BY <1>1, <3>2, <5>2 DEF Handle, ERROR, Unlisted
          <5>3. CASE cmd = "REMOVE"
            BY <1>1, <3>2, <5>3 DEF Handle, REMOVE
          <5>4. CASE cmd = "REMOVE_KILLED"
            BY <1>1, <3>2, <5>4 DEF Handle, REMOVE
          <5> QED BY Zenon, <3>4, <5>1, <5>2, <5>3, <5>4 DEF Answers, Ends
        <4>2. PICK r \in {"ok", "nil", "error"} : Answer(i, r)
          BY Zenon, <4>1
        <4> QED BY Zenon, <2>1, <3>1, <3>4, <4>1, <4>2, AnswerKeeps
      <3> QED BY Zenon, <3>3, <3>4
    <2> QED BY Zenon, <2>1, <2>2, <2>3, <2>4 DEF Proper
  <1>2. CASE \E c \in Caller : newservice(c)
    BY Zenon, <1>2, NewserviceKeeps
  <1>3. CASE \E i \in DOMAIN life : \/ InitOk(i) \/ InitFailed(i) \/ LoadFailed(i) \/ Exit(i)
                                   \/ Kill(i) \/ KillNamed(i)
    BY Zenon, <1>3, LifeKeeps
  <1>4. CASE \E i \in DOMAIN life : ConsoleKill(i)
    BY Zenon, <1>4, AskKillKeeps
  <1>5. CASE UNCHANGED vars
    <2>1. /\ q' = q /\ result' = result /\ life' = life
          /\ owner' = owner /\ services' = services /\ instance' = instance
      BY Zenon, <1>5 DEF vars
    <2> QED BY <2>1 DEF LauncherInv, LauncherTypes, LauncherOwes, LauncherLists, Told
  <1> QED BY Zenon, <1>1, <1>2, <1>3, <1>4, <1>5 DEF Next

\* No service and no message at first.
LEMMA LauncherStart ==
    ASSUME Init
    PROVE  LauncherInv /\ LauncherLists
  <1>1. q = <<>> /\ life = <<>> /\ owner = <<>> /\ services = {} /\ instance = {}
        /\ result = [c \in Caller |-> "idle"]
    BY Zenon DEF Init
  <1>2. Msgs(q) = {} /\ DOMAIN life = {} /\ DOMAIN q = {}
    BY <1>1 DEF Msgs
  <1> QED BY <1>1, <1>2 DEF LauncherInv, LauncherTypes, LauncherOwes, LauncherLists, Told, Single

\* The launcher answers each call of skynet.newservice once, in every order of the
\* reports, exits and kills of the services it starts.
THEOREM LauncherAnswersOnce == Spec => []OwedOnce
  <1>1. LauncherInv => OwedOnce
    BY Zenon DEF LauncherInv, LauncherOwes, OwedOnce
  <1> QED BY <1>1, LauncherStart, LauncherStep, PTL DEF Spec

\* When all its messages are handled the launcher lists the services that are
\* alive and owes answers only for those that initialise, if none is killed by name.
THEOREM LauncherKnowsTheLiving ==
    ASSUME ~ByName
    PROVE  Spec => []ListsLiving
  <1>1. LauncherInv /\ LauncherLists => ListsLiving
    <2> SUFFICES ASSUME LauncherInv, LauncherLists, q = <<>> PROVE ListsLiving
      BY Zenon DEF ListsLiving
    <2>1. Msgs(q) = {}
      BY DEF Msgs
    <2>2. services = {i \in DOMAIN life : Alive(i)}
      BY Zenon, <2>1 DEF LauncherInv, LauncherTypes, LauncherLists, Told, Alive
    <2>3. ASSUME NEW c \in Caller, result[c] = "waiting"
          PROVE  \E i \in DOMAIN life : owner[i] = c /\ life[i] = "boot"
      BY Zenon, <2>1, <2>3 DEF LauncherInv, LauncherTypes, LauncherOwes, LauncherLists, Told
    <2> QED BY Zenon, <2>2, <2>3 DEF ListsLiving
  <1>2. LauncherInv /\ LauncherLists /\ [Next]_vars => (LauncherInv /\ LauncherLists)'
    BY Zenon, LauncherStep
  <1> QED BY <1>1, <1>2, LauncherStart, PTL DEF Spec

-----------------------------------------------------------------------------
(***************************************************************************)
(* The DNS client, whatever the number of queries, of transaction ids and  *)
(* the two timeouts, as long as the one of a request is not the longer.    *)
(***************************************************************************)
CONSTANTS Query, Name, Hosts, Type, MaxTid, TIMEOUT, DNS_SERVER_RETIRE, TTL, MaxNow

VARIABLES now, stage, key, tid, outcome, request_pool, next_tid, cache, sent, open, retire, check, timers

DN == INSTANCE Dns WITH pc <- stage, result <- outcome, asked <- sent

\* The queries are numbered from 1 (0 is nobody), and TIMEOUT (30 s) is no longer
\* than DNS_SERVER_RETIRE (60 s).
DnsConstants ==
    /\ Query \subseteq Nat \ {0} /\ MaxTid \in Nat
    /\ TIMEOUT \in Nat /\ DNS_SERVER_RETIRE \in Nat /\ TIMEOUT <= DNS_SERVER_RETIRE

DnsTypes ==
    /\ now \in Nat /\ retire \in Nat /\ retire <= now
    /\ stage \in [Query -> {"idle", "wait", "done"}]
    /\ key \in [Query -> DN!Key \cup {<<>>}]
    /\ tid \in [Query -> 0 .. MaxTid]
    /\ outcome \in [Query -> DN!Key \cup {<<>>}]
    /\ request_pool \in [DN!Tid -> Query \cup {0}]
    /\ timers \subseteq [tid : DN!Tid, at : Nat] /\ \A a \in sent : a.tid \in DN!Tid
    /\ \A k \in DN!Key : cache[k].of \in {k, <<>>}

\* The pool has the queries that wait, under their transaction ids, and each has a
\* timer that is not after the last use of the socket by more than TIMEOUT.
PoolExact ==
    /\ \A x \in Query : stage[x] = "wait" =>
          /\ tid[x] \in DN!Tid /\ request_pool[tid[x]] = x /\ key[x] \in DN!Key
          /\ \E m \in timers : m.tid = tid[x] /\ m.at <= retire + TIMEOUT
    /\ \A t \in DN!Tid : request_pool[t] # 0 =>
          stage[request_pool[t]] = "wait" /\ tid[request_pool[t]] = t

DnsInv == DnsTypes /\ PoolExact /\ DN!OpenWhileWaiting /\ DN!OwnName

-----------------------------------------------------------------------------
\* A free transaction id is found when there is one.
LEMMA FreeIdFound ==
    ASSUME NEW free, free \subseteq Nat, free # {}
    PROVE  DN!gen_tid(free) \in free
  <1> DEFINE Less == OpToRel(<, Nat)
  <1>1. \E t \in free : \A u \in free : t <= u
    <2>1. PICK t \in free : \A u \in free : ~(<<u, t>> \in Less)
      <3>1. IsWellFoundedOn(Less, Nat)
        BY Zenon, NatLessThanWellFounded
      <3> HIDE DEF Less
      <3> QED BY Zenon, <3>1, WFMin
    <2>2. \A u \in free : ~(u < t)
      BY Zenon, <2>1 DEF OpToRel
    <2> QED BY <2>2
  <1> QED BY Zenon, <1>1 DEF DN!gen_tid

\* suspend returns: the query of a transaction id is done, the timer m is spent or
\* still to come.
LEMMA WokenKeeps ==
    ASSUME DnsInv, DnsConstants, NEW t \in DN!Tid, request_pool[t] # 0,
           NEW c, \A k \in DN!Key : c[k].of \in {k, <<>>}, cache' = c,
           NEW answers, answers \in {key[request_pool[t]], <<>>}, DN!Woken(t, c, answers),
           timers' \subseteq timers, \A m \in timers : m.tid # t => m \in timers',
           UNCHANGED <<now, key, sent, open, retire>>
    PROVE  DnsInv'
  <1> USE DEF DnsInv
  <1> DEFINE x == request_pool[t]
             r == IF answers # <<>> THEN answers ELSE c[key[x]].of
  <1>1. /\ x \in Query /\ stage[x] = "wait" /\ tid[x] = t /\ key[x] \in DN!Key
    <2>1. x \in Query
      BY Zenon DEF DnsTypes
    <2>2. stage[x] = "wait" /\ tid[x] = t
      BY Zenon DEF PoolExact
    <2> QED BY Zenon, <2>1, <2>2 DEF PoolExact
  <1>2. r \in {key[x], <<>>}
    BY Zenon, <1>1
  <1>3. /\ request_pool' = [request_pool EXCEPT ![t] = 0] /\ tid' = [tid EXCEPT ![x] = 0]
        /\ stage' = [stage EXCEPT ![x] = "done"] /\ outcome' = [outcome EXCEPT ![x] = r]
    BY Zenon DEF DN!Woken, DN!Return
  <1>4. now' = now /\ key' = key /\ sent' = sent /\ open' = open /\ retire' = retire
    OBVIOUS
  <1> HIDE DEF x, r
  <1>5. /\ request_pool' \in [DN!Tid -> Query \cup {0}] /\ request_pool'[t] = 0
        /\ \A u \in DN!Tid : u # t => request_pool'[u] = request_pool[u]
    BY <1>3 DEF DnsTypes
  <1>6. /\ tid' \in [Query -> 0 .. MaxTid] /\ stage' \in [Query -> {"idle", "wait", "done"}]
        /\ outcome' \in [Query -> DN!Key \cup {<<>>}]
        /\ stage'[x] = "done" /\ outcome'[x] = r
        /\ \A y \in Query : y # x => tid'[y] = tid[y] /\ stage'[y] = stage[y] /\ outcome'[y] = outcome[y]
    BY <1>1, <1>2, <1>3 DEF DnsTypes, DnsConstants
  <1>7. DnsTypes'
    BY <1>4, <1>5, <1>6 DEF DnsTypes, DN!Key, DN!Tid
  <1>8. \A y \in Query : y # x /\ stage[y] = "wait" => tid[y] # t
    BY Zenon, <1>1 DEF PoolExact, x
  <1>9. PoolExact'
    <2>1. ASSUME NEW y \in Query, stage'[y] = "wait"
          PROVE  /\ tid'[y] \in DN!Tid /\ request_pool'[tid'[y]] = y /\ key'[y] \in DN!Key
                 /\ \E m \in timers' : m.tid = tid'[y] /\ m.at <= retire' + TIMEOUT
      <3>1. y # x /\ stage[y] = "wait" /\ tid'[y] = tid[y] /\ tid[y] # t
        BY Zenon, <1>6, <1>8, <2>1
      <3>2. /\ tid[y] \in DN!Tid /\ request_pool[tid[y]] = y /\ key[y] \in DN!Key
            /\ \E m \in timers : m.tid = tid[y] /\ m.at <= retire + TIMEOUT
        BY Zenon, <3>1 DEF PoolExact
      <3>3. \E m \in timers' : m.tid = tid[y] /\ m.at <= retire + TIMEOUT
        BY Zenon, <3>1, <3>2
      <3> QED BY Zenon, <1>4, <1>5, <3>1, <3>2, <3>3
    <2>2. ASSUME NEW u \in DN!Tid, request_pool'[u] # 0
          PROVE  stage'[request_pool'[u]] = "wait" /\ tid'[request_pool'[u]] = u
      <3>1. u # t /\ request_pool'[u] = request_pool[u]
        BY <1>5, <2>2
      <3>2. /\ stage[request_pool[u]] = "wait" /\ tid[request_pool[u]] = u /\ request_pool[u] # x
            /\ request_pool[u] \in Query
        BY <1>1, <2>2, <3>1 DEF PoolExact, DnsTypes
      <3> QED BY <1>6, <3>1, <3>2
    <2> QED BY Zenon, <2>1, <2>2 DEF PoolExact, DN!Tid, DN!Key
  <1>10. DN!OpenWhileWaiting'
    BY <1>1, <1>4, <1>6 DEF DN!OpenWhileWaiting
  <1>11. DN!OwnName'
    BY <1>2, <1>4, <1>6 DEF DN!OwnName
  <1> QED BY Zenon, <1>7, <1>9, <1>10, <1>11

\* Every step of the queries, the socket and the timers.
LEMMA DnsStep ==
    ASSUME DnsInv, DnsConstants, [DN!Next]_DN!vars
    PROVE  DnsInv'
  <1> USE DEF DnsInv
  <1>1. ASSUME NEW x \in Query, NEW k \in DN!Key, DN!ResolveHere(x, k) PROVE DnsInv'
    <2> DEFINE r == IF k \in Hosts THEN k ELSE cache[k].of
    <2>1. /\ stage[x] = "idle" /\ stage' = [stage EXCEPT ![x] = "done"]
          /\ outcome' = [outcome EXCEPT ![x] = r] /\ key' = [key EXCEPT ![x] = k]
          /\ now' = now /\ tid' = tid /\ request_pool' = request_pool /\ cache' = cache
          /\ sent' = sent /\ open' = open /\ retire' = retire /\ timers' = timers
      BY Zenon, <1>1 DEF DN!ResolveHere, DN!Starts, DN!Return
    <2>2. r \in {k, <<>>}
      BY DEF DnsTypes
    <2> HIDE DEF r
    <2>3. /\ stage' \in [Query -> {"idle", "wait", "done"}] /\ outcome' \in [Query -> DN!Key \cup {<<>>}]
          /\ key' \in [Query -> DN!Key \cup {<<>>}]
          /\ stage'[x] = "done" /\ outcome'[x] = r /\ key'[x] = k
          /\ \A y \in Query : y # x => stage'[y] = stage[y] /\ outcome'[y] = outcome[y] /\ key'[y] = key[y]
      BY Zenon, <2>1, <2>2 DEF DnsTypes
    <2>4. DnsTypes'
      BY Zenon, <2>1, <2>3 DEF DnsTypes, DN!Key, DN!Tid
    <2>5. PoolExact'
      <3>1. \A t \in DN!Tid : request_pool[t] # 0 => request_pool[t] \in Query /\ request_pool[t] # x
        BY <2>1 DEF PoolExact, DnsTypes
      <3> QED BY <2>1, <2>3, <3>1 DEF PoolExact, DN!Key, DN!Tid
    <2>6. DN!OpenWhileWaiting' /\ DN!OwnName'
      BY <2>1, <2>2, <2>3 DEF DN!OpenWhileWaiting, DN!OwnName
    <2> QED BY Zenon, <2>4, <2>5, <2>6
  <1>2. ASSUME NEW x \in Query, NEW k \in DN!Key, NEW ok \in BOOLEAN, DN!remote_resolve(x, k, ok) PROVE DnsInv'
    <2> DEFINE free == {u \in DN!Tid : request_pool[u] = 0}
               t == DN!gen_tid(free)
    <2>1. /\ stage[x] = "idle" /\ key' = [key EXCEPT ![x] = k] /\ now' = now /\ cache' = cache
      BY Zenon, <1>2 DEF DN!remote_resolve, DN!Starts
    <2>2. /\ key' \in [Query -> DN!Key \cup {<<>>}] /\ key'[x] = k
          /\ \A y \in Query : y # x => key'[y] = key[y]
      BY <2>1 DEF DnsTypes
    <2>3. \A u \in DN!Tid : request_pool[u] # 0 => request_pool[u] \in Query /\ request_pool[u] # x
      BY <2>1 DEF PoolExact, DnsTypes
    <2>4. CASE /\ stage' = [stage EXCEPT ![x] = "done"] /\ outcome' = [outcome EXCEPT ![x] = <<>>]
               /\ tid' = tid /\ request_pool' = request_pool /\ timers' = timers /\ open' = open
               /\ sent' = sent /\ retire' \in {retire, now}
      <3>1. /\ stage' \in [Query -> {"idle", "wait", "done"}] /\ outcome' \in [Query -> DN!Key \cup {<<>>}]
            /\ stage'[x] = "done" /\ outcome'[x] = <<>>
            /\ \A y \in Query : y # x => stage'[y] = stage[y] /\ outcome'[y] = outcome[y]
        BY <2>4 DEF DnsTypes
      <3>2. retire' \in Nat /\ retire' <= now /\ retire <= retire' /\ retire \in Nat
        BY <2>4 DEF DnsTypes
      <3>3. DnsTypes'
        BY <2>1, <2>2, <2>4, <3>1, <3>2 DEF DnsTypes, DN!Key, DN!Tid
      <3>4. PoolExact'
        <4>1. ASSUME NEW y \in Query, stage'[y] = "wait"
              PROVE  /\ tid'[y] \in DN!Tid /\ request_pool'[tid'[y]] = y /\ key'[y] \in DN!Key
                     /\ \E m \in timers' : m.tid = tid'[y] /\ m.at <= retire' + TIMEOUT
          <5>1. y # x /\ stage[y] = "wait" /\ key'[y] = key[y]
            BY <2>2, <3>1, <4>1
          <5>2. PICK m \in timers : m.tid = tid[y] /\ m.at <= retire + TIMEOUT
            BY Zenon, <5>1 DEF PoolExact
          <5>3. m.at <= retire' + TIMEOUT
            BY <5>2, <3>2 DEF DnsTypes, DnsConstants
          <5>4. tid[y] \in DN!Tid /\ request_pool[tid[y]] = y /\ key[y] \in DN!Key
            BY Zenon, <5>1 DEF PoolExact
          <5> QED BY <2>4, <5>1, <5>2, <5>3, <5>4
        <4>2. \A u \in DN!Tid : request_pool'[u] # 0 =>
                 stage'[request_pool'[u]] = "wait" /\ tid'[request_pool'[u]] = u
          BY <2>3, <2>4, <3>1 DEF PoolExact
        <4> QED BY Zenon, <4>1, <4>2 DEF PoolExact, DN!Tid, DN!Key
      <3>5. DN!OpenWhileWaiting' /\ DN!OwnName'
        BY <2>2, <2>4, <3>1 DEF DN!OpenWhileWaiting, DN!OwnName
      <3> QED BY Zenon, <3>3, <3>4, <3>5
    <2>5. CASE /\ free # {} /\ open' = TRUE /\ retire' = now /\ outcome' = outcome
               /\ tid' = [tid EXCEPT ![x] = t] /\ request_pool' = [request_pool EXCEPT ![t] = x]
               /\ timers' = timers \cup {[tid |-> t, at |-> now + TIMEOUT]}
               /\ stage' = [stage EXCEPT ![x] = "wait"] /\ sent' = sent \cup {[tid |-> t, key |-> k]}
      <3>1. t \in DN!Tid /\ request_pool[t] = 0
        <4>1. free \subseteq Nat
          BY DEF DN!Tid
        <4>2. t \in free
          BY Zenon, <2>5, <4>1, FreeIdFound
        <4> QED BY Zenon, <4>2
      <3> HIDE DEF t, free
      <3>2. /\ request_pool' \in [DN!Tid -> Query \cup {0}] /\ request_pool'[t] = x
            /\ \A u \in DN!Tid : u # t => request_pool'[u] = request_pool[u]
        BY <2>5, <3>1 DEF DnsTypes
      <3>3. /\ tid' \in [Query -> 0 .. MaxTid] /\ stage' \in [Query -> {"idle", "wait", "done"}]
            /\ tid'[x] = t /\ stage'[x] = "wait"
            /\ \A y \in Query : y # x => tid'[y] = tid[y] /\ stage'[y] = stage[y]
        BY <2>5, <3>1 DEF DnsTypes, DN!Tid
      <3>4. now \in Nat /\ retire \in Nat /\ retire <= now /\ TIMEOUT \in Nat
        BY DEF DnsTypes, DnsConstants
      <3>5. timers' \subseteq [tid : DN!Tid, at : Nat] /\ \A a \in sent' : a.tid \in DN!Tid
        BY <2>5, <3>1, <3>4 DEF DnsTypes
      <3>6. DnsTypes'
        <4>1. now' \in Nat /\ retire' \in Nat /\ retire' <= now'
          <5>1. now' = now /\ retire' = now
            BY Zenon, <2>1, <2>5
          <5> QED BY <3>4, <5>1
        <4> QED BY Zenon, <2>1, <2>2, <2>5, <3>2, <3>3, <3>5, <4>1 DEF DnsTypes, DN!Key, DN!Tid
      <3>7. PoolExact'
        <4>1. ASSUME NEW y \in Query, stage'[y] = "wait"
              PROVE  /\ tid'[y] \in DN!Tid /\ request_pool'[tid'[y]] = y /\ key'[y] \in DN!Key
                     /\ \E m \in timers' : m.tid = tid'[y] /\ m.at <= retire' + TIMEOUT
          <5>1. CASE y = x
            <6>1. \E m \in timers' : m.tid = t /\ m.at <= retire' + TIMEOUT
              <7> DEFINE mine == [tid |-> t, at |-> now + TIMEOUT]
              <7>1. mine \in timers' /\ mine.tid = t /\ mine.at <= retire' + TIMEOUT
                BY <2>5, <3>4
              <7> QED BY Zenon, <7>1
            <6> QED BY <5>1, <6>1, <2>2, <3>1, <3>2, <3>3
          <5>2. CASE y # x
            <6>1. stage[y] = "wait" /\ key'[y] = key[y] /\ tid'[y] = tid[y]
              BY <5>2, <2>2, <3>3, <4>1
            <6>2. PICK m \in timers : m.tid = tid[y] /\ m.at <= retire + TIMEOUT
              BY Zenon, <6>1 DEF PoolExact
            <6>3. m \in timers' /\ m.at <= retire' + TIMEOUT
              BY <2>5, <6>2, <3>4 DEF DnsTypes
            <6>4. tid[y] \in DN!Tid /\ request_pool[tid[y]] = y /\ key[y] \in DN!Key
              BY Zenon, <6>1 DEF PoolExact
            <6>5. tid[y] # t
              BY <3>1, <6>4 DEF DnsConstants
            <6> QED BY <3>2, <6>1, <6>2, <6>3, <6>4, <6>5
          <5> QED BY Zenon, <5>1, <5>2
        <4>2. ASSUME NEW u \in DN!Tid, request_pool'[u] # 0
              PROVE  stage'[request_pool'[u]] = "wait" /\ tid'[request_pool'[u]] = u
          BY <2>3, <3>2, <3>3, <4>2 DEF PoolExact
        <4> QED BY Zenon, <4>1, <4>2 DEF PoolExact, DN!Tid, DN!Key
      <3>8. DN!OpenWhileWaiting' /\ DN!OwnName'
        BY <2>2, <2>5, <3>3 DEF DN!OpenWhileWaiting, DN!OwnName
      <3> QED BY Zenon, <3>6, <3>7, <3>8
    <2> QED BY Zenon, <1>2, <2>4, <2>5 DEF DN!remote_resolve, DN!Return
  <1>3. ASSUME NEW a \in sent, NEW types \in SUBSET Type, NEW ttl \in TTL, NEW gc \in {{}, DN!Key},
               DN!Receive(a, types, ttl, gc)
        PROVE  DnsInv'
    <2>0. a.tid \in DN!Tid
      BY Zenon, <1>3 DEF DnsTypes
    <2>1. \A k \in DN!Key : cache'[k].of \in {k, <<>>}
      BY <1>3 DEF DN!Receive, DN!None, DnsTypes
    <2>2. now' = now /\ key' = key /\ sent' = sent /\ open' = open /\ retire' = retire /\ timers' = timers
      BY Zenon, <1>3 DEF DN!Receive
    <2>3. CASE request_pool[a.tid] = 0
      <3>1. stage' = stage /\ outcome' = outcome /\ request_pool' = request_pool /\ tid' = tid
        BY Zenon, <1>3, <2>3 DEF DN!Receive
      <3> QED BY Zenon, <2>1, <2>2, <3>1 DEF DnsTypes, PoolExact, DN!OpenWhileWaiting, DN!OwnName, DN!Key, DN!Tid
    <2>4. CASE request_pool[a.tid] # 0
      <3>1. key[request_pool[a.tid]] \in DN!Key
        BY <2>0, <2>4 DEF PoolExact, DnsTypes
      <3>2. DN!Woken(a.tid, cache', DN!AnswersOf(a.tid, a.key, cache'))
        BY Zenon, <1>3, <2>4 DEF DN!Receive
      <3>3. DN!AnswersOf(a.tid, a.key, cache') \in {key[request_pool[a.tid]], <<>>}
        BY Zenon, <2>1, <3>1 DEF DN!AnswersOf
      <3> QED BY Zenon, <2>0, <2>1, <2>2, <2>4, <3>2, <3>3, WokenKeeps
    <2> QED BY Zenon, <2>3, <2>4
  <1>4. ASSUME NEW m \in timers, DN!Timeout(m) PROVE DnsInv'
    <2>1. /\ timers' = timers \ {m} /\ m.tid \in DN!Tid
          /\ now' = now /\ key' = key /\ cache' = cache /\ sent' = sent /\ open' = open /\ retire' = retire
      BY Zenon, <1>4 DEF DN!Timeout, DnsTypes
    <2>2. timers' \subseteq timers /\ \A n \in timers : n.tid # m.tid => n \in timers'
      BY Zenon, <2>1
    <2>3. \A k \in DN!Key : cache[k].of \in {k, <<>>}
      BY Zenon DEF DnsTypes
    <2>4. CASE request_pool[m.tid] = 0
      <3>1. stage' = stage /\ outcome' = outcome /\ request_pool' = request_pool /\ tid' = tid
        BY Zenon, <1>4, <2>4 DEF DN!Timeout
      <3>2. DnsTypes' /\ DN!OpenWhileWaiting' /\ DN!OwnName'
        BY <2>1, <3>1 DEF DnsTypes, DN!OpenWhileWaiting, DN!OwnName, DN!Key, DN!Tid
      <3>3. \A x \in Query : stage[x] = "wait" => tid[x] # m.tid
        BY Zenon, <2>4 DEF PoolExact, DnsConstants
      <3>4. \A x \in Query : stage[x] = "wait" => \E n \in timers' : n.tid = tid[x] /\ n.at <= retire + TIMEOUT
        BY Zenon, <2>2, <3>3 DEF PoolExact
      <3>5. PoolExact'
        BY <2>1, <3>1, <3>4 DEF PoolExact, DN!Key, DN!Tid
      <3> QED BY Zenon, <3>2, <3>5
    <2>5. CASE request_pool[m.tid] # 0
      <3>1. DN!Woken(m.tid, cache, <<>>)
        BY Zenon, <1>4, <2>5 DEF DN!Timeout
      <3> QED BY Zenon, <2>1, <2>2, <2>3, <2>5, <3>1, WokenKeeps
    <2> QED BY Zenon, <2>4, <2>5
  <1>5. CASE DN!check_alive
    <2>1. /\ \A m \in timers : m.at > now
          /\ \/ open' = FALSE /\ sent' = {} /\ now > retire + DNS_SERVER_RETIRE
             \/ open' = open /\ sent' = sent
          /\ now' = now /\ stage' = stage /\ key' = key /\ tid' = tid /\ outcome' = outcome
          /\ request_pool' = request_pool /\ cache' = cache /\ retire' = retire /\ timers' = timers
      BY Zenon, <1>5 DEF DN!check_alive, DN!Unused
    <2>2. DnsTypes' /\ PoolExact' /\ DN!OwnName'
      BY Zenon, <2>1 DEF DnsTypes, PoolExact, DN!OwnName, DN!Key, DN!Tid
    <2>3. now > retire + DNS_SERVER_RETIRE => \A x \in Query : stage[x] # "wait"
      <3> SUFFICES ASSUME now > retire + DNS_SERVER_RETIRE, NEW x \in Query, stage[x] = "wait" PROVE FALSE
        BY Zenon
      <3>1. PICK m \in timers : m.at <= retire + TIMEOUT
        BY Zenon DEF PoolExact
      <3>2. m.at > now /\ m.at \in Nat
        BY <2>1, <3>1 DEF DnsTypes
      <3>3. now \in Nat /\ retire \in Nat /\ TIMEOUT \in Nat /\ DNS_SERVER_RETIRE \in Nat
            /\ TIMEOUT <= DNS_SERVER_RETIRE
        BY Zenon DEF DnsTypes, DnsConstants
      <3> QED BY <3>1, <3>2, <3>3
    <2>4. DN!OpenWhileWaiting'
      BY <2>1, <2>3 DEF DN!OpenWhileWaiting
    <2> QED BY Zenon, <2>2, <2>4
  <1>6. CASE DN!Collect(DN!Key)
    <2>1. \A k \in DN!Key : cache'[k].of = <<>>
      BY Zenon, <1>6 DEF DN!Collect, DN!None
    <2>2. /\ now' = now /\ stage' = stage /\ key' = key /\ tid' = tid /\ outcome' = outcome /\ sent' = sent
          /\ request_pool' = request_pool /\ open' = open /\ retire' = retire /\ timers' = timers
      BY Zenon, <1>6 DEF DN!Collect
    <2> QED BY Zenon, <2>1, <2>2 DEF DnsTypes, PoolExact, DN!OpenWhileWaiting, DN!OwnName, DN!Key, DN!Tid
  <1>7. CASE DN!Tick
    <2>1. /\ now' = now + 1 /\ stage' = stage /\ key' = key /\ tid' = tid /\ outcome' = outcome /\ sent' = sent
          /\ request_pool' = request_pool /\ cache' = cache /\ open' = open /\ retire' = retire /\ timers' = timers
      BY Zenon, <1>7 DEF DN!Tick
    <2>2. now' \in Nat /\ retire <= now'
      <3>1. now \in Nat /\ retire \in Nat /\ retire <= now
        BY Zenon DEF DnsTypes
      <3>2. now' = now + 1
        BY Zenon, <2>1
      <3> QED BY <3>1, <3>2
    <2> QED BY Zenon, <2>1, <2>2 DEF DnsTypes, PoolExact, DN!OpenWhileWaiting, DN!OwnName, DN!Key, DN!Tid
  <1>8. CASE UNCHANGED DN!vars
    BY Zenon, <1>8 DEF DN!vars, DnsTypes, PoolExact, DN!OpenWhileWaiting, DN!OwnName, DN!Key, DN!Tid
  <1> QED BY Zenon, <1>1, <1>2, <1>3, <1>4, <1>5, <1>6, <1>7, <1>8 DEF DN!Next

\* No query, no socket and no timer at first.
LEMMA DnsInvariant ==
    ASSUME DnsConstants
    PROVE  DN!Spec => []DnsInv
  <1>1. DN!Init => DnsInv
    BY DEF DN!Init, DnsInv, DnsConstants, DnsTypes, PoolExact, DN!OpenWhileWaiting, DN!OwnName, DN!None
  <1>2. DnsInv /\ [DN!Next]_DN!vars => DnsInv'
    BY Zenon, DnsStep
  <1> QED BY <1>1, <1>2, PTL DEF DN!Spec

\* Every query that waits is in the pool under its transaction id and has a timer,
\* however ids are used again, answers come late and timers find another query.
THEOREM DnsForgetsNobody ==
    ASSUME DnsConstants
    PROVE  DN!Spec => []DN!NobodyForgotten
  <1>1. DnsInv => DN!NobodyForgotten
    BY Zenon DEF DnsInv, PoolExact, DN!NobodyForgotten
  <1> QED BY <1>1, DnsInvariant, PTL

\* check_alive closes the socket under no query that waits for an answer, whatever the
\* two timeouts are, as long as TIMEOUT is not the longer one.
THEOREM DnsSocketStaysOpen ==
    ASSUME DnsConstants
    PROVE  DN!Spec => []DN!OpenWhileWaiting
  <1>1. DnsInv => DN!OpenWhileWaiting
    BY Zenon DEF DnsInv
  <1> QED BY <1>1, DnsInvariant, PTL

\* A query gets the records of its own name and type or none, although an answer to an
\* earlier query may carry its transaction id.
THEOREM DnsAnswersTheName ==
    ASSUME DnsConstants
    PROVE  DN!Spec => []DN!OwnName
  <1>1. DnsInv => DN!OwnName
    BY Zenon DEF DnsInv
  <1> QED BY <1>1, DnsInvariant, PTL
=============================================================================
