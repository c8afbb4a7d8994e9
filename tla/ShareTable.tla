----------------------------- MODULE ShareTable -----------------------------
(***************************************************************************)
(* Shared tables: the sharetable service keeps one Lua state (a matrix)    *)
(* for each version of a file and the services that asked for it; a        *)
(* service clones the table of a matrix and keeps reading its memory until *)
(* it exits.  One file.                                                    *)
(***************************************************************************)
EXTENDS Integers, FiniteSets, Sequences, FiniteSetsExt

CONSTANTS
    Client,         \* services that use the table
    MaxMatrix       \* bound on the matrices

VARIABLES
    file,           \* files[filename]: a matrix, 0 for none
    closed,         \* matrices whose Lua state is closed (getptr gives nil)
    made,           \* number of matrices made
    refs,           \* matrix: [known: has an entry, count, refs]
    clients,        \* service: the matrices of its list
    asked,          \* service: "no", "sent", "told" (an answer is on its way)
    answer,         \* service: that answer, 0 for none
    held,           \* service: the matrices it has cloned
    gone            \* services that closed; their last message is handled last

vars == <<file, closed, made, refs, clients, asked, answer, held, gone>>

Matrix == 1 .. MaxMatrix

NoRef == [known |-> FALSE, count |-> 0, refs |-> {}]

-----------------------------------------------------------------------------
(* The service.                                                            *)

Unused(m) == ~refs[m].known \/ refs[m].count = 0

\* close_matrix of the version that is replaced: nil has no entry to clear.
Replaceable == file \notin closed

Load ==
    /\ Replaceable /\ made < MaxMatrix
    /\ made' = made + 1
    /\ file' = made + 1
    /\ IF file # 0 /\ Unused(file)
       THEN closed' = closed \cup {file} /\ refs' = [refs EXCEPT ![file] = NoRef]
       ELSE UNCHANGED <<closed, refs>>
    /\ UNCHANGED <<clients, asked, answer, held, gone>>

\* matrix_from_file raises the error of the file: the name keeps its matrix,
\* and from then on every load and query of it fails.
LoadFailed ==
    /\ Replaceable /\ file # 0
    /\ Unused(file)
    /\ closed' = closed \cup {file} /\ refs' = [refs EXCEPT ![file] = NoRef]
    /\ UNCHANGED <<file, made, clients, asked, answer, held, gone>>

\* query: the error of a closed matrix answers as no table does.
Query(c) ==
    /\ asked[c] = "sent"
    /\ asked' = [asked EXCEPT ![c] = "told"]
    /\ IF file = 0 \/ file \in closed
       THEN answer' = [answer EXCEPT ![c] = 0] /\ UNCHANGED <<refs, clients>>
       ELSE /\ answer' = [answer EXCEPT ![c] = file]
            /\ refs' = [refs EXCEPT ![file] =
                            [known |-> TRUE, refs |-> @.refs \cup {c},
                             count |-> IF c \in @.refs THEN @.count ELSE @.count + 1]]
            /\ clients' = [clients EXCEPT ![c] = @ \cup {file}]
    /\ UNCHANGED <<file, closed, made, held, gone>>

\* The version goes with its last service when it is not the current one.
Dropped(m, r) == r.count = 1 /\ m # file

Close(c) ==
    LET mine == {m \in clients[c] : refs[m].known /\ c \in refs[m].refs}
        dead == {m \in mine : Dropped(m, refs[m])}
    IN  /\ gone[c] = "closing" /\ asked[c] # "sent"
        /\ gone' = [gone EXCEPT ![c] = "gone"]
        /\ clients' = [clients EXCEPT ![c] = {}]
        /\ closed' = closed \cup dead
        /\ refs' = [m \in Matrix |->
                      IF m \in dead THEN NoRef
                      ELSE IF m \in mine
                      THEN [refs[m] EXCEPT !.refs = @ \ {c}, !.count = @ - 1]
                      ELSE refs[m]]
        /\ UNCHANGED <<file, made, asked, answer, held>>

-----------------------------------------------------------------------------
(* The services that use it.                                               *)

Ask(c) ==
    /\ gone[c] = "no" /\ asked[c] = "no"
    /\ asked' = [asked EXCEPT ![c] = "sent"]
    /\ UNCHANGED <<file, closed, made, refs, clients, answer, held, gone>>

Clone(c) ==
    /\ asked[c] = "told"
    /\ asked' = [asked EXCEPT ![c] = "no"]
    /\ held' = IF gone[c] = "no" THEN [held EXCEPT ![c] = (@ \cup {answer[c]}) \ {0}] ELSE held
    /\ UNCHANGED <<file, closed, made, refs, clients, answer, gone>>

\* The finalizer of the library when the service exits.
report_close(c) ==
    /\ gone[c] = "no"
    /\ gone' = [gone EXCEPT ![c] = "closing"]
    /\ held' = [held EXCEPT ![c] = {}]
    /\ UNCHANGED <<file, closed, made, refs, clients, asked, answer>>

-----------------------------------------------------------------------------
Init ==
    /\ file = 0 /\ closed = {} /\ made = 0
    /\ refs = [m \in Matrix |-> NoRef]
    /\ clients = [c \in Client |-> {}] /\ asked = [c \in Client |-> "no"]
    /\ answer = [c \in Client |-> 0] /\ held = [c \in Client |-> {}]
    /\ gone = [c \in Client |-> "no"]

Next ==
    \/ Load \/ LoadFailed
    \/ \E c \in Client : Query(c) \/ Close(c) \/ Ask(c) \/ Clone(c) \/ report_close(c)

Spec == Init /\ [][Next]_vars

-----------------------------------------------------------------------------
\* Every variable keeps its type; count is the number of services recorded.
TypeOK ==
    /\ file \in 0 .. made /\ made \in 0 .. MaxMatrix /\ closed \subseteq 1 .. made
    /\ \A m \in Matrix : refs[m].refs \subseteq Client /\ refs[m].count = Cardinality(refs[m].refs)
    /\ clients \in [Client -> SUBSET Matrix] /\ held \in [Client -> SUBSET Matrix]
    /\ asked \in [Client -> {"no", "sent", "told"}] /\ answer \in [Client -> 0 .. MaxMatrix]
    /\ gone \in [Client -> {"no", "closing", "gone"}]

\* The Lua state of a table that a live service has cloned, or is about to clone,
\* is never closed: its memory is read without a lock.
MatrixAlive ==
    \A c \in Client : gone[c] = "no" =>
        /\ held[c] \cap closed = {}
        /\ asked[c] = "told" => answer[c] \notin closed

\* A version that is neither current nor recorded for a service is closed: loads
\* do not pile up states.
NoLeak ==
    \A m \in 1 .. made : (m # file /\ m \notin closed) => refs[m].count > 0

-----------------------------------------------------------------------------
(***************************************************************************)
(* sharetable.update in one service: every reference to a table of the old *)
(* versions of a file is replaced by the table at the same path of the new *)
(* one, in all the tables, functions, coroutines and userdata that can be  *)
(* reached from the registry.  An object of the service has slots (values, *)
(* keys and metatable of a table, upvalues of a function, locals of a      *)
(* coroutine, user value and metatable of a userdata); a shared table is   *)
(* named by its version and path, and the walk never enters it.            *)
(***************************************************************************)

CONSTANTS
    Object,         \* objects of the service
    Root,           \* the registry, one of them
    Userdata,       \* those that are userdata
    Slot,           \* slots of an object
    UserValue,      \* the slot of a userdata that is its user value
    OldPaths,       \* table paths of the old version
    NewPaths        \* table paths of the new version

VARIABLES
    heap,           \* object, slot: an object, a shared table or nil
    before,         \* the heap when the walk began
    replace_map,    \* old tables: the table that replaces them or NILOBJ
    record_map,     \* objects that were walked
    stack           \* objects that are to be walked

Ref(kind, path) == [kind |-> kind, path |-> path]

Nil == Ref("nil", <<>>)

Obj(o) == Ref("object", <<o>>)

Old == {Ref("old", p) : p \in OldPaths}

New == {Ref("new", p) : p \in NewPaths}

Value == {Obj(o) : o \in Object} \cup Old

-----------------------------------------------------------------------------
\* insert_replace: the table at the same path, nil where the new version has none,
\* below a table that is gone too.  A value that is no table is first noted as the
\* replacement, and then overwritten: the call below it is given NILOBJ in its place
\* and notes that at its end.
Replaced(p) == IF p \in NewPaths THEN Ref("new", p) ELSE Nil

\* One value of the object that is walked: replaced, or to be walked itself.
match_value(v) == IF v.kind = "old" THEN replace_map[v.path] ELSE v

\* match_userdata replaces the user value but does not walk it.
Walked(o) == IF o \in Userdata THEN Slot \ {UserValue} ELSE Slot

Walk(o) ==
    LET met == {x \in Object \ record_map : \E s \in Walked(o) : heap[o][s] = Obj(x)}
    IN  /\ o \in stack
        /\ heap' = [heap EXCEPT ![o] = [s \in Slot |-> match_value(@[s])]]
        /\ record_map' = record_map \cup met
        /\ stack' = (stack \ {o}) \cup met
        /\ UNCHANGED <<before, replace_map>>

-----------------------------------------------------------------------------
UpdateInit ==
    /\ heap \in [Object -> [Slot -> Value]]
    /\ before = heap
    /\ replace_map = [p \in OldPaths |-> Replaced(p)]
    /\ record_map = {} /\ stack = {Root}

UpdateNext == \E o \in Object : Walk(o)

-----------------------------------------------------------------------------
\* Slots hold objects, tables of either version or nil.
UpdateTypeOK ==
    /\ heap \in [Object -> [Slot -> Value \cup New \cup {Nil}]]
    /\ replace_map \in [OldPaths -> New \cup {Nil}]
    /\ record_map \subseteq Object /\ stack \subseteq Object

Reach[n \in Nat] ==
    IF n = 0 THEN {Root}
    ELSE Reach[n - 1] \cup {x \in Object : \E o \in Reach[n - 1] : \E s \in Slot :
                                /\ before[o][s] = Obj(x)
                                /\ ~(o \in Userdata /\ s = UserValue)}

\* When the walk ends every object that the registry reaches without passing
\* through a user value holds the new tables in the place of the old ones, nil
\* for those that are gone, and what it held otherwise.
AllReplaced ==
    stack = {} =>
        \A o \in Reach[Cardinality(Object)], s \in Slot :
            LET v == before[o][s]
            IN  heap[o][s] = IF v.kind # "old" THEN v
                             ELSE IF v.path \in NewPaths THEN Ref("new", v.path) ELSE Nil

=============================================================================
