--------------------------------- MODULE Stm --------------------------------
(***************************************************************************)
(* lua-stm.cpp and sharemap.lua: a writer publishes copies of an object,   *)
(* readers in other threads take the newest one.  The writer hands a       *)
(* reader the object by stm.copy (l_copy), which counts the reference, in  *)
(* a message.  What a function does under rw_mutex is one step, and what   *)
(* it does after it another.  In the two functions that give the object    *)
(* up the unlock of the guard is a step of its own: it comes after the     *)
(* reference is gone, and the readers' guards are shared.                  *)
(***************************************************************************)
EXTENDS Integers, Sequences, FiniteSets

CONSTANTS
    Reader,         \* services that read
    MaxCopy         \* bound on the copies made

ASSUME ReaderAssumption == IsFiniteSet(Reader)

VARIABLES
    reference,      \* references to the object
    copy,           \* the newest copy, 0 after the writer is gone
    deleted,        \* the object was deleted
    writer,         \* the writer: open, unlock (its guard holds rw_mutex), gone
    copies,         \* reference counts of the copies made, 0: deleted
    lastcopy,       \* per reader: the copy it holds, 0 for none
    pc,             \* per reader: none, sent, idle, took, unlock (its guard shares
                    \* rw_mutex), last (it has its last copy to give back), gone
    took            \* per reader: the copy that l_read took under the lock

vars == <<reference, copy, deleted, writer, copies, lastcopy, pc, took>>

stm_releasecopy(cs, c) == IF c = 0 THEN cs ELSE [cs EXCEPT ![c] = @ - 1]

-----------------------------------------------------------------------------
(* The writer.                                                             *)

\* A unique_lock is to be had: no reader is inside stm_releasereader.
Exclusive == \A r \in Reader : pc[r] # "unlock"

Updated(cs) == Append(stm_releasecopy(cs, copy), 1)

\* sharemap:commit
stm_update ==
    /\ writer = "open" /\ Len(copies) < MaxCopy /\ Exclusive
    /\ copies' = Updated(copies)
    /\ copy' = Len(copies')
    /\ UNCHANGED <<reference, deleted, writer, lastcopy, pc, took>>

\* Mutant: the reference for the reader is not counted.
l_copy_bare(r) ==
    /\ writer = "open" /\ pc[r] = "none"
    /\ pc' = [pc EXCEPT ![r] = "sent"]
    /\ UNCHANGED <<reference, copy, deleted, writer, copies, lastcopy, took>>

\* sharemap:copy: the object is sent to a reader.
l_copy(r) ==
    /\ writer = "open" /\ pc[r] = "none"
    /\ reference' = reference + 1
    /\ pc' = [pc EXCEPT ![r] = "sent"]
    /\ UNCHANGED <<copy, deleted, writer, copies, lastcopy, took>>

\* The writer is collected: the last copy and the reference under the lock, ...
stm_release ==
    /\ writer = "open" /\ Exclusive
    /\ copies' = stm_releasecopy(copies, copy)
    /\ copy' = 0
    /\ reference' = reference - 1
    /\ deleted' = (reference <= 1)
    /\ writer' = "unlock"
    /\ UNCHANGED <<lastcopy, pc, took>>

\* ... then wlock unlocks rw_mutex as it goes out of scope, be the object
\* deleted or not; what that does to deleted memory is not seen here.
WriterUnlock ==
    /\ writer = "unlock"
    /\ writer' = "gone"
    /\ UNCHANGED <<reference, copy, deleted, copies, lastcopy, pc, took>>

-----------------------------------------------------------------------------
(* The readers.                                                            *)

l_new_reader(r) ==
    /\ pc[r] = "sent"
    /\ pc' = [pc EXCEPT ![r] = "idle"]
    /\ UNCHANGED <<reference, copy, deleted, writer, copies, lastcopy, took>>

\* Mutant: the copy is taken without a reference.
TakenBare(cs, c) == cs

Taken(cs, c) == IF c = 0 THEN cs ELSE [cs EXCEPT ![c] = @ + 1]

\* l_read: stm_copy takes the newest copy under the lock, ...
ReadTake(r) ==
    /\ pc[r] = "idle" /\ writer # "unlock"
    /\ copies' = Taken(copies, copy)
    /\ took' = [took EXCEPT ![r] = copy]
    /\ pc' = [pc EXCEPT ![r] = "took"]
    /\ UNCHANGED <<reference, copy, deleted, writer, lastcopy>>

\* ... then either it is the one the reader has, or it replaces that one.
ReadKeep(r) ==
    /\ pc[r] = "took"
    /\ copies' = stm_releasecopy(copies, IF took[r] = lastcopy[r] THEN took[r] ELSE lastcopy[r])
    /\ lastcopy' = [lastcopy EXCEPT ![r] = took[r]]
    /\ pc' = [pc EXCEPT ![r] = "idle"]
    /\ UNCHANGED <<reference, copy, deleted, writer, took>>

\* l_delete_reader: stm_releasereader drops the reference under a shared lock, ...
ReleaseReader(r) ==
    /\ pc[r] = "idle" /\ writer # "unlock"
    /\ reference' = reference - 1
    /\ deleted' = (reference = 1)
    /\ pc' = [pc EXCEPT ![r] = "unlock"]
    /\ UNCHANGED <<copy, writer, copies, lastcopy, took>>

\* ... its guard rlock unlocks rw_mutex, the object's, be it deleted or not, ...
ReaderUnlock(r) ==
    /\ pc[r] = "unlock"
    /\ pc' = [pc EXCEPT ![r] = "last"]
    /\ UNCHANGED <<reference, copy, deleted, writer, copies, lastcopy, took>>

\* ... and the reader gives its last copy back.
ReleaseLast(r) ==
    /\ pc[r] = "last"
    /\ copies' = stm_releasecopy(copies, lastcopy[r])
    /\ lastcopy' = [lastcopy EXCEPT ![r] = 0]
    /\ pc' = [pc EXCEPT ![r] = "gone"]
    /\ UNCHANGED <<reference, copy, deleted, writer, took>>

-----------------------------------------------------------------------------
Init ==
    /\ reference = 1 /\ copy = 1 /\ copies = <<1>> /\ deleted = FALSE /\ writer = "open"
    /\ lastcopy = [r \in Reader |-> 0] /\ took = [r \in Reader |-> 0]
    /\ pc = [r \in Reader |-> "none"]

Next ==
    \/ stm_update \/ stm_release \/ WriterUnlock
    \/ \E r \in Reader : l_copy(r) \/ l_new_reader(r) \/ ReadTake(r) \/ ReadKeep(r)
                         \/ ReleaseReader(r) \/ ReaderUnlock(r) \/ ReleaseLast(r)

Spec == Init /\ [][Next]_vars

-----------------------------------------------------------------------------
\* Every variable keeps its type.
TypeOK ==
    /\ reference \in Nat /\ copies \in Seq(Nat) /\ copy \in 0..Len(copies)
    /\ \A r \in Reader : lastcopy[r] \in 0..Len(copies)

\* The object is deleted with its last reference, by the writer or by a reader
\* that finds copy == nullptr as stm_releasereader asserts, and not before: who
\* holds a reference finds the object alive.  Nothing is said of the guards of
\* those who have given theirs up; see NoNeedToUnlock.
ObjectAlive ==
    /\ writer = "open" <=> copy # 0
    /\ deleted <=> writer # "open" /\ \A r \in Reader : pc[r] \notin {"sent", "idle", "took"}

\* What stm_release and stm_releasereader say next to their delete, "no need to
\* unlock": when the object is deleted no guard has its mutex to unlock any more.
\* The guards are destroyed after the delete, and two readers share the lock.
NoNeedToUnlock ==
    deleted => writer # "unlock" /\ \A r \in Reader : pc[r] # "unlock"

\* A copy lives as long as it is the newest one or a reader holds it, also while
\* l_read has it in hand and the writer replaces it; and no longer.
CopiesAlive ==
    \A c \in DOMAIN copies :
        copies[c] > 0 <=>
            c = copy \/ \E r \in Reader : lastcopy[r] = c \/ (pc[r] = "took" /\ took[r] = c)
=============================================================================
