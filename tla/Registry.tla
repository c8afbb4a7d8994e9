------------------------------ MODULE Registry ------------------------------
(***************************************************************************)
(* What service_manager promises about handles and names: a map from the   *)
(* handles in use to the services, a map from names to handles, and exact  *)
(* answers to every lookup.                                                *)
(***************************************************************************)
EXTENDS Integers, Functions

CONSTANTS Svc, Name, Mask, None

VARIABLES owner,   \* handle -> the service registered under it
          alias,   \* name -> the handle it stands for
          answer   \* what the last operation returned, if it was a lookup or a naming

vars == <<owner, alias, answer>>

Handle == 1 .. Mask

Init ==
    /\ owner = [h \in {} |-> None]
    /\ alias = [nm \in {} |-> 0]
    /\ answer = None

\* A service gets a handle that no other service has.
Register(h, s) ==
    /\ h \in Handle \ DOMAIN owner
    /\ s \notin Range(owner)
    /\ owner' = [k \in DOMAIN owner \cup {h} |-> IF k = h THEN s ELSE owner[k]]
    /\ answer' = None
    /\ UNCHANGED alias

\* A service goes, and its names with it.
Unregister(h) ==
    /\ h \in DOMAIN owner
    /\ owner' = Restrict(owner, DOMAIN owner \ {h})
    /\ alias' = Restrict(alias, {nm \in DOMAIN alias : alias[nm] # h})
    /\ answer' = None

\* A name is given once; the answer says whether it was.
SetName(nm, h) ==
    /\ alias' = IF nm \in DOMAIN alias THEN alias
                ELSE [k \in DOMAIN alias \cup {nm} |-> IF k = nm THEN h ELSE alias[k]]
    /\ answer' = IF nm \in DOMAIN alias THEN 0 ELSE 1
    /\ UNCHANGED owner

Grab(h) ==
    /\ answer' = IF h \in DOMAIN owner THEN owner[h] ELSE None
    /\ UNCHANGED <<owner, alias>>

FindByName(nm) ==
    /\ answer' = IF nm \in DOMAIN alias THEN alias[nm] ELSE 0
    /\ UNCHANGED <<owner, alias>>

\* A step of an operation that has not yet, or no longer, an effect.
Internal == answer' = None /\ UNCHANGED <<owner, alias>>

Next ==
    \/ \E h \in Handle : Unregister(h) \/ Grab(h)
                            \/ (\E s \in Svc : Register(h, s))
                            \/ (\E nm \in Name : SetName(nm, h))
    \/ \E nm \in Name : FindByName(nm)
    \/ Internal

Spec == Init /\ [][Next]_vars

=============================================================================
