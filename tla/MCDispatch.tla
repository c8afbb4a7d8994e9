----------------------------- MODULE MCDispatch -----------------------------
(***************************************************************************)
(* Instances of Dispatch for TLC: two workers of different weight, two     *)
(* services at boot and one that may be created.                           *)
(***************************************************************************)
EXTENDS Dispatch, TLC

CONSTANTS s1, s2, s3, w1, w2, o1

MCSvc == {s1, s2, s3}
MCOne == {s1}
MCTwo == {s1, s2}
MCBoot == {s1, s2}
MCWorker == {w1, w2}
MCOther == {o1}
MCNoOther == {}
MCNone == {}
MCSecond == {s2}
MCWeight == (w1 :> -1) @@ (w2 :> 0)
=============================================================================
