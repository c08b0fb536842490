---------------------------- MODULE MCEventPipe -----------------------------
(***************************************************************************)
(* Instances of EventPipe for TLC: the main thread and one other tid, a    *)
(* ring of one or two events, a few events per tid.                        *)
(***************************************************************************)
EXTENDS EventPipe, TLC

CONSTANTS p1, own, s1, s2

TwoTids    == {p1, own}
OneSetting == {s1}
TwoSettings == {s1, s2}

(* a tid that is classified twice; the main thread has enough events to be *)
ThreeAndTwo == (p1 :> 3) @@ (Own :> 2)
OneEvent    == (p1 :> 1) @@ (Own :> 0)
=============================================================================
