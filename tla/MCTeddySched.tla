---------------------------- MODULE MCTeddySched ----------------------------
(***************************************************************************)
(* Instances of TeddySched for TLC: two CPUs of one kind or of two, two    *)
(* tasks, two priorities of which the first is critical.                   *)
(***************************************************************************)
EXTENDS TeddySched, TLC

CONSTANTS t1, t2, c1, c2

TwoTasks   == {t1, t2}
TwoCpus    == {c1, c2}

(* c1 is a fast core (kind 1), c2 a slow one (kind 2) *)
Hybrid     == (c1 :> 1) @@ (c2 :> 2)
Uniform    == (c1 :> 1) @@ (c2 :> 1)
FastFirst  == <<c1, c2>>

Setting(prio, kind, prefer, ns) ==
  [prio |-> prio, kind |-> kind, prefer |-> prefer, slice |-> ns]

(* a critical cluster bound to the fast kind, one preferring slow cores;    *)
(* other tasks have the default setting, in the background                  *)
CriticalSettings == {Setting(0, 1, 0, 1), Setting(0, 0, 2, 1)}
(* a critical cluster without a kind; all others are in the background *)
SharedSettings == {Setting(0, 0, 2, 1)}
(* a background cluster bound to the fast kind *)
KindSettings   == {Setting(1, 1, 0, 1)}

Anywhere       == {TwoCpus}
AnywhereOrSlow == {TwoCpus, {c2}}

(* tasks of the instances are interchangeable *)
TaskSymmetry == Permutations(Tasks)
=============================================================================
