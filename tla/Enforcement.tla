---------------------------- MODULE Enforcement ----------------------------
(***************************************************************************)
(* What a scheduler promises about the policies it enforces.  A policy     *)
(* gives each cluster of a model a setting; None is no policy at all.      *)
(***************************************************************************)
EXTENDS Naturals

CONSTANTS None, Floor
VARIABLES default, target

vars == <<default, target>>

(* every cluster has CPUs to run on, and no less than the least slice *)
Sound(policy) ==
  \A c \in DOMAIN policy : policy[c].cpus # {} /\ policy[c].slice >= Floor

Init == default = None /\ target = None

Begin ==
  /\ default = None
  /\ default' # None /\ Sound(default')
  /\ target' = None \/ Sound(target')

(* the target family is given a policy of its own, or loses it *)
Retarget ==
  /\ default # None /\ default' = default
  /\ target' = None \/ Sound(target')

End == default # None /\ default' = None /\ target' = None

Next == Begin \/ Retarget \/ End

Spec == Init /\ [][Next]_vars
=============================================================================
