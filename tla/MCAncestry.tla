----------------------------- MODULE MCAncestry -----------------------------
(***************************************************************************)
(* Instances of Ancestry for TLC: init and two or three other tasks.       *)
(***************************************************************************)
EXTENDS Ancestry, TLC

CONSTANTS i, a, b, c

ThreePids == {i, a, b}
FourPids  == {i, a, b, c}

Births(S, k) == [t \in Pids |-> IF t \in S THEN k ELSE 0]

(* three tasks below init that stay *)
Plain == [mode |-> "classify", checkpoint |-> FALSE, threads |-> FALSE, exits |-> {},
          few |-> TRUE, births |-> Births(FourPids, 1)]
(* ... of which t may exit *)
Exiting(t) == [Plain EXCEPT !.exits = {t}, !.few = FALSE]
(* threads, exits and a pid t that is used again, with one other below init *)
Reused(t, u) == [Plain EXCEPT !.exits = Pids, !.few = FALSE, !.threads = TRUE,
                              !.births = [Births({u}, 1) EXCEPT ![t] = 2]]
(* one CSV, at the end *)
Collecting == [Plain EXCEPT !.mode = "collect"]

SafetyWorlds == {Collecting} \cup {Exiting(t) : t \in {a, b, c}}
                  \cup {Reused(t, u) : t, u \in {a, b, c}}
PlainOnly    == {Plain}
ReusedOnly   == {Reused(a, b)}

PidSymmetry == Permutations(Pids \ {InitPid})
=============================================================================
