------------------------------ MODULE EventLog ------------------------------
(***************************************************************************)
(* What the path of event counts from the BPF callbacks to the statistics  *)
(* promises: counts are made in the kernel, and each of them is seen by    *)
(* userspace once, or lost with its task, or still under way.  Nothing is  *)
(* counted twice and nothing is invented.  EventPipe implements it.        *)
(***************************************************************************)
EXTENDS Naturals

CONSTANT Tids

VARIABLES made,   \* events counted by update_event_data, per tid
          seen,   \* events added to the statistics of the tid
          lost    \* events that died with a task

logVars == <<made, seen, lost>>

Init ==
  /\ made = [t \in Tids |-> 0]
  /\ seen = [t \in Tids |-> 0]
  /\ lost = [t \in Tids |-> 0]

UnderWay(t) == made[t] - (seen[t] + lost[t])

Make(t) ==
  /\ made' = [made EXCEPT ![t] = @ + 1]
  /\ UNCHANGED <<seen, lost>>

(* k events arrive *)
See(t, k) ==
  /\ k <= UnderWay(t)
  /\ seen' = [seen EXCEPT ![t] = @ + k]
  /\ UNCHANGED <<made, lost>>

(* the task exits with k events not sent *)
Lose(t, k) ==
  /\ k <= UnderWay(t)
  /\ lost' = [lost EXCEPT ![t] = @ + k]
  /\ UNCHANGED <<made, seen>>

Next ==
  \E t \in Tids : \/ Make(t)
                  \/ \E k \in 0 .. UnderWay(t) : See(t, k) \/ Lose(t, k)

Spec == Init /\ [][Next]_logVars
=============================================================================
