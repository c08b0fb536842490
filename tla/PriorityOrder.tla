--------------------------- MODULE PriorityOrder ---------------------------
(***************************************************************************)
(* The order in which the CPUs of TeddySched pick their tasks.  A dispatch *)
(* walk reads the DSQs one after another while other CPUs fill and empty   *)
(* them, so "the most urgent task first" can only be claimed of the tasks  *)
(* that were there when the walk began and have waited since.  A history   *)
(* variable keeps those; no step of TeddySched depends on it.              *)
(***************************************************************************)
EXTENDS TeddySched

VARIABLE waited   \* history: per CPU, the tasks its walk has kept waiting
orderVars == <<ctx, update_map, allowed, home, where, verdict, slice, dsq,
               local, curr, idle, resched, walk, waited>>

(* a walk begins with what is queued; who leaves the DSQs, or is put back   *)
(* into one because its affinity changed, has not waited since              *)
StillWaiting(c) ==
  {t \in Tasks :
     /\ walk'[c] # None /\ where'[t] = "dsq"
     /\ walk[c] = None \/ (t \in waited[c] /\ allowed'[t] = allowed[t])}
Remember == waited' = [c \in Cpus |-> StillWaiting(c)]

OrderInit == Init /\ waited = [c \in Cpus |-> {}]
OrderNext == Next /\ Remember
OrderSpec == OrderInit /\ [][OrderNext]_orderVars

-----------------------------------------------------------------------------
(* CPU c may run a task, and its walk looks at the DSQ the task is in *)
Serves(c, t) ==
  c \in allowed[t] /\ (ctx[t] = None \/ ctx[t].kind \in {0, KindOf[c]})

(* the step of a walk in which a task is found *)
SlotOf(x) == 2 * PrioOf(x) + (IF x = None \/ x.kind = 0 THEN 0 ELSE 1)

(* c pulls a task out of a DSQ *)
Takes(c, t) == where[t] = "dsq" /\ where'[t] = "local" /\ home'[t] = c

(* Strict priority: of the tasks a CPU serves that have waited since it     *)
(* entered schedule(), teddy_dispatch never pulls one while a more urgent   *)
(* one -- lower prio, or the shared slot before the kind's of the same prio *)
(* -- waits, and the CPU does not give up while any of them is left.        *)
PrioritiesRespected ==
  [][\A c \in Cpus : \A u \in waited[c] :
       Serves(c, u)
         => /\ \A t \in Tasks : Takes(c, t) => SlotOf(ctx[t]) <= SlotOf(ctx[u])
            /\ ~NothingFound(c)]_orderVars

(* why: the walk has passed no task that has waited since it began *)
WalkBehind ==
  \A c \in Cpus : \A u \in waited[c] :
    walk[c] # None /\ where[u] = "dsq" /\ (Serves(c, u) => walk[c] <= SlotOf(ctx[u]))
=============================================================================
