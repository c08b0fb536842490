------------------------------ MODULE Ancestry ------------------------------
(***************************************************************************)
(* How scx_teddy finds out which tasks belong to the specialization        *)
(* target.  Each entry of the statistics keeps the parent its task had     *)
(* when it was first seen, and a pointer that climbs from there towards    *)
(* init or the target: one step per classify cycle, or all the way when a  *)
(* CSV is collected.  The process tree changes underneath: tasks fork,     *)
(* clone, exit, and their children are given other parents.                *)
(*                                                                         *)
(* Pid 0 as a target is None; a parent of 0 is folded to InitPid where the *)
(* code folds it.  Event counts are reduced to whether min_events has been *)
(* reached.  A target set is loaded.                                       *)
(***************************************************************************)
EXTENDS Naturals, FiniteSets

CONSTANTS Pids,      \* thread ids; a process is the tid of its leader
          InitPid,   \* pid 1
          None,
          Worlds,    \* the settings a behaviour may have, see World
          MaxSteps   \* MAX_STEPS of climb_to_root

(* The command line: --mode, --csv-checkpoint.  The system: may processes   *)
(* have threads, which tasks may exit, may an entry have fewer events than        *)
(* --min-events; bound: how many tasks may get a tid one after another.     *)
World == [mode : {"classify", "collect"}, checkpoint : BOOLEAN, threads : BOOLEAN,
          exits : SUBSET Pids, few : BOOLEAN, births : [Pids -> Nat]]

ASSUME PidAssumption ==
  /\ InitPid \in Pids /\ None \notin Pids
  /\ Worlds \subseteq World /\ MaxSteps \in Nat \ {0}

VARIABLES
  world,  \* the settings of this behaviour
  alive,  \* the tid belongs to a task
  gen,    \* how many tasks have had it
  ppid,   \* real_parent->pid of the task, as the kernel has it now
  tgid,   \* the process of the task
  up,     \* history: all a task descends from, as of its fork
  stats,  \* stats_map: TaskStats of a tid, None before its first event
  target, \* target_ppid, None for 0
  phase,  \* "poll", "cycle", "done" or "panicked"
  todo,   \* the entries the cycle has yet to visit
  climb,  \* the climb_to_root under way: its entry and its steps so far
  marked  \* the snapshot or the CSV in the making: the root of a tid, if it is in

kernelVars == <<world, alive, gen, ppid, tgid, up>>
vars == <<world, alive, gen, ppid, tgid, up, stats, target, phase, todo, climb, marked>>

Stats == [real_ppid : Pids, ancestor : Pids, last_target : Pids \cup {None},
          exit : BOOLEAN, ready : BOOLEAN, need_update : BOOLEAN]

ASSUME EntryAssumption == None \notin Stats

NoClimb == [tid |-> None, steps |-> 0]

TypeOK ==
  /\ world \in Worlds
  /\ alive \in [Pids -> BOOLEAN] /\ gen \in [Pids -> Nat]
  /\ ppid \in [Pids -> Pids] /\ tgid \in [Pids -> Pids]
  /\ up \in [Pids -> SUBSET Pids]
  /\ stats \in [Pids -> Stats \cup {None}]
  /\ target \in Pids \cup {None}
  /\ phase \in {"poll", "cycle", "done", "panicked"}
  /\ todo \in SUBSET Pids /\ (\A t \in todo : stats[t] # None)
  /\ climb \in [tid : Pids \cup {None}, steps : 0 .. MaxSteps]
  /\ marked \in [Pids -> Pids \cup {None}]

Init ==
  /\ world \in Worlds
  /\ alive = [t \in Pids |-> t = InitPid]
  /\ gen = [t \in Pids |-> IF t = InitPid THEN 1 ELSE 0]
  /\ ppid = [t \in Pids |-> InitPid] /\ tgid = [t \in Pids |-> t]
  /\ up = [t \in Pids |-> {}]
  /\ stats = [t \in Pids |-> None]
  /\ target = None /\ phase = "poll" /\ todo = {} /\ climb = NoClimb
  /\ marked = [t \in Pids |-> None]

(***************************************************************************)
(* The kernel's process tree.                                              *)
(***************************************************************************)
Fresh(c) == ~alive[c] /\ gen[c] < world.births[c]

Birth(c, parent, leader, ancestors) ==
  /\ Fresh(c)
  /\ alive' = [alive EXCEPT ![c] = TRUE]
  /\ gen' = [gen EXCEPT ![c] = @ + 1]
  /\ ppid' = [ppid EXCEPT ![c] = parent]
  /\ tgid' = [tgid EXCEPT ![c] = leader]
  /\ up' = [up EXCEPT ![c] = ancestors]
  /\ UNCHANGED <<world, stats, target, phase, todo, climb, marked>>

(* fork: the real parent of the new process is the thread that forks *)
Fork(p, c) ==
  /\ alive[p]
  /\ Birth(c, p, c, {p, tgid[p]} \cup up[p])

(* clone(CLONE_THREAD): the new thread has the real parent of its creator *)
Clone(p, c) ==
  /\ world.threads /\ alive[p] /\ p # InitPid
  /\ Birth(c, ppid[p], tgid[p], up[p])

(* the tasks above t in the tree the kernel has now *)
Above(t) ==
  {q \in Pids : \A S \in SUBSET Pids :
                  ppid[t] \in S /\ (\A u \in S : ppid[u] \in S) => q \in S}

(* A task exits, a leader after its threads.  Children of a thread pass to  *)
(* its leader, those of a process to init or to a subreaper above it.  The  *)
(* exit event marks the entry and clears the target, unless a cycle has     *)
(* paused the ring buffer or the buffer is full.                            *)
Exit(t) ==
  /\ t \in world.exits /\ alive[t] /\ t # InitPid
  /\ \A u \in Pids \ {t} : alive[u] => tgid[u] # t
  /\ alive' = [alive EXCEPT ![t] = FALSE]
  /\ \E r \in IF tgid[t] # t THEN {tgid[t]} ELSE {tgid[q] : q \in Above(t)} :
       ppid' = [u \in Pids |-> IF ppid[u] = t THEN r ELSE ppid[u]]
  /\ \/ /\ phase = "poll"
        /\ stats' = IF stats[t] = None THEN stats ELSE [stats EXCEPT ![t].exit = TRUE]
        /\ target' = IF target = t THEN None ELSE target
     \/ UNCHANGED <<stats, target>>
  /\ UNCHANGED <<world, gen, tgid, up, phase, todo, climb, marked>>

(***************************************************************************)
(* Between two cycles: process_event and the control poll.                 *)
(***************************************************************************)
(* slip: the entry starts from the task itself *)
FirstSeenSelf(t) == [real_ppid |-> t, ancestor |-> t, last_target |-> None,
                     exit |-> FALSE, ready |-> FALSE, need_update |-> FALSE]

(* TaskStats::new(event.parent) *)
FirstSeen(t) == [real_ppid |-> ppid[t], ancestor |-> ppid[t], last_target |-> None,
                 exit |-> FALSE, ready |-> FALSE, need_update |-> FALSE]

(* an event of t is taken from the ring buffer: the first one makes the     *)
(* entry, every one asks for a prediction, one brings it to min_events      *)
Event(t) ==
  /\ phase = "poll" /\ alive[t]
  /\ \E enough \in {TRUE, ~world.few} :
       LET s == IF stats[t] = None THEN FirstSeen(t) ELSE stats[t]
       IN  stats' = [stats EXCEPT ![t] = [s EXCEPT !.need_update = TRUE,
                                                   !.ready = @ \/ enough]]
  /\ UNCHANGED <<kernelVars, target, phase, todo, climb, marked>>

(* the control file names another live process, or 0 *)
SetTarget(p) ==
  /\ phase = "poll" /\ p # target
  /\ p \in {None} \cup {t \in Pids \ {InitPid} : alive[t] /\ tgid[t] = t}
  /\ target' = p
  /\ UNCHANGED <<kernelVars, stats, phase, todo, climb, marked>>

(* a classify cycle or a CSV begins: the entries with enough events *)
BeginCycle ==
  /\ phase = "poll" /\ phase' = "cycle"
  /\ todo' = {t \in Pids : stats[t] # None /\ ~stats[t].exit /\ stats[t].ready}
  /\ UNCHANGED <<kernelVars, stats, target, climb, marked>>

EndCycle ==
  /\ phase = "cycle" /\ todo = {}
  /\ phase' = IF world.mode = "collect" /\ ~world.checkpoint THEN "done" ELSE "poll"
  /\ marked' = [t \in Pids |-> None]
  /\ UNCHANGED <<kernelVars, stats, target, todo, climb>>

(***************************************************************************)
(* The climb.                                                              *)
(***************************************************************************)
(* slip: the pointer of any entry is followed, whatever its target *)
NextUpStale(a) ==
  IF stats[a] # None THEN {stats[a].ancestor}
  ELSE IF alive[a] THEN {tgid[ppid[a]]} ELSE {InitPid, tgid[ppid[a]]}

(* slip: the climb waits while the ancestor is stale *)
NextUpWaits(a) ==
  IF stats[a] # None
  THEN {IF stats[a].last_target = target THEN stats[a].ancestor ELSE a}
  ELSE IF alive[a] THEN {tgid[ppid[a]]} ELSE {InitPid, tgid[ppid[a]]}

(* climb_one_step, from ancestor a: its pointer if it was computed under    *)
(* the present target, its real parent if not; without an entry the PPid in *)
(* /proc, and init if /proc has no such process (any more)                  *)
NextUp(a) ==
  IF stats[a] # None
  THEN {IF stats[a].last_target = target THEN stats[a].ancestor ELSE stats[a].real_ppid}
  ELSE IF alive[a] THEN {tgid[ppid[a]]} ELSE {InitPid, tgid[ppid[a]]}

(* slip: the target does not end the climb *)
RootedAtInit(s) == s.ancestor = InitPid

(* the climb of an entry is over *)
Rooted(s) == s.ancestor \in {InitPid, target}

(* slip: the pointer is kept when the target changes *)
RestartedNever(s) == [s EXCEPT !.last_target = target]

(* the climb starts anew under another target *)
Restarted(s) ==
  IF s.last_target = target THEN s
  ELSE [s EXCEPT !.ancestor = s.real_ppid, !.last_target = target]

(* take_features_if_needed, and what the snapshot says: the target set is   *)
(* for the entries rooted at the target                                     *)
Classified(t, s) ==
  /\ stats' = [stats EXCEPT ![t] = [s EXCEPT !.need_update = FALSE]]
  /\ marked' = IF s.need_update THEN [marked EXCEPT ![t] = s.ancestor] ELSE marked

(* run_classify_cycle, one entry: restart, one step up, prediction *)
Visit(t) ==
  /\ world.mode = "classify" /\ phase = "cycle" /\ t \in todo
  /\ todo' = todo \ {t}
  /\ LET s == Restarted(stats[t])
     IN  \/ Rooted(s) /\ Classified(t, s)
         \/ /\ ~Rooted(s) /\ s.ancestor # t
            /\ \E a \in NextUp(s.ancestor) : Classified(t, [s EXCEPT !.ancestor = a])
  /\ UNCHANGED <<kernelVars, target, phase, climb>>

(* collect_data, one entry: climb_to_root step by step *)
CollectStep(t) ==
  /\ world.mode = "collect" /\ phase = "cycle" /\ t \in todo /\ climb.tid \in {None, t}
  /\ ~Rooted(stats[t]) /\ climb.steps < MaxSteps /\ stats[t].ancestor # t
  /\ \E a \in NextUp(stats[t].ancestor) : stats' = [stats EXCEPT ![t].ancestor = a]
  /\ climb' = [tid |-> t, steps |-> climb.steps + 1]
  /\ UNCHANGED <<kernelVars, target, phase, todo, marked>>

(* ... and its row of the CSV, rooted at init after MAX_STEPS *)
CollectRow(t) ==
  /\ world.mode = "collect" /\ phase = "cycle" /\ t \in todo /\ climb.tid \in {None, t}
  /\ Rooted(stats[t]) \/ climb.steps = MaxSteps
  /\ LET root == IF climb.steps < MaxSteps THEN stats[t].ancestor ELSE InitPid
     IN  /\ stats' = [stats EXCEPT ![t].ancestor = root]
         /\ marked' = [marked EXCEPT ![t] = root]
  /\ todo' = todo \ {t} /\ climb' = NoClimb
  /\ UNCHANGED <<kernelVars, target, phase>>

(* The entry that climbs is mutably borrowed: a step through the entry      *)
(* itself panics.                                                           *)
SelfBorrow(t) ==
  /\ phase = "cycle" /\ t \in todo /\ climb.tid \in {None, t} /\ climb.steps < MaxSteps
  /\ LET s == IF world.mode = "classify" THEN Restarted(stats[t]) ELSE stats[t]
     IN  ~Rooted(s) /\ s.ancestor = t
  /\ phase' = "panicked"
  /\ UNCHANGED <<kernelVars, stats, target, todo, climb, marked>>

Next ==
  \/ \E p, c \in Pids : Fork(p, c) \/ Clone(p, c)
  \/ \E t \in Pids : Exit(t) \/ Event(t) \/ Visit(t) \/ CollectStep(t) \/ CollectRow(t)
                     \/ SelfBorrow(t)
  \/ \E p \in Pids \cup {None} : SetTarget(p)
  \/ BeginCycle \/ EndCycle

Spec == Init /\ [][Next]_vars

(* The main loop goes on, and tasks go on waking up: each of them has an    *)
(* event between some two cycles again and again.                           *)
FairSpec ==
  /\ Spec /\ WF_vars(BeginCycle) /\ WF_vars(EndCycle)
  /\ \A t \in Pids : WF_vars(Visit(t)) /\ SF_vars(Event(t))

-----------------------------------------------------------------------------
(* no pid has been used twice *)
UsedOnce == \A t \in Pids : gen[t] <= 1

(* ... and the tree has only grown, by forks *)
OnlyForks == UsedOnce /\ \A t \in Pids : (gen[t] # 0 => alive[t]) /\ tgid[t] = t

(* Nobody is taken for a descendant of the target who is none: a pointer    *)
(* that stands on the target belongs to a task that descends from it, also  *)
(* across changes of the target, exits, reparenting and stale pointers.     *)
FamilySound ==
  UsedOnce =>
    \A t \in Pids : stats[t] # None /\ stats[t].ancestor = target => target \in up[t]

(* No descendant is missed while all of its ancestors live: the climb under *)
(* the present target never passes the target on its way to init.           *)
FamilyComplete ==
  OnlyForks /\ world.mode = "classify" =>
    \A t \in Pids :
      stats[t] # None /\ stats[t].last_target = target /\ target \in up[t]
        => stats[t].ancestor = target \/ target \in up[stats[t].ancestor]

(* Each visit takes a pointer that is not at its root strictly upwards, so  *)
(* an N-deep chain converges in N cycles.                                   *)
ClimbAdvances ==
  [][\A t \in Pids :
       UsedOnce /\ Visit(t) /\ ~Rooted(Restarted(stats[t]))
         => stats'[t].ancestor \in up[Restarted(stats[t]).ancestor]]_vars

(* Once in the family of a target a task stays in it, whoever exits and     *)
(* whoever gets its pid.                                                    *)
FamilyKept ==
  [][\A t \in Pids :
       world.mode = "classify" /\ stats[t] # None
         /\ stats[t].ancestor = target /\ stats[t].last_target = target /\ target' = target
       => stats'[t].ancestor = target]_vars

(* The climb never borrows the entry it is climbing for ("a task to be its  *)
(* own ancestor, which can't happen") ...                                   *)
NeverPanics == phase # "panicked"

(* ... as long as no pid is used twice. *)
PanicsOnReuse == UsedOnce => NeverPanics

(* The CSV written at the end names the target for every descendant of it   *)
(* that is at most MAX_STEPS below init, while all of its ancestors live.   *)
CollectedUnderTarget ==
  [][\A t \in Pids :
       OnlyForks /\ ~world.checkpoint /\ CollectRow(t)
         /\ target \in up[t] /\ Cardinality(up[t]) <= MaxSteps
       => marked'[t] = target]_vars

(* A descendant of a target that stays, with enough events, is classified   *)
(* with the target's policy again and again, and in the end with no other.  *)
FamilySpecialized ==
  \A t, p \in Pids :
    <>[](target = p /\ p \in up[t] /\ alive[t] /\ stats[t] # None /\ stats[t].ready)
      => []<>(marked[t] = p) /\ <>[](marked[t] \in {None, p})

=============================================================================
